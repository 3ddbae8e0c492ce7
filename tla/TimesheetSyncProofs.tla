------------------------ MODULE TimesheetSyncProofs ------------------------
(* Proofs about TimesheetSync, for every value of its constants. *)
EXTENDS TimesheetSync, SequenceTheorems, TLAPS

(* The steps of editors, administrators and scripts keep the types. *)
LEMMA RowTypeOK == TypeOK /\ RowStep => TypeOK'
<1> SUFFICES ASSUME TypeOK, RowStep PROVE TypeOK'
  OBVIOUS
<1> USE SyncAssumption DEF TypeOK, rowVars, procVars, sideVars
<1>1. ASSUME NEW e \in Entry, NEW h \in Hours, Log(e, h) PROVE TypeOK'
  BY <1>1 DEF Log
<1>2. ASSUME NEW d \in Dev, NEW e \in Entry, ResolveEditable(d, e) PROVE TypeOK'
  <2>1. editing' \in [Dev -> SUBSET Entry]
    BY <1>2 DEF ResolveEditable
  <2>. QED
    BY <1>2, <2>1 DEF ResolveEditable
<1>10. ASSUME NEW d \in Dev, NEW q \in Project, ResolveBillable(d, q) PROVE TypeOK'
  BY <1>10 DEF ResolveBillable, Editable
<1>3. ASSUME NEW d \in Dev, NEW h \in Hours, EditEntry(d, h) PROVE TypeOK'
  BY <1>3 DEF EditEntry
<1>4. ASSUME NEW d \in Dev, DeleteEntry(d) PROVE TypeOK'
  BY <1>4 DEF DeleteEntry
<1>5. ASSUME NEW i \in Item, DeleteWorkItem(i) PROVE TypeOK'
  BY <1>5 DEF DeleteWorkItem, Cascade
<1>6. ASSUME NEW q \in Project, DeleteProject(q) PROVE TypeOK'
  BY <1>6 DEF DeleteProject, Cascade
<1>7. ASSUME NEW q \in Project, Tag(q) \/ Untag(q) PROVE TypeOK'
  BY <1>7 DEF Tag, Untag
<1>8. ASSUME NEW burst \in SUBSET Live, DedupeScan(burst) PROVE TypeOK'
  BY <1>8 DEF DedupeScan, Doomed, Live
<1>11. ASSUME DedupeDelete PROVE TypeOK'
  BY <1>11 DEF DedupeDelete
<1>9. ASSUME NewWeek PROVE TypeOK'
  BY <1>9 DEF NewWeek
<1>. QED
  BY <1>1, <1>2, <1>3, <1>4, <1>5, <1>6, <1>7, <1>8, <1>9, <1>10, <1>11 DEF RowStep

(* A session whose copies expired is well-typed. *)
LEMMA ExpireTyped ==
  ASSUME TypeOK, NEW p \in Proc, Expire(p)
  PROVE  /\ seen' \in [Proc -> [Entry -> Hours \cup {0}]]
         /\ tag' \in [Proc -> [Project -> {"expired", "linked", "unlinked"}]]
<1>1. /\ Expired \in [Entry -> Hours \cup {0}]
      /\ AllExpired \in [Project -> {"expired", "linked", "unlinked"}]
  BY DEF Expired, AllExpired
<1>. QED
  BY <1>1 DEF Expire, TypeOK

(* So is the end of a push. *)
LEMMA EndTypeOK ==
  ASSUME TypeOK, NEW p \in Proc, End(p) PROVE TypeOK'
<1>1. /\ seen' \in [Proc -> [Entry -> Hours \cup {0}]]
      /\ tag' \in [Proc -> [Project -> {"expired", "linked", "unlinked"}]]
  BY ExpireTyped DEF End
<1>2. pc' \in [Proc -> PC] /\ holders' \in SUBSET Proc
  BY DEF TypeOK, End, Goto, PC
<1>3. /\ picked' \in [Proc -> SUBSET Entry]
      /\ queue' \in [Proc -> SUBSET Entry]
      /\ missed' \in [Proc -> SUBSET Entry]
  BY DEF TypeOK, End
<1>4. window' \in [Proc -> 0 .. MaxWeek] /\ ack' \in [Proc -> Nat]
  BY SyncAssumption DEF TypeOK, End
<1>. QED
  BY <1>1, <1>2, <1>3, <1>4 DEF TypeOK, End, rowVars, sideVars

(* What a push reads through its session is well-typed. *)
LEMMA ReadsTyped ==
  ASSUME TypeOK, NEW p \in Proc, NEW e \in Entry
  PROVE  /\ Reaches(p, e) => HoursRead(p, e) \in Hours
         /\ TagRead(p, e) \in {"linked", "unlinked"}
         /\ EntryProject(e) \in Project
<1> USE SyncAssumption DEF TypeOK
<1>1. EntryProject(e) \in Project
  BY DEF EntryProject
<1>. QED
  BY <1>1 DEF HoursRead, TagRead, Reaches

(* A change of program counter is well-typed. *)
LEMMA GotoTyped ==
  ASSUME TypeOK, NEW p \in Proc, NEW l \in PC, Goto(p, l)
  PROVE  pc' \in [Proc -> PC]
BY DEF Goto, TypeOK

(* A click, a refusal and the script keep the types. *)
LEMMA StartTypeOK ==
  ASSUME TypeOK, NEW p \in Proc, Start(p) PROVE TypeOK'
<1>1. \A l \in PC : Goto(p, l) => pc' \in [Proc -> PC]
  BY DEF Goto, TypeOK
<1>2. CASE Click(p)
  BY <1>1, <1>2 DEF TypeOK, Click, PC, rowVars, sideVars
<1>3. CASE Refuse(p) \/ StartScript(p)
  BY <1>1, <1>3 DEF TypeOK, Refuse, StartScript, PC, rowVars, sideVars
<1>. QED
  BY <1>2, <1>3 DEF Start

(* A reloaded tag is well-typed. *)
LEMMA RememberTyped ==
  ASSUME TypeOK, NEW p \in Proc, NEW e \in Entry, RememberTag(p, e)
  PROVE  tag' \in [Proc -> [Project -> {"expired", "linked", "unlinked"}]]
<1>1. TagRead(p, e) \in {"expired", "linked", "unlinked"}
  BY ReadsTyped
<1>2. tag[p] \in [Project -> {"expired", "linked", "unlinked"}]
  BY DEF TypeOK
<1>3. [tag[p] EXCEPT ![EntryProject(e)] = TagRead(p, e)]
        \in [Project -> {"expired", "linked", "unlinked"}]
  BY <1>1, <1>2
<1>. QED
  BY <1>3 DEF RememberTag, TypeOK

(* A row moved past and counted keeps its sets well-typed. *)
LEMMA MissTyped ==
  ASSUME TypeOK, NEW p \in Proc, NEW e \in Entry, Miss(p, e)
  PROVE  queue' \in [Proc -> SUBSET Entry] /\ missed' \in [Proc -> SUBSET Entry]
BY DEF TypeOK, Miss, MoveOn

(* A TimeActivity appended to the ledger keeps it well-typed. *)
LEMMA CreateTypeOK ==
  ASSUME TypeOK, NEW p \in Proc, NEW e \in Entry, Reaches(p, e), Create(p, e)
  PROVE  /\ ledger' \in Seq([entry : Entry, hours : Hours])
         /\ Len(ledger') \in Nat
         /\ Len(ledger') = Len(ledger) + 1 /\ Len(ledger') <= MaxActivity
         /\ \A a \in 1 .. Len(ledger) : ledger'[a] = ledger[a]
         /\ ledger'[Len(ledger) + 1].entry = e
<1>1. HoursRead(p, e) \in Hours
  BY ReadsTyped
<1>2. ledger \in Seq([entry : Entry, hours : Hours])
  BY DEF TypeOK
<1>3. Len(ledger) < MaxActivity /\ MaxActivity \in Nat
  BY SyncAssumption DEF Create
<1>. QED
  BY <1>1, <1>2, <1>3 DEF Create

(* Every step of a push keeps the types. *)
LEMMA PushTypeOK ==
  ASSUME TypeOK, NEW p \in Proc, PushStep(p) PROVE TypeOK'
<1> USE SyncAssumption DEF TypeOK, PC, Critical, Goto, rowVars, sideVars
<1>0. \A s \in SyncStatus : Finalize(p, s) =>
        lastSync' \in [status : SyncStatus, pushed : SUBSET Entry]
  BY DEF Finalize
<1>1. CASE TryLock(p)
  <2>1. window' \in [Proc -> 0 .. MaxWeek]
    BY <1>1 DEF TryLock
  <2>2. pc' \in [Proc -> PC] /\ holders' \in SUBSET Proc
    <3>1. CASE Held
      BY <1>1, <3>1 DEF TryLock
    <3>2. CASE ~Held
      <4>1. Goto(p, "prepare") /\ holders' = holders \cup {p}
        BY <1>1, <3>2 DEF TryLock
      <4>. QED
        BY <4>1, GotoTyped
    <3>. QED
      BY <3>1, <3>2
  <2>. QED
    BY <1>1, <2>1, <2>2 DEF TryLock
<1>2. CASE Prepare(p)
  BY <1>2 DEF Prepare
<1>3. CASE Query(p)
  <2>1. Batch(p) \in SUBSET Entry
    BY DEF Batch, Eligible, Live
  <2>2. seen' \in [Proc -> [Entry -> Hours \cup {0}]]
    BY <1>3 DEF Query
  <2>3. tag' \in [Proc -> [Project -> {"expired", "linked", "unlinked"}]]
    BY <1>3 DEF Query
  <2>. QED
    BY <1>3, <2>1, <2>2, <2>3 DEF Query
<1>4. CASE QueryEmpty(p)
  BY <1>0, <1>4 DEF QueryEmpty, SyncStatus
<1>5. CASE Stamp(p)
  <2>1. /\ seen' \in [Proc -> [Entry -> Hours \cup {0}]]
        /\ tag' \in [Proc -> [Project -> {"expired", "linked", "unlinked"}]]
    <3>1. (UNCHANGED <<seen, tag>>) \/ Expire(p)
      BY <1>5 DEF Stamp
    <3>. QED
      BY <3>1, ExpireTyped
  <2>2. pc' \in [Proc -> PC]
    BY <1>5 DEF Stamp
  <2>3. submitted' \in SUBSET Entry
    BY <1>5 DEF Stamp
  <2>. QED
    BY <1>5, <2>1, <2>2, <2>3 DEF Stamp
<1>6. CASE Finish(p)
  <2>1. lastSync' \in [status : SyncStatus, pushed : SUBSET Entry]
    BY <1>0, <1>6 DEF Finish, SyncStatus
  <2>2. pc' \in [Proc -> PC]
    BY <1>6 DEF Finish
  <2>. QED
    BY <1>6, <2>1, <2>2 DEF Finish
<1>7. CASE Release(p)
  BY <1>7, EndTypeOK DEF Release
<1>8. CASE PrepareFails(p) \/ Abort(p)
  BY <1>0, <1>8 DEF PrepareFails, Abort, SyncStatus
<1>9. ASSUME NEW e \in queue[p],
             \/ SkipEntry(p, e) \/ RowGone(p, e)
             \/ PostTimeActivity(p, e) \/ RecordId(p, e)
             \/ \E created, refreshed \in BOOLEAN : PostFails(p, e, created, refreshed)
             \/ RateLimited(p, e) \/ OAuthFails(p, e)
      PROVE TypeOK'
  <2> e \in Entry
    OBVIOUS
  <2>1. CASE SkipEntry(p, e)
    BY <2>1, MissTyped, RememberTyped DEF SkipEntry
  <2>2. CASE RowGone(p, e)
    BY <2>2 DEF RowGone
  <2>3. CASE PostTimeActivity(p, e)
    <3>1. Reaches(p, e) /\ Create(p, e)
      BY <2>3 DEF PostTimeActivity, Postable
    <3>2. /\ ledger' \in Seq([entry : Entry, hours : Hours])
          /\ Len(ledger') \in Nat /\ Len(ledger') <= MaxActivity
      BY <3>1, CreateTypeOK
    <3>3. ack' \in [Proc -> Nat] /\ pc' \in [Proc -> PC]
      BY <2>3, <3>2 DEF PostTimeActivity
    <3>. QED
      BY <2>3, <3>2, <3>3 DEF PostTimeActivity
  <2>4. CASE RecordId(p, e)
    <3>1. /\ qbId' \in [Entry -> Nat]
          /\ submitted' \in SUBSET Entry
          /\ ack' \in [Proc -> Nat]
          /\ queue' \in [Proc -> SUBSET Entry]
      <4>1. CASE life[e] = "live"
        <5>1. /\ qbId' = [qbId EXCEPT ![e] = ack[p]]
              /\ submitted' = IF p \in Run THEN submitted \cup {e} ELSE submitted
              /\ MoveOn(p, e)
              /\ ack' = [ack EXCEPT ![p] = 0]
          BY <2>4, <4>1 DEF RecordId
        <5>2. qbId' \in [Entry -> Nat] /\ ack' \in [Proc -> Nat]
          BY <5>1
        <5>3. submitted' \in SUBSET Entry /\ queue' \in [Proc -> SUBSET Entry]
          BY <5>1 DEF MoveOn
        <5>. QED
          BY <5>2, <5>3
      <4>2. CASE life[e] # "live"
        BY <2>4, <4>2 DEF RecordId
      <4>. QED
        BY <4>1, <4>2
    <3>2. pc' \in [Proc -> PC]
      BY <2>4 DEF RecordId
    <3>3. /\ seen' \in [Proc -> [Entry -> Hours \cup {0}]]
          /\ tag' \in [Proc -> [Project -> {"expired", "linked", "unlinked"}]]
      BY <2>4, ExpireTyped DEF RecordId
    <3>. QED
      BY <2>4, <3>1, <3>2, <3>3 DEF RecordId
  <2>5. ASSUME NEW created \in BOOLEAN, NEW refreshed \in BOOLEAN,
               PostFails(p, e, created, refreshed)
        PROVE TypeOK'
    <3>1. ledger' \in Seq([entry : Entry, hours : Hours]) /\ Len(ledger') <= MaxActivity
      <4>1. Reaches(p, e)
        BY <2>5 DEF PostFails, Postable
      <4>2. CASE created
        BY <2>5, <4>1, <4>2, CreateTypeOK DEF PostFails
      <4>3. CASE ~created
        BY <2>5, <4>3 DEF PostFails
      <4>. QED
        BY <4>2, <4>3
    <3>2. /\ seen' \in [Proc -> [Entry -> Hours \cup {0}]]
          /\ tag' \in [Proc -> [Project -> {"expired", "linked", "unlinked"}]]
      <4>1. CASE refreshed
        BY <2>5, <4>1, ExpireTyped DEF PostFails
      <4>2. CASE ~refreshed
        BY <2>5, <4>2, RememberTyped DEF PostFails
      <4>. QED
        BY <4>1, <4>2
    <3>3. /\ queue' \in [Proc -> SUBSET Entry]
          /\ missed' \in [Proc -> SUBSET Entry]
      BY <2>5, MissTyped DEF PostFails
    <3>. QED
      BY <2>5, <3>1, <3>2, <3>3 DEF PostFails
  <2>6. CASE RateLimited(p, e)
    BY <1>0, <2>6 DEF RateLimited, SyncStatus
  <2>7. CASE OAuthFails(p, e)
    BY <1>0, <2>7 DEF OAuthFails, SyncStatus
  <2>. QED
    BY <1>9, <2>1, <2>2, <2>3, <2>4, <2>5, <2>6, <2>7
<1>. QED
  BY <1>1, <1>2, <1>3, <1>4, <1>5, <1>6, <1>7, <1>8, <1>9 DEF PushStep

(* The types hold in every reachable state. *)
THEOREM TypeCorrect == Spec => []TypeOK
<1>1. Init => TypeOK
  BY SyncAssumption DEF Init, TypeOK, SyncStatus, PC, Expired, AllExpired
<1>2. TypeOK /\ [Next]_vars => TypeOK'
  <2> SUFFICES ASSUME TypeOK, [Next]_vars PROVE TypeOK'
    OBVIOUS
  <2>1. CASE RowStep
    BY <2>1, RowTypeOK
  <2>2. ASSUME NEW p \in Proc, Start(p) \/ PushStep(p) \/ Crash(p) PROVE TypeOK'
    BY <2>2, StartTypeOK, PushTypeOK, EndTypeOK DEF Crash
  <2>3. CASE UNCHANGED vars
    BY <2>3 DEF TypeOK, vars, rowVars, procVars, sideVars
  <2>. QED
    BY <2>1, <2>2, <2>3 DEF Next
<1>. QED
  BY <1>1, <1>2, PTL DEF Spec
-----------------------------------------------------------------------------
(* The lock. *)

PushVars == <<submitted, qbId, ledger, holders, procVars>>

(* What the steps that do not push can do to what the pushes rely on. *)
LEMMA RowFrame ==
  ASSUME TypeOK, RowStep
  PROVE  /\ UNCHANGED PushVars
         /\ \A e \in Entry : /\ life[e] # "unlogged" => life'[e] # "unlogged"
                             /\ life[e] = "deleted" => life'[e] = "deleted"
<1> USE DEF PushVars, procVars, rowVars, sideVars, TypeOK
<1>1. ASSUME NEW e \in Entry, NEW h \in Hours, Log(e, h)
      PROVE  /\ UNCHANGED PushVars
             /\ life' = [life EXCEPT ![e] = "live"] /\ life[e] = "unlogged"
  BY <1>1 DEF Log
<1>3. ASSUME NEW d \in Dev, DeleteEntry(d)
      PROVE  UNCHANGED PushVars /\ \E e \in Entry : life' = [life EXCEPT ![e] = "deleted"]
  BY <1>3 DEF DeleteEntry
<1>5. ASSUME DedupeDelete
      PROVE  /\ UNCHANGED PushVars
             /\ \A e \in Entry : life'[e] = life[e] \/ life'[e] = "deleted"
  BY <1>5 DEF DedupeDelete
<1>7. CASE \E e \in Entry, h \in Hours : Log(e, h)
  BY <1>7, <1>1
<1>8. CASE \E d \in Dev, e \in Entry : ResolveEditable(d, e)
  BY <1>8 DEF ResolveEditable
<1>15. CASE \E d \in Dev, q \in Project : ResolveBillable(d, q)
  BY <1>15 DEF ResolveBillable
<1>16. CASE \E burst \in SUBSET Live : DedupeScan(burst)
  BY <1>16 DEF DedupeScan
<1>9. CASE \E d \in Dev, h \in Hours : EditEntry(d, h)
  BY <1>9 DEF EditEntry
<1>10. CASE \E d \in Dev : DeleteEntry(d)
  BY <1>10, <1>3
<1>11. CASE \E i \in Item : DeleteWorkItem(i)
  BY <1>11 DEF DeleteWorkItem, Cascade
<1>12. CASE \E q \in Project : DeleteProject(q)
  BY <1>12 DEF DeleteProject, Cascade
<1>13. CASE \E q \in Project : Tag(q) \/ Untag(q)
  BY <1>13 DEF Tag, Untag
<1>14. CASE NewWeek
  BY <1>14 DEF NewWeek
<1>. QED
  BY <1>5, <1>7, <1>8, <1>9, <1>10, <1>11, <1>12, <1>13, <1>14, <1>15, <1>16
     DEF RowStep

(* A step of the push that keeps the lock moves it from one critical       *)
(* label to another.                                                       *)
LEMMA PushMoves ==
  ASSUME TypeOK, NEW p \in Proc, PushStep(p)
  PROVE  \/ TryLock(p)
         \/ Release(p)
         \/ /\ pc[p] \in Critical
            /\ holders' = holders
            /\ pc' = pc \/ \E l \in Critical : Goto(p, l)
<1> USE DEF Critical
<1>1. CASE PrepareFails(p) \/ Abort(p)
  BY <1>1 DEF PrepareFails, Abort
<1>2. CASE Prepare(p) \/ Query(p) \/ QueryEmpty(p) \/ Stamp(p) \/ Finish(p)
  BY <1>2 DEF Prepare, Query, QueryEmpty, Stamp, Finish
<1>3. ASSUME NEW e \in queue[p],
             \/ SkipEntry(p, e) \/ RowGone(p, e)
             \/ PostTimeActivity(p, e) \/ RecordId(p, e)
             \/ \E created, refreshed \in BOOLEAN : PostFails(p, e, created, refreshed)
             \/ RateLimited(p, e) \/ OAuthFails(p, e)
      PROVE  /\ pc[p] \in {"push", "commit"}
             /\ holders' = holders
             /\ pc' = pc \/ \E l \in Critical : Goto(p, l)
  <2>1. CASE SkipEntry(p, e)
    BY <2>1 DEF SkipEntry, Reaches
  <2>2. CASE RowGone(p, e)
    BY <2>2 DEF RowGone
  <2>3. CASE PostTimeActivity(p, e)
    BY <2>3 DEF PostTimeActivity, Postable, Reaches
  <2>4. CASE RecordId(p, e)
    BY <2>4 DEF RecordId
  <2>5. CASE \E created, refreshed \in BOOLEAN : PostFails(p, e, created, refreshed)
    BY <2>5 DEF PostFails, Postable, Reaches
  <2>6. CASE RateLimited(p, e) \/ OAuthFails(p, e)
    BY <2>6 DEF RateLimited, OAuthFails, Postable, Reaches
  <2>. QED
    BY <1>3, <2>1, <2>2, <2>3, <2>4, <2>5, <2>6
<1>. QED
  BY <1>1, <1>2, <1>3 DEF PushStep

(* The end of a push drops its hold on the lock. *)
LEMMA LockEnd ==
  ASSUME TypeOK, LockInv, NEW p \in Proc, End(p) PROVE LockInv'
<1>1. holders' = holders \ {p} /\ pc' = [pc EXCEPT ![p] = "idle"]
  BY DEF End, Goto
<1>. QED
  BY <1>1 DEF LockInv, MutualExclusion, TypeOK, Critical

(* A push is inside the lock exactly when it holds it. *)
LEMMA LockPreserved == TypeOK /\ LockInv /\ [Next]_vars => LockInv'
<1> SUFFICES ASSUME TypeOK, LockInv, [Next]_vars PROVE LockInv'
  OBVIOUS
<1>1. CASE RowStep
  BY <1>1, RowFrame DEF PushVars, procVars, LockInv, MutualExclusion
<1>2. ASSUME NEW p \in Proc, Start(p) PROVE LockInv'
  <2>1. holders' = holders /\ pc[p] \notin Critical
    BY <1>2 DEF Start, Click, Refuse, StartScript, Critical
  <2>2. \E l \in {"queued", "refused"} : pc' = [pc EXCEPT ![p] = l]
    BY <1>2 DEF Start, Click, Refuse, StartScript, Goto
  <2>. QED
    BY <2>1, <2>2 DEF LockInv, MutualExclusion, TypeOK, Critical
<1>3. ASSUME NEW p \in Proc, TryLock(p) PROVE LockInv'
  <2>1. CASE Held
    <3>1. holders' = holders /\ pc' = [pc EXCEPT ![p] = "idle"] /\ pc[p] = "queued"
      BY <1>3, <2>1 DEF TryLock, Goto
    <3>. QED
      BY <3>1 DEF LockInv, MutualExclusion, TypeOK, Critical
  <2>2. CASE ~Held
    <3>1. /\ holders' = holders \cup {p}
          /\ pc' = [pc EXCEPT ![p] = "prepare"]
          /\ Postgres => holders = {}
      BY <1>3, <2>2 DEF TryLock, Goto, Held
    <3>. QED
      BY <3>1 DEF LockInv, MutualExclusion, TypeOK, Critical
  <2>. QED
    BY <2>1, <2>2
<1>4. ASSUME NEW p \in Proc, PushStep(p) PROVE LockInv'
  <2>1. CASE Release(p)
    BY <2>1, LockEnd DEF Release
  <2>2. CASE /\ pc[p] \in Critical
             /\ holders' = holders
             /\ pc' = pc \/ \E l \in Critical : Goto(p, l)
    BY <2>2 DEF LockInv, MutualExclusion, TypeOK, Goto
  <2>. QED
    BY <1>3, <1>4, <2>1, <2>2, PushMoves
<1>5. ASSUME NEW p \in Proc, Crash(p) PROVE LockInv'
  BY <1>5, LockEnd DEF Crash
<1>6. CASE UNCHANGED vars
  BY <1>6 DEF vars, procVars, LockInv, MutualExclusion
<1>. QED
  BY <1>1, <1>2, <1>4, <1>5, <1>6 DEF Next

(* On Postgres no two pushes are ever inside the lock together. *)
THEOREM LockIsExclusive == Spec => []MutualExclusion
<1>1. Init => LockInv
  BY DEF Init, LockInv, MutualExclusion, Critical
<1>2. LockInv => MutualExclusion
  BY DEF LockInv
<1>. QED
  BY <1>1, <1>2, TypeCorrect, LockPreserved, PTL DEF Spec
-----------------------------------------------------------------------------
(* The inductive invariant: first the steps of rows. *)

(* The ledger's entries are rows. *)
LEMMA LedgerTyped ==
  ASSUME TypeOK
  PROVE  /\ DOMAIN ledger = 1 .. Len(ledger)
         /\ \A a \in DOMAIN ledger : ledger[a].entry \in Entry
<1>1. ledger \in Seq([entry : Entry, hours : Hours])
  BY DEF TypeOK
<1>2. DOMAIN ledger = 1 .. Len(ledger)
  BY <1>1
<1>3. ASSUME NEW a \in 1 .. Len(ledger) PROVE ledger[a] \in [entry : Entry, hours : Hours]
  BY <1>1, <1>3, ElementOfSeq
<1>. QED
  BY <1>2, <1>3

(* Editors, administrators and scripts keep the strengthening: they        *)
(* neither record Ids nor bring rows back.                                 *)
LEMMA RowKeepsInv ==
  ASSUME IInv, RowStep PROVE IInv'
<1>1. TypeOK' /\ LockInv'
  BY RowTypeOK, LockPreserved DEF IInv, Next
<1>2. /\ UNCHANGED PushVars
      /\ \A e \in Entry : /\ life[e] # "unlogged" => life'[e] # "unlogged"
                          /\ life[e] = "deleted" => life'[e] = "deleted"
  BY RowFrame DEF IInv
<1> USE <1>2 DEF PushVars, procVars
<1>3. ASSUME NEW p \in Proc PROVE PushInv(p)'
  <2>1. PushInv(p) /\ picked[p] \subseteq Entry
    BY DEF IInv, TypeOK
  <2>. QED
    BY <2>1 DEF PushInv, QueueInv, QueuedIsUnsynced, AckIsOwn, SubmitIsStamped,
                DoneIsSynced
<1>4. /\ submitted \subseteq Entry
      /\ \A a \in DOMAIN ledger : ledger[a].entry \in Entry
  BY LedgerTyped DEF IInv, TypeOK
<1>5. UnloggedIsBlank'
  BY <1>4 DEF IInv, UnloggedIsBlank
<1>6. SyncedIsSubmitted' /\ RecordedIsOwn'
  BY DEF IInv, SyncedIsSubmitted, RecordedIsOwn
<1>7. EachActivityAccounted'
  BY <1>4 DEF IInv, EachActivityAccounted, InFlight
<1>. QED
  BY <1>1, <1>3, <1>5, <1>6, <1>7 DEF IInv

(* A push touches its own variables only. *)
OnlyOwn(p) ==
  /\ life' = life
  /\ \A q \in Proc \ {p} :
       /\ pc'[q] = pc[q]
       /\ picked'[q] = picked[q]
       /\ queue'[q] = queue[q]
       /\ missed'[q] = missed[q]
       /\ ack'[q] = ack[q]

(* A step of one push leaves the process state of the others alone. *)
LEMMA PushIsLocal ==
  ASSUME TypeOK, NEW p \in Proc, PushStep(p) \/ Start(p) \/ Crash(p)
  PROVE  OnlyOwn(p)
<1> USE DEF OnlyOwn, TypeOK, rowVars, Goto
<1>1. CASE Start(p)
  BY <1>1 DEF Start, Click, Refuse, StartScript
<1>2. CASE Release(p) \/ Crash(p)
  BY <1>2 DEF Release, Crash, End
<1>3. CASE TryLock(p)
  BY <1>3 DEF TryLock
<1>4. CASE Prepare(p) \/ PrepareFails(p) \/ Abort(p)
  BY <1>4 DEF Prepare, PrepareFails, Abort
<1>5. CASE Query(p) \/ QueryEmpty(p)
  BY <1>5 DEF Query, QueryEmpty
<1>6. CASE Stamp(p) \/ Finish(p)
  BY <1>6 DEF Stamp, Finish
<1>7. ASSUME NEW e \in queue[p], SkipEntry(p, e) \/ RowGone(p, e)
      PROVE  OnlyOwn(p)
  BY <1>7 DEF SkipEntry, RowGone, Miss, MoveOn
<1>8. ASSUME NEW e \in queue[p], PostTimeActivity(p, e) \/ RecordId(p, e)
      PROVE  OnlyOwn(p)
  BY <1>8 DEF PostTimeActivity, RecordId, MoveOn
<1>9. ASSUME NEW e \in queue[p],
             NEW created \in BOOLEAN, NEW refreshed \in BOOLEAN,
             PostFails(p, e, created, refreshed)
      PROVE  OnlyOwn(p)
  BY <1>9 DEF PostFails, Miss, MoveOn
<1>10. ASSUME NEW e \in queue[p], RateLimited(p, e) \/ OAuthFails(p, e)
       PROVE  OnlyOwn(p)
  BY <1>10 DEF RateLimited, OAuthFails
<1>. QED
  BY <1>1, <1>2, <1>3, <1>4, <1>5, <1>6, <1>7, <1>8, <1>9, <1>10 DEF PushStep

(* What it does to the shared variables only adds to them, but for the Id  *)
(* of the row it has just POSTed.                                          *)
Grows(p) ==
  /\ submitted \subseteq submitted'
  /\ DOMAIN ledger \subseteq DOMAIN ledger'
  /\ \A a \in DOMAIN ledger : ledger'[a] = ledger[a]
  /\ \/ qbId' = qbId
     \/ /\ pc[p] = "commit"
        /\ \E e \in queue[p] : qbId' = [qbId EXCEPT ![e] = ack[p]]

(* Creating a TimeActivity only appends to the ledger. *)
LEMMA CreateGrows ==
  ASSUME TypeOK, NEW p \in Proc, NEW e \in Entry, Reaches(p, e), Create(p, e)
  PROVE  /\ DOMAIN ledger' = DOMAIN ledger \cup {Len(ledger')}
         /\ Len(ledger') \notin DOMAIN ledger
         /\ \A a \in DOMAIN ledger : ledger'[a] = ledger[a]
         /\ ledger'[Len(ledger')].entry = e
<1>1. /\ ledger' \in Seq([entry : Entry, hours : Hours])
      /\ ledger \in Seq([entry : Entry, hours : Hours])
      /\ Len(ledger') = Len(ledger) + 1
      /\ \A a \in 1 .. Len(ledger) : ledger'[a] = ledger[a]
      /\ ledger'[Len(ledger) + 1].entry = e
  BY CreateTypeOK DEF TypeOK
<1>2. /\ DOMAIN ledger = 1 .. Len(ledger) /\ DOMAIN ledger' = 1 .. Len(ledger')
      /\ Len(ledger) \in Nat
  BY <1>1
<1>. QED
  BY <1>1, <1>2

(* No step of a push removes a TimeActivity, a stamp or a row. *)
LEMMA PushGrows ==
  ASSUME TypeOK, NEW p \in Proc, PushStep(p) \/ Start(p) \/ Crash(p)
  PROVE  Grows(p)
<1> USE DEF Grows, rowVars
<1>1. CASE Start(p)
  BY <1>1 DEF Start, Click, Refuse, StartScript
<1>2. CASE Release(p) \/ Crash(p)
  BY <1>2 DEF Release, Crash, End
<1>3. CASE TryLock(p) \/ Prepare(p) \/ PrepareFails(p) \/ Abort(p)
  BY <1>3 DEF TryLock, Prepare, PrepareFails, Abort
<1>4. CASE Query(p) \/ QueryEmpty(p) \/ Finish(p)
  BY <1>4 DEF Query, QueryEmpty, Finish
<1>5. CASE Stamp(p)
  BY <1>5 DEF Stamp
<1>6. ASSUME NEW e \in queue[p],
             SkipEntry(p, e) \/ RowGone(p, e) \/ RateLimited(p, e) \/ OAuthFails(p, e)
      PROVE  Grows(p)
  BY <1>6 DEF SkipEntry, RowGone, RateLimited, OAuthFails
<1>7. ASSUME NEW e \in queue[p], PostTimeActivity(p, e) PROVE Grows(p)
  <2>1. e \in Entry /\ Reaches(p, e) /\ Create(p, e)
    BY <1>7 DEF PostTimeActivity, Postable, TypeOK
  <2>. QED
    BY <1>7, <2>1, CreateGrows DEF PostTimeActivity
<1>8. ASSUME NEW e \in queue[p], RecordId(p, e) PROVE Grows(p)
  BY <1>8 DEF RecordId
<1>9. ASSUME NEW e \in queue[p],
             NEW created \in BOOLEAN, NEW refreshed \in BOOLEAN,
             PostFails(p, e, created, refreshed)
      PROVE  Grows(p)
  <2>1. e \in Entry /\ Reaches(p, e)
    BY <1>9 DEF PostFails, Postable, TypeOK
  <2>2. CASE created
    BY <1>9, <2>1, <2>2, CreateGrows DEF PostFails
  <2>3. CASE ~created
    BY <1>9, <2>3 DEF PostFails
  <2>. QED
    BY <2>2, <2>3
<1>. QED
  BY <1>1, <1>2, <1>3, <1>4, <1>5, <1>6, <1>7, <1>8, <1>9 DEF PushStep

(* So the other pushes keep their invariant: on Postgres they are outside  *)
(* the lock when p records an Id.                                          *)
LEMMA OthersKeepInv ==
  ASSUME IInv, NEW p \in Proc, OnlyOwn(p), Grows(p), NEW q \in Proc \ {p}
  PROVE  PushInv(q)'
<1> USE DEF OnlyOwn
<1>0. /\ PushInv(q) /\ PushInv(p) /\ picked[q] \subseteq Entry /\ queue[q] \subseteq Entry
      /\ qbId \in [Entry -> Nat] /\ queue[p] \subseteq Entry
      /\ DOMAIN ledger = 1 .. Len(ledger)
  BY LedgerTyped DEF IInv, TypeOK
<1>1. QueueInv(q)'
  BY <1>0 DEF PushInv, QueueInv
<1>2. QueuedIsUnsynced(q)'
  <2> SUFFICES ASSUME Postgres, pc[q] \in {"stamp", "push", "commit"}
               PROVE  \A e \in queue[q] : qbId'[e] = 0
    BY DEF QueuedIsUnsynced
  <2>1. pc[p] # "commit"
    BY DEF IInv, LockInv, MutualExclusion, Critical
  <2>2. qbId' = qbId
    BY <2>1 DEF Grows
  <2>. QED
    BY <1>0, <2>2 DEF PushInv, QueuedIsUnsynced
<1>3. AckIsOwn(q)'
  BY <1>0 DEF PushInv, AckIsOwn, Grows
<1>4. SubmitIsStamped(q)'
  BY <1>0 DEF PushInv, SubmitIsStamped, Grows
<1>5. DoneIsSynced(q)'
  <2>1. pc[p] = "commit" => ack[p] # 0
    BY <1>0 DEF PushInv, AckIsOwn
  <2>2. \A e \in Entry : qbId[e] # 0 => qbId'[e] # 0
    BY <1>0, <2>1 DEF Grows
  <2>. QED
    BY <1>0, <2>2 DEF PushInv, DoneIsSynced
<1>. QED
  BY <1>1, <1>2, <1>3, <1>4, <1>5 DEF PushInv

(* The invariants of the rows and of the ledger. *)
RowInv ==
  UnloggedIsBlank /\ SyncedIsSubmitted /\ RecordedIsOwn /\ EachActivityAccounted

(* A step that writes neither rows nor the ledger, and abandons no Id.     *)
LEMMA QuietKeepsRows ==
  ASSUME IInv, NEW p \in Proc, OnlyOwn(p), UNCHANGED <<submitted, qbId, ledger>>,
         pc[p] # "commit" \/ Crashes
  PROVE  RowInv'
<1> USE DEF OnlyOwn, IInv
<1>1. UnloggedIsBlank' /\ SyncedIsSubmitted' /\ RecordedIsOwn'
  BY DEF UnloggedIsBlank, SyncedIsSubmitted, RecordedIsOwn
<1>2. ASSUME ~Crashes PROVE \A a : InFlight(a) => InFlight(a)'
  BY <1>2 DEF InFlight
<1>3. EachActivityAccounted'
  BY <1>2 DEF EachActivityAccounted
<1>. QED
  BY <1>1, <1>3 DEF RowInv

(* Release and crash keep the strengthening. *)
LEMMA EndKeepsInv ==
  ASSUME IInv, NEW p \in Proc, End(p), pc[p] # "commit" \/ Crashes, OnlyOwn(p)
  PROVE  PushInv(p)' /\ RowInv'
<1>1. RowInv'
  BY QuietKeepsRows DEF End, rowVars
<1>2. /\ pc'[p] = "idle" /\ picked'[p] = {} /\ queue'[p] = {} /\ missed'[p] = {}
  BY DEF End, Goto, IInv, TypeOK
<1>3. PushInv(p)'
  BY <1>2 DEF PushInv, QueueInv, QueuedIsUnsynced, AckIsOwn, SubmitIsStamped,
              DoneIsSynced
<1>. QED
  BY <1>1, <1>3

(* The steps before the rows are read. *)
LEMMA EarlyKeepsInv ==
  ASSUME IInv, NEW p \in Proc, OnlyOwn(p),
         \/ Start(p) \/ TryLock(p) \/ Prepare(p) \/ Query(p) \/ QueryEmpty(p)
         \/ PrepareFails(p) \/ (Abort(p) /\ pc[p] # "push")
  PROVE  PushInv(p)' /\ RowInv'
<1> USE DEF Goto
<1>0. PushInv(p) /\ TypeOK
  BY DEF IInv
<1>1. CASE Query(p)
  <2>1. /\ pc[p] = "query" /\ UNCHANGED <<life, submitted, qbId, ledger, missed>>
        /\ picked'[p] = Batch(p) /\ queue'[p] = Batch(p)
        /\ pc'[p] = IF p \in Run THEN "push" ELSE "stamp"
    BY <1>0, <1>1 DEF Query, TypeOK, rowVars
  <2>2. \A e \in Batch(p) : e \in Entry /\ life[e] = "live" /\ qbId[e] = 0
    BY DEF Batch, Eligible, Live
  <2>3. missed[p] = {}
    BY <1>0, <2>1 DEF PushInv, QueueInv
  <2>4. PushInv(p)'
    BY SyncAssumption, <2>1, <2>2, <2>3
       DEF PushInv, QueueInv, QueuedIsUnsynced, AckIsOwn, SubmitIsStamped,
           DoneIsSynced, Proc
  <2>. QED
    BY <2>1, <2>4, QuietKeepsRows
<1>2. CASE \/ Start(p) \/ TryLock(p) \/ Prepare(p) \/ QueryEmpty(p)
           \/ PrepareFails(p) \/ (Abort(p) /\ pc[p] # "push")
  <2>1. /\ pc[p] \in {"idle", "refused", "queued", "prepare", "query"}
        /\ UNCHANGED <<life, submitted, qbId, ledger, picked, queue, missed>>
    BY <1>2 DEF Start, Click, Refuse, StartScript, TryLock, Prepare, QueryEmpty,
                PrepareFails, Abort, rowVars
  <2>2. pc'[p] \in {"idle", "refused", "queued", "prepare", "query", "release"}
    <3>1. CASE Start(p) \/ Prepare(p) \/ QueryEmpty(p)
      BY <1>0, <3>1 DEF Start, Click, Refuse, StartScript, Prepare, QueryEmpty, TypeOK
    <3>2. CASE TryLock(p) \/ PrepareFails(p) \/ Abort(p)
      BY <1>0, <3>2 DEF TryLock, PrepareFails, Abort, TypeOK
    <3>. QED
      BY <1>2, <3>1, <3>2
  <2>3. picked[p] = {} /\ queue[p] = {} /\ missed[p] = {}
    BY <1>0, <2>1 DEF PushInv, QueueInv
  <2>4. PushInv(p)'
    BY <2>1, <2>2, <2>3
       DEF PushInv, QueueInv, QueuedIsUnsynced, AckIsOwn, SubmitIsStamped, DoneIsSynced
  <2>. QED
    BY <2>1, <2>4, QuietKeepsRows
<1>. QED
  BY <1>1, <1>2

(* The steps of the loop that leave the rows and the ledger alone. *)
LEMMA LoopKeepsInv ==
  ASSUME IInv, NEW p \in Proc, OnlyOwn(p), UNCHANGED <<submitted, qbId, ledger, picked>>,
         pc[p] = "push", pc'[p] \in {"push", "release"},
         \/ queue'[p] = queue[p] /\ missed'[p] = missed[p]
         \/ \E e \in queue[p] : /\ queue'[p] = queue[p] \ {e}
                               /\ missed'[p] = missed[p] \cup {e}
  PROVE  PushInv(p)' /\ RowInv'
<1>1. PushInv(p)
  BY DEF IInv
<1>2. QueueInv(p)'
  BY <1>1 DEF PushInv, QueueInv, OnlyOwn
<1>3. QueuedIsUnsynced(p)' /\ SubmitIsStamped(p)'
  BY <1>1 DEF PushInv, QueuedIsUnsynced, SubmitIsStamped
<1>4. AckIsOwn(p)' /\ DoneIsSynced(p)'
  BY <1>1 DEF PushInv, AckIsOwn, DoneIsSynced
<1>. QED
  BY <1>2, <1>3, <1>4, QuietKeepsRows DEF PushInv

(* The stamp of a submit keeps it. *)
LEMMA StampKeepsInv ==
  ASSUME IInv, NEW p \in Proc, OnlyOwn(p), Stamp(p)
  PROVE  PushInv(p)' /\ RowInv'
<1>1. PushInv(p) /\ TypeOK
  BY DEF IInv
<1>2. /\ pc[p] = "stamp"
      /\ UNCHANGED <<life, qbId, ledger, picked, queue, missed>>
      /\ \/ /\ pc'[p] = "push"
            /\ submitted' = submitted \cup (queue[p] \ submitted)
            /\ queue[p] \ submitted \subseteq Live
         \/ pc'[p] = "release" /\ submitted' = submitted
  BY <1>1 DEF Stamp, Goto, TypeOK
<1>3. PushInv(p)'
  BY <1>1, <1>2 DEF PushInv, QueueInv, QueuedIsUnsynced, AckIsOwn, SubmitIsStamped,
                    DoneIsSynced
<1>4. UnloggedIsBlank' /\ SyncedIsSubmitted' /\ RecordedIsOwn'
  BY <1>2 DEF IInv, UnloggedIsBlank, SyncedIsSubmitted, RecordedIsOwn, Live
<1>5. EachActivityAccounted'
  BY <1>2 DEF IInv, EachActivityAccounted, InFlight, OnlyOwn
<1>. QED
  BY <1>3, <1>4, <1>5 DEF RowInv

(* A TimeActivity is created for the queue's head: in flight, or lost. *)
LEMMA PostKeepsRows ==
  ASSUME IInv, NEW p \in Proc, OnlyOwn(p), NEW e \in queue[p],
         Reaches(p, e), Create(p, e), UNCHANGED <<submitted, qbId>>,
         Lossy \/ (pc'[p] = "commit" /\ ack'[p] = Len(ledger'))
  PROVE  RowInv'
<1>1. /\ e \in Entry /\ pc[p] = "push" /\ picked[p] \subseteq Entry
      /\ queue[p] \subseteq picked[p] /\ life[e] # "unlogged"
  BY DEF IInv, TypeOK, Reaches, PushInv, QueueInv
<1>2. /\ DOMAIN ledger' = DOMAIN ledger \cup {Len(ledger')}
      /\ Len(ledger') \notin DOMAIN ledger
      /\ \A a \in DOMAIN ledger : ledger'[a] = ledger[a]
      /\ ledger'[Len(ledger')].entry = e
  BY <1>1, CreateGrows DEF IInv
<1>3. UnloggedIsBlank'
  BY <1>1, <1>2 DEF IInv, UnloggedIsBlank, OnlyOwn
<1>4. SyncedIsSubmitted' /\ RecordedIsOwn'
  BY <1>2 DEF IInv, SyncedIsSubmitted, RecordedIsOwn
<1>5. EachActivityAccounted'
  <2> SUFFICES ASSUME Postgres, ~Lossy, ~Crashes, NEW a \in DOMAIN ledger'
               PROVE  \/ qbId[ledger'[a].entry] = a
                      \/ InFlight(a)'
                      \/ life[ledger'[a].entry] = "deleted"
    BY DEF EachActivityAccounted, OnlyOwn
  <2>1. CASE a = Len(ledger')
    BY <2>1 DEF InFlight
  <2>2. CASE a \in DOMAIN ledger
    <3>1. InFlight(a) => InFlight(a)'
      BY <1>1 DEF InFlight, OnlyOwn
    <3>. QED
      BY <1>2, <2>2, <3>1 DEF IInv, EachActivityAccounted
  <2>. QED
    BY <1>2, <2>1, <2>2
<1>. QED
  BY <1>3, <1>4, <1>5 DEF RowInv

(* A POST that is answered keeps it. *)
LEMMA PostKeepsInv ==
  ASSUME IInv, NEW p \in Proc, OnlyOwn(p), NEW e \in queue[p], PostTimeActivity(p, e)
  PROVE  PushInv(p)' /\ RowInv'
<1>0. PushInv(p) /\ TypeOK /\ e \in Entry
  BY DEF IInv, TypeOK
<1>1. /\ Reaches(p, e) /\ Create(p, e) /\ pc[p] = "push" /\ IsFirst(e, queue[p])
      /\ UNCHANGED <<submitted, qbId, picked, queue, missed>>
      /\ pc'[p] = "commit" /\ ack'[p] = Len(ledger')
  BY <1>0 DEF PostTimeActivity, Postable, Reaches, Goto, TypeOK, rowVars
<1>2. RowInv'
  BY <1>1, PostKeepsRows
<1>3. Len(ledger') \in DOMAIN ledger' /\ ledger'[Len(ledger')].entry = e
  BY <1>0, <1>1, CreateGrows
<1>4. QueueInv(p)' /\ QueuedIsUnsynced(p)'
  BY <1>0, <1>1 DEF PushInv, QueueInv, QueuedIsUnsynced, OnlyOwn
<1>5. AckIsOwn(p)'
  BY <1>1, <1>3 DEF AckIsOwn, IsFirst
<1>6. SubmitIsStamped(p)' /\ DoneIsSynced(p)'
  BY <1>0, <1>1 DEF PushInv, SubmitIsStamped, DoneIsSynced
<1>. QED
  BY <1>2, <1>4, <1>5, <1>6 DEF PushInv

(* A POST that fails, applied or not, keeps it. *)
LEMMA PostFailsKeepsInv ==
  ASSUME IInv, NEW p \in Proc, OnlyOwn(p), NEW e \in queue[p],
         NEW created \in BOOLEAN, NEW refreshed \in BOOLEAN,
         PostFails(p, e, created, refreshed)
  PROVE  PushInv(p)' /\ RowInv'
<1>0. PushInv(p) /\ TypeOK
  BY DEF IInv
<1>1. /\ Reaches(p, e) /\ pc[p] = "push" /\ pc' = pc
      /\ UNCHANGED <<submitted, qbId, picked>>
      /\ queue'[p] = queue[p] \ {e} /\ missed'[p] = missed[p] \cup {e}
      /\ created => Lossy
  BY <1>0 DEF PostFails, Postable, Reaches, Miss, MoveOn, TypeOK, rowVars
<1>2. CASE created
  <2>1. RowInv'
    BY <1>1, <1>2, PostKeepsRows DEF PostFails
  <2>2. PushInv(p)'
    BY <1>0, <1>1 DEF PushInv, QueueInv, QueuedIsUnsynced, AckIsOwn, SubmitIsStamped,
                      DoneIsSynced, OnlyOwn
  <2>. QED
    BY <2>1, <2>2
<1>3. CASE ~created
  BY <1>1, <1>3, LoopKeepsInv DEF PostFails
<1>. QED
  BY <1>2, <1>3

(* A set of numbers has one first element. *)
LEMMA FirstIsUnique ==
  ASSUME NEW S \in SUBSET Nat, NEW d, NEW e, IsFirst(d, S), IsFirst(e, S)
  PROVE  d = e
<1>1. d \in Nat /\ e \in Nat /\ d <= e /\ e <= d
  BY DEF IsFirst
<1>. QED
  BY <1>1

(* The Id is recorded in the row it belongs to, or the row has gone. *)
LEMMA RecordKeepsInv ==
  ASSUME IInv, NEW p \in Proc, OnlyOwn(p), NEW e \in queue[p], RecordId(p, e)
  PROVE  PushInv(p)' /\ RowInv'
<1>0. PushInv(p) /\ TypeOK /\ e \in Entry /\ picked[p] \subseteq Entry /\ Entry \subseteq Nat
  BY SyncAssumption DEF IInv, TypeOK
<1>1. /\ pc[p] = "commit" /\ IsFirst(e, queue[p])
      /\ UNCHANGED <<life, ledger, picked, missed>>
  BY DEF RecordId
<1>2. /\ ack[p] \in DOMAIN ledger /\ ack[p] # 0
      /\ ledger[ack[p]].entry \in Entry
      /\ IsFirst(ledger[ack[p]].entry, queue[p])
  BY <1>0, <1>1, LedgerTyped DEF PushInv, AckIsOwn
<1>3. ledger[ack[p]].entry = e
  <2>1. queue[p] \in SUBSET Nat
    BY <1>0 DEF TypeOK
  <2>. QED
    BY <2>1, <1>1, <1>2, FirstIsUnique
<1>4. CASE life[e] = "live"
  <2>1. /\ qbId' = [qbId EXCEPT ![e] = ack[p]]
        /\ submitted' = IF p \in Run THEN submitted \cup {e} ELSE submitted
        /\ queue'[p] = queue[p] \ {e}
        /\ pc'[p] = "push"
    BY <1>0, <1>4 DEF RecordId, MoveOn, Goto, TypeOK
  <2>2. e \in submitted'
    BY <1>0, <1>1, <2>1 DEF PushInv, SubmitIsStamped, Proc
  <2>3. \A f \in Entry : qbId'[f] = IF f = e THEN ack[p] ELSE qbId[f]
    BY <1>0, <2>1 DEF TypeOK
  <2>4. PushInv(p)'
    <3>1. QueueInv(p)' /\ AckIsOwn(p)' /\ SubmitIsStamped(p)'
      BY <1>0, <1>1, <2>1 DEF PushInv, QueueInv, AckIsOwn, SubmitIsStamped
    <3>2. QueuedIsUnsynced(p)' /\ DoneIsSynced(p)'
      BY <1>0, <1>1, <1>2, <2>1, <2>3 DEF PushInv, QueueInv, QueuedIsUnsynced, DoneIsSynced
    <3>. QED
      BY <3>1, <3>2 DEF PushInv
  <2>5. UnloggedIsBlank'
    BY <1>1, <1>4, <2>1 DEF IInv, UnloggedIsBlank
  <2>6. SyncedIsSubmitted' /\ RecordedIsOwn'
    BY <1>1, <1>2, <1>3, <2>1, <2>2, <2>3 DEF IInv, SyncedIsSubmitted, RecordedIsOwn
  <2>7. EachActivityAccounted'
    <3> SUFFICES ASSUME Postgres, ~Lossy, ~Crashes, NEW a \in DOMAIN ledger
                 PROVE  \/ qbId'[ledger[a].entry] = a
                        \/ InFlight(a)'
                        \/ life[ledger[a].entry] = "deleted"
      BY <1>1 DEF EachActivityAccounted
    <3>1. ledger[a].entry \in Entry /\ a # 0
      BY <1>0, LedgerTyped
    <3>2. CASE a = ack[p]
      BY <1>3, <2>3, <3>1, <3>2
    <3>3. CASE a # ack[p]
      <4>1. qbId[e] = 0
        BY <1>0, <1>1 DEF PushInv, QueuedIsUnsynced
      <4>2. InFlight(a) => InFlight(a)'
        BY <3>3 DEF InFlight, OnlyOwn
      <4>. QED
        BY <2>3, <3>1, <4>1, <4>2 DEF IInv, EachActivityAccounted
    <3>. QED
      BY <3>2, <3>3
  <2>. QED
    BY <2>4, <2>5, <2>6, <2>7 DEF RowInv
<1>5. CASE life[e] # "live"
  <2>1. UNCHANGED <<qbId, submitted, queue>> /\ pc'[p] = "release" /\ life[e] = "deleted"
    <3>1. life[e] # "unlogged" /\ life[e] \in {"unlogged", "live", "deleted"}
      BY <1>0 DEF PushInv, QueueInv, TypeOK
    <3>. QED
      BY <1>0, <1>5, <3>1 DEF RecordId, Goto, TypeOK
  <2>2. PushInv(p)'
    BY <1>0, <1>1, <2>1 DEF PushInv, QueueInv, QueuedIsUnsynced, AckIsOwn, SubmitIsStamped,
                            DoneIsSynced
  <2>3. UnloggedIsBlank' /\ SyncedIsSubmitted' /\ RecordedIsOwn'
    BY <1>1, <2>1 DEF IInv, UnloggedIsBlank, SyncedIsSubmitted, RecordedIsOwn
  <2>4. \A a : a # ack[p] /\ InFlight(a) => InFlight(a)'
    BY DEF InFlight, OnlyOwn
  <2>5. EachActivityAccounted'
    BY <1>1, <1>3, <2>1, <2>4 DEF IInv, EachActivityAccounted
  <2>. QED
    BY <2>2, <2>3, <2>5 DEF RowInv
<1>. QED
  BY <1>4, <1>5

(* Every step of a push keeps it. *)
LEMMA PushKeepsInv ==
  ASSUME IInv, NEW p \in Proc, OnlyOwn(p), PushStep(p)
  PROVE  PushInv(p)' /\ RowInv'
<1>1. CASE \/ TryLock(p) \/ Prepare(p) \/ Query(p) \/ QueryEmpty(p)
           \/ PrepareFails(p) \/ (Abort(p) /\ pc[p] # "push")
  BY <1>1, EarlyKeepsInv
<1>2. CASE Stamp(p)
  BY <1>2, StampKeepsInv
<1>3. CASE Release(p)
  BY <1>3, EndKeepsInv DEF Release
<1>4. CASE Finish(p) \/ (Abort(p) /\ pc[p] = "push")
  <2>1. /\ UNCHANGED <<submitted, qbId, ledger, picked, queue, missed>>
        /\ pc[p] = "push" /\ pc'[p] = "release"
    BY <1>4 DEF Finish, Abort, Goto, IInv, TypeOK, rowVars
  <2>. QED
    BY <2>1, LoopKeepsInv
<1>5. ASSUME NEW e \in queue[p],
             SkipEntry(p, e) \/ RowGone(p, e) \/ RateLimited(p, e) \/ OAuthFails(p, e)
      PROVE  PushInv(p)' /\ RowInv'
  <2>1. CASE SkipEntry(p, e)
    <3>1. /\ UNCHANGED <<submitted, qbId, ledger, picked>> /\ pc' = pc /\ pc[p] = "push"
          /\ queue'[p] = queue[p] \ {e} /\ missed'[p] = missed[p] \cup {e}
      BY <2>1 DEF SkipEntry, Reaches, Miss, MoveOn, IInv, TypeOK, rowVars
    <3>. QED
      BY <3>1, LoopKeepsInv
  <2>2. CASE RowGone(p, e)
    <3>1. /\ UNCHANGED <<submitted, qbId, ledger, picked, queue, missed>>
          /\ pc[p] = "push" /\ pc'[p] = "release"
      BY <2>2 DEF RowGone, Goto, IInv, TypeOK, rowVars
    <3>. QED
      BY <3>1, LoopKeepsInv
  <2>3. CASE RateLimited(p, e) \/ OAuthFails(p, e)
    <3>1. /\ UNCHANGED <<submitted, qbId, ledger, picked, queue, missed>>
          /\ pc[p] = "push" /\ pc'[p] = "release"
      BY <2>3 DEF RateLimited, OAuthFails, Postable, Reaches, Goto, IInv, TypeOK, rowVars
    <3>. QED
      BY <3>1, LoopKeepsInv
  <2>. QED
    BY <1>5, <2>1, <2>2, <2>3
<1>6. ASSUME NEW e \in queue[p], PostTimeActivity(p, e) PROVE PushInv(p)' /\ RowInv'
  BY <1>6, PostKeepsInv
<1>7. ASSUME NEW e \in queue[p], RecordId(p, e) PROVE PushInv(p)' /\ RowInv'
  BY <1>7, RecordKeepsInv
<1>8. ASSUME NEW e \in queue[p],
             NEW created \in BOOLEAN, NEW refreshed \in BOOLEAN,
             PostFails(p, e, created, refreshed)
      PROVE  PushInv(p)' /\ RowInv'
  BY <1>8, PostFailsKeepsInv
<1>. QED
  BY <1>1, <1>2, <1>3, <1>4, <1>5, <1>6, <1>7, <1>8 DEF PushStep

(* Every step of the system keeps it. *)
LEMMA InvPreserved == IInv /\ [Next]_vars => IInv'
<1> SUFFICES ASSUME IInv, [Next]_vars PROVE IInv'
  OBVIOUS
<1>1. CASE RowStep
  BY <1>1, RowKeepsInv
<1>2. ASSUME NEW p \in Proc, Start(p) \/ PushStep(p) \/ Crash(p) PROVE IInv'
  <2>1. TypeOK' /\ LockInv'
    BY <1>2, StartTypeOK, PushTypeOK, EndTypeOK, LockPreserved DEF IInv, Crash, Next
  <2>2. OnlyOwn(p) /\ Grows(p)
    BY <1>2, PushIsLocal, PushGrows DEF IInv
  <2>3. PushInv(p)' /\ RowInv'
    BY <1>2, <2>2, EarlyKeepsInv, PushKeepsInv, EndKeepsInv DEF Crash
  <2>4. \A q \in Proc : PushInv(q)'
    BY <2>2, <2>3, OthersKeepInv
  <2>. QED
    BY <2>1, <2>3, <2>4 DEF IInv, RowInv
<1>3. CASE UNCHANGED vars
  <2>1. TypeOK'
    BY <1>3 DEF IInv, TypeOK, vars, rowVars, procVars, sideVars
  <2>2. LockInv' /\ UnloggedIsBlank' /\ SyncedIsSubmitted' /\ RecordedIsOwn'
        /\ EachActivityAccounted'
    BY <1>3 DEF IInv, LockInv, MutualExclusion, UnloggedIsBlank, SyncedIsSubmitted,
                RecordedIsOwn, EachActivityAccounted, InFlight, vars, rowVars, procVars
  <2>3. ASSUME NEW p \in Proc PROVE PushInv(p)'
    BY <1>3 DEF IInv, PushInv, QueueInv, QueuedIsUnsynced, AckIsOwn, SubmitIsStamped,
                DoneIsSynced, vars, rowVars, procVars
  <2>. QED
    BY <2>1, <2>2, <2>3 DEF IInv
<1>. QED
  BY <1>1, <1>2, <1>3 DEF Next

(* The strengthening is inductive, whatever fails: so it always holds. *)
THEOREM Invariant == Spec => []IInv
<1>1. Init => IInv
  <2> SUFFICES ASSUME Init PROVE IInv
    OBVIOUS
  <2>1. TypeOK
    BY SyncAssumption DEF Init, TypeOK, SyncStatus, PC, Expired, AllExpired
  <2>2. LockInv
    BY DEF Init, LockInv, MutualExclusion, Critical
  <2>3. DOMAIN ledger = {}
    BY DEF Init
  <2>4. UnloggedIsBlank /\ SyncedIsSubmitted /\ RecordedIsOwn /\ EachActivityAccounted
    BY <2>3 DEF Init, UnloggedIsBlank, SyncedIsSubmitted, RecordedIsOwn, EachActivityAccounted
  <2>5. ASSUME NEW p \in Proc PROVE PushInv(p)
    BY DEF Init, PushInv, QueueInv, QueuedIsUnsynced, AckIsOwn, SubmitIsStamped, DoneIsSynced
  <2>. QED
    BY <2>1, <2>2, <2>4, <2>5 DEF IInv
<1>. QED
  BY <1>1, InvPreserved, PTL DEF Spec

(* No row ever has an Id without a submitted_at. *)
THEOREM SyncedRowsAreSubmitted == Spec => []SyncedIsSubmitted
<1>1. IInv => SyncedIsSubmitted
  BY DEF IInv
<1>. QED
  BY <1>1, Invariant, PTL

(* A recorded Id is that of a TimeActivity created for that very row. *)
THEOREM RecordedIdsAreOwn == Spec => []RecordedIsOwn
<1>1. IInv => RecordedIsOwn
  BY DEF IInv
<1>. QED
  BY <1>1, Invariant, PTL

(* Without lost answers and crashes, no TimeActivity is left unaccounted. *)
THEOREM ActivitiesAreAccounted == Spec => []EachActivityAccounted
<1>1. IInv => EachActivityAccounted
  BY DEF IInv
<1>. QED
  BY <1>1, Invariant, PTL
-----------------------------------------------------------------------------
(* What a step may never do. *)

(* TimeActivities come only from a push inside the lock, for its queue.    *)
LEMMA StepCreates ==
  ASSUME IInv, [Next]_vars
  PROVE  \/ ledger' = ledger
         \/ \E p \in Proc : \E e \in queue[p] :
              /\ pc[p] = "push" /\ qbId' = qbId
              /\ \A a \in DOMAIN ledger' \ DOMAIN ledger : ledger'[a].entry = e
<1> USE DEF rowVars
<1>0. TypeOK
  BY DEF IInv
<1>1. CASE RowStep
  BY <1>0, <1>1, RowFrame DEF PushVars
<1>2. ASSUME NEW p \in Proc, Start(p) \/ Crash(p) PROVE ledger' = ledger
  BY <1>2 DEF Start, Click, Refuse, StartScript, Crash, End
<1>3. ASSUME NEW p \in Proc,
             \/ TryLock(p) \/ Prepare(p) \/ Query(p) \/ QueryEmpty(p) \/ Stamp(p)
             \/ Finish(p) \/ Release(p) \/ PrepareFails(p) \/ Abort(p)
      PROVE  ledger' = ledger
  BY <1>3 DEF TryLock, Prepare, Query, QueryEmpty, Stamp, Finish, Release, End,
              PrepareFails, Abort
<1>4. ASSUME NEW p \in Proc, NEW e \in queue[p],
             \/ SkipEntry(p, e) \/ RowGone(p, e) \/ RecordId(p, e)
             \/ RateLimited(p, e) \/ OAuthFails(p, e)
      PROVE  ledger' = ledger
  BY <1>4 DEF SkipEntry, RowGone, RecordId, RateLimited, OAuthFails
<1>5. ASSUME NEW p \in Proc, NEW e \in queue[p], Reaches(p, e), Create(p, e)
      PROVE  \A a \in DOMAIN ledger' \ DOMAIN ledger : ledger'[a].entry = e
  <2>1. e \in Entry
    BY <1>0 DEF TypeOK
  <2>. QED
    BY <1>0, <1>5, <2>1, CreateGrows
<1>6. ASSUME NEW p \in Proc, NEW e \in queue[p], PostTimeActivity(p, e)
      PROVE  /\ pc[p] = "push" /\ qbId' = qbId
             /\ \A a \in DOMAIN ledger' \ DOMAIN ledger : ledger'[a].entry = e
  BY <1>5, <1>6 DEF PostTimeActivity, Postable, Reaches
<1>7. ASSUME NEW p \in Proc, NEW e \in queue[p],
             NEW created \in BOOLEAN, NEW refreshed \in BOOLEAN,
             PostFails(p, e, created, refreshed)
      PROVE  \/ ledger' = ledger
             \/ /\ pc[p] = "push" /\ qbId' = qbId
                /\ \A a \in DOMAIN ledger' \ DOMAIN ledger : ledger'[a].entry = e
  <2>1. CASE created
    BY <1>5, <1>7, <2>1 DEF PostFails, Postable, Reaches
  <2>2. CASE ~created
    BY <1>7, <2>2 DEF PostFails
  <2>. QED
    BY <2>1, <2>2
<1>8. ASSUME NEW p \in Proc, PushStep(p)
      PROVE  \/ ledger' = ledger
             \/ \E e \in queue[p] :
                  /\ pc[p] = "push" /\ qbId' = qbId
                  /\ \A a \in DOMAIN ledger' \ DOMAIN ledger : ledger'[a].entry = e
  BY <1>3, <1>4, <1>6, <1>7, <1>8 DEF PushStep
<1>9. CASE UNCHANGED vars
  BY <1>9 DEF vars
<1>. QED
  BY <1>1, <1>2, <1>8, <1>9 DEF Next

(* Ids are written once. *)
LEMMA StepKeepsIds ==
  ASSUME IInv, [Next]_vars, Postgres, NEW e \in Entry, qbId[e] # 0
  PROVE  qbId'[e] = qbId[e]
<1>1. TypeOK /\ qbId \in [Entry -> Nat]
  BY DEF IInv, TypeOK
<1>2. CASE RowStep
  BY <1>1, <1>2, RowFrame DEF PushVars
<1>3. ASSUME NEW p \in Proc, Start(p) \/ PushStep(p) \/ Crash(p) PROVE qbId'[e] = qbId[e]
  <2>1. \/ qbId' = qbId
        \/ /\ pc[p] = "commit"
           /\ \E f \in queue[p] : qbId' = [qbId EXCEPT ![f] = ack[p]]
    BY <1>1, <1>3, PushGrows DEF Grows
  <2>2. pc[p] = "commit" => e \notin queue[p]
    BY DEF IInv, PushInv, QueuedIsUnsynced
  <2>. QED
    BY <1>1, <2>1, <2>2
<1>4. CASE UNCHANGED vars
  BY <1>4 DEF vars, rowVars
<1>. QED
  BY <1>2, <1>3, <1>4 DEF Next

(* On Postgres a row that has its Id is never POSTed again, nor re-recorded. *)
THEOREM NeverRepushed == Spec => NoRepush
<1>1. IInv /\ [Next]_vars =>
        [\A e \in Entry : Postgres /\ qbId[e] # 0 =>
            /\ qbId'[e] = qbId[e]
            /\ \A a \in DOMAIN ledger' \ DOMAIN ledger : ledger'[a].entry # e]_vars
  <2> SUFFICES ASSUME IInv, [Next]_vars, NEW e \in Entry, Postgres, qbId[e] # 0
               PROVE  /\ qbId'[e] = qbId[e]
                      /\ \A a \in DOMAIN ledger' \ DOMAIN ledger : ledger'[a].entry # e
    OBVIOUS
  <2>1. \A p \in Proc : pc[p] = "push" => e \notin queue[p]
    BY DEF IInv, PushInv, QueuedIsUnsynced
  <2>. QED
    BY <2>1, StepCreates, StepKeepsIds
<1>. QED
  BY <1>1, Invariant, PTL DEF Spec, NoRepush

(* A submit has committed a row's submitted_at before it POSTs the row. *)
THEOREM StampedBeforePosted == Spec => SubmitStampsFirst
<1>1. IInv /\ [Next]_vars =>
        [\A d \in Dev : Postgres /\ pc[d] = "push" =>
            \A a \in DOMAIN ledger' \ DOMAIN ledger : ledger'[a].entry \in submitted]_vars
  <2> SUFFICES ASSUME IInv, [Next]_vars, NEW d \in Dev, Postgres, pc[d] = "push",
                      NEW a \in DOMAIN ledger' \ DOMAIN ledger
               PROVE  ledger'[a].entry \in submitted
    OBVIOUS
  <2>1. d \in Proc
    BY DEF Proc
  <2>2. \A p \in Proc : pc[p] = "push" => p = d
    BY <2>1 DEF IInv, LockInv, MutualExclusion, Critical
  <2>3. queue[d] \subseteq submitted
    BY <2>1 DEF IInv, PushInv, SubmitIsStamped
  <2>. QED
    BY <2>2, <2>3, StepCreates
<1>. QED
  BY <1>1, Invariant, PTL DEF Spec, SubmitStampsFirst

(* Who writes last_sync_*, and what. *)
LEMMA StepReports ==
  ASSUME IInv, [Next]_vars, lastSync' # lastSync
  PROVE  \E p \in Run :
           /\ pc[p] \in Critical
           /\ lastSync'.pushed = picked[p] \ (queue[p] \cup missed[p])
           /\ lastSync'.status = "ok" => queue[p] = {} /\ missed[p] = {}
<1> DEFINE Report(p) ==
             /\ p \in Run
             /\ pc[p] \in Critical
             /\ lastSync'.pushed = picked[p] \ (queue[p] \cup missed[p])
             /\ lastSync'.status = "ok" => queue[p] = {} /\ missed[p] = {}
<1> SUFFICES \E p \in Proc : Report(p)
  BY DEF Proc
<1> USE DEF Critical
<1>1. ASSUME RowStep PROVE FALSE
  <2> USE DEF rowVars
  <2>1. ~ \E e \in Entry, h \in Hours : Log(e, h)
    BY DEF Log
  <2>2. ASSUME NEW d \in Dev
        PROVE  /\ ~ \E e \in Entry : ResolveEditable(d, e)
               /\ ~ \E q \in Project : ResolveBillable(d, q)
               /\ ~ \E h \in Hours : EditEntry(d, h)
               /\ ~DeleteEntry(d)
    BY DEF ResolveEditable, ResolveBillable, EditEntry, DeleteEntry
  <2>3. /\ \A i \in Item : ~DeleteWorkItem(i)
        /\ \A q \in Project : ~DeleteProject(q) /\ ~Tag(q) /\ ~Untag(q)
    BY DEF DeleteWorkItem, DeleteProject, Cascade, Tag, Untag
  <2>4. (\A burst \in SUBSET Live : ~DedupeScan(burst)) /\ ~DedupeDelete /\ ~NewWeek
    BY DEF DedupeScan, DedupeDelete, NewWeek
  <2>. QED
    BY <1>1, <2>1, <2>2, <2>3, <2>4 DEF RowStep
<1>2. ASSUME NEW p \in Proc, Start(p) \/ Crash(p) PROVE FALSE
  BY <1>2 DEF Start, Click, Refuse, StartScript, Crash, End
<1>3. ASSUME NEW p \in Proc, PushStep(p) PROVE Report(p)
  <2>1. /\ ~TryLock(p) /\ ~Prepare(p) /\ ~Query(p) /\ ~Stamp(p)
        /\ ~Release(p) /\ ~Abort(p)
    BY DEF TryLock, Prepare, Query, Stamp, Release, End, Abort
  <2>2. ASSUME NEW e \in queue[p]
        PROVE  /\ ~SkipEntry(p, e) /\ ~RowGone(p, e)
               /\ ~PostTimeActivity(p, e) /\ ~RecordId(p, e)
               /\ ~ \E created, refreshed \in BOOLEAN : PostFails(p, e, created, refreshed)
    BY DEF SkipEntry, RowGone, PostTimeActivity, RecordId, PostFails
  <2>3. CASE Finish(p)
    BY <2>3 DEF Finish, Finalize
  <2>4. CASE QueryEmpty(p)
    BY <2>4 DEF QueryEmpty, Finalize
  <2>5. CASE PrepareFails(p)
    BY <2>5 DEF PrepareFails, Finalize
  <2>6. CASE \E e \in queue[p] : RateLimited(p, e) \/ OAuthFails(p, e)
    BY <2>6 DEF RateLimited, OAuthFails, Postable, Reaches, Finalize
  <2>. QED
    BY <1>3, <2>1, <2>2, <2>3, <2>4, <2>5, <2>6 DEF PushStep
<1>4. ~UNCHANGED vars
  BY DEF vars
<1>. QED
  BY <1>1, <1>2, <1>3, <1>4 DEF Next

(* A run's report never claims a row that has no Id. *)
THEOREM ReportsAreTruthful == Spec => TruthfulReport
<1>1. IInv /\ [Next]_vars =>
        [lastSync' # lastSync =>
           \E p \in Run :
             /\ p \in holders
             /\ \A e \in lastSync'.pushed : qbId[e] # 0
             /\ lastSync'.status = "ok" => \A e \in picked[p] : qbId[e] # 0]_vars
  <2> SUFFICES ASSUME IInv, [Next]_vars, lastSync' # lastSync
               PROVE  \E p \in Run :
                        /\ p \in holders
                        /\ \A e \in lastSync'.pushed : qbId[e] # 0
                        /\ lastSync'.status = "ok" => \A e \in picked[p] : qbId[e] # 0
    OBVIOUS
  <2>1. PICK p \in Run :
          /\ pc[p] \in Critical
          /\ lastSync'.pushed = picked[p] \ (queue[p] \cup missed[p])
          /\ lastSync'.status = "ok" => queue[p] = {} /\ missed[p] = {}
    BY StepReports
  <2>2. p \in holders /\ DoneIsSynced(p)
    BY <2>1 DEF IInv, LockInv, PushInv, Proc
  <2>. QED
    BY <2>1, <2>2 DEF DoneIsSynced
<1>. QED
  BY <1>1, Invariant, PTL DEF Spec, TruthfulReport
-----------------------------------------------------------------------------
(* TimesheetSync implements EntryLifecycle. *)

PhaseBar == [e \in Entry |-> PhaseOf(e)]
ActivitiesBar == [e \in Entry |-> {a \in DOMAIN ledger : ledger[a].entry = e}]
AbstractNext == Rows!Next \/ (PhaseBar' = PhaseBar /\ ActivitiesBar' = ActivitiesBar /\ qbId' = qbId)

(* A step that leaves rows, stamps, Ids and ledger alone is a stutter. *)
LEMMA Stutters ==
  ASSUME UNCHANGED <<life, submitted, qbId, ledger>> PROVE AbstractNext
BY DEF AbstractNext, PhaseBar, ActivitiesBar, PhaseOf

(* Editors, administrators and scripts log or delete in the abstract, or stutter. *)
LEMMA RowStepMaps ==
  ASSUME IInv, RowStep PROVE AbstractNext
<1>0. TypeOK /\ UNCHANGED <<submitted, qbId, ledger>>
  BY RowFrame DEF IInv, PushVars
<1>1. ASSUME NEW e \in Entry, NEW h \in Hours, Log(e, h) PROVE AbstractNext
  <2>1. life' = [life EXCEPT ![e] = "live"] /\ life[e] = "unlogged"
    BY <1>1 DEF Log
  <2>2. e \notin submitted /\ qbId[e] = 0
    BY <2>1 DEF IInv, UnloggedIsBlank, SyncedIsSubmitted
  <2>3. PhaseBar[e] = "unlogged" /\ PhaseBar' = [PhaseBar EXCEPT ![e] = "draft"]
    BY <1>0, <2>1, <2>2 DEF PhaseBar, PhaseOf, TypeOK
  <2>4. ActivitiesBar' = ActivitiesBar
    BY <1>0 DEF ActivitiesBar
  <2>5. Rows!Log(e)
    BY <1>0, <2>3, <2>4 DEF Rows!Log, PhaseBar, ActivitiesBar
  <2>. QED
    BY <2>5 DEF AbstractNext, Rows!Next
<1>2. ASSUME NEW S \in SUBSET Entry,
             life' = [e \in Entry |-> IF e \in S THEN "deleted" ELSE life[e]]
      PROVE  AbstractNext
  <2>1. PhaseBar' = [e \in Entry |-> IF e \in S THEN "deleted" ELSE PhaseBar[e]]
    BY <1>0, <1>2 DEF PhaseBar, PhaseOf
  <2>2. ActivitiesBar' = ActivitiesBar
    BY <1>0 DEF ActivitiesBar
  <2>3. Rows!Delete(S)
    BY <1>0, <2>1, <2>2 DEF Rows!Delete, PhaseBar, ActivitiesBar
  <2>. QED
    BY <2>3 DEF AbstractNext, Rows!Next
<1>3. ASSUME NEW d \in Dev,
             \/ \E e \in Entry : ResolveEditable(d, e)
             \/ \E q \in Project : ResolveBillable(d, q)
             \/ \E h \in Hours : EditEntry(d, h)
      PROVE  AbstractNext
  BY <1>0, <1>3, Stutters DEF ResolveEditable, ResolveBillable, EditEntry, rowVars
<1>4. ASSUME NEW d \in Dev, DeleteEntry(d) PROVE AbstractNext
  <2>1. PICK e \in Entry : life' = [life EXCEPT ![e] = "deleted"]
    BY <1>0, <1>4 DEF DeleteEntry, TypeOK
  <2>2. life' = [f \in Entry |-> IF f \in {e} THEN "deleted" ELSE life[f]]
    BY <1>0, <2>1 DEF TypeOK
  <2>. QED
    BY <1>2, <2>2
<1>5. ASSUME NEW i \in Item, DeleteWorkItem(i) PROVE AbstractNext
  <2> DEFINE S == {e \in Entry : ItemOf[e] = i}
  <2>1. life' = [e \in Entry |-> IF e \in S THEN "deleted" ELSE life[e]]
    BY <1>5 DEF DeleteWorkItem, Cascade
  <2>. QED
    BY <1>2, <2>1
<1>6. ASSUME NEW q \in Project, DeleteProject(q) PROVE AbstractNext
  <2> DEFINE S == {e \in Entry : EntryProject(e) = q}
  <2>1. life' = [e \in Entry |-> IF e \in S THEN "deleted" ELSE life[e]]
    BY <1>6 DEF DeleteProject, Cascade
  <2>. QED
    BY <1>2, <2>1
<1>7. ASSUME NEW q \in Project, Tag(q) \/ Untag(q) PROVE AbstractNext
  BY <1>0, <1>7, Stutters DEF Tag, Untag, rowVars
<1>8. ASSUME NEW burst \in SUBSET Live, DedupeScan(burst) PROVE AbstractNext
  BY <1>0, <1>8, Stutters DEF DedupeScan, rowVars
<1>9. CASE DedupeDelete
  BY <1>0, <1>2, <1>9 DEF DedupeDelete, TypeOK
<1>10. CASE NewWeek
  BY <1>0, <1>10, Stutters DEF NewWeek, rowVars
<1>. QED
  BY <1>1, <1>3, <1>4, <1>5, <1>6, <1>7, <1>8, <1>9, <1>10 DEF RowStep

(* Creating a TimeActivity for a queued row is a Post. *)
LEMMA CreateMaps ==
  ASSUME IInv, Postgres, NEW p \in Proc, NEW e \in queue[p], Reaches(p, e), Create(p, e),
         UNCHANGED <<life, submitted, qbId>>
  PROVE  AbstractNext
<1>1. /\ TypeOK /\ e \in Entry /\ qbId[e] = 0 /\ life[e] # "unlogged"
  BY DEF IInv, TypeOK, PushInv, QueueInv, QueuedIsUnsynced, Reaches
<1>2. PICK a \in Activity : a = Len(ledger')
  <2>1. Len(ledger) \in Nat /\ Len(ledger') = Len(ledger) + 1 /\ Len(ledger') <= MaxActivity
    BY <1>1, CreateTypeOK DEF TypeOK
  <2>. QED
    BY <2>1, SyncAssumption DEF Activity
<1>3. /\ DOMAIN ledger' = DOMAIN ledger \cup {a}
      /\ a \notin DOMAIN ledger
      /\ \A b \in DOMAIN ledger : ledger'[b] = ledger[b]
      /\ ledger'[a].entry = e
  BY <1>1, <1>2, CreateGrows
<1>4. PhaseBar' = PhaseBar /\ PhaseBar[e] \notin {"unlogged", "synced"}
  BY <1>1 DEF PhaseBar, PhaseOf, TypeOK
<1>5. ActivitiesBar' = [ActivitiesBar EXCEPT ![e] = @ \cup {a}]
  <2>1. \A f \in Entry : ActivitiesBar'[f] =
          IF f = e THEN ActivitiesBar[f] \cup {a} ELSE ActivitiesBar[f]
    BY <1>3 DEF ActivitiesBar
  <2>. QED
    BY <2>1 DEF ActivitiesBar
<1>6. \A f \in Entry : a \notin ActivitiesBar[f]
  BY <1>3 DEF ActivitiesBar
<1>7. Rows!Post(e, a)
  BY <1>1, <1>4, <1>5, <1>6 DEF Rows!Post, PhaseBar, ActivitiesBar
<1>. QED
  BY <1>1, <1>7 DEF AbstractNext, Rows!Next

(* Committing an Id is a Record of one of the row's own TimeActivities. *)
LEMMA RecordMaps ==
  ASSUME IInv, Postgres, NEW p \in Proc, NEW e \in queue[p], RecordId(p, e)
  PROVE  AbstractNext
<1>0. /\ PushInv(p) /\ TypeOK /\ e \in Entry /\ Entry \subseteq Nat
      /\ queue[p] \subseteq Entry
  BY SyncAssumption DEF IInv, TypeOK
<1>1. /\ pc[p] = "commit" /\ IsFirst(e, queue[p]) /\ qbId[e] = 0
      /\ UNCHANGED <<life, ledger>>
  BY <1>0 DEF RecordId, PushInv, QueuedIsUnsynced
<1>2. /\ ack[p] \in DOMAIN ledger /\ ack[p] # 0 /\ ack[p] \in Activity
      /\ ledger[ack[p]].entry \in Entry
      /\ IsFirst(ledger[ack[p]].entry, queue[p])
  <2>1. ack[p] \in 1 .. Len(ledger) /\ Len(ledger) <= MaxActivity /\ Len(ledger) \in Nat
    BY <1>0, <1>1, LedgerTyped DEF PushInv, AckIsOwn, TypeOK
  <2>. QED
    BY <1>0, <1>1, <2>1, LedgerTyped, SyncAssumption DEF PushInv, AckIsOwn, Activity
<1>3. ledger[ack[p]].entry = e
  <2>1. queue[p] \in SUBSET Nat
    BY <1>0 DEF TypeOK
  <2>. QED
    BY <2>1, <1>1, <1>2, FirstIsUnique
<1>4. CASE life[e] = "live"
  <2>1. /\ qbId' = [qbId EXCEPT ![e] = ack[p]]
        /\ submitted' = IF p \in Run THEN submitted \cup {e} ELSE submitted
    BY <1>4 DEF RecordId
  <2>2. PhaseBar[e] \in {"draft", "submitted"}
    BY <1>0, <1>1, <1>4 DEF PhaseBar, PhaseOf
  <2>3. PhaseBar' = [PhaseBar EXCEPT ![e] = "synced"]
    <3>1. \A f \in Entry : PhaseOf(f)' = IF f = e THEN "synced" ELSE PhaseOf(f)
      BY <1>0, <1>1, <1>2, <1>4, <2>1 DEF PhaseOf, TypeOK
    <3>. QED
      BY <3>1 DEF PhaseBar
  <2>4. ActivitiesBar' = ActivitiesBar /\ ack[p] \in ActivitiesBar[e]
    BY <1>0, <1>1, <1>2, <1>3 DEF ActivitiesBar
  <2>5. Rows!Record(e, ack[p])
    BY <1>0, <2>1, <2>2, <2>3, <2>4 DEF Rows!Record, PhaseBar, ActivitiesBar
  <2>. QED
    BY <1>0, <1>2, <2>5 DEF AbstractNext, Rows!Next
<1>5. CASE life[e] # "live"
  BY <1>1, <1>5, Stutters DEF RecordId
<1>. QED
  BY <1>4, <1>5

(* The stamp is a Submit of the drafts. *)
LEMMA StampMaps ==
  ASSUME IInv, Postgres, NEW p \in Proc, Stamp(p) PROVE AbstractNext
<1> DEFINE S == queue[p] \ submitted
<1>1. /\ PushInv(p) /\ TypeOK /\ S \in SUBSET Entry
      /\ pc[p] = "stamp" /\ UNCHANGED <<life, qbId, ledger>>
  BY DEF IInv, TypeOK, Stamp
<1>2. CASE S \subseteq Live
  <2>1. submitted' = submitted \cup S
    BY <1>2 DEF Stamp
  <2>2. \A e \in S : life[e] = "live" /\ qbId[e] = 0
    BY <1>1, <1>2 DEF PushInv, QueuedIsUnsynced, Live
  <2>3. \A e \in S : PhaseBar[e] = "draft"
    BY <1>1, <2>2 DEF PhaseBar, PhaseOf
  <2>4. PhaseBar' = [e \in Entry |-> IF e \in S THEN "submitted" ELSE PhaseBar[e]]
    BY <1>1, <2>1, <2>2 DEF PhaseBar, PhaseOf
  <2>5. ActivitiesBar' = ActivitiesBar
    BY <1>1 DEF ActivitiesBar
  <2>6. Rows!Submit(S)
    BY <1>1, <2>3, <2>4, <2>5 DEF Rows!Submit, PhaseBar, ActivitiesBar
  <2>. QED
    BY <1>1, <2>6 DEF AbstractNext, Rows!Next
<1>3. CASE ~(S \subseteq Live)
  BY <1>1, <1>3, Stutters DEF Stamp
<1>. QED
  BY <1>2, <1>3

(* Every step is a step of the abstract lifecycle or a stutter. *)
LEMMA StepMaps ==
  ASSUME IInv, Postgres, [Next]_vars PROVE AbstractNext
<1> USE DEF rowVars
<1>1. CASE RowStep
  BY <1>1, RowStepMaps
<1>2. ASSUME NEW p \in Proc, Start(p) \/ Crash(p) PROVE AbstractNext
  BY <1>2, Stutters DEF Start, Click, Refuse, StartScript, Crash, End
<1>3. ASSUME NEW p \in Proc,
             \/ TryLock(p) \/ Prepare(p) \/ Query(p) \/ QueryEmpty(p)
             \/ Finish(p) \/ Release(p) \/ PrepareFails(p) \/ Abort(p)
      PROVE  AbstractNext
  BY <1>3, Stutters
     DEF TryLock, Prepare, Query, QueryEmpty, Finish, Release, End, PrepareFails, Abort
<1>4. ASSUME NEW p \in Proc, NEW e \in queue[p],
             \/ SkipEntry(p, e) \/ RowGone(p, e)
             \/ RateLimited(p, e) \/ OAuthFails(p, e)
      PROVE  AbstractNext
  BY <1>4, Stutters DEF SkipEntry, RowGone, RateLimited, OAuthFails
<1>5. ASSUME NEW p \in Proc, NEW e \in queue[p], PostTimeActivity(p, e)
      PROVE  AbstractNext
  BY <1>5, CreateMaps DEF PostTimeActivity, Postable
<1>6. ASSUME NEW p \in Proc, NEW e \in queue[p],
             NEW created \in BOOLEAN, NEW refreshed \in BOOLEAN,
             PostFails(p, e, created, refreshed)
      PROVE  AbstractNext
  <2>1. CASE created
    BY <1>6, <2>1, CreateMaps DEF PostFails, Postable
  <2>2. CASE ~created
    BY <1>6, <2>2, Stutters DEF PostFails
  <2>. QED
    BY <2>1, <2>2
<1>7. ASSUME NEW p \in Proc, PushStep(p) PROVE AbstractNext
  BY <1>3, <1>4, <1>5, <1>6, <1>7, StampMaps, RecordMaps DEF PushStep
<1>8. CASE UNCHANGED vars
  BY <1>8, Stutters DEF vars
<1>. QED
  BY <1>1, <1>2, <1>7, <1>8 DEF Next

(* On Postgres, every behaviour of the pushes, the editors and the scripts *)
(* is one the row lifecycle of models/time_entry.py allows.                *)
THEOREM Refinement == ASSUME Postgres PROVE Spec => ImplementsLifecycle
<1>1. Init => Rows!Init
  <2> SUFFICES ASSUME Init PROVE Rows!Init
    OBVIOUS
  <2>1. DOMAIN ledger = {}
    BY DEF Init
  <2>. QED
    BY <2>1 DEF Init, Rows!Init, PhaseOf
<1>2. IInv /\ [Next]_vars => [Rows!Next]_(Rows!lifecycleVars)
  BY StepMaps DEF AbstractNext, PhaseBar, ActivitiesBar, Rows!lifecycleVars
<1>. QED
  BY <1>1, <1>2, Invariant, PTL DEF Spec, ImplementsLifecycle, Rows!Lifecycle
=============================================================================
