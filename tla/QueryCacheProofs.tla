---------------------------- MODULE QueryCacheProofs ----------------------------
(***************************************************************************)
(* The promises of QueryCache for any hooks that keep to HooksCover and     *)
(* HooksForget, any pages, any number of calls and of failing fetches.      *)
(* MCClientCache evaluates both on the hooks of this client.                *)
(***************************************************************************)
EXTENDS QueryCache, TLAPS

-----------------------------------------------------------------------------
(* What every state has.                                                    *)

\* The query an answer is awaited for was read by the server.
Answer(q) == fetch[q] \notin {Idle, Asked}

\* The bundle is watched for what is copied from it.
Followed ==
  /\ tracked \in Writes[writer] /\ watch \subseteq {tracked, Bundle}
  /\ tracked \in Seeded \/ watch = {tracked}

\* The server has the effect of a call it acknowledged.
Answered == \A c \in Call : call[c] \in {"ok", "won"} => c \in applied

\* What a fetch brings, the server has.
ReadsTruth == \A q \in watch : Answer(q) => fetch[q] \subseteq applied

\* A form that waits for each answer has one call under way.
OneAtATime == writer \in Serial => \A c, d \in Pending : c = d

CacheInv == TypeOK /\ Followed /\ Answered /\ ReadsTruth /\ OneAtATime

-----------------------------------------------------------------------------
(* Entries and pages.                                                       *)

LEMMA Contents ==
  /\ None \in Content /\ \A s \in SUBSET Call : s \in Content /\ s # None
  /\ \A s \in Content : s # None => s \in SUBSET Call
BY CacheAssumption DEF Content

LEMMA Fetches ==
  /\ Idle # Asked /\ \A s \in SUBSET Call : s # Idle /\ s # Asked
BY CacheAssumption

\* The bundle was copied over the entry q, which is then as good as the bundle
\* or known not to be.
Copied(q) ==
  /\ q \in Seeded /\ Bundle \in watch
  /\ data'[q] = data'[Bundle] /\ data'[Bundle] # None
  /\ q \notin missed' =>
       /\ ~invalid'[Bundle] /\ Bundle \notin missed' /\ Bundle \in Covered(writer)
       /\ fetch'[Bundle] = Idle

LEMMA GoToSo ==
  ASSUME TypeOK, NEW p \in tour, GoTo(p)
  PROVE  /\ page' = p
         /\ UNCHANGED <<writer, tracked, watch, tour, applied, call, before, failures>>
         /\ fetch' \in [watch -> {Idle, Asked} \cup SUBSET Call]
         /\ data' \in [watch -> Content] /\ invalid' \in [watch -> BOOLEAN]
         /\ missed' \in SUBSET watch
         /\ \A q \in watch :
              /\ fetch'[q] = (IF MountFetches(q, p) THEN Asked ELSE fetch[q])
              /\ \/ Copied(q)
                 \/ /\ data'[q] = data[q] /\ (invalid'[q] <=> invalid[q])
                    /\ q \in missed' <=> (q \in missed /\ ~MountFetches(q, p))
              /\ (q \in missed /\ ~MountFetches(q, p) /\ fetch'[q] # Idle) => q \in missed'
<1> DEFINE over(q) == page \notin SeedingPage /\ CopiedOver(q, p, data)
           late == missed \ {q \in watch : MountFetches(q, p)}
<1>1. /\ page' = p
      /\ UNCHANGED <<writer, tracked, watch, tour, applied, call, before, failures>>
      /\ fetch' = [q \in watch |-> IF MountFetches(q, p) THEN Asked ELSE fetch[q]]
  BY DEF GoTo, fixed
<1>2. /\ data' = [q \in watch |-> IF over(q) THEN data[Bundle] ELSE data[q]]
      /\ invalid' = [q \in watch |-> invalid[q] /\ ~over(q)]
      /\ missed' = {q \in watch :
           \/ q \in late /\ (over(q) => fetch'[q] # Idle)
           \/ over(q) /\ Unsound(invalid, late)}
  BY DEF GoTo, Store
<1>3. /\ data \in [watch -> Content] /\ fetch \in [watch -> {Idle, Asked} \cup SUBSET Call]
      /\ invalid \in [watch -> BOOLEAN]
  BY DEF TypeOK
<1>4. \A q \in watch : over(q) => q \in Seeded /\ Bundle \in watch /\ data[Bundle] # None
  BY DEF CopiedOver
<1>5. ~over(Bundle)
  BY CacheAssumption DEF CopiedOver
<1>6. /\ fetch' \in [watch -> {Idle, Asked} \cup SUBSET Call]
      /\ data' \in [watch -> Content] /\ invalid' \in [watch -> BOOLEAN]
      /\ missed' \in SUBSET watch
  <2>. HIDE DEF over, late
  <2>. QED
    BY <1>1, <1>2, <1>3, <1>4
<1>7. ASSUME NEW q \in watch, ~over(q)
      PROVE  /\ data'[q] = data[q] /\ (invalid'[q] <=> invalid[q])
             /\ q \in missed' <=> q \in late
  <2>. HIDE DEF over, late
  <2>. QED
    BY <1>2, <1>7
<1>8. ASSUME NEW q \in watch, over(q) PROVE Copied(q)
  <2>1. data'[q] = data[Bundle] /\ data[Bundle] # None /\ q \in Seeded /\ Bundle \in watch
    <3>. HIDE DEF over, late
    <3>. QED
      BY <1>2, <1>4, <1>8
  <2>2. data'[Bundle] = data[Bundle] /\ (invalid'[Bundle] <=> invalid[Bundle])
        /\ (Bundle \in missed' <=> Bundle \in late)
    BY <1>5, <1>7, <2>1
  <2>3. q \notin missed' => ~Unsound(invalid, late)
    <3>. HIDE DEF over, late
    <3>. QED
      BY <1>2, <1>8
  <2>. HIDE DEF late
  <2>. QED
    BY <2>1, <2>2, <2>3 DEF Copied, Unsound
<1>9. ASSUME NEW q \in watch, q \in late, fetch'[q] # Idle PROVE q \in missed'
  <2>. HIDE DEF over, late
  <2>. QED
    BY <1>2, <1>9
<1>10. \A q \in watch : q \in late <=> (q \in missed /\ ~MountFetches(q, p))
  OBVIOUS
<1>. HIDE DEF over, late
<1>. QED
  BY <1>1, <1>6, <1>7, <1>8, <1>9, <1>10

LEMMA DeliverSo ==
  ASSUME TypeOK, NEW r \in watch, Deliver(r)
  PROVE  /\ UNCHANGED <<writer, tracked, watch, tour, page, applied, call, before, failures>>
         /\ Answer(r)
         /\ fetch' \in [watch -> {Idle, Asked} \cup SUBSET Call]
         /\ data' \in [watch -> Content] /\ invalid' \in [watch -> BOOLEAN]
         /\ missed' \in SUBSET watch
         /\ \A q \in watch :
              /\ fetch'[q] = (IF q = r THEN Idle ELSE fetch[q])
              /\ \/ Copied(q) /\ q # r
                 \/ /\ data'[q] = IF q = r THEN fetch[r] ELSE data[q]
                    /\ invalid'[q] <=> (q # r /\ invalid[q])
                    /\ q \in missed' <=> q \in missed
              /\ (q \in missed /\ fetch'[q] # Idle) => q \in missed'
<1>1. /\ UNCHANGED <<writer, tracked, watch, tour, page, applied, call, before, failures>>
      /\ Answer(r) /\ fetch' = [fetch EXCEPT ![r] = Idle]
  BY DEF Deliver, fixed, Answer
<1> DEFINE content == [data EXCEPT ![r] = fetch[r]]
           flags == [invalid EXCEPT ![r] = FALSE]
<1>2. PICK differs : Store(page, r = Bundle /\ differs, content, flags, missed)
  BY DEF Deliver
<1> DEFINE over(q) == (r = Bundle /\ differs) /\ CopiedOver(q, page, content)
<1>3. /\ data' = [q \in watch |-> IF over(q) THEN content[Bundle] ELSE content[q]]
      /\ invalid' = [q \in watch |-> flags[q] /\ ~over(q)]
      /\ missed' = {q \in watch :
           \/ q \in missed /\ (over(q) => fetch'[q] # Idle)
           \/ over(q) /\ Unsound(flags, missed)}
  BY <1>2 DEF Store
<1>4. /\ content \in [watch -> Content]
      /\ \A q \in watch : content[q] = IF q = r THEN fetch[r] ELSE data[q]
  BY <1>1, Contents DEF TypeOK, Answer
<1>5. /\ \A q \in watch : flags[q] <=> (q # r /\ invalid[q])
      /\ fetch' \in [watch -> {Idle, Asked} \cup SUBSET Call]
      /\ \A q \in watch : fetch'[q] = IF q = r THEN Idle ELSE fetch[q]
  BY <1>1 DEF TypeOK
<1>. HIDE DEF content, flags
<1>6. \A q \in watch : over(q) => /\ q \in Seeded /\ Bundle \in watch
                                  /\ content[Bundle] # None /\ q # r
  BY CacheAssumption DEF CopiedOver
<1>7. ~over(Bundle)
  BY CacheAssumption DEF CopiedOver
<1>. HIDE DEF over
<1>8. /\ data' \in [watch -> Content] /\ invalid' \in [watch -> BOOLEAN]
      /\ missed' \in SUBSET watch
  BY <1>3, <1>4, <1>6
<1>9. ASSUME NEW q \in watch, ~over(q)
      PROVE  /\ data'[q] = content[q] /\ (invalid'[q] <=> flags[q])
             /\ q \in missed' <=> q \in missed
  BY <1>3, <1>9
<1>10. ASSUME NEW q \in watch, over(q) PROVE Copied(q)
  <2>1. data'[q] = content[Bundle] /\ content[Bundle] # None /\ q \in Seeded /\ Bundle \in watch
    BY <1>3, <1>6, <1>10
  <2>2. data'[Bundle] = content[Bundle] /\ (invalid'[Bundle] <=> flags[Bundle])
        /\ (Bundle \in missed' <=> Bundle \in missed)
    BY <1>7, <1>9, <2>1
  <2>3. q \notin missed' => ~Unsound(flags, missed)
    BY <1>3, <1>10
  <2>. QED
    BY <2>1, <2>2, <2>3 DEF Copied, Unsound
<1>11. \A q \in watch : q \in missed /\ fetch'[q] # Idle => q \in missed'
  BY <1>3
<1>. QED
  BY <1>1, <1>4, <1>5, <1>6, <1>8, <1>9, <1>10, <1>11

\* Optimistic data, answers and snapshots are contents.
LEMMA CallbackTyped ==
  ASSUME TypeOK, NEW c \in Call, NEW q \in watch
  PROVE  Callback(c, q) \in Content
<1>1. data[q] \in Content /\ before[c][q] \in Content
  BY DEF TypeOK
<1>2. (IF data[q] = None THEN {} ELSE data[q]) \cup {c} \in Content
  BY <1>1, Contents
<1>. QED
  BY <1>1, <1>2 DEF Callback

\* A call that goes on from a to b.
LEMMA CallGoesOn ==
  ASSUME TypeOK, NEW c \in Call, NEW b \in {"sent", "ok", "error", "won", "failed"},
         call' = [call EXCEPT ![c] = b]
  PROVE  /\ call' \in [Call -> {"ready", "sent", "ok", "error", "won", "failed"}]
         /\ call'[c] = b /\ \A d \in Call : d # c => call'[d] = call[d]
         /\ b \in {"sent", "ok", "error"} => Pending' = Pending \cup {c}
         /\ b \in {"won", "failed"} => Pending' = Pending \ {c}
<1>1. /\ call' \in [Call -> {"ready", "sent", "ok", "error", "won", "failed"}]
      /\ call'[c] = b /\ \A d \in Call : d # c => call'[d] = call[d]
  BY DEF TypeOK
<1>. QED
  BY <1>1 DEF Pending

\* The entries that the callbacks of the call c mark.
Hit(c) == {q \in watch \ Removes[writer] : q \in Invalidated(c)}

LEMMA SettleSo ==
  ASSUME TypeOK, NEW c \in Call, Settle(c)
  PROVE  /\ UNCHANGED <<writer, tracked, watch, tour, page, applied, before, failures>>
         /\ call[c] \in {"ok", "error"}
         /\ call' \in [Call -> {"ready", "sent", "ok", "error", "won", "failed"}]
         /\ call'[c] = (IF call[c] = "ok" THEN "won" ELSE "failed")
         /\ \A d \in Call : d # c => call'[d] = call[d]
         /\ Pending' = Pending \ {c}
         /\ data' \in [watch -> Content] /\ invalid' \in [watch -> BOOLEAN]
         /\ fetch' \in [watch -> {Idle, Asked} \cup SUBSET Call]
         /\ missed' \in SUBSET watch
         /\ \A q \in watch :
              /\ fetch'[q] \in {Idle, Asked, fetch[q]}
              /\ data'[q] = IF q \in Removes[writer] THEN None ELSE Callback(c, q)
              /\ q \in Hit(c) =>
                   /\ invalid'[q]
                   /\ fetch'[q] = Asked \/ (fetch'[q] = fetch[q] /\ (fetch[q] = Idle \/ q \in missed'))
              /\ q \notin Hit(c) /\ q \notin Removes[writer] =>
                   /\ fetch'[q] = fetch[q] /\ (q \in missed' <=> q \in missed)
                   /\ ~RollsBack(c, q) /\ ~PatchesNow(c, q) => (invalid'[q] <=> invalid[q])
              /\ q \in Removes[writer] => fetch'[q] = Idle
<1> DEFINE gone == Removes[writer] \cap watch
           hit  == {q \in watch \ gone : q \in Invalidated(c)}
           restarted == {q \in hit : Shows(q) /\ (Callback(c, q) # None \/ fetch[q] = Idle)}
           stuck == {q \in hit \ restarted : fetch[q] # Idle}
           next == IF call[c] = "ok" THEN "won" ELSE "failed"
<1>1. /\ UNCHANGED <<writer, tracked, watch, tour, page, applied, before, failures>>
      /\ call[c] \in {"ok", "error"}
      /\ call' = [call EXCEPT ![c] = next]
      /\ data' = [q \in watch |-> IF q \in gone THEN None ELSE Callback(c, q)]
      /\ invalid' = [q \in watch |->
           q \in hit \/ (invalid[q] /\ q \notin gone
                           /\ ~RollsBack(c, q) /\ ~PatchesNow(c, q))]
      /\ fetch' = [q \in watch |->
           IF q \in gone THEN Idle ELSE IF q \in restarted THEN Asked ELSE fetch[q]]
      /\ missed' = (missed \ (restarted \cup gone)) \cup stuck
  BY DEF Settle, fixed
<1>2. hit = Hit(c) /\ (\A q \in watch : q \in gone <=> q \in Removes[writer])
  BY DEF Hit
<1>3. PICK b \in {"sent", "ok", "error", "won", "failed"} : b \in {"won", "failed"} /\ b = next
  OBVIOUS
<1>4. /\ call' \in [Call -> {"ready", "sent", "ok", "error", "won", "failed"}]
      /\ call'[c] = b /\ (\A d \in Call : d # c => call'[d] = call[d])
      /\ Pending' = Pending \ {c}
  BY <1>1, <1>3, CallGoesOn
<1>5. /\ restarted \subseteq hit /\ stuck \subseteq hit /\ hit \cap gone = {} /\ hit \subseteq watch
      /\ \A q \in hit : q \in restarted \/ fetch[q] = Idle \/ q \in stuck
  OBVIOUS
<1>. HIDE DEF gone, hit, restarted, stuck
<1>6. /\ data' \in [watch -> Content] /\ invalid' \in [watch -> BOOLEAN]
      /\ fetch' \in [watch -> {Idle, Asked} \cup SUBSET Call]
      /\ missed' \in SUBSET watch
  <2>1. data' \in [watch -> Content]
    BY <1>1, CallbackTyped, Contents
  <2>. QED
    BY <1>1, <1>5, <2>1 DEF TypeOK
<1>7. ASSUME NEW q \in watch
      PROVE  /\ data'[q] = IF q \in gone THEN None ELSE Callback(c, q)
             /\ fetch'[q] = IF q \in gone THEN Idle ELSE IF q \in restarted THEN Asked ELSE fetch[q]
             /\ invalid'[q] <=> (q \in hit \/ (invalid[q] /\ q \notin gone
                           /\ ~RollsBack(c, q) /\ ~PatchesNow(c, q)))
             /\ q \in missed' <=> (q \in stuck \/ (q \in missed /\ q \notin restarted /\ q \notin gone))
  BY <1>1, <1>7
<1>. QED
  BY <1>1, <1>2, <1>3, <1>4, <1>5, <1>6, <1>7

LEMMA CacheStarts == Init => CacheInv
<1>. SUFFICES ASSUME Init PROVE CacheInv
  OBVIOUS
<1>1. /\ writer \in Mutation /\ tracked \in Writes[writer]
      /\ watch = {tracked} \cup (IF tracked \in Seeded THEN {Bundle} ELSE {})
      /\ tour = {CHOOSE p \in Page : Kind(p) = kind : kind \in {Kind(p) : p \in Page}}
      /\ page \in tour
      /\ applied = {} /\ missed = {} /\ failures = 0
      /\ call = [c \in Call |-> "ready"]
      /\ before = [c \in Call |-> [q \in watch |-> None]]
      /\ data = [q \in watch |-> None]
      /\ invalid = [q \in watch |-> FALSE]
      /\ fetch = [q \in watch |-> IF q \in Active[page] THEN Asked ELSE Idle]
  BY DEF Init
<1>2. tour \subseteq Page
  BY <1>1
<1>3. tracked \in Query /\ watch \subseteq Query
  BY <1>1, CacheAssumption
<1>4. /\ before \in [Call -> [watch -> Content]] /\ data \in [watch -> Content]
      /\ invalid \in [watch -> BOOLEAN] /\ fetch \in [watch -> {Idle, Asked} \cup SUBSET Call]
      /\ call \in [Call -> {"ready", "sent", "ok", "error", "won", "failed"}]
  BY <1>1, Contents
<1>5. TypeOK
  BY <1>1, <1>2, <1>3, <1>4, CacheAssumption DEF TypeOK
<1>6. Followed
  BY <1>1 DEF Followed
<1>7. Answered /\ Pending = {}
  BY <1>1 DEF Answered, Pending
<1>8. ReadsTruth
  BY <1>1 DEF ReadsTruth, Answer
<1>. QED
  BY <1>5, <1>6, <1>7, <1>8 DEF CacheInv, OneAtATime

LEMMA CacheKept == CacheInv /\ [Next]_vars => CacheInv'
<1>. SUFFICES ASSUME CacheInv, [Next]_vars PROVE CacheInv'
  OBVIOUS
<1>1. TypeOK /\ Followed /\ Answered /\ ReadsTruth /\ OneAtATime
  BY DEF CacheInv
<1>2. ASSUME NEW p \in tour, GoTo(p) PROVE CacheInv'
  <2>1. /\ page' = p
        /\ UNCHANGED <<writer, tracked, watch, tour, applied, call, before, failures>>
        /\ fetch' \in [watch -> {Idle, Asked} \cup SUBSET Call]
        /\ data' \in [watch -> Content] /\ invalid' \in [watch -> BOOLEAN]
        /\ missed' \in SUBSET watch
        /\ \A q \in watch : fetch'[q] = IF MountFetches(q, p) THEN Asked ELSE fetch[q]
    BY <1>1, <1>2, GoToSo
  <2>2. TypeOK'
    BY <1>1, <2>1 DEF TypeOK
  <2>3. ReadsTruth'
    BY <1>1, <2>1 DEF ReadsTruth, Answer
  <2>. QED
    BY <1>1, <2>1, <2>2, <2>3 DEF CacheInv, Followed, Answered, OneAtATime, Pending
<1>3. CASE Focus
  <2>1. PICK asks \in SUBSET watch :
          /\ fetch' = [q \in watch |-> IF q \in asks THEN Asked ELSE fetch[q]]
          /\ missed' = missed \ asks
          /\ UNCHANGED <<writer, tracked, watch, tour, page, applied, call, before, data, invalid, failures>>
    BY <1>3 DEF Focus, fixed
  <2>2. fetch' \in [watch -> {Idle, Asked} \cup SUBSET Call]
    BY <1>1, <2>1 DEF TypeOK
  <2>3. TypeOK'
    BY <1>1, <2>1, <2>2 DEF TypeOK
  <2>4. ReadsTruth'
    BY <1>1, <2>1 DEF ReadsTruth, Answer
  <2>. QED
    BY <1>1, <2>1, <2>3, <2>4 DEF CacheInv, Followed, Answered, OneAtATime, Pending
<1>4. ASSUME NEW q \in watch, Collect(q) PROVE CacheInv'
  <2>1. TypeOK'
    BY <1>1, <1>4, Contents DEF Collect, TypeOK, fixed
  <2>. QED
    BY <1>1, <1>4, <2>1 DEF Collect, fixed, CacheInv, Followed, Answered, ReadsTruth, Answer, OneAtATime, Pending
<1>5. ASSUME NEW q \in watch, Read(q) PROVE CacheInv'
  <2>1. /\ fetch' = [fetch EXCEPT ![q] = Truth(q)]
        /\ UNCHANGED <<writer, tracked, watch, tour, page, applied, call, before, data, invalid, missed, failures>>
    BY <1>5 DEF Read, fixed
  <2>2. Truth(q) \in SUBSET applied /\ applied \in SUBSET Call
    BY <1>1 DEF Truth, TypeOK
  <2>3. TypeOK'
    BY <1>1, <2>1, <2>2 DEF TypeOK
  <2>4. ReadsTruth'
    BY <1>1, <2>1, <2>2 DEF ReadsTruth, Answer, TypeOK
  <2>. QED
    BY <1>1, <2>1, <2>3, <2>4 DEF CacheInv, Followed, Answered, OneAtATime, Pending
<1>6. ASSUME NEW q \in watch, Deliver(q) PROVE CacheInv'
  <2>1. /\ UNCHANGED <<writer, tracked, watch, tour, page, applied, call, before, failures>>
        /\ fetch' \in [watch -> {Idle, Asked} \cup SUBSET Call]
        /\ data' \in [watch -> Content] /\ invalid' \in [watch -> BOOLEAN]
        /\ missed' \in SUBSET watch
        /\ \A r \in watch : fetch'[r] = IF r = q THEN Idle ELSE fetch[r]
    BY <1>1, <1>6, DeliverSo
  <2>2. TypeOK'
    BY <1>1, <2>1 DEF TypeOK
  <2>3. ReadsTruth'
    BY <1>1, <2>1 DEF ReadsTruth, Answer
  <2>. QED
    BY <1>1, <2>1, <2>2, <2>3 DEF CacheInv, Followed, Answered, OneAtATime, Pending
<1>7. ASSUME NEW q \in watch, Fail(q) PROVE CacheInv'
  <2>1. /\ fetch' = [fetch EXCEPT ![q] = Idle] /\ invalid' = [invalid EXCEPT ![q] = TRUE]
        /\ failures < MaxFailures /\ failures' = failures + 1
        /\ UNCHANGED <<writer, tracked, watch, tour, page, applied, call, before, data, missed>>
    BY <1>7 DEF Fail, fixed
  <2>2. failures' \in 0..MaxFailures
    BY <1>1, <2>1, CacheAssumption DEF TypeOK
  <2>3. TypeOK'
    BY <1>1, <2>1, <2>2 DEF TypeOK
  <2>4. ReadsTruth'
    BY <1>1, <2>1 DEF ReadsTruth, Answer, TypeOK
  <2>. QED
    BY <1>1, <2>1, <2>3, <2>4 DEF CacheInv, Followed, Answered, OneAtATime, Pending
<1>8. ASSUME NEW c \in Call, Send(c) PROVE CacheInv'
  <2> DEFINE patched == Optimistic[writer] \cap watch
  <2>1. /\ call[c] = "ready" /\ (writer \in Serial => Pending = {})
        /\ call' = [call EXCEPT ![c] = "sent"]
        /\ before' = [before EXCEPT ![c] = [q \in watch |-> Snapshot(q)]]
        /\ data' = [q \in watch |-> IF q \in patched THEN data[q] \cup {c} ELSE data[q]]
        /\ invalid' = [q \in watch |-> invalid[q] /\ q \notin patched]
        /\ fetch' = [q \in watch |-> IF q \in Cancels[writer] THEN Idle ELSE fetch[q]]
        /\ \A q \in patched : data[q] # None
        /\ UNCHANGED <<writer, tracked, watch, tour, page, applied, missed, failures>>
    BY <1>8 DEF Send, fixed
  <2>2. /\ call' \in [Call -> {"ready", "sent", "ok", "error", "won", "failed"}]
        /\ call'[c] = "sent" /\ (\A d \in Call : d # c => call'[d] = call[d])
        /\ Pending' = Pending \cup {c}
    BY <1>1, <2>1, CallGoesOn
  <2>3. before' \in [Call -> [watch -> Content]]
    BY <1>1, <2>1, Contents DEF Snapshot, TypeOK
  <2>4. data' \in [watch -> Content]
    BY <1>1, <2>1, Contents DEF TypeOK
  <2>5. invalid' \in [watch -> BOOLEAN] /\ fetch' \in [watch -> {Idle, Asked} \cup SUBSET Call]
    BY <1>1, <2>1 DEF TypeOK
  <2>6. TypeOK'
    BY <1>1, <2>1, <2>2, <2>3, <2>4, <2>5 DEF TypeOK
  <2>7. ReadsTruth'
    BY <1>1, <2>1 DEF ReadsTruth, Answer
  <2>8. Answered' /\ OneAtATime'
    BY <1>1, <2>1, <2>2 DEF Answered, OneAtATime
  <2>. QED
    BY <1>1, <2>1, <2>6, <2>7, <2>8 DEF CacheInv, Followed
<1>9. ASSUME NEW c \in Call, Serve(c) PROVE CacheInv'
  <2>1. PICK b \in {"sent", "ok", "error", "won", "failed"} :
          /\ \/ b = "ok" /\ applied' = applied \cup {c}
             \/ b = "error" /\ applied' \in {applied, applied \cup {c}}
          /\ call' = [call EXCEPT ![c] = b]
    BY <1>9 DEF Serve
  <2>2. /\ call[c] = "sent"
        /\ UNCHANGED <<writer, tracked, watch, tour, page, before, data, invalid, fetch, missed, failures>>
    BY <1>9 DEF Serve, fixed
  <2>3. /\ call' \in [Call -> {"ready", "sent", "ok", "error", "won", "failed"}]
        /\ call'[c] = b /\ (\A d \in Call : d # c => call'[d] = call[d])
        /\ Pending' = Pending \cup {c} /\ c \in Pending
    BY <1>1, <2>1, <2>2, CallGoesOn DEF Pending
  <2>4. TypeOK'
    BY <1>1, <2>1, <2>2, <2>3 DEF TypeOK
  <2>5. ReadsTruth' /\ Answered' /\ OneAtATime'
    BY <1>1, <2>1, <2>2, <2>3 DEF ReadsTruth, Answer, Answered, OneAtATime
  <2>. QED
    BY <1>1, <2>2, <2>4, <2>5 DEF CacheInv, Followed
<1>10. ASSUME NEW c \in Call, Settle(c) PROVE CacheInv'
  <2>1. /\ UNCHANGED <<writer, tracked, watch, tour, page, applied, before, failures>>
        /\ call[c] \in {"ok", "error"}
        /\ call' \in [Call -> {"ready", "sent", "ok", "error", "won", "failed"}]
        /\ call'[c] = (IF call[c] = "ok" THEN "won" ELSE "failed")
        /\ \A d \in Call : d # c => call'[d] = call[d]
        /\ Pending' = Pending \ {c}
        /\ data' \in [watch -> Content] /\ invalid' \in [watch -> BOOLEAN]
        /\ fetch' \in [watch -> {Idle, Asked} \cup SUBSET Call]
        /\ missed' \in SUBSET watch
        /\ \A q \in watch : fetch'[q] \in {Idle, Asked, fetch[q]}
    BY <1>1, <1>10, SettleSo
  <2>2. TypeOK'
    BY <1>1, <2>1 DEF TypeOK
  <2>3. ReadsTruth' /\ Answered' /\ OneAtATime'
    BY <1>1, <2>1 DEF ReadsTruth, Answer, Answered, OneAtATime
  <2>. QED
    BY <1>1, <2>1, <2>2, <2>3 DEF CacheInv, Followed
<1>11. CASE UNCHANGED vars
  BY <1>1, <1>11 DEF vars, CacheInv, TypeOK, Followed, Answered, ReadsTruth, Answer, OneAtATime, Pending
<1>. QED
  BY <1>2, <1>3, <1>4, <1>5, <1>6, <1>7, <1>8, <1>9, <1>10, <1>11 DEF Next

\* The invariant of every behaviour, whatever the hooks.
THEOREM CacheInvariance == Spec => []CacheInv
<1>. QED
  BY CacheStarts, CacheKept, PTL DEF Spec

-----------------------------------------------------------------------------
(* Own writes: the inductive invariant.                                     *)

\* The call c is over and the hook has had its chance to invalidate q.
Due(q, c) ==
  c \in applied /\ (call[c] = "won" \/ (call[c] = "failed" /\ q \in OnSettled[writer]))

\* The entry is marked or being fetched, or will be when a call settles.
Protected(q) == invalid[q] \/ fetch[q] # Idle \/ (q \in OnSettled[writer] /\ Pending # {})

\* An answer under way that lacks what is due is known to.
AnswerKnown(q) == \A c \in Call : Due(q, c) /\ Answer(q) /\ c \notin fetch[q] => q \in missed

\* An entry that lacks what is due is protected, or known to come late.
EntryKnown(q) ==
  \A c \in Call : Due(q, c) /\ q \notin missed /\ data[q] # None /\ c \notin data[q] => Protected(q)

StaleInv == \A q \in watch \cap Covered(writer) : AnswerKnown(q) /\ EntryKnown(q)

\* What HooksCover says of the writer and the watched queries.
LEMMA WriterCovers ==
  ASSUME HooksCover, TypeOK, Followed, NEW q \in watch
  PROVE  /\ Truth(q) = applied
         /\ q \in Covered(writer) \cap (Optimistic[writer] \cup Cancels[writer])
              => q \in OnSettled[writer]
         /\ q \in Seeded /\ {q, Bundle} \subseteq Covered(writer)
              => (q \in OnSettled[writer] <=> Bundle \in OnSettled[writer])
         /\ AnswersFor(q) => q \in Covered(writer)
<1>1. writer \in Mutation /\ tracked \in Writes[writer]
  BY DEF TypeOK, Followed
<1>2. q = tracked \/ (q = Bundle /\ tracked \in Seeded)
  BY DEF Followed
<1>3. q \in Writes[writer]
  BY <1>1, <1>2 DEF HooksCover
<1>. QED
  BY <1>1, <1>3 DEF HooksCover, Truth, AnswersFor

\* An entry that no step touches stays known.
LEMMA KnownKept ==
  ASSUME UNCHANGED <<writer, applied, call>>, NEW q, AnswerKnown(q), EntryKnown(q),
         data'[q] = data[q], invalid[q] => invalid'[q], fetch'[q] = fetch[q],
         q \in missed => q \in missed'
  PROVE  AnswerKnown(q)' /\ EntryKnown(q)'
BY DEF AnswerKnown, EntryKnown, Due, Answer, Protected, Pending

\* What is copied over an entry is as well known as the bundle.
LEMMA CopyKnown ==
  ASSUME HooksCover, CacheInv, UNCHANGED <<writer, applied, call>>,
         NEW q \in watch, q \in Covered(writer), Copied(q),
         Bundle \in Covered(writer) => EntryKnown(Bundle)'
  PROVE  EntryKnown(q)'
<1>. SUFFICES ASSUME NEW c \in Call, Due(q, c)', q \notin missed', data'[q] # None, c \notin data'[q]
              PROVE  Protected(q)'
  BY DEF EntryKnown
<1>1. /\ q \in Seeded /\ Bundle \in watch /\ Bundle \in Covered(writer)
      /\ data'[q] = data'[Bundle] /\ ~invalid'[Bundle] /\ Bundle \notin missed'
      /\ fetch'[Bundle] = Idle
  BY DEF Copied
<1>2. q \in OnSettled[writer] <=> Bundle \in OnSettled[writer]
  BY <1>1, WriterCovers DEF CacheInv
<1>3. Due(Bundle, c)'
  BY <1>2 DEF Due
<1>4. Protected(Bundle)'
  BY <1>1, <1>3 DEF EntryKnown
<1>. QED
  BY <1>1, <1>2, <1>4 DEF Protected

LEMMA StaleStarts == Init => StaleInv
BY DEF Init, StaleInv, AnswerKnown, EntryKnown, Due

-----------------------------------------------------------------------------
(* Own writes: the steps.                                                   *)

LEMMA GoToStale ==
  ASSUME HooksCover, CacheInv, StaleInv, NEW p \in tour, GoTo(p) PROVE StaleInv'
<1>1. TypeOK /\ Followed
  BY DEF CacheInv
<1>2. /\ UNCHANGED <<writer, tracked, watch, applied, call>>
      /\ \A q \in watch :
           /\ fetch'[q] = (IF MountFetches(q, p) THEN Asked ELSE fetch[q])
           /\ \/ Copied(q)
              \/ /\ data'[q] = data[q] /\ (invalid'[q] <=> invalid[q])
                 /\ q \in missed' <=> (q \in missed /\ ~MountFetches(q, p))
           /\ (q \in missed /\ ~MountFetches(q, p) /\ fetch'[q] # Idle) => q \in missed'
  BY <1>1, GoToSo
<1>3. Covered(writer)' = Covered(writer)
  BY <1>2 DEF Covered
<1>4. ASSUME NEW q \in watch \cap Covered(writer) PROVE AnswerKnown(q)'
  <2>1. CASE MountFetches(q, p)
    BY <1>2, <2>1 DEF AnswerKnown, Answer
  <2>2. CASE ~MountFetches(q, p)
    BY <1>2, <2>2 DEF StaleInv, AnswerKnown, Answer, Due
  <2>. QED
    BY <2>1, <2>2
<1>5. ASSUME NEW q \in watch \cap Covered(writer), ~Copied(q) PROVE EntryKnown(q)'
  <2>1. CASE MountFetches(q, p)
    BY <1>2, <2>1, Fetches DEF EntryKnown, Protected
  <2>2. CASE ~MountFetches(q, p)
    BY <1>2, <1>5, <2>2 DEF StaleInv, EntryKnown, Protected, Pending, Due
  <2>. QED
    BY <2>1, <2>2
<1>6. ASSUME NEW q \in watch \cap Covered(writer), Copied(q) PROVE EntryKnown(q)'
  <2>1. Bundle \in watch /\ ~Copied(Bundle)
    BY <1>6, CacheAssumption DEF Copied
  <2>. QED
    BY <1>2, <1>5, <1>6, <2>1, CopyKnown
<1>. QED
  BY <1>2, <1>3, <1>4, <1>5, <1>6 DEF StaleInv

LEMMA DeliverStale ==
  ASSUME HooksCover, CacheInv, StaleInv, NEW r \in watch, Deliver(r) PROVE StaleInv'
<1>1. TypeOK /\ Followed
  BY DEF CacheInv
<1>2. /\ UNCHANGED <<writer, tracked, watch, applied, call>> /\ Answer(r)
      /\ \A q \in watch :
           /\ fetch'[q] = (IF q = r THEN Idle ELSE fetch[q])
           /\ \/ Copied(q) /\ q # r
              \/ /\ data'[q] = IF q = r THEN fetch[r] ELSE data[q]
                 /\ invalid'[q] <=> (q # r /\ invalid[q])
                 /\ q \in missed' <=> q \in missed
           /\ (q \in missed /\ fetch'[q] # Idle) => q \in missed'
  BY <1>1, DeliverSo
<1>3. Covered(writer)' = Covered(writer)
  BY <1>2 DEF Covered
<1>4. ASSUME NEW q \in watch \cap Covered(writer) PROVE AnswerKnown(q)'
  <2>1. CASE q = r
    BY <1>2, <2>1 DEF AnswerKnown, Answer
  <2>2. CASE q # r
    BY <1>2, <2>2 DEF StaleInv, AnswerKnown, Answer, Due
  <2>. QED
    BY <2>1, <2>2
<1>5. ASSUME NEW q \in watch \cap Covered(writer), ~Copied(q) PROVE EntryKnown(q)'
  <2>1. CASE q = r
    BY <1>2, <1>5, <2>1 DEF StaleInv, AnswerKnown, EntryKnown, Due
  <2>2. CASE q # r
    BY <1>2, <1>5, <2>2 DEF StaleInv, EntryKnown, Protected, Pending, Due
  <2>. QED
    BY <2>1, <2>2
<1>6. ASSUME NEW q \in watch \cap Covered(writer), Copied(q) PROVE EntryKnown(q)'
  <2>1. Bundle \in watch /\ ~Copied(Bundle)
    BY <1>6, CacheAssumption DEF Copied
  <2>. QED
    BY <1>2, <1>5, <1>6, <2>1, CopyKnown
<1>. QED
  BY <1>2, <1>3, <1>4, <1>5, <1>6 DEF StaleInv

LEMMA SettleStale ==
  ASSUME HooksCover, CacheInv, StaleInv, NEW c \in Call, Settle(c) PROVE StaleInv'
<1>1. TypeOK /\ Followed
  BY DEF CacheInv
<1>2. /\ UNCHANGED <<writer, tracked, watch, applied>>
      /\ call[c] \in {"ok", "error"}
      /\ call'[c] = (IF call[c] = "ok" THEN "won" ELSE "failed")
      /\ \A d \in Call : d # c => call'[d] = call[d]
      /\ \A q \in watch :
           /\ data'[q] = IF q \in Removes[writer] THEN None ELSE Callback(c, q)
           /\ q \in Hit(c) =>
                /\ invalid'[q]
                /\ fetch'[q] = Asked \/ (fetch'[q] = fetch[q] /\ (fetch[q] = Idle \/ q \in missed'))
           /\ q \notin Hit(c) /\ q \notin Removes[writer] =>
                /\ fetch'[q] = fetch[q] /\ (q \in missed' <=> q \in missed)
                /\ ~RollsBack(c, q) /\ ~PatchesNow(c, q) => (invalid'[q] <=> invalid[q])
           /\ q \in Removes[writer] => fetch'[q] = Idle
  BY <1>1, SettleSo
<1>3. Covered(writer)' = Covered(writer)
  BY <1>2 DEF Covered
<1>4. ASSUME NEW q \in watch \cap Covered(writer) PROVE AnswerKnown(q)' /\ EntryKnown(q)'
  <2>1. CASE q \in Removes[writer]
    BY <1>2, <2>1 DEF AnswerKnown, EntryKnown, Answer
  <2>2. CASE q \in Hit(c)
    BY <1>2, <2>2 DEF AnswerKnown, EntryKnown, Answer, Protected
  <2>3. CASE q \notin Hit(c) /\ q \notin Removes[writer]
    <3>1. call[c] = "error" /\ q \notin OnSettled[writer]
      BY <1>2, <1>4, <2>3 DEF Hit, Invalidated
    <3>2. q \notin Optimistic[writer]
      BY <1>1, <1>4, <3>1, WriterCovers
    <3>3. ~RollsBack(c, q) /\ ~PatchesNow(c, q)
      BY <3>1, <3>2 DEF RollsBack, PatchesNow
    <3>4. data'[q] = data[q] /\ (invalid'[q] <=> invalid[q]) /\ fetch'[q] = fetch[q]
          /\ (q \in missed' <=> q \in missed)
      BY <1>2, <2>3, <3>3 DEF Callback
    <3>5. \A d \in Call : Due(q, d)' => Due(q, d)
      BY <1>2, <3>1 DEF Due
    <3>. QED
      BY <1>2, <1>4, <3>1, <3>4, <3>5 DEF StaleInv, AnswerKnown, EntryKnown, Answer, Protected
  <2>. QED
    BY <2>1, <2>2, <2>3
<1>. QED
  BY <1>2, <1>3, <1>4 DEF StaleInv

LEMMA SendStale ==
  ASSUME HooksCover, CacheInv, StaleInv, NEW c \in Call, Send(c) PROVE StaleInv'
<1>1. TypeOK /\ Followed
  BY DEF CacheInv
<1> DEFINE patched == Optimistic[writer] \cap watch
<1>2. /\ call[c] = "ready" /\ call' = [call EXCEPT ![c] = "sent"]
      /\ data' = [q \in watch |-> IF q \in patched THEN data[q] \cup {c} ELSE data[q]]
      /\ invalid' = [q \in watch |-> invalid[q] /\ q \notin patched]
      /\ fetch' = [q \in watch |-> IF q \in Cancels[writer] THEN Idle ELSE fetch[q]]
      /\ UNCHANGED <<writer, tracked, watch, applied, missed>>
  BY DEF Send, fixed
<1>3. Covered(writer)' = Covered(writer)
  BY <1>2 DEF Covered
<1>4. /\ call'[c] = "sent" /\ (\A d \in Call : d # c => call'[d] = call[d])
      /\ Pending' = Pending \cup {c}
  BY <1>1, <1>2, CallGoesOn
<1>5. \A q \in watch, d \in Call : Due(q, d)' => Due(q, d)
  BY <1>2, <1>4 DEF Due
<1>6. ASSUME NEW q \in watch \cap Covered(writer) PROVE AnswerKnown(q)' /\ EntryKnown(q)'
  <2>1. AnswerKnown(q)'
    BY <1>2, <1>5 DEF StaleInv, AnswerKnown, Answer
  <2>2. CASE q \in Optimistic[writer] \cup Cancels[writer]
    <3>1. q \in OnSettled[writer]
      BY <1>1, <2>2, WriterCovers
    <3>. QED
      BY <1>2, <1>4, <2>1, <3>1 DEF EntryKnown, Protected
  <2>3. CASE q \notin Optimistic[writer] \cup Cancels[writer]
    <3>1. data'[q] = data[q] /\ (invalid'[q] <=> invalid[q]) /\ fetch'[q] = fetch[q]
      BY <1>2, <2>3
    <3>. QED
      BY <1>2, <1>4, <1>5, <2>1, <3>1 DEF StaleInv, EntryKnown, Protected
  <2>. QED
    BY <2>2, <2>3
<1>. QED
  BY <1>2, <1>3, <1>6 DEF StaleInv

LEMMA StaleKept ==
  ASSUME HooksCover PROVE CacheInv /\ StaleInv /\ [Next]_vars => StaleInv'
<1>. SUFFICES ASSUME CacheInv, StaleInv, [Next]_vars PROVE StaleInv'
  OBVIOUS
<1>1. TypeOK /\ Followed
  BY DEF CacheInv
<1>2. ASSUME NEW p \in tour, GoTo(p) PROVE StaleInv'
  BY <1>2, GoToStale
<1>3. CASE Focus
  <2>1. PICK asks \in SUBSET watch :
          /\ fetch' = [q \in watch |-> IF q \in asks THEN Asked ELSE fetch[q]]
          /\ missed' = missed \ asks
          /\ UNCHANGED <<writer, watch, applied, call, data, invalid>>
    BY <1>3 DEF Focus, fixed
  <2>2. ASSUME NEW q \in watch \cap Covered(writer) PROVE AnswerKnown(q)' /\ EntryKnown(q)'
    <3>1. CASE q \in asks
      BY <2>1, <3>1, Fetches DEF AnswerKnown, EntryKnown, Answer, Protected
    <3>2. CASE q \notin asks
      BY <2>1, <3>2, KnownKept DEF StaleInv
    <3>. QED
      BY <3>1, <3>2
  <2>. QED
    BY <2>1, <2>2 DEF StaleInv, Covered
<1>4. ASSUME NEW r \in watch, Collect(r) PROVE StaleInv'
  <2>1. /\ fetch[r] = Idle /\ data' = [data EXCEPT ![r] = None]
        /\ invalid' = [invalid EXCEPT ![r] = FALSE] /\ missed' = missed \ {r}
        /\ UNCHANGED <<writer, watch, applied, call, fetch>>
    BY <1>4 DEF Collect, fixed
  <2>2. ASSUME NEW q \in watch \cap Covered(writer) PROVE AnswerKnown(q)' /\ EntryKnown(q)'
    <3>1. CASE q = r
      BY <1>1, <2>1, <3>1 DEF AnswerKnown, EntryKnown, Answer, TypeOK
    <3>2. CASE q # r
      BY <1>1, <2>1, <3>2, KnownKept DEF StaleInv, TypeOK
    <3>. QED
      BY <3>1, <3>2
  <2>. QED
    BY <2>1, <2>2 DEF StaleInv, Covered
<1>5. ASSUME NEW r \in watch, Read(r) PROVE StaleInv'
  <2>1. /\ fetch' = [fetch EXCEPT ![r] = Truth(r)]
        /\ UNCHANGED <<writer, watch, applied, call, data, invalid, missed>>
    BY <1>5 DEF Read, fixed
  <2>2. Truth(r) = applied /\ applied \in SUBSET Call
    BY <1>1, WriterCovers DEF TypeOK
  <2>3. ASSUME NEW q \in watch \cap Covered(writer) PROVE AnswerKnown(q)' /\ EntryKnown(q)'
    <3>1. CASE q = r
      <4>1. fetch'[q] = applied /\ applied # Idle
        BY <1>1, <2>1, <2>2, <3>1, Fetches DEF TypeOK
      <4>. QED
        BY <2>1, <4>1 DEF AnswerKnown, EntryKnown, Answer, Protected, Due
    <3>2. CASE q # r
      BY <1>1, <2>1, <3>2, KnownKept DEF StaleInv, TypeOK
    <3>. QED
      BY <3>1, <3>2
  <2>. QED
    BY <2>1, <2>3 DEF StaleInv, Covered
<1>6. ASSUME NEW r \in watch, Deliver(r) PROVE StaleInv'
  BY <1>6, DeliverStale
<1>7. ASSUME NEW r \in watch, Fail(r) PROVE StaleInv'
  <2>1. /\ fetch' = [fetch EXCEPT ![r] = Idle] /\ invalid' = [invalid EXCEPT ![r] = TRUE]
        /\ UNCHANGED <<writer, watch, applied, call, data, missed>>
    BY <1>7 DEF Fail, fixed
  <2>2. ASSUME NEW q \in watch \cap Covered(writer) PROVE AnswerKnown(q)' /\ EntryKnown(q)'
    <3>1. CASE q = r
      BY <1>1, <2>1, <3>1 DEF AnswerKnown, EntryKnown, Answer, Protected, TypeOK
    <3>2. CASE q # r
      BY <1>1, <2>1, <3>2, KnownKept DEF StaleInv, TypeOK
    <3>. QED
      BY <3>1, <3>2
  <2>. QED
    BY <2>1, <2>2 DEF StaleInv, Covered
<1>8. ASSUME NEW c \in Call, Send(c) PROVE StaleInv'
  BY <1>8, SendStale
<1>9. ASSUME NEW c \in Call, Serve(c) PROVE StaleInv'
  <2>1. PICK b \in {"sent", "ok", "error", "won", "failed"} :
          /\ b \in {"ok", "error"} /\ applied' \in {applied, applied \cup {c}}
          /\ call' = [call EXCEPT ![c] = b]
    BY <1>9 DEF Serve
  <2>2. /\ call[c] = "sent" /\ UNCHANGED <<writer, watch, data, invalid, fetch, missed>>
    BY <1>9 DEF Serve, fixed
  <2>3. /\ call'[c] = b /\ (\A d \in Call : d # c => call'[d] = call[d])
        /\ Pending' = Pending
    BY <1>1, <2>1, <2>2, CallGoesOn DEF Pending
  <2>4. \A q \in watch, d \in Call : Due(q, d)' => Due(q, d)
    BY <2>1, <2>2, <2>3 DEF Due
  <2>. QED
    BY <2>2, <2>3, <2>4 DEF StaleInv, Covered, AnswerKnown, EntryKnown, Answer, Protected
<1>10. ASSUME NEW c \in Call, Settle(c) PROVE StaleInv'
  BY <1>10, SettleStale
<1>11. CASE UNCHANGED vars
  BY <1>11 DEF vars, StaleInv, Covered, AnswerKnown, EntryKnown, Answer, Protected, Due, Pending
<1>. QED
  BY <1>2, <1>3, <1>4, <1>5, <1>6, <1>7, <1>8, <1>9, <1>10, <1>11 DEF Next

\* No hook that keeps to HooksCover leaves an entry without the effect of a
\* call that is over, unmarked and unfetched.
THEOREM OwnWritesAreFlagged == ASSUME HooksCover PROVE Spec => []OwnWritesFlagged
<1>1. CacheInv /\ StaleInv => OwnWritesFlagged
  <2>. SUFFICES ASSUME CacheInv, StaleInv, NEW q \in watch, NEW c \in applied,
                       AnswersFor(q), q \notin missed, data[q] # None, c \notin data[q],
                       call[c] = "won" \/ (call[c] = "failed" /\ q \in OnSettled[writer])
                PROVE  \/ invalid[q] \/ fetch[q] = Asked
                       \/ fetch[q] # Idle /\ c \in fetch[q]
                       \/ \E d \in Pending : q \in OnSettled[writer]
    BY DEF OwnWritesFlagged
  <2>1. TypeOK /\ Followed /\ c \in Call
    BY DEF CacheInv, TypeOK
  <2>2. q \in Covered(writer)
    BY <2>1, WriterCovers
  <2>3. AnswerKnown(q) /\ EntryKnown(q)
    BY <2>2 DEF StaleInv
  <2>4. Due(q, c)
    BY DEF Due
  <2>5. Protected(q)
    BY <2>1, <2>3, <2>4 DEF EntryKnown
  <2>6. Answer(q) => c \in fetch[q]
    BY <2>1, <2>3, <2>4 DEF AnswerKnown
  <2>. QED
    BY <2>5, <2>6 DEF Protected, Answer
<1>. QED
  BY <1>1, CacheInvariance, StaleStarts, StaleKept, PTL DEF Spec

-----------------------------------------------------------------------------
(* Phantoms: the inductive invariant.                                       *)

\* The entry shows nothing the server does not have.
Genuine(q) == data[q] # None => data[q] \subseteq applied

Marked(q) == invalid[q] \/ fetch[q] # Idle

\* An entry nobody anticipates is genuine; one that is fetched again whatever
\* comes back is genuine once that fetch is over; one whose form waits for each
\* answer is genuine but for the call under way, and can be put back.
PhantomKnown(q) ==
  /\ q \notin Optimistic[writer] => Genuine(q)
  /\ q \in Optimistic[writer] \cap OnSettled[writer] =>
       Genuine(q) \/ Marked(q) \/ Pending # {}
  /\ q \in Optimistic[writer] \ OnSettled[writer] =>
       /\ data[q] # None => data[q] \subseteq applied \cup Pending
       /\ \A c \in Pending : before[c][q] # None /\ before[c][q] \subseteq applied

PhantomInv == \A q \in watch : PhantomKnown(q)

\* An entry that becomes genuine, or stays what it is and as marked as it was.
LEMMA EntryStays ==
  ASSUME UNCHANGED <<writer, before>>, Pending' = Pending, applied \subseteq applied',
         NEW q, PhantomKnown(q),
         Genuine(q)' \/ (data'[q] = data[q] /\ (Marked(q) => Marked(q)'))
  PROVE  PhantomKnown(q)'
<1>1. CASE Genuine(q)'
  BY <1>1 DEF PhantomKnown, Genuine
<1>2. CASE data'[q] = data[q] /\ (Marked(q) => Marked(q)')
  <2>1. Genuine(q) => Genuine(q)'
    BY <1>2 DEF Genuine
  <2>. QED
    BY <1>2, <2>1 DEF PhantomKnown
<1>. QED
  BY <1>1, <1>2

\* The bundle is never anticipated, so what is copied from it is genuine.
LEMMA CopyGenuine ==
  ASSUME HooksForget, CacheInv, UNCHANGED writer, applied \subseteq applied', NEW q, Copied(q),
         PhantomKnown(Bundle), data'[Bundle] = data[Bundle] \/ Genuine(Bundle)'
  PROVE  Genuine(q)'
<1>1. Bundle \notin Optimistic[writer]
  BY DEF HooksForget, CacheInv, TypeOK
<1>2. Genuine(Bundle)
  BY <1>1 DEF PhantomKnown
<1>. QED
  BY <1>2 DEF Copied, Genuine

LEMMA PhantomStarts == Init => PhantomInv
BY DEF Init, PhantomInv, PhantomKnown, Genuine, Pending

-----------------------------------------------------------------------------
(* Phantoms: the steps.                                                     *)

LEMMA GoToPhantom ==
  ASSUME HooksForget, CacheInv, PhantomInv, NEW p \in tour, GoTo(p) PROVE PhantomInv'
<1>1. /\ UNCHANGED <<writer, watch, applied, call, before>>
      /\ \A q \in watch :
           /\ fetch'[q] = (IF MountFetches(q, p) THEN Asked ELSE fetch[q])
           /\ Copied(q) \/ (data'[q] = data[q] /\ (invalid'[q] <=> invalid[q]))
  BY GoToSo DEF CacheInv
<1>2. Pending' = Pending
  BY <1>1 DEF Pending
<1>3. ASSUME NEW q \in watch PROVE PhantomKnown(q)'
  <2>1. CASE Copied(q)
    <3>1. Bundle \in watch /\ ~Copied(Bundle)
      BY <2>1, CacheAssumption DEF Copied
    <3>2. Genuine(q)'
      BY <1>1, <2>1, <3>1, CopyGenuine DEF PhantomInv
    <3>. QED
      BY <1>1, <1>2, <3>2, EntryStays DEF PhantomInv
  <2>2. CASE ~Copied(q)
    <3>1. Marked(q) => Marked(q)'
      BY <1>1, <2>2, Fetches DEF Marked
    <3>. QED
      BY <1>1, <1>2, <2>2, <3>1, EntryStays DEF PhantomInv
  <2>. QED
    BY <2>1, <2>2
<1>. QED
  BY <1>1, <1>3 DEF PhantomInv

LEMMA DeliverPhantom ==
  ASSUME HooksForget, CacheInv, PhantomInv, NEW r \in watch, Deliver(r) PROVE PhantomInv'
<1>1. /\ UNCHANGED <<writer, watch, applied, call, before>> /\ Answer(r)
      /\ \A q \in watch :
           /\ fetch'[q] = (IF q = r THEN Idle ELSE fetch[q])
           /\ \/ Copied(q) /\ q # r
              \/ /\ data'[q] = IF q = r THEN fetch[r] ELSE data[q]
                 /\ invalid'[q] <=> (q # r /\ invalid[q])
  BY DeliverSo DEF CacheInv
<1>2. Pending' = Pending
  BY <1>1 DEF Pending
<1>3. ASSUME ~Copied(r) PROVE Genuine(r)'
  BY <1>1, <1>3 DEF CacheInv, ReadsTruth, Genuine
<1>4. ASSUME NEW q \in watch PROVE PhantomKnown(q)'
  <2>1. CASE Copied(q)
    <3>1. Bundle \in watch /\ ~Copied(Bundle)
      BY <2>1, CacheAssumption DEF Copied
    <3>2. data'[Bundle] = data[Bundle] \/ Genuine(Bundle)'
      BY <1>1, <1>3, <3>1
    <3>3. Genuine(q)'
      BY <1>1, <2>1, <3>1, <3>2, CopyGenuine DEF PhantomInv
    <3>. QED
      BY <1>1, <1>2, <3>3, EntryStays DEF PhantomInv
  <2>2. CASE ~Copied(q) /\ q # r
    <3>1. Marked(q) => Marked(q)'
      BY <1>1, <2>2 DEF Marked
    <3>. QED
      BY <1>1, <1>2, <2>2, <3>1, EntryStays DEF PhantomInv
  <2>3. CASE ~Copied(q) /\ q = r
    BY <1>1, <1>2, <1>3, <2>3, EntryStays DEF PhantomInv
  <2>. QED
    BY <2>1, <2>2, <2>3
<1>. QED
  BY <1>1, <1>4 DEF PhantomInv

LEMMA SendPhantom ==
  ASSUME HooksForget, CacheInv, PhantomInv, NEW c \in Call, Send(c) PROVE PhantomInv'
<1>1. TypeOK
  BY DEF CacheInv
<1> DEFINE patched == Optimistic[writer] \cap watch
<1>2. /\ writer \in Serial => Pending = {}
      /\ call' = [call EXCEPT ![c] = "sent"]
      /\ before' = [before EXCEPT ![c] = [q \in watch |-> Snapshot(q)]]
      /\ data' = [q \in watch |-> IF q \in patched THEN data[q] \cup {c} ELSE data[q]]
      /\ \A q \in patched : data[q] # None
      /\ UNCHANGED <<writer, watch, applied>>
  BY DEF Send, fixed
<1>3. Pending' = Pending \cup {c}
  BY <1>1, <1>2, CallGoesOn
<1>4. ASSUME NEW q \in watch PROVE PhantomKnown(q)'
  <2>1. CASE q \notin Optimistic[writer]
    BY <1>2, <2>1 DEF PhantomInv, PhantomKnown, Genuine
  <2>2. CASE q \in Optimistic[writer] \cap OnSettled[writer]
    BY <1>2, <1>3, <2>2 DEF PhantomKnown
  <2>3. CASE q \in Optimistic[writer] \ OnSettled[writer]
    <3>1. Pending = {} /\ Pending' = {c}
      BY <1>1, <1>2, <1>3, <2>3 DEF HooksForget, TypeOK
    <3>2. data[q] # None /\ data[q] \subseteq applied
      BY <1>2, <2>3, <3>1 DEF PhantomInv, PhantomKnown
    <3>3. data'[q] = data[q] \cup {c} /\ before'[c][q] = data[q]
      BY <1>1, <1>2, <2>3 DEF Snapshot, TypeOK
    <3>. QED
      BY <1>2, <2>3, <3>1, <3>2, <3>3 DEF PhantomKnown
  <2>. QED
    BY <2>1, <2>2, <2>3
<1>. QED
  BY <1>2, <1>4 DEF PhantomInv

LEMMA SettlePhantom ==
  ASSUME HooksForget, CacheInv, PhantomInv, NEW c \in Call, Settle(c) PROVE PhantomInv'
<1>1. TypeOK /\ Answered /\ OneAtATime
  BY DEF CacheInv
<1>2. /\ UNCHANGED <<writer, watch, applied, before>>
      /\ call[c] \in {"ok", "error"}
      /\ Pending' = Pending \ {c}
      /\ \A q \in watch :
           /\ data'[q] = IF q \in Removes[writer] THEN None ELSE Callback(c, q)
           /\ q \in Hit(c) => invalid'[q]
  BY <1>1, SettleSo
<1>3. c \in Pending /\ (call[c] = "ok" => c \in applied)
  BY <1>1, <1>2 DEF Pending, Answered
<1>4. ASSUME NEW q \in watch PROVE PhantomKnown(q)'
  <2>1. PhantomKnown(q)
    BY DEF PhantomInv
  <2>2. CASE q \in Removes[writer]
    BY <1>2, <2>1, <2>2 DEF PhantomKnown, Genuine
  <2>3. CASE q \notin Removes[writer] /\ q \notin Optimistic[writer]
    BY <1>2, <1>3, <2>1, <2>3 DEF PhantomKnown, Genuine, Callback, RollsBack, PatchesNow
  <2>4. CASE q \notin Removes[writer] /\ q \in Optimistic[writer] \cap OnSettled[writer]
    <3>1. invalid'[q]
      BY <1>2, <2>4 DEF Hit, Invalidated, Covered
    <3>. QED
      BY <1>2, <2>4, <3>1 DEF PhantomKnown, Marked
  <2>5. CASE q \notin Removes[writer] /\ q \in Optimistic[writer] \ OnSettled[writer]
    <3>1. Pending = {c} /\ Pending' = {}
      BY <1>1, <1>2, <1>3, <2>5 DEF HooksForget, TypeOK, OneAtATime
    <3>2. /\ data[q] # None => data[q] \subseteq applied \cup {c}
          /\ before[c][q] # None /\ before[c][q] \subseteq applied
      BY <2>1, <2>5, <3>1 DEF PhantomKnown
    <3>3. data'[q] = Callback(c, q)
      BY <1>2, <2>5
    <3>4. CASE call[c] = "error"
      <4>1. RollsBack(c, q)
        BY <2>5, <3>2, <3>4 DEF RollsBack
      <4>2. data'[q] = before[c][q]
        BY <3>3, <3>4, <4>1 DEF Callback, PatchesNow
      <4>. QED
        BY <1>2, <2>5, <3>1, <3>2, <4>2 DEF PhantomKnown
    <3>5. CASE call[c] = "ok"
      <4>1. data'[q] # None => data'[q] \subseteq applied
        BY <1>3, <3>2, <3>3, <3>5 DEF Callback, RollsBack, PatchesNow
      <4>. QED
        BY <1>2, <2>5, <3>1, <4>1 DEF PhantomKnown
    <3>. QED
      BY <1>2, <3>4, <3>5
  <2>. QED
    BY <2>2, <2>3, <2>4, <2>5
<1>. QED
  BY <1>2, <1>4 DEF PhantomInv

LEMMA PhantomKept ==
  ASSUME HooksForget PROVE CacheInv /\ PhantomInv /\ [Next]_vars => PhantomInv'
<1>. SUFFICES ASSUME CacheInv, PhantomInv, [Next]_vars PROVE PhantomInv'
  OBVIOUS
<1>1. TypeOK
  BY DEF CacheInv
<1>2. ASSUME NEW p \in tour, GoTo(p) PROVE PhantomInv'
  BY <1>2, GoToPhantom
<1>3. CASE Focus
  <2>1. PICK asks \in SUBSET watch :
          /\ fetch' = [q \in watch |-> IF q \in asks THEN Asked ELSE fetch[q]]
          /\ UNCHANGED <<writer, watch, applied, call, before, data, invalid>>
    BY <1>3 DEF Focus, fixed
  <2>2. \A q \in watch : Marked(q) => Marked(q)'
    BY <2>1, Fetches DEF Marked
  <2>3. Pending' = Pending
    BY <2>1 DEF Pending
  <2>. QED
    BY <2>1, <2>2, <2>3, EntryStays DEF PhantomInv
<1>4. ASSUME NEW r \in watch, Collect(r) PROVE PhantomInv'
  <2>1. /\ data' = [data EXCEPT ![r] = None] /\ invalid' = [invalid EXCEPT ![r] = FALSE]
        /\ UNCHANGED <<writer, watch, applied, call, before, fetch>>
    BY <1>4 DEF Collect, fixed
  <2>2. Genuine(r)'
    BY <1>1, <2>1 DEF Genuine, TypeOK
  <2>3. \A q \in watch : q # r => data'[q] = data[q] /\ (Marked(q) => Marked(q)')
    BY <1>1, <2>1 DEF Marked, TypeOK
  <2>4. Pending' = Pending
    BY <2>1 DEF Pending
  <2>. QED
    BY <2>1, <2>2, <2>3, <2>4, EntryStays DEF PhantomInv
<1>5. ASSUME NEW r \in watch, Read(r) PROVE PhantomInv'
  <2>1. /\ fetch' = [fetch EXCEPT ![r] = Truth(r)]
        /\ UNCHANGED <<writer, watch, applied, call, before, data, invalid>>
    BY <1>5 DEF Read, fixed
  <2>2. Truth(r) # Idle
    BY <1>1, Fetches DEF Truth, TypeOK
  <2>3. \A q \in watch : Marked(q) => Marked(q)'
    BY <1>1, <2>1, <2>2 DEF Marked, TypeOK
  <2>4. Pending' = Pending
    BY <2>1 DEF Pending
  <2>. QED
    BY <2>1, <2>3, <2>4, EntryStays DEF PhantomInv
<1>6. ASSUME NEW r \in watch, Deliver(r) PROVE PhantomInv'
  BY <1>6, DeliverPhantom
<1>7. ASSUME NEW r \in watch, Fail(r) PROVE PhantomInv'
  <2>1. /\ fetch' = [fetch EXCEPT ![r] = Idle] /\ invalid' = [invalid EXCEPT ![r] = TRUE]
        /\ UNCHANGED <<writer, watch, applied, call, before, data>>
    BY <1>7 DEF Fail, fixed
  <2>2. \A q \in watch : Marked(q) => Marked(q)'
    BY <1>1, <2>1 DEF Marked, TypeOK
  <2>3. Pending' = Pending
    BY <2>1 DEF Pending
  <2>. QED
    BY <2>1, <2>2, <2>3, EntryStays DEF PhantomInv
<1>8. ASSUME NEW c \in Call, Send(c) PROVE PhantomInv'
  BY <1>8, SendPhantom
<1>9. ASSUME NEW c \in Call, Serve(c) PROVE PhantomInv'
  <2>1. PICK b \in {"sent", "ok", "error", "won", "failed"} :
          /\ b \in {"ok", "error"} /\ applied' \in {applied, applied \cup {c}}
          /\ call' = [call EXCEPT ![c] = b]
    BY <1>9 DEF Serve
  <2>2. /\ call[c] = "sent" /\ UNCHANGED <<writer, watch, before, data, invalid, fetch>>
    BY <1>9 DEF Serve, fixed
  <2>3. Pending' = Pending
    BY <1>1, <2>1, <2>2, CallGoesOn DEF Pending
  <2>4. \A q \in watch : data'[q] = data[q] /\ (Marked(q) => Marked(q)')
    BY <2>2 DEF Marked
  <2>. QED
    BY <2>1, <2>2, <2>3, <2>4, EntryStays DEF PhantomInv
<1>10. ASSUME NEW c \in Call, Settle(c) PROVE PhantomInv'
  BY <1>10, SettlePhantom
<1>11. CASE UNCHANGED vars
  BY <1>11 DEF vars, PhantomInv, PhantomKnown, Genuine, Marked, Pending
<1>. QED
  BY <1>2, <1>3, <1>4, <1>5, <1>6, <1>7, <1>8, <1>9, <1>10, <1>11 DEF Next

\* No hook that keeps to HooksForget leaves on the screen what the server
\* refused, unmarked, unfetched and with no call under way.
THEOREM PhantomsAreFlagged == ASSUME HooksForget PROVE Spec => []PhantomFlagged
<1>1. CacheInv /\ PhantomInv => PhantomFlagged
  <2>. SUFFICES ASSUME CacheInv, PhantomInv, NEW q \in watch, NEW c \in Call,
                       data[q] # None, c \in data[q], call[c] = "failed", c \notin applied
                PROVE  invalid[q] \/ fetch[q] # Idle \/ Pending # {}
    BY DEF PhantomFlagged
  <2>1. PhantomKnown(q) /\ c \notin Pending
    BY DEF PhantomInv, Pending
  <2>. QED
    BY <2>1 DEF PhantomKnown, Genuine, Marked
<1>. QED
  BY <1>1, CacheInvariance, PhantomStarts, PhantomKept, PTL DEF Spec
=============================================================================
