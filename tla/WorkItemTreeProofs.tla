------------------------- MODULE WorkItemTreeProofs -------------------------
(* Proofs about WorkItemTree, for every value of its constants. *)
EXTENDS WorkItemTree, TLAPS

(* What a session changed, and what a write leaves, keep the types.        *)
LEMMA ChangedTyped ==
  ASSUME NEW S, NEW new \in S \cup {Keep}, NEW old
  PROVE  Changed(new, old) \in S \cup {Keep}
BY DEF Changed

LEMMA OverTyped ==
  ASSUME NEW S, NEW new \in S \cup {Keep}, NEW old \in S
  PROVE  Over(new, old) \in S
BY DEF Over

LEMMA StoredTyped ==
  ASSUME NEW w \in Write, NEW o \in Row PROVE Stored(w, o) \in Row
<1>1. Over(w.type, o.type) \in Kind
  BY OverTyped DEF Write, Row
<1>2. Over(w.status, o.status) \in Status
  BY OverTyped DEF Write, Row
<1>3. Over(w.parent, o.parent) \in Link
  BY OverTyped DEF Write, Row
<1>4. Over(w.epic, o.epic) \in Link
  BY OverTyped DEF Write, Row
<1>5. Over(w.completed, o.completed) \in BOOLEAN
  BY OverTyped DEF Write, Row
<1>. QED
  BY <1>1, <1>2, <1>3, <1>4, <1>5 DEF Stored, Row

(* The empty requests are requests. *)
LEMMA NothingTyped == NoWrite \in Write /\ Nothing \in [Item -> Write]
<1>1. NoWrite \in Write
  BY DEF NoWrite, Write
<1>. QED
  BY <1>1 DEF Nothing

LEMMA IdleTyped == Idle \in Task
BY NothingTyped DEF Idle, Task, Handler, Link

(* A row's blank columns are columns. *)
LEMMA BlankTyped == Blank \in Row
BY TreeAssumption DEF Blank, Row, Kind, EpicChild, Status, Link

(* A request that begins, proceeds or ends stays a request.                *)
TasksTyped == task \in [Req -> Task] /\ \A r \in Req : task[r].items \subseteq issued

LEMMA BeginTyped ==
  ASSUME TypeOK, NEW r \in Req, NEW t \in Task, Begin(r, t),
         issued \subseteq issued', t.items \subseteq issued'
  PROVE  TasksTyped'
BY DEF Begin, TypeOK, TasksTyped

LEMMA ProceedTyped ==
  ASSUME TypeOK, NEW r \in Req, NEW l \in {"idle", "rollup"}, Proceed(r, l),
         issued' = issued
  PROVE  TasksTyped'
<1>1. task[r] \in Task
  BY DEF TypeOK
<1> DEFINE t == IF l = "idle" THEN Idle
                ELSE [task[r] EXCEPT !.stage = l, !.writes = Nothing]
<1>2. t \in Task /\ t.items \subseteq issued
  BY <1>1, NothingTyped, IdleTyped DEF Task, TypeOK, Idle
<1>3. task' = [task EXCEPT ![r] = t]
  BY DEF Proceed
<1> HIDE DEF t
<1>. QED
  BY <1>2, <1>3 DEF TypeOK, TasksTyped

(* Each handler's first step keeps the types. *)
LEMMA UpdateTypeOK ==
  ASSUME TypeOK, NEW r \in Req, NEW i \in live, NEW c \in Change,
         update_work_item(r, i, c)
  PROVE  TypeOK'
<1>1. i \in Item /\ row[i] \in Row /\ c \in Body
  BY TreeAssumption DEF TypeOK
<1>2. Completion(i, c.status) \in BOOLEAN \cup {Keep}
  BY DEF Completion, Changed
<1> DEFINE w == [type |-> Changed(c.type, row[i].type),
                 status |-> Changed(c.status, row[i].status),
                 parent |-> Changed(c.parent, row[i].parent),
                 epic |-> Changed(c.epic, row[i].epic),
                 completed |-> Completion(i, c.status)]
<1>3. w \in Write
  <2>1. Changed(c.type, row[i].type) \in Kind \cup {Keep}
    BY <1>1, ChangedTyped DEF Body
  <2>2. Changed(c.status, row[i].status) \in Status \cup {Keep}
    BY <1>1, ChangedTyped DEF Body
  <2>3. Changed(c.parent, row[i].parent) \in Link \cup {Keep}
    BY <1>1, ChangedTyped DEF Body
  <2>4. Changed(c.epic, row[i].epic) \in Link \cup {Keep}
    BY <1>1, ChangedTyped DEF Body
  <2>. QED
    BY <1>2, <2>1, <2>2, <2>3, <2>4 DEF Write
<1> HIDE DEF w
<1>4. Sent(c) \subseteq Field
  BY DEF Sent, Field
<1>5. row[i].parent \in Link /\ {row[i].epic} \ {NoItem} \subseteq Item
  BY <1>1 DEF Row, Link
<1>6. [Nothing EXCEPT ![i] = w] \in [Item -> Write]
  BY <1>3, NothingTyped
<1>7. [stage |-> "commit", op |-> "update", items |-> {i},
       writes |-> [Nothing EXCEPT ![i] = w], sent |-> Sent(c),
       parent |-> row[i].parent, epics |-> {row[i].epic} \ {NoItem}] \in Task
  BY <1>1, <1>4, <1>5, <1>6 DEF Task, Handler
<1>8. TasksTyped'
  BY <1>7, BeginTyped DEF update_work_item, w, TypeOK, dbVars
<1>. QED
  BY <1>8 DEF TasksTyped, TypeOK, update_work_item, dbVars

LEMMA MoveTypeOK ==
  ASSUME TypeOK, NEW r \in Req, NEW i \in live, NEW backlog \in BOOLEAN,
         move_ticket_to_sprint(r, i, backlog)
  PROVE  TypeOK'
<1> DEFINE s == IF backlog THEN "backlog"
                ELSE IF row[i].status = "backlog" THEN "todo" ELSE row[i].status
           w == [NoWrite EXCEPT !.status = Changed(s, row[i].status)]
           t == [Idle EXCEPT !.stage = "commit", !.op = "move", !.items = {i},
                             !.writes = [Nothing EXCEPT ![i] = w]]
<1>1. i \in Item /\ row[i] \in Row
  BY DEF TypeOK
<1>2. s \in Status
  BY <1>1, TreeAssumption DEF move_ticket_to_sprint, Status, Row
<1>3. w \in Write
  BY <1>2, NothingTyped DEF Write, Changed
<1>4. t \in Task
  BY <1>1, <1>3, IdleTyped, NothingTyped DEF Task, Handler
<1>5. Begin(r, t)
  BY <1>1 DEF move_ticket_to_sprint, Idle, Nothing
<1>8. t.items \subseteq issued' /\ issued \subseteq issued'
  BY DEF Idle, TypeOK, move_ticket_to_sprint, dbVars
<1>9. TasksTyped'
  <2> HIDE DEF t
  <2>. QED
    BY <1>4, <1>5, <1>8, BeginTyped
<1>. QED
  BY <1>9 DEF TasksTyped, TypeOK, move_ticket_to_sprint, dbVars

LEMMA CreateTypeOK ==
  ASSUME TypeOK, NEW r \in Req, NEW i \in Item, NEW k \in Kind, NEW s \in Status,
         NEW p \in Link, NEW e \in Link, create_work_item(r, i, k, s, p, e)
  PROVE  TypeOK'
<1> DEFINE w == [type |-> k, status |-> s, parent |-> p, epic |-> e,
                 completed |-> s = "done"]
           t == [Idle EXCEPT !.stage = "commit", !.op = "create", !.items = {i},
                             !.writes = [Nothing EXCEPT ![i] = w]]
<1>1. w \in Write
  BY DEF Write
<1>2. t \in Task
  BY <1>1, IdleTyped, NothingTyped DEF Task, Handler
<1>3. Begin(r, t)
  BY DEF create_work_item, Idle, Nothing
<1>8. t.items \subseteq issued' /\ issued \subseteq issued'
  BY DEF Idle, TypeOK, create_work_item
<1>9. TasksTyped'
  <2> HIDE DEF t
  <2>. QED
    BY <1>2, <1>3, <1>8, BeginTyped
<1>. QED
  BY <1>9 DEF TasksTyped, TypeOK, create_work_item

LEMMA BatchTypeOK ==
  ASSUME TypeOK, NEW r \in Req, NEW ids \in SUBSET live, NEW s \in Status,
         batch_update_status(r, ids, s)
  PROVE  TypeOK'
<1> DEFINE w(i) == [NoWrite EXCEPT
                      !.status = Changed(s, row[i].status),
                      !.completed = IF s = "done" THEN Changed(TRUE, row[i].completed)
                                                  ELSE Keep]
           ws == [i \in Item |-> IF i \in ids THEN w(i) ELSE NoWrite]
           es == {row[i].epic : i \in ids} \ {NoItem}
           t == [Idle EXCEPT !.stage = "commit", !.op = "batch", !.items = ids,
                             !.writes = ws, !.epics = es]
<1>1. ASSUME NEW i \in Item PROVE w(i) \in Write
  BY NothingTyped DEF Write, Changed
<1>2. ws \in [Item -> Write]
  <2> HIDE DEF w
  <2>. QED
    BY <1>1, NothingTyped
<1>3. ids \subseteq Item /\ es \subseteq Item
  BY DEF TypeOK, Row, Link
<1>4. t \in Task
  <2> HIDE DEF ws, es
  <2>. QED
    BY <1>2, <1>3, IdleTyped DEF Task, Handler
<1>5. Begin(r, t)
  BY DEF batch_update_status
<1>8. t.items \subseteq issued' /\ issued \subseteq issued'
  BY DEF Idle, TypeOK, batch_update_status, dbVars
<1>9. TasksTyped'
  <2> HIDE DEF t
  <2>. QED
    BY <1>4, <1>5, <1>8, BeginTyped
<1>. QED
  BY <1>9 DEF TasksTyped, TypeOK, batch_update_status, dbVars

LEMMA DeleteTypeOK ==
  ASSUME TypeOK, NEW r \in Req, NEW i \in live, delete_work_item(r, i)
  PROVE  TypeOK'
<1> DEFINE above == row[i].type = "subtask" /\ row[i].parent # NoItem
           p == IF above THEN row[i].parent ELSE NoItem
           es == IF above THEN {} ELSE {row[i].epic} \ {NoItem}
           t == [Idle EXCEPT !.stage = "commit", !.op = "delete", !.items = {i},
                             !.parent = p, !.epics = es]
<1>1. i \in Item /\ p \in Link /\ es \subseteq Item
  BY DEF TypeOK, Row, Link
<1>2. t \in Task
  <2> HIDE DEF p, es
  <2>. QED
    BY <1>1, IdleTyped DEF Task, Handler
<1>3. Begin(r, t)
  BY DEF delete_work_item
<1>8. t.items \subseteq issued' /\ issued \subseteq issued'
  BY DEF Idle, TypeOK, delete_work_item, dbVars
<1>9. TasksTyped'
  <2> HIDE DEF t
  <2>. QED
    BY <1>2, <1>3, <1>8, BeginTyped
<1>. QED
  BY <1>9 DEF TasksTyped, TypeOK, delete_work_item, dbVars

(* What a commit leaves in the table is typed. *)
LEMMA AppliedTyped ==
  ASSUME TypeOK, NEW r \in Req PROVE Applied(task[r]) \in [Item -> Row]
<1>1. \A i \in Item : task[r].writes[i] \in Write /\ row[i] \in Row
  BY DEF TypeOK, Task
<1>2. \A i \in Item : Stored(task[r].writes[i], row[i]) \in Row
  BY <1>1, StoredTyped
<1>. QED
  BY <1>1, <1>2 DEF Applied

LEMMA CommitTypeOK ==
  ASSUME TypeOK, NEW r \in Req,
         CommitUpdate(r) \/ CommitCreate(r) \/ CommitDelete(r)
  PROVE  TypeOK'
<1>1. CASE CommitUpdate(r)
  <2>1. row' \in [Item -> Row]
    BY <1>1, AppliedTyped DEF CommitUpdate, TypeOK
  <2>2. Proceed(r, "idle") \/ Proceed(r, "rollup")
    BY <1>1 DEF CommitUpdate
  <2>3. TasksTyped'
    BY <1>1, <2>2, ProceedTyped DEF CommitUpdate
  <2>. QED
    BY <1>1, <2>1, <2>3 DEF CommitUpdate, TypeOK, TasksTyped
<1>2. CASE CommitCreate(r)
  <2>1. row' \in [Item -> Row]
    BY <1>2, AppliedTyped DEF CommitCreate, TypeOK
  <2>2. Proceed(r, "idle") \/ Proceed(r, "rollup")
    BY <1>2 DEF CommitCreate
  <2>3. TasksTyped'
    BY <1>2, <2>2, ProceedTyped DEF CommitCreate
  <2>. QED
    BY <1>2, <2>1, <2>3 DEF CommitCreate, TypeOK, TasksTyped
<1>3. CASE CommitDelete(r)
  <2>1. \A i \in Item : [row[i] EXCEPT !.parent = Unlink(@, task[r].items),
                                       !.epic = Unlink(@, task[r].items)] \in Row
    BY DEF TypeOK, Row, Unlink, Link
  <2>2. row' \in [Item -> Row]
    BY <1>3, <2>1, BlankTyped DEF CommitDelete
  <2>3. TasksTyped'
    BY <1>3, ProceedTyped DEF CommitDelete
  <2>. QED
    BY <1>3, <2>2, <2>3 DEF CommitDelete, TypeOK, TasksTyped
<1>. QED
  BY <1>1, <1>2, <1>3

(* A second transaction reopens some rows that are done, and no more.      *)
Reopened(i) == [row[i] EXCEPT !.status = "todo", !.completed = FALSE]
OnlyReopens ==
  /\ row' = [i \in Item |-> row'[i]]
  /\ \A i \in Item : row'[i] = row[i] \/ (i \in live /\ Done(i) /\ row'[i] = Reopened(i))

LEMMA RefreshReopens ==
  ASSUME NEW ps, NEW es, Refresh(ps, es) PROVE OnlyReopens
<1> DEFINE parents == StaleParents(ps)
           epics == StaleEpics(es \cup {row[p].epic : p \in ps \cap live}, parents)
<1>1. row' = [i \in Item |-> IF i \in parents \cup epics THEN Reopened(i) ELSE row[i]]
  BY DEF Refresh, Reopened
<1>2. \A i \in parents \cup epics : i \in live /\ Done(i)
  BY DEF StaleParents, StaleEpics
<1> HIDE DEF parents, epics
<1>. QED
  BY <1>1, <1>2 DEF OnlyReopens

LEMMA RollupReopens ==
  ASSUME TypeOK, NEW r \in Req,
         RollupUpdate(r) \/ RollupCreate(r) \/ RollupBatch(r) \/ RollupDelete(r)
  PROVE  OnlyReopens /\ Proceed(r, "idle") /\ UNCHANGED <<live, issued>>
<1>1. row' = row => OnlyReopens
  BY DEF OnlyReopens, TypeOK
<1>2. CASE RollupUpdate(r)
  BY <1>1, <1>2, RefreshReopens DEF RollupUpdate
<1>3. CASE RollupCreate(r)
  BY <1>3, RefreshReopens DEF RollupCreate
<1>4. CASE RollupBatch(r)
  BY <1>4, RefreshReopens DEF RollupBatch
<1>5. CASE RollupDelete(r)
  BY <1>5, RefreshReopens DEF RollupDelete
<1>. QED
  BY <1>2, <1>3, <1>4, <1>5

LEMMA RollupTypeOK ==
  ASSUME TypeOK, NEW r \in Req, OnlyReopens, Proceed(r, "idle"),
         UNCHANGED <<live, issued>>
  PROVE  TypeOK'
<1>1. \A i \in Item : row[i] \in Row /\ Reopened(i) \in Row
  BY TreeAssumption DEF TypeOK, Row, Reopened, Status
<1>2. row' \in [Item -> Row]
  BY <1>1 DEF OnlyReopens
<1>. QED
  BY <1>2, ProceedTyped DEF TypeOK, TasksTyped

LEMMA CrashTypeOK ==
  ASSUME TypeOK, NEW r \in Req, Crash(r) PROVE TypeOK'
<1>1. TasksTyped'
  BY ProceedTyped DEF Crash, dbVars
<1>. QED
  BY <1>1 DEF TasksTyped, TypeOK, Crash, dbVars

LEMMA NextTypeOK == TypeOK /\ [Next]_vars => TypeOK'
<1> SUFFICES ASSUME TypeOK, [Next]_vars PROVE TypeOK'
  OBVIOUS
<1>1. ASSUME NEW r \in Req, Receive(r) PROVE TypeOK'
  <2>1. CASE Refuse(r)
    BY <2>1 DEF Refuse, TypeOK, vars
  <2>. QED
    BY <1>1, <2>1, UpdateTypeOK, MoveTypeOK, CreateTypeOK, BatchTypeOK, DeleteTypeOK
       DEF Receive
<1>2. ASSUME NEW r \in Req, Continue(r) PROVE TypeOK'
  BY <1>2, CommitTypeOK, RollupReopens, RollupTypeOK DEF Continue
<1>3. ASSUME NEW r \in Req, Crash(r) PROVE TypeOK'
  BY <1>3, CrashTypeOK
<1>4. CASE UNCHANGED vars
  BY <1>4 DEF TypeOK, vars
<1>. QED
  BY <1>1, <1>2, <1>3, <1>4 DEF Next

(* Every state has the types of TypeOK, whatever requests overlap and      *)
(* whichever die.                                                          *)
THEOREM TypeCorrect == Spec => []TypeOK
<1>1. Init => TypeOK
  <2>1. Idle.items = {}
    BY DEF Idle
  <2>. QED
    BY <2>1, BlankTyped, IdleTyped DEF Init, TypeOK
<1>. QED
  BY <1>1, NextTypeOK, PTL DEF Spec

(* Links never dangle, whatever requests race a deletion.                  *)
Referential == UnlinkedOutside /\ NoDangling

LEMMA InitReferential == Init => Referential
BY DEF Init, Referential, UnlinkedOutside, NoDangling, Blank

LEMMA StoredRefers ==
  ASSUME NEW w, NEW o, Refers(w), {o.parent, o.epic} \subseteq live \cup {NoItem}
  PROVE  {Stored(w, o).parent, Stored(w, o).epic} \subseteq live \cup {NoItem}
BY DEF Refers, Stored, Over

LEMMA CommitReferential ==
  ASSUME TypeOK, Referential, NEW r \in Req,
         CommitUpdate(r) \/ CommitCreate(r) \/ CommitDelete(r)
  PROVE  Referential'
<1> USE DEF Referential
<1> DEFINE t == task[r]
<1>1. \A i \in Item : {row[i].parent, row[i].epic} \subseteq live \cup {NoItem}
  BY DEF NoDangling, UnlinkedOutside, Blank
<1>2. t.items \subseteq Item /\ live \subseteq Item
  BY DEF TypeOK
<1>3. ASSUME \A i \in t.items : Refers(t.writes[i]), row' = Applied(t),
             live' = live \cup t.items
      PROVE  Referential'
  <2>1. \A i \in t.items : {Stored(t.writes[i], row[i]).parent,
                            Stored(t.writes[i], row[i]).epic} \subseteq live \cup {NoItem}
    BY <1>1, <1>2, <1>3, StoredRefers
  <2>2. \A i \in Item : {row'[i].parent, row'[i].epic} \subseteq live \cup {NoItem}
    BY <1>1, <1>3, <2>1 DEF Applied
  <2>3. NoDangling'
    BY <1>2, <1>3, <2>2 DEF NoDangling
  <2>4. UnlinkedOutside'
    BY <1>3 DEF UnlinkedOutside, Applied
  <2>. QED
    BY <2>3, <2>4
<1>4. CASE CommitUpdate(r)
  <2>1. CASE t.items \subseteq live /\ \A i \in t.items : Refers(t.writes[i])
    BY <1>3, <1>4, <2>1 DEF CommitUpdate
  <2>2. CASE ~(t.items \subseteq live /\ \A i \in t.items : Refers(t.writes[i]))
    BY <1>4, <2>2 DEF CommitUpdate, UnlinkedOutside, NoDangling
  <2>. QED
    BY <2>1, <2>2
<1>5. CASE CommitCreate(r)
  <2>1. CASE \A i \in t.items : Refers(t.writes[i])
    BY <1>3, <1>5, <2>1 DEF CommitCreate
  <2>2. CASE ~\A i \in t.items : Refers(t.writes[i])
    BY <1>5, <2>2 DEF CommitCreate, UnlinkedOutside, NoDangling
  <2>. QED
    BY <2>1, <2>2
<1>6. CASE CommitDelete(r)
  <2>1. live' = live \ t.items
    BY <1>6 DEF CommitDelete
  <2>2. \A i \in Item :
          row[i] \in Row /\ (i \notin live => row[i].parent = NoItem /\ row[i].epic = NoItem)
    BY DEF TypeOK, UnlinkedOutside
  <2>3. NoItem \notin t.items
    BY <1>2, TreeAssumption
  <2>4. \A i \in t.items : row'[i] = Blank
    BY <1>2, <1>6 DEF CommitDelete
  <2>5. \A i \in Item \ t.items :
          row'[i] = [row[i] EXCEPT !.parent = Unlink(row[i].parent, t.items),
                                   !.epic = Unlink(row[i].epic, t.items)]
    BY <1>6 DEF CommitDelete
  <2>6. \A i \in Item \ t.items :
          /\ row'[i].parent = Unlink(row[i].parent, t.items)
          /\ row'[i].epic = Unlink(row[i].epic, t.items)
    BY <2>2, <2>5 DEF Row
  <2>7. \A i \in Item \ t.items :
          {row'[i].parent, row'[i].epic} \subseteq live' \cup {NoItem}
    BY <1>1, <2>1, <2>6 DEF Unlink
  <2>8. \A i \in Item \ live' : row'[i].parent = NoItem /\ row'[i].epic = NoItem
    BY <2>1, <2>2, <2>3, <2>4, <2>6 DEF Unlink, Blank
  <2>. QED
    BY <1>2, <2>1, <2>4, <2>7, <2>8 DEF NoDangling, UnlinkedOutside
<1>. QED
  BY <1>4, <1>5, <1>6

LEMMA RollupReferential ==
  ASSUME TypeOK, Referential, OnlyReopens, UNCHANGED live PROVE Referential'
<1>1. \A i \in Item : /\ Reopened(i).parent = row[i].parent
                      /\ Reopened(i).epic = row[i].epic
  BY DEF Reopened, TypeOK, Row
<1>2. \A i \in Item : row'[i] = row[i] \/
                        (/\ i \in live
                         /\ row'[i].parent = row[i].parent /\ row'[i].epic = row[i].epic)
  BY <1>1 DEF OnlyReopens
<1>3. live \subseteq Item
  BY DEF TypeOK
<1>. QED
  BY <1>2, <1>3 DEF Referential, NoDangling, UnlinkedOutside

LEMMA NextReferential == TypeOK /\ Referential /\ [Next]_vars => Referential'
<1> SUFFICES ASSUME TypeOK, Referential, [Next]_vars PROVE Referential'
  OBVIOUS
<1>1. UNCHANGED <<live, row>> => Referential'
  BY DEF Referential, NoDangling, UnlinkedOutside
<1>2. ASSUME NEW r \in Req, Receive(r) PROVE UNCHANGED <<live, row>>
  BY <1>2 DEF Receive, update_work_item, move_ticket_to_sprint, create_work_item,
              batch_update_status, delete_work_item, Refuse, dbVars, vars
<1>3. ASSUME NEW r \in Req, Continue(r) PROVE Referential'
  BY <1>3, CommitReferential, RollupReopens, RollupReferential DEF Continue
<1>4. ASSUME NEW r \in Req, Crash(r) PROVE UNCHANGED <<live, row>>
  BY <1>4 DEF Crash, dbVars
<1>5. CASE UNCHANGED vars
  BY <1>1, <1>5 DEF vars
<1>. QED
  BY <1>1, <1>2, <1>3, <1>4, <1>5 DEF Next

(* A parent_id or epic_id refers to a row of the table or is NULL: the     *)
(* foreign keys and the ORM's clearing of links keep it so.                *)
THEOREM LinksNeverDangle == Spec => []NoDangling
<1>1. Referential => NoDangling
  BY DEF Referential
<1>. QED
  BY <1>1, InitReferential, NextReferential, TypeCorrect, PTL DEF Spec
-----------------------------------------------------------------------------
(* One request at a time: what its gate found holds until it commits.      *)

LEMMA OverChanged ==
  ASSUME NEW new, NEW old PROVE Over(Changed(new, old), old) = Over(new, old)
BY DEF Over, Changed

LEMMA KeepUnchanged == ASSUME NEW old PROVE Changed(Keep, old) = Keep
BY DEF Changed

(* A write that keeps the links keeps them within the rules.               *)
LEMMA KeptLinksFit ==
  ASSUME IInv, NEW i \in live, NEW w, KeepsLinks(w)
  PROVE  /\ FitsType(Stored(w, row[i]))
         /\ FitsDepth(i, Stored(w, row[i]))
<1> DEFINE n == Stored(w, row[i])
<1>1. n.type = row[i].type /\ n.parent = row[i].parent /\ n.epic = row[i].epic
  BY DEF Stored, Over, KeepsLinks
<1>2. i \in Item /\ live \subseteq Item
  BY DEF IInv, TypeOK
<1>3. FitsType(n)
  BY <1>1 DEF IInv, LinksFitType, FitsType
<1>4. ASSUME n.parent # NoItem
      PROVE  n.parent \in live \ {i} /\ row[n.parent].parent = NoItem /\ Children(i) = {}
  <2>1. n.parent \in live /\ row[n.parent].parent = NoItem
    BY <1>1, <1>4 DEF IInv, DepthCap, NoDangling
  <2>2. n.parent # i
    BY <1>1, <1>4, <2>1
  <2>3. ASSUME NEW c \in Children(i) PROVE FALSE
    <3>1. c \in live /\ row[c].parent = i /\ i # NoItem
      BY <1>2, <2>3, TreeAssumption DEF Children
    <3>2. row[i].parent = NoItem
      BY <3>1 DEF IInv, DepthCap
    <3>. QED
      BY <1>1, <1>4, <3>2
  <2>. QED
    BY <2>1, <2>2, <2>3
<1>. QED
  BY <1>3, <1>4 DEF FitsDepth

(* Links that validate_hierarchy accepts are within the rules.             *)
LEMMA ValidLinksFit ==
  ASSUME NEW i, NEW n, i # NoItem \/ Children(i) = {},
         validate_hierarchy(i, n.type, n.parent, n.epic)
  PROVE  FitsType(n)
<1>1. ParentTypes(n.type) # {} => n.type \in {"subtask", "test_case"}
  BY DEF ParentTypes
<1>. QED
  BY <1>1 DEF validate_hierarchy, ValidEpic, ValidParent, FitsType

LEMMA ValidDepthFits ==
  ASSUME NEW i \in Item, NEW n, validate_hierarchy(i, n.type, n.parent, n.epic)
  PROVE  FitsDepth(i, n)
BY TreeAssumption DEF validate_hierarchy, ValidParent, FitsDepth

(* The columns an update writes keep completed_at in step with the status. *)
LEMMA UpdateFitsStatus ==
  ASSUME TypeOK, NEW i \in Item, row[i].completed = Done(i), NEW s \in Status \cup {Keep},
         NEW n, n.status = Over(Changed(s, row[i].status), row[i].status),
         n.completed = Over(Completion(i, s), row[i].completed)
  PROVE  FitsStatus(n)
<1>1. row[i].completed \in BOOLEAN /\ row[i].status \in Status
  BY DEF TypeOK, Row
<1>2. n.status = Over(s, row[i].status)
  BY OverChanged
<1>3. Keep # TRUE /\ Keep # FALSE /\ Keep # "done"
  BY TreeAssumption DEF Status
<1>4. CASE s = Keep
  BY <1>1, <1>2, <1>3, <1>4 DEF Completion, Over, FitsStatus, Done
<1>5. CASE s = "done"
  <2>1. n.completed = Over(TRUE, row[i].completed)
    BY <1>5, OverChanged DEF Completion
  <2>2. n.completed = TRUE
    BY <1>3, <2>1 DEF Over
  <2>3. n.status = "done"
    BY <1>2, <1>3, <1>5 DEF Over
  <2>. QED
    BY <2>2, <2>3 DEF FitsStatus
<1>6. CASE s # Keep /\ s # "done"
  <2>1. n.status # "done"
    BY <1>2, <1>6 DEF Over
  <2>2. CASE Done(i)
    <3>1. n.completed = Over(FALSE, row[i].completed)
      BY <1>6, <2>2, OverChanged DEF Completion
    <3>2. n.completed = FALSE
      BY <1>3, <3>1 DEF Over
    <3>. QED
      BY <2>1, <3>2 DEF FitsStatus
  <2>3. CASE ~Done(i)
    <3>1. n.completed = row[i].completed
      BY <1>6, <2>3 DEF Completion, Over
    <3>. QED
      BY <1>1, <2>1, <2>3, <3>1 DEF FitsStatus
  <2>. QED
    BY <2>2, <2>3
<1>. QED
  BY <1>4, <1>5, <1>6

(* What a request must be for its commit to respect the rules.             *)
FitsLinks(t) ==
  t.op \in {"update", "create"} =>
    \E i \in Item :
      /\ t.items = {i}
      /\ FitsType(Stored(t.writes[i], row[i]))
      /\ FitsDepth(i, Stored(t.writes[i], row[i]))
FitsFrozen(t) ==
  /\ t.op = "update" => \A i \in t.items : Done(i) => KeepsLinks(t.writes[i])
  /\ t.op = "create" => t.items \cap live = {}
  /\ t.op \in {"move", "batch"} => \A i \in t.items : KeepsLinks(t.writes[i])
FitsCompletion(t) ==
  t.op # "delete" /\ ~Batch =>
    \A i \in t.items : FitsStatus(Stored(t.writes[i], row[i]))
FitsGate(t) == t.op \in {"update", "move", "batch"} => ClosesLast(t)
Fits(t) == FitsLinks(t) /\ FitsFrozen(t) /\ FitsCompletion(t) /\ FitsGate(t)

LEMMA PendingFits ==
  ASSUME NEW r \in Req PROVE Pending(r) = (task[r].stage = "commit" => Fits(task[r]))
BY DEF Pending, Fits, FitsLinks, FitsFrozen, FitsCompletion, FitsGate

LEMMA GatingTyped == ASSUME TypeOK, NEW i, NEW j \in Gating(i) PROVE j \in Item
BY DEF Gating, Stories, Subtasks, TestCases, Children, TypeOK

LEMMA FitsStable ==
  ASSUME NEW t, Fits(t), live' = live, row' = row PROVE Fits(t)'
<1>1. FitsLinks(t)'
  BY DEF Fits, FitsLinks, FitsType, FitsDepth, Stored, Over, Children
<1>2. FitsFrozen(t)' /\ FitsCompletion(t)'
  BY DEF Fits, FitsFrozen, FitsCompletion, FitsStatus, Stored, Over, Done, KeepsLinks
<1>3. FitsGate(t)'
  BY DEF Fits, FitsGate, ClosesLast, Applied, Stored, Over, Gating, Stories,
         Subtasks, TestCases, Children
<1>. QED
  BY <1>1, <1>2, <1>3 DEF Fits

LEMMA BeginPending ==
  ASSUME TypeOK, NEW r \in Req, NEW t, Begin(r, t), Fits(t), live' = live, row' = row
  PROVE  Pending(r)'
<1>1. task'[r] = t
  BY DEF TypeOK, Begin
<1>2. Fits(t)'
  BY FitsStable
<1>. QED
  BY <1>1, <1>2 DEF Pending, Fits, FitsLinks, FitsFrozen, FitsCompletion, FitsGate

LEMMA UpdatePending ==
  ASSUME IInv, NEW r \in Req, NEW i \in live, NEW c \in Change,
         update_work_item(r, i, c)
  PROVE  Pending(r)'
<1> DEFINE w == [type |-> Changed(c.type, row[i].type),
                 status |-> Changed(c.status, row[i].status),
                 parent |-> Changed(c.parent, row[i].parent),
                 epic |-> Changed(c.epic, row[i].epic),
                 completed |-> Completion(i, c.status)]
           t == [stage |-> "commit", op |-> "update", items |-> {i},
                 writes |-> [Nothing EXCEPT ![i] = w], sent |-> Sent(c),
                 parent |-> row[i].parent, epics |-> {row[i].epic} \ {NoItem}]
           n == Stored(w, row[i])
<1>1. i \in Item /\ row[i] \in Row /\ c \in Body
  BY TreeAssumption DEF TypeOK, IInv
<1>2. t.op = "update" /\ t.items = {i} /\ t.writes[i] = w
  BY <1>1 DEF Nothing
<1>3. /\ n.type = Over(c.type, row[i].type)
      /\ n.parent = Over(c.parent, row[i].parent)
      /\ n.epic = Over(c.epic, row[i].epic)
  BY OverChanged DEF Stored
<1>4. Sent(c) \cap {"type", "parent", "epic"} = {} => KeepsLinks(w)
  BY KeepUnchanged DEF Sent, KeepsLinks
<1>5. Done(i) => KeepsLinks(w)
  BY <1>4 DEF update_work_item
<1>6. FitsType(n) /\ FitsDepth(i, n)
  <2>1. CASE Sent(c) \cap {"type", "parent", "epic"} = {}
    BY <1>4, <2>1, KeptLinksFit
  <2>2. CASE Sent(c) \cap {"type", "parent", "epic"} # {}
    <3>1. validate_hierarchy(i, n.type, n.parent, n.epic)
      BY <1>3, <2>2 DEF update_work_item
    <3>2. i # NoItem
      BY <1>1, TreeAssumption
    <3> HIDE DEF n
    <3>. QED
      BY <1>1, <3>1, <3>2, ValidLinksFit, ValidDepthFits
  <2>. QED
    BY <2>1, <2>2
<1>7. ~Batch => FitsStatus(n)
  <2>1. /\ n.status = Over(Changed(c.status, row[i].status), row[i].status)
        /\ n.completed = Over(Completion(i, c.status), row[i].completed)
    BY DEF Stored
  <2>2. c.status \in Status \cup {Keep}
    BY <1>1 DEF Body
  <2>3. ~Batch => row[i].completed = Done(i)
    BY DEF IInv, CompletedMatchesStatus
  <2>4. TypeOK
    BY DEF IInv
  <2> HIDE DEF n
  <2>. QED
    BY <1>1, <2>1, <2>2, <2>3, <2>4, UpdateFitsStatus
<1>8. Begin(r, t) /\ live' = live /\ row' = row /\ TypeOK
  BY DEF update_work_item, dbVars, IInv
<1>10. ClosesLast(t)
  <2>1. SUFFICES ASSUME w.status = "done", NEW j \in Gating(i)
                 PROVE  Applied(t)[j].status = "done"
    BY <1>2 DEF ClosesLast
  <2>2. c.status = "done"
    BY <2>1, TreeAssumption DEF Changed, Status
  <2>3. Done(j) /\ j \in Item
    BY <1>8, <2>1, <2>2, GatingTyped DEF update_work_item, MayClose
  <2>4. Applied(t)[j] = IF j = i THEN n ELSE row[j]
    BY <1>2, <2>3 DEF Applied
  <2>5. n.status = "done"
    BY <2>1, TreeAssumption DEF Stored, Over, Status
  <2>. QED
    BY <2>3, <2>4, <2>5 DEF Done
<1>9. Fits(t)
  <2> HIDE DEF t, w
  <2>. QED
    BY <1>1, <1>2, <1>5, <1>6, <1>7, <1>10 DEF Fits, FitsGate, FitsLinks, FitsFrozen, FitsCompletion
<1> HIDE DEF t
<1>. QED
  BY <1>8, <1>9, BeginPending

LEMMA MovePending ==
  ASSUME IInv, NEW r \in Req, NEW i \in live, NEW backlog \in BOOLEAN,
         move_ticket_to_sprint(r, i, backlog)
  PROVE  Pending(r)'
<1> DEFINE s == IF backlog THEN "backlog"
                ELSE IF row[i].status = "backlog" THEN "todo" ELSE row[i].status
           w == [NoWrite EXCEPT !.status = Changed(s, row[i].status)]
           t == [Idle EXCEPT !.stage = "commit", !.op = "move", !.items = {i},
                             !.writes = [Nothing EXCEPT ![i] = w]]
<1>1. i \in Item /\ row[i] \in Row /\ TypeOK
  BY DEF TypeOK, IInv
<1>2. t.op = "move" /\ t.items = {i} /\ t.writes[i] = w
  BY <1>1 DEF Nothing, Idle
<1>3. KeepsLinks(w)
  BY DEF KeepsLinks, NoWrite
<1>4. ~Batch => FitsStatus(Stored(w, row[i]))
  <2>1. s # "done"
    BY TreeAssumption DEF move_ticket_to_sprint, Done
  <2>2. Stored(w, row[i]).status = Over(Changed(s, row[i].status), row[i].status)
    BY DEF Stored, NoWrite
  <2>3. Stored(w, row[i]).status # "done"
    BY <2>1, <2>2 DEF Over, Changed, move_ticket_to_sprint, Done
  <2>4. Stored(w, row[i]).completed = row[i].completed
    BY DEF Stored, NoWrite, Over
  <2>5. ~Batch => row[i].completed = FALSE
    BY <1>1 DEF IInv, CompletedMatchesStatus, move_ticket_to_sprint, Done
  <2>. QED
    BY <2>3, <2>4, <2>5 DEF FitsStatus
<1>5. Begin(r, t) /\ live' = live /\ row' = row
  BY <1>1 DEF move_ticket_to_sprint, dbVars, Idle, Nothing
<1>7. ClosesLast(t)
  <2>1. s # "done" /\ w.status # "done"
    BY TreeAssumption DEF move_ticket_to_sprint, Done, Changed, NoWrite, Status
  <2>. QED
    BY <1>2, <2>1 DEF ClosesLast
<1>6. Fits(t)
  <2> HIDE DEF t, w
  <2>. QED
    BY <1>2, <1>3, <1>4, <1>7 DEF Fits, FitsGate, FitsLinks, FitsFrozen, FitsCompletion
<1> HIDE DEF t
<1>. QED
  BY <1>1, <1>5, <1>6, BeginPending

LEMMA CreatePending ==
  ASSUME IInv, NEW r \in Req, NEW i \in Item, NEW k \in Kind, NEW s \in Status,
         NEW p \in Link, NEW e \in Link, create_work_item(r, i, k, s, p, e)
  PROVE  Pending(r)'
<1> DEFINE w == [type |-> k, status |-> s, parent |-> p, epic |-> e,
                 completed |-> s = "done"]
           t == [Idle EXCEPT !.stage = "commit", !.op = "create", !.items = {i},
                             !.writes = [Nothing EXCEPT ![i] = w]]
           n == Stored(w, row[i])
<1>1. TypeOK /\ i \notin live
  BY DEF TypeOK, IInv, create_work_item
<1>2. t.op = "create" /\ t.items = {i} /\ t.writes[i] = w
  BY DEF Nothing, Idle
<1>3. n = w
  BY TreeAssumption DEF Stored, Over
<1>4. Children(i) = {}
  BY <1>1, TreeAssumption DEF Children, IInv, NoDangling
<1>5. FitsType(n) /\ FitsDepth(i, n)
  <2>1. validate_hierarchy(NoItem, k, p, e)
    BY DEF create_work_item
  <2>2. FitsType(n)
    <3>1. ParentTypes(k) # {} => k \in {"subtask", "test_case"}
      BY DEF ParentTypes
    <3>. QED
      BY <1>3, <2>1, <3>1 DEF validate_hierarchy, ValidEpic, ValidParent, FitsType
  <2>3. FitsDepth(i, n)
    BY <1>1, <1>3, <1>4, <2>1 DEF validate_hierarchy, ValidParent, FitsDepth
  <2>. QED
    BY <2>2, <2>3
<1>6. FitsStatus(n)
  BY <1>3 DEF FitsStatus
<1>7. Begin(r, t) /\ live' = live /\ row' = row
  BY DEF create_work_item, Idle, Nothing
<1>8. Fits(t)
  <2> HIDE DEF t, w
  <2>. QED
    BY <1>1, <1>2, <1>5, <1>6 DEF Fits, FitsLinks, FitsFrozen, FitsCompletion, FitsGate
<1> HIDE DEF t
<1>. QED
  BY <1>1, <1>7, <1>8, BeginPending

LEMMA BatchPending ==
  ASSUME IInv, NEW r \in Req, NEW ids \in SUBSET live, NEW s \in Status,
         batch_update_status(r, ids, s)
  PROVE  Pending(r)'
<1> DEFINE w(i) == [NoWrite EXCEPT
                      !.status = Changed(s, row[i].status),
                      !.completed = IF s = "done" THEN Changed(TRUE, row[i].completed)
                                                  ELSE Keep]
           ws == [i \in Item |-> IF i \in ids THEN w(i) ELSE NoWrite]
           t == [Idle EXCEPT !.stage = "commit", !.op = "batch", !.items = ids,
                             !.writes = ws,
                             !.epics = {row[i].epic : i \in ids} \ {NoItem}]
<1>1. TypeOK /\ ids \subseteq Item
  BY DEF TypeOK, IInv
<1>2. t.op = "batch" /\ t.items = ids /\ t.writes = ws
  BY DEF Idle
<1>3. ASSUME NEW i \in ids PROVE KeepsLinks(ws[i])
  BY <1>1, <1>3 DEF KeepsLinks, NoWrite
<1>4. Begin(r, t) /\ live' = live /\ row' = row /\ Batch
  BY DEF batch_update_status, dbVars
<1>6. ClosesLast(t)
  <2>0. \A i \in ids : t.writes[i].status = w(i).status
    BY <1>1, <1>2
  <2>1. SUFFICES ASSUME NEW i \in ids, w(i).status = "done", NEW j \in Gating(i)
                 PROVE  Applied(t)[j].status = "done"
    <3> HIDE DEF t, w
    <3>. QED
      BY <1>2, <2>0 DEF ClosesLast
  <2>2. s = "done"
    BY <2>1, TreeAssumption DEF Changed, NoWrite, Status
  <2>3. j \in Item /\ (j \notin ids => Done(j))
    BY <1>1, <2>1, <2>2, GatingTyped DEF batch_update_status, MayClose
  <2>4. CASE j \in ids
    <3>1. Applied(t)[j] = Stored(w(j), row[j])
      BY <1>2, <2>3, <2>4 DEF Applied
    <3>2. Stored(w(j), row[j]).status = Over(Changed(s, row[j].status), row[j].status)
      BY DEF Stored, NoWrite
    <3>3. Over(Changed(s, row[j].status), row[j].status) = "done"
      BY <2>2, TreeAssumption DEF Over, Changed, Status
    <3>. QED
      BY <3>1, <3>2, <3>3
  <2>5. CASE j \notin ids
    BY <1>2, <2>3, <2>5 DEF Applied, Done
  <2>. QED
    BY <2>4, <2>5
<1>5. Fits(t)
  <2> HIDE DEF t, ws
  <2>. QED
    BY <1>2, <1>3, <1>4, <1>6 DEF Fits, FitsGate, FitsLinks, FitsFrozen, FitsCompletion
<1> HIDE DEF t
<1>. QED
  BY <1>1, <1>4, <1>5, BeginPending

LEMMA DeletePending ==
  ASSUME IInv, NEW r \in Req, NEW i \in live, delete_work_item(r, i)
  PROVE  Pending(r)'
<1> DEFINE above == row[i].type = "subtask" /\ row[i].parent # NoItem
           t == [Idle EXCEPT !.stage = "commit", !.op = "delete", !.items = {i},
                   !.parent = IF above THEN row[i].parent ELSE NoItem,
                   !.epics = IF above THEN {} ELSE {row[i].epic} \ {NoItem}]
<1>1. t.op = "delete"
  BY DEF Idle
<1>2. Begin(r, t) /\ live' = live /\ row' = row /\ TypeOK
  BY DEF delete_work_item, dbVars, IInv
<1>3. Fits(t)
  <2> HIDE DEF t
  <2>. QED
    BY <1>1 DEF Fits, FitsLinks, FitsFrozen, FitsCompletion, FitsGate
<1> HIDE DEF t
<1>. QED
  BY <1>2, <1>3, BeginPending
-----------------------------------------------------------------------------
(* Commits and refreshes keep the rules. *)
Rules == DepthCap /\ LinksFitType /\ (~Batch => CompletedMatchesStatus)

(* One row changes, or is new, and fits. *)
LEMMA OneRowKeepsRules ==
  ASSUME IInv, NEW i \in Item, NEW n, FitsType(n), FitsDepth(i, n),
         ~Batch => FitsStatus(n),
         live' = live \cup {i}, row' = [j \in Item |-> IF j = i THEN n ELSE row[j]]
  PROVE  Rules'
<1>1. live \subseteq Item /\ row'[i] = n
  BY DEF IInv, TypeOK
<1>2. \A j \in live : j # i => row'[j] = row[j]
  BY <1>1
<1>3. ASSUME NEW j \in live', row'[j].parent # NoItem
      PROVE  row'[row'[j].parent].parent = NoItem
  <2>1. CASE j = i
    <3>1. n.parent \in live /\ n.parent # i /\ row[n.parent].parent = NoItem
      BY <1>1, <1>3, <2>1 DEF FitsDepth
    <3>. QED
      BY <1>1, <1>2, <2>1, <3>1
  <2>2. CASE j # i
    <3> DEFINE p == row[j].parent
    <3>1. j \in live /\ row'[j].parent = p
      BY <1>2, <2>2
    <3>2. p \in live /\ row[p].parent = NoItem
      BY <1>3, <3>1 DEF IInv, DepthCap, NoDangling
    <3>3. CASE p = i
      <4>1. j \in Children(i)
        BY <3>1, <3>3 DEF Children
      <4>2. n.parent = NoItem
        BY <4>1 DEF FitsDepth
      <4>. QED
        BY <1>1, <3>1, <3>3, <4>2
    <3>4. CASE p # i
      BY <1>2, <3>1, <3>2, <3>4
    <3>. QED
      BY <3>3, <3>4
  <2>. QED
    BY <2>1, <2>2
<1>4. DepthCap'
  BY <1>3 DEF DepthCap
<1>5. LinksFitType'
  BY <1>1, <1>2 DEF LinksFitType, FitsType, IInv
<1>6. ~Batch => CompletedMatchesStatus'
  BY <1>1, <1>2 DEF CompletedMatchesStatus, FitsStatus, IInv, Done
<1>. QED
  BY <1>4, <1>5, <1>6 DEF Rules

(* Types and links stay as they are. *)
SameLinks(j) ==
  /\ row'[j].type = row[j].type
  /\ row'[j].parent = row[j].parent
  /\ row'[j].epic = row[j].epic

LEMMA SameLinksKeepRules ==
  ASSUME IInv, live' = live, \A j \in live : SameLinks(j),
         \A j \in live : row'[j] = row[j] \/ (~Batch => FitsStatus(row'[j]))
  PROVE  Rules'
<1>1. DepthCap'
  BY DEF IInv, DepthCap, NoDangling, SameLinks
<1>2. LinksFitType'
  BY DEF IInv, LinksFitType, SameLinks
<1>3. ~Batch => CompletedMatchesStatus'
  BY DEF IInv, CompletedMatchesStatus, FitsStatus, Done
<1>. QED
  BY <1>1, <1>2, <1>3 DEF Rules

LEMMA KeptLinksSame ==
  ASSUME NEW w, NEW o, KeepsLinks(w)
  PROVE  /\ Stored(w, o).type = o.type
         /\ Stored(w, o).parent = o.parent
         /\ Stored(w, o).epic = o.epic
BY DEF Stored, Over, KeepsLinks

LEMMA UpdateCommitRules ==
  ASSUME IInv, NEW r \in Req, CommitUpdate(r) PROVE Rules'
<1> DEFINE t == task[r]
<1>1. Fits(t)
  BY PendingFits DEF IInv, CommitUpdate
<1>2. live \subseteq Item /\ t.items \subseteq Item
  BY DEF IInv, TypeOK
<1>3. CASE row' = row
  BY <1>3 DEF CommitUpdate, IInv, Rules, DepthCap, LinksFitType, CompletedMatchesStatus, Done
<1>4. CASE t.items \subseteq live /\ row' = Applied(t) /\ t.op = "update"
  <2>1. PICK i \in Item : /\ t.items = {i}
                          /\ FitsType(Stored(t.writes[i], row[i]))
                          /\ FitsDepth(i, Stored(t.writes[i], row[i]))
    BY <1>1, <1>4 DEF Fits, FitsLinks
  <2> DEFINE n == Stored(t.writes[i], row[i])
  <2>2. ~Batch => FitsStatus(n)
    BY <1>1, <1>4, <2>1 DEF Fits, FitsCompletion
  <2>3. live' = live \cup {i}
    BY <1>4, <2>1 DEF CommitUpdate
  <2>4. row' = [j \in Item |-> IF j = i THEN n ELSE row[j]]
    BY <1>4, <2>1 DEF Applied
  <2> HIDE DEF n
  <2>. QED
    BY <2>1, <2>2, <2>3, <2>4, OneRowKeepsRules DEF n
<1>5. CASE row' = Applied(t) /\ t.op \in {"move", "batch"}
  <2>1. \A j \in t.items : KeepsLinks(t.writes[j])
    BY <1>1, <1>5 DEF Fits, FitsFrozen
  <2>2. \A j \in t.items : /\ row'[j] = Stored(t.writes[j], row[j])
                           /\ ~Batch => FitsStatus(row'[j])
    BY <1>1, <1>2, <1>5 DEF Applied, Fits, FitsCompletion
  <2>3. \A j \in live \ t.items : row'[j] = row[j]
    BY <1>2, <1>5 DEF Applied
  <2>4. ASSUME NEW j \in live PROVE SameLinks(j)
    <3>1. CASE j \in t.items
      <4>1. KeepsLinks(t.writes[j]) /\ row'[j] = Stored(t.writes[j], row[j])
        BY <2>1, <2>2, <3>1
      <4>. QED
        BY <4>1, KeptLinksSame DEF SameLinks
    <3>2. CASE j \notin t.items
      BY <2>3, <3>2 DEF SameLinks
    <3>. QED
      BY <3>1, <3>2
  <2>5. \A j \in live : row'[j] = row[j] \/ (~Batch => FitsStatus(row'[j]))
    BY <2>2, <2>3
  <2>6. live' = live
    BY DEF CommitUpdate
  <2>. QED
    BY <2>4, <2>5, <2>6, SameLinksKeepRules
<1>. QED
  BY <1>3, <1>4, <1>5 DEF CommitUpdate

LEMMA CreateCommitRules ==
  ASSUME IInv, NEW r \in Req, CommitCreate(r) PROVE Rules'
<1> DEFINE t == task[r]
<1>1. Fits(t)
  BY PendingFits DEF IInv, CommitCreate
<1>2. CASE UNCHANGED <<live, row>>
  BY <1>2 DEF IInv, Rules, DepthCap, LinksFitType, CompletedMatchesStatus, Done
<1>3. CASE live' = live \cup t.items /\ row' = Applied(t)
  <2>1. PICK i \in Item : /\ t.items = {i}
                          /\ FitsType(Stored(t.writes[i], row[i]))
                          /\ FitsDepth(i, Stored(t.writes[i], row[i]))
    BY <1>1 DEF Fits, FitsLinks, CommitCreate
  <2> DEFINE n == Stored(t.writes[i], row[i])
  <2>2. ~Batch => FitsStatus(n)
    BY <1>1, <2>1 DEF Fits, FitsCompletion, CommitCreate
  <2>4. row' = [j \in Item |-> IF j = i THEN n ELSE row[j]]
    BY <1>3, <2>1 DEF Applied
  <2> HIDE DEF n
  <2>. QED
    BY <1>3, <2>1, <2>2, <2>4, OneRowKeepsRules DEF n
<1>. QED
  BY <1>2, <1>3 DEF CommitCreate

(* What is left after a deletion, link by link. *)
LEMMA DeleteCommitRows ==
  ASSUME IInv, NEW r \in Req, CommitDelete(r)
  PROVE  \A j \in live' :
           /\ j \in live
           /\ row'[j].type = row[j].type
           /\ row'[j].status = row[j].status
           /\ row'[j].completed = row[j].completed
           /\ row'[j].parent = Unlink(row[j].parent, task[r].items)
           /\ row'[j].epic = Unlink(row[j].epic, task[r].items)
<1>1. ASSUME NEW j \in live'
      PROVE  /\ j \in live /\ j \in Item /\ row[j] \in Row
             /\ row'[j] = [row[j] EXCEPT !.parent = Unlink(@, task[r].items),
                                         !.epic = Unlink(@, task[r].items)]
  BY DEF CommitDelete, IInv, TypeOK
<1>. QED
  BY <1>1 DEF Row

LEMMA DeleteCommitRules ==
  ASSUME IInv, NEW r \in Req, CommitDelete(r) PROVE Rules'
<1>0. NoItem \notin task[r].items
  BY TreeAssumption DEF IInv, TypeOK
<1>1. ASSUME NEW j \in live', row'[j].parent # NoItem
      PROVE  row'[row'[j].parent].parent = NoItem
  <2> DEFINE p == row[j].parent
  <2>1. j \in live /\ row'[j].parent = p /\ p \notin task[r].items /\ p # NoItem
    BY <1>1, DeleteCommitRows DEF Unlink
  <2>2. p \in live /\ row[p].parent = NoItem
    BY <2>1 DEF IInv, DepthCap, NoDangling
  <2>3. p \in live'
    BY <2>1, <2>2 DEF CommitDelete
  <2>. QED
    BY <1>0, <2>1, <2>2, <2>3, DeleteCommitRows DEF Unlink
<1>2. DepthCap'
  BY <1>1 DEF DepthCap
<1>3. LinksFitType'
  BY DeleteCommitRows DEF LinksFitType, IInv, Unlink
<1>4. ~Batch => CompletedMatchesStatus'
  BY DeleteCommitRows DEF CompletedMatchesStatus, IInv, Done
<1>. QED
  BY <1>2, <1>3, <1>4 DEF Rules

LEMMA RollupRules ==
  ASSUME IInv, OnlyReopens, live' = live PROVE Rules'
<1>1. \A j \in live : j \in Item /\ row[j] \in Row
  BY DEF IInv, TypeOK
<1>2. \A j \in live : /\ Reopened(j).type = row[j].type
                      /\ Reopened(j).parent = row[j].parent
                      /\ Reopened(j).epic = row[j].epic
                      /\ Reopened(j).status = "todo"
                      /\ Reopened(j).completed = FALSE
  BY <1>1 DEF Reopened, Row
<1>3. \A j \in live : SameLinks(j)
  BY <1>1, <1>2 DEF OnlyReopens, SameLinks
<1>4. \A j \in live : row'[j] = row[j] \/ (~Batch => FitsStatus(row'[j]))
  BY <1>1, <1>2 DEF OnlyReopens, FitsStatus
<1>. QED
  BY <1>3, <1>4, SameLinksKeepRules

(* A request past its commit, or at its end, has nothing pending.          *)
LEMMA ProceedPending ==
  ASSUME TypeOK, NEW r \in Req, NEW l \in {"idle", "rollup"}, Proceed(r, l)
  PROVE  Pending(r)'
<1>1. task[r] \in Task
  BY DEF TypeOK
<1>2. task'[r].stage = l
  BY <1>1 DEF Proceed, TypeOK, Task, Idle
<1>. QED
  BY <1>2 DEF Pending

LEMMA CommitProceeds ==
  ASSUME NEW r \in Req, CommitUpdate(r) \/ CommitCreate(r) \/ CommitDelete(r)
  PROVE  Proceed(r, "idle") \/ Proceed(r, "rollup")
BY DEF CommitUpdate, CommitCreate, CommitDelete

(* What the two halves of a step leave, put together. *)
LEMMA Assemble ==
  ASSUME Alone, NEW r \in Req, TypeOK', Referential', Rules', Pending(r)'
  PROVE  IInv'
<1>1. \A s \in Req : Pending(s)'
  BY DEF Alone
<1>. QED
  BY <1>1 DEF IInv, Referential, Rules

LEMMA ReceiveIInv ==
  ASSUME Alone, IInv, NEW r \in Req, Receive(r), TypeOK', Referential' PROVE IInv'
<1>1. UNCHANGED <<live, row>>
  BY DEF Receive, update_work_item, move_ticket_to_sprint, create_work_item,
         batch_update_status, delete_work_item, Refuse, dbVars, vars
<1>2. Rules'
  BY <1>1 DEF IInv, Rules, DepthCap, LinksFitType, CompletedMatchesStatus, Done
<1>3. CASE Refuse(r)
  <2>1. task' = task
    BY <1>3 DEF Refuse, vars
  <2>2. task'[r].stage = "idle"
    BY <1>3, <2>1 DEF Refuse, Idle
  <2>3. Pending(r)'
    BY <2>2 DEF Pending
  <2>. QED
    BY <1>2, <2>3, Assemble
<1>4. CASE ~Refuse(r)
  <2>1. Pending(r)'
    BY <1>4, UpdatePending, MovePending, CreatePending, BatchPending, DeletePending
       DEF Receive
  <2>. QED
    BY <1>2, <2>1, Assemble
<1>. QED
  BY <1>3, <1>4

LEMMA ContinueIInv ==
  ASSUME Alone, IInv, NEW r \in Req, Continue(r), TypeOK', Referential' PROVE IInv'
<1>0. TypeOK
  BY DEF IInv
<1>1. CASE CommitUpdate(r) \/ CommitCreate(r) \/ CommitDelete(r)
  <2>1. Rules'
    BY <1>1, UpdateCommitRules, CreateCommitRules, DeleteCommitRules
  <2>2. Pending(r)'
    BY <1>0, <1>1, CommitProceeds, ProceedPending
  <2>. QED
    BY <2>1, <2>2, Assemble
<1>2. CASE RollupUpdate(r) \/ RollupCreate(r) \/ RollupBatch(r) \/ RollupDelete(r)
  <2>1. OnlyReopens /\ Proceed(r, "idle") /\ live' = live
    BY <1>0, <1>2, RollupReopens
  <2>. QED
    BY <1>0, <2>1, RollupRules, ProceedPending, Assemble
<1>. QED
  BY <1>1, <1>2 DEF Continue

LEMMA CrashIInv ==
  ASSUME Alone, IInv, NEW r \in Req, Crash(r), TypeOK', Referential' PROVE IInv'
<1>1. Rules'
  BY DEF Crash, dbVars, IInv, Rules, DepthCap, LinksFitType, CompletedMatchesStatus, Done
<1>2. Pending(r)'
  BY ProceedPending DEF Crash, IInv
<1>. QED
  BY <1>1, <1>2, Assemble

LEMMA NextIInv == Alone /\ IInv /\ [Next]_vars => IInv'
<1> SUFFICES ASSUME Alone, IInv, [Next]_vars PROVE IInv'
  OBVIOUS
<1>1. TypeOK' /\ Referential'
  BY NextTypeOK, NextReferential DEF IInv, Referential
<1>2. CASE UNCHANGED vars
  <2>1. Rules'
    BY <1>2 DEF vars, IInv, Rules, DepthCap, LinksFitType, CompletedMatchesStatus, Done
  <2>2. ASSUME NEW r \in Req PROVE Pending(r)'
    <3>0. PICK t : t = task[r]
      OBVIOUS
    <3>1. live' = live /\ row' = row /\ task'[r] = t
      BY <1>2, <3>0 DEF vars
    <3>2. t.stage = "commit" => Fits(t)
      BY <3>0, PendingFits DEF IInv
    <3>3. t.stage = "commit" => Fits(t)'
      BY <3>1, <3>2, FitsStable
    <3>. QED
      BY <3>1, <3>3 DEF Pending, Fits, FitsLinks, FitsFrozen, FitsCompletion, FitsGate
  <2>. QED
    BY <1>1, <2>1, <2>2 DEF IInv, Rules, Referential
<1>3. CASE Next
  BY <1>1, <1>3, ReceiveIInv, ContinueIInv, CrashIInv DEF Next
<1>. QED
  BY <1>2, <1>3

(* When requests come one at a time, whichever they are and wherever they  *)
(* die, the tree is never more than the cap deep, links fit the types of   *)
(* their items, and what a gate found is still so at the commit.           *)
THEOREM Invariant == Alone => (Spec => []IInv)
<1> SUFFICES ASSUME Alone PROVE Spec => []IInv
  OBVIOUS
<1>1. Init => IInv
  <2>1. Init => TypeOK
    <3>1. Idle.items = {}
      BY DEF Idle
    <3>. QED
      BY <3>1, BlankTyped, IdleTyped DEF Init, TypeOK
  <2>2. Init => \A r \in Req : Pending(r)
    BY DEF Init, Pending, Idle
  <2>. QED
    BY <2>1, <2>2, InitReferential
       DEF Init, IInv, Referential, DepthCap, LinksFitType, CompletedMatchesStatus
<1>2. IInv /\ [Next]_vars => IInv'
  BY NextIInv
<1>. QED
  BY <1>1, <1>2, PTL DEF Spec

(* No parent has a parent. *)
THEOREM TreeIsFlat == Alone => (Spec => []DepthCap)
<1>1. IInv => DepthCap
  BY DEF IInv
<1>. QED
  BY <1>1, Invariant, PTL

(* completed_at is set exactly while an item is done, where no batch runs. *)
THEOREM CompletionMatches == Alone /\ ~Batch => (Spec => []CompletedMatchesStatus)
<1> SUFFICES ASSUME Alone, ~Batch PROVE Spec => []CompletedMatchesStatus
  OBVIOUS
<1>1. IInv => CompletedMatchesStatus
  BY DEF IInv
<1>. QED
  BY <1>1, Invariant, PTL
-----------------------------------------------------------------------------
(* Done items are frozen. *)
Frozen(i) ==
  /\ row'[i].type = row[i].type
  /\ Survives(row[i].parent, row'[i].parent)
  /\ Survives(row[i].epic, row'[i].epic)

LEMMA SameIsFrozen == ASSUME NEW i, SameLinks(i) PROVE Frozen(i)
BY DEF SameLinks, Frozen, Survives

LEMMA CommitFreezes ==
  ASSUME IInv, NEW r \in Req, CommitUpdate(r) \/ CommitCreate(r) \/ CommitDelete(r),
         NEW i \in live \cap live', Done(i)
  PROVE  Frozen(i)
<1> DEFINE t == task[r]
<1>0. i \in Item /\ (row' = row => Frozen(i))
  BY DEF IInv, TypeOK, Frozen, Survives
<1>1. Fits(t)
  BY PendingFits DEF IInv, CommitUpdate, CommitCreate, CommitDelete
<1>2. ASSUME row' = Applied(t), i \in t.items => KeepsLinks(t.writes[i])
      PROVE  Frozen(i)
  <2>1. row'[i] = IF i \in t.items THEN Stored(t.writes[i], row[i]) ELSE row[i]
    BY <1>0, <1>2 DEF Applied
  <2>2. SameLinks(i)
    <3>1. CASE i \in t.items
      BY <1>2, <2>1, <3>1, KeptLinksSame DEF SameLinks
    <3>2. CASE i \notin t.items
      BY <2>1, <3>2 DEF SameLinks
    <3>. QED
      BY <3>1, <3>2
  <2>. QED
    BY <2>2, SameIsFrozen
<1>3. CASE CommitUpdate(r)
  BY <1>0, <1>1, <1>2, <1>3 DEF CommitUpdate, Fits, FitsFrozen
<1>4. CASE CommitCreate(r)
  BY <1>0, <1>1, <1>2, <1>4 DEF CommitCreate, Fits, FitsFrozen
<1>5. CASE CommitDelete(r)
  <2>1. \A j \in t.items : j \notin live'
    BY <1>5 DEF CommitDelete
  <2>2. /\ row'[i].type = row[i].type
        /\ row'[i].parent = Unlink(row[i].parent, t.items)
        /\ row'[i].epic = Unlink(row[i].epic, t.items)
    BY <1>5, DeleteCommitRows
  <2>. QED
    BY <2>1, <2>2 DEF Frozen, Survives, Unlink
<1>. QED
  BY <1>3, <1>4, <1>5

LEMMA NextFreezes ==
  ASSUME IInv, [Next]_vars, NEW i \in live \cap live', Done(i) PROVE Frozen(i)
<1>1. row' = row => Frozen(i)
  BY DEF Frozen, Survives
<1>2. ASSUME NEW r \in Req, Receive(r) PROVE row' = row
  BY <1>2 DEF Receive, update_work_item, move_ticket_to_sprint, create_work_item,
              batch_update_status, delete_work_item, Refuse, dbVars, vars
<1>3. ASSUME NEW r \in Req, Continue(r) PROVE Frozen(i)
  <2>1. CASE CommitUpdate(r) \/ CommitCreate(r) \/ CommitDelete(r)
    BY <2>1, CommitFreezes
  <2>2. CASE RollupUpdate(r) \/ RollupCreate(r) \/ RollupBatch(r) \/ RollupDelete(r)
    <3>1. i \in Item /\ row[i] \in Row /\ OnlyReopens
      BY <2>2, RollupReopens DEF IInv, TypeOK
    <3>2. SameLinks(i)
      BY <3>1 DEF OnlyReopens, Reopened, SameLinks, Row
    <3>. QED
      BY <3>2, SameIsFrozen
  <2>. QED
    BY <1>3, <2>1, <2>2 DEF Continue
<1>4. ASSUME NEW r \in Req, Crash(r) PROVE row' = row
  BY <1>4 DEF Crash, dbVars
<1>5. CASE UNCHANGED vars
  BY <1>1, <1>5 DEF vars
<1>. QED
  BY <1>1, <1>2, <1>3, <1>4, <1>5 DEF Next

(* "Done tickets are frozen", when requests come one at a time: type and   *)
(* links change only where the item they refer to is deleted.              *)
THEOREM DoneStaysFrozen == Alone => (Spec => DoneIsFrozen)
<1> SUFFICES ASSUME Alone PROVE Spec => DoneIsFrozen
  OBVIOUS
<1> DEFINE Step == \A i \in live \cap live' : Done(i) => Frozen(i)
<1>1. IInv /\ [Next]_vars => [Step]_vars
  BY NextFreezes
<1>2. [][Step]_vars => DoneIsFrozen
  <2>1. [Step]_vars => [\A i \in live \cap live' : Done(i) =>
                          /\ row'[i].type = row[i].type
                          /\ Survives(row[i].parent, row'[i].parent)
                          /\ Survives(row[i].epic, row'[i].epic)]_vars
    BY DEF Frozen
  <2>. QED
    BY <2>1, PTL DEF DoneIsFrozen
<1>. QED
  BY <1>1, <1>2, Invariant, PTL DEF Spec
-----------------------------------------------------------------------------
(* Items close last. *)
GateStep(i) ==
  Closes(i) /\ row'[i].type = row[i].type => \A j \in Gating(i)' : Done(j)'

(* An item never gates itself. *)
LEMMA NoSelfGate ==
  ASSUME TypeOK', LinksFitType', NEW i \in live' PROVE i \notin Gating(i)'
<1>1. i \in Item /\ i # NoItem
  BY TreeAssumption DEF TypeOK
<1>2. "epic" \notin EpicChild /\ "subtask" \notin EpicChild /\ "test_case" \notin EpicChild
  BY DEF EpicChild
<1>3. /\ row'[i].parent # NoItem => row'[i].type \in {"subtask", "test_case"}
      /\ row'[i].epic # NoItem => row'[i].type \in EpicChild
  BY DEF LinksFitType
<1>. QED
  BY <1>1, <1>2, <1>3 DEF Gating, Stories, Subtasks, TestCases, Children

LEMMA CommitGate ==
  ASSUME IInv, IInv', NEW r \in Req, CommitUpdate(r), NEW i \in Item PROVE GateStep(i)
<1> DEFINE t == task[r]
<1> SUFFICES ASSUME Closes(i), row'[i].type = row[i].type, NEW j \in Gating(i)'
             PROVE  Done(j)'
  BY DEF GateStep
<1>1. Fits(t)
  BY PendingFits DEF IInv, CommitUpdate
<1>2. live' = live /\ row' = Applied(t) /\ t.items \subseteq live
  BY DEF CommitUpdate, Closes, Done
<1>3. j \in Item
  <2>1. TypeOK'
    BY DEF IInv
  <2>. QED
    BY <2>1 DEF Gating, Stories, Subtasks, TestCases, Children, TypeOK
<1>4. i \in t.items /\ t.writes[i].status = "done"
  <2>1. i \in t.items
    BY <1>2 DEF Applied, Closes, Done
  <2>2. row'[i].status = Over(t.writes[i].status, row[i].status)
    BY <1>2, <2>1 DEF Applied, Stored
  <2>. QED
    BY <2>1, <2>2 DEF Over, Closes, Done
<1>5. j \in Gating(i) => Done(j)'
  BY <1>1, <1>2, <1>4 DEF Fits, FitsGate, ClosesLast, CommitUpdate, Done
<1>6. CASE t.op = "update"
  <2>1. t.items = {i}
    BY <1>1, <1>4, <1>6 DEF Fits, FitsLinks
  <2>2. i \notin Gating(i)'
    <3>1. TypeOK' /\ LinksFitType' /\ i \in live'
      BY <1>2, <1>4 DEF IInv
    <3>. QED
      BY <3>1, NoSelfGate
  <2>3. j # i
    BY <2>2
  <2>4. row'[j] = row[j]
    BY <1>2, <1>3, <2>1, <2>3 DEF Applied
  <2>5. j \in Gating(i)
    BY <1>2, <2>4 DEF Gating, Stories, Subtasks, TestCases, Children
  <2>. QED
    BY <1>5, <2>5
<1>7. CASE t.op \in {"move", "batch"}
  <2>1. SameLinks(j)
    <3>1. CASE j \in t.items
      <4>1. KeepsLinks(t.writes[j]) /\ row'[j] = Stored(t.writes[j], row[j])
        BY <1>1, <1>2, <1>3, <1>7, <3>1 DEF Applied, Fits, FitsFrozen
      <4>. QED
        BY <4>1, KeptLinksSame DEF SameLinks
    <3>2. CASE j \notin t.items
      BY <1>2, <1>3, <3>2 DEF Applied, SameLinks
    <3>. QED
      BY <3>1, <3>2
  <2>2. j \in Gating(i)
    BY <1>2, <2>1 DEF Gating, Stories, Subtasks, TestCases, Children, SameLinks
  <2>. QED
    BY <1>5, <2>2
<1>. QED
  BY <1>6, <1>7 DEF CommitUpdate

(* Nothing else closes an item. *)
LEMMA OthersOpen ==
  ASSUME IInv, [Next]_vars, NEW i \in Item, \A r \in Req : ~CommitUpdate(r)
  PROVE  ~Closes(i)
<1>1. row' = row => ~Closes(i)
  BY DEF Closes, Done
<1>2. ASSUME NEW r \in Req, Receive(r) PROVE row' = row
  BY <1>2 DEF Receive, update_work_item, move_ticket_to_sprint, create_work_item,
              batch_update_status, delete_work_item, Refuse, dbVars, vars
<1>3. ASSUME NEW r \in Req, Continue(r) PROVE ~Closes(i)
  <2>1. CASE CommitCreate(r)
    <3>1. Fits(task[r])
      BY <2>1, PendingFits DEF IInv, CommitCreate
    <3>2. i \in live => row'[i] = row[i]
      BY <2>1, <3>1 DEF CommitCreate, Applied, Fits, FitsFrozen
    <3>. QED
      BY <3>2 DEF Closes, Done
  <2>2. CASE CommitDelete(r)
    <3>1. row'[i] = Blank \/ row'[i].status = row[i].status
      BY <2>2 DEF CommitDelete, IInv, TypeOK, Row
    <3>. QED
      BY <3>1 DEF Closes, Done, Blank
  <2>3. CASE RollupUpdate(r) \/ RollupCreate(r) \/ RollupBatch(r) \/ RollupDelete(r)
    <3>1. OnlyReopens
      BY <2>3, RollupReopens DEF IInv
    <3>. QED
      BY <3>1 DEF OnlyReopens, Closes, Done
  <2>. QED
    BY <1>3, <2>1, <2>2, <2>3 DEF Continue
<1>4. ASSUME NEW r \in Req, Crash(r) PROVE row' = row
  BY <1>4 DEF Crash, dbVars
<1>. QED
  BY <1>1, <1>2, <1>3, <1>4 DEF Next, vars

(* When requests come one at a time, an item that is closed, alone or in a *)
(* batch, leaves no open story, subtask or test case below it.             *)
THEOREM ClosesBehindChildren == Alone => (Spec => DoneGate)
<1> SUFFICES ASSUME Alone PROVE Spec => DoneGate
  OBVIOUS
<1> DEFINE Step == \A i \in Item : GateStep(i)
<1>1. IInv /\ IInv' /\ [Next]_vars => [Step]_vars
  BY CommitGate, OthersOpen DEF GateStep
<1>2. [][Step]_vars => DoneGate
  <2>1. [Step]_vars => [\A i \in Item : Closes(i) /\ row'[i].type = row[i].type =>
                          \A j \in Gating(i)' : Done(j)']_vars
    BY DEF GateStep
  <2>. QED
    BY <2>1, PTL DEF DoneGate
<1>. QED
  BY <1>1, <1>2, Invariant, PTL DEF Spec
-----------------------------------------------------------------------------
(* An update is about one item, whatever else is under way.                 *)
OneItem(t) == \A i, j \in t.items : i = j
OneItemEach == \A r \in Req : task[r].op = "update" => OneItem(task[r])

(* What a request has taken down when it begins. *)
Others(r) == \A s \in Req \ {r} : task'[s] = task[s]

LEMMA Begun ==
  ASSUME TypeOK, NEW r \in Req, NEW t, Begin(r, t)
  PROVE  task'[r] = t /\ Others(r) /\ task[r].stage = "idle"
BY DEF Begin, TypeOK, Others, Idle

LEMMA UpdateBegun ==
  ASSUME TypeOK, NEW r \in Req, NEW i \in live, NEW c \in Change, update_work_item(r, i, c)
  PROVE  LET t == task'[r] IN
           /\ i \in Item /\ t.op = "update" /\ t.stage = "commit" /\ t.items = {i}
           /\ t.sent = Sent(c) /\ t.parent = row[i].parent
           /\ t.writes[i].type = Changed(c.type, row[i].type)
           /\ t.writes[i].status = Changed(c.status, row[i].status)
           /\ t.writes[i].parent = Changed(c.parent, row[i].parent)
           /\ Others(r) /\ task[r].stage = "idle"
<1> DEFINE w == [type |-> Changed(c.type, row[i].type),
                 status |-> Changed(c.status, row[i].status),
                 parent |-> Changed(c.parent, row[i].parent),
                 epic |-> Changed(c.epic, row[i].epic),
                 completed |-> Completion(i, c.status)]
           t == [stage |-> "commit", op |-> "update", items |-> {i},
                 writes |-> [Nothing EXCEPT ![i] = w], sent |-> Sent(c),
                 parent |-> row[i].parent, epics |-> {row[i].epic} \ {NoItem}]
<1>1. i \in Item
  BY DEF TypeOK
<1>2. t.writes[i] = w
  BY <1>1 DEF Nothing
<1>3. Begin(r, t)
  BY DEF update_work_item
<1>4. task'[r] = t /\ Others(r) /\ task[r].stage = "idle"
  <2> HIDE DEF t
  <2>. QED
    BY <1>3, Begun
<1>. QED
  BY <1>1, <1>2, <1>4

LEMMA MoveBegun ==
  ASSUME TypeOK, NEW r \in Req, NEW i \in live, NEW backlog \in BOOLEAN,
         move_ticket_to_sprint(r, i, backlog)
  PROVE  LET t == task'[r] IN
           /\ i \in Item /\ t.op = "move" /\ t.stage = "commit" /\ t.items = {i}
           /\ ~Done(i) /\ t.writes[i].status # "done"
           /\ Others(r) /\ task[r].stage = "idle"
<1> DEFINE s == IF backlog THEN "backlog"
                ELSE IF row[i].status = "backlog" THEN "todo" ELSE row[i].status
           w == [NoWrite EXCEPT !.status = Changed(s, row[i].status)]
           t == [Idle EXCEPT !.stage = "commit", !.op = "move", !.items = {i},
                             !.writes = [Nothing EXCEPT ![i] = w]]
<1>1. i \in Item
  BY DEF TypeOK
<1>2. t.op = "move" /\ t.stage = "commit" /\ t.items = {i} /\ t.writes[i] = w
  BY <1>1 DEF Nothing, Idle
<1>3. Begin(r, t)
  BY <1>1 DEF move_ticket_to_sprint, Idle, Nothing
<1>4. ~Done(i) /\ w.status # "done"
  BY TreeAssumption DEF move_ticket_to_sprint, Done, Changed, NoWrite, Status
<1>5. task'[r] = t /\ Others(r) /\ task[r].stage = "idle"
  <2> HIDE DEF t
  <2>. QED
    BY <1>3, Begun
<1>. QED
  BY <1>1, <1>2, <1>4, <1>5

LEMMA CreateBegun ==
  ASSUME TypeOK, NEW r \in Req, NEW i \in Item, NEW k \in Kind, NEW s \in Status,
         NEW p \in Link, NEW e \in Link, create_work_item(r, i, k, s, p, e)
  PROVE  LET t == task'[r] IN
           /\ t.op = "create" /\ t.stage = "commit" /\ t.items = {i}
           /\ Others(r) /\ task[r].stage = "idle"
<1> DEFINE w == [type |-> k, status |-> s, parent |-> p, epic |-> e,
                 completed |-> s = "done"]
           t == [Idle EXCEPT !.stage = "commit", !.op = "create", !.items = {i},
                             !.writes = [Nothing EXCEPT ![i] = w]]
<1>1. t.op = "create" /\ t.stage = "commit" /\ t.items = {i}
  BY DEF Idle
<1>2. Begin(r, t)
  BY DEF create_work_item, Idle, Nothing
<1> HIDE DEF t
<1>. QED
  BY <1>1, <1>2, Begun

LEMMA BatchBegun ==
  ASSUME TypeOK, NEW r \in Req, NEW ids \in SUBSET live, NEW s \in Status,
         batch_update_status(r, ids, s)
  PROVE  task'[r].op = "batch" /\ Others(r) /\ task[r].stage = "idle" /\ Batch
<1> DEFINE t == [Idle EXCEPT !.stage = "commit", !.op = "batch", !.items = ids,
               !.writes = [i \in Item |->
                  IF i \in ids
                    THEN [NoWrite EXCEPT
                            !.status = Changed(s, row[i].status),
                            !.completed = IF s = "done"
                                            THEN Changed(TRUE, row[i].completed)
                                            ELSE Keep]
                    ELSE NoWrite],
               !.epics = {row[i].epic : i \in ids} \ {NoItem}]
<1>1. t.op = "batch"
  BY DEF Idle
<1>2. Begin(r, t) /\ Batch
  BY DEF batch_update_status
<1> HIDE DEF t
<1>. QED
  BY <1>1, <1>2, Begun

LEMMA DeleteBegun ==
  ASSUME TypeOK, NEW r \in Req, NEW i \in live, delete_work_item(r, i)
  PROVE  LET t == task'[r] IN
           /\ i \in Item /\ t.op = "delete" /\ t.stage = "commit" /\ t.items = {i}
           /\ Others(r) /\ task[r].stage = "idle"
<1> DEFINE above == row[i].type = "subtask" /\ row[i].parent # NoItem
           t == [Idle EXCEPT !.stage = "commit", !.op = "delete", !.items = {i},
                   !.parent = IF above THEN row[i].parent ELSE NoItem,
                   !.epics = IF above THEN {} ELSE {row[i].epic} \ {NoItem}]
<1>1. t.op = "delete" /\ t.stage = "commit" /\ t.items = {i} /\ i \in Item
  BY DEF Idle, TypeOK
<1>2. Begin(r, t)
  BY DEF delete_work_item
<1> HIDE DEF t
<1>. QED
  BY <1>1, <1>2, Begun

LEMMA OneItemKept == TypeOK /\ OneItemEach /\ [Next]_vars => OneItemEach'
<1> SUFFICES ASSUME TypeOK, OneItemEach, [Next]_vars PROVE OneItemEach'
  OBVIOUS
<1>1. ASSUME NEW r \in Req, Others(r),
             task'[r].op = "update" => \E i \in Item : task'[r].items = {i}
      PROVE  OneItemEach'
  BY <1>1 DEF Others, OneItemEach, OneItem
<1>2. ASSUME NEW r \in Req, NEW l \in {"idle", "rollup"}, Proceed(r, l)
      PROVE  OneItemEach'
  <2>1. task'[r] = Idle \/ (task'[r].op = task[r].op /\ task'[r].items = task[r].items)
    BY <1>2 DEF Proceed, TypeOK, Task
  <2>2. \A s \in Req \ {r} : task'[s] = task[s]
    BY <1>2 DEF Proceed, TypeOK
  <2>. QED
    BY <2>1, <2>2 DEF OneItemEach, OneItem, Idle
<1>3. CASE UNCHANGED task
  BY <1>3 DEF OneItemEach, OneItem
<1>4. ASSUME NEW r \in Req, Receive(r) PROVE OneItemEach'
  <2>1. ASSUME NEW i \in live, NEW c \in Change, update_work_item(r, i, c) PROVE OneItemEach'
    BY <1>1, <2>1, UpdateBegun
  <2>2. ASSUME NEW i \in live, NEW backlog \in BOOLEAN, move_ticket_to_sprint(r, i, backlog)
        PROVE  OneItemEach'
    BY <1>1, <2>2, MoveBegun
  <2>3. ASSUME NEW i \in Item, NEW k \in Kind, NEW s \in Status, NEW p \in Link, NEW e \in Link,
               create_work_item(r, i, k, s, p, e)
        PROVE  OneItemEach'
    BY <1>1, <2>3, CreateBegun
  <2>4. ASSUME NEW ids \in SUBSET live, NEW s \in Status, batch_update_status(r, ids, s)
        PROVE  OneItemEach'
    BY <1>1, <2>4, BatchBegun
  <2>5. ASSUME NEW i \in live, delete_work_item(r, i) PROVE OneItemEach'
    BY <1>1, <2>5, DeleteBegun
  <2>. QED
    BY <1>3, <1>4, <2>1, <2>2, <2>3, <2>4, <2>5 DEF Receive, Refuse, vars
<1>5. ASSUME NEW r \in Req, Continue(r) PROVE Proceed(r, "idle") \/ Proceed(r, "rollup")
  BY <1>5, CommitProceeds, RollupReopens DEF Continue
<1>. QED
  BY <1>2, <1>3, <1>4, <1>5 DEF Next, Crash, vars

(* Of the steps, only its own end ends a request that has committed.        *)
LEMMA EndsItself ==
  ASSUME TypeOK, ~Crashes, [Next]_vars, NEW r \in Req, FinishesUpdate(r)
  PROVE  RollupUpdate(r)
<1>1. task'[r] # task[r] /\ task[r] # Idle
  BY DEF FinishesUpdate, Idle
<1>2. ASSUME NEW s \in Req, NEW t, Begin(s, t) PROVE FALSE
  BY <1>1, <1>2 DEF Begin, TypeOK
<1>3. ASSUME NEW s \in Req, NEW l \in {"idle", "rollup"}, Proceed(s, l) PROVE s = r
  BY <1>1, <1>3 DEF Proceed, TypeOK
<1>4. ASSUME NEW s \in Req, Receive(s) PROVE FALSE
  <2>1. ~Refuse(s)
    BY <1>1 DEF Refuse, vars
  <2>2. \E t : Begin(s, t)
    BY <1>4, <2>1 DEF Receive, update_work_item, move_ticket_to_sprint, create_work_item,
                      batch_update_status, delete_work_item
  <2>. QED
    BY <1>2, <2>2
<1>5. ASSUME NEW s \in Req, Continue(s) PROVE s = r
  BY <1>3, <1>5, CommitProceeds, RollupReopens DEF Continue
<1>6. Continue(r)
  BY <1>1, <1>4, <1>5 DEF Next, Crash, vars
<1>. QED
  BY <1>6 DEF Continue, CommitUpdate, CommitCreate, CommitDelete, RollupCreate,
              RollupBatch, RollupDelete, FinishesUpdate

(* What a refresh leaves open: an epic it was given, or that of a parent,   *)
(* with something open below, and a parent with something open below.       *)
LEMMA RefreshOpensEpics ==
  ASSUME TypeOK, NEW ps, NEW es, Refresh(ps, es), NEW e \in live, row[e].type = "epic",
         NEW i \in Stories(e),
         \/ e \in es /\ ~Done(i)
         \/ i \in ps \cap live /\ row[i].epic = e /\ (~Done(i) \/ i \in StaleParents(ps))
  PROVE  row'[e].status # "done"
<1> DEFINE parents == StaleParents(ps)
           epics == StaleEpics(es \cup {row[p].epic : p \in ps \cap live}, parents)
<1>1. e \in Item /\ row'[e] = IF e \in parents \cup epics THEN Reopened(e) ELSE row[e]
  BY DEF Refresh, Reopened, TypeOK
<1>2. Reopened(e).status = "todo"
  BY <1>1 DEF Reopened, TypeOK, Row
<1>3. e \in es \cup {row[p].epic : p \in ps \cap live}
  OBVIOUS
<1>4. Done(e) => e \in epics
  BY <1>3 DEF StaleEpics
<1> HIDE DEF parents, epics
<1>. QED
  BY <1>1, <1>2, <1>4 DEF Done

LEMMA RefreshOpensParents ==
  ASSUME TypeOK, NEW ps, NEW es, Refresh(ps, es), NEW p \in ps \cap live,
         row[p].type \in EpicChild, NEW s \in Subtasks(p), ~Done(s)
  PROVE  /\ row'[p].status # "done"
         /\ Done(p) => p \in StaleParents(ps)
<1> DEFINE parents == StaleParents(ps)
           epics == StaleEpics(es \cup {row[q].epic : q \in ps \cap live}, parents)
<1>1. p \in Item /\ row'[p] = IF p \in parents \cup epics THEN Reopened(p) ELSE row[p]
  BY DEF Refresh, Reopened, TypeOK
<1>2. Reopened(p).status = "todo"
  BY <1>1 DEF Reopened, TypeOK, Row
<1>3. Done(p) => p \in parents
  BY DEF StaleParents
<1> HIDE DEF epics
<1>. QED
  BY <1>1, <1>2, <1>3 DEF Done

(* What r finds open when its update ends is open all the way up.           *)
Climbs(r) ==
  FinishesUpdate(r) =>
    \A i \in task[r].items \cap live :
      ~Done(i) =>
        IF row[i].type = "subtask"
          THEN row[i].parent \in live /\ row[row[i].parent].type \in EpicChild =>
                 /\ ~Done(row[i].parent)'
                 /\ OpenAbove(row[i].parent)'
          ELSE row[i].type \in EpicChild => OpenAbove(i)'

LEMMA RollupClimbs ==
  ASSUME TypeOK, OneItemEach, NEW r \in Req, RollupUpdate(r), FinishesUpdate(r),
         NEW i \in task[r].items \cap live, ~Done(i)
  PROVE  IF row[i].type = "subtask"
           THEN row[i].parent \in live /\ row[row[i].parent].type \in EpicChild =>
                  /\ ~Done(row[i].parent)'
                  /\ OpenAbove(row[i].parent)'
           ELSE row[i].type \in EpicChild => OpenAbove(i)'
<1> DEFINE t == task[r]
           moved == "parent" \in t.sent /\ row[i].parent # t.parent
<1>1. \A j \in t.items : j = i
  BY DEF OneItemEach, OneItem, FinishesUpdate
<1>2. /\ row[i].type = "subtask" =>
           Refresh({row[i].parent} \cup {p \in {t.parent} : moved}, {})
      /\ row[i].type # "subtask" =>
           Refresh({}, {row[i].epic} \cup {e \in t.epics : "epic" \in t.sent})
  BY <1>1 DEF RollupUpdate, FinishesUpdate
<1>3. /\ live' = live /\ live \subseteq Item
      /\ \A j \in live : row'[j].type = row[j].type /\ row'[j].epic = row[j].epic
                         /\ row'[j].parent = row[j].parent
  <2>1. OnlyReopens /\ live' = live /\ live \subseteq Item
    BY RollupReopens DEF TypeOK
  <2>2. ASSUME NEW j \in Item
        PROVE  /\ row'[j].type = row[j].type /\ row'[j].epic = row[j].epic
               /\ row'[j].parent = row[j].parent
    <3>1. row[j] \in Row
      BY DEF TypeOK
    <3>2. row'[j] = row[j] \/ row'[j] = Reopened(j)
      BY <2>1 DEF OnlyReopens
    <3>. QED
      BY <3>1, <3>2 DEF Reopened, Row
  <2>. QED
    BY <2>1, <2>2
<1>4. CASE row[i].type = "subtask"
  <2> SUFFICES ASSUME NEW p \in live, p = row[i].parent, row[p].type \in EpicChild
               PROVE  ~Done(row[i].parent)' /\ OpenAbove(row[i].parent)'
    BY <1>4
  <2>1. i \in Subtasks(p)
    BY <1>4 DEF Subtasks, Children
  <2>2. PICK ps : Refresh(ps, {}) /\ p \in ps
    BY <1>2, <1>4
  <2>3. row'[p].status # "done" /\ (Done(p) => p \in StaleParents(ps))
    BY <2>1, <2>2, RefreshOpensParents
  <2>4. ASSUME NEW e \in live, e = row[p].epic, row[e].type = "epic"
        PROVE  row'[e].status # "done"
    <3>1. p \in Stories(e)
      BY <2>4 DEF Stories
    <3>. QED
      BY <2>2, <2>3, <2>4, <3>1, RefreshOpensEpics
  <2>. QED
    BY <1>3, <2>3, <2>4 DEF OpenAbove, Done
<1>5. CASE row[i].type # "subtask"
  <2> SUFFICES ASSUME row[i].type \in EpicChild,
                      NEW e \in live, e = row[i].epic, row[e].type = "epic"
               PROVE  row'[e].status # "done"
    BY <1>3, <1>5 DEF OpenAbove, Done
  <2>1. i \in Stories(e)
    BY DEF Stories
  <2>2. PICK es : Refresh({}, es) /\ e \in es
    BY <1>2, <1>5
  <2>. QED
    BY <2>1, <2>2, RefreshOpensEpics
<1>. QED
  BY <1>4, <1>5

(* "Reopening" climbs, whatever else is under way, where no process dies:   *)
(* an open item whose status an update sent has, when that update ends, an  *)
(* open parent and an open epic above it.                                   *)
THEOREM ReopeningReachesTheEpic == ~Crashes => (Spec => ReopeningClimbs)
<1> SUFFICES ASSUME ~Crashes PROVE Spec => ReopeningClimbs
  OBVIOUS
<1> DEFINE Step == \A r \in Req : Climbs(r)
<1>1. Init => OneItemEach
  BY DEF Init, OneItemEach, OneItem, Idle
<1>2. TypeOK /\ OneItemEach /\ [Next]_vars => [Step]_vars
  <2> SUFFICES ASSUME TypeOK, OneItemEach, [Next]_vars, NEW r \in Req PROVE Climbs(r)
    OBVIOUS
  <2>. QED
    BY EndsItself, RollupClimbs DEF Climbs
<1>3. [][Step]_vars => ReopeningClimbs
  <2>1. [Step]_vars => [\A r \in Req : FinishesUpdate(r) =>
          \A i \in task[r].items \cap live :
            ~Done(i) =>
              IF row[i].type = "subtask"
                THEN row[i].parent \in live /\ row[row[i].parent].type \in EpicChild =>
                       /\ ~Done(row[i].parent)'
                       /\ OpenAbove(row[i].parent)'
                ELSE row[i].type \in EpicChild => OpenAbove(i)']_vars
    BY DEF Climbs
  <2>. QED
    BY <2>1, PTL DEF ReopeningClimbs
<1>. QED
  BY <1>1, <1>2, <1>3, OneItemKept, TypeCorrect, PTL DEF Spec
-----------------------------------------------------------------------------
(* Below what is done, everything is done, but for what is being looked at. *)
(* The open subtask s, below something done, is the one whose update or     *)
(* creation r has committed and is about to look above.                     *)
Awaits(r, s) ==
  LET t == task[r] IN
  /\ t.stage = "rollup" /\ s \in t.items
  /\ \/ t.op = "update" /\ \/ "status" \in t.sent
                           \/ "parent" \in t.sent /\ row[s].parent # t.parent
     \/ t.op = "create"

(* Below what is done is everything done, or about to be looked at.         *)
Stale(p, s) == row[p].type \in EpicChild /\ Done(p) /\ s \in Subtasks(p) /\ ~Done(s)
Settled == \A p, s \in live : Stale(p, s) => \E r \in Req : Awaits(r, s)

(* What r sent, and what it will write, agree.                              *)
WritesAsSent(r) ==
  LET t == task[r] IN
  /\ t.op # "batch"
  /\ t.op = "update" =>
       \A i \in t.items :
         LET w == t.writes[i] IN
         /\ w.type = Keep
         /\ w.status # Keep => "status" \in t.sent
         /\ w.parent # Keep =>
              "parent" \in t.sent /\ t.parent = row[i].parent /\ w.parent # row[i].parent
  /\ t.op = "move" => \A i \in t.items : ~Done(i) /\ t.writes[i].status # "done"

SettledInv ==
  /\ Settled
  /\ \A r \in Req : task[r].stage = "commit" => WritesAsSent(r)

(* Who changes items one by one and keeps their types.                      *)
Plain == ~Batch /\ ~Crashes /\ \A c \in Change : c.type = Keep

(* What a request writes is what it was sent.                               *)
LEMMA BeginsAsSent ==
  ASSUME Plain, TypeOK, NEW r \in Req, Receive(r), ~Refuse(r)
  PROVE  WritesAsSent(r)' /\ task[r].stage = "idle" /\ live' = live /\ row' = row
<1>1. live' = live /\ row' = row
  BY DEF Receive, update_work_item, move_ticket_to_sprint, create_work_item,
         batch_update_status, delete_work_item, Refuse, dbVars, vars
<1>2. ASSUME NEW i \in live, NEW c \in Change, update_work_item(r, i, c)
      PROVE  WritesAsSent(r)' /\ task[r].stage = "idle"
  <2> DEFINE t == task'[r]
             w == t.writes[i]
  <2>1. /\ i \in Item /\ t.op = "update" /\ t.items = {i}
        /\ t.sent = Sent(c) /\ t.parent = row[i].parent
        /\ w.type = Changed(c.type, row[i].type)
        /\ w.status = Changed(c.status, row[i].status)
        /\ w.parent = Changed(c.parent, row[i].parent)
        /\ task[r].stage = "idle"
    BY <1>2, UpdateBegun
  <2>2. w.type = Keep
    BY <2>1 DEF Plain, Changed
  <2>3. w.status # Keep => "status" \in t.sent
    BY <2>1 DEF Changed, Sent
  <2>4. w.parent # Keep => "parent" \in t.sent /\ w.parent # row[i].parent
    BY <2>1 DEF Changed, Sent
  <2> HIDE DEF w
  <2>. QED
    BY <1>1, <2>1, <2>2, <2>3, <2>4 DEF WritesAsSent, w
<1>3. ASSUME NEW i \in live, NEW backlog \in BOOLEAN, move_ticket_to_sprint(r, i, backlog)
      PROVE  WritesAsSent(r)' /\ task[r].stage = "idle"
  BY <1>1, <1>3, MoveBegun DEF WritesAsSent, Done
<1>4. ASSUME NEW i \in Item, NEW k \in Kind, NEW s \in Status, NEW p \in Link, NEW e \in Link,
             create_work_item(r, i, k, s, p, e)
      PROVE  WritesAsSent(r)' /\ task[r].stage = "idle"
  BY <1>4, CreateBegun DEF WritesAsSent
<1>5. ASSUME NEW ids \in SUBSET live, NEW s \in Status, batch_update_status(r, ids, s)
      PROVE  FALSE
  BY <1>5, BatchBegun DEF Plain
<1>6. ASSUME NEW i \in live, delete_work_item(r, i)
      PROVE  WritesAsSent(r)' /\ task[r].stage = "idle"
  BY <1>6, DeleteBegun DEF WritesAsSent
<1>. QED
  BY <1>1, <1>2, <1>3, <1>4, <1>5, <1>6 DEF Receive

(* While a request has still to commit, nothing open is below what is done. *)
LEMMA AllClosed ==
  ASSUME Alone, Settled, NEW r \in Req, task[r].stage # "rollup", NEW p \in live,
         NEW s \in live
  PROVE  ~Stale(p, s)
BY DEF Settled, Awaits, Alone

(* What a pair must have been for a step to leave it as it was.             *)
SameRow(i) ==
  /\ row'[i].type = row[i].type /\ row'[i].status = row[i].status
  /\ row'[i].parent = row[i].parent
LEMMA SameStale ==
  ASSUME NEW p, NEW s, Stale(p, s)', s \in live, SameRow(p), SameRow(s)
  PROVE  Stale(p, s)
BY DEF Stale, SameRow, Done, Subtasks, Children

(* A commit leaves only what it is about to look at.                        *)
LEMMA UpdateSettles ==
  ASSUME Alone, IInv, SettledInv, NEW r \in Req, CommitUpdate(r), task[r].op = "update"
  PROVE  Settled'
<1> DEFINE t == task[r]
<1>1. Fits(t) /\ WritesAsSent(r) /\ t.stage = "commit" /\ t \in Task
  BY PendingFits DEF IInv, TypeOK, CommitUpdate, SettledInv
<1>2. PICK i \in Item : /\ t.items = {i}
                        /\ FitsDepth(i, Stored(t.writes[i], row[i]))
  BY <1>1 DEF Fits, FitsLinks
<1> DEFINE w == t.writes[i]
<1>3. \A p, q \in live : ~Stale(p, q)
  BY <1>1, AllClosed DEF SettledInv
<1>4. CASE row' = row
  <2>1. live' = live
    BY DEF CommitUpdate
  <2>. QED
    BY <1>3, <1>4, <2>1 DEF Settled, Stale, Done, Subtasks, Children
<1>5. CASE row' = Applied(t) /\ Proceed(r, "rollup")
  <2>1. live' = live /\ live \subseteq Item
    BY DEF CommitUpdate, IInv, TypeOK
  <2>2. /\ row'[i] = Stored(w, row[i])
        /\ \A j \in Item \ {i} : row'[j] = row[j]
    BY <1>2, <1>5 DEF Applied
  <2>3. task'[r].stage = "rollup" /\ task'[r].op = "update" /\ task'[r].items = {i}
        /\ task'[r].sent = t.sent /\ task'[r].parent = t.parent
    BY <1>1, <1>2, <1>5 DEF Proceed, IInv, TypeOK, Task
  <2>4. /\ w.type = Keep
        /\ w.status # Keep => "status" \in t.sent
        /\ w.parent # Keep => /\ "parent" \in t.sent /\ t.parent = row[i].parent
                              /\ w.parent # row[i].parent
    BY <1>1, <1>2 DEF WritesAsSent
  <2>5. /\ row'[i].type = row[i].type
        /\ row'[i].status = Over(w.status, row[i].status)
        /\ row'[i].parent = Over(w.parent, row[i].parent)
    BY <2>2, <2>4 DEF Stored, Over
  <2> SUFFICES ASSUME NEW p \in live, NEW s \in live, Stale(p, s)'
               PROVE  \E q \in Req : Awaits(q, s)'
    BY <2>1 DEF Settled
  <2>6. row'[s].type = "subtask" /\ row'[s].parent = p /\ row'[p].type \in EpicChild
        /\ row'[p].status = "done" /\ row'[s].status # "done" /\ p # s
    BY DEF Stale, Subtasks, Children, Done, EpicChild
  <2>7. CASE s = i
    <3>1. SameRow(p)
      BY <2>1, <2>2, <2>6, <2>7 DEF SameRow
    <3>2. ~SameRow(s)
      BY <1>3, <3>1, SameStale
    <3>3. w.status # Keep \/ w.parent # Keep
      BY <2>5, <2>7, <3>2 DEF SameRow, Over
    <3>4. Awaits(r, s)'
      BY <2>3, <2>4, <2>5, <2>7, <3>3 DEF Awaits, Over
    <3>. QED
      BY <3>4
  <2>8. CASE p = i
    <3>1. SameRow(s) /\ row'[s] = row[s]
      BY <2>1, <2>2, <2>6, <2>8 DEF SameRow
    <3>2. ~SameRow(p)
      BY <1>3, <3>1, SameStale
    <3>4. CASE row[p].status # "done"
      <4>1. w.status = "done"
        BY <2>5, <2>6, <2>8, <3>4 DEF Over
      <4>2. s \in Gating(p)
        BY <2>5, <2>6, <2>8, <3>1 DEF Gating, Subtasks, Children, EpicChild
      <4>3. Applied(t)[s].status = "done"
        BY <1>1, <1>2, <2>8, <4>1, <4>2 DEF Fits, FitsGate, ClosesLast
      <4>. QED
        BY <1>5, <2>6, <4>3
    <3>5. CASE row[p].status = "done"
      <4>1. Stale(p, s)
        BY <2>5, <2>6, <2>8, <3>1, <3>5 DEF Stale, Subtasks, Children, Done
      <4>. QED
        BY <1>3, <4>1
    <3>. QED
      BY <3>4, <3>5
  <2>9. CASE s # i /\ p # i
    <3>1. SameRow(p) /\ SameRow(s)
      BY <2>1, <2>2, <2>9 DEF SameRow
    <3>. QED
      BY <1>3, <3>1, SameStale
  <2>. QED
    BY <2>7, <2>8, <2>9
<1>. QED
  BY <1>4, <1>5 DEF CommitUpdate

LEMMA MoveSettles ==
  ASSUME Alone, IInv, SettledInv, NEW r \in Req, CommitUpdate(r), task[r].op = "move"
  PROVE  Settled'
<1> DEFINE t == task[r]
<1>1. Fits(t) /\ WritesAsSent(r) /\ t.stage = "commit"
  BY PendingFits DEF IInv, CommitUpdate, SettledInv
<1>2. \A p, q \in live : ~Stale(p, q)
  BY <1>1, AllClosed DEF SettledInv
<1>3. live' = live /\ live \subseteq Item
  BY DEF CommitUpdate, IInv, TypeOK
<1>4. CASE row' = row
  BY <1>2, <1>3, <1>4 DEF Settled, Stale, Done, Subtasks, Children
<1>5. CASE row' = Applied(t)
  <2>1. ASSUME NEW j \in live
        PROVE  /\ row'[j].type = row[j].type /\ row'[j].parent = row[j].parent
               /\ Done(j)' = Done(j)
    <3>1. CASE j \notin t.items
      BY <1>3, <1>5, <3>1 DEF Applied, Done
    <3>2. CASE j \in t.items
      <4>1. KeepsLinks(t.writes[j]) /\ ~Done(j) /\ t.writes[j].status # "done"
        BY <1>1, <3>2 DEF Fits, FitsFrozen, WritesAsSent
      <4>2. row'[j] = Stored(t.writes[j], row[j])
        BY <1>3, <1>5, <3>2 DEF Applied
      <4>. QED
        BY <4>1, <4>2 DEF KeepsLinks, Stored, Over, Done
    <3>. QED
      BY <3>1, <3>2
  <2>. QED
    BY <1>2, <1>3, <2>1 DEF Settled, Stale, Subtasks, Children
<1>. QED
  BY <1>4, <1>5 DEF CommitUpdate

LEMMA CreateSettles ==
  ASSUME Alone, IInv, SettledInv, NEW r \in Req, CommitCreate(r) PROVE Settled'
<1> DEFINE t == task[r]
<1>1. Fits(t) /\ t.stage = "commit" /\ t.op = "create" /\ t \in Task
  BY PendingFits DEF IInv, TypeOK, CommitCreate
<1>2. PICK i \in Item : t.items = {i} /\ i \notin live
  BY <1>1 DEF Fits, FitsLinks, FitsFrozen
<1>3. \A p, q \in live : ~Stale(p, q)
  BY <1>1, AllClosed DEF SettledInv
<1>4. CASE UNCHANGED <<live, row>>
  BY <1>3, <1>4 DEF Settled, Stale, Done, Subtasks, Children
<1>5. CASE live' = live \cup t.items /\ row' = Applied(t) /\ Proceed(r, "rollup")
  <2>1. live \subseteq Item /\ \A j \in live : row'[j] = row[j]
    BY <1>2, <1>5 DEF Applied, IInv, TypeOK
  <2>2. task'[r].stage = "rollup" /\ task'[r].op = "create" /\ task'[r].items = {i}
    BY <1>1, <1>2, <1>5 DEF Proceed, IInv, TypeOK, Task
  <2> SUFFICES ASSUME NEW p \in live', NEW s \in live', Stale(p, s)'
               PROVE  \E q \in Req : Awaits(q, s)'
    BY DEF Settled
  <2>3. CASE s = i
    BY <2>2, <2>3 DEF Awaits
  <2>4. CASE s # i
    <3>1. s \in live /\ row'[s] = row[s] /\ row'[s].parent = p
      BY <1>2, <1>5, <2>1, <2>4 DEF Stale, Subtasks, Children
    <3>2. p \in live
      <4>1. p # NoItem
        BY <1>2, <1>5, <2>1, TreeAssumption
      <4>. QED
        BY <3>1, <4>1 DEF IInv, NoDangling
    <3>3. SameRow(p) /\ SameRow(s)
      BY <2>1, <3>1, <3>2 DEF SameRow
    <3>. QED
      BY <1>3, <3>1, <3>2, <3>3, SameStale
  <2>. QED
    BY <2>3, <2>4
<1>. QED
  BY <1>4, <1>5 DEF CommitCreate

LEMMA DeleteSettles ==
  ASSUME Alone, IInv, SettledInv, NEW r \in Req, CommitDelete(r) PROVE Settled'
<1> DEFINE t == task[r]
<1>1. \A p, q \in live : ~Stale(p, q)
  BY AllClosed DEF SettledInv, CommitDelete
<1>2. live' = live \ t.items /\ live \subseteq Item
  BY DEF CommitDelete, IInv, TypeOK
<1>3. \A j \in live' : /\ row'[j].type = row[j].type /\ row'[j].status = row[j].status
                       /\ row'[j].parent = Unlink(row[j].parent, t.items)
  <2>1. ASSUME NEW j \in live'
        PROVE  /\ row'[j].type = row[j].type /\ row'[j].status = row[j].status
               /\ row'[j].parent = Unlink(row[j].parent, t.items)
    <3>1. row[j] \in Row /\ j \in Item /\ j \notin t.items
      BY <1>2 DEF IInv, TypeOK
    <3>2. row'[j] = [row[j] EXCEPT !.parent = Unlink(row[j].parent, t.items),
                                   !.epic = Unlink(row[j].epic, t.items)]
      BY <3>1 DEF CommitDelete
    <3>. QED
      BY <3>1, <3>2 DEF Row
  <2>. QED
    BY <2>1
<1> SUFFICES ASSUME NEW p \in live', NEW s \in live', Stale(p, s)' PROVE FALSE
  BY DEF Settled
<1>4. p # NoItem
  BY <1>2, TreeAssumption
<1>5. row'[s].parent = p
  BY DEF Stale, Subtasks, Children
<1>6. row[s].parent = p
  BY <1>3, <1>4, <1>5 DEF Unlink
<1>7. SameRow(s) /\ s \in live /\ p \in live
  BY <1>2, <1>3, <1>5, <1>6 DEF SameRow
<1>8. Stale(p, s)
  BY <1>3, <1>6, <1>7 DEF Stale, Subtasks, Children, Done
<1>. QED
  BY <1>1, <1>7, <1>8

(* A second transaction reopens what is left.                               *)
LEMMA RollupSettles ==
  ASSUME Alone, Plain, IInv, OneItemEach, SettledInv, NEW r \in Req,
         RollupUpdate(r) \/ RollupCreate(r) \/ RollupBatch(r) \/ RollupDelete(r)
  PROVE  Settled'
<1> DEFINE t == task[r]
<1>1. OnlyReopens /\ live' = live /\ live \subseteq Item
  BY RollupReopens DEF IInv, TypeOK
<1>2. ASSUME NEW j \in live
      PROVE  /\ row'[j].type = row[j].type /\ row'[j].parent = row[j].parent
             /\ Done(j)' => Done(j)
             /\ row[j].type = "subtask" => row'[j] = row[j]
  <2>1. row[j] \in Row /\ j \in Item
    BY <1>1 DEF IInv, TypeOK
  <2>2. row'[j] = row[j] \/ row'[j] = Reopened(j)
    BY <1>1, <2>1 DEF OnlyReopens
  <2>3. ASSUME NEW ps, NEW es, Refresh(ps, es), row[j].type = "subtask" PROVE row'[j] = row[j]
    <3> DEFINE parents == StaleParents(ps)
               epics == StaleEpics(es \cup {row[q].epic : q \in ps \cap live}, parents)
    <3>1. j \notin parents /\ j \notin epics
      BY <2>3 DEF StaleParents, StaleEpics, EpicChild
    <3>2. row'[j] = IF j \in parents \cup epics
                      THEN [row[j] EXCEPT !.status = "todo", !.completed = FALSE] ELSE row[j]
      BY <2>1, <2>3 DEF Refresh
    <3> HIDE DEF parents, epics
    <3>. QED
      BY <3>1, <3>2
  <2>4. row' = row \/ \E ps, es : Refresh(ps, es)
    BY DEF RollupUpdate, RollupCreate, RollupBatch, RollupDelete
  <2>5. row[j].type = "subtask" => row'[j] = row[j]
    BY <2>3, <2>4
  <2>. QED
    BY <2>1, <2>2, <2>5 DEF Reopened, Row, Done
<1> SUFFICES ASSUME NEW p \in live, NEW s \in live, Stale(p, s)' PROVE FALSE
  BY <1>1 DEF Settled
<1>3. Stale(p, s)
  BY <1>2 DEF Stale, Subtasks, Children, Done
<1>4. Awaits(r, s)
  BY <1>3 DEF SettledInv, Settled, Alone
<1>5. row[s].type = "subtask" /\ row[s].parent = p /\ row[p].type \in EpicChild
      /\ s \in Subtasks(p) /\ ~Done(s)
  BY <1>3 DEF Stale, Subtasks, Children
<1>6. \E ps, es : Refresh(ps, es) /\ p \in ps
  <2>1. CASE RollupUpdate(r)
    <3>1. t.op = "update" /\ \A j \in t.items : j = s
      BY <1>4, <2>1 DEF OneItemEach, OneItem, Awaits, RollupUpdate
    <3> DEFINE moved == "parent" \in t.sent /\ row[s].parent # t.parent
    <3>2. moved \/ t.sent \cap {"status", "hours"} # {}
      BY <1>4, <3>1 DEF Awaits
    <3>3. Refresh({row[s].parent} \cup {q \in {t.parent} : moved}, {})
      BY <1>5, <2>1, <3>1, <3>2 DEF RollupUpdate
    <3> HIDE DEF moved
    <3>. QED
      BY <1>5, <3>3
  <2>2. CASE RollupCreate(r)
    <3> DEFINE ps == {row[i].parent : i \in {j \in t.items \cap live : row[j].type = "subtask"}}
    <3>1. Refresh(ps, {})
      BY <2>2 DEF RollupCreate
    <3>2. s \in t.items
      BY <1>4 DEF Awaits
    <3>3. p \in ps
      BY <1>5, <3>2
    <3> HIDE DEF ps
    <3>. QED
      BY <3>1, <3>3
  <2>3. CASE RollupBatch(r) \/ RollupDelete(r)
    BY <1>4, <2>3 DEF Awaits, RollupBatch, RollupDelete
  <2>. QED
    BY <2>1, <2>2, <2>3
<1>7. row'[p].status # "done"
  BY <1>5, <1>6, RefreshOpensParents DEF IInv
<1>. QED
  BY <1>7 DEF Stale, Done

LEMMA SettledKept ==
  Alone /\ Plain /\ IInv /\ OneItemEach /\ SettledInv /\ [Next]_vars => SettledInv'
<1> SUFFICES ASSUME Alone, Plain, IInv, OneItemEach, SettledInv, [Next]_vars
             PROVE  SettledInv'
  OBVIOUS
<1>1. CASE UNCHANGED vars
  BY <1>1 DEF vars, SettledInv, Settled, Stale, Awaits, WritesAsSent, Done, Subtasks, Children
<1>2. ASSUME NEW r \in Req, Receive(r), ~Refuse(r) PROVE SettledInv'
  <2>1. WritesAsSent(r)' /\ task[r].stage = "idle" /\ live' = live /\ row' = row
    BY <1>2, BeginsAsSent DEF IInv
  <2>2. \A p, q \in live : ~Stale(p, q)
    BY <2>1, AllClosed DEF SettledInv
  <2>3. Settled'
    BY <2>1, <2>2 DEF Settled, Stale, Done, Subtasks, Children
  <2>4. \A q \in Req : q = r
    BY DEF Alone
  <2>. QED
    BY <2>1, <2>3, <2>4 DEF SettledInv
<1>3. ASSUME NEW r \in Req, Continue(r) PROVE SettledInv'
  <2>1. Settled'
    <3>1. CASE CommitUpdate(r)
      <4>1. task[r].op # "batch"
        BY <3>1 DEF CommitUpdate, SettledInv, WritesAsSent
      <4>. QED
        BY <3>1, <4>1, UpdateSettles, MoveSettles DEF CommitUpdate
    <3>. QED
      BY <1>3, <3>1, CreateSettles, DeleteSettles, RollupSettles DEF Continue
  <2>2. Proceed(r, "idle") \/ Proceed(r, "rollup")
    <3>1. TypeOK
      BY DEF IInv
    <3>. QED
      BY <1>3, <3>1, CommitProceeds, RollupReopens DEF Continue
  <2>3. task'[r].stage # "commit"
    <3>1. task[r] \in Task /\ task \in [Req -> Task]
      BY DEF IInv, TypeOK
    <3>2. ASSUME NEW l \in {"idle", "rollup"}, Proceed(r, l) PROVE task'[r].stage = l
      BY <3>1, <3>2 DEF Proceed, Task, Idle
    <3>. QED
      BY <2>2, <3>2
  <2>4. \A q \in Req : q = r
    BY DEF Alone
  <2>. QED
    BY <2>1, <2>3, <2>4 DEF SettledInv
<1>. QED
  BY <1>1, <1>2, <1>3 DEF Next, Plain, Crash, Refuse

(* An epic that closes finds its stories done, and theirs with them.        *)
Covers(e) ==
  Closes(e) /\ row[e].type = "epic" =>
    \A i \in Stories(e)' : Done(i)' /\ \A s \in Subtasks(i)' : Done(s)'

LEMMA CommitCovers ==
  ASSUME Alone, Plain, IInv, IInv', SettledInv, NEW r \in Req, CommitUpdate(r), NEW e \in Item
  PROVE  Covers(e)
<1> DEFINE t == task[r]
<1> SUFFICES ASSUME Closes(e), row[e].type = "epic", NEW i \in Stories(e)'
             PROVE  Done(i)' /\ \A s \in Subtasks(i)' : Done(s)'
  BY DEF Covers
<1>1. Fits(t) /\ WritesAsSent(r) /\ t.stage = "commit"
  BY PendingFits DEF IInv, CommitUpdate, SettledInv
<1>2. live' = live /\ row' = Applied(t) /\ live \subseteq Item
  BY DEF CommitUpdate, Closes, Done, IInv, TypeOK
<1>3. e \in t.items /\ t.op = "update"
  <2>1. e \in t.items
    BY <1>2 DEF Applied, Closes, Done
  <2>2. t.op # "move"
    <3>1. ASSUME t.op = "move" PROVE FALSE
      <4>1. t.writes[e].status # "done"
        BY <1>1, <2>1, <3>1 DEF WritesAsSent
      <4>. QED
        BY <1>2, <2>1, <4>1 DEF Applied, Stored, Over, Closes, Done
    <3>. QED
      BY <3>1
  <2>. QED
    BY <1>1, <2>1, <2>2 DEF CommitUpdate, WritesAsSent
<1>4. t.items = {e}
  BY <1>1, <1>3 DEF Fits, FitsLinks
<1>5. row'[e].type = "epic" /\ \A j \in live \ {e} : row'[j] = row[j]
  <2>1. row'[e] = Stored(t.writes[e], row[e]) /\ t.writes[e].type = Keep
    BY <1>1, <1>2, <1>3 DEF Applied, WritesAsSent
  <2>. QED
    BY <1>2, <1>4, <2>1 DEF Applied, Stored, Over
<1>6. i \in live /\ row'[i].type \in EpicChild /\ i # e
  BY <1>2, <1>5 DEF Stories, EpicChild
<1>7. Done(i)'
  <2>1. i \in Gating(e)'
    BY <1>5 DEF Gating
  <2>. QED
    BY <1>5, <2>1, CommitGate DEF GateStep
<1>8. ASSUME NEW s \in Subtasks(i)' PROVE Done(s)'
  <2>1. s \in live /\ s # e /\ row'[s].type = "subtask" /\ row'[s].parent = i
    BY <1>2, <1>5, <1>8 DEF Subtasks, Children
  <2>2. row'[s] = row[s] /\ row'[i] = row[i]
    BY <1>5, <1>6, <2>1
  <2>3. ~Stale(i, s)
    BY <1>1, <1>6, <2>1, AllClosed DEF SettledInv
  <2>. QED
    BY <1>6, <1>7, <2>1, <2>2, <2>3 DEF Stale, Subtasks, Children, Done
<1>. QED
  BY <1>7, <1>8

(* "Checking direct children is sufficient to cover all descendants": when  *)
(* requests come one at a time and none is cut off, and they change items   *)
(* one by one and keep their types, an epic closes only over done stories   *)
(* with done subtasks.                                                      *)
THEOREM ClosingReachesTheSubtasks == Alone /\ Plain => (Spec => ClosingCoversSubtasks)
<1> SUFFICES ASSUME Alone, Plain PROVE Spec => ClosingCoversSubtasks
  OBVIOUS
<1> DEFINE Step == \A e \in Item : Covers(e)
<1>1. Init => OneItemEach /\ SettledInv
  BY DEF Init, OneItemEach, OneItem, Idle, SettledInv, Settled
<1>2. IInv /\ OneItemEach /\ SettledInv /\ [Next]_vars => (OneItemEach /\ SettledInv)'
  BY OneItemKept, SettledKept DEF IInv
<1>3. IInv /\ IInv' /\ SettledInv /\ [Next]_vars => [Step]_vars
  <2> SUFFICES ASSUME IInv, IInv', SettledInv, [Next]_vars, NEW e \in Item PROVE Covers(e)
    OBVIOUS
  <2>1. CASE \E r \in Req : CommitUpdate(r)
    BY <2>1, CommitCovers
  <2>2. CASE \A r \in Req : ~CommitUpdate(r)
    BY <2>2, OthersOpen DEF Covers
  <2>. QED
    BY <2>1, <2>2
<1>4. [][Step]_vars => ClosingCoversSubtasks
  <2>1. [Step]_vars => [\A e \in Item : Closes(e) /\ row[e].type = "epic" =>
          \A i \in Stories(e)' : Done(i)' /\ \A s \in Subtasks(i)' : Done(s)']_vars
    BY DEF Covers
  <2>. QED
    BY <2>1, PTL DEF ClosingCoversSubtasks
<1>. QED
  BY <1>1, <1>2, <1>3, <1>4, Invariant, PTL DEF Spec
=============================================================================
