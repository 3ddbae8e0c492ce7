---------------------------- MODULE WorkItemTree ----------------------------
(***************************************************************************)
(* The tree of work items: epics, the stories and tasks below them, and    *)
(* the subtasks and test cases below those; and who may be "done" when.    *)
(*                                                                         *)
(* A handler of routers/workitems.py runs in three steps, between which    *)
(* other requests run: it reads and checks (update_work_item's gates and   *)
(* validate_hierarchy), it commits, and in a second transaction it refreshes *)
(* the statuses above.  Sessions do not autoflush, and an UPDATE writes    *)
(* the columns whose value the session changed, so a request in flight is  *)
(* the columns it will write.                                              *)
(*                                                                         *)
(* One project; "task" stands for task, bug and change_order, which every  *)
(* rule treats alike.  Hours are left out, except as a reason to refresh.  *)
(***************************************************************************)
EXTENDS FiniteSets

CONSTANTS
  Item,        \* ids of work_items rows; bound: rows ever created
  Req,         \* requests that may be in flight at once
  NoItem,      \* NULL in parent_id and epic_id
  Keep,        \* a field that a request does not send, or does not change
  OpenStatus,  \* the statuses other than done that clients use
  Change,      \* the bodies of update_work_item that clients send
  Batch,       \* do clients use batch_update_status?
  Crashes      \* may a server process die in the middle of a request?

EpicChild == {"user_story", "task"}
Kind == EpicChild \cup {"epic", "subtask", "test_case"}
Status == OpenStatus \cup {"done"}
Link == Item \cup {NoItem}

(* update_data: the fields of a body, Keep where it has none. *)
Body == [type : Kind \cup {Keep}, status : Status \cup {Keep},
         parent : Link \cup {Keep}, epic : Link \cup {Keep}, hours : BOOLEAN]

ASSUME TreeAssumption ==
  /\ NoItem \notin Item
  /\ Keep \notin Link /\ Keep \notin Kind /\ Keep \notin Status
  /\ Keep \notin BOOLEAN
  /\ "todo" \in OpenStatus
  /\ "done" \notin OpenStatus
  /\ Change \subseteq Body
  /\ Batch \in BOOLEAN /\ Crashes \in BOOLEAN

VARIABLES
  live,        \* the ids in the table
  issued,      \* the ids that were ever in it
  row,         \* the columns of each
  task         \* what each request is doing

dbVars == <<live, issued, row>>
vars == <<live, issued, row, task>>
-----------------------------------------------------------------------------
Row == [type : Kind, status : Status, parent : Link, epic : Link,
        completed : BOOLEAN]
Blank == [type |-> "task", status |-> "todo", parent |-> NoItem,
          epic |-> NoItem, completed |-> FALSE]

(* The columns an UPDATE sets. *)
Write == [type : Kind \cup {Keep}, status : Status \cup {Keep},
          parent : Link \cup {Keep}, epic : Link \cup {Keep},
          completed : BOOLEAN \cup {Keep}]
NoWrite == [type |-> Keep, status |-> Keep, parent |-> Keep, epic |-> Keep,
            completed |-> Keep]
Nothing == [i \in Item |-> NoWrite]

Over(new, old) == IF new = Keep THEN old ELSE new
Changed(new, old) == IF new = old THEN Keep ELSE new
Stored(w, o) ==
  [type |-> Over(w.type, o.type), status |-> Over(w.status, o.status),
   parent |-> Over(w.parent, o.parent), epic |-> Over(w.epic, o.epic),
   completed |-> Over(w.completed, o.completed)]

(* A request: its handler, the rows and columns it is about to write, and  *)
(* what it keeps for its second transaction: the fields it was sent, the   *)
(* former parent and the epics to refresh.                                 *)
Handler == {"update", "move", "create", "batch", "delete"}
Field == {"type", "status", "parent", "epic", "hours"}
Task == [stage : {"idle", "commit", "rollup"}, op : Handler,
         items : SUBSET Item, writes : [Item -> Write], sent : SUBSET Field,
         parent : Link, epics : SUBSET Item]
Idle == [stage |-> "idle", op |-> "update", items |-> {}, writes |-> Nothing,
         sent |-> {}, parent |-> NoItem, epics |-> {}]

TypeOK ==
  /\ live \subseteq issued /\ issued \subseteq Item
  /\ row \in [Item -> Row]
  /\ task \in [Req -> Task]
  /\ \A r \in Req : task[r].items \subseteq issued

Init ==
  /\ live = {} /\ issued = {}
  /\ row = [i \in Item |-> Blank]
  /\ task = [r \in Req |-> Idle]

Done(i) == row[i].status = "done"
Children(p) == {i \in live : row[i].parent = p}
Subtasks(p) == {i \in Children(p) : row[i].type = "subtask"}
TestCases(p) == {i \in Children(p) : row[i].type = "test_case"}
Stories(e) == {i \in live : row[i].epic = e /\ row[i].type \in EpicChild}

(* What must be done before i may be. *)
Gating(i) ==
  IF row[i].type = "epic" THEN Stories(i)
  ELSE IF row[i].type \in EpicChild THEN Subtasks(i) \cup TestCases(i)
  ELSE {}
(* Faulty: stories and test cases are forgotten. *)
MayCloseOverStories(i, together) == \A j \in Subtasks(i) \ together : Done(j)
MayClose(i, together) == \A j \in Gating(i) \ together : Done(j)

(* ALLOWED_PARENT_TYPES["parent_id"]. *)
ParentTypes(k) ==
  CASE k = "subtask" -> EpicChild
    [] k = "test_case" -> {"user_story"}
    [] OTHER -> {}

ValidEpic(i, k, e) ==
  e # NoItem => k \in EpicChild /\ e \in live \ {i} /\ row[e].type = "epic"
(* Faulty: without _check_no_children_if_becoming_child. *)
ValidParentOfParents(i, k, p) ==
  p # NoItem =>
    p \in live \ {i} /\ row[p].type \in ParentTypes(k) /\ row[p].parent = NoItem
ValidParent(i, k, p) ==
  p # NoItem =>
    /\ p \in live \ {i}
    /\ row[p].type \in ParentTypes(k)
    /\ row[p].parent = NoItem
    /\ i # NoItem => Children(i) = {}
validate_hierarchy(i, k, p, e) == ValidEpic(i, k, e) /\ ValidParent(i, k, p)

Begin(r, t) == task[r] = Idle /\ task' = [task EXCEPT ![r] = t]
-----------------------------------------------------------------------------
(* The keys of update_data. *)
Sent(c) == {f \in {"type"} : c.type # Keep} \cup {f \in {"status"} : c.status # Keep}
             \cup {f \in {"parent"} : c.parent # Keep}
             \cup {f \in {"epic"} : c.epic # Keep} \cup {f \in {"hours"} : c.hours}

(* completed_at: set by the first done, cleared when a done item reopens.  *)
Completion(i, s) ==
  IF s = "done" THEN Changed(TRUE, row[i].completed)
  ELSE IF Done(i) /\ s # Keep THEN Changed(FALSE, row[i].completed)
  ELSE Keep

update_work_item(r, i, c) ==
  /\ i \in live
  /\ Done(i) => Sent(c) \subseteq {"status"}
  /\ c.status = "done" => MayClose(i, {})
  /\ Sent(c) \cap {"type", "parent", "epic"} # {} =>
       validate_hierarchy(i, Over(c.type, row[i].type),
                          Over(c.parent, row[i].parent), Over(c.epic, row[i].epic))
  /\ Begin(r, [stage |-> "commit", op |-> "update", items |-> {i},
               writes |-> [Nothing EXCEPT ![i] =
                 [type |-> Changed(c.type, row[i].type),
                  status |-> Changed(c.status, row[i].status),
                  parent |-> Changed(c.parent, row[i].parent),
                  epic |-> Changed(c.epic, row[i].epic),
                  completed |-> Completion(i, c.status)]],
               sent |-> Sent(c), parent |-> row[i].parent,
               epics |-> {row[i].epic} \ {NoItem}])
  /\ UNCHANGED dbVars

(* To the backlog, or from it into a sprint; nothing above is refreshed.   *)
move_ticket_to_sprint(r, i, backlog) ==
  LET status == IF backlog THEN "backlog"
                ELSE IF row[i].status = "backlog" THEN "todo" ELSE row[i].status
  IN  /\ i \in live
      /\ backlog => "backlog" \in OpenStatus
      /\ ~Done(i)
      /\ Begin(r, [Idle EXCEPT !.stage = "commit", !.op = "move", !.items = {i},
                   !.writes[i].status = Changed(status, row[i].status)])
      /\ UNCHANGED dbVars

(* The sequence behind the ids never issues one twice. *)
create_work_item(r, i, k, s, p, e) ==
  /\ i \notin issued
  /\ issued' = issued \cup {i}
  /\ validate_hierarchy(NoItem, k, p, e)
  /\ Begin(r, [Idle EXCEPT !.stage = "commit", !.op = "create", !.items = {i},
               !.writes[i] = [type |-> k, status |-> s, parent |-> p, epic |-> e,
                              completed |-> s = "done"]])
  /\ UNCHANGED <<live, row>>

batch_update_status(r, ids, s) ==
  /\ Batch
  /\ ids # {}
  /\ s = "done" => \A i \in ids : MayClose(i, ids)
  /\ Begin(r, [Idle EXCEPT !.stage = "commit", !.op = "batch", !.items = ids,
               !.writes = [i \in Item |->
                  IF i \in ids
                    THEN [NoWrite EXCEPT
                            !.status = Changed(s, row[i].status),
                            !.completed = IF s = "done"
                                            THEN Changed(TRUE, row[i].completed)
                                            ELSE Keep]
                    ELSE NoWrite],
               !.epics = {row[i].epic : i \in ids} \ {NoItem}])
  /\ UNCHANGED dbVars

(* What is above the row is noted before it goes. *)
delete_work_item(r, i) ==
  LET above == row[i].type = "subtask" /\ row[i].parent # NoItem
  IN  /\ i \in live
      /\ Begin(r, [Idle EXCEPT !.stage = "commit", !.op = "delete", !.items = {i},
                   !.parent = IF above THEN row[i].parent ELSE NoItem,
                   !.epics = IF above THEN {} ELSE {row[i].epic} \ {NoItem}])
      /\ UNCHANGED dbVars

(* A gate, a check or an unknown id refuses: 400, 403, 404, 422.           *)
Refuse(r) == task[r] = Idle /\ UNCHANGED vars
-----------------------------------------------------------------------------
(* The next transaction of r, or the end of r. *)
Proceed(r, stage) ==
  task' = [task EXCEPT ![r] =
             IF stage = "idle" THEN Idle
             ELSE [@ EXCEPT !.stage = stage, !.writes = Nothing]]

(* What the flush of t leaves in the table. *)
Applied(t) ==
  [i \in Item |-> IF i \in t.items THEN Stored(t.writes[i], row[i]) ELSE row[i]]

(* Foreign keys: a link that is written refers to a row. *)
Refers(w) == {w.parent, w.epic} \subseteq live \cup {NoItem, Keep}

(* The UPDATEs fail, and with them the request, if a row or the target of  *)
(* a link is gone.                                                         *)
CommitUpdate(r) ==
  LET t == task[r] IN
  /\ t.stage = "commit"
  /\ t.op \in {"update", "move", "batch"}
  /\ IF t.items \subseteq live /\ \A i \in t.items : Refers(t.writes[i])
       THEN /\ row' = Applied(t)
            /\ Proceed(r, IF t.op = "move" THEN "idle" ELSE "rollup")
       ELSE row' = row /\ Proceed(r, "idle")
  /\ UNCHANGED <<live, issued>>

CommitCreate(r) ==
  LET t == task[r] IN
  /\ t.stage = "commit"
  /\ t.op = "create"
  /\ IF \A i \in t.items : Refers(t.writes[i])
       THEN /\ live' = live \cup t.items
            /\ row' = Applied(t)
            /\ Proceed(r, "rollup")
       ELSE UNCHANGED <<live, row>> /\ Proceed(r, "idle")
  /\ UNCHANGED issued

(* The ORM clears the links of what refers to the row, and deletes it.     *)
Unlink(i, gone) == IF i \in gone THEN NoItem ELSE i
CommitDelete(r) ==
  LET t == task[r] IN
  /\ t.stage = "commit"
  /\ t.op = "delete"
  /\ live' = live \ t.items
  /\ row' = [i \in Item |->
               IF i \in t.items THEN Blank
               ELSE [row[i] EXCEPT !.parent = Unlink(@, t.items),
                                   !.epic = Unlink(@, t.items)]]
  /\ Proceed(r, "rollup")
  /\ UNCHANGED issued
-----------------------------------------------------------------------------
(* update_parent_status_from_subtasks and update_epic_status_from_stories: *)
(* what is done above something open is reopened, parents first.           *)
(* Faulty: nobody looks at the parents. *)
StaleParentsMissed(ps) == {p \in ps \cap live : FALSE}
StaleParents(ps) ==
  {p \in ps \cap live : /\ row[p].type \in EpicChild /\ Done(p)
                        /\ \E s \in Subtasks(p) : ~Done(s)}
StaleEpics(es, reopened) ==
  {e \in es \cap live : /\ row[e].type = "epic" /\ Done(e)
                        /\ \E i \in Stories(e) : ~Done(i) \/ i \in reopened}

(* Faulty: the climb stops at the parents. *)
RefreshOneLevel(ps, es) ==
  LET reopened == StaleParents(ps) \cup StaleEpics(es, {})
  IN  row' = [i \in Item |->
                IF i \in reopened
                  THEN [row[i] EXCEPT !.status = "todo", !.completed = FALSE]
                  ELSE row[i]]
(* refresh_parent_and_epic for each parent, then the epics. *)
Refresh(ps, es) ==
  LET parents == StaleParents(ps)
      epics == StaleEpics(es \cup {row[p].epic : p \in ps \cap live}, parents)
  IN  row' = [i \in Item |->
                IF i \in parents \cup epics
                  THEN [row[i] EXCEPT !.status = "todo", !.completed = FALSE]
                  ELSE row[i]]

(* The item is read again after the commit; a request whose item is gone   *)
(* ends there.  A subtask looks up its parent's chain, old and new; any    *)
(* other item its epic.                                                    *)
RollupUpdate(r) ==
  LET t == task[r] IN
  /\ t.stage = "rollup"
  /\ t.op = "update"
  /\ \E i \in t.items :
       LET moved == "parent" \in t.sent /\ row[i].parent # t.parent IN
       IF i \notin live THEN row' = row
       ELSE IF row[i].type = "subtask"
         THEN IF moved \/ t.sent \cap {"status", "hours"} # {}
                THEN Refresh({row[i].parent} \cup {p \in {t.parent} : moved}, {})
                ELSE row' = row
       ELSE IF t.sent \cap {"status", "epic"} # {}
         THEN Refresh({}, {row[i].epic} \cup {e \in t.epics : "epic" \in t.sent})
         ELSE row' = row
  /\ Proceed(r, "idle")
  /\ UNCHANGED <<live, issued>>

RollupCreate(r) ==
  LET t == task[r] IN
  /\ t.stage = "rollup"
  /\ t.op = "create"
  /\ Refresh({row[i].parent : i \in {j \in t.items \cap live : row[j].type = "subtask"}},
             {})
  /\ Proceed(r, "idle")
  /\ UNCHANGED <<live, issued>>

RollupBatch(r) ==
  LET t == task[r] IN
  /\ t.stage = "rollup"
  /\ t.op = "batch"
  /\ Refresh({}, t.epics)
  /\ Proceed(r, "idle")
  /\ UNCHANGED <<live, issued>>

RollupDelete(r) ==
  LET t == task[r] IN
  /\ t.stage = "rollup"
  /\ t.op = "delete"
  /\ Refresh({t.parent}, t.epics)
  /\ Proceed(r, "idle")
  /\ UNCHANGED <<live, issued>>

Crash(r) ==
  /\ Crashes
  /\ task[r] # Idle
  /\ Proceed(r, "idle")
  /\ UNCHANGED dbVars
-----------------------------------------------------------------------------
Receive(r) ==
  \/ \E i \in live, c \in Change : update_work_item(r, i, c)
  \/ \E i \in live, backlog \in BOOLEAN : move_ticket_to_sprint(r, i, backlog)
  \/ \E i \in Item, k \in Kind, s \in Status, p, e \in Link :
       create_work_item(r, i, k, s, p, e)
  \/ \E ids \in SUBSET live, s \in Status : batch_update_status(r, ids, s)
  \/ \E i \in live : delete_work_item(r, i)
  \/ Refuse(r)

Continue(r) ==
  \/ CommitUpdate(r) \/ CommitCreate(r) \/ CommitDelete(r)
  \/ RollupUpdate(r) \/ RollupCreate(r) \/ RollupBatch(r) \/ RollupDelete(r)

Next == \E r \in Req : Receive(r) \/ Continue(r) \/ Crash(r)

Spec == Init /\ [][Next]_vars
-----------------------------------------------------------------------------
(* hierarchy.py, "depth-1 cap on parent_id": no parent has a parent, when  *)
(* requests come one at a time.                                            *)
DepthCap ==
  \A i \in live : row[i].parent # NoItem => row[row[i].parent].parent = NoItem

(* ALLOWED_PARENT_TYPES, from the child's side: only subtasks and test     *)
(* cases have a parent, only what sits under an epic has an epic, and      *)
(* changes of type respect it.                                             *)
LinksFitType ==
  \A i \in live :
    /\ row[i].parent # NoItem => row[i].type \in {"subtask", "test_case"}
    /\ row[i].epic # NoItem => row[i].type \in EpicChild

(* Whatever requests race a deletion, no link is left dangling.            *)
NoDangling ==
  \A i \in live : {row[i].parent, row[i].epic} \subseteq live \cup {NoItem}

(* "Done tickets are frozen": while an item is done, its type and links    *)
(* stay, unless what they refer to is deleted.                             *)
Survives(old, new) == new = old \/ (new = NoItem /\ old \notin live')
DoneIsFrozen ==
  [][\A i \in live \cap live' : Done(i) =>
       /\ row'[i].type = row[i].type
       /\ Survives(row[i].parent, row'[i].parent)
       /\ Survives(row[i].epic, row'[i].epic)]_vars

(* An item closes only when everything that gates it is done, batches      *)
(* that close parents and children together included, provided the request *)
(* does not change its type as well.                                       *)
Closes(i) == i \in live /\ ~Done(i) /\ Done(i)'
DoneGate ==
  [][\A i \in Item : Closes(i) /\ row'[i].type = row[i].type =>
       \A j \in Gating(i)' : Done(j)']_vars

Quiet == \A r \in Req : task[r] = Idle

(* completed_at is set exactly while the item is done. *)
CompletedMatchesStatus == \A i \in live : row[i].completed = Done(i)

(* A subtask that is open when its update ends has an open parent, and the *)
(* parent an open epic: reopening climbs two levels in one go.             *)
OpenAbove(i) ==
  /\ row[i].epic \in live /\ row[row[i].epic].type = "epic" => ~Done(row[i].epic)
FinishesUpdate(r) ==
  /\ task[r].stage = "rollup" /\ task[r].op = "update" /\ "status" \in task[r].sent
  /\ task'[r] = Idle
ReopeningClimbs ==
  [][\A r \in Req : FinishesUpdate(r) =>
       \A i \in task[r].items \cap live :
         ~Done(i) =>
           IF row[i].type = "subtask"
             THEN row[i].parent \in live /\ row[row[i].parent].type \in EpicChild =>
                    /\ ~Done(row[i].parent)'
                    /\ OpenAbove(row[i].parent)'
             ELSE row[i].type \in EpicChild => OpenAbove(i)']_vars

(* update_work_item: "checking direct children is sufficient to cover all  *)
(* descendants": an epic closes only over done stories and done subtasks.  *)
ClosingCoversSubtasks ==
  [][\A e \in Item : Closes(e) /\ row[e].type = "epic" =>
       \A i \in Stories(e)' : Done(i)' /\ \A s \in Subtasks(i)' : Done(s)']_vars
-----------------------------------------------------------------------------
(* The inductive invariant when requests come one at a time: what a gate   *)
(* found is still so when its request commits.                             *)
Alone == \A r, s \in Req : r = s

UnlinkedOutside ==
  \A i \in Item \ live : row[i].parent = NoItem /\ row[i].epic = NoItem

(* A row as r will leave it respects the types of links, ...               *)
FitsType(n) ==
  /\ n.parent # NoItem => n.type \in {"subtask", "test_case"}
  /\ n.epic # NoItem => n.type \in EpicChild
(* ... the cap on depth ...                                                *)
FitsDepth(i, n) ==
  n.parent # NoItem =>
    n.parent \in live \ {i} /\ row[n.parent].parent = NoItem /\ Children(i) = {}
(* ... and completed_at.                                                   *)
FitsStatus(n) == n.completed = (n.status = "done")

(* What gates an item that t closes is done when t has committed.          *)
ClosesLast(t) ==
  \A i \in t.items :
    t.writes[i].status = "done" => \A j \in Gating(i) : Applied(t)[j].status = "done"

KeepsLinks(w) == w.type = Keep /\ w.parent = Keep /\ w.epic = Keep
Pending(r) ==
  LET t == task[r] IN
  t.stage = "commit" =>
    /\ t.op \in {"update", "create"} =>
         \E i \in Item :
           /\ t.items = {i}
           /\ FitsType(Stored(t.writes[i], row[i]))
           /\ FitsDepth(i, Stored(t.writes[i], row[i]))
    /\ t.op = "update" => \A i \in t.items : Done(i) => KeepsLinks(t.writes[i])
    /\ t.op = "create" => t.items \cap live = {}
    /\ t.op \in {"move", "batch"} => \A i \in t.items : KeepsLinks(t.writes[i])
    /\ t.op # "delete" /\ ~Batch =>
         \A i \in t.items : FitsStatus(Stored(t.writes[i], row[i]))
    /\ t.op \in {"update", "move", "batch"} => ClosesLast(t)

IInv ==
  /\ TypeOK
  /\ UnlinkedOutside
  /\ NoDangling
  /\ DepthCap
  /\ LinksFitType
  /\ ~Batch => CompletedMatchesStatus
  /\ \A r \in Req : Pending(r)
=============================================================================
