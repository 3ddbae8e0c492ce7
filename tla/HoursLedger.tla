----------------------------- MODULE HoursLedger -----------------------------
(***************************************************************************)
(* Hours: the time entries logged on work items, the columns of the items  *)
(* that sum them up, and the columns of the epics that sum those up.       *)
(*                                                                         *)
(* A request loads its item, changes an entry and takes the SUM in a first *)
(* transaction, and in a second one recomputes the epics above.  The       *)
(* transactions are READ COMMITTED: a SUM sees what others have committed  *)
(* and the request's own change, and an UPDATE writes the columns that     *)
(* differ from what was loaded.                                            *)
(*                                                                         *)
(* Types are constant; statuses, and who may log what, only decide whether *)
(* a request is refused.                                                   *)
(***************************************************************************)
EXTENDS Functions

CONSTANTS
  Epic,        \* items by type: epics,
  Story,       \* stories, tasks, bugs and change orders,
  Subtask,     \* and subtasks; bound: rows ever created
  Entry,       \* ids of time_entries rows; bound: rows ever logged
  Req,         \* requests that may be in flight at once
  NoItem,      \* NULL in epic_id and parent_id
  Keep,        \* a column that an UPDATE leaves alone
  Hours,       \* the hours that clients log
  Estimate,    \* the estimates that clients send
  Worked,      \* the items that clients log on and estimate
  Scripts,     \* which of "dedupe" and "repair" are ever run
  Crashes      \* may a server process die in the middle of a request?

Item == Epic \cup Story \cup Subtask

ASSUME LedgerAssumption ==
  /\ Epic \cap Story = {} /\ Epic \cap Subtask = {} /\ Story \cap Subtask = {}
  /\ NoItem \notin Item /\ Keep \notin Item \cup {NoItem} /\ Keep \notin Int
  /\ Hours \subseteq 1..24 /\ Estimate \subseteq Nat
  /\ Worked \subseteq Item
  /\ Scripts \subseteq {"dedupe", "repair"} /\ Crashes \in BOOLEAN

VARIABLES
  item,        \* the columns of each work item
  entry,       \* the columns of each time entry
  task         \* what each request is doing

vars == <<item, entry, task>>
-----------------------------------------------------------------------------
(* "up" is the epic of a story and the parent of a subtask. *)
Column == {"est", "logged", "remaining"}
ItemRow == [life : {"new", "live", "gone"}, up : Item \cup {NoItem},
            est : Int, logged : Int, remaining : Int]
NoRow == [life |-> "new", up |-> NoItem, est |-> 0, logged |-> 0, remaining |-> 0]

(* A row that is not there is on no item; 0 hours: its id was never used.  *)
EntryRow == [on : Item \cup {NoItem}, hours : Hours \cup {0}]
NoEntry == [on |-> NoItem, hours |-> 0]

live == {i \in Item : item[i].life = "live"}
EpicOf(p) == IF p = NoItem THEN NoItem ELSE item[p].up
Above(i) ==
  IF i \in Story THEN item[i].up
  ELSE IF i \in Subtask THEN EpicOf(item[i].up)
  ELSE NoItem
(* max(0, n). *)
Positive(n) == IF n > 0 THEN n ELSE 0
Changed(new, old) == IF new = old THEN Keep ELSE new
Over(new, old) == IF new = Keep THEN old ELSE new

(* coalesce(sum(...), 0): the SUM of no rows is NULL. *)
Total(f) == IF DOMAIN f # {} /\ SumFunction(f) \in Int THEN SumFunction(f) ELSE 0
(* The SUM of the entries on i. *)
Logged(es, i) == Total([e \in {x \in Entry : es[x].on = i} |-> es[e].hours])

(* update_epic_hours: the stories of e, and their subtasks. *)
Children(e) == {s \in Story \cap live : item[s].up = e}
Below(e) == Children(e) \cup {t \in Subtask \cap live : item[t].up \in Children(e)}
Totals(e) == [c \in Column |-> Total([i \in Below(e) |-> item[i][c]])]

(* A request: its handler, the items whose hours it works on as it loaded  *)
(* them, the entries it is about, the changes it has flushed, the columns  *)
(* its commit writes, its link before it moved, the totals its second      *)
(* commit writes.  "clear", which the code does not have, records that no  *)
(* other request was at work on its items meanwhile.                       *)
Handler == {"log", "edit", "delete", "estimate", "move", "create", "remove",
            "dedupe", "repair"}
Write == [up : Item \cup {NoItem, Keep}, est : Int \cup {Keep},
          logged : Int \cup {Keep}, remaining : Nat \cup {Keep}]
NoWrite == [up |-> Keep, est |-> Keep, logged |-> Keep, remaining |-> Keep]
TaskRow ==
        [stage : {"idle", "read", "commit", "rollup", "store"}, op : Handler,
         items : SUBSET Item, seen : [Item -> ItemRow], entries : SUBSET Entry,
         hours : Hours \cup {Keep}, change : [Entry -> EntryRow \cup {Keep}],
         write : [Item -> Write], was : Item \cup {NoItem}, epics : SUBSET Epic,
         totals : [Epic -> [Column -> Int \cup {Keep}]], clear : BOOLEAN]
Task == {t \in TaskRow : t.stage = "read" /\ t.op = "log" => t.hours # Keep}
NoTotals == [e \in Epic |-> [c \in Column |-> Keep]]
Idle == [stage |-> "idle", op |-> "log", items |-> {}, seen |-> [i \in Item |-> NoRow],
         entries |-> {}, hours |-> Keep, change |-> [e \in Entry |-> Keep],
         write |-> [i \in Item |-> NoWrite], was |-> NoItem, epics |-> {},
         totals |-> NoTotals, clear |-> TRUE]

TypeOK ==
  /\ item \in [Item -> ItemRow]
  /\ \A i \in Item \ Epic : item[i].remaining \in Nat
  /\ entry \in [Entry -> EntryRow]
  /\ task \in [Req -> Task]

Init ==
  /\ item = [i \in Item |-> NoRow]
  /\ entry = [e \in Entry |-> NoEntry]
  /\ task = [r \in Req |-> Idle]

Busy(r) == task[r].stage # "idle"

(* t begins; whoever is at work on its items is no longer alone there.     *)
Begin(r, t) ==
  /\ ~Busy(r)
  /\ task' = [s \in Req |->
       IF s = r
         THEN [t EXCEPT !.clear = \A q \in Req : task[q].items \cap t.items = {}]
         ELSE [task[s] EXCEPT !.clear = @ /\ task[s].items \cap t.items = {}]]
Step(r, t) == task' = [task EXCEPT ![r] = t]
End(r) == Step(r, Idle)

Load(is) == [i \in Item |-> IF i \in is THEN item[i] ELSE NoRow]
On(is, w(_)) == [i \in Item |-> IF i \in is THEN w(i) ELSE NoWrite]
Put(es, row(_)) == [e \in Entry |-> IF e \in es THEN row(e) ELSE Keep]
(* The entries as a transaction sees them after the flush of its change.   *)
Flushed(change) == [e \in Entry |-> Over(change[e], entry[e])]
(* A row flushed and not committed is locked. *)
Locked(e) == \E r \in Req : task[r].change[e] # Keep
Removed(e) == [entry[e] EXCEPT !.on = NoItem]
-----------------------------------------------------------------------------
(* log_hours, edit_my_timesheet_entry, delete_my_timesheet_entry: load and *)
(* check; flush the change of the entry and take the SUM; commit.          *)
LogHours(r, i, e, h) ==
  /\ i \in Worked \cap live
  /\ entry[e] = NoEntry /\ \A s \in Req : e \notin task[s].entries
  /\ Begin(r, [Idle EXCEPT !.stage = "read", !.op = "log", !.entries = {e},
               !.hours = h, !.items = {i}, !.seen = Load({i})])
  /\ UNCHANGED <<item, entry>>

EditEntry(r, e, h) ==
  /\ entry[e].on # NoItem
  /\ Begin(r, [Idle EXCEPT !.stage = "read", !.op = "edit", !.entries = {e},
               !.hours = Changed(h, entry[e].hours), !.items = {entry[e].on},
               !.seen = Load({entry[e].on})])
  /\ UNCHANGED <<item, entry>>

DeleteEntry(r, e) ==
  /\ entry[e].on # NoItem
  /\ Begin(r, [Idle EXCEPT !.stage = "read", !.op = "delete", !.entries = {e},
               !.items = {entry[e].on},
               !.seen = Load({entry[e].on})])
  /\ UNCHANGED <<item, entry>>

(* The derived columns of a loaded row, given its SUM. *)
Derived(row, sum) ==
  [NoWrite EXCEPT !.logged = Changed(sum, row.logged),
                  !.remaining = Changed(Positive(row.est - sum), row.remaining)]
(* Faulty: the sum is taken before the change is flushed. *)
RecomputeUnflushed(r, is, seen, change) ==
  Step(r, [task[r] EXCEPT !.stage = "commit", !.items = is, !.seen = seen,
           !.change = change,
           !.write = On(is, LAMBDA i : Derived(seen[i], Logged(entry, i)))])
(* Faulty: the hours are added to the column. *)
RecomputeAdds(r, is, seen, change) ==
  LET Before(e) == IF entry[e].on = NoItem THEN 0 ELSE entry[e].hours
      After(e) == IF change[e] = Keep THEN Before(e)
                  ELSE IF change[e].on = NoItem THEN 0 ELSE change[e].hours
      Added(i) == Total([e \in Entry |-> After(e) - Before(e)])
  IN  Step(r, [task[r] EXCEPT !.stage = "commit", !.items = is, !.seen = seen,
               !.change = change,
               !.write = On(is, LAMBDA i : Derived(seen[i], seen[i].logged + Added(i)))])
Recompute(r, is, seen, change) ==
  Step(r, [task[r] EXCEPT !.stage = "commit", !.items = is, !.seen = seen,
           !.change = change,
           !.write = On(is, LAMBDA i : Derived(seen[i], Logged(Flushed(change), i)))])

(* The foreign key refuses an entry on an item that is gone. *)
InsertEntry(r) ==
  LET t == task[r] IN
  /\ t.stage = "read" /\ t.op = "log"
  /\ \E i \in t.items :
       IF i \in live
         THEN Recompute(r, t.items, t.seen,
                        Put(t.entries, LAMBDA e : [on |-> i, hours |-> t.hours]))
         ELSE End(r)
  /\ UNCHANGED <<item, entry>>

(* The item is loaded after the flush; an UPDATE of a row that is gone     *)
(* fails; a body with the hours it has changes no entry.                   *)
UpdateEntry(r) ==
  LET t == task[r] IN
  /\ t.stage = "read" /\ t.op = "edit"
  /\ \E i \in t.items, e \in t.entries :
       \/ /\ t.hours # Keep /\ entry[e].on = i /\ ~Locked(e)
          /\ Recompute(r, t.items, Load(t.items),
                       Put({e}, LAMBDA x : [on |-> i, hours |-> t.hours]))
       \/ /\ t.hours = Keep /\ i \in live
          /\ Recompute(r, t.items, Load(t.items), Idle.change)
       \/ /\ IF t.hours = Keep THEN i \notin live ELSE entry[e].on = NoItem
          /\ End(r)
  /\ UNCHANGED <<item, entry>>

(* A DELETE of a row that is gone does nothing, and the sum is taken.      *)
DropEntry(r) ==
  LET t == task[r]
      present == {e \in t.entries : entry[e].on # NoItem} IN
  /\ t.stage = "read" /\ t.op = "delete"
  /\ \A e \in present : ~Locked(e)
  /\ Recompute(r, t.items, t.seen, Put(present, Removed))
  /\ UNCHANGED <<item, entry>>
-----------------------------------------------------------------------------
(* update_work_item, of an estimate and of a link; create; delete.         *)
EstimateItem(r, i, h) ==
  /\ i \in Worked \cap live
  /\ Begin(r, [Idle EXCEPT !.stage = "commit", !.op = "estimate",
               !.items = {i}, !.seen = Load({i}),
               !.write[i] = [NoWrite EXCEPT !.est = Changed(h, item[i].est),
                    !.remaining = Changed(Positive(h - item[i].logged),
                                          item[i].remaining)]])
  /\ UNCHANGED <<item, entry>>

MayHang(i, u) ==
  u # NoItem => u \in live /\ u \in (IF i \in Story THEN Epic ELSE Story)
MoveItem(r, i, u) ==
  /\ i \in (Story \cup Subtask) \cap live
  /\ MayHang(i, u)
  /\ Begin(r, [Idle EXCEPT !.stage = "commit", !.op = "move",
               !.items = {i}, !.seen = Load({i}), !.was = item[i].up,
               !.write[i].up = Changed(u, item[i].up)])
  /\ UNCHANGED <<item, entry>>

CreateItem(r, i, u, h) ==
  /\ item[i].life = "new"
  /\ IF i \in Epic THEN u = NoItem /\ (i \notin Worked => h = 0) ELSE MayHang(i, u)
  /\ Begin(r, [Idle EXCEPT !.stage = "rollup", !.op = "create", !.items = {i}])
  /\ item' = [item EXCEPT ![i] = [life |-> "live", up |-> u,
                                  est |-> h, logged |-> 0, remaining |-> h]]
  /\ UNCHANGED entry

RemoveItem(r, i) ==
  /\ i \in live
  /\ Begin(r, [Idle EXCEPT !.stage = "read", !.op = "remove", !.items = {i},
               !.was = item[i].up])
  /\ UNCHANGED <<item, entry>>

(* It waits for entries flushed on the item; the entries go with it, and   *)
(* the links of what was below.                                            *)
CommitRemove(r) ==
  LET t == task[r] IN
  /\ t.stage = "read" /\ t.op = "remove"
  /\ \A s \in Req, e \in Entry : task[s].change[e] # Keep =>
       {entry[e].on, task[s].change[e].on} \cap t.items = {}
  /\ item' = [j \in Item |->
       IF j \in t.items THEN [NoRow EXCEPT !.life = "gone"]
       ELSE IF item[j].up \in t.items THEN [item[j] EXCEPT !.up = NoItem]
       ELSE item[j]]
  /\ entry' = [e \in Entry |-> IF entry[e].on \in t.items THEN Removed(e) ELSE entry[e]]
  /\ Step(r, [t EXCEPT !.stage = "rollup"])
-----------------------------------------------------------------------------
(* dedupe_time_entries.py: in a set of like entries all but one are doomed. *)
Dedupe(r, doomed) ==
  LET is == {entry[e].on : e \in doomed} IN
  /\ "dedupe" \in Scripts
  /\ doomed # {}
  /\ \A e \in doomed : entry[e].on # NoItem /\ \E k \in Entry \ doomed : entry[k] = entry[e]
  /\ Begin(r, [Idle EXCEPT !.stage = "read", !.op = "dedupe", !.entries = doomed,
               !.items = is])
  /\ UNCHANGED <<item, entry>>
DeleteDoomed(r) ==
  LET t == task[r]
      present == {e \in t.entries : entry[e].on # NoItem} IN
  /\ t.stage = "read" /\ t.op = "dedupe"
  /\ \A e \in present : ~Locked(e)
  /\ Recompute(r, t.items \cap live, Load(t.items \cap live), Put(present, Removed))
  /\ UNCHANGED <<item, entry>>

(* repair_hours_discrepancies: every item of the project, epics too, and   *)
(* of those the ones whose sum is wrong.                                   *)
RepairHours(r) ==
  /\ "repair" \in Scripts
  /\ Begin(r, [Idle EXCEPT !.stage = "read", !.op = "repair", !.items = live,
               !.seen = Load(live)])
  /\ UNCHANGED <<item, entry>>
CompareHours(r) ==
  LET t == task[r]
      wrong == {i \in t.items : t.seen[i].logged # Logged(entry, i)} IN
  /\ t.stage = "read" /\ t.op = "repair"
  /\ IF wrong = {} THEN End(r) ELSE Recompute(r, wrong, t.seen, t.change)
  /\ UNCHANGED <<item, entry>>
-----------------------------------------------------------------------------
(* The first commit: it fails, and with it the request, if a row or the    *)
(* target of a link is gone.                                               *)
CanCommit(t) ==
  \A i \in t.items : i \in live /\ t.write[i].up \in live \cup {NoItem, Keep}
Written(i, w) ==
  [item[i] EXCEPT !.up = Over(w.up, @), !.est = Over(w.est, @),
                  !.logged = Over(w.logged, @), !.remaining = Over(w.remaining, @)]
Commit(r) ==
  LET t == task[r] IN
  /\ t.stage = "commit"
  /\ IF CanCommit(t)
       THEN /\ item' = [i \in Item |-> IF i \in t.items THEN Written(i, t.write[i])
                                       ELSE item[i]]
            /\ entry' = Flushed(t.change)
            /\ IF t.op \in {"dedupe", "repair"} THEN End(r)
               ELSE Step(r, [Idle EXCEPT !.stage = "rollup", !.op = t.op,
                             !.items = t.items, !.was = t.was, !.clear = t.clear])
       ELSE UNCHANGED <<item, entry>> /\ End(r)

(* The epics whose hours the request recomputes, read after its commit.    *)
(* Faulty: the epic that an item has left is forgotten. *)
RefreshedOnlyNew(t, i) == {Above(i)}
Refreshed(t, i) ==
  LET left == IF i \in Story THEN t.was ELSE EpicOf(t.was) IN
  CASE t.op = "move" /\ i \in Story -> {Above(i), left}
    [] t.op = "move" /\ i \in Subtask -> IF item[i].up = t.was THEN {} ELSE {Above(i), left}
    [] t.op = "remove" -> {left}
    [] OTHER -> {Above(i)}
(* The totals that differ from the epics just loaded. *)
Pending(es) ==
  [e \in Epic |-> IF e \in es THEN [c \in Column |-> Changed(Totals(e)[c], item[e][c])]
                  ELSE NoTotals[e]]
Rollup(r) ==
  LET t == task[r] IN
  /\ t.stage = "rollup"
  /\ \E i \in t.items :
       LET epics == IF t.op = "remove" \/ i \in live THEN Refreshed(t, i) \cap Epic \cap live
                    ELSE {}
       IN  IF epics = {} THEN End(r)
           ELSE Step(r, [t EXCEPT !.stage = "store", !.epics = epics,
                         !.totals = Pending(epics)])
  /\ UNCHANGED <<item, entry>>

StoreEpics(r) ==
  LET t == task[r] IN
  /\ t.stage = "store"
  /\ item' = [i \in Item |->
       IF t.epics \subseteq live /\ i \in t.epics
         THEN [item[i] EXCEPT !.est = Over(t.totals[i].est, @),
                              !.logged = Over(t.totals[i].logged, @),
                              !.remaining = Over(t.totals[i].remaining, @)]
         ELSE item[i]]
  /\ End(r)
  /\ UNCHANGED entry

Crash(r) == Crashes /\ Busy(r) /\ End(r) /\ UNCHANGED <<item, entry>>

(* A gate refuses, or there is nothing to do. *)
Refuse(r) == ~Busy(r) /\ UNCHANGED vars
-----------------------------------------------------------------------------
Receive(r) ==
  \/ \E i \in Item, e \in Entry, h \in Hours : LogHours(r, i, e, h)
  \/ \E e \in Entry, h \in Hours : EditEntry(r, e, h)
  \/ \E e \in Entry : DeleteEntry(r, e)
  \/ \E i \in Item, h \in Estimate : EstimateItem(r, i, h)
  \/ \E i \in Item, u \in Item \cup {NoItem} : MoveItem(r, i, u)
  \/ \E i \in Item, u \in Item \cup {NoItem}, h \in Estimate \cup {0} : CreateItem(r, i, u, h)
  \/ \E i \in Item : RemoveItem(r, i)
  \/ \E doomed \in SUBSET Entry : Dedupe(r, doomed)
  \/ RepairHours(r) \/ Refuse(r)

Continue(r) ==
  \/ InsertEntry(r) \/ UpdateEntry(r) \/ DropEntry(r)
  \/ DeleteDoomed(r) \/ CompareHours(r)
  \/ Commit(r) \/ CommitRemove(r)
  \/ Rollup(r) \/ StoreEpics(r)

Next == \E r \in Req : Receive(r) \/ Continue(r) \/ Crash(r)

Spec == Init /\ [][Next]_vars
-----------------------------------------------------------------------------
(* log_hours: "logged_hours is always exactly the sum of its TimeEntry     *)
(* rows", on every item but epics, whose columns are totals.               *)
LoggedIsSum == \A i \in live \ Epic : item[i].logged = Logged(entry, i)

(* What a request leaves on the items it has recomputed is exact, whatever *)
(* was there before and whatever goes on elsewhere, unless another request *)
(* was at work on the same item: the columns heal.                         *)
Exact(i) == item[i].logged = Logged(entry, i)
              /\ item[i].remaining = Positive(item[i].est - item[i].logged)
Recomputes == {"log", "edit", "delete", "dedupe", "repair"}
RecomputeHeals ==
  [][\A r \in Req :
       Commit(r) /\ CanCommit(task[r]) /\ task[r].clear /\ task[r].op \in Recomputes =>
         \A i \in task[r].items \ Epic : Exact(i)']_vars

(* update_epic_hours, "from BOTH levels below": when nothing is in flight  *)
(* an epic's columns are the totals of what is below it.                   *)
Quiet == \A r \in Req : ~Busy(r)
EpicAddsUp ==
  Quiet => \A e \in Epic \cap live, c \in Column :
             item[e][c] = Total([i \in {x \in live : Above(x) = e} |-> item[i][c]])
-----------------------------------------------------------------------------
(* The inductive invariant.                                                *)

EntriesOnLive == \A e \in Entry : entry[e].on \in live \cup {NoItem}

IdleIsBare == \A r \in Req : ~Busy(r) =>
  task[r].items = {} /\ task[r].entries = {} /\ \A e \in Entry : task[r].change[e] = Keep

(* A flushed change is one of its request's entries, on its items before   *)
(* and after, and nobody else's; only a new row is put on an item.         *)
ChangesHeld == \A r \in Req, e \in Entry :
  LET t == task[r] IN
  t.change[e] # Keep =>
    /\ t.stage = "commit" /\ t.op \in Recomputes /\ e \in t.entries
    /\ {entry[e].on, t.change[e].on} \subseteq t.items \cup {NoItem}
    /\ t.op = "log" \/ t.change[e].on \in {entry[e].on, NoItem}
    /\ \A s \in Req \ {r} : task[s].change[e] = Keep

LoggedIsKept == \A r \in Req, i \in Item :
  task[r].stage = "commit" /\ task[r].op \notin Recomputes => task[r].write[i].logged = Keep

(* The id of a row about to be inserted is nobody else's; other entries    *)
(* are still on their request's items, or gone.                            *)
OwnEntries == \A r \in Req : \A e \in task[r].entries :
  IF task[r].op = "log"
    THEN entry[e].on = NoItem /\ \A s \in Req \ {r} : e \notin task[s].entries
    ELSE task[r].op # "repair" /\ entry[e].on \in task[r].items \cup {NoItem}

ClearIsAlone == \A r \in Req, s \in Req :
  r # s /\ task[r].clear => task[r].items \cap task[s].items = {}

Fresh(row, i) ==
  row.est = item[i].est /\ row.logged = item[i].logged /\ row.remaining = item[i].remaining
(* What is about to be written makes i exact. *)
Settles(w, change, i) ==
  /\ w.est = Keep
  /\ Over(w.logged, item[i].logged) = Logged(Flushed(change), i)
  /\ Over(w.remaining, item[i].remaining) =
       Positive(item[i].est - Over(w.logged, item[i].logged))
PendingIsExact == \A r \in Req :
  LET t == task[r] IN
  t.clear => \A i \in (t.items \cap live) \ Epic :
    /\ t.stage = "read" /\ t.op \in {"log", "delete", "repair"} => Fresh(t.seen[i], i)
    /\ t.stage = "commit" /\ t.op \in Recomputes => Settles(t.write[i], t.change, i)

IInv ==
  /\ TypeOK
  /\ EntriesOnLive
  /\ IdleIsBare
  /\ ChangesHeld
  /\ LoggedIsKept
  /\ OwnEntries
  /\ ClearIsAlone
  /\ PendingIsExact
=============================================================================
