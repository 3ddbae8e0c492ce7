---------------------------- MODULE TimesheetSync ----------------------------
(***************************************************************************)
(* Pushing time entries to QuickBooks.  Two kinds of process push: an      *)
(* administrator's run of run_workforce_sync (a click on Sync Now or the   *)
(* script) and a developer's submit_my_timesheet.  Both take one Postgres  *)
(* advisory lock, read the eligible rows, and POST and commit them one by  *)
(* one.  Meanwhile developers log, edit and delete rows, work items and    *)
(* projects are deleted, administrators tag and untag projects, and the    *)
(* dedupe script deletes rows; none of these takes the lock.               *)
(*                                                                         *)
(* An action is the code between two points where another request can      *)
(* run: a database statement or commit, or an answer from QuickBooks.      *)
(* `hours' stands for every field of a row that is sent to QuickBooks and  *)
(* that its owner may still change (hours, description, billable).         *)
(***************************************************************************)
EXTENDS Integers, Sequences, FiniteSets

CONSTANTS
  Entry,       \* ids of time_entries rows, in the order the queries sort them
  Item,        \* work items
  Project,
  Dev,         \* developers; also names the developer's submit request
  Run,         \* invocations of run_workforce_sync
  ItemOf,      \* the work item of each row
  ProjectOf,   \* the project of each work item
  DevOf,       \* the developer of each row
  Employee,    \* developers whose email QuickBooks lists as an employee
  MaxHours,    \* bound: hours of a row
  MaxWeek,     \* bound: calendar weeks that pass
  MaxActivity, \* bound: TimeActivities QuickBooks ends up with
  BatchCap,    \* batch_cap of run_workforce_sync
  Postgres,    \* FALSE on SQLite, which has no advisory lock
  Lossy,       \* may the answer to an applied POST be lost?
  Crashes      \* may a server process die in the middle of a push?

Proc == Run \cup Dev
Hours == 1 .. MaxHours
Activity == 1 .. MaxActivity

ASSUME SyncAssumption ==
  /\ Entry \subseteq Nat \ {0}
  /\ ItemOf \in [Entry -> Item]
  /\ ProjectOf \in [Item -> Project]
  /\ DevOf \in [Entry -> Dev]
  /\ Employee \subseteq Dev
  /\ Run \cap Dev = {}
  /\ MaxHours \in Nat /\ MaxWeek \in Nat /\ MaxActivity \in Nat
  /\ BatchCap \in Nat \ {0}
  /\ Postgres \in BOOLEAN /\ Lossy \in BOOLEAN /\ Crashes \in BOOLEAN

VARIABLES
  (* the time_entries table *)
  life,        \* is the row there?
  hours,
  weekOf,      \* the calendar week of logged_at
  submitted,   \* rows whose submitted_at is set
  qbId,        \* workforce_entry_id: an index of ledger, 0 for NULL
  (* the rest of the database, and the clock *)
  linked,      \* projects whose workforce_client_id is set
  lastSync,    \* the last_sync_* columns of workforce_integration
  holders,     \* holders of the advisory lock
  week,        \* the current calendar week
  (* QuickBooks *)
  ledger,      \* its TimeActivities, in the order they were created
  (* one push process each *)
  pc,
  window,      \* the week whose rows it pushes
  picked,      \* the rows its eligibility query returned
  queue,       \* those it has not dealt with yet
  missed,      \* those it counted as failed or skipped
  seen,        \* its session's copy of hours; 0 once a commit expired it
  tag,         \* its session's copy of each project's link
  ack,         \* the TimeActivity id it has yet to commit, or 0
  (* requests that edit or delete rows *)
  editing,     \* the rows each developer's request was granted
  doomed       \* the rows the dedupe script decided to delete

rowVars  == <<life, hours, weekOf, submitted, qbId>>
procVars == <<pc, window, picked, queue, missed, seen, tag, ack>>
sideVars == <<editing, doomed>>
vars == <<rowVars, linked, lastSync, holders, week, ledger, procVars, sideVars>>

Live == {e \in Entry : life[e] = "live"}
EntryProject(e) == ProjectOf[ItemOf[e]]

Critical == {"prepare", "query", "stamp", "push", "commit", "release"}
PC == {"idle", "refused", "queued"} \cup Critical
Expired == [e \in Entry |-> 0]
AllExpired == [q \in Project |-> "expired"]
SyncStatus == {"never", "ok", "partial", "no_eligible", "error"}

(* One type invariant for the whole state. *)
TypeOK ==
  /\ life \in [Entry -> {"unlogged", "live", "deleted"}]
  /\ hours \in [Entry -> Hours \cup {0}]
  /\ \A e \in Entry : life[e] = "live" => hours[e] \in Hours
  /\ weekOf \in [Entry -> 0 .. MaxWeek]
  /\ submitted \in SUBSET Entry
  /\ qbId \in [Entry -> Nat]
  /\ linked \in SUBSET Project
  /\ lastSync \in [status : SyncStatus, pushed : SUBSET Entry]
  /\ holders \in SUBSET Proc
  /\ week \in 0 .. MaxWeek
  /\ ledger \in Seq([entry : Entry, hours : Hours])
  /\ Len(ledger) <= MaxActivity
  /\ pc \in [Proc -> PC]
  /\ window \in [Proc -> 0 .. MaxWeek]
  /\ picked \in [Proc -> SUBSET Entry]
  /\ queue \in [Proc -> SUBSET Entry]
  /\ missed \in [Proc -> SUBSET Entry]
  /\ seen \in [Proc -> [Entry -> Hours \cup {0}]]
  /\ tag \in [Proc -> [Project -> {"expired", "linked", "unlinked"}]]
  /\ ack \in [Proc -> Nat]
  /\ editing \in [Dev -> SUBSET Entry]
  /\ doomed \in SUBSET Entry

Init ==
  /\ life = [e \in Entry |-> "unlogged"]
  /\ hours = [e \in Entry |-> 0]
  /\ weekOf = [e \in Entry |-> 0]
  /\ submitted = {}
  /\ qbId = [e \in Entry |-> 0]
  /\ linked \in SUBSET Project
  /\ lastSync = [status |-> "never", pushed |-> {}]
  /\ holders = {}
  /\ week = 0
  /\ ledger = <<>>
  /\ pc = [p \in Proc |-> "idle"]
  /\ window = [p \in Proc |-> 0]
  /\ picked = [p \in Proc |-> {}]
  /\ queue = [p \in Proc |-> {}]
  /\ missed = [p \in Proc |-> {}]
  /\ seen = [p \in Proc |-> Expired]
  /\ tag = [p \in Proc |-> AllExpired]
  /\ ack = [p \in Proc |-> 0]
  /\ editing = [d \in Dev |-> {}]
  /\ doomed = {}
-----------------------------------------------------------------------------
(* Rows come, change and go, without the lock. *)

(* log_hours inserts a draft dated in the current week. *)
Log(e, h) ==
  /\ life[e] = "unlogged"
  /\ life' = [life EXCEPT ![e] = "live"]
  /\ hours' = [hours EXCEPT ![e] = h]
  /\ weekOf' = [weekOf EXCEPT ![e] = week]
  /\ UNCHANGED <<submitted, qbId, linked, lastSync, holders, week, ledger,
                 procVars, sideVars>>

Editable(d) ==
  {e \in Entry : /\ life[e] = "live"
                 /\ DevOf[e] = d
                 /\ qbId[e] = 0
                 /\ e \notin submitted}

(* The gate shared by the PATCH and DELETE of one's own entry: a SELECT. *)
ResolveEditable(d, e) ==
  /\ editing[d] = {}
  /\ e \in Editable(d)
  /\ editing' = [editing EXCEPT ![d] = {e}]
  /\ UNCHANGED <<rowVars, linked, lastSync, holders, week, ledger, procVars, doomed>>

(* The rows a Billable checkbox stands for: a SELECT too. *)
ResolveBillable(d, q) ==
  /\ editing[d] = {}
  /\ q \in linked
  /\ editing' = [editing EXCEPT
       ![d] = {e \in Editable(d) : EntryProject(e) = q /\ weekOf[e] = week}]
  /\ UNCHANGED <<rowVars, linked, lastSync, holders, week, ledger, procVars, doomed>>

(* The UPDATE of the granted rows; the request fails if one has gone. *)
EditEntry(d, h) ==
  /\ editing[d] # {}
  /\ hours' = IF editing[d] \subseteq Live
                THEN [e \in Entry |-> IF e \in editing[d] THEN h ELSE hours[e]]
                ELSE hours
  /\ editing' = [editing EXCEPT ![d] = {}]
  /\ UNCHANGED <<life, weekOf, submitted, qbId, linked, lastSync, holders, week,
                 ledger, procVars, doomed>>

(* The DELETE of the granted row. *)
DeleteEntry(d) ==
  /\ \E e \in editing[d] :
       editing[d] = {e} /\ life' = [life EXCEPT ![e] = "deleted"]
  /\ editing' = [editing EXCEPT ![d] = {}]
  /\ UNCHANGED <<hours, weekOf, submitted, qbId, linked, lastSync, holders, week,
                 ledger, procVars, doomed>>

(* Deleting a work item or a project cascades to its rows. *)
Cascade(S) ==
  /\ \E e \in S : life[e] # "deleted"
  /\ life' = [e \in Entry |-> IF e \in S THEN "deleted" ELSE life[e]]
  /\ UNCHANGED <<hours, weekOf, submitted, qbId, lastSync, holders, week,
                 ledger, procVars, sideVars>>

DeleteWorkItem(i) ==
  /\ Cascade({e \in Entry : ItemOf[e] = i})
  /\ UNCHANGED linked

DeleteProject(q) ==
  /\ Cascade({e \in Entry : EntryProject(e) = q})
  /\ linked' = linked \ {q}

(* Rows of a burst (logged within a minute) that look like one click. *)
Twins(e, burst) ==
  {f \in burst : /\ ItemOf[f] = ItemOf[e]
                 /\ DevOf[f] = DevOf[e]
                 /\ hours[f] = hours[e]
                 /\ weekOf[f] = weekOf[e]}

Synced == {e \in Entry : qbId[e] # 0}

(* The synced row is kept, or else the earliest; submitted rows too. *)
Doomed(burst) ==
  {e \in burst \ (Synced \cup submitted) :
     \/ /\ Twins(e, burst) \cap Synced = {}
        /\ \E f \in Twins(e, burst) : f < e
     \/ \E f \in Twins(e, burst) : Twins(e, burst) \cap Synced = {f}}

(* The script reads every row, then deletes by id what it decided on. *)
DedupeScan(burst) ==
  /\ doomed = {}
  /\ Doomed(burst) # {}
  /\ doomed' = Doomed(burst)
  /\ UNCHANGED <<rowVars, linked, lastSync, holders, week, ledger, procVars, editing>>

DedupeDelete ==
  /\ doomed # {}
  /\ life' = [e \in Entry |-> IF e \in doomed THEN "deleted" ELSE life[e]]
  /\ doomed' = {}
  /\ UNCHANGED <<hours, weekOf, submitted, qbId, linked, lastSync, holders, week,
                 ledger, procVars, editing>>

(* link_project_to_client sets or clears the project's customer. *)
Tag(q) ==
  /\ q \notin linked
  /\ \E e \in Entry : EntryProject(e) = q /\ life[e] # "deleted"
  /\ linked' = linked \cup {q}
  /\ UNCHANGED <<rowVars, lastSync, holders, week, ledger, procVars, sideVars>>

Untag(q) ==
  /\ q \in linked
  /\ linked' = linked \ {q}
  /\ UNCHANGED <<rowVars, lastSync, holders, week, ledger, procVars, sideVars>>

NewWeek ==
  /\ week < MaxWeek
  /\ week' = week + 1
  /\ UNCHANGED <<rowVars, linked, lastSync, holders, ledger, procVars, sideVars>>
-----------------------------------------------------------------------------
(* Pushing. *)

Held == Postgres /\ holders # {}      \* what is_sync_in_progress sees
Goto(p, l) == pc' = [pc EXCEPT ![p] = l]

(* A click on Sync Now or on Submit peeks at the lock first.  The window   *)
(* of a submit is fixed here, that of a run when the run starts.           *)
Click(p) ==
  /\ pc[p] \in {"idle", "refused"}
  /\ ~Held
  /\ Goto(p, "queued")
  /\ window' = [window EXCEPT ![p] = week]
  /\ UNCHANGED <<rowVars, linked, lastSync, holders, week, ledger, picked,
                 queue, missed, seen, tag, ack, sideVars>>

(* A run answered already_running: no task is queued for it. *)
Refuse(p) ==
  /\ p \in Run
  /\ pc[p] = "idle"
  /\ Held
  /\ Goto(p, "refused")
  /\ UNCHANGED <<rowVars, linked, lastSync, holders, week, ledger, window,
                 picked, queue, missed, seen, tag, ack, sideVars>>

(* The script calls run_workforce_sync without peeking. *)
StartScript(p) ==
  /\ p \in Run
  /\ pc[p] = "idle"
  /\ Goto(p, "queued")
  /\ UNCHANGED <<rowVars, linked, lastSync, holders, week, ledger, window,
                 picked, queue, missed, seen, tag, ack, sideVars>>

(* pg_try_advisory_lock: taken, or the process gives up ("locked"). *)
TryLock(p) ==
  /\ pc[p] = "queued"
  /\ window' = [window EXCEPT ![p] = IF p \in Run THEN week ELSE @]
  /\ IF Held
       THEN Goto(p, "idle") /\ UNCHANGED holders
       ELSE Goto(p, "prepare") /\ holders' = holders \cup {p}
  /\ UNCHANGED <<rowVars, linked, lastSync, week, ledger, picked, queue,
                 missed, seen, tag, ack, sideVars>>

(* The last_sync_* columns are written by runs, not by submits. *)
Finalize(p, s) ==
  lastSync' = IF p \in Run
                THEN [status |-> s,
                      pushed |-> picked[p] \ (queue[p] \cup missed[p])]
                ELSE lastSync

(* The service item and the employee list come back from QuickBooks, and a *)
(* submit finds its developer among the employees; or the push ends here.  *)
Prepare(p) ==
  /\ pc[p] = "prepare"
  /\ p \in Dev => p \in Employee
  /\ Goto(p, "query")
  /\ UNCHANGED <<rowVars, linked, lastSync, holders, week, ledger, window,
                 picked, queue, missed, seen, tag, ack, sideVars>>

PrepareFails(p) ==
  /\ pc[p] = "prepare"
  /\ Goto(p, "release")
  /\ Finalize(p, "error")
  /\ UNCHANGED <<rowVars, linked, holders, week, ledger, window,
                 picked, queue, missed, seen, tag, ack, sideVars>>

(* An exception that nothing catches, and last_sync_* keeps its old value: *)
(* the token refresh of the service item's lookup fails, or Disconnect has *)
(* deleted the workforce_integration row the push works with.              *)
Abort(p) ==
  /\ pc[p] \in {"prepare", "query", "push"}
  /\ Goto(p, "release")
  /\ UNCHANGED <<rowVars, linked, lastSync, holders, week, ledger, window,
                 picked, queue, missed, seen, tag, ack, sideVars>>

(* Faulty: rows that have their Id are picked again. *)
EligibleTwice(p) ==
  {e \in Live : /\ EntryProject(e) \in linked
                /\ weekOf[e] = window[p]
                /\ p \in Dev => DevOf[e] = p}

Eligible(p) ==
  {e \in Live : /\ EntryProject(e) \in linked
                /\ qbId[e] = 0
                /\ weekOf[e] = window[p]
                /\ p \in Dev => DevOf[e] = p}

(* ORDER BY logged_at, id; only a run has a LIMIT. *)
Batch(p) ==
  IF p \in Run
    THEN {e \in Eligible(p) :
            Cardinality({f \in Eligible(p) : f < e}) < BatchCap}
    ELSE Eligible(p)

(* The eligibility query loads the rows and their projects. *)
Query(p) ==
  /\ pc[p] = "query"
  /\ Batch(p) # {}
  /\ picked' = [picked EXCEPT ![p] = Batch(p)]
  /\ queue' = [queue EXCEPT ![p] = Batch(p)]
  /\ seen' = [seen EXCEPT ![p] =
                [e \in Entry |-> IF e \in Batch(p) THEN hours[e] ELSE 0]]
  /\ tag' = [tag EXCEPT ![p] =
               [q \in Project |-> IF q \in {EntryProject(e) : e \in Batch(p)}
                                    THEN "linked" ELSE "expired"]]
  /\ Goto(p, IF p \in Run THEN "push" ELSE "stamp")
  /\ UNCHANGED <<rowVars, linked, lastSync, holders, week, ledger, window,
                 missed, ack, sideVars>>

QueryEmpty(p) ==
  /\ pc[p] = "query"
  /\ Batch(p) = {}
  /\ Goto(p, "release")
  /\ Finalize(p, "no_eligible")
  /\ UNCHANGED <<rowVars, linked, holders, week, ledger, window,
                 picked, queue, missed, seen, tag, ack, sideVars>>

(* A commit expires the session's copies. *)
Expire(p) ==
  /\ seen' = [seen EXCEPT ![p] = Expired]
  /\ tag' = [tag EXCEPT ![p] = AllExpired]

(* Faulty: the submit goes straight to its POSTs. *)
StampNothing(p) ==
  /\ pc[p] = "stamp"
  /\ Goto(p, "push")
  /\ UNCHANGED <<rowVars, linked, lastSync, holders, week, ledger, window,
                 picked, queue, missed, seen, tag, ack, sideVars>>

(* A submit stamps submitted_at on its drafts and commits before it POSTs; *)
(* the UPDATE fails, and the submit with it, if one of them has gone.      *)
Stamp(p) ==
  /\ pc[p] = "stamp"
  /\ LET drafts == queue[p] \ submitted IN
     IF drafts \subseteq Live
       THEN /\ submitted' = submitted \cup drafts
            /\ IF drafts = {} THEN UNCHANGED <<seen, tag>> ELSE Expire(p)
            /\ Goto(p, "push")
       ELSE /\ Goto(p, "release")
            /\ UNCHANGED <<submitted, seen, tag>>
  /\ UNCHANGED <<life, hours, weekOf, qbId, linked, lastSync, holders, week,
                 ledger, window, picked, queue, missed, ack, sideVars>>

IsFirst(e, S) == e \in S /\ \A f \in S : e <= f

HoursRead(p, e) == IF seen[p][e] = 0 THEN hours[e] ELSE seen[p][e]

TagRead(p, e) ==
  LET q == EntryProject(e) IN
  IF tag[p][q] # "expired" THEN tag[p][q]
  ELSE IF q \in linked THEN "linked" ELSE "unlinked"

(* The push loop reaches row e, whose copy is good or can be reloaded. *)
Reaches(p, e) ==
  /\ pc[p] = "push"
  /\ IsFirst(e, queue[p])
  /\ seen[p][e] # 0 \/ life[e] = "live"

Postable(p, e) ==
  /\ Reaches(p, e)
  /\ p \in Run => DevOf[e] \in Employee
  /\ TagRead(p, e) = "linked"

MoveOn(p, e) == queue' = [queue EXCEPT ![p] = @ \ {e}]
(* Faulty: the loop goes on without counting the row. *)
MissUncounted(p, e) == MoveOn(p, e) /\ UNCHANGED missed

Miss(p, e) == MoveOn(p, e) /\ missed' = [missed EXCEPT ![p] = @ \cup {e}]
RememberTag(p, e) == tag' = [tag EXCEPT ![p][EntryProject(e)] = TagRead(p, e)]

(* No QuickBooks employee for the row's developer, or the project was      *)
(* untagged since: skipped by a run, failed by a submit.                   *)
SkipEntry(p, e) ==
  /\ Reaches(p, e)
  /\ ~Postable(p, e)
  /\ Miss(p, e)
  /\ IF p \in Run /\ DevOf[e] \notin Employee
       THEN UNCHANGED tag ELSE RememberTag(p, e)
  /\ UNCHANGED <<rowVars, linked, lastSync, holders, week, ledger, pc, window,
                 picked, seen, ack, sideVars>>

(* Faulty: the exception leaves the push without releasing the lock. *)
RowGoneKeepsLock(p, e) ==
  /\ pc[p] = "push"
  /\ IsFirst(e, queue[p])
  /\ ~Reaches(p, e)
  /\ Goto(p, "idle")
  /\ UNCHANGED <<rowVars, linked, lastSync, holders, week, ledger, window,
                 picked, queue, missed, seen, tag, ack, sideVars>>

(* An expired row that was deleted cannot be reloaded: the push raises. *)
RowGone(p, e) ==
  /\ pc[p] = "push"
  /\ IsFirst(e, queue[p])
  /\ ~Reaches(p, e)
  /\ Goto(p, "release")
  /\ UNCHANGED <<rowVars, linked, lastSync, holders, week, ledger, window,
                 picked, queue, missed, seen, tag, ack, sideVars>>

Create(p, e) ==
  /\ Len(ledger) < MaxActivity
  /\ ledger' = Append(ledger, [entry |-> e, hours |-> HoursRead(p, e)])

(* QuickBooks creates the TimeActivity and its Id comes back. *)
PostTimeActivity(p, e) ==
  /\ Postable(p, e)
  /\ Create(p, e)
  /\ ack' = [ack EXCEPT ![p] = Len(ledger')]
  /\ Goto(p, "commit")
  /\ UNCHANGED <<rowVars, linked, lastSync, holders, week, window, picked,
                 queue, missed, seen, tag, sideVars>>

(* A QBApiError: QuickBooks refused, or created the TimeActivity and the   *)
(* answer was lost or had no Id.  A token refresh on the way has committed *)
(* and expired the session.                                                *)
PostFails(p, e, created, refreshed) ==
  /\ Postable(p, e)
  /\ created => Lossy
  /\ IF created THEN Create(p, e) ELSE UNCHANGED ledger
  /\ Miss(p, e)
  /\ IF refreshed THEN Expire(p) ELSE RememberTag(p, e) /\ UNCHANGED seen
  /\ UNCHANGED <<rowVars, linked, lastSync, holders, week, pc, window, picked,
                 ack, sideVars>>

(* QuickBooks answers 429: the rest of the queue is left alone. *)
RateLimited(p, e) ==
  /\ Postable(p, e)
  /\ Goto(p, "release")
  /\ Finalize(p, "partial")
  /\ UNCHANGED <<rowVars, linked, holders, week, ledger, window, picked,
                 queue, missed, seen, tag, ack, sideVars>>

(* The access token cannot be refreshed: the push stops. *)
OAuthFails(p, e) ==
  /\ Postable(p, e)
  /\ Goto(p, "release")
  /\ Finalize(p, "error")
  /\ UNCHANGED <<rowVars, linked, holders, week, ledger, window, picked,
                 queue, missed, seen, tag, ack, sideVars>>

(* Faulty: the Id is written to the first row of the batch. *)
RecordIdWrongRow(p, e) ==
  /\ pc[p] = "commit"
  /\ IsFirst(e, queue[p])
  /\ \E f \in picked[p] : /\ IsFirst(f, picked[p])
                          /\ qbId' = [qbId EXCEPT ![f] = ack[p]]
                          /\ submitted' = submitted \cup {f}
  /\ MoveOn(p, e)
  /\ Expire(p)
  /\ Goto(p, "push")
  /\ ack' = [ack EXCEPT ![p] = 0]
  /\ UNCHANGED <<life, hours, weekOf, linked, lastSync, holders, week,
                 ledger, window, picked, missed, sideVars>>

(* The Id is written to the row and committed; a run also stamps           *)
(* submitted_at.  The UPDATE of a row that has gone raises.                *)
RecordId(p, e) ==
  /\ pc[p] = "commit"
  /\ IsFirst(e, queue[p])
  /\ IF life[e] = "live"
       THEN /\ qbId' = [qbId EXCEPT ![e] = ack[p]]
            /\ submitted' = IF p \in Run THEN submitted \cup {e} ELSE submitted
            /\ MoveOn(p, e)
            /\ Expire(p)
            /\ Goto(p, "push")
       ELSE /\ Goto(p, "release")
            /\ UNCHANGED <<qbId, submitted, queue, seen, tag>>
  /\ ack' = [ack EXCEPT ![p] = 0]
  /\ UNCHANGED <<life, hours, weekOf, linked, lastSync, holders, week, ledger,
                 window, picked, missed, sideVars>>

(* The loop is over. *)
Finish(p) ==
  /\ pc[p] = "push"
  /\ queue[p] = {}
  /\ Finalize(p, IF missed[p] = {} THEN "ok" ELSE "partial")
  /\ Goto(p, "release")
  /\ UNCHANGED <<rowVars, linked, holders, week, ledger, window, picked,
                 queue, missed, seen, tag, ack, sideVars>>

(* The process ends, and with it its session and its hold on the lock. *)
End(p) ==
  /\ Goto(p, "idle")
  /\ holders' = holders \ {p}
  /\ window' = [window EXCEPT ![p] = 0]
  /\ picked' = [picked EXCEPT ![p] = {}]
  /\ queue' = [queue EXCEPT ![p] = {}]
  /\ missed' = [missed EXCEPT ![p] = {}]
  /\ Expire(p)
  /\ ack' = [ack EXCEPT ![p] = 0]
  /\ UNCHANGED <<rowVars, linked, lastSync, week, ledger, sideVars>>

Release(p) == pc[p] = "release" /\ End(p)

(* The server process dies; Postgres drops the lock with the connection. *)
Crash(p) == Crashes /\ pc[p] \in Critical /\ End(p)
-----------------------------------------------------------------------------
PushStep(p) ==
  \/ TryLock(p) \/ Prepare(p) \/ Query(p) \/ QueryEmpty(p) \/ Stamp(p)
  \/ Finish(p) \/ Release(p) \/ PrepareFails(p) \/ Abort(p)
  \/ \E e \in queue[p] :
       \/ SkipEntry(p, e) \/ RowGone(p, e)
       \/ PostTimeActivity(p, e) \/ RecordId(p, e)
       \/ \E created, refreshed \in BOOLEAN : PostFails(p, e, created, refreshed)
       \/ RateLimited(p, e) \/ OAuthFails(p, e)

Start(p) == Click(p) \/ Refuse(p) \/ StartScript(p)

RowStep ==
  \/ \E e \in Entry, h \in Hours : Log(e, h)
  \/ \E d \in Dev : \/ \E e \in Entry : ResolveEditable(d, e)
                    \/ \E q \in Project : ResolveBillable(d, q)
                    \/ \E h \in Hours : EditEntry(d, h)
                    \/ DeleteEntry(d)
  \/ \E i \in Item : DeleteWorkItem(i)
  \/ \E q \in Project : DeleteProject(q) \/ Tag(q) \/ Untag(q)
  \/ \E burst \in SUBSET Live : DedupeScan(burst)
  \/ DedupeDelete \/ NewWeek

Next ==
  \/ RowStep
  \/ \E p \in Proc : Start(p) \/ PushStep(p) \/ Crash(p)

Spec == Init /\ [][Next]_vars

(* A push that has the lock keeps going: no call it makes waits for ever.  *)
FairSpec == Spec /\ \A p \in Proc : WF_vars(PushStep(p))
-----------------------------------------------------------------------------
(* What holds of every behaviour on Postgres. *)

(* Two pushes are never between the lock's acquisition and its release at  *)
(* the same time, whatever crashes or raises (_try_advisory_lock).         *)
MutualExclusion ==
  Postgres =>
    \A p, q \in Proc : pc[p] \in Critical /\ pc[q] \in Critical => p = q

(* No row has an Id and no submitted_at: the combination the comment over  *)
(* TimeEntry.submitted_at calls impossible.  A run stamps both at once, a  *)
(* submit stamps first and relies on nobody clearing the stamp.            *)
SyncedIsSubmitted == \A e \in Entry : qbId[e] # 0 => e \in submitted

(* The Id in a row is that of a TimeActivity created for this very row, so *)
(* no two rows share one, though rows are picked, moved past, skipped and  *)
(* deleted between the POST and the commit.                                *)
RecordedIsOwn ==
  \A e \in Entry :
    qbId[e] # 0 => qbId[e] \in DOMAIN ledger /\ ledger[qbId[e]].entry = e

(* A row that has its Id is never POSTed again and never gets another Id,  *)
(* by whichever process and after whatever crash (REVIEW_RULES.md, I1).    *)
NoRepush ==
  [][\A e \in Entry : Postgres /\ qbId[e] # 0 =>
        /\ qbId'[e] = qbId[e]
        /\ \A a \in DOMAIN ledger' \ DOMAIN ledger : ledger'[a].entry # e]_vars

InFlight(a) == \E p \in Proc : pc[p] = "commit" /\ ack[p] = a

(* As long as no answer is lost and no process dies, each TimeActivity is  *)
(* recorded in its row, about to be, or of a row that was deleted: so a    *)
(* live row never has two.                                                 *)
EachActivityAccounted ==
  Postgres /\ ~Lossy /\ ~Crashes =>
    \A a \in DOMAIN ledger :
      \/ qbId[ledger[a].entry] = a
      \/ InFlight(a)
      \/ life[ledger[a].entry] = "deleted"

(* What a run reports in last_sync_*: it holds the lock, the rows it       *)
(* counts as pushed carry an Id, and when it says ok so does every row it  *)
(* picked.                                                                 *)
TruthfulReport ==
  [][lastSync' # lastSync =>
       \E p \in Run :
         /\ p \in holders
         /\ \A e \in lastSync'.pushed : qbId[e] # 0
         /\ lastSync'.status = "ok" => \A e \in picked[p] : qbId[e] # 0]_vars

(* A submit POSTs no row before its submitted_at is committed, so a crash  *)
(* leaves the row "submitted, not synced" and never a draft.               *)
SubmitStampsFirst ==
  [][\A d \in Dev : Postgres /\ pc[d] = "push" =>
        \A a \in DOMAIN ledger' \ DOMAIN ledger : ledger'[a].entry \in submitted]_vars

(* The rows live through the states EntryLifecycle allows. *)
PhaseOf(e) ==
  IF life[e] # "live" THEN life[e]
  ELSE IF qbId[e] # 0 THEN "synced"
  ELSE IF e \in submitted THEN "submitted" ELSE "draft"

Rows == INSTANCE EntryLifecycle WITH
  phase <- [e \in Entry |-> PhaseOf(e)],
  activities <- [e \in Entry |-> {a \in DOMAIN ledger : ledger[a].entry = e}],
  recorded <- qbId

(* Every step of the pushers, the editors and the scripts is a step of the *)
(* abstract row, or changes nothing there.                                 *)
ImplementsLifecycle == Rows!Lifecycle

(* Whoever takes the lock gives it back, on every path through the push:   *)
(* success, error, a row deleted under it.                                 *)
LockReleased == \A p \in Proc : p \in holders ~> p \notin holders
-----------------------------------------------------------------------------
(* The inductive strengthening of the invariants above. *)

(* The lock is held in exactly the steps between taking and releasing it.  *)
LockInv ==
  /\ \A p \in Proc : p \in holders <=> pc[p] \in Critical
  /\ MutualExclusion

(* A push works on rows that were logged, and on none before its query.    *)
QueueInv(p) ==
  /\ queue[p] \cup missed[p] \subseteq picked[p]
  /\ pc[p] \notin {"stamp", "push", "commit", "release"} => picked[p] = {}
  /\ pc[p] = "stamp" => p \in Dev
  /\ \A e \in picked[p] : life[e] # "unlogged"

(* What is still queued has no Id: nobody else records Ids meanwhile.      *)
QueuedIsUnsynced(p) ==
  Postgres /\ pc[p] \in {"stamp", "push", "commit"} =>
    \A e \in queue[p] : qbId[e] = 0

(* An Id about to be recorded is that of the row at the queue's head.      *)
AckIsOwn(p) ==
  pc[p] = "commit" =>
    /\ ack[p] \in DOMAIN ledger
    /\ IsFirst(ledger[ack[p]].entry, queue[p])

(* Past the stamp, everything a submit has queued is stamped.              *)
SubmitIsStamped(p) ==
  p \in Dev /\ pc[p] \in {"push", "commit"} => queue[p] \subseteq submitted

(* Every row a push is done with, and did not miss, has an Id.             *)
DoneIsSynced(p) ==
  \A e \in picked[p] \ (queue[p] \cup missed[p]) : qbId[e] # 0

PushInv(p) ==
  /\ QueueInv(p)
  /\ QueuedIsUnsynced(p)
  /\ AckIsOwn(p)
  /\ SubmitIsStamped(p)
  /\ DoneIsSynced(p)

(* Only rows that were logged are stamped, recorded or in QuickBooks.      *)
UnloggedIsBlank ==
  /\ \A e \in submitted : life[e] # "unlogged"
  /\ \A a \in DOMAIN ledger : life[ledger[a].entry] # "unlogged"

IInv ==
  /\ TypeOK
  /\ LockInv
  /\ \A p \in Proc : PushInv(p)
  /\ UnloggedIsBlank
  /\ SyncedIsSubmitted
  /\ RecordedIsOwn
  /\ EachActivityAccounted
=============================================================================
