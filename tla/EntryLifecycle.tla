--------------------------- MODULE EntryLifecycle ---------------------------
(***************************************************************************)
(* What the QuickBooks integration promises about one time_entries row,    *)
(* with the pushers, the advisory lock, the sessions and the network left  *)
(* out: the states of the comment over TimeEntry.submitted_at              *)
(* (src/backend/models/time_entry.py) and the TimeActivities that exist in *)
(* QuickBooks for the row.  TimesheetSync is shown to implement it.        *)
(***************************************************************************)
EXTENDS Naturals

CONSTANTS
  Entry,             \* the ids time_entries rows can have
  Activity           \* the ids QuickBooks gives TimeActivities; never 0

VARIABLES
  phase,             \* where each row stands
  activities,        \* the QuickBooks TimeActivities created for each row
  recorded           \* the one the row's workforce_entry_id names; 0 is NULL

lifecycleVars == <<phase, activities, recorded>>

Phase == {"unlogged", "draft", "submitted", "synced", "deleted"}

TypeOK ==
  /\ phase \in [Entry -> Phase]
  /\ activities \in [Entry -> SUBSET Activity]
  /\ recorded \in [Entry -> Activity \cup {0}]

Init ==
  /\ phase = [e \in Entry |-> "unlogged"]
  /\ activities = [e \in Entry |-> {}]
  /\ recorded = [e \in Entry |-> 0]

(* A developer logs hours: the row starts as a draft. *)
Log(e) ==
  /\ phase[e] = "unlogged"
  /\ phase' = [phase EXCEPT ![e] = "draft"]
  /\ UNCHANGED <<activities, recorded>>

(* A developer commits some rows to the QuickBooks pipeline. *)
Submit(S) ==
  /\ \A e \in S : phase[e] = "draft"
  /\ phase' = [e \in Entry |-> IF e \in S THEN "submitted" ELSE phase[e]]
  /\ UNCHANGED <<activities, recorded>>

(* QuickBooks creates a TimeActivity for a row, never for a synced one.    *)
(* The row may be deleted: the pusher can hold a copy of it.               *)
Post(e, a) ==
  /\ phase[e] \notin {"unlogged", "synced"}
  /\ \A f \in Entry : a \notin activities[f]
  /\ activities' = [activities EXCEPT ![e] = @ \cup {a}]
  /\ UNCHANGED <<phase, recorded>>

(* The row takes the id of one of its own TimeActivities and is final. *)
Record(e, a) ==
  /\ phase[e] \in {"draft", "submitted"}
  /\ a \in activities[e]
  /\ phase' = [phase EXCEPT ![e] = "synced"]
  /\ recorded' = [recorded EXCEPT ![e] = a]
  /\ UNCHANGED activities

(* Rows disappear: by their owner, a script, or the work item's deletion. *)
Delete(S) ==
  /\ phase' = [e \in Entry |-> IF e \in S THEN "deleted" ELSE phase[e]]
  /\ UNCHANGED <<activities, recorded>>

Next ==
  \/ \E e \in Entry : Log(e)
  \/ \E S \in SUBSET Entry : Submit(S) \/ Delete(S)
  \/ \E e \in Entry, a \in Activity : Post(e, a) \/ Record(e, a)

Lifecycle == Init /\ [][Next]_lifecycleVars
=============================================================================
