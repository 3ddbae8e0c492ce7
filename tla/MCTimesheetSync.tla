-------------------------- MODULE MCTimesheetSync --------------------------
(* Instances of TimesheetSync for TLC: two rows of one work item. *)
EXTENDS TimesheetSync

CONSTANTS w1, p1, d1, d2, r1, r2

OneItem == [e \in Entry |-> w1]
OneProject == [i \in Item |-> p1]
OneDev == [e \in Entry |-> d1]
=============================================================================
