--------------------------- MODULE MCWorkItemTree ---------------------------
(* Instances of WorkItemTree for TLC. *)
EXTENDS WorkItemTree, TLC

AnyItem == Permutations(Item) \cup Permutations(Req)

NoChange == [type |-> Keep, status |-> Keep, parent |-> Keep, epic |-> Keep,
             hours |-> FALSE]

(* Bodies that change one thing, as the board and the ticket panel send. *)
StatusChange == {[NoChange EXCEPT !.status = s] : s \in Status}
LinkChange ==
  {[NoChange EXCEPT !.parent = p] : p \in Link}
    \cup {[NoChange EXCEPT !.epic = e] : e \in Link}
HoursChange == {[NoChange EXCEPT !.hours = TRUE]}
TypeChange == {[NoChange EXCEPT !.type = k] : k \in Kind}

(* The edit form sends a type together with the one link it may have, or   *)
(* with a status.                                                          *)
FormChange ==
  {[NoChange EXCEPT !.type = "subtask", !.parent = p, !.epic = NoItem] : p \in Link}
    \cup {[NoChange EXCEPT !.type = "user_story", !.parent = NoItem, !.epic = e] :
            e \in Link}
    \cup {[NoChange EXCEPT !.type = "epic", !.status = "done"]}

SimpleChanges == StatusChange \cup LinkChange \cup HoursChange
AllChanges == StatusChange \cup LinkChange \cup TypeChange \cup FormChange
=============================================================================
