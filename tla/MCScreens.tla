----------------------------- MODULE MCScreens -----------------------------
(* Two screens that share no state with each other: the board with its       *)
(* forms, and the role editor.  A behaviour follows one of them, and on the  *)
(* board either the forms (without sprints, which no form looks at) or the   *)
(* views (without forms, and with at most one row in a sprint).              *)
EXTENDS BoardTree, RoleEditor, RoleCatalogue, TLC

MCCapability == Capabilities
MCGroup == Groups
MCRole == Roles(Labels)

VARIABLE screen

MCInit ==
  /\ BoardInit /\ RoleInit
  /\ screen \in {"forms", "views", "roles"}

OnForms == screen = "forms" /\ BoardNext /\ sprint' = sprint /\ UNCHANGED <<roleVars, screen>>
OnViews ==
  /\ screen = "views" /\ BoardNext /\ form' = Closed
  /\ \A i, j \in Item : row'[i].sprint # NoSprint /\ row'[j].sprint # NoSprint => i = j
  /\ \A i \in Item : row'[i].type \in {"epic", "task", "subtask"}
  /\ UNCHANGED <<roleVars, screen>>
OnRoles == screen = "roles" /\ RoleNext /\ UNCHANGED <<boardVars, screen>>
MCNext == OnForms \/ OnViews \/ OnRoles

MCSpec == MCInit /\ [][MCNext]_<<boardVars, roleVars, screen>>

Symmetric == Permutations(Item)
=============================================================================
