------------------------------- MODULE MCDialogs -------------------------------
(* Every dialog, every inline control and every panel of the web client that *)
(* follows a choice; a behaviour follows one of them.  Those with the same   *)
(* row have the same behaviours but for their names: one of each row is      *)
(* followed.                                                                 *)
EXTENDS Dialogs, DialogTable, Controls, ControlTable, Panels, PanelTable

MCDialog == DOMAIN DialogRows
MCControl == DOMAIN ControlRows
MCRow == DialogRows
MCDoes == ControlRows
MCPanel == DOMAIN PanelRows
MCLoads == PanelRows

VARIABLE screen

MCVars == <<vars, controlVars, panelVars, screen>>

-----------------------------------------------------------------------------
(* The dialogs, controls and panels known not to keep a promise: the run fails for   *)
(* each of them when it is taken off its list.                               *)

\* A second press of Enter or of the button makes a second thing, and so does
\* the retry of a create whose convert failed.
MCDoubling == {"addSubtask", "addTestCase", "createUser", "addTask", "addTaskPage"}

\* The text is gone before the error, or replaced by a late answer.
MCLosing == {"drawerEdit", "drawerHours", "comment", "reviewComment",
             "blockedComment", "addLink", "addDeveloper",
             "editProject", "architecture", "detailArchitecture", "roadmap"}

\* The draft of one ticket saved over another; the refetch of another project.
MCMisdirecting == {"ticketEdit", "ticketHours", "gitHub", "addMember"}

\* A late success closes, clears or replaces what was opened in the meantime.
MCStealing == Dialog \ {"drawerEdit", "drawerHours", "comment", "reviewComment",
                        "blockedComment", "addLink", "addDeveloper", "editProject",
                        "pulse", "editUser", "createRole", "editRole",
                        "editCategory"}

\* One mark for several calls: the row of the latest, the first one drawn, the
\* flag that any answer lowers.
MCMismarked == {"resolveComment", "resolveBlocker", "invite"}

\* A call that fails after it took effect leaves the list as it was.
MCUnhealed == {"ticketStatus", "testCaseStatus", "resolveBlocker", "unblockItem",
               "reviewStatus", "repairHours", "deleteCategory", "category",
               "quickBooksClient", "disconnect", "refreshClients"}

\* The dialogs off these lists are those ScreensProofs speaks of ...
ASSUME DialogsAsProved ==
  /\ \A d \in MCDialog \ MCDoubling : MCRow[d].creates => MakesOne(MCRow[d])
  /\ \A d \in MCDialog \ MCLosing : Forgiving(MCRow[d])
  /\ \A d \in MCDialog \ MCMisdirecting : Aimed(MCRow[d])
  /\ \A d \in MCDialog \ MCStealing : Polite(MCRow[d])

\* ... and so are the controls ...
ASSUME ControlsAsProved ==
  /\ \A c \in MCControl \ MCMismarked : MCDoes[c].marks \in {"none", "own", "choice", "all"}
  /\ \A c \in MCControl \ MCUnhealed : MCDoes[c].settles \in {"always", "nothing"}

\* What was loaded for an earlier choice, or for an earlier text.
MCMisplaced == {"projectHours", "contributors", "diagram"}

\* A late answer over a newer one; the failure of the text that was.
MCOutdated == {"projectHours", "reviewComments", "blockedComments", "diagram"}

\* ... and the panels.
ASSUME PanelsAsProved ==
  /\ \A p \in MCPanel \ MCMisplaced : MCLoads[p].keeps = "each"
  /\ \A p \in MCPanel \ MCOutdated : MCLoads[p].heeds = "latest"

-----------------------------------------------------------------------------
OneDialog == {CHOOSE d \in Dialog : Row[d] = row : row \in {Row[d] : d \in Dialog}}
OneControl == {CHOOSE c \in Control : Does[c] = row : row \in {Does[c] : c \in Control}}
OnePanel == {CHOOSE p \in Panel : Loads[p] = row : row \in {Loads[p] : p \in Panel}}

MCInit ==
  /\ screen \in {"dialog", "control", "panel"}
  /\ Init /\ ControlInit /\ PanelInit
  /\ IF screen = "dialog" THEN dialog \in OneDialog
     ELSE dialog = "createItem" /\ subject = [n \in Opening |-> CHOOSE s \in Subject : TRUE]
  /\ IF screen = "control" THEN control \in OneControl ELSE control = "unblock"
  /\ IF screen = "panel" THEN panel \in OnePanel
     ELSE panel = "burndown" /\ chosen = CHOOSE c \in Choice : TRUE

OnDialog == screen = "dialog" /\ Next /\ UNCHANGED <<controlVars, panelVars, screen>>
OnControl == screen = "control" /\ ControlNext /\ UNCHANGED <<vars, panelVars, screen>>
OnPanel == screen = "panel" /\ PanelNext /\ UNCHANGED <<vars, controlVars, screen>>
MCSpec == MCInit /\ [][OnDialog \/ OnControl \/ OnPanel]_MCVars
=============================================================================
