------------------------------ MODULE ControlTable ------------------------------
(***************************************************************************)
(* The inline controls of the web client: a click (the component) and an   *)
(* answer (the mutation or handler of its hook) each, in the terms of      *)
(* module Controls.                                                        *)
(***************************************************************************)
EXTENDS TLC

\* A button of a row that nothing holds back, and a call whose answer, good or
\* bad, fetches the list again.
Button == [offers |-> {"on"}, marks |-> "none"]
Refreshing == [patches |-> "never", settles |-> "always"]

Toggle == [Button EXCEPT !.offers = {"off", "on"}]
Picker == [Button EXCEPT !.offers = {"off", "on", "held"}]
Marked(button, marks) == [button EXCEPT !.marks = marks]

Anticipated == [Refreshing EXCEPT !.patches = "now"]
OnSuccess == [Refreshing EXCEPT !.settles = "success"]
ShownOnSuccess == [OnSuccess EXCEPT !.patches = "success"]
ShowsNothing == [Refreshing EXCEPT !.settles = "nothing"]

-----------------------------------------------------------------------------
(* The board and the ticket drawer.                                         *)

KanbanCard == Picker
StatusDot == Picker
StatusButtons == Picker
UseMove == Anticipated
UseStatusCompact == ShownOnSuccess

SprintActions == Picker
UseMoveSprint == Refreshing

TestCaseStatus == Picker
UseUpdateTestCase == OnSuccess

PanelHeader == Button
UseDeleteItem == Refreshing
UnblockButton == Marked(Button, "own")
UseUnblock == Refreshing

\* Of the comments of a ticket the pill of one can be drawn busy: that of the
\* latest call in the drawer, the first busy one in the queue.
ResolvePill == Marked(Button, "latest")
UseResolveComment == Refreshing
QueuePill == Marked(Button, "first")
UseResolveBlocker == OnSuccess

BlockedItemCard == Marked(Button, "own")
UseUnblockItem == ShownOnSuccess

\* Done and In progress have a loading key each.
ReviewItemCard == [offers |-> {"on", "held"}, marks |-> "choice"]
UseReviewStatus == ShownOnSuccess

-----------------------------------------------------------------------------
(* The home page and the personal tasks.                                    *)

TaskRow == Picker
UseTaskStatus == Anticipated
DueDate == Picker
UseDueDate == Anticipated

PersonalCheckbox == Toggle
TasksPageCheckbox == Toggle
UseToggleTask == Anticipated

DeleteTaskButton == Button
UseRemoveTask == Refreshing
DeleteProjectButton == Button
UseDeleteProject == Refreshing

-----------------------------------------------------------------------------
(* The project page.                                                        *)

DeleteLinkButton == Button
UseDeleteLink == Refreshing
AdminCrown == Toggle
UsePromote == Refreshing
RemoveDeveloperButton == Button
UseRemoveDeveloper == Refreshing

\* The three buttons share the panel's loading flag.
HoursDebugPanel == Marked(Button, "all")
UseRepair == OnSuccess

-----------------------------------------------------------------------------
(* The admin dashboard.                                                     *)

RoleCheckbox == Toggle
UseRoleAssignment == Refreshing
DeleteUserButton == Button
UseDeleteUser == Refreshing
DeleteEmployeeButton == Button
UseDeleteEmployee == Refreshing
DeleteRoleButton == Marked(Button, "all")
UseDeleteRole == Refreshing

DeleteCategoryButton == Marked(Button, "all")
UseDeleteCategory == OnSuccess
CategoryChip == Picker
UseSetCategory == OnSuccess
ClientChip == Picker
UseSetClient == OnSuccess

\* invitingProjectId: one variable for the whole grid.
InviteButton == Marked(Button, "flag")
UseSendInvites == ShowsNothing

IntegrationButtons == Marked(Button, "all")
UseConnect == ShowsNothing
UseDisconnect == OnSuccess
UseForceSync == ShowsNothing
UseRefreshClients == OnSuccess

-----------------------------------------------------------------------------
ControlRows == [
  moveCard |-> KanbanCard @@ UseMove,
  statusDot |-> StatusDot @@ UseMove,
  panelStatus |-> StatusButtons @@ UseMove,
  ticketStatus |-> StatusButtons @@ UseStatusCompact,
  moveSprint |-> SprintActions @@ UseMoveSprint,
  testCaseStatus |-> TestCaseStatus @@ UseUpdateTestCase,
  deleteItem |-> PanelHeader @@ UseDeleteItem,
  unblock |-> UnblockButton @@ UseUnblock,
  resolveComment |-> ResolvePill @@ UseResolveComment,
  resolveBlocker |-> QueuePill @@ UseResolveBlocker,
  unblockItem |-> BlockedItemCard @@ UseUnblockItem,
  reviewStatus |-> ReviewItemCard @@ UseReviewStatus,
  taskStatus |-> TaskRow @@ UseTaskStatus,
  dueDate |-> DueDate @@ UseDueDate,
  toggleTask |-> PersonalCheckbox @@ UseToggleTask,
  toggleTaskPage |-> TasksPageCheckbox @@ UseToggleTask,
  deleteTask |-> DeleteTaskButton @@ UseRemoveTask,
  deleteProject |-> DeleteProjectButton @@ UseDeleteProject,
  deleteLink |-> DeleteLinkButton @@ UseDeleteLink,
  projectAdmin |-> AdminCrown @@ UsePromote,
  removeDeveloper |-> RemoveDeveloperButton @@ UseRemoveDeveloper,
  repairHours |-> HoursDebugPanel @@ UseRepair,
  userRole |-> RoleCheckbox @@ UseRoleAssignment,
  deleteUser |-> DeleteUserButton @@ UseDeleteUser,
  deleteEmployee |-> DeleteEmployeeButton @@ UseDeleteEmployee,
  deleteRole |-> DeleteRoleButton @@ UseDeleteRole,
  deleteCategory |-> DeleteCategoryButton @@ UseDeleteCategory,
  category |-> CategoryChip @@ UseSetCategory,
  quickBooksClient |-> ClientChip @@ UseSetClient,
  invite |-> InviteButton @@ UseSendInvites,
  connect |-> IntegrationButtons @@ UseConnect,
  disconnect |-> IntegrationButtons @@ UseDisconnect,
  forceSync |-> IntegrationButtons @@ UseForceSync,
  refreshClients |-> IntegrationButtons @@ UseRefreshClients]
=============================================================================
