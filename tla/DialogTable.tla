------------------------------ MODULE DialogTable ------------------------------
(***************************************************************************)
(* The dialogs of the web client: a form (the component) and an answer     *)
(* (the mutation of its hook) each, in the terms of module Dialogs.        *)
(***************************************************************************)
EXTENDS TLC

\* A form of its own state, and an answer that only reports.
Form == [creates |-> FALSE, text |-> TRUE, many |-> FALSE, guard |-> "none", locked |-> {},
         frozen |-> FALSE, keeps |-> FALSE, resets |-> {}, fills |-> "never"]
Answer == [submit |-> {}, success |-> "stays", clears |-> FALSE,
           names |-> "variables", steps |-> 1]

Create == [Form EXCEPT !.creates = TRUE]
Edit == [Form EXCEPT !.many = TRUE]
Confirm == [Edit EXCEPT !.text = FALSE]

\* A form whose state is its page's, and how that is cleared.
OfPage(form, resets) == [form EXCEPT !.keeps = TRUE, !.resets = resets]
Guarded(form, guard) == [form EXCEPT !.guard = guard]

CloseWhatIsOpen == [Answer EXCEPT !.success = "closes"]
CloseAndClear == [CloseWhatIsOpen EXCEPT !.clears = TRUE]
ShowMine == [Answer EXCEPT !.success = "shows", !.clears = TRUE]
ClearAtOnce == [Answer EXCEPT !.submit = {"clears"}]
LeaveAtOnce == [Answer EXCEPT !.submit = {"closes", "clears"}]

-----------------------------------------------------------------------------
(* The board and the ticket drawer.                                         *)

CreateItemModal == Guarded(Create, "page")
UseCreateItem == CloseWhatIsOpen

CreateSprintModal == Guarded(Create, "page")
UseCreateSprint == CloseWhatIsOpen

EditSprintModal == Edit
UseEditSprint == CloseWhatIsOpen

CompleteSprintConfirm == Confirm
UseCompleteSprint == CloseWhatIsOpen

DeleteSprintConfirm == Confirm
UseDeleteSprint == CloseWhatIsOpen

\* The drawer of the board is mounted per ticket and saves through the board.
DrawerEdit == Guarded(Edit, "page")
UseSaveEdit == LeaveAtOnce

\* The drawer of the home page holds the ticket its page selected last, and
\* the answers of its own mutations select theirs (handleTaskChanged).
TicketEdit == Guarded(Edit, "mount")
UseSaveEditCompact == ShowMine

DrawerHours == [Guarded(Edit, "page") EXCEPT !.creates = TRUE]
UseLogHours == ClearAtOnce
TicketHours == [Guarded(Edit, "mount") EXCEPT !.creates = TRUE]
UseLogHoursCompact == ShowMine

\* Enter in the title submits again while the button is disabled.
AddSubtaskModal == Create
UseCreateSubtask == CloseWhatIsOpen
AddTestCaseModal == Create
UseCreateTestCase == CloseWhatIsOpen

CommentThread == [Guarded(Create, "page") EXCEPT !.many = TRUE]
UseSubmitComment == ClearAtOnce

\* The panel of the review and blocked queues: its hooks live as long as its
\* tab is mounted, the forms of the cards are states of the hook or the card.
ReviewHours == OfPage(Guarded(Create, "page"), {})
UseReviewHours == CloseAndClear
ReviewComment == [Guarded(Create, "mount") EXCEPT !.many = TRUE]
UseReviewComment == ClearAtOnce
BlockedComment == ReviewComment
UseBlockedComment == ClearAtOnce

\* The assistant's refinement replaces the code whenever it arrives.
ArchitectureEditor == [Guarded(Edit, "mount") EXCEPT !.fills = "asked"]
UseSaveArchitecture == CloseWhatIsOpen

-----------------------------------------------------------------------------
(* The project page.                                                        *)

\* Its onSave returns at once: the editor's guard is over before the call is.
DetailEditor == Guarded(ArchitectureEditor, "none")
UseSaveProjectArchitecture == CloseWhatIsOpen

LinksSection == OfPage(Create, {})
UseAddLink == LeaveAtOnce
TeamSection == OfPage(Create, {})
UseAddDeveloper == LeaveAtOnce
ProjectInfoSection == OfPage(Form, {"open"})
UseSaveProject == [Answer EXCEPT !.submit = {"closes"}]

\* The saved template may arrive after the modal opened, and resets the form.
GenerateRoadmapModal == [OfPage(Guarded(Form, "page"), {"open"}) EXCEPT !.fills = "open"]
UseGenerateRoadmap == CloseWhatIsOpen

\* Saving clears the dirty flag; the form stays as it is.
PulseSettings == Guarded(Form, "mount")
UseSavePulse == Answer

-----------------------------------------------------------------------------
(* Personal tasks, on the home page and on their own page.                  *)

\* Creating for a project is two requests: create, then convert.
AddPersonalTaskDialog == OfPage(Create, {"leave"})
AddTaskDialog == OfPage(Guarded(Create, "page"), {"leave"})
UseCreateTask == [CloseAndClear EXCEPT !.steps = 2]

EditPersonalTaskDialog == OfPage(Guarded(Edit, "page"), {"open", "leave"})
EditTaskDialog == OfPage(Guarded(Edit, "page"), {"open"})
UseUpdateTask == CloseAndClear

ConvertTicketDialog == OfPage([Guarded(Edit, "page") EXCEPT !.creates = TRUE], {"open", "leave"})
ConvertToTicketDialog == ConvertTicketDialog
UseConvertTask == CloseAndClear

CreateProjectDialog == OfPage(Guarded(Create, "page"), {})
UseCreateProject == CloseAndClear

-----------------------------------------------------------------------------
(* The admin dashboard.                                                     *)

UserModal == OfPage(Create, {})
UseCreateUser == CloseAndClear
EditUserModal == [OfPage(Guarded(Edit, "page"), {"open"}) EXCEPT !.locked = {"leave"}]
UseUpdateUser == CloseWhatIsOpen
EmployeeModal == OfPage(Edit, {"open"})
UseSaveEmployee == CloseWhatIsOpen

\* Their onSettled closures take the project for the one selected last.
GitHubModal == OfPage(Edit, {"open"})
UseSaveGitHub == [CloseWhatIsOpen EXCEPT !.names = "shown"]
ProjectMembersModal == OfPage([Guarded(Edit, "page") EXCEPT !.creates = TRUE], {"open"})
UseAddMember == [Answer EXCEPT !.clears = TRUE, !.names = "shown"]

RoleModal == [OfPage(Guarded(Form, "page"), {"open"}) EXCEPT !.locked = {"leave"}]
CreateRoleModal == [RoleModal EXCEPT !.creates = TRUE]
EditRoleModal == [RoleModal EXCEPT !.many = TRUE]
UseCreateRole == CloseWhatIsOpen
UseSaveRole == [CloseWhatIsOpen EXCEPT !.steps = 2]

CategoryManagerModal == OfPage(Guarded(Create, "page"), {})
UseCreateCategory == [Answer EXCEPT !.clears = TRUE]
CategoryRow == [OfPage(Guarded(Edit, "page"), {"open"}) EXCEPT !.locked = {"open"}]
UseUpdateCategory == CloseAndClear

-----------------------------------------------------------------------------
DialogRows == [
  createItem |-> CreateItemModal @@ UseCreateItem,
  createSprint |-> CreateSprintModal @@ UseCreateSprint,
  editSprint |-> EditSprintModal @@ UseEditSprint,
  completeSprint |-> CompleteSprintConfirm @@ UseCompleteSprint,
  deleteSprint |-> DeleteSprintConfirm @@ UseDeleteSprint,
  drawerEdit |-> DrawerEdit @@ UseSaveEdit,
  ticketEdit |-> TicketEdit @@ UseSaveEditCompact,
  drawerHours |-> DrawerHours @@ UseLogHours,
  ticketHours |-> TicketHours @@ UseLogHoursCompact,
  addSubtask |-> AddSubtaskModal @@ UseCreateSubtask,
  addTestCase |-> AddTestCaseModal @@ UseCreateTestCase,
  comment |-> CommentThread @@ UseSubmitComment,
  reviewHours |-> ReviewHours @@ UseReviewHours,
  reviewComment |-> ReviewComment @@ UseReviewComment,
  blockedComment |-> BlockedComment @@ UseBlockedComment,
  architecture |-> ArchitectureEditor @@ UseSaveArchitecture,
  detailArchitecture |-> DetailEditor @@ UseSaveProjectArchitecture,
  addLink |-> LinksSection @@ UseAddLink,
  addDeveloper |-> TeamSection @@ UseAddDeveloper,
  editProject |-> ProjectInfoSection @@ UseSaveProject,
  roadmap |-> GenerateRoadmapModal @@ UseGenerateRoadmap,
  pulse |-> PulseSettings @@ UseSavePulse,
  addTask |-> AddPersonalTaskDialog @@ UseCreateTask,
  addTaskPage |-> AddTaskDialog @@ UseCreateTask,
  editTask |-> EditPersonalTaskDialog @@ UseUpdateTask,
  editTaskPage |-> EditTaskDialog @@ UseUpdateTask,
  convertTask |-> ConvertTicketDialog @@ UseConvertTask,
  convertTaskPage |-> ConvertToTicketDialog @@ UseConvertTask,
  createProject |-> CreateProjectDialog @@ UseCreateProject,
  createUser |-> UserModal @@ UseCreateUser,
  editUser |-> EditUserModal @@ UseUpdateUser,
  editEmployee |-> EmployeeModal @@ UseSaveEmployee,
  gitHub |-> GitHubModal @@ UseSaveGitHub,
  addMember |-> ProjectMembersModal @@ UseAddMember,
  createRole |-> CreateRoleModal @@ UseCreateRole,
  editRole |-> EditRoleModal @@ UseSaveRole,
  createCategory |-> CategoryManagerModal @@ UseCreateCategory,
  editCategory |-> CategoryRow @@ UseUpdateCategory]
=============================================================================
