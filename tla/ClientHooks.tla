------------------------------ MODULE ClientHooks ------------------------------
(***************************************************************************)
(* Who reads what, who writes what and who invalidates what in the web     *)
(* client: the queries and mutations of its hooks, one function per hook.  *)
(*                                                                         *)
(* A query has its key, the layers (pages, tabs, dialogs) where its        *)
(* observer is enabled, and the facets of the database its endpoint reads. *)
(* A mutation has the layers that offer it, the facets its endpoint        *)
(* writes, and the key prefixes it invalidates, removes, cancels, patches. *)
(* One project (route parameter "7"), one work item ("i"), one user.       *)
(***************************************************************************)
EXTENDS SequencesExt

Str(id) == id    \* String(id): the key a route parameter has
Num(id) == "#" \o id    \* the same id as a number: another key

-----------------------------------------------------------------------------
(* lib/invalidations.ts                                                     *)

AdminWorkItemImpact == {<<"admin", "stats">>, <<"admin", "developers-capacity">>}
AdminProjectImpact == {<<"admin", "stats">>, <<"admin", "projects">>}
AdminMembershipImpact == AdminProjectImpact \cup AdminWorkItemImpact
AdminUserRoleImpact ==
  {<<"admin", "users">>, <<"admin", "employees">>, <<"admin", "developers-capacity">>}
AdminRoles == {<<"admin", "roles">>, <<"admin", "users">>}

ProjectScope(id) ==
  {<<"project", Str(id)>>, <<"project", Str(id), "links">>,
   <<"projectOverview", Str(id)>>, <<"sprints", Str(id)>>}
    \cup {<<"hubData", Str(id), part>> :
            part \in {"goals", "milestones", "activities", "analytics", "prd"}}
    \cup AdminProjectImpact

ItemsEverywhere == {<<"workItems">>, <<"workItem">>, <<"myTasks">>} \cup AdminWorkItemImpact

WorkItemScope(id) ==
  ItemsEverywhere \cup {<<"hubData", Str(id), "analytics">>,
    <<"hubData", Str(id), "activities">>, <<"projectOverview", Str(id)>>}

-----------------------------------------------------------------------------
(* Rows.                                                                    *)

Reads(key, layers, facets) == [key |-> key, layers |-> layers, facets |-> facets]

\* A mutation that invalidates in onSettled, and one that does in onSuccess.
Nothing == [layers |-> {}, facets |-> {}, settled |-> {}, success |-> {}, removes |-> {},
            cancels |-> {}, optimistic |-> {}, patches |-> {}]
Settles(layers, facets, keys) ==
  [Nothing EXCEPT !.layers = layers, !.facets = facets, !.settled = keys]
Succeeds(layers, facets, keys) ==
  [Nothing EXCEPT !.layers = layers, !.facets = facets, !.success = keys]

\* Optimistic: cancel by prefix, patch one entry, roll it back on an error.
Patching(row, cancels, entry) ==
  [row EXCEPT !.cancels = {cancels}, !.optimistic = {entry}]
Answering(row, entry) == [row EXCEPT !.patches = {entry}]

Item == {"items", "feed", "trail"}
Status == Item \cup {"comments"}
Logged == {"items", "entries", "comments"}

-----------------------------------------------------------------------------
(* The board: useBoardData, useWorkItemMutations, useSprintMutations,       *)
(* useCommentMutation, the AI planning wizard.                              *)

BoardList == <<"workItems", "7", "board">>
CommentsKey == <<"workItem", "i", "comments">>

UseBoardData == [
  project |-> Reads(<<"project", "7">>, {"board", "taskForm"}, {"project", "name", "members", "items", "repo"}),
  boardItems |-> Reads(BoardList, {"board"}, {"items", "assignees", "blocked"}),
  sprints |-> Reads(<<"sprints", "7">>, {"board"}, {"sprints", "items"}),
  developers |-> Reads(<<"developers">>, {"board", "detail", "create", "drawer", "ticket"}, {"devs"})]

BoardBoth == WorkItemScope("7") \cup ProjectScope("7")

UseWorkItemMutations == [
  move |-> Patching(Settles({"board"}, Status, BoardBoth \cup {CommentsKey}),
                    <<"workItems">>, BoardList),
  createItem |-> Settles({"board"}, Item, BoardBoth),
  moveSprint |-> Settles({"board"}, Item, WorkItemScope("7") \cup {<<"sprints", "7">>}),
  saveEdit |-> Answering(Settles({"drawer"}, Item, BoardBoth), BoardList),
  deleteItem |-> Settles({"drawer"}, Item \cup {"entries"}, BoardBoth),
  logHours |-> Answering(Settles({"drawer"}, Logged, BoardBoth \cup {CommentsKey}), BoardList)]

UseSprintMutations == [
  createSprint |-> Settles({"board"}, {"sprints", "feed"}, ProjectScope("7")),
  editSprint |-> Settles({"board"}, {"sprints", "feed"}, ProjectScope("7")),
  completeSprint |-> Settles({"board"}, {"sprints", "feed"}, BoardBoth),
  deleteSprint |-> Settles({"board"}, {"sprints", "items", "feed"}, BoardBoth)]

UseCommentMutation == [
  boardComment |-> Settles({"drawer"}, {"comments", "blocked"}, {CommentsKey})]

AIPlanning == [
  analyzePRD |-> Succeeds({"aiPlanning"}, {"prd", "feed"}, ProjectScope("7")),
  commitPlan |-> Succeeds({"aiPlanning"},
    {"items", "sprints", "goals", "milestones", "feed"}, BoardBoth)]
AIPlanningQuery == [
  prdExists |-> Reads(<<"prdAnalysisExists", Num("7")>>, {"aiPlanning"}, {"prd"})]

-----------------------------------------------------------------------------
(* The work item panel: the drawer of the board, the ticket of the home     *)
(* page (compact), and its activity tab.                                    *)

UseWorkItemPanelQueries == [
  itemDetail |-> Reads(<<"workItem", "i", "detail">>, {"drawer", "ticket"}, {"items", "assignees"}),
  comments |-> Reads(CommentsKey, {"drawer", "ticket"}, {"comments"}),
  itemActivity |-> Reads(<<"workItem", "i", "activity">>, {"activity"}, {"trail"})]

PanelItems == {<<"workItems">>, <<"myTasks">>}
DetailKey == <<"workItem", "i", "detail">>

UseWorkItemPanelCompact == [
  saveEditCompact |-> Succeeds({"ticket"}, Item,
    PanelItems \cup {DetailKey} \cup AdminWorkItemImpact),
  statusChangeCompact |-> Succeeds({"ticket"}, Status,
    PanelItems \cup {DetailKey, CommentsKey} \cup AdminWorkItemImpact),
  logHoursCompact |-> Succeeds({"ticket"}, Logged,
    PanelItems \cup {DetailKey, CommentsKey} \cup AdminWorkItemImpact)]

UseWorkItemPanelFull == [
  createSubtask |-> Succeeds({"drawer"}, Item, {<<"workItems">>, DetailKey}),
  updateTestCaseStatus |-> Succeeds({"drawer"}, Status, PanelItems \cup {DetailKey}),
  submitComment |-> Succeeds({"ticket"}, {"comments", "blocked"}, PanelItems \cup {CommentsKey}),
  unblock |-> Settles({"drawer", "ticket"}, {"comments", "blocked", "feed", "trail"},
    PanelItems \cup {CommentsKey})]

-----------------------------------------------------------------------------
(* The home page and the personal tasks.                                    *)

HomeQueries == [
  projects |-> Reads(<<"projects">>, {"home", "tasks"}, {"project", "name", "members", "items"}),
  projectCategories |-> Reads(<<"projectCategories">>, {"create"}, {"cats"}),
  myTasks |-> Reads(<<"myTasks">>, {"home"}, {"items", "assignees", "name"}),
  personalTasks |-> Reads(<<"personalTasks">>, {"home", "tasks"}, {"ptasks"})]

Projects == {<<"projects">>, <<"admin", "projects">>, <<"admin", "stats">>}

UseProjectsList == [
  createProject |-> Settles({"create"}, {"project", "members"}, Projects),
  deleteProject |-> [Settles({"home"}, {"project", "members", "items", "sprints", "entries"},
    Projects \cup AdminWorkItemImpact) EXCEPT !.removes =
      {<<"project", "7">>, <<"projectOverview", "7">>, <<"sprints", "7">>, <<"hubData", "7">>}]]

MyTasks == <<"myTasks">>
TasksChanged == {MyTasks, <<"workItems">>}

UseMyTasks == [
  myStatus |-> Patching(Settles({"home"}, Status, TasksChanged \cup AdminWorkItemImpact),
                        MyTasks, MyTasks),
  myDueDate |-> Patching(Settles({"home"}, Item, TasksChanged), MyTasks, MyTasks),
  personalDueDate |-> Patching(Settles({"home"}, {"ptasks"}, {<<"personalTasks">>}),
                               <<"personalTasks">>, <<"personalTasks">>)]

Personal == {<<"personalTasks">>}
Converted == Personal \cup TasksChanged \cup AdminWorkItemImpact \cup ProjectScope("7")

UsePersonalTaskMutations == [
  toggleTask |-> Patching(Settles({"home", "tasks"}, {"ptasks"}, Personal),
                          <<"personalTasks">>, <<"personalTasks">>),
  createTask |-> Settles({"taskForm"}, {"ptasks", "items", "feed"}, Converted),
  updateTask |-> Settles({"home", "tasks"}, {"ptasks"}, Personal),
  convertTask |-> Settles({"taskForm"}, {"ptasks", "items", "feed"}, Converted)]

UseMyTimesheet == [
  myTimesheet |-> Reads(<<"myTimesheet">>, {"review"}, {"entries", "clientlink"}),
  myCapacity |-> Reads(<<"myCapacity">>, {"home"}, {"items", "assignees", "entries"})]

EntriesChanged ==
  {<<"myTimesheet">>, <<"myCapacity">>, <<"admin", "time-entries">>} \cup ItemsEverywhere

UseMyTimesheetMutations == [
  submitTimesheet |-> Succeeds({"review"}, {"entries"}, {<<"myTimesheet">>, <<"myCapacity">>}),
  editEntry |-> Succeeds({"review"}, {"entries", "items"}, EntriesChanged)]

-----------------------------------------------------------------------------
(* The project page: one bundle seeds eight entries.                        *)

ProjectOverview == [
  overview |-> Reads(<<"projectOverview", "7">>, {"detail"},
    {"project", "name", "members", "items", "assignees", "sprints", "goals", "milestones",
     "feed", "prd", "links", "repo"})]

OverviewSeeds == [
  project |-> <<"project", "7">>, sprints |-> <<"sprints", "7">>,
  goals |-> <<"hubData", "7", "goals">>, milestones |-> <<"hubData", "7", "milestones">>,
  activities |-> <<"hubData", "7", "activities">>, analytics |-> <<"hubData", "7", "analytics">>,
  prd |-> <<"hubData", "7", "prd">>, links |-> <<"project", "7", "links">>]

\* While the overview covers them their own queries stay disabled.
UseProjectDetailQueries == [
  goals |-> Reads(OverviewSeeds.goals, {}, {"goals"}),
  milestones |-> Reads(OverviewSeeds.milestones, {}, {"milestones"}),
  activities |-> Reads(OverviewSeeds.activities, {}, {"feed"}),
  analytics |-> Reads(OverviewSeeds.analytics, {}, {"items", "assignees", "sprints"}),
  prd |-> Reads(OverviewSeeds.prd, {}, {"prd"}),
  links |-> Reads(OverviewSeeds.links, {}, {"links"}),
  hubItems |-> Reads(<<"workItems", "7">>, {"detail"}, {"items", "assignees"}),
  burndown |-> Reads(<<"burndown", Num("7")>>, {"tracker"}, {"items"}),
  template |-> Reads(<<"roadmapTemplate", Num("7")>>, {"detail"}, {"template"})]

UseProjectDetailMutations == [
  addLink |-> Settles({"detail"}, {"links"}, ProjectScope("7")),
  taskUpdate |-> Settles({"detail"}, Status, WorkItemScope("7")),
  saveProject |-> Settles({"detail"}, {"project", "name"}, ProjectScope("7") \cup Projects),
  saveArchitecture |-> Settles({"detail"}, {"project"}, ProjectScope("7")),
  generateRoadmap |-> Succeeds({"detail"}, {"template"}, {<<"roadmapTemplate", Num("7")>>})]

UseProjectDetailMembers == [
  addDeveloper |-> Settles({"detail"}, {"members"}, ProjectScope("7") \cup AdminMembershipImpact),
  removeDeveloper |-> Settles({"detail"}, {"members", "assignees"},
    ProjectScope("7") \cup AdminMembershipImpact),
  promote |-> Settles({"detail"}, {"members"}, ProjectScope("7"))]

HoursDebugPanel == [
  repairHours |-> Succeeds({"tracker"}, {"items"}, BoardBoth)]

PulseKey == <<"pulseOverrides", "7">>
UsePulseQueries == [
  pulseOverrides |-> Reads(PulseKey, {"detail"}, {"pulse"}),
  pulseDerived |-> Reads(<<"pulseDerived", "7">>, {"detail"}, {"items", "members", "milestones"})]
UsePulseOverridesMutation == [
  savePulse |-> Answering(Patching(Settles({"detail"}, {"pulse"}, {}), PulseKey, PulseKey), PulseKey)]

-----------------------------------------------------------------------------
(* The admin dashboard.                                                     *)

UseProjectsAdminQueries == [
  adminProjects |-> Reads(<<"admin", "projects">>, {"admin/projects", "admin/entries"},
    {"project", "name", "members", "items", "cats", "clientlink", "repo"}),
  adminCategories |-> Reads(<<"admin", "projectCategories">>, {"admin/projects"}, {"cats"}),
  weeklyReport |-> Reads(<<"admin", "projectsWeeklyReport", "all">>, {"admin/projects"},
    {"name", "items", "cats"}),
  weeklyTickets |-> Reads(<<"admin", "projectsWeeklyTickets", Num("7")>>, {"admin/row"}, {"items"}),
  memberList |-> Reads(<<"project", Num("7")>>, {"admin/members"}, {"members"})]

CategoryScope ==
  {<<"admin", "projectCategories">>, <<"admin", "projects">>,
   <<"admin", "projectsWeeklyReport">>, <<"projectCategories">>}

UseProjectsAdminCategories == [
  saveCategory |-> Succeeds({"admin/projects"}, {"cats"}, CategoryScope),
  setProjectCategory |-> Succeeds({"admin/projects"}, {"cats"}, CategoryScope),
  saveGitHub |-> Settles({"admin/projects"}, {"repo"},
    {<<"admin", "projects">>, <<"projects">>} \cup ProjectScope("7"))]

MembersScope ==
  {<<"admin", "projects">>, <<"projects">>} \cup ProjectScope("7") \cup AdminMembershipImpact

UseProjectsAdminMembers == [
  addMember |-> Settles({"admin/members"}, {"members"}, MembersScope),
  removeMember |-> Settles({"admin/members"}, {"members", "assignees"}, MembersScope)]

UseUsersAdmin == [
  saveUser |-> Settles({"admin/users"}, {"users", "devs"},
    {<<"admin", "users">>, <<"admin", "employees">>, <<"developers">>}),
  createOrDeleteUser |-> Settles({"admin/users"}, {"users", "devs"},
    {<<"admin", "users">>, <<"admin", "employees">>, <<"admin", "stats">>, <<"developers">>})]

UseUserRoleAssignment == [
  assignRole |-> Settles({"admin/users"}, {"users", "roles", "devs"},
    AdminRoles \cup AdminUserRoleImpact)]

UseEmployeesAdmin == [
  saveEmployee |-> Settles({"admin/employees"}, {"devs"},
    {<<"admin", "employees">>, <<"admin", "stats">>, <<"admin", "developers-capacity">>,
     <<"developers">>})]

UseRolesAdmin == [
  saveRole |-> Settles({"admin/roles"}, {"roles"}, AdminRoles)]

AdminQueries == [
  adminStats |-> Reads(<<"admin", "stats">>, {"admin/dashboard"},
    {"devs", "project", "items", "sprints"}),
  adminUsers |-> Reads(<<"admin", "users">>, {"admin/users"}, {"users", "roles"}),
  adminRoles |-> Reads(<<"admin", "roles">>, {"admin/users", "admin/roles"}, {"roles"}),
  adminEmployees |-> Reads(<<"admin", "employees">>,
    {"admin/projects", "admin/employees", "admin/entries"}, {"devs"}),
  capacity |-> Reads(<<"admin", "developers-capacity">>, {"admin/employees"},
    {"items", "assignees", "entries", "devs"}),
  timeEntries |-> Reads(<<"admin", "time-entries", "all">>, {"admin/entries"}, {"entries"})]

UseWorkforceAdmin == [
  disconnect |-> Succeeds({"admin/integrations"}, {"wf"},
    {<<"admin", "workforceStatus">>, <<"admin", "workforceClients">>}),
  syncNow |-> Succeeds({"admin/integrations"}, {"wf", "entries"}, {<<"admin", "workforceStatus">>}),
  refreshClients |-> Succeeds({"admin/projects"}, {"clients"}, {<<"admin", "workforceClients">>}),
  setProjectClient |-> Succeeds({"admin/projects"}, {"clientlink"},
    {<<"admin", "projects">>, <<"projects">>})]
WorkforceQueries == [
  workforceStatus |-> Reads(<<"admin", "workforceStatus">>,
    {"admin/integrations", "admin/projects", "admin/entries"}, {"wf"}),
  workforceClients |-> Reads(<<"admin", "workforceClients">>, {"admin/projects"}, {"wf", "clients"})]
-----------------------------------------------------------------------------
(* Pages: the layers each one shows, and those of them the user can act on:  *)
(* a dialog covers the page it was opened on, a tab or a panel does not.     *)

Shown(layers) == [shown |-> layers, front |-> layers]
Over(under, dialog) == [shown |-> under \cup {dialog}, front |-> {dialog}]

Layers == [
  home |-> Shown({"home"}), create |-> Over({"home"}, "create"),
  taskForm |-> Over({"home"}, "taskForm"), review |-> Over({"home"}, "review"),
  ticket |-> Over({"home"}, "ticket"),
  tasks |-> Shown({"tasks"}), tasksForm |-> Over({"tasks"}, "taskForm"),
  detail |-> Shown({"detail"}), tracker |-> Shown({"detail", "tracker"}),
  board |-> Shown({"board"}), aiPlanning |-> Over({"board"}, "aiPlanning"),
  drawer |-> Over({"board"}, "drawer"),
  activity |-> [shown |-> {"board", "drawer", "activity"}, front |-> {"drawer"}],
  dashboard |-> Shown({"admin/dashboard"}), adminUsers |-> Shown({"admin/users"}),
  adminProjects |-> Shown({"admin/projects"}),
  members |-> Over({"admin/projects"}, "admin/members"),
  row |-> Shown({"admin/projects", "admin/row"}), employees |-> Shown({"admin/employees"}),
  entries |-> Shown({"admin/entries"}), integrations |-> Shown({"admin/integrations"}),
  roles |-> Shown({"admin/roles"})]

\* Opened by a flag of a component that stays mounted: its queries' enabled
\* option flips instead of a mount.
ByFlag == {"create", "taskForm", "tasksForm", "activity", "members"}

-----------------------------------------------------------------------------
(* The tables joined, and what the rows come to.                            *)

Queries == UseBoardData @@ AIPlanningQuery @@ UseWorkItemPanelQueries @@ HomeQueries
  @@ UseMyTimesheet @@ ProjectOverview @@ UseProjectDetailQueries @@ UsePulseQueries
  @@ UseProjectsAdminQueries @@ AdminQueries @@ WorkforceQueries
Mutations == UseWorkItemMutations @@ UseSprintMutations @@ UseCommentMutation @@ AIPlanning
  @@ UseWorkItemPanelCompact @@ UseWorkItemPanelFull @@ UseProjectsList @@ UseMyTasks
  @@ UsePersonalTaskMutations @@ UseMyTimesheetMutations @@ UseProjectDetailMutations
  @@ UseProjectDetailMembers @@ HoursDebugPanel @@ UsePulseOverridesMutation
  @@ UseProjectsAdminCategories @@ UseProjectsAdminMembers @@ UseUsersAdmin
  @@ UseUserRoleAssignment @@ UseEmployeesAdmin @@ UseRolesAdmin @@ UseWorkforceAdmin

\* The queries a set of key prefixes, or of keys, stands for.
Matching(prefixes) ==
  {q \in DOMAIN Queries : \E prefix \in prefixes : IsPrefix(prefix, Queries[q].key)}
Holding(keys) == {q \in DOMAIN Queries : Queries[q].key \in keys}

HookActive == [p \in DOMAIN Layers |->
  {q \in DOMAIN Queries : Queries[q].layers \cap Layers[p].shown # {}}]
HookFrom == [m \in DOMAIN Mutations |->
  {p \in DOMAIN Layers : Mutations[m].layers \cap Layers[p].front # {}}]
HookWrites == [m \in DOMAIN Mutations |->
  {q \in DOMAIN Queries : Queries[q].facets \cap Mutations[m].facets # {}}]
HookOnSettled == [m \in DOMAIN Mutations |-> Matching(Mutations[m].settled)]
HookOnSuccess == [m \in DOMAIN Mutations |-> Matching(Mutations[m].success)]
HookRemoves == [m \in DOMAIN Mutations |-> Matching(Mutations[m].removes)]
HookCancels == [m \in DOMAIN Mutations |-> Matching(Mutations[m].cancels)]
HookOptimistic == [m \in DOMAIN Mutations |-> Holding(Mutations[m].optimistic)]
HookPatches == [m \in DOMAIN Mutations |-> Holding(Mutations[m].patches)]
\* Queries a mutation changes on the very page it is offered on, and whose
\* invalidation its hook lacks.
KnownGaps == [
  moveSprint |-> {"project"}, boardComment |-> {"boardItems"}, analyzePRD |-> {"prdExists"},
  createSubtask |-> {"project", "sprints", "itemActivity"},
  updateTestCaseStatus |-> {"project", "sprints", "comments", "itemActivity"},
  unblock |-> {"itemActivity"},
  saveEditCompact |-> {"projects", "myCapacity"},
  statusChangeCompact |-> {"projects", "myCapacity"},
  logHoursCompact |-> {"projects", "myCapacity"},
  myStatus |-> {"projects", "myCapacity"}, myDueDate |-> {"projects", "myCapacity"},
  createTask |-> {"projects", "myCapacity"}, convertTask |-> {"projects", "myCapacity"},
  deleteProject |-> {"myTasks", "myCapacity"}, editEntry |-> {"projects"},
  taskUpdate |-> {"burndown", "pulseDerived"}, repairHours |-> {"burndown", "pulseDerived"},
  addDeveloper |-> {"pulseDerived"}, promote |-> {"pulseDerived"},
  removeDeveloper |-> {"hubItems", "pulseDerived"},
  savePulse |-> {"pulseOverrides"},
  addMember |-> {"memberList"}, removeMember |-> {"memberList"}]
HookGaps == [m \in DOMAIN Mutations |-> IF m \in DOMAIN KnownGaps THEN KnownGaps[m] ELSE {}]

HookSeeded == Holding({OverviewSeeds[part] : part \in DOMAIN OverviewSeeds})

\* lib/queryClient.ts
QueryDefaults == [refetchOnMount |-> FALSE]
HookRefetchOnMount == QueryDefaults.refetchOnMount
=============================================================================
