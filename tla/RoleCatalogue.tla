---------------------------- MODULE RoleCatalogue ----------------------------
(* The capabilities of the server, the catalogue of the role editor and the  *)
(* roles it is opened with.  A key is the sequence of its dotted parts.      *)

(* CAPABILITIES *)
Capabilities ==
  {<<"project", "overview", s>> : s \in {"prd", "architecture", "team", "resources"}}
    \cup {<<"project", "tracker", s>> : s \in {"sprints", "analytics"}}
    \cup {<<"project", "pulse", "settings">>, <<"project", "ai", "write">>}
    \cup {<<"project", "pm", s>> : s \in {"summary_cards", "developer_hours"}}
    \cup {<<"project", s>> : s \in {"calendar", "pulse", "activity", "pm", "board",
            "tracker_write", "overview_write", "create", "assign_personal_task"}}
    \cup {<<"admin", s>> : s \in {"dashboard", "employees", "employees_write", "projects",
            "projects_write", "users", "users_write", "roles", "roles_write",
            "time_entries", "workforce_connect"}}

PickerItem(label, read, write, children) ==
  [label |-> label, read |-> read, write |-> write, children |-> children]
ReadWrite(label, read, write) == PickerItem(label, read, write, {})
ReadOnly(label, read) == ReadWrite(label, read, <<>>)
WriteOnly(label, write) == ReadWrite(label, <<>>, write)

(* PROJECT_TABS *)
TabRows ==
  {ReadWrite("Overview", <<"project", "overview", "*">>, <<"project", "overview_write">>),
   ReadOnly("Project Tracker", <<"project", "tracker", "*">>),
   ReadOnly("Timeline", <<"project", "calendar">>),
   ReadOnly("Pulse", <<"project", "pulse">>),
   ReadOnly("Activity", <<"project", "activity">>),
   PickerItem("Project Manager", <<"project", "pm", "*">>, <<>>,
     {ReadOnly("Access tab", <<"project", "pm">>),
      ReadOnly("Summary cards", <<"project", "pm", "summary_cards">>),
      ReadOnly("Developer hours", <<"project", "pm", "developer_hours">>)}),
   WriteOnly("Pulse Settings", <<"project", "pulse", "settings">>)}

(* buildPickerCatalog *)
ProjectRows == TabRows \cup
  {ReadWrite("Project Board", <<"project", "board">>, <<"project", "tracker_write">>),
   WriteOnly("AI Generators", <<"project", "ai", "write">>),
   WriteOnly("Create new projects", <<"project", "create">>),
   WriteOnly("Assign personal tasks", <<"project", "assign_personal_task">>)}
AdminRows ==
  {ReadOnly("Dashboard", <<"admin", "dashboard">>),
   ReadWrite("Employees", <<"admin", "employees">>, <<"admin", "employees_write">>),
   ReadWrite("Projects", <<"admin", "projects">>, <<"admin", "projects_write">>),
   ReadOnly("Time Entries", <<"admin", "time_entries">>),
   ReadWrite("Users", <<"admin", "users">>, <<"admin", "users_write">>),
   ReadWrite("Roles", <<"admin", "roles">>, <<"admin", "roles_write">>),
   ReadOnly("Integrations", <<"admin", "workforce_connect">>)}
Groups ==
  {[wildcard |-> <<"project", "*">>, rows |-> ProjectRows],
   [wildcard |-> <<"admin", "*">>, rows |-> AdminRows]}

(* SYSTEM_ROLES, as far as the rows shown can hold them, and a new role.    *)
Roles(labels) ==
  LET developer == {<<"project", "overview", "*">>, <<"project", "tracker", "*">>}
                     \cup {<<"project", s>> : s \in {"tracker_write", "board", "calendar",
                             "pulse", "activity", "create", "assign_personal_task"}}
                     \cup {<<"project", "ai", "write">>}
      shown == UNION {{n.read, n.write} : n \in {m \in ProjectRows : m.label \in labels}}
  IN  {{}, {<<"*">>}, {<<"project", "*">>}, developer \cap shown}
=============================================================================
