------------------------------- MODULE BoardTree -------------------------------
(***************************************************************************)
(* The board page's copy of the tree of work items: the rows its views     *)
(* show, and the forms that create and relink items.  The page repeats the *)
(* server's rules (validateReparent mirrors services/hierarchy.py) on a    *)
(* copy that may be behind, and the server, whose rules are those of       *)
(* WorkItemTree, has the last word.                                        *)
(*                                                                         *)
(* A row here is its place in the tree and its sprint.  Filters choose any *)
(* set of rows (a search text can), so the views are checked on every set. *)
(***************************************************************************)
EXTENDS FiniteSets, Naturals

CONSTANTS
  Item,        \* ids of work items; bound: rows at a time
  NoItem,      \* null in parent_id and epic_id
  Sprint, NoSprint,
  Closed,      \* no form, no row, no sprint
  MaxAhead     \* bound: writes since the list was fetched

VARIABLES
  live, row,   \* the table
  sprint,      \* the sprints: "open", "over" or Closed
  list,        \* the page's copy of the items
  sprints,     \* and of the sprints, fetched separately
  form,        \* the form on the screen
  ahead        \* writes since the list was fetched

boardVars == <<live, row, sprint, list, sprints, form, ahead>>

Tree == INSTANCE WorkItemTree WITH
  Req <- {}, Keep <- Closed, OpenStatus <- {"todo"}, Change <- {},
  Batch <- FALSE, Crashes <- FALSE, issued <- live, task <- <<>>

Link == Item \cup {NoItem}
ItemRow == [type : Tree!Kind, parent : Link, epic : Link, sprint : Sprint \cup {NoSprint}]
BlankRow == [type |-> "task", parent |-> NoItem, epic |-> NoItem, sprint |-> NoSprint]
Table == [i \in Item |-> IF i \in live THEN row[i] ELSE Closed]
Loaded == {i \in Item : list[i] # Closed}

(* The fields of a form, and two marks of the model: it was opened on the  *)
(* tree as it still is, and with links that the server would take again.   *)
Form == [dialog : {"edit", "create", "child"}, item : Link, row : ItemRow,
         alone : BOOLEAN, sound : BOOLEAN]

ASSUME BoardAssumption ==
  /\ IsFiniteSet(Item) /\ MaxAhead \in Nat
  /\ NoItem \notin Item /\ NoSprint \notin Sprint
  /\ Closed \notin ItemRow \cup Form \cup {"open", "over"}

BoardTypeOK ==
  /\ live \subseteq Item /\ row \in [Item -> ItemRow]
  /\ sprint \in [Sprint -> {"open", "over", Closed}]
  /\ list \in [Item -> ItemRow \cup {Closed}]
  /\ sprints \in [Sprint -> {"open", "over", Closed}]
  /\ form \in Form \cup {Closed}
  /\ ahead \in 0..MaxAhead

BoardInit ==
  /\ live = {} /\ row = [i \in Item |-> BlankRow]
  /\ sprint = [s \in Sprint |-> Closed]
  /\ list = Table /\ sprints = sprint
  /\ form = Closed /\ ahead = 0

-----------------------------------------------------------------------------
(* The rules of the page (lib/hierarchy).                                   *)

AllowedTargets(k, field) ==
  CASE field = "epic" /\ k \in {"user_story", "task"} -> {"epic"}
    [] field = "parent" /\ k = "subtask" -> {"user_story", "task"}
    [] field = "parent" /\ k = "test_case" -> {"user_story"}
    [] OTHER -> {}
Supports(k, field) == AllowedTargets(k, field) # {}

HasChildren(i) == i # NoItem /\ \E j \in Loaded : list[j].parent = i

(* The walk from target along the links of one field meets the subject.    *)
WouldCreateCycle(i, target, field) ==
  LET Reach[n \in 0..Cardinality(Item)] ==
        IF n = 0 THEN {target}
        ELSE Reach[n - 1] \cup {list[j][field] : j \in Reach[n - 1] \cap Loaded}
  IN  i # NoItem /\ i \in Reach[Cardinality(Item)]

ValidReparent(i, k, target, field) ==
  /\ target # i
  /\ list[target].type \in AllowedTargets(k, field)
  /\ ~WouldCreateCycle(i, target, field)
  /\ field = "parent" => list[target].parent = NoItem /\ ~HasChildren(i)

(* parentExcludeIds: what has a parent, the item, and what is below it.    *)
Excluded(i, field) ==
  CASE field = "epic" -> {i}
    [] OTHER -> {i} \cup {j \in Loaded : list[j].parent # NoItem}

Options(k, i, field) ==
  {j \in Loaded : list[j].type \in AllowedTargets(k, field)} \ Excluded(i, field)

(* What the pickers of the form let the user choose.                       *)
Pickable(field) ==
  IF field = "parent" /\ HasChildren(form.item) THEN {}
  ELSE {t \in Options(form.row.type, form.item, field) :
          form.dialog = "edit" => ValidReparent(form.item, form.row.type, t, field)}

-----------------------------------------------------------------------------
(* The views.  A row of a view is at a depth of a group.                    *)

Epics == {i \in Loaded : list[i].type = "epic"}
Visible == {i \in Loaded : list[i].type # "test_case"}

(* Faulty: a subtask whose parent is filtered out still looks for it. *)
OrderUnderHidden(group) ==
  {<<i, 0>> : i \in {j \in group : list[j].parent = NoItem}}
    \cup {<<i, 1>> : i \in {j \in group : list[j].parent \in group}}
OrderWithSubtasks(group) ==
  LET parents == {i \in group : list[i].parent \notin group}
  IN  {<<i, 0>> : i \in parents}
        \cup {<<i, 1>> : i \in {j \in group : list[j].parent \in parents}}

EpicRow(g, r) == [group |-> g, item |-> r[1], depth |-> r[2]]
EpicGroups(shown) ==
  LET Below(g) == {i \in shown \ Epics :
                     list[i].epic = g \/ (g = NoItem /\ list[i].epic \notin Epics)}
  IN  UNION {{EpicRow(g, r) : r \in OrderWithSubtasks(Below(g))} : g \in Epics \cup {NoItem}}

IsSprintCompleted(s) == sprints[s] = "over"
OrderedListSprints(showCompleted) ==
  {s \in Sprint : sprints[s] # Closed /\ (showCompleted \/ ~IsSprintCompleted(s))}
ListRow(g, i) == [group |-> g, item |-> i, depth |-> 0]
ListGroups(shown, showCompleted) ==
  UNION {{ListRow(g, i) : i \in {j \in shown : list[j].sprint = g}} :
           g \in OrderedListSprints(showCompleted) \cup {NoSprint}}

-----------------------------------------------------------------------------
(* The user's forms.                                                        *)

Alike(t) == t = Table
Sound(i, r) == Tree!validate_hierarchy(i, r.type, r.parent, r.epic)

Opens(dialog, i, r, alone) ==
  /\ form = Closed
  /\ form' = [dialog |-> dialog, item |-> i, row |-> r, alone |-> alone,
              sound |-> dialog # "edit" \/ Sound(i, r)]
  /\ UNCHANGED <<live, row, sprint, list, sprints, ahead>>

(* startEditing copies the whole item: the list's row, or the detail       *)
(* fetched over it.                                                        *)
StartEditing(i) ==
  /\ i \in Loaded
  /\ \E r \in {list[i]} \cup {row[j] : j \in {i} \cap live} :
       Opens("edit", i, r, Alike(list) /\ r = row[i])

OpenCreate(k) ==
  Opens("create", NoItem, [BlankRow EXCEPT !.type = k], Alike(list))

(* Add subtask, add test case: in the drawer of an item that may have one. *)
AddChild(i, k) ==
  /\ i \in Loaded
  /\ list[i].type \in AllowedTargets(k, "parent")
  /\ Opens("child", NoItem, [BlankRow EXCEPT !.type = k, !.parent = i], Alike(list))

Fills(r) ==
  /\ form' = [form EXCEPT !.row = r]
  /\ UNCHANGED <<live, row, sprint, list, sprints, ahead>>

(* Faulty: links that the new type does not have stay in the form. *)
PickTypeKeepsLinks(k) ==
  /\ form # Closed /\ form.dialog # "child" /\ form.row.type # k
  /\ k \in {"user_story", "task", "epic"}
  /\ Fills([form.row EXCEPT !.type = k])
PickType(k) ==
  /\ form # Closed /\ form.row.type # k
  /\ \/ form.dialog = "edit" /\ list[form.item] # Closed /\ list[form.item].type # "test_case"
     \/ form.dialog = "create" /\ form.row.type # "epic" /\ k # "epic"
  /\ k \in {"user_story", "task", "epic"}
  /\ Fills([form.row EXCEPT
       !.type = k,
       !.epic = IF Supports(k, "epic") THEN @ ELSE NoItem,
       !.parent = IF Supports(k, "parent") THEN @ ELSE NoItem])

PickEpic(e) ==
  /\ form # Closed /\ form.dialog # "child" /\ form.row.epic # e
  /\ Supports(form.row.type, "epic")
  /\ e \in Pickable("epic") \cup {NoItem}
  /\ Fills([form.row EXCEPT !.epic = e])

PickParent(p) ==
  /\ form # Closed /\ form.dialog # "child" /\ form.row.parent # p
  /\ form.row.type = "subtask"
  /\ ~HasChildren(form.item)
  /\ p \in Pickable("parent") \cup {NoItem}
  /\ Fills([form.row EXCEPT !.parent = p])

CloseForm == form # Closed /\ form' = Closed
             /\ UNCHANGED <<live, row, sprint, list, sprints, ahead>>

-----------------------------------------------------------------------------
(* The server.                                                              *)

(* Whoever writes, the forms that are open were opened before.             *)
Overtaken == IF form = Closed THEN Closed ELSE [form EXCEPT !.alone = FALSE]
Counted == ahead < MaxAhead /\ ahead' = ahead + 1

SprintExists(r) == r.sprint # NoSprint => sprint[r.sprint] # Closed
Accepted(i, r) == Sound(i, r) /\ SprintExists(r) /\ (i # NoItem => i \in live)

Stored(i, r) ==
  /\ Accepted(i, r)
  /\ \/ i # NoItem /\ row' = [row EXCEPT ![i] = r] /\ live' = live
     \/ \E j \in Item \ live :
          i = NoItem /\ row' = [row EXCEPT ![j] = r] /\ live' = live \cup {j}

(* A save sends every field the form was seeded with, changed or not.  The *)
(* form closes before the answer.                                          *)
SaveForm ==
  /\ form # Closed
  /\ form' = Closed
  /\ \/ Stored(form.item, form.row) /\ Counted
     \/ ~Accepted(form.item, form.row) /\ UNCHANGED <<live, row, ahead>>
  /\ UNCHANGED <<sprint, list, sprints>>

(* Other pages and other clients write what the server takes.              *)
OtherSaves ==
  /\ Counted
  /\ \E i \in Link, r \in ItemRow : (i \in live => r # row[i]) /\ Stored(i, r)
  /\ form' = Overtaken
  /\ UNCHANGED <<sprint, list, sprints>>

OtherDeletes(i) ==
  /\ i \in live /\ Counted
  /\ live' = live \ {i}
  /\ row' = [j \in Item |->
       IF j = i THEN BlankRow
       ELSE [row[j] EXCEPT !.parent = Tree!Unlink(@, {i}), !.epic = Tree!Unlink(@, {i})]]
  /\ form' = Overtaken
  /\ UNCHANGED <<sprint, list, sprints>>

SetSprint(s, from, to) ==
  sprint[s] = from /\ sprint' = [sprint EXCEPT ![s] = to]

CreateSprint(s) ==
  /\ SetSprint(s, Closed, "open")
  /\ UNCHANGED <<live, row, list, sprints, form, ahead>>
(* Completed, or its last day has passed.                                  *)
EndSprint(s) ==
  /\ SetSprint(s, "open", "over")
  /\ UNCHANGED <<live, row, list, sprints, form, ahead>>
(* Its items go to the backlog in the same transaction.                    *)
DeleteSprint(s) ==
  /\ \E from \in {"open", "over"} : SetSprint(s, from, Closed)
  /\ row' = [i \in Item |-> IF row[i].sprint = s THEN [row[i] EXCEPT !.sprint = NoSprint]
                            ELSE row[i]]
  /\ IF row' = row THEN UNCHANGED <<form, ahead>> ELSE Counted /\ form' = Overtaken
  /\ UNCHANGED <<live, list, sprints>>

FetchItems ==
  /\ list # Table
  /\ list' = Table /\ ahead' = 0
  /\ UNCHANGED <<live, row, sprint, sprints, form>>
FetchSprints ==
  /\ sprints # sprint
  /\ sprints' = sprint
  /\ UNCHANGED <<live, row, sprint, list, form, ahead>>

BoardNext ==
  \/ \E i \in Item : StartEditing(i)
  \/ \E k \in Tree!Kind : OpenCreate(k) \/ PickType(k) \/ \E i \in Item : AddChild(i, k)
  \/ \E i \in Link : PickEpic(i) \/ PickParent(i)
  \/ CloseForm \/ SaveForm \/ OtherSaves
  \/ \E i \in Item : OtherDeletes(i)
  \/ \E s \in Sprint : CreateSprint(s) \/ EndSprint(s) \/ DeleteSprint(s)
  \/ FetchItems \/ FetchSprints

BoardSpec == BoardInit /\ [][BoardNext]_boardVars

-----------------------------------------------------------------------------
(* Properties.                                                              *)

(* The page's rules are the server's: on a tree nobody else has touched,   *)
(* the pickers offer exactly the targets the server takes, and every save  *)
(* of a form that was opened with acceptable links is accepted, whatever   *)
(* was picked in between (validateReparent.ts, "keep the two in sync").    *)
FormsMatchTheServer ==
  form # Closed /\ form.alone =>
    /\ form.sound => Sound(form.item, form.row)
    /\ form.dialog # "child" =>
         /\ Pickable("epic") = {e \in Item : Tree!ValidEpic(form.item, form.row.type, e)}
         /\ Pickable("parent") = {p \in Item : Tree!ValidParent(form.item, form.row.type, p)}

Once(view, i) == Cardinality({r \in view : r.item = i}) = 1

(* Whatever the filters let through is on the screen, once: in the epic    *)
(* view always, in the list of sprints unless its sprint is a completed    *)
(* one that is hidden or one of the page's copies is behind.  It rests on  *)
(* the server's depth cap, and on a sprint's items leaving with it.        *)
NothingHidden ==
  /\ \A shown \in SUBSET Visible : \A i \in shown \ Epics :
       Once(EpicGroups(shown), i)
  /\ \A i \in Visible, showCompleted \in BOOLEAN :
       \/ Once(ListGroups(Visible, showCompleted), i)
       \/ list[i] # Table[i]
       \/ LET s == list[i].sprint
          IN  s # NoSprint /\ (sprints[s] # sprint[s] \/ (~showCompleted /\ IsSprintCompleted(s)))
=============================================================================
