------------------------------ MODULE RoleEditor ------------------------------
(***************************************************************************)
(* The role editor's checkboxes (RoleModal over lib/capabilityPicker.ts):  *)
(* a role is a set of grants, exact keys and wildcards, and the boxes are  *)
(* a view of that set; ticking one rewrites it.  The server gives access   *)
(* by capabilities.py's matches over the same set.                         *)
(*                                                                         *)
(* A key is the sequence of its dotted parts.  A save replaces the role's  *)
(* set by the form's, and opening the role again goes on from that set, so *)
(* what is saved is not a state of its own.                                *)
(***************************************************************************)
EXTENDS SequencesExt, FiniteSets, Naturals

CONSTANTS
  Capability,  \* the keys that the server knows
  Group,       \* the groups of the catalogue: a wildcard and the rows below it
  Labels,      \* the rows that are shown
  Role         \* the sets of grants of a new role and of the roles there are

VARIABLES
  grants,        \* roleForm.capability_keys
  showRoleModal

roleVars == <<grants, showRoleModal>>

Full == <<"*">>
NoGrant == <<>>
Side == {"read", "write"}
Rows(n) == {n} \cup n.children
Items(g) == {n \in g.rows : n.label \in Labels}

-----------------------------------------------------------------------------
Wildcard(g) == g # NoGrant /\ Last(g) = "*"
wildcardCovers(g, key) == Wildcard(g) /\ IsPrefix(Front(g), key)
keyIsUnderGrant(key, g) == key = g \/ wildcardCovers(g, key)

(* What the server lets a holder do. *)
matches(needed, G) == \E g \in G : keyIsUnderGrant(needed, g)
(* What the page takes a holder for. *)
isGrantHeld(grant, G) == \E g \in G : g = grant \/ wildcardCovers(g, grant)

(* Faulty: one ticked child ticks its parent. *)
isSideEffectiveBySome(n, side, G) ==
  /\ n[side] # NoGrant
  /\ \/ isGrantHeld(n[side], G)
     \/ \E c \in n.children : c[side] # NoGrant /\ isGrantHeld(c[side], G)
isSideEffective(n, side, G) ==
  /\ n[side] # NoGrant
  /\ \/ isGrantHeld(n[side], G)
     \/ /\ n.children # {}
        /\ \A c \in n.children : c[side] = NoGrant \/ isGrantHeld(c[side], G)

isGroupEffective(g, G) ==
  \/ isGrantHeld(g.wildcard, G)
  \/ \A n \in Items(g) : \A m \in Rows(n), side \in Side :
       m[side] = NoGrant \/ isSideEffective(m, side, G)

sweepUnder(grant, G) ==
  IF Wildcard(grant) THEN {h \in G : ~IsPrefix(Front(grant), h)} ELSE G \ {grant}

-----------------------------------------------------------------------------
(* What the promises below take from the catalogue.                         *)

Key == Seq(STRING)
Leaf == [label : STRING, read : Key, write : Key, children : {{}}]
Node == [label : STRING, read : Key, write : Key, children : SUBSET Leaf]

PickerRow == UNION {Rows(n) : n \in UNION {g.rows : g \in Group}}
Wide == {Full} \cup {g.wildcard : g \in Group}
Grant == (Wide \cup {n.read : n \in PickerRow} \cup {n.write : n \in PickerRow}) \ {NoGrant}

(* The grants that give a grant or a key, and the keys a grant gives.       *)
Above(x) == {h \in Grant : keyIsUnderGrant(x, h)}
KeysOf(grant) == {k \in Capability : keyIsUnderGrant(k, grant)}

(* Nothing wider gives a wildcard than full access, and nothing gives a row *)
(* but its own grant, that of the row above it, its group's and full access. *)
GrantsNest ==
  /\ \A k \in Capability \cup Grant, x \in Grant : \A y \in Above(x) :
       keyIsUnderGrant(k, x) => keyIsUnderGrant(k, y)
  /\ Above(Full) = {Full}
  /\ \A g \in Group :
       /\ Above(g.wildcard) = {g.wildcard, Full}
       /\ \A n \in g.rows : \A m \in Rows(n), side \in Side : m[side] # NoGrant =>
            Above(m[side]) = {m[side], n[side], g.wildcard, Full} \ {NoGrant}

(* Each box has a grant of its own, which some key tells from others.       *)
BoxesDiffer ==
  \A m \in PickerRow, side \in Side : m[side] # NoGrant =>
    /\ m[side] \notin Wide
    /\ \A l \in PickerRow, s \in Side : l[s] = m[side] => l = m /\ s = side
    /\ m.children = {} => \E k \in KeysOf(m[side]) : Above(k) = Above(m[side])

(* A row with rows below it is for reading, and they are all there is to it. *)
ParentsAreRead ==
  \A n \in PickerRow : n.children # {} =>
    /\ \A m \in Rows(n) : m.write = NoGrant /\ m.read # NoGrant
    /\ KeysOf(n.read) \subseteq UNION {KeysOf(m.read) : m \in n.children}

(* Of a role: its grants are those of boxes, and it may see what it writes. *)
Readable(G) ==
  /\ G \subseteq Grant
  /\ \A n \in PickerRow : n.read # NoGrant /\ n.write \in G => isGrantHeld(n.read, G \ {Full})

ASSUME CatalogueAssumption ==
  /\ Capability \cup {Full} \subseteq Key \ {NoGrant}
  /\ Group \subseteq [wildcard : Key \ {NoGrant}, rows : SUBSET Node]
  /\ \A g \in Group : \A n \in g.rows : n.read # NoGrant \/ n.write # NoGrant
  /\ \A g \in Group : Items(g) # {}
  /\ \A x \in Grant : KeysOf(x) # {}
  /\ GrantsNest /\ BoxesDiffer /\ ParentsAreRead
  /\ \A G \in Role : Readable(G)
  /\ {} \in Role

-----------------------------------------------------------------------------
(* The boxes.  Of a key under a wildcard nothing is expanded: only the full *)
(* access box is toggled this way, and no wildcard covers it.              *)
ToggleFullAccess ==
  /\ showRoleModal
  /\ grants' = IF Full \in grants THEN grants \ {Full} ELSE grants \cup {Full}
  /\ UNCHANGED showRoleModal

AfterGroup(g) ==
  sweepUnder(g.wildcard, grants)
    \cup (IF isGroupEffective(g, grants) THEN {} ELSE {g.wildcard})
ToggleGroupWildcard(g) ==
  /\ showRoleModal /\ Full \notin grants
  /\ grants' = AfterGroup(g)
  /\ UNCHANGED showRoleModal

ReadOff(n) ==
  {h \in grants : \A m \in Rows(n) :
         h # m.write /\ (m.read # NoGrant => h \in sweepUnder(m.read, grants))}
ReadOn(n) == sweepUnder(n.read, grants) \cup {n.read}
WriteOff(n) == grants \ {n.write}
WriteOn(n) ==
  {n.write} \cup
    IF n.read # NoGrant /\ ~isSideEffective(n, "read", grants) THEN ReadOn(n) ELSE grants

AfterClick(n, side) ==
  CASE side = "read" /\ isSideEffective(n, side, grants) -> ReadOff(n)
    [] side = "read" /\ ~isSideEffective(n, side, grants) -> ReadOn(n)
    [] side = "write" /\ isSideEffective(n, side, grants) -> WriteOff(n)
    [] OTHER -> WriteOn(n)

(* Faulty: a child's box stays enabled below a wildcard. *)
CoveredByGroup(g, parent, n) == Full \in grants \/ isGrantHeld(g.wildcard, grants)
Covered(g, parent, n) ==
  \/ Full \in grants \/ isGrantHeld(g.wildcard, grants)
  \/ n # parent /\ parent.read # NoGrant /\ parent.read \in grants

Enabled(g, parent, n, side) == n[side] # NoGrant /\ ~Covered(g, parent, n)
TogglePickerCheckbox(g, parent, n, side) ==
  /\ showRoleModal /\ Enabled(g, parent, n, side)
  /\ grants' = AfterClick(n, side)
  /\ UNCHANGED showRoleModal

-----------------------------------------------------------------------------
(* A new role has no grants; another has its own.                           *)
OpenRole(G) ==
  /\ ~showRoleModal
  /\ showRoleModal' = TRUE /\ grants' = G
CloseRole == showRoleModal /\ showRoleModal' = FALSE /\ UNCHANGED grants

RoleInit == grants = {} /\ showRoleModal = FALSE

RoleNext ==
  \/ \E G \in Role : OpenRole(G)
  \/ CloseRole
  \/ ToggleFullAccess
  \/ \E g \in Group : ToggleGroupWildcard(g)
  \/ \E g \in Group : \E parent \in Items(g) : \E n \in Rows(parent) :
       \E side \in Side : TogglePickerCheckbox(g, parent, n, side)

RoleSpec == RoleInit /\ [][RoleNext]_roleVars

-----------------------------------------------------------------------------
(* Properties.                                                              *)

(* The capabilities of the rows that are shown.                             *)
KeysOfRow(n) == UNION {KeysOf(m.read) \cup KeysOf(m.write) : m \in Rows(n)}
KeysOfGroup(g) == UNION {KeysOfRow(n) : n \in Items(g)}

(* What a box says is what the server does: it is ticked exactly when a    *)
(* holder of the set has every capability of its row on that side, or of   *)
(* its group; nobody may write what they cannot see; and the server takes  *)
(* every grant (_validate_grants_or_400).                                  *)
BoxesTellAccess == showRoleModal =>
  \A g \in Group :
    /\ isGroupEffective(g, grants) <=> \A k \in KeysOfGroup(g) : matches(k, grants)
    /\ \A n \in Items(g) :
         /\ \A m \in Rows(n), side \in Side : m[side] # NoGrant =>
              (isSideEffective(m, side, grants) <=> \A k \in KeysOf(m[side]) : matches(k, grants))
         /\ n.read # NoGrant /\ n.write # NoGrant /\ isSideEffective(n, "write", grants)
              => isSideEffective(n, "read", grants)
    /\ \A h \in grants : KeysOf(h) # {}

(* A click on a box that is enabled flips that box (one that did nothing   *)
(* would be no step), and gives or takes no capability of another row or   *)
(* another group.                                                          *)
ClickIsLocal == showRoleModal =>
  \A g \in Group :
    /\ \A parent \in Items(g) : \A n \in Rows(parent), side \in Side :
         Enabled(g, parent, n, side) =>
           LET after == AfterClick(n, side)
           IN  /\ isSideEffective(n, side, after) # isSideEffective(n, side, grants)
               /\ \A k \in Capability \ KeysOfRow(n) : matches(k, after) = matches(k, grants)
    /\ Full \notin grants =>
         /\ isGroupEffective(g, AfterGroup(g)) # isGroupEffective(g, grants)
         /\ \A k \in Capability \ KeysOf(g.wildcard) :
              matches(k, AfterGroup(g)) = matches(k, grants)
=============================================================================
