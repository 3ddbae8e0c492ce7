----------------------------- MODULE ScreensProofs -----------------------------
(***************************************************************************)
(* The promises of Dialogs, Controls and Panels for any table of dialogs,   *)
(* controls and panels whose rows keep to the conditions that each theorem  *)
(* names, any subjects, any number of openings, clicks, calls and answers   *)
(* (MCDialogs evaluates the conditions on the rows of this client); and     *)
(* those of the board for any items, sprints and bounds, and of the role    *)
(* editor for any catalogue that CatalogueAssumption is true of.            *)
(***************************************************************************)
EXTENDS Dialogs, Controls, Panels, BoardTree, RoleEditor,
  FiniteSetTheorems, SequenceTheorems, WellFoundedInduction, TLAPS

-----------------------------------------------------------------------------
(* Dialogs: the inductive invariant.                                        *)

\* A call was made in an opening that has been, with a keystroke that was typed.
Past == \A k \in Made : call[k].version <= typed /\ call[k].opening <= openings

\* A draft of the dialog's own does not outlive its opening.
OwnDraft ==
  ~This.keeps =>
    \A k \in Made : call[k].version = draft.version /\ draft.version # 0 =>
      shown \in {0, call[k].opening}

\* The form no longer holds what the call made, or cannot be sent before it
\* is cleared, or not before the call is answered.
Held(k) ==
  \/ call[k].version # draft.version
  \/ shown = 0 /\ (~This.keeps \/ "open" \in This.resets)
  \/ k \in Pending /\ (This.guard = "page" \/ (This.guard = "mount" /\ call[k].opening = shown))

SentOnce ==
  MakesOne(This) =>
    /\ \A k \in Made : call[k].version # 0
    /\ \A k \in Made : Creating(k) => Held(k)
    /\ "clears" \in This.submit => \A k \in Made : call[k].version # draft.version
    /\ \A k, l \in Made : k # l /\ call[k].version = call[l].version =>
         ~(Creating(k) /\ Creating(l))

\* Of calls of one request, those that failed have made nothing.
FailedMadeNothing ==
  \A k \in Made :
    /\ call[k].made => call[k].state # "sent"
    /\ This.steps = 1 /\ call[k].made => call[k].state \in {"ok", "won"}

\* A keystroke is given up, or acknowledged.
Secured(v) == v = 0 \/ v \in excused \/ \E k \in Made : call[k].version = v /\ call[k].state = "won"

NothingLost ==
  Forgiving(This) =>
    /\ ~filling
    /\ \A k \in Pending : draft.version \in {0, call[k].version} \cup excused
    /\ shown = 0 => Secured(draft.version)
    /\ \A v \in 1..typed : Secured(v) \/ v = draft.version

OnSubject ==
  Aimed(This) =>
    /\ shown # 0 => draft.of = subject[shown]
    /\ ~This.many => \A n \in Opening : subject[n] = draft.of
    /\ ~This.many => \A k \in Made : call[k].subject = draft.of
    /\ \A k \in Made : call[k].of = call[k].subject /\ call[k].named \in {call[k].subject, Nothing}

\* Whoever is locked in or out is where the call was sent, or nowhere.
Waits ==
  /\ This.success # "shows" /\ "open" \in This.locked =>
       \A k \in Pending : shown \in {0, call[k].opening}
  /\ This.guard = "page" /\ "leave" \in This.locked /\ "closes" \notin This.submit =>
       /\ \A k \in Pending : shown = call[k].opening
       /\ \A j, k \in Pending : j = k

DialogInv ==
  /\ TypeOK /\ Past /\ OwnDraft /\ SentOnce /\ FailedMadeNothing
  /\ NothingLost /\ OnSubject /\ Waits

-----------------------------------------------------------------------------
(* Dialogs: calls.                                                          *)

LEMMA ThisType == ASSUME TypeOK PROVE This \in RowType
BY DialogAssumption DEF TypeOK, This

LEMMA MadeCall ==
  ASSUME TypeOK, NEW k \in Made
  PROVE  /\ k \in Call /\ call[k] \in CallType
         /\ call[k].opening \in Nat \ {0} /\ call[k].version \in Nat
         /\ call[k].subject \in Subject /\ call[k].of \in Subject
BY DialogAssumption DEF TypeOK, Made, CallType, Opening, Version

LEMMA Numbered ==
  ASSUME TypeOK
  PROVE  /\ typed \in Nat /\ draft.version \in Nat /\ draft.version <= typed
         /\ openings \in Nat /\ shown \in Nat /\ (shown # 0 => shown \in Opening)
         /\ draft \in Draft /\ draft.of \in Subject
BY DialogAssumption DEF TypeOK, Draft, Version, Opening

\* What a step that touches no call leaves true of them.
LEMMA CallsSame ==
  ASSUME UNCHANGED call
  PROVE  Made' = Made /\ Pending' = Pending /\ \A k : Creating(k)' <=> Creating(k)
BY DEF Made, Pending, Creating

\* A call that is answered, or whose answer arrives.
LEMMA CallMoves ==
  ASSUME TypeOK, NEW k \in Made, NEW c \in CallType,
         c.opening = call[k].opening, c.version = call[k].version,
         c.of = call[k].of, c.subject = call[k].subject,
         call' = [call EXCEPT ![k] = c]
  PROVE  /\ call' \in [Call -> CallType \cup {Unsent}]
         /\ Made' = Made
         /\ call'[k] = c
         /\ \A j \in Made : /\ call'[j].opening = call[j].opening
                            /\ call'[j].version = call[j].version
                            /\ call'[j].of = call[j].of
                            /\ call'[j].subject = call[j].subject
                            /\ j # k => call'[j] = call[j]
<1>1. k \in Call /\ call[k] \in CallType /\ call \in [Call -> CallType \cup {Unsent}]
  BY MadeCall DEF TypeOK
<1>2. call' \in [Call -> CallType \cup {Unsent}] /\ call'[k] = c
  BY <1>1
<1>3. \A j \in Call : j # k => call'[j] = call[j]
  BY <1>1
<1>4. Made' = Made
  BY <1>1, <1>2, <1>3, DialogAssumption DEF Made
<1>. QED
  BY <1>2, <1>3, <1>4 DEF Made

\* A keystroke once secured stays so.
LEMMA SecuredKept ==
  ASSUME excused \subseteq excused', Made \subseteq Made',
         \A k \in Made : call[k].state = "won" =>
           call'[k].version = call[k].version /\ call'[k].state = "won"
  PROVE  \A v : Secured(v) => Secured(v)'
BY DEF Secured

LEMMA DialogStarts == Init => DialogInv
<1>. SUFFICES ASSUME Init PROVE DialogInv
  OBVIOUS
<1>1. PICK s \in Subject :
        /\ dialog \in Dialog
        /\ shown = 0 /\ openings = 0 /\ typed = 0 /\ excused = {}
        /\ subject = [n \in Opening |-> s] /\ draft = Blank(s)
        /\ filling = FALSE /\ call = [k \in Call |-> Unsent]
  BY DEF Init
<1>2. Made = {} /\ Pending = {}
  BY <1>1 DEF Made, Pending
<1>3. TypeOK
  <2>1. /\ subject \in [Opening -> Subject] /\ call \in [Call -> CallType \cup {Unsent}]
        /\ filling \in BOOLEAN /\ excused \in SUBSET (1..typed)
    BY <1>1
  <2>2. /\ draft \in Draft /\ typed \in Version /\ draft.version \in 0..typed
        /\ openings \in 0..MaxOpenings /\ shown \in 0..openings
    BY <1>1, DialogAssumption DEF Blank, Draft, Version
  <2>. QED
    BY <1>1, <2>1, <2>2 DEF TypeOK
<1>4. Past /\ OwnDraft /\ SentOnce /\ FailedMadeNothing /\ Waits
  BY <1>2 DEF Past, OwnDraft, SentOnce, FailedMadeNothing, Waits
<1>5. NothingLost
  BY <1>1, <1>2 DEF NothingLost, Blank, Secured
<1>6. OnSubject
  BY <1>1, <1>2 DEF OnSubject, Blank
<1>. QED
  BY <1>3, <1>4, <1>5, <1>6 DEF DialogInv

-----------------------------------------------------------------------------
(* Dialogs: the steps.                                                      *)

\* What opening does to the screen and the form.
LEMMA OpenedSo ==
  ASSUME TypeOK, NEW s \in Subject, Opened(s)
  PROVE  /\ openings' = openings + 1 /\ openings' \in Opening /\ openings' \in 0..MaxOpenings
         /\ shown' = openings' /\ shown' \in 0..openings'
         /\ subject' \in [Opening -> Subject] /\ subject'[shown'] = s
         /\ \A n \in Opening : subject'[n] \in {s, subject[n]}
         /\ draft' \in Draft /\ draft'.version \in {0, draft.version}
         /\ draft'.of \in {s, draft.of}
         /\ filling' \in BOOLEAN /\ (This.fills # "open" => ~filling')
         /\ ~This.keeps \/ "open" \in This.resets => draft'.version = 0 /\ draft'.of = s
<1>1. /\ openings < MaxOpenings /\ openings' = openings + 1 /\ shown' = openings + 1
      /\ subject' = [subject EXCEPT ![openings + 1] = s]
      /\ draft' = IF This.keeps /\ "open" \notin This.resets THEN draft ELSE Blank(s)
      /\ filling' \in {FALSE, This.fills = "open"}
  BY DEF Opened
<1>2. openings' \in Opening /\ openings' \in 0..MaxOpenings /\ shown' \in 0..openings'
  BY <1>1, Numbered, DialogAssumption DEF Opening
<1>3. /\ subject' \in [Opening -> Subject] /\ subject'[shown'] = s
      /\ \A n \in Opening : subject'[n] \in {s, subject[n]}
  BY <1>1, <1>2 DEF TypeOK
<1>4. Blank(s) \in Draft /\ Blank(s).version = 0 /\ Blank(s).of = s
  BY DialogAssumption DEF Blank, Draft, Version
<1>5. draft \in Draft
  BY Numbered
<1>. QED
  BY <1>1, <1>2, <1>3, <1>4, <1>5

LEMMA OpenKept == ASSUME DialogInv, NEW s \in Subject, Open(s) PROVE DialogInv'
<1>1. /\ shown = 0 /\ ~("open" \in This.locked /\ Pending # {})
      /\ This.many \/ s = subject[1]
      /\ Opened(s) /\ UNCHANGED <<dialog, typed, excused, call>>
  BY DEF Open
<1>2. TypeOK /\ Past /\ OwnDraft /\ SentOnce /\ FailedMadeNothing /\ NothingLost /\ OnSubject /\ Waits
  BY DEF DialogInv
<1>3. /\ openings' = openings + 1 /\ openings' \in Opening /\ openings' \in 0..MaxOpenings
      /\ shown' = openings' /\ shown' \in 0..openings'
      /\ subject' \in [Opening -> Subject] /\ subject'[shown'] = s
      /\ \A n \in Opening : subject'[n] \in {s, subject[n]}
      /\ draft' \in Draft /\ draft'.version \in {0, draft.version}
      /\ draft'.of \in {s, draft.of}
      /\ filling' \in BOOLEAN /\ (This.fills # "open" => ~filling')
      /\ ~This.keeps \/ "open" \in This.resets => draft'.version = 0 /\ draft'.of = s
  BY <1>1, <1>2, OpenedSo
<1>4. This' = This /\ This \in RowType
  BY <1>1, <1>2, ThisType DEF This
<1>5. Made' = Made /\ Pending' = Pending /\ (\A k : Creating(k)' <=> Creating(k))
  BY <1>1, CallsSame
<1>6. /\ typed \in Nat /\ draft.version \in Nat /\ draft.version <= typed
      /\ 1 \in Opening
  BY <1>2, Numbered, DialogAssumption DEF Opening
<1>7. TypeOK'
  BY <1>1, <1>2, <1>3, <1>6 DEF TypeOK
<1>8. Past'
  <2>. openings \in Nat /\ \A k \in Made : call[k].opening \in Nat
    BY <1>2, Numbered, MadeCall
  <2>. QED
    BY <1>1, <1>2, <1>3, <1>5 DEF Past
<1>9. OwnDraft'
  BY <1>3, <1>4 DEF OwnDraft
<1>10. SentOnce'
  <2>. SUFFICES ASSUME MakesOne(This) PROVE SentOnce'
    BY <1>4 DEF SentOnce
  <2>1. ASSUME NEW k \in Made, Creating(k) PROVE Held(k)'
    <3>1. call[k].version # 0 /\ Held(k)
      BY <1>2, <2>1 DEF SentOnce
    <3>2. CASE draft'.version = 0
      BY <1>1, <3>1, <3>2 DEF Held
    <3>3. CASE draft'.version = draft.version /\ This.keeps /\ "open" \notin This.resets
      BY <1>1, <1>2, <1>4, <1>5, <3>1, <3>3, <2>1 DEF Held, SentOnce, MakesOne
    <3>. QED
      BY <1>3, <3>2, <3>3
  <2>2. "clears" \in This.submit => \A k \in Made : call[k].version # draft'.version
    BY <1>2, <1>3 DEF SentOnce
  <2>. QED
    BY <1>1, <1>2, <1>4, <1>5, <2>1, <2>2 DEF SentOnce
<1>11. FailedMadeNothing'
  BY <1>1, <1>2, <1>4, <1>5 DEF FailedMadeNothing
<1>12. NothingLost'
  <2>. SUFFICES ASSUME Forgiving(This) PROVE NothingLost'
    BY <1>4 DEF NothingLost
  <2>1. Secured(draft.version)
    BY <1>1, <1>2 DEF NothingLost
  <2>2. \A v : Secured(v) => Secured(v)'
    BY <1>1, <1>5 DEF Secured
  <2>3. shown' # 0 /\ ~filling'
    BY <1>3 DEF Forgiving, Opening
  <2>4. \A k \in Pending : draft'.version \in {0, call[k].version} \cup excused
    BY <1>2, <1>3 DEF NothingLost
  <2>5. \A v \in 1..typed : Secured(v)' \/ v = draft'.version
    BY <1>2, <2>1, <2>2 DEF NothingLost
  <2>. QED
    BY <1>1, <1>5, <2>3, <2>4, <2>5 DEF NothingLost
<1>13. OnSubject'
  BY <1>1, <1>2, <1>3, <1>4, <1>5, <1>6 DEF OnSubject, Aimed
<1>14. Waits'
  <2>1. ASSUME NEW k \in Pending PROVE call[k].opening # 0
    BY <1>2, <2>1, MadeCall DEF Pending
  <2>. QED
    BY <1>1, <1>2, <1>4, <1>5, <2>1 DEF Waits
<1>. QED
  BY <1>7, <1>8, <1>9, <1>10, <1>11, <1>12, <1>13, <1>14 DEF DialogInv

LEMMA TypeKept == ASSUME DialogInv, Type PROVE DialogInv'
<1>1. /\ shown # 0 /\ This.text /\ typed < MaxTyped
      /\ typed' = typed + 1 /\ draft' = [draft EXCEPT !.version = typed + 1]
      /\ excused' = excused \cup ({draft.version} \ {0})
                            \cup (IF Pending # {} THEN {typed + 1} ELSE {})
      /\ UNCHANGED <<dialog, shown, openings, subject, filling, call>>
  BY DEF Type
<1>2. TypeOK /\ Past /\ OwnDraft /\ SentOnce /\ FailedMadeNothing /\ NothingLost /\ OnSubject /\ Waits
  BY DEF DialogInv
<1>4. This' = This
  BY <1>1 DEF This
<1>5. Made' = Made /\ Pending' = Pending /\ (\A k : Creating(k)' <=> Creating(k))
  BY <1>1, CallsSame
<1>6. /\ typed \in Nat /\ draft.version \in Nat /\ draft.version <= typed
      /\ draft \in Draft /\ draft.of \in Subject
  BY <1>2, Numbered
<1>3. /\ draft' \in Draft /\ draft'.version = typed + 1 /\ draft'.of = draft.of
      /\ typed' \in Version /\ draft'.version \in 0..typed'
      /\ excused' \in SUBSET (1..typed')
  <2>1. typed + 1 \in Version
    BY <1>1, <1>6, DialogAssumption DEF Version
  <2>2. draft' \in Draft /\ draft'.version = typed + 1 /\ draft'.of = draft.of
    BY <1>1, <1>6, <2>1 DEF Draft
  <2>3. excused \in SUBSET (1..typed)
    BY <1>2 DEF TypeOK
  <2>. QED
    BY <1>1, <1>6, <2>1, <2>2, <2>3
<1>15. \A k \in Made : call[k].version \in Nat /\ call[k].version # typed + 1
  BY <1>2, <1>6, MadeCall DEF Past
<1>7. TypeOK'
  BY <1>1, <1>2, <1>3 DEF TypeOK
<1>8. Past'
  BY <1>1, <1>2, <1>5, <1>6, <1>15 DEF Past
<1>9. OwnDraft'
  BY <1>1, <1>3, <1>4, <1>5, <1>15 DEF OwnDraft
<1>10. SentOnce'
  <2>1. \A k \in Made : Held(k)'
    BY <1>1, <1>3, <1>15 DEF Held
  <2>. QED
    BY <1>1, <1>2, <1>3, <1>4, <1>5, <1>15, <2>1 DEF SentOnce
<1>11. FailedMadeNothing'
  BY <1>1, <1>2, <1>4, <1>5 DEF FailedMadeNothing
<1>12. NothingLost'
  <2>. SUFFICES ASSUME Forgiving(This) PROVE NothingLost'
    BY <1>4 DEF NothingLost
  <2>1. \A v : Secured(v) => Secured(v)'
    BY <1>1, <1>5 DEF Secured
  <2>2. \A v : v = draft.version => Secured(v)'
    BY <1>1, <1>6 DEF Secured
  <2>. QED
    BY <1>1, <1>2, <1>3, <1>4, <1>5, <1>6, <2>1, <2>2 DEF NothingLost, Secured
<1>13. OnSubject'
  BY <1>1, <1>2, <1>3, <1>4, <1>5 DEF OnSubject
<1>14. Waits'
  BY <1>1, <1>2, <1>4, <1>5 DEF Waits
<1>. QED
  BY <1>7, <1>8, <1>9, <1>10, <1>11, <1>12, <1>13, <1>14 DEF DialogInv

\* Leaving, asking for a rewrite and its arrival touch the form and no call.
LEMMA FormKept ==
  ASSUME DialogInv, UNCHANGED <<dialog, openings, subject, typed, call>>,
         shown' \in {0, shown}, filling' \in {FALSE, This.fills = "asked"},
         draft' \in {draft, Blank(draft.of)},
         excused' \in {excused, excused \cup ({draft.version} \ {0})},
         Forgiving(This) => excused' = excused \cup ({draft.version} \ {0}),
         shown' = shown \/ ~("leave" \in This.locked /\ Pending # {})
  PROVE  DialogInv'
<1>2. TypeOK /\ Past /\ OwnDraft /\ SentOnce /\ FailedMadeNothing /\ NothingLost /\ OnSubject /\ Waits
  BY DEF DialogInv
<1>3. This' = This /\ This \in RowType
  BY <1>2, ThisType DEF This
<1>4. Made' = Made /\ Pending' = Pending /\ (\A k : Creating(k)' <=> Creating(k))
  BY CallsSame
<1>5. /\ typed \in Nat /\ draft.version \in Nat /\ draft.version <= typed
      /\ draft \in Draft /\ draft.of \in Subject
  BY <1>2, Numbered
<1>6. /\ draft' \in Draft /\ draft'.version \in {0, draft.version} /\ draft'.of = draft.of
  BY <1>5, DialogAssumption DEF Blank, Draft, Version
<1>7. TypeOK'
  <2>1. excused' \in SUBSET (1..typed)
    <3>1. excused \subseteq 1..typed
      BY <1>2 DEF TypeOK
    <3>2. {draft.version} \ {0} \subseteq 1..typed
      BY <1>5
    <3>. QED
      BY <3>1, <3>2
  <2>2. draft'.version \in 0..typed /\ shown' \in 0..openings
    BY <1>2, <1>5, <1>6, Numbered DEF TypeOK
  <2>. QED
    BY <1>2, <1>6, <2>1, <2>2 DEF TypeOK
<1>8. Past'
  BY <1>2, <1>4 DEF Past
<1>9. OwnDraft'
  BY <1>2, <1>3, <1>4, <1>6 DEF OwnDraft
<1>10. SentOnce'
  <2>. SUFFICES ASSUME MakesOne(This) PROVE SentOnce'
    BY <1>3 DEF SentOnce
  <2>1. ASSUME NEW k \in Made, Creating(k) PROVE Held(k)'
    <3>1. call[k].version # 0 /\ Held(k)
      BY <1>2, <2>1 DEF SentOnce
    <3>2. CASE draft'.version = 0
      BY <3>1, <3>2 DEF Held
    <3>3. CASE draft'.version = draft.version /\ "clears" \in This.submit
      BY <1>2, <3>3, <2>1 DEF Held, SentOnce
    <3>4. CASE draft'.version = draft.version /\ "clears" \notin This.submit
      BY <1>3, <1>4, <3>1, <3>4 DEF Held, MakesOne
    <3>. QED
      BY <1>6, <3>2, <3>3, <3>4
  <2>. QED
    BY <1>2, <1>3, <1>4, <1>6, <2>1 DEF SentOnce
<1>11. FailedMadeNothing'
  BY <1>2, <1>3, <1>4 DEF FailedMadeNothing
<1>12. NothingLost'
  <2>. SUFFICES ASSUME Forgiving(This) PROVE NothingLost'
    BY <1>3 DEF NothingLost
  <2>1. \A v : Secured(v) \/ v = draft.version => Secured(v)'
    BY <1>4 DEF Secured
  <2>2. ~filling'
    BY DEF Forgiving
  <2>3. \A k \in Pending : draft'.version \in {0, call[k].version} \cup excused'
    BY <1>2, <1>6 DEF NothingLost
  <2>4. Secured(0)'
    BY DEF Secured
  <2>5. \A v \in 1..typed : Secured(v)'
    BY <1>2, <2>1 DEF NothingLost
  <2>6. \A v : v = draft'.version => Secured(v)'
    BY <1>6, <2>1, <2>4
  <2>. QED
    BY <1>4, <2>2, <2>3, <2>5, <2>6 DEF NothingLost, Secured
<1>13. OnSubject'
  BY <1>2, <1>3, <1>4, <1>6 DEF OnSubject
<1>14. Waits'
  BY <1>2, <1>3, <1>4 DEF Waits
<1>. QED
  BY <1>7, <1>8, <1>9, <1>10, <1>11, <1>12, <1>13, <1>14 DEF DialogInv

LEMMA SubmitKept == ASSUME DialogInv, NEW k \in Call, Submit(k) PROVE DialogInv'
<1>1. /\ shown # 0 /\ ~Refused /\ (This.text => draft.version # 0)
      /\ call[k] = Unsent
      /\ call' = [call EXCEPT ![k] =
           [opening |-> shown, version |-> draft.version, of |-> draft.of,
            subject |-> subject[shown], state |-> "sent", made |-> FALSE, named |-> Nothing]]
      /\ shown' = IF "closes" \in This.submit THEN 0 ELSE shown
      /\ draft' = IF "clears" \in This.submit THEN Blank(draft.of) ELSE draft
      /\ UNCHANGED <<dialog, openings, subject, typed, excused, filling>>
  BY DEF Submit
<1>2. TypeOK /\ Past /\ OwnDraft /\ SentOnce /\ FailedMadeNothing /\ NothingLost /\ OnSubject /\ Waits
  BY DEF DialogInv
<1>3. This' = This /\ This \in RowType
  BY <1>1, <1>2, ThisType DEF This
<1>5. /\ typed \in Nat /\ draft.version \in Nat /\ draft.version <= typed
      /\ draft \in Draft /\ draft.of \in Subject /\ shown \in Opening
  BY <1>1, <1>2, Numbered
<1>6. /\ draft' \in Draft /\ draft'.version \in {0, draft.version} /\ draft'.of = draft.of
      /\ ("clears" \in This.submit => draft'.version = 0)
      /\ ("clears" \notin This.submit => draft' = draft)
  BY <1>1, <1>5, DialogAssumption DEF Blank, Draft, Version
<1>4. /\ call' \in [Call -> CallType \cup {Unsent}]
      /\ call'[k] \in CallType
      /\ call'[k].opening = shown /\ call'[k].version = draft.version /\ call'[k].of = draft.of
      /\ call'[k].subject = subject[shown] /\ call'[k].state = "sent" /\ call'[k].made = FALSE
      /\ call'[k].named = Nothing
      /\ \A j \in Made : j # k /\ call'[j] = call[j]
      /\ Made' = Made \cup {k} /\ Pending' = Pending \cup {k}
  <2> DEFINE new == [opening |-> shown, version |-> draft.version, of |-> draft.of,
            subject |-> subject[shown], state |-> "sent", made |-> FALSE, named |-> Nothing]
  <2>1. subject[shown] \in Subject /\ draft.version \in Version
    BY <1>2, <1>5 DEF TypeOK, Draft
  <2>2. new \in CallType
    BY <1>5, <2>1 DEF CallType
  <2>3. call \in [Call -> CallType \cup {Unsent}]
    BY <1>2 DEF TypeOK
  <2>4. call' \in [Call -> CallType \cup {Unsent}] /\ call'[k] = new
    BY <1>1, <2>2, <2>3
  <2>5. \A j \in Call : j # k => call'[j] = call[j]
    BY <1>1, <2>3
  <2>6. Made' = Made \cup {k}
    BY <1>1, <2>2, <2>4, <2>5, DialogAssumption DEF Made
  <2>7. \A j \in Made : j # k /\ call'[j] = call[j]
    BY <1>1, <2>5 DEF Made
  <2>8. Pending' = Pending \cup {k}
    BY <2>4, <2>6, <2>7 DEF Pending
  <2>. QED
    BY <2>2, <2>4, <2>6, <2>7, <2>8
<1>7. TypeOK'
  <2>1. draft'.version \in 0..typed /\ shown' \in 0..openings
    BY <1>1, <1>2, <1>5, <1>6, Numbered DEF TypeOK
  <2>. QED
    BY <1>1, <1>2, <1>4, <1>6, <2>1 DEF TypeOK
<1>8. Past'
  BY <1>1, <1>2, <1>4, <1>5 DEF Past, TypeOK
<1>9. OwnDraft'
  BY <1>1, <1>2, <1>3, <1>4, <1>6 DEF OwnDraft
<1>10. SentOnce'
  <2>. SUFFICES ASSUME MakesOne(This) PROVE SentOnce'
    BY <1>3 DEF SentOnce
  <2>1. \A j \in Made' : call'[j].version # 0
    BY <1>1, <1>2, <1>4 DEF SentOnce, MakesOne
  <2>2. \A j \in Made : Creating(j)' => Creating(j)
    BY <1>4 DEF Creating
  <2>3. ASSUME NEW j \in Made, Creating(j) PROVE call[j].version # draft.version
    BY <1>1, <1>2, <1>3, <2>3 DEF SentOnce, MakesOne, Held, Refused
  <2>4. ASSUME NEW j \in Made', Creating(j)' PROVE Held(j)'
    <3>1. CASE j = k
      <4>1. CASE "clears" \in This.submit
        BY <1>6, <2>1, <3>1, <4>1 DEF Held
      <4>2. CASE "clears" \notin This.submit
        BY <1>1, <1>3, <1>4, <3>1, <4>2 DEF Held, MakesOne
      <4>. QED
        BY <4>1, <4>2
    <3>2. CASE j # k
      BY <1>4, <1>6, <2>1, <2>2, <2>3, <2>4, <3>2 DEF Held
    <3>. QED
      BY <3>1, <3>2
  <2>5. "clears" \in This.submit => \A j \in Made' : call'[j].version # draft'.version
    BY <1>6, <2>1
  <2>6. ASSUME NEW i \in Made', NEW j \in Made', i # j, call'[i].version = call'[j].version
        PROVE  ~(Creating(i)' /\ Creating(j)')
    <3>1. CASE i # k /\ j # k
      BY <1>2, <1>4, <2>2, <2>6, <3>1 DEF SentOnce
    <3>2. CASE i = k \/ j = k
      BY <1>4, <2>2, <2>3, <2>6, <3>2
    <3>. QED
      BY <3>1, <3>2
  <2>. QED
    BY <1>3, <2>1, <2>4, <2>5, <2>6 DEF SentOnce
<1>11. FailedMadeNothing'
  BY <1>2, <1>3, <1>4 DEF FailedMadeNothing
<1>12. NothingLost'
  <2>. SUFFICES ASSUME Forgiving(This) PROVE NothingLost'
    BY <1>3 DEF NothingLost
  <2>1. \A v : Secured(v) => Secured(v)'
    BY <1>1, <1>4, SecuredKept
  <2>2. draft' = draft /\ shown' # 0
    BY <1>1 DEF Forgiving
  <2>3. \A j \in Pending' : draft.version \in {0, call'[j].version} \cup excused
    BY <1>2, <1>4 DEF NothingLost, Pending
  <2>. QED
    BY <1>1, <1>2, <2>1, <2>2, <2>3 DEF NothingLost
<1>13. OnSubject'
  BY <1>1, <1>2, <1>3, <1>4, <1>5, <1>6 DEF OnSubject, Aimed
<1>14. Waits'
  <2>1. This.success # "shows" /\ "open" \in This.locked =>
          \A j \in Pending' : shown' \in {0, call'[j].opening}
    BY <1>1, <1>2, <1>4 DEF Waits, Pending
  <2>2. ASSUME This.guard = "page", "leave" \in This.locked, "closes" \notin This.submit
        PROVE  Pending' = {k} /\ shown' = call'[k].opening
    BY <1>1, <1>4, <2>2 DEF Refused
  <2>. QED
    BY <1>3, <2>1, <2>2 DEF Waits
<1>. QED
  BY <1>7, <1>8, <1>9, <1>10, <1>11, <1>12, <1>13, <1>14 DEF DialogInv

LEMMA ServeKept == ASSUME DialogInv, NEW k \in Call, Serve(k) PROVE DialogInv'
<1>1. PICK ok \in BOOLEAN, made \in BOOLEAN :
        /\ ok => made
        /\ made /\ ~ok => This.steps = 2
        /\ call' = [call EXCEPT ![k].state = IF ok THEN "ok" ELSE "error", ![k].made = made]
  BY DEF Serve
<1>2. /\ k \in Made /\ call[k].state = "sent"
      /\ UNCHANGED <<dialog, shown, openings, subject, draft, typed, excused, filling>>
  BY DEF Serve
<1>3. TypeOK /\ Past /\ OwnDraft /\ SentOnce /\ FailedMadeNothing /\ NothingLost /\ OnSubject /\ Waits
  BY DEF DialogInv
<1>4. This' = This /\ This \in RowType
  BY <1>2, <1>3, ThisType DEF This
<1>5. PICK c \in CallType :
        /\ c.opening = call[k].opening /\ c.version = call[k].version
        /\ c.of = call[k].of /\ c.subject = call[k].subject /\ c.named = call[k].named
        /\ c.state \in {"ok", "error"}
        /\ c.state = "ok" \/ (c.made => This.steps = 2)
        /\ call' = [call EXCEPT ![k] = c]
  <2> DEFINE c == [call[k] EXCEPT !.state = IF ok THEN "ok" ELSE "error", !.made = made]
  <2>1. call[k] \in CallType
    BY <1>2, <1>3, MadeCall
  <2>2. c \in CallType
    BY <2>1 DEF CallType
  <2>3. /\ c.opening = call[k].opening /\ c.version = call[k].version
        /\ c.of = call[k].of /\ c.subject = call[k].subject /\ c.named = call[k].named
        /\ c.state = (IF ok THEN "ok" ELSE "error") /\ c.made = made
    BY <2>1 DEF CallType
  <2>4. call' = [call EXCEPT ![k] = c]
    BY <1>1
  <2>5. /\ c.state \in {"ok", "error"}
        /\ c.state = "ok" \/ (c.made => This.steps = 2)
    BY <1>1, <2>3
  <2>. HIDE DEF c
  <2>. QED
    BY <2>2, <2>3, <2>4, <2>5
<1>16. /\ call' \in [Call -> CallType \cup {Unsent}]
      /\ Made' = Made /\ call'[k] = c
      /\ \A j \in Made : /\ call'[j].opening = call[j].opening
                         /\ call'[j].version = call[j].version
                         /\ call'[j].of = call[j].of
                         /\ call'[j].subject = call[j].subject
                         /\ j # k => call'[j] = call[j]
  BY <1>2, <1>3, <1>5, CallMoves
<1>6. Pending' = Pending
  BY <1>2, <1>5, <1>16 DEF Pending
<1>7. \A j \in Made : Creating(j)' => Creating(j)
  BY <1>2, <1>5, <1>16 DEF Creating
<1>8. TypeOK'
  BY <1>2, <1>3, <1>5, <1>16 DEF TypeOK
<1>9. Past'
  BY <1>2, <1>3, <1>5, <1>16 DEF Past
<1>10. OwnDraft'
  BY <1>2, <1>3, <1>4, <1>5, <1>16 DEF OwnDraft
<1>11. SentOnce'
  <2>1. \A j \in Made : Held(j) => Held(j)'
    BY <1>2, <1>4, <1>5, <1>16, <1>6 DEF Held
  <2>. QED
    BY <1>2, <1>3, <1>4, <1>5, <1>16, <1>7, <2>1 DEF SentOnce
<1>12. FailedMadeNothing'
  <2>1. ASSUME NEW j \in Made
        PROVE  /\ call'[j].made => call'[j].state # "sent"
               /\ This.steps = 1 /\ call'[j].made => call'[j].state \in {"ok", "won"}
    <3>1. CASE j = k
      BY <1>5, <1>16, <3>1
    <3>2. CASE j # k
      BY <1>3, <1>16, <3>2 DEF FailedMadeNothing
    <3>. QED
      BY <3>1, <3>2
  <2>. QED
    BY <1>4, <1>16, <2>1 DEF FailedMadeNothing
<1>13. NothingLost'
  <2>1. \A v : Secured(v) => Secured(v)'
    BY <1>2, <1>5, <1>16, SecuredKept
  <2>2. \A j \in Pending : call'[j].version = call[j].version
    BY <1>5, <1>16 DEF Pending
  <2>. QED
    BY <1>2, <1>3, <1>4, <1>6, <2>1, <2>2 DEF NothingLost
<1>14. OnSubject'
  BY <1>2, <1>3, <1>4, <1>5, <1>16 DEF OnSubject
<1>15. Waits'
  BY <1>2, <1>3, <1>4, <1>5, <1>16, <1>6 DEF Waits, Pending
<1>. QED
  BY <1>8, <1>9, <1>10, <1>11, <1>12, <1>13, <1>14, <1>15 DEF DialogInv

\* A call whose callbacks run is no longer pending; what it made is made.
LEMMA SettledSo ==
  ASSUME TypeOK, Past, NEW k \in Made, NEW t \in {"won", "failed"},
         call[k].state \in {"ok", "error"}, SettledAs(k, t)
  PROVE  /\ call' \in [Call -> CallType \cup {Unsent}]
         /\ Made' = Made /\ Pending' = Pending \ {k}
         /\ call'[k].state = t /\ call'[k].made = call[k].made /\ call'[k].named = Named(k)
         /\ \A j \in Made : /\ call'[j].opening = call[j].opening
                            /\ call'[j].version = call[j].version
                            /\ call'[j].of = call[j].of
                            /\ call'[j].subject = call[j].subject
                            /\ j # k => call'[j] = call[j]
         /\ \A j \in Made : Creating(j)' => Creating(j)
<1>1. Named(k) \in Subject
  <2>1. openings \in Opening
    BY MadeCall, Numbered, DialogAssumption DEF Past, TypeOK, Opening
  <2>. QED
    BY <2>1, MadeCall DEF Named, TypeOK
<1>2. PICK c \in CallType :
        /\ c.opening = call[k].opening /\ c.version = call[k].version
        /\ c.of = call[k].of /\ c.subject = call[k].subject
        /\ c.state = t /\ c.made = call[k].made /\ c.named = Named(k)
        /\ call' = [call EXCEPT ![k] = c]
  <2> DEFINE c == [call[k] EXCEPT !.state = t, !.named = Named(k)]
  <2>1. call[k] \in CallType
    BY MadeCall
  <2>2. c \in CallType
    BY <1>1, <2>1 DEF CallType
  <2>3. /\ c.opening = call[k].opening /\ c.version = call[k].version
        /\ c.of = call[k].of /\ c.subject = call[k].subject
        /\ c.state = t /\ c.made = call[k].made /\ c.named = Named(k)
    BY <2>1 DEF CallType
  <2>4. call' = [call EXCEPT ![k] = c]
    BY DEF SettledAs
  <2>. HIDE DEF c
  <2>. QED
    BY <2>2, <2>3, <2>4
<1>4. /\ call' \in [Call -> CallType \cup {Unsent}]
      /\ Made' = Made /\ call'[k] = c
      /\ \A j \in Made : /\ call'[j].opening = call[j].opening
                         /\ call'[j].version = call[j].version
                         /\ call'[j].of = call[j].of
                         /\ call'[j].subject = call[j].subject
                         /\ j # k => call'[j] = call[j]
  BY <1>2, CallMoves
<1>5. Pending' = Pending \ {k}
  BY <1>2, <1>4 DEF Pending
<1>6. \A j \in Made : Creating(j)' => Creating(j)
  BY <1>2, <1>4 DEF Creating
<1>. QED
  BY <1>2, <1>4, <1>5, <1>6

LEMMA FailsKept == ASSUME DialogInv, NEW k \in Call, Fails(k) PROVE DialogInv'
<1>1. /\ k \in Made /\ call[k].state = "error" /\ SettledAs(k, "failed")
      /\ UNCHANGED <<dialog, shown, openings, subject, draft, typed, excused, filling>>
  BY DEF Fails
<1>2. TypeOK /\ Past /\ OwnDraft /\ SentOnce /\ FailedMadeNothing /\ NothingLost /\ OnSubject /\ Waits
  BY DEF DialogInv
<1>3. This' = This /\ This \in RowType
  BY <1>1, <1>2, ThisType DEF This
<1>4. /\ call' \in [Call -> CallType \cup {Unsent}]
      /\ Made' = Made /\ Pending' = Pending \ {k}
      /\ call'[k].state = "failed" /\ call'[k].made = call[k].made /\ call'[k].named = Named(k)
      /\ \A j \in Made : /\ call'[j].opening = call[j].opening
                         /\ call'[j].version = call[j].version
                         /\ call'[j].of = call[j].of
                         /\ call'[j].subject = call[j].subject
                         /\ j # k => call'[j] = call[j]
      /\ \A j \in Made : Creating(j)' => Creating(j)
  BY <1>1, <1>2, SettledSo
<1>5. TypeOK'
  BY <1>1, <1>2, <1>4 DEF TypeOK
<1>6. Past'
  BY <1>1, <1>2, <1>4 DEF Past
<1>7. OwnDraft'
  BY <1>1, <1>2, <1>3, <1>4 DEF OwnDraft
<1>8. SentOnce'
  <2>. SUFFICES ASSUME MakesOne(This) PROVE SentOnce'
    BY <1>3 DEF SentOnce
  <2>1. "clears" \notin This.submit => ~Creating(k)'
    BY <1>1, <1>2, <1>4 DEF FailedMadeNothing, Creating, MakesOne
  <2>2. ASSUME NEW j \in Made, Creating(j)' PROVE Held(j)'
    <3>1. CASE "clears" \in This.submit
      BY <1>1, <1>2, <1>4, <3>1 DEF SentOnce, Held
    <3>2. CASE "clears" \notin This.submit
      <4>1. j # k /\ Held(j)
        BY <1>2, <1>4, <2>1, <2>2, <3>2 DEF SentOnce
      <4>. QED
        BY <1>1, <1>3, <1>4, <4>1 DEF Held
    <3>. QED
      BY <3>1, <3>2
  <2>. QED
    BY <1>1, <1>2, <1>3, <1>4, <2>2 DEF SentOnce
<1>9. FailedMadeNothing'
  BY <1>1, <1>2, <1>3, <1>4 DEF FailedMadeNothing
<1>10. NothingLost'
  <2>1. \A v : Secured(v) => Secured(v)'
    BY <1>1, <1>4, SecuredKept
  <2>2. \A j \in Pending : call'[j].version = call[j].version
    BY <1>4 DEF Pending
  <2>. QED
    BY <1>1, <1>2, <1>3, <1>4, <2>1, <2>2 DEF NothingLost
<1>11. OnSubject'
  BY <1>1, <1>2, <1>3, <1>4 DEF OnSubject, Aimed, Named
<1>12. Waits'
  BY <1>1, <1>2, <1>3, <1>4 DEF Waits, Pending
<1>. QED
  BY <1>5, <1>6, <1>7, <1>8, <1>9, <1>10, <1>11, <1>12 DEF DialogInv

\* What a success leaves in the form.
LEMMA ResetSo ==
  ASSUME TypeOK, NEW k \in Made
  PROVE  /\ Reset(k) \in Draft /\ Reset(k).of = draft.of
         /\ Reset(k).version \in {0, draft.version}
         /\ IF This.clears /\ (This.keeps \/ shown = call[k].opening)
            THEN Reset(k).version = 0 ELSE Reset(k) = draft
         /\ Blank(draft.of) \in Draft /\ Blank(draft.of).version = 0
         /\ Blank(draft.of).of = draft.of
<1>1. /\ Blank(draft.of) \in Draft /\ Blank(draft.of).version = 0
      /\ Blank(draft.of).of = draft.of
  BY Numbered, DialogAssumption DEF Blank, Draft, Version
<1>. QED
  BY <1>1, Numbered DEF Reset

\* A success of whatever kind, given what it does to the screen and the form.
LEMMA WinsKept ==
  ASSUME DialogInv, NEW k \in Call, Wins(k), UNCHANGED <<dialog, typed, excused>>,
         openings \in Nat, openings' \in Nat, openings' >= openings,
         openings' \in 0..MaxOpenings, shown' \in 0..openings',
         subject' \in [Opening -> Subject],
         filling' \in {FALSE, filling, This.fills = "open"},
         draft' \in Draft, draft'.version \in {0, draft.version},
         This.success = "shows" \/ shown' \in {0, shown},
         OwnDraft', OnSubject',
         MakesOne(This) => \A j \in Made : Creating(j) => Held(j)'
  PROVE  DialogInv'
<1>1. k \in Made /\ call[k].state = "ok" /\ SettledAs(k, "won")
  BY DEF Wins
<1>2. TypeOK /\ Past /\ OwnDraft /\ SentOnce /\ FailedMadeNothing /\ NothingLost /\ OnSubject /\ Waits
  BY DEF DialogInv
<1>3. This' = This /\ This \in RowType
  BY <1>1, <1>2, ThisType DEF This
<1>4. /\ call' \in [Call -> CallType \cup {Unsent}]
      /\ Made' = Made /\ Pending' = Pending \ {k}
      /\ call'[k].state = "won" /\ call'[k].made = call[k].made
      /\ \A j \in Made : /\ call'[j].opening = call[j].opening
                         /\ call'[j].version = call[j].version
                         /\ call'[j].of = call[j].of
                         /\ call'[j].subject = call[j].subject
                         /\ j # k => call'[j] = call[j]
      /\ \A j \in Made : Creating(j)' => Creating(j)
  BY <1>1, <1>2, SettledSo
<1>5. typed \in Nat /\ draft.version \in Nat /\ draft.version <= typed
  BY <1>2, Numbered
<1>6. TypeOK'
  <2>1. draft'.version \in 0..typed
    BY <1>5
  <2>. QED
    BY <1>2, <1>4, <2>1 DEF TypeOK
<1>7. Past'
  <2>. \A j \in Made : call[j].opening \in Nat
    BY <1>2, MadeCall
  <2>. QED
    BY <1>2, <1>4 DEF Past
<1>8. SentOnce'
  <2>. SUFFICES ASSUME MakesOne(This) PROVE SentOnce'
    BY <1>3 DEF SentOnce
  <2>1. "clears" \in This.submit => \A j \in Made : call[j].version # draft'.version
    BY <1>2 DEF SentOnce
  <2>2. \A j \in Made : Creating(j)' => Held(j)'
    BY <1>4
  <2>. QED
    BY <1>2, <1>3, <1>4, <2>1, <2>2 DEF SentOnce
<1>9. FailedMadeNothing'
  BY <1>1, <1>2, <1>3, <1>4 DEF FailedMadeNothing
<1>10. NothingLost'
  <2>. SUFFICES ASSUME Forgiving(This) PROVE NothingLost'
    BY <1>3 DEF NothingLost
  <2>1. \A v : Secured(v) => Secured(v)'
    BY <1>4, SecuredKept
  <2>2. \A v : v = call[k].version => Secured(v)'
    BY <1>1, <1>4 DEF Secured
  <2>3. draft.version \in {0, call[k].version} \cup excused
    BY <1>1, <1>2 DEF NothingLost, Pending
  <2>4. \A v : v \in {0} \cup excused => Secured(v)'
    BY DEF Secured
  <2>5. \A v : v \in {draft.version, draft'.version} => Secured(v)'
    BY <2>2, <2>3, <2>4
  <2>6. \A j \in Pending' : draft'.version \in {0, call'[j].version} \cup excused
    BY <1>2, <1>4 DEF NothingLost, Pending
  <2>7. ~filling'
    BY <1>2 DEF Forgiving, NothingLost
  <2>8. \A v \in 1..typed : Secured(v)'
    BY <1>2, <2>1, <2>5 DEF NothingLost
  <2>9. Secured(draft.version)'
    BY <2>5
  <2>. QED
    BY <1>4, <2>6, <2>7, <2>8, <2>9 DEF NothingLost
<1>11. Waits'
  <2>1. Pending # {}
    BY <1>1 DEF Pending
  <2>2. \A j \in Pending' : j \in Pending /\ j # k /\ call'[j] = call[j]
    BY <1>4 DEF Pending
  <2>3. k \in Pending
    BY <1>1 DEF Pending
  <2>. QED
    BY <1>2, <1>3, <2>2, <2>3 DEF Waits
<1>. QED
  BY <1>6, <1>7, <1>8, <1>9, <1>10, <1>11 DEF DialogInv

\* The form that stays as it was, or the one the callback clears, no longer
\* holds what a call made, as long as the same opening is on the screen.
LEMMA StillHeld ==
  ASSUME DialogInv, NEW k \in Made, call[k].state = "ok", UNCHANGED <<dialog, shown>>,
         draft' = Reset(k), This.clears,
         Made' = Made, Pending' = Pending \ {k},
         \A j \in Made : call'[j].opening = call[j].opening /\ call'[j].version = call[j].version,
         MakesOne(This), NEW j \in Made, Creating(j)
  PROVE  Held(j)'
<1>1. TypeOK /\ OwnDraft /\ SentOnce
  BY DEF DialogInv
<1>2. This' = This
  BY DEF This
<1>3. /\ Reset(k).version \in {0, draft.version}
      /\ IF This.clears /\ (This.keeps \/ shown = call[k].opening)
         THEN Reset(k).version = 0 ELSE Reset(k) = draft
  BY <1>1, ResetSo
<1>4. call[j].version # 0 /\ Held(j)
  BY <1>1 DEF SentOnce
<1>5. CASE draft'.version = 0
  BY <1>4, <1>5 DEF Held
<1>6. CASE draft' = draft /\ ~This.keeps /\ shown # call[k].opening
  <2>1. CASE j = k
    BY <1>1, <1>2, <1>4, <1>6, <2>1 DEF Held, OwnDraft
  <2>2. CASE j # k
    BY <1>2, <1>4, <1>6, <2>2 DEF Held
  <2>. QED
    BY <2>1, <2>2
<1>. QED
  BY <1>3, <1>5, <1>6

LEMMA StaysKept == ASSUME DialogInv, NEW k \in Call, Stays(k) PROVE DialogInv'
<1>1. /\ This.success = "stays" /\ Wins(k) /\ draft' = Reset(k)
      /\ k \in Made /\ call[k].state = "ok" /\ SettledAs(k, "won")
      /\ UNCHANGED <<dialog, shown, openings, subject, typed, excused, filling>>
  BY DEF Stays, Wins
<1>2. TypeOK /\ Past /\ OwnDraft /\ SentOnce /\ FailedMadeNothing /\ NothingLost /\ OnSubject /\ Waits
  BY DEF DialogInv
<1>3. This' = This /\ This \in RowType
  BY <1>1, <1>2, ThisType DEF This
<1>4. /\ Made' = Made /\ Pending' = Pending \ {k}
      /\ call'[k].named = Named(k)
      /\ \A j \in Made : /\ call'[j].opening = call[j].opening
                         /\ call'[j].version = call[j].version
                         /\ call'[j].of = call[j].of
                         /\ call'[j].subject = call[j].subject
                         /\ j # k => call'[j] = call[j]
  BY <1>1, <1>2, SettledSo DEF Wins
<1>5. /\ openings \in Nat /\ openings \in 0..MaxOpenings /\ shown \in 0..openings /\ shown \in Nat
      /\ draft.version \in Nat /\ subject \in [Opening -> Subject] /\ filling \in BOOLEAN
      /\ call[k].subject \in Subject /\ (shown # 0 => shown \in Opening)
      /\ draft \in Draft
  BY <1>1, <1>2, Numbered, MadeCall DEF TypeOK
<1>6. /\ Reset(k) \in Draft /\ Reset(k).of = draft.of
      /\ Reset(k).version \in {0, draft.version}
      /\ IF This.clears /\ (This.keeps \/ shown = call[k].opening)
         THEN Reset(k).version = 0 ELSE Reset(k) = draft
      /\ Blank(draft.of) \in Draft /\ Blank(draft.of).version = 0
      /\ Blank(draft.of).of = draft.of
  BY <1>1, <1>2, ResetSo
<1>7. OwnDraft'
  BY <1>1, <1>2, <1>3, <1>4, <1>6 DEF OwnDraft
<1>8. OnSubject'
  BY <1>1, <1>2, <1>3, <1>4, <1>6 DEF OnSubject, Aimed, Named
<1>9. ASSUME MakesOne(This), NEW j \in Made, Creating(j) PROVE Held(j)'
  <2>1. CASE This.clears
    BY <1>1, <1>4, <1>9, <2>1, StillHeld
  <2>2. CASE ~This.clears
    BY <1>1, <1>2, <1>4, <1>6, <1>9, <2>2 DEF MakesOne, Held, SentOnce
  <2>. QED
    BY <2>1, <2>2
<1>. QED
  BY <1>1, <1>5, <1>6, <1>7, <1>8, <1>9, WinsKept

LEMMA ClosesKept == ASSUME DialogInv, NEW k \in Call, Closes(k) PROVE DialogInv'
<1>1. /\ This.success = "closes" /\ Wins(k) /\ shown' = 0 /\ filling' = FALSE
      /\ draft' = IF This.keeps THEN Reset(k) ELSE Blank(draft.of)
      /\ k \in Made /\ call[k].state = "ok" /\ SettledAs(k, "won")
      /\ UNCHANGED <<dialog, openings, subject, typed, excused>>
  BY DEF Closes, Wins
<1>2. TypeOK /\ Past /\ OwnDraft /\ SentOnce /\ FailedMadeNothing /\ NothingLost /\ OnSubject /\ Waits
  BY DEF DialogInv
<1>3. This' = This /\ This \in RowType
  BY <1>1, <1>2, ThisType DEF This
<1>4. /\ Made' = Made /\ Pending' = Pending \ {k}
      /\ call'[k].named = Named(k)
      /\ \A j \in Made : /\ call'[j].opening = call[j].opening
                         /\ call'[j].version = call[j].version
                         /\ call'[j].of = call[j].of
                         /\ call'[j].subject = call[j].subject
                         /\ j # k => call'[j] = call[j]
  BY <1>1, <1>2, SettledSo DEF Wins
<1>5. /\ openings \in Nat /\ openings \in 0..MaxOpenings /\ shown \in 0..openings /\ shown \in Nat
      /\ draft.version \in Nat /\ subject \in [Opening -> Subject] /\ filling \in BOOLEAN
      /\ call[k].subject \in Subject /\ (shown # 0 => shown \in Opening)
      /\ draft \in Draft
  BY <1>1, <1>2, Numbered, MadeCall DEF TypeOK
<1>6. /\ Reset(k) \in Draft /\ Reset(k).of = draft.of
      /\ Reset(k).version \in {0, draft.version}
      /\ IF This.clears /\ (This.keeps \/ shown = call[k].opening)
         THEN Reset(k).version = 0 ELSE Reset(k) = draft
      /\ Blank(draft.of) \in Draft /\ Blank(draft.of).version = 0
      /\ Blank(draft.of).of = draft.of
  BY <1>1, <1>2, ResetSo
<1>7. draft' \in Draft /\ draft'.of = draft.of /\ draft'.version \in {0, draft.version}
  BY <1>1, <1>6
<1>8. OwnDraft'
  BY <1>1, <1>3 DEF OwnDraft
<1>9. OnSubject'
  BY <1>1, <1>2, <1>3, <1>4, <1>7 DEF OnSubject, Aimed, Named
<1>10. ASSUME MakesOne(This), NEW j \in Made, Creating(j) PROVE Held(j)'
  <2>1. call[j].version # 0 /\ Held(j)
    BY <1>2, <1>10 DEF SentOnce
  <2>2. CASE draft'.version = 0
    BY <1>4, <2>1, <2>2 DEF Held
  <2>3. CASE "clears" \in This.submit
    BY <1>2, <1>4, <1>7, <1>10, <2>1, <2>3 DEF Held, SentOnce
  <2>4. CASE draft'.version # 0 /\ "clears" \notin This.submit
    <3>1. This.keeps /\ ~This.clears /\ "open" \in This.resets
      BY <1>1, <1>6, <1>10, <2>4 DEF MakesOne
    <3>. QED
      BY <1>1, <1>3, <3>1 DEF Held
  <2>. QED
    BY <2>2, <2>3, <2>4
<1>11. shown' \in 0..openings' /\ openings' >= openings /\ openings' \in 0..MaxOpenings
  BY <1>1, <1>5
<1>12. filling' \in {FALSE, filling, This.fills = "open"}
  BY <1>1, Zenon
<1>13. MakesOne(This) => \A j \in Made : Creating(j) => Held(j)'
  BY <1>10
<1>. QED
  BY <1>1, <1>5, <1>7, <1>8, <1>9, <1>11, <1>12, <1>13, WinsKept

LEMMA ShowsKept == ASSUME DialogInv, NEW k \in Call, Shows(k) PROVE DialogInv'
<1>1. /\ This.success = "shows" /\ Wins(k)
      /\ \/ /\ shown # 0
            /\ subject' = [subject EXCEPT ![shown] = call[k].subject]
            /\ draft' = Reset(k)
            /\ UNCHANGED <<shown, openings, filling>>
         \/ shown = 0 /\ Opened(call[k].subject)
         \/ shown = 0 /\ UNCHANGED <<shown, openings, subject, draft, filling>>
      /\ k \in Made /\ call[k].state = "ok" /\ SettledAs(k, "won")
      /\ UNCHANGED <<dialog, typed, excused>>
  BY DEF Shows, Wins
<1>2. TypeOK /\ Past /\ OwnDraft /\ SentOnce /\ FailedMadeNothing /\ NothingLost /\ OnSubject /\ Waits
  BY DEF DialogInv
<1>3. This' = This /\ This \in RowType
  BY <1>1, <1>2, ThisType DEF This
<1>4. /\ Made' = Made /\ Pending' = Pending \ {k}
      /\ call'[k].named = Named(k)
      /\ \A j \in Made : /\ call'[j].opening = call[j].opening
                         /\ call'[j].version = call[j].version
                         /\ call'[j].of = call[j].of
                         /\ call'[j].subject = call[j].subject
                         /\ j # k => call'[j] = call[j]
  BY <1>1, <1>2, SettledSo DEF Wins
<1>5. /\ openings \in Nat /\ openings \in 0..MaxOpenings /\ shown \in 0..openings /\ shown \in Nat
      /\ draft.version \in Nat /\ subject \in [Opening -> Subject] /\ filling \in BOOLEAN
      /\ call[k].subject \in Subject /\ (shown # 0 => shown \in Opening)
      /\ draft \in Draft
  BY <1>1, <1>2, Numbered, MadeCall DEF TypeOK
<1>6. /\ Reset(k) \in Draft /\ Reset(k).of = draft.of
      /\ Reset(k).version \in {0, draft.version}
      /\ IF This.clears /\ (This.keeps \/ shown = call[k].opening)
         THEN Reset(k).version = 0 ELSE Reset(k) = draft
      /\ Blank(draft.of) \in Draft /\ Blank(draft.of).version = 0
      /\ Blank(draft.of).of = draft.of
  BY <1>1, <1>2, ResetSo
<1>7. CASE /\ shown # 0
            /\ subject' = [subject EXCEPT ![shown] = call[k].subject]
            /\ draft' = Reset(k)
            /\ UNCHANGED <<shown, openings, filling>>
  <2>1. /\ subject' \in [Opening -> Subject] /\ subject'[shown] = call[k].subject
        /\ \A n \in Opening : subject'[n] \in {subject[n], call[k].subject}
    BY <1>5, <1>7
  <2>2. OwnDraft'
    BY <1>2, <1>3, <1>4, <1>6, <1>7 DEF OwnDraft
  <2>3. OnSubject'
    BY <1>1, <1>2, <1>3, <1>4, <1>5, <1>6, <1>7, <2>1 DEF OnSubject, Aimed, Named
  <2>4. ASSUME MakesOne(This), NEW j \in Made, Creating(j) PROVE Held(j)'
    <3>1. CASE This.clears
      BY <1>1, <1>4, <1>7, <2>4, <3>1, StillHeld
    <3>2. CASE ~This.clears
      BY <1>1, <1>2, <1>4, <1>6, <1>7, <2>4, <3>2 DEF MakesOne, Held, SentOnce
    <3>. QED
      BY <3>1, <3>2
  <2>. QED
    BY <1>1, <1>5, <1>6, <1>7, <2>1, <2>2, <2>3, <2>4, WinsKept
<1>8. CASE shown = 0 /\ Opened(call[k].subject)
  <2>1. /\ openings' = openings + 1 /\ openings' \in Opening /\ openings' \in 0..MaxOpenings
        /\ shown' = openings' /\ shown' \in 0..openings'
        /\ subject' \in [Opening -> Subject] /\ subject'[shown'] = call[k].subject
        /\ \A n \in Opening : subject'[n] \in {call[k].subject, subject[n]}
        /\ draft' \in Draft /\ draft'.version \in {0, draft.version}
        /\ draft'.of \in {call[k].subject, draft.of}
        /\ filling' \in {FALSE, This.fills = "open"}
        /\ ~This.keeps \/ "open" \in This.resets => draft'.version = 0 /\ draft'.of = call[k].subject
    BY <1>2, <1>5, <1>8, OpenedSo DEF Opened
  <2>2. OwnDraft'
    BY <1>3, <2>1 DEF OwnDraft
  <2>3. OnSubject'
    BY <1>1, <1>2, <1>3, <1>4, <2>1 DEF OnSubject, Aimed, Named
  <2>4. ASSUME MakesOne(This), NEW j \in Made, Creating(j) PROVE Held(j)'
    <3>1. call[j].version # 0
      BY <1>2, <2>4 DEF SentOnce
    <3>2. CASE "clears" \in This.submit
      BY <1>2, <1>4, <2>1, <2>4, <3>1, <3>2 DEF Held, SentOnce
    <3>3. CASE "clears" \notin This.submit
      BY <1>1, <1>4, <2>1, <2>4, <3>1, <3>3 DEF Held, MakesOne
    <3>. QED
      BY <3>2, <3>3
  <2>5. openings' >= openings
    BY <1>5, <2>1
  <2>6. filling' \in {FALSE, filling, This.fills = "open"}
    BY <2>1, Zenon
  <2>7. MakesOne(This) => \A j \in Made : Creating(j) => Held(j)'
    BY <2>4
  <2>8. /\ openings' \in Nat /\ openings' \in 0..MaxOpenings /\ shown' \in 0..openings'
        /\ subject' \in [Opening -> Subject]
        /\ draft' \in Draft /\ draft'.version \in {0, draft.version}
    BY <1>5, <2>1
  <2>9. Wins(k) /\ UNCHANGED <<dialog, typed, excused>> /\ openings \in Nat /\ This.success = "shows"
    BY <1>1, <1>5
  <2>. QED
    BY <2>2, <2>3, <2>5, <2>6, <2>7, <2>8, <2>9, WinsKept
<1>9. CASE shown = 0 /\ UNCHANGED <<shown, openings, subject, draft, filling>>
  <2>1. OwnDraft'
    BY <1>3, <1>9 DEF OwnDraft
  <2>2. OnSubject'
    BY <1>1, <1>2, <1>3, <1>4, <1>9 DEF OnSubject, Aimed, Named
  <2>3. ASSUME MakesOne(This), NEW j \in Made, Creating(j) PROVE Held(j)'
    <3>1. CASE "clears" \in This.submit
      BY <1>2, <1>4, <1>9, <2>3, <3>1 DEF Held, SentOnce
    <3>2. CASE "clears" \notin This.submit
      BY <1>1, <1>3, <1>9, <2>3, <3>2 DEF Held, MakesOne
    <3>. QED
      BY <3>1, <3>2
  <2>. QED
    BY <1>1, <1>5, <1>9, <2>1, <2>2, <2>3, WinsKept
<1>. QED
  BY <1>1, <1>7, <1>8, <1>9

LEMMA DialogKept == DialogInv /\ [Next]_vars => DialogInv'
<1>. SUFFICES ASSUME DialogInv, [Next]_vars PROVE DialogInv'
  OBVIOUS
<1>1. ASSUME NEW s \in Subject, Open(s) PROVE DialogInv'
  BY <1>1, OpenKept
<1>2. CASE Type
  BY <1>2, TypeKept
<1>3. CASE Leave
  BY <1>3, FormKept DEF Leave
<1>4. CASE Ask
  <2>1. filling' \in {FALSE, This.fills = "asked"}
    BY <1>4 DEF Ask
  <2>. QED
    BY <1>4, <2>1, FormKept DEF Ask
<1>5. CASE Fill
  <2>1. ~Forgiving(This)
    BY <1>5 DEF Fill, DialogInv, NothingLost
  <2>. QED
    BY <1>5, <2>1, FormKept DEF Fill
<1>6. ASSUME NEW k \in Call, Submit(k) PROVE DialogInv'
  BY <1>6, SubmitKept
<1>7. ASSUME NEW k \in Call, Serve(k) PROVE DialogInv'
  BY <1>7, ServeKept
<1>8. ASSUME NEW k \in Call, Settle(k) PROVE DialogInv'
  BY <1>8, FailsKept, StaysKept, ClosesKept, ShowsKept DEF Settle
<1>9. CASE UNCHANGED vars
  BY <1>9 DEF vars, DialogInv, TypeOK, Past, OwnDraft, SentOnce, FailedMadeNothing, NothingLost,
     OnSubject, Waits, Held, Secured, Creating, This, Made, Pending
<1>. QED
  BY <1>1, <1>2, <1>3, <1>4, <1>5, <1>6, <1>7, <1>8, <1>9 DEF Next

-----------------------------------------------------------------------------
(* Dialogs: the theorems.                                                   *)

\* The invariant of the dialogs: what each row's conditions buy.
THEOREM DialogInvariance == Spec => []DialogInv
<1>1. Init => DialogInv
  BY DialogStarts
<1>2. DialogInv /\ [Next]_vars => DialogInv'
  BY DialogKept
<1>. QED
  BY <1>1, <1>2, PTL DEF Spec

\* One form, filled in once, makes one thing: in every create dialog whose
\* button is off while its call is pending and whose success clears or discards
\* the form before that can be sent again, or that hands the form over when it
\* is sent.
THEOREM OneFormOneThing ==
  ASSUME \A d \in Dialog \ Doubling : Row[d].creates => MakesOne(Row[d])
  PROVE  Spec => []NoDouble
<1>1. DialogInv => NoDouble
  BY DEF DialogInv, TypeOK, SentOnce, NoDouble, This
<1>. QED
  BY <1>1, DialogInvariance, PTL

\* No failure costs the user his text: in every dialog that keeps the form until
\* the answer and that nobody else writes into.
THEOREM AnErrorCostsNoText ==
  ASSUME \A d \in Dialog \ Losing : Forgiving(Row[d])
  PROVE  Spec => []InputKept
<1>1. DialogInv => InputKept
  <2>. SUFFICES ASSUME DialogInv, dialog \notin Losing, NEW v \in (1..typed) \ excused
                PROVE  \/ v = draft.version
                       \/ \E k \in Made : call[k].version = v /\ call[k].state # "failed"
    BY DEF InputKept
  <2>1. Forgiving(This)
    BY DEF DialogInv, TypeOK, This
  <2>2. Secured(v) \/ v = draft.version
    BY <2>1 DEF DialogInv, NothingLost
  <2>3. v # 0
    OBVIOUS
  <2>. QED
    BY <2>2, <2>3 DEF Secured
<1>. QED
  BY <1>1, DialogInvariance, PTL

\* A call writes to the subject its draft was filled for, and its callbacks
\* name that subject: in every dialog whose callbacks go by the variables of the
\* call and whose form is made anew when it opens for one of several subjects.
THEOREM CallsKeepTheirSubject ==
  ASSUME \A d \in Dialog \ Misdirecting : Aimed(Row[d])
  PROVE  Spec => []SubjectKept
<1>1. DialogInv => SubjectKept
  BY DEF DialogInv, TypeOK, OnSubject, SubjectKept, This
<1>. QED
  BY <1>1, DialogInvariance, PTL

\* A late success leaves another opening alone: in every dialog whose success
\* changes nothing on the screen, or in which the user waits for it.
THEOREM AnotherOpeningIsLeftAlone ==
  ASSUME \A d \in Dialog \ Stealing : Polite(Row[d])
  PROVE  Spec => NeverStolen
<1> DEFINE Left == dialog \notin Stealing =>
       \A k \in Made :
         (call'[k] # call[k] /\ call'[k].state = "won" /\ shown \notin {0, call[k].opening})
         => shown' = shown /\ subject' = subject /\ draft' = draft
<1>1. DialogInv /\ [Next]_vars => [Left]_vars
  <2>. SUFFICES ASSUME DialogInv, Next, dialog \notin Stealing, NEW k \in Made,
                       call'[k] # call[k], call'[k].state = "won", shown \notin {0, call[k].opening}
                PROVE  shown' = shown /\ subject' = subject /\ draft' = draft
    OBVIOUS
  <2>1. Polite(This)
    BY DEF DialogInv, TypeOK, This
  <2>2. TypeOK /\ Past /\ Waits
    BY DEF DialogInv
  <2>3. k \in Call /\ call \in [Call -> CallType \cup {Unsent}] /\ call[k] # Unsent
    BY <2>2 DEF TypeOK, Made
  <2>4. PICK j \in Call : Submit(j) \/ Serve(j) \/ Settle(j)
    BY DEF Next, Open, Type, Leave, Ask, Fill
  <2>5. ~Submit(j)
    BY <2>3 DEF Submit
  <2>6. ~Serve(j) /\ ~Fails(j)
    <3>1. call[k] \in CallType
      BY <2>2, MadeCall
    <3>2. ASSUME Fails(j) PROVE FALSE
      <4>1. k = j
        BY <2>3, <3>2 DEF Fails, SettledAs
      <4>. QED
        BY <2>3, <3>1, <3>2, <4>1 DEF Fails, SettledAs, CallType
    <3>3. ASSUME Serve(j) PROVE FALSE
      <4>1. PICK ok \in BOOLEAN, made \in BOOLEAN :
              call' = [call EXCEPT ![j].state = IF ok THEN "ok" ELSE "error", ![j].made = made]
        BY <3>3 DEF Serve
      <4>2. k = j
        BY <2>3, <4>1
      <4>3. call'[k] = [call[k] EXCEPT !.state = IF ok THEN "ok" ELSE "error", !.made = made]
        BY <2>3, <4>1, <4>2
      <4>. QED
        BY <3>1, <4>3 DEF CallType
    <3>. QED
      BY <3>2, <3>3
  <2>7. (Stays(j) \/ Closes(j) \/ Shows(j)) /\ Wins(j)
    BY <2>4, <2>5, <2>6 DEF Settle, Stays, Closes, Shows
  <2>8. j = k /\ k \in Pending
    BY <2>3, <2>7 DEF Wins, SettledAs, Pending
  <2>9. This.success = "stays" /\ ~(This.clears /\ This.keeps)
    BY <2>1, <2>2, <2>7, <2>8 DEF Polite, Waits, Shows
  <2>. QED
    BY <2>7, <2>8, <2>9 DEF Stays, Closes, Shows, Reset
<1>. QED
  BY <1>1, DialogInvariance, PTL DEF Spec, NeverStolen

-----------------------------------------------------------------------------
(* Controls: the inductive invariant.                                       *)

\* Calls are numbered in the order of the clicks.
InOrder == \E n \in Nat : Clicked = 1..n

\* The call k keeps the button v of row s busy.
Covers(k, s, v) ==
  \/ Act.marks = "all"
  \/ click[k].subject = s /\ (Act.marks = "choice" => click[k].value = v)

\* What is raised is what the pending calls cover, each button by one call.
MarksFit ==
  Act.marks \in {"own", "choice", "all"} =>
    /\ \A s \in Listed, v \in Value :
         <<s, v>> \in raised <=> \E k \in Awaited : Covers(k, s, v)
    /\ \A s \in Listed, v \in Value : \A j, k \in Awaited :
         Covers(j, s, v) /\ Covers(k, s, v) => j = k

\* With no call pending, what was read is what the server holds, and so is
\* what is shown unless the list is being fetched.
CopyFits ==
  Act.settles = "always" /\ Awaited = {} =>
    /\ fetch.state = "idle" => displayed = server
    /\ fetch.state = "read" => fetch.read = server

ControlInv == ControlTypeOK /\ InOrder /\ MarksFit /\ CopyFits

-----------------------------------------------------------------------------
(* Controls: the calls.                                                     *)

LEMMA DoesTyped == ASSUME ControlTypeOK PROVE Act \in DoesType
BY ControlAssumption DEF ControlTypeOK, Act

\* A made call is a record, a pending one a made one.
LEMMA ClickTyped ==
  ASSUME ControlTypeOK, NEW k \in Clicked
  PROVE  k \in Click /\ click[k] \in ClickType
BY DEF ControlTypeOK, Clicked

LEMMA BlankListTyped == [s \in Listed |-> "off"] \in List
BY DEF List, Value

\* The next number is that of a call not made yet.
LEMMA NextNumber ==
  ASSUME InOrder, NEW k \in Click, k = Cardinality(Clicked) + 1
  PROVE  k \notin Clicked /\ \E n \in Nat : Clicked \cup {k} = 1..n
<1>1. PICK n \in Nat : Clicked = 1..n
  BY DEF InOrder
<1>2. Cardinality(Clicked) = n
  <2>1. Cardinality(1..n) = IF 1 > n THEN 0 ELSE n - 1 + 1
    BY FS_Interval
  <2>. QED
    BY <1>1, <2>1
<1>3. Clicked \cup {k} = 1..(n + 1)
  BY <1>1, <1>2
<1>. QED
  BY <1>1, <1>2, <1>3

\* A call in another state.
LEMMA StateType ==
  ASSUME ControlTypeOK, NEW k \in Clicked,
         NEW t \in {"sent", "ok", "error", "won", "lost"}, NEW b \in List,
         \/ click' = [click EXCEPT ![k].state = t]
         \/ click' = [click EXCEPT ![k].state = t, ![k].before = b]
  PROVE  /\ click' \in [Click -> ClickType \cup {Unmade}]
         /\ Clicked' = Clicked
         /\ click'[k].state = t
         /\ \A j \in Clicked : /\ click'[j].subject = click[j].subject
                               /\ click'[j].value = click[j].value
                               /\ j # k => click'[j] = click[j]
<1>1. k \in Click /\ click[k] \in ClickType /\ click \in [Click -> ClickType \cup {Unmade}]
  BY ClickTyped DEF ControlTypeOK
<1>2. /\ click'[k] \in ClickType /\ click'[k].state = t
      /\ click'[k].subject = click[k].subject /\ click'[k].value = click[k].value
  BY <1>1 DEF ClickType
<1>3. \A j \in Click : j # k => click'[j] = click[j]
  BY <1>1
<1>4. click' \in [Click -> ClickType \cup {Unmade}]
  BY <1>1, <1>2, <1>3
<1>5. click'[k] # Unmade /\ click[k] # Unmade
  BY <1>1, <1>2, ControlAssumption
<1>. QED
  BY <1>2, <1>3, <1>4, <1>5 DEF Clicked

\* The pending calls as before, and what they cover.
LEMMA AwaitedSame ==
  ASSUME ControlTypeOK, NEW k \in Awaited, NEW t \in {"ok", "error"},
         click' = [click EXCEPT ![k].state = t], control' = control
  PROVE  /\ click' \in [Click -> ClickType \cup {Unmade}]
         /\ Clicked' = Clicked /\ Awaited' = Awaited
         /\ \A j \in Awaited : \A s, v : Covers(j, s, v)' <=> Covers(j, s, v)
<1>. k \in Clicked
  BY DEF Awaited
<1>1. /\ click' \in [Click -> ClickType \cup {Unmade}] /\ Clicked' = Clicked
      /\ click'[k].state = t
      /\ \A j \in Clicked : /\ click'[j].subject = click[j].subject
                            /\ click'[j].value = click[j].value
                            /\ j # k => click'[j] = click[j]
  BY StateType, BlankListTyped
<1>2. Awaited' = Awaited
  BY <1>1 DEF Awaited
<1>. QED
  BY <1>1, <1>2 DEF Covers, Act, Awaited

\* One pending call less.
LEMMA AwaitedLess ==
  ASSUME ControlTypeOK, NEW k \in Awaited, NEW t \in {"won", "lost"},
         click' = [click EXCEPT ![k].state = t, ![k].before = Idle.read],
         control' = control
  PROVE  /\ click' \in [Click -> ClickType \cup {Unmade}]
         /\ Clicked' = Clicked /\ Awaited' = Awaited \ {k}
         /\ \A j \in Awaited : \A s, v : Covers(j, s, v)' <=> Covers(j, s, v)
<1>. k \in Clicked
  BY DEF Awaited
<1>. Idle.read \in List
  BY BlankListTyped DEF Idle
<1>1. /\ click' \in [Click -> ClickType \cup {Unmade}] /\ Clicked' = Clicked
      /\ click'[k].state = t
      /\ \A j \in Clicked : /\ click'[j].subject = click[j].subject
                            /\ click'[j].value = click[j].value
                            /\ j # k => click'[j] = click[j]
  BY StateType
<1>2. Awaited' = Awaited \ {k}
  BY <1>1 DEF Awaited
<1>. QED
  BY <1>1, <1>2 DEF Covers, Act, Awaited

-----------------------------------------------------------------------------
(* Controls: the steps.                                                     *)

LEMMA ControlStarts == ControlInit => ControlInv
<1>. SUFFICES ASSUME ControlInit PROVE ControlInv
  OBVIOUS
<1>1. Clicked = {} /\ Awaited = {}
  BY DEF ControlInit, Clicked, Awaited
<1>2. ControlTypeOK
  BY BlankListTyped DEF ControlInit, ControlTypeOK, Idle
<1>3. InOrder
  <2>1. Clicked = 1..0
    BY <1>1
  <2>. QED
    BY <2>1 DEF InOrder
<1>. QED
  BY <1>1, <1>2, <1>3 DEF ControlInv, MarksFit, CopyFits, ControlInit, Idle

LEMMA ChooseKept ==
  ASSUME ControlInv, NEW s \in Listed, NEW v \in Value, Choose(s, v)
  PROVE  ControlInv'
<1>. ControlTypeOK /\ InOrder /\ MarksFit /\ control' = control /\ Act' = Act
  BY DEF ControlInv, Choose, Act
<1>1. PICK k \in Click :
        /\ k = Cardinality(Clicked) + 1
        /\ <<s, v>> \notin Busy
        /\ click' = [click EXCEPT ![k] =
             [subject |-> s, value |-> v, before |-> Before, state |-> "sent"]]
        /\ raised' = Raise(s, v)
        /\ displayed' = IF Act.patches = "now" THEN [displayed EXCEPT ![s] = v] ELSE displayed
        /\ fetch' = IF Act.patches = "now" THEN Idle ELSE fetch
        /\ UNCHANGED <<control, server>>
  BY DEF Choose
<1>2. k \notin Clicked /\ \E n \in Nat : Clicked \cup {k} = 1..n
  BY <1>1, NextNumber
<1>3. Before \in List
  BY BlankListTyped DEF Before, Idle, ControlTypeOK
<1>4. /\ click' \in [Click -> ClickType \cup {Unmade}]
      /\ click'[k] \in ClickType /\ click'[k].state = "sent"
      /\ click'[k].subject = s /\ click'[k].value = v
      /\ \A j \in Clicked : click'[j] = click[j]
  BY <1>1, <1>2, <1>3 DEF ControlTypeOK, ClickType, Clicked
<1>5. Clicked' = Clicked \cup {k}
  <2>1. click'[k] # Unmade
    BY <1>4, ControlAssumption
  <2>. QED
    BY <1>1, <1>4, <2>1 DEF ControlTypeOK, Clicked
<1>6. Awaited' = Awaited \cup {k} /\ k \notin Awaited
  BY <1>2, <1>4, <1>5 DEF Awaited
<1>7. ControlTypeOK'
  <2>1. raised' \subseteq Listed \X Value
    BY <1>1 DEF Raise, ControlTypeOK
  <2>2. displayed' \in List /\ fetch' \in [state : {"idle", "asked", "read", "failed"}, read : List]
    BY <1>1, BlankListTyped DEF ControlTypeOK, List, Idle
  <2>. QED
    BY <1>1, <1>4, <2>1, <2>2 DEF ControlTypeOK
<1>8. MarksFit'
  <2>. SUFFICES ASSUME Act.marks \in {"own", "choice", "all"}
                PROVE  /\ \A x \in Listed, y \in Value :
                            <<x, y>> \in raised' <=> \E j \in Awaited' : Covers(j, x, y)'
                       /\ \A x \in Listed, y \in Value : \A i, j \in Awaited' :
                            Covers(i, x, y)' /\ Covers(j, x, y)' => i = j
    BY DEF MarksFit
  <2>1. \A j \in Awaited : \A x, y : Covers(j, x, y)' <=> Covers(j, x, y)
    BY <1>4 DEF Awaited, Covers
  <2>2. \A x, y : Covers(k, x, y)' <=>
          \/ Act.marks = "all"
          \/ x = s /\ (Act.marks = "choice" => y = v)
    BY <1>4 DEF Covers
  <2>3. <<s, v>> \notin raised
    BY <1>1 DEF Busy
  <2>4. \A j \in Awaited : ~Covers(j, s, v)
    BY <2>3 DEF MarksFit
  <2>5. \A x \in Listed, y \in Value :
          <<x, y>> \in raised' <=> <<x, y>> \in raised \/ Covers(k, x, y)'
    <3>1. CASE Act.marks = "own"
      BY <1>1, <2>2, <3>1 DEF Raise
    <3>2. CASE Act.marks = "choice"
      BY <1>1, <2>2, <3>2 DEF Raise
    <3>3. CASE Act.marks = "all"
      BY <1>1, <2>2, <3>3 DEF Raise
    <3>. QED
      BY <3>1, <3>2, <3>3
  <2>6. \A x \in Listed, y \in Value : Covers(k, x, y)' => \A j \in Awaited : ~Covers(j, x, y)
    BY <2>2, <2>4 DEF Covers
  <2>. QED
    BY <1>6, <2>1, <2>5, <2>6 DEF MarksFit
<1>9. InOrder' /\ CopyFits'
  BY <1>2, <1>5, <1>6 DEF InOrder, CopyFits
<1>. QED
  BY <1>7, <1>8, <1>9 DEF ControlInv

LEMMA ApplyKept == ASSUME ControlInv, NEW k \in Click, Apply(k) PROVE ControlInv'
<1>. ControlTypeOK /\ Act' = Act /\ UNCHANGED <<control, displayed, raised, fetch>>
  BY DEF ControlInv, Apply, Act
<1>1. k \in Clicked /\ k \in Awaited
  BY DEF Apply, Awaited
<1>2. PICK t \in {"ok", "error"} : click' = [click EXCEPT ![k].state = t]
  BY DEF Apply
<1>3. /\ click' \in [Click -> ClickType \cup {Unmade}]
      /\ Clicked' = Clicked /\ Awaited' = Awaited
      /\ \A j \in Awaited : \A s, v : Covers(j, s, v)' <=> Covers(j, s, v)
  BY <1>1, <1>2, AwaitedSame
<1>4. server' \in List
  <2>1. click[k] \in ClickType
    BY <1>1, ClickTyped
  <2>2. server \in List /\ click[k].subject \in Listed /\ click[k].value \in Value
    BY <2>1 DEF ControlTypeOK, ClickType
  <2>. QED
    BY <2>2 DEF Apply, List
<1>5. ControlTypeOK'
  BY <1>3, <1>4 DEF ControlTypeOK
<1>6. InOrder' /\ MarksFit' /\ CopyFits'
  BY <1>1, <1>3 DEF ControlInv, InOrder, MarksFit, CopyFits
<1>. QED
  BY <1>5, <1>6 DEF ControlInv

\* An answer takes the marks of its call with it.
LEMMA LowerKept ==
  ASSUME ControlInv, NEW k \in Awaited, NEW t \in {"won", "lost"},
         click' = [click EXCEPT ![k].state = t, ![k].before = Idle.read],
         raised' = Lower(k), control' = control
  PROVE  /\ click' \in [Click -> ClickType \cup {Unmade}]
         /\ raised' \subseteq Listed \X Value
         /\ InOrder' /\ MarksFit'
<1>. ControlTypeOK /\ InOrder /\ MarksFit /\ Act' = Act
  BY DEF ControlInv, Act
<1>1. /\ click' \in [Click -> ClickType \cup {Unmade}]
      /\ Clicked' = Clicked /\ Awaited' = Awaited \ {k}
      /\ \A j \in Awaited : \A s, v : Covers(j, s, v)' <=> Covers(j, s, v)
  BY AwaitedLess
<1>2. raised' \subseteq Listed \X Value
  BY DEF Lower, ControlTypeOK
<1>3. MarksFit'
  <2>. SUFFICES ASSUME Act.marks \in {"own", "choice", "all"}
                PROVE  /\ \A x \in Listed, y \in Value :
                            <<x, y>> \in raised' <=> \E j \in Awaited' : Covers(j, x, y)'
                       /\ \A x \in Listed, y \in Value : \A i, j \in Awaited' :
                            Covers(i, x, y)' /\ Covers(j, x, y)' => i = j
    BY DEF MarksFit
  <2>1. k \in Clicked /\ click[k] \in ClickType
    BY ClickTyped DEF Awaited
  <2>2. \A x \in Listed, y \in Value :
          <<x, y>> \in raised' <=> <<x, y>> \in raised /\ ~Covers(k, x, y)
    <3>1. CASE Act.marks = "own"
      BY <2>1, <3>1 DEF Lower, Covers, ClickType
    <3>2. CASE Act.marks = "choice"
      BY <2>1, <3>2 DEF Lower, Covers, ClickType
    <3>3. CASE Act.marks = "all"
      BY <3>3 DEF Lower, Covers
    <3>. QED
      BY <3>1, <3>2, <3>3
  <2>. QED
    BY <1>1, <2>2 DEF MarksFit
<1>. QED
  BY <1>1, <1>2, <1>3 DEF InOrder

LEMMA SettleKept == ASSUME ControlInv, NEW k \in Click, Succeed(k) \/ GiveUp(k) PROVE ControlInv'
<1>. ControlTypeOK
  BY DEF ControlInv
<1>1. k \in Clicked /\ k \in Awaited /\ click[k] \in ClickType /\ UNCHANGED <<control, server>>
  BY ClickTyped DEF Succeed, GiveUp, Awaited
<1>2. PICK t \in {"won", "lost"} :
        click' = [click EXCEPT ![k].state = t, ![k].before = Idle.read]
  BY DEF Succeed, GiveUp
<1>3. /\ click' \in [Click -> ClickType \cup {Unmade}]
      /\ raised' \subseteq Listed \X Value
      /\ InOrder' /\ MarksFit'
  <2>1. raised' = Lower(k)
    BY DEF Succeed, GiveUp
  <2>. QED
    BY <1>1, <1>2, <2>1, LowerKept
<1>4. Asked \in [state : {"idle", "asked", "read", "failed"}, read : List]
  BY BlankListTyped DEF Asked, Idle
<1>5. displayed' \in List /\ fetch' \in [state : {"idle", "asked", "read", "failed"}, read : List]
  <2>1. /\ displayed \in List /\ click[k].before \in List
        /\ click[k].subject \in Listed /\ click[k].value \in Value
    BY <1>1 DEF ControlTypeOK, ClickType
  <2>2. displayed' \in List
    BY <2>1 DEF Succeed, GiveUp, List
  <2>3. fetch' \in {Asked, fetch}
    BY DEF Succeed, GiveUp, Invalidate
  <2>. QED
    BY <1>4, <2>2, <2>3 DEF ControlTypeOK
<1>6. CopyFits'
  <2>. SUFFICES ASSUME Act.settles = "always" PROVE CopyFits'
    BY <1>1 DEF CopyFits, Act
  <2>1. fetch'.state = "asked"
    BY DEF Succeed, GiveUp, Invalidate, Asked, Idle
  <2>. QED
    BY <2>1 DEF CopyFits
<1>7. ControlTypeOK'
  BY <1>1, <1>3, <1>5 DEF ControlTypeOK
<1>. QED
  BY <1>3, <1>6, <1>7 DEF ControlInv

LEMMA FetchKept ==
  ASSUME ControlInv, Refetch \/ ReadList \/ DeliverList
  PROVE  ControlInv'
<1>. ControlTypeOK /\ UNCHANGED <<control, server, click, raised>>
  BY DEF ControlInv, Refetch, ReadList, DeliverList
<1>1. Clicked' = Clicked /\ Awaited' = Awaited /\ Act' = Act
  BY DEF Clicked, Awaited, Act
<1>2. InOrder' /\ MarksFit'
  BY <1>1 DEF ControlInv, InOrder, MarksFit, Covers
<1>3. ControlTypeOK' /\ CopyFits'
  <2>1. CASE Refetch
    BY <1>1, <2>1, BlankListTyped DEF Refetch, Asked, Idle, ControlTypeOK, CopyFits
  <2>2. CASE ReadList
    BY <1>1, <2>2, BlankListTyped DEF ReadList, Idle, ControlTypeOK, CopyFits
  <2>3. CASE DeliverList
    BY <1>1, <2>3, BlankListTyped DEF ControlInv, DeliverList, Idle, ControlTypeOK, CopyFits
  <2>. QED
    BY <2>1, <2>2, <2>3
<1>. QED
  BY <1>2, <1>3 DEF ControlInv

LEMMA ControlKept == ControlInv /\ [ControlNext]_controlVars => ControlInv'
<1>. SUFFICES ASSUME ControlInv, [ControlNext]_controlVars PROVE ControlInv'
  OBVIOUS
<1>1. CASE UNCHANGED controlVars
  BY <1>1 DEF controlVars, ControlInv, ControlTypeOK, InOrder, MarksFit, CopyFits, Covers,
              Act, Awaited, Clicked
<1>2. CASE \E s \in Listed, v \in Value : Choose(s, v)
  BY <1>2, ChooseKept
<1>3. CASE Refetch \/ ReadList \/ DeliverList
  BY <1>3, FetchKept
<1>4. CASE \E k \in Click : Apply(k)
  BY <1>4, ApplyKept
<1>5. CASE \E k \in Click : Succeed(k) \/ GiveUp(k)
  BY <1>5, SettleKept
<1>. QED
  BY <1>1, <1>2, <1>3, <1>4, <1>5 DEF ControlNext

-----------------------------------------------------------------------------
(* Controls: the theorems.                                                  *)

\* Whatever is clicked, answered and fetched in whatever order, the invariant
\* holds from the start.
THEOREM ControlInvariance == ControlSpec => []ControlInv
<1>. QED
  BY ControlStarts, ControlKept, PTL DEF ControlSpec

\* Where a control marks the row, the button or the list of its own calls
\* (loading maps, isPending with variables), a button is busy exactly while
\* its call is pending.
THEOREM BusyWhilePending ==
  ASSUME \A c \in Control \ Mismarked : Does[c].marks \in {"none", "own", "choice", "all"}
  PROVE  ControlSpec => []BusyIsTrue
<1>1. ControlInv => BusyIsTrue
  <2>. SUFFICES ASSUME ControlInv, control \notin Mismarked, Act.marks # "none"
                PROVE  \A s \in Listed, v \in Value :
                         <<s, v>> \in Busy <=> \E k \in Awaited : Covers(k, s, v)
    BY DEF BusyIsTrue, Covers
  <2>1. Act.marks \in {"own", "choice", "all"}
    BY DEF ControlInv, ControlTypeOK, Act
  <2>. QED
    BY <2>1 DEF ControlInv, MarksFit, Busy
<1>. QED
  BY <1>1, ControlInvariance, PTL

\* Where every answer fetches the list again (invalidations in onSettled), the
\* list at rest shows what the server holds, although calls were anticipated,
\* taken back, or failed after they took effect.
THEOREM RestIsTruth ==
  ASSUME \A c \in Control \ Unhealed : Does[c].settles \in {"always", "nothing"}
  PROVE  ControlSpec => []ShownIsTruth
<1>1. ControlInv => ShownIsTruth
  BY DEF ControlInv, ControlTypeOK, CopyFits, ShownIsTruth, Act
<1>. QED
  BY <1>1, ControlInvariance, PTL

-----------------------------------------------------------------------------
(* Panels: the inductive invariant.                                         *)

\* Requests are numbered in the order they are made.
InSequence == \A j \in AskedFor, i \in Numbers : i < j => i \in AskedFor

\* An answer is no older than its request.
ReadsLate ==
  \A k \in AskedFor :
    /\ ask[k].state = "sent" => ask[k].least <= world[ask[k].of]
    /\ ask[k].state \in {"read", "won"} => ask[k].least <= ask[k].read

\* A spinner waits for an answer that will count.
AwaitsHeeded == waiting => \E k \in UnderWay : Heeded(k)

\* A copy under a key is the key's.
OwnCopies == Load.keeps = "each" => \A c \in Place : copy[c] # Missing => copy[c].of = c

\* Nothing can lie over what the newest request has brought: neither an
\* older answer nor an older failure.
NewestStays ==
  Load.heeds = "latest" =>
    \A k \in AskedFor : ~Replaced(k) =>
      /\ ask[k].state = "won" /\ (Load.keeps = "each" \/ chosen # Empty) =>
           \A p \in Places(ask[k].of) : copy[p] = [of |-> ask[k].of, read |-> ask[k].read]
      /\ ask[k].state = "won" \/ (Load.fails = "erased" /\ ask[k].state # "lost") =>
           told \cap Places(ask[k].of) = {}

PanelInv ==
  /\ PanelTypeOK /\ InSequence /\ ReadsLate /\ AwaitsHeeded /\ OwnCopies /\ NewestStays
  /\ Load.fails = "silently" => told = {}

-----------------------------------------------------------------------------
(* Panels: requests.                                                        *)

LEMMA LoadType == ASSUME PanelTypeOK PROVE Load \in LoadsType
BY PanelAssumption DEF PanelTypeOK, Load

LEMMA AskTyped ==
  ASSUME PanelTypeOK, NEW k \in AskedFor
  PROVE  k \in Numbers /\ ask[k] \in AskType /\ k \in Nat
BY PanelAssumption DEF PanelTypeOK, AskedFor, Numbers

\* A new request is the newest, and replaces those it is said to replace.
LEMMA Asks ==
  ASSUME PanelTypeOK, InSequence, NEW c \in Choice, NEW k, Request(c, k), Load' = Load
  PROVE  /\ k \in Numbers /\ ask' \in [Numbers -> AskType \cup {Unasked}]
         /\ AskedFor' = AskedFor \cup {k} /\ k \notin AskedFor
         /\ ask'[k] = [of |-> c, state |-> "sent", read |-> 0, least |-> world[c]]
         /\ \A j \in AskedFor : ask'[j] = ask[j]
         /\ ~Replaced(k)'
         /\ \A j \in AskedFor : Replaced(j) => Replaced(j)'
         /\ \A j \in AskedFor : Load.keeps # "each" \/ ask[j].of = c => Replaced(j)'
<1> DEFINE new == [of |-> c, state |-> "sent", read |-> 0, least |-> world[c]]
<1>1. k \in Numbers /\ k \notin AskedFor /\ ask' = [ask EXCEPT ![k] = new]
  BY DEF Request
<1>2. new \in AskType
  BY PanelAssumption DEF AskType, PanelTypeOK
<1>3. new # Unasked
  BY <1>2, PanelAssumption
<1>4. ask' \in [Numbers -> AskType \cup {Unasked}] /\ ask'[k] = new
  BY <1>1, <1>2 DEF PanelTypeOK
<1>5. \A j \in Numbers : j # k => ask'[j] = ask[j]
  BY <1>1 DEF PanelTypeOK
<1>6. AskedFor' = AskedFor \cup {k}
  BY <1>1, <1>3, <1>4, <1>5 DEF AskedFor
<1>7. \A j \in AskedFor : j < k /\ ~(j > k)
  <2>. SUFFICES ASSUME NEW j \in AskedFor PROVE j < k
    BY <1>1, PanelAssumption DEF AskedFor, Numbers
  <2>1. j \in Numbers /\ j # k /\ ~(k < j)
    BY <1>1 DEF InSequence, AskedFor
  <2>. QED
    BY <1>1, <2>1, PanelAssumption DEF Numbers
<1>8. ~Replaced(k)'
  BY <1>1, <1>6, <1>7, PanelAssumption DEF Replaced, Numbers
<1>9. \A j \in AskedFor : ask'[j] = ask[j]
  BY <1>1, <1>5 DEF AskedFor
<1>10. ASSUME NEW j \in AskedFor, Replaced(j) PROVE Replaced(j)'
  <2>1. PICK i \in AskedFor : i > j /\ (Load.keeps = "each" => ask[i].of = ask[j].of)
    BY <1>10 DEF Replaced
  <2>. QED
    BY <1>6, <1>9, <2>1 DEF Replaced
<1>11. ASSUME NEW j \in AskedFor, Load.keeps # "each" \/ ask[j].of = c PROVE Replaced(j)'
  <2>1. k > j /\ (Load'.keeps = "each" => ask'[k].of = ask'[j].of)
    BY <1>4, <1>7, <1>9, <1>11, <1>1, PanelAssumption DEF AskedFor, Numbers
  <2>. QED
    BY <1>6, <2>1 DEF Replaced
<1>. QED
  BY <1>1, <1>4, <1>6, <1>8, <1>9, <1>10, <1>11

\* A request in another state.
LEMMA AskMoves ==
  ASSUME PanelTypeOK, NEW k \in AskedFor, Load' = Load,
         NEW t \in {"read", "refused", "won", "lost"}, NEW n \in Nat,
         \/ ask' = [ask EXCEPT ![k].state = t, ![k].read = n]
         \/ ask' = [ask EXCEPT ![k].state = t] /\ n = ask[k].read
  PROVE  /\ ask' \in [Numbers -> AskType \cup {Unasked}]
         /\ AskedFor' = AskedFor
         /\ ask'[k].state = t /\ ask'[k].read = n
         /\ ask'[k].of = ask[k].of /\ ask'[k].least = ask[k].least
         /\ \A j \in AskedFor : j # k => ask'[j] = ask[j]
         /\ \A j \in AskedFor : Replaced(j)' <=> Replaced(j)
<1>1. k \in Numbers /\ ask[k] \in AskType /\ ask \in [Numbers -> AskType \cup {Unasked}]
  BY AskTyped DEF PanelTypeOK
<1>2. /\ ask'[k] \in AskType /\ ask'[k].state = t /\ ask'[k].read = n
      /\ ask'[k].of = ask[k].of /\ ask'[k].least = ask[k].least
  BY <1>1 DEF AskType
<1>3. \A j \in Numbers : j # k => ask'[j] = ask[j]
  BY <1>1
<1>4. ask' \in [Numbers -> AskType \cup {Unasked}]
  BY <1>1, <1>2, <1>3
<1>5. AskedFor' = AskedFor
  BY <1>1, <1>2, <1>3, PanelAssumption DEF AskedFor
<1>6. \A j \in AskedFor : ask'[j].of = ask[j].of
  BY <1>2, <1>3 DEF AskedFor
<1>7. \A j \in AskedFor : Replaced(j)' <=> Replaced(j)
  BY <1>5, <1>6 DEF Replaced
<1>. QED
  BY <1>2, <1>3, <1>4, <1>5, <1>7 DEF AskedFor

\* Of two requests for the same place one is replaced.
LEMMA OneIsNewest ==
  ASSUME PanelTypeOK, NEW j \in AskedFor, NEW k \in AskedFor, j # k,
         ~Replaced(j), ~Replaced(k)
  PROVE  Places(ask[j].of) \cap Places(ask[k].of) = {}
<1>1. j \in Nat /\ k \in Nat
  BY AskTyped
<1>2. Load.keeps = "each" /\ ask[j].of # ask[k].of
  BY <1>1 DEF Replaced
<1>. QED
  BY <1>2 DEF Places

-----------------------------------------------------------------------------
(* Panels: the steps.                                                       *)

LEMMA PanelStarts == PanelInit => PanelInv
<1>. SUFFICES ASSUME PanelInit PROVE PanelInv
  OBVIOUS
<1> DEFINE first == [of |-> chosen, state |-> "sent", read |-> 0, least |-> 0]
<1>1. 1 \in Numbers /\ first \in AskType
  BY PanelAssumption DEF Numbers, AskType, PanelInit
<1>2. AskedFor = {1} /\ ask[1] = first
  BY <1>1, PanelAssumption DEF PanelInit, AskedFor, Numbers
<1>3. PanelTypeOK
  BY <1>1, PanelAssumption DEF PanelInit, PanelTypeOK, Place
<1>4. InSequence
  BY <1>2, PanelAssumption DEF InSequence, Numbers
<1>5. ReadsLate
  BY <1>2 DEF ReadsLate, PanelInit
<1>6. AwaitsHeeded
  BY <1>2 DEF AwaitsHeeded, UnderWay, Heeded, Replaced
<1>. QED
  BY <1>2, <1>3, <1>4, <1>5, <1>6 DEF PanelInv, PanelInit, OwnCopies, NewestStays

LEMMA RequestKept ==
  ASSUME PanelInv, NEW c \in Choice, NEW k, Request(c, k), chosen' \in Place,
         UNCHANGED <<panel, world, copy>>
  PROVE  PanelInv'
<1>. PanelTypeOK /\ InSequence /\ ReadsLate /\ AwaitsHeeded /\ OwnCopies /\ NewestStays
  BY DEF PanelInv
<1>. Load' = Load /\ \A p : Places(p)' = Places(p)
  BY DEF Load, Places
<1>1. /\ k \in Numbers /\ ask' \in [Numbers -> AskType \cup {Unasked}]
      /\ AskedFor' = AskedFor \cup {k} /\ k \notin AskedFor
      /\ ask'[k] = [of |-> c, state |-> "sent", read |-> 0, least |-> world[c]]
      /\ \A j \in AskedFor : ask'[j] = ask[j]
      /\ ~Replaced(k)'
      /\ \A j \in AskedFor : Replaced(j) => Replaced(j)'
      /\ \A j \in AskedFor : Load.keeps # "each" \/ ask[j].of = c => Replaced(j)'
  BY Asks
<1>2. told' \subseteq told /\ waiting' \in BOOLEAN
      /\ (Load.fails = "erased" => told' \cap Places(c) = {})
  BY DEF Request, PanelTypeOK
<1>3. PanelTypeOK'
  BY <1>1, <1>2 DEF PanelTypeOK, Place
<1>4. InSequence'
  <2>1. \A i \in Numbers : i < k => i \in AskedFor
    BY PanelAssumption DEF Request, Numbers
  <2>. QED
    BY <1>1, <2>1 DEF InSequence, Numbers
<1>5. ReadsLate'
  <2>1. world[c] <= world[c]
    BY PanelAssumption DEF PanelTypeOK
  <2>. QED
    BY <1>1, <2>1 DEF ReadsLate
<1>6. AwaitsHeeded'
  BY <1>1 DEF AwaitsHeeded, UnderWay, Heeded
<1>7. OwnCopies'
  BY DEF OwnCopies, Place
<1>8. NewestStays'
  <2>. SUFFICES ASSUME Load.heeds = "latest", NEW j \in AskedFor', ~Replaced(j)'
                PROVE  /\ ask'[j].state = "won" /\ (Load.keeps = "each" \/ chosen' # Empty) =>
                            \A p \in Places(ask'[j].of) :
                              copy'[p] = [of |-> ask'[j].of, read |-> ask'[j].read]
                       /\ ask'[j].state = "won" \/ (Load.fails = "erased" /\ ask'[j].state # "lost") =>
                            told' \cap Places(ask'[j].of) = {}
    BY DEF NewestStays
  <2>1. CASE j = k
    BY <1>1, <1>2, <2>1
  <2>2. CASE j # k
    <3>1. j \in AskedFor /\ ~Replaced(j) /\ Load.keeps = "each" /\ ask'[j] = ask[j]
      BY <1>1, <2>2
    <3>. QED
      BY <1>2, <3>1 DEF NewestStays
  <2>. QED
    BY <2>1, <2>2
<1>. QED
  BY <1>2, <1>3, <1>4, <1>5, <1>6, <1>7, <1>8 DEF PanelInv

\* A step that makes no request and changes no answer.
LEMMA PanelFrame ==
  ASSUME PanelInv, UNCHANGED <<panel, ask, told, waiting>>,
         PanelTypeOK', \A c \in Choice : world[c] <= world'[c],
         \A p \in Place :
           copy'[p] = copy[p]
             \/ (copy'[p] = Missing /\ chosen' = Empty /\ (Load.keeps = "each" => p = Empty)),
         Load.keeps = "each" \/ chosen' \in {chosen, Empty}
  PROVE  PanelInv'
<1>. PanelTypeOK /\ InSequence /\ ReadsLate /\ AwaitsHeeded /\ OwnCopies /\ NewestStays
  BY DEF PanelInv
<1>. /\ Load' = Load /\ AskedFor' = AskedFor /\ UnderWay' = UnderWay
     /\ (\A p : Places(p)' = Places(p)) /\ (\A k : Replaced(k)' <=> Replaced(k))
  BY DEF Load, Places, AskedFor, UnderWay, Replaced
<1>. \A k : Heeded(k)' <=> Heeded(k)
  BY DEF Heeded
<1>1. ReadsLate'
  <2>1. \A c \in Choice : world[c] \in Nat /\ world'[c] \in Nat
    BY PanelAssumption DEF PanelTypeOK
  <2>. QED
    BY <2>1, AskTyped DEF ReadsLate, AskType
<1>2. OwnCopies'
  BY DEF OwnCopies
<1>3. NewestStays'
  <2>1. ASSUME NEW k \in AskedFor, Load.keeps = "each" \/ chosen' # Empty,
               NEW p \in Places(ask[k].of), copy[p] = [of |-> ask[k].of, read |-> ask[k].read]
        PROVE  copy'[p] = copy[p]
    <3>1. ask[k].of \in Choice
      BY AskTyped DEF AskType
    <3>2. CASE Load.keeps = "each"
      BY <3>1, <3>2, PanelAssumption DEF Places, Place
    <3>3. CASE chosen' # Empty
      BY <3>1, <3>3 DEF Places, Place
    <3>. QED
      BY <2>1, <3>2, <3>3
  <2>. QED
    BY <2>1 DEF NewestStays
<1>. QED
  BY <1>1, <1>2, <1>3 DEF PanelInv, InSequence, AwaitsHeeded

LEMMA ServeAskKept == ASSUME PanelInv, NEW k \in Numbers, ServeAsk(k) PROVE PanelInv'
<1>. PanelTypeOK /\ InSequence /\ ReadsLate /\ AwaitsHeeded /\ OwnCopies /\ NewestStays
  BY DEF PanelInv
<1>. k \in AskedFor /\ ask[k].state = "sent" /\ UNCHANGED <<panel, chosen, world, copy, told, waiting>>
  BY DEF ServeAsk
<1>. Load' = Load /\ \A p : Places(p)' = Places(p)
  BY DEF Load, Places
<1>. ask[k].of \in Choice /\ ask[k] \in AskType
  BY AskTyped DEF AskType
<1>. world[ask[k].of] \in Nat /\ ask[k].read \in Nat
  BY PanelAssumption DEF PanelTypeOK, AskType
<1>1. PICK t \in {"read", "refused"}, n \in Nat :
        /\ (t = "read" => n = world[ask[k].of])
        /\ \/ ask' = [ask EXCEPT ![k].state = t, ![k].read = n]
           \/ ask' = [ask EXCEPT ![k].state = t] /\ n = ask[k].read
  BY DEF ServeAsk
<1>2. /\ ask' \in [Numbers -> AskType \cup {Unasked}] /\ AskedFor' = AskedFor
      /\ ask'[k].state = t /\ ask'[k].read = n
      /\ ask'[k].of = ask[k].of /\ ask'[k].least = ask[k].least
      /\ \A j \in AskedFor : j # k => ask'[j] = ask[j]
      /\ \A j \in AskedFor : Replaced(j)' <=> Replaced(j)
  BY <1>1, AskMoves
<1>3. PanelTypeOK'
  BY <1>2 DEF PanelTypeOK
<1>4. ReadsLate'
  BY <1>1, <1>2 DEF ReadsLate
<1>5. AwaitsHeeded'
  <2>1. UnderWay' = UnderWay
    BY <1>2 DEF UnderWay
  <2>. QED
    BY <1>2, <2>1 DEF AwaitsHeeded, Heeded, UnderWay
<1>6. NewestStays'
  <2>. SUFFICES ASSUME Load.heeds = "latest", NEW j \in AskedFor, ~Replaced(j)
                PROVE  /\ ask'[j].state = "won" /\ (Load.keeps = "each" \/ chosen # Empty) =>
                            \A p \in Places(ask'[j].of) :
                              copy[p] = [of |-> ask'[j].of, read |-> ask'[j].read]
                       /\ ask'[j].state = "won" \/ (Load.fails = "erased" /\ ask'[j].state # "lost") =>
                            told \cap Places(ask'[j].of) = {}
    BY <1>2 DEF NewestStays
  <2>1. CASE j = k
    BY <1>2, <2>1 DEF NewestStays
  <2>2. CASE j # k
    BY <1>2, <2>2 DEF NewestStays
  <2>. QED
    BY <2>1, <2>2
<1>. QED
  BY <1>2, <1>3, <1>4, <1>5, <1>6 DEF PanelInv, InSequence, OwnCopies

\* The answer that is heeded, or the failure: what it puts where.
LEMMA AnswerKept ==
  ASSUME PanelInv, NEW k \in Numbers, AnswerAsk(k) \/ RefuseAsk(k)
  PROVE  PanelInv'
<1>. PanelTypeOK /\ InSequence /\ ReadsLate /\ AwaitsHeeded /\ OwnCopies /\ NewestStays
  BY DEF PanelInv
<1>. k \in AskedFor /\ ask[k].state \in {"read", "refused"} /\ UNCHANGED <<panel, chosen, world>>
  BY DEF AnswerAsk, RefuseAsk
<1>. Load' = Load /\ \A p : Places(p)' = Places(p)
  BY DEF Load, Places
<1>. ask[k].of \in Choice /\ ask[k] \in AskType /\ ask[k].read \in Nat
  BY AskTyped DEF AskType
<1> DEFINE there == Places(ask[k].of)
           brought == [of |-> ask[k].of, read |-> ask[k].read]
<1>. there \subseteq Place /\ brought \in CopyType
  BY DEF Places, Place, CopyType
<1>1. /\ \/ AnswerAsk(k) /\ ask' = [ask EXCEPT ![k].state = "won"] /\ ask[k].state = "read"
         \/ RefuseAsk(k) /\ ask' = [ask EXCEPT ![k].state = "lost"]
  BY DEF AnswerAsk, RefuseAsk
<1>2. /\ ask' \in [Numbers -> AskType \cup {Unasked}] /\ AskedFor' = AskedFor
      /\ ask'[k].state \in {"won", "lost"} /\ ask'[k].read = ask[k].read
      /\ (ask'[k].state = "won" => AnswerAsk(k) /\ ask[k].state = "read")
      /\ ask'[k].of = ask[k].of /\ ask'[k].least = ask[k].least
      /\ \A j \in AskedFor : j # k => ask'[j] = ask[j]
      /\ \A j \in AskedFor : Replaced(j)' <=> Replaced(j)
  BY <1>1, AskMoves
<1>3. CASE ~Heeded(k)
  <2>. UNCHANGED <<copy, told, waiting>>
    BY <1>3 DEF AnswerAsk, RefuseAsk
  <2>1. AwaitsHeeded'
    BY <1>2, <1>3 DEF AwaitsHeeded, UnderWay, Heeded
  <2>2. NewestStays'
    BY <1>2, <1>3 DEF NewestStays, Heeded
  <2>3. ReadsLate'
    BY <1>2 DEF ReadsLate
  <2>. QED
    BY <1>2, <2>1, <2>2, <2>3 DEF PanelInv, PanelTypeOK, InSequence, OwnCopies
<1>4. CASE Heeded(k)
  <2>1. waiting' = FALSE
    BY <1>4 DEF AnswerAsk, RefuseAsk
  <2>2. /\ copy' \in [Place -> CopyType \cup {Missing}]
        /\ \A p \in Place \ there : copy'[p] = copy[p]
        /\ \A p \in there : copy'[p] \in {brought, copy[p], Missing}
        /\ ask'[k].state = "won" => \A p \in there : copy'[p] = brought
    <3>1. CASE AnswerAsk(k)
      <4>1. copy' = Put(ask[k].of, brought)
        BY <1>4, <3>1 DEF AnswerAsk
      <4>. QED
        BY <4>1 DEF Put, PanelTypeOK
    <3>2. CASE RefuseAsk(k) /\ ask'[k].state = "lost"
      <4>1. copy' \in {Put(ask[k].of, Missing), copy}
        BY <1>4, <3>2 DEF RefuseAsk
      <4>. QED
        BY <3>2, <4>1 DEF Put, PanelTypeOK
    <3>. QED
      BY <1>1, <1>2, <3>1, <3>2
  <2>3. /\ told' \subseteq Place
        /\ told' \subseteq told \cup there
        /\ Load.fails = "silently" => told' \subseteq told
        /\ ask'[k].state = "won" => told' \subseteq told
        /\ ask'[k].state = "won" /\ Load.fails = "told" => told' \cap there = {}
    BY <1>1, <1>2, <1>4 DEF AnswerAsk, RefuseAsk, PanelTypeOK
  <2>4. OwnCopies'
    <3>1. Load.keeps = "each" => there = {ask[k].of}
      BY DEF Places
    <3>. QED
      BY <2>2, <3>1 DEF OwnCopies
  <2>5. ReadsLate'
    BY <1>2 DEF ReadsLate
  <2>6. ASSUME Load.heeds = "latest", NEW j \in AskedFor, ~Replaced(j), j # k
        PROVE  /\ \A p \in Places(ask[j].of) : copy'[p] = copy[p]
               /\ told' \cap Places(ask[j].of) \subseteq told
    <3>1. ~Replaced(k)
      BY <1>4, <2>6 DEF Heeded
    <3>2. there \cap Places(ask[j].of) = {}
      BY <2>6, <3>1, OneIsNewest
    <3>3. Places(ask[j].of) \subseteq Place
      BY <2>6, AskTyped DEF Places, Place, AskType
    <3>. QED
      BY <2>2, <2>3, <3>2, <3>3
  <2>7. ASSUME Load.heeds = "latest", ~Replaced(k), ask'[k].state = "won"
        PROVE  told' \cap there = {}
    <3>1. Load.fails \in {"silently", "told", "erased"}
      BY LoadType DEF LoadsType
    <3>2. Load.fails = "erased" => told \cap there = {}
      BY <1>2, <2>7 DEF NewestStays
    <3>. QED
      BY <2>3, <2>7, <3>1, <3>2 DEF PanelInv
  <2>8. NewestStays'
    BY <1>2, <2>2, <2>6, <2>7 DEF NewestStays
  <2>. QED
    BY <1>2, <2>1, <2>2, <2>3, <2>4, <2>5, <2>8
       DEF PanelInv, PanelTypeOK, InSequence, AwaitsHeeded
<1>. QED
  BY <1>3, <1>4

LEMMA PanelKept == PanelInv /\ [PanelNext]_panelVars => PanelInv'
<1>. SUFFICES ASSUME PanelInv, [PanelNext]_panelVars PROVE PanelInv'
  OBVIOUS
<1>. PanelTypeOK
  BY DEF PanelInv
<1>0. \A c \in Choice : world[c] \in Nat /\ world[c] <= world[c]
  BY PanelAssumption DEF PanelTypeOK
<1>1. ASSUME NEW c \in Choice, ShowChoice(c) PROVE PanelInv'
  <2>1. CASE \E k \in Numbers : Request(c, k)
    BY <1>1, <2>1, RequestKept DEF ShowChoice, Place
  <2>2. CASE MaySkip(c) /\ UNCHANGED <<ask, told, waiting>>
    <3>1. PanelTypeOK'
      BY <1>1, <2>2 DEF ShowChoice, PanelTypeOK, Place
    <3>. QED
      BY <1>0, <1>1, <2>2, <3>1, PanelFrame DEF ShowChoice, MaySkip
  <2>. QED
    BY <1>1, <2>1, <2>2 DEF ShowChoice
<1>2. ASSUME NEW c \in Choice, Happen(c) PROVE PanelInv'
  <2>1. /\ world' = [world EXCEPT ![c] = @ + 1] /\ world[c] < MaxNews
        /\ UNCHANGED <<panel, chosen, ask, copy, told, waiting>>
    BY <1>2 DEF Happen
  <2>2. world' \in [Choice -> 0..MaxNews] /\ \A d \in Choice : world[d] <= world'[d]
    BY <1>0, <2>1, PanelAssumption DEF PanelTypeOK
  <2>3. PanelTypeOK'
    BY <2>1, <2>2 DEF PanelTypeOK
  <2>. QED
    BY <2>1, <2>2, <2>3, PanelFrame
<1>3. CASE ShowNothing
  <2>1. /\ copy' \in [Place -> CopyType \cup {Missing}]
        /\ \A p \in Place : copy'[p] = copy[p]
             \/ (copy'[p] = Missing /\ (Load.keeps = "each" => p = Empty))
    BY <1>3 DEF ShowNothing, Put, Places, PanelTypeOK
  <2>2. PanelTypeOK'
    BY <1>3, <2>1 DEF ShowNothing, PanelTypeOK, Place
  <2>. QED
    BY <1>0, <1>3, <2>1, <2>2, PanelFrame DEF ShowNothing
<1>4. CASE Renew
  <2>1. chosen \in Choice
    BY <1>4 DEF Renew, PanelTypeOK, Place
  <2>. QED
    BY <1>4, <2>1, RequestKept DEF Renew, Place
<1>5. CASE UNCHANGED panelVars
  <2>1. PanelTypeOK'
    BY <1>5 DEF panelVars, PanelTypeOK
  <2>. QED
    BY <1>0, <1>5, <2>1, PanelFrame DEF panelVars
<1>. QED
  BY <1>1, <1>2, <1>3, <1>4, <1>5, ServeAskKept, AnswerKept DEF PanelNext

\* In every behaviour of a panel.
THEOREM PanelInvariance == PanelSpec => []PanelInv
BY PanelStarts, PanelKept, PTL DEF PanelSpec

\* A panel whose copies are kept by the choice, and whose superseded answers
\* are dropped, tells the truth about the choice on the screen, for any
\* number of choices, requests and changes (queryKey with the choice in it;
\* the cancelled flag of TicketContributors).
THEOREM PanelsTellTheTruth ==
  ASSUME \A p \in Panel \ Misplaced : Loads[p].keeps = "each",
         \A p \in Panel \ Outdated : Loads[p].heeds = "latest"
  PROVE  PanelSpec => []PanelTellsTruth
<1>1. PanelInv => PanelTellsTruth
  <2>. SUFFICES ASSUME PanelInv PROVE PanelTellsTruth
    OBVIOUS
  <2>. PanelTypeOK /\ ReadsLate /\ AwaitsHeeded /\ OwnCopies /\ NewestStays
    BY DEF PanelInv
  <2>1. Spinner => UnderWay # {}
    BY DEF Spinner, Asking, AwaitsHeeded
  <2>2. ASSUME panel \notin Misplaced, Drawn # Missing PROVE Drawn.of = chosen
    BY <2>2 DEF Drawn, OwnCopies, PanelTypeOK, Load
  <2>3. ASSUME panel \notin Outdated, UnderWay = {}, NEW k \in AskedFor,
               ask[k].state = "won", ask[k].of = chosen, ~Replaced(k)
        PROVE  Drawn # Missing /\ Drawn.read >= ask[k].least
    <3>1. ask[k] \in AskType /\ chosen \in Choice /\ chosen # Empty
      BY <2>3, AskTyped, PanelAssumption DEF AskType
    <3>2. chosen \in Places(ask[k].of)
      BY <2>3 DEF Places, PanelTypeOK
    <3>3. Load.heeds = "latest"
      BY <2>3 DEF Load, PanelTypeOK
    <3>4. copy[chosen] = [of |-> ask[k].of, read |-> ask[k].read] /\ chosen \notin told
      BY <2>3, <3>1, <3>2, <3>3 DEF NewestStays
    <3>5. [of |-> ask[k].of, read |-> ask[k].read] \in CopyType
      BY <3>1 DEF AskType, CopyType
    <3>6. Drawn = [of |-> ask[k].of, read |-> ask[k].read]
      BY <2>1, <2>3, <3>4 DEF Drawn
    <3>7. ask[k].least <= ask[k].read
      BY <2>3 DEF ReadsLate
    <3>. QED
      BY <3>1, <3>5, <3>6, <3>7, PanelAssumption DEF AskType
  <2>. QED
    BY <2>1, <2>2, <2>3 DEF PanelTellsTruth
<1>. QED
  BY <1>1, PanelInvariance, PTL

-----------------------------------------------------------------------------
(* A set of naturals with 0 and with the successor of each has them all.    *)
NatLess == {p \in Nat \X Nat : p[1] < p[2]}

LEMMA NatLessWellFounded == IsWellFoundedOn(NatLess, Nat)
<1>1. OpToRel(<, Nat) = NatLess
  BY DEF OpToRel, NatLess
<1>. QED
  BY <1>1, NatLessThanWellFounded

LEMMA Steps ==
  ASSUME NEW S \in SUBSET Nat, 0 \in S, \A n \in S : n + 1 \in S
  PROVE  S = Nat
<1>. SUFFICES ASSUME Nat \ S # {} PROVE FALSE
  OBVIOUS
<1>1. PICK x \in Nat \ S : \A y \in Nat \ S : ~(<<y, x>> \in NatLess)
  BY NatLessWellFounded, WFMin
<1>2. x # 0 /\ x - 1 \in Nat
  BY <1>1
<1>3. <<x - 1, x>> \in NatLess
  BY <1>2 DEF NatLess
<1>4. x - 1 \in S /\ (x - 1) + 1 = x
  BY <1>1, <1>2, <1>3
<1>. QED
  BY <1>1, <1>4

\* The walk from a target that has no link itself ends there.
LEMMA NoCycle ==
  ASSUME BoardTypeOK, NEW target \in Loaded, NEW field \in {"parent", "epic"},
         list[target][field] = NoItem, NEW i, i # target
  PROVE  ~WouldCreateCycle(i, target, field)
<1> DEFINE N == Cardinality(Item)
           Further(R) == R \cup {list[j][field] : j \in R \cap Loaded}
           IsWalk(f) == f = [n \in 0..N |-> IF n = 0 THEN {target} ELSE Further(f[n - 1])]
           f0 == [n \in 0..N |-> IF n = 0 THEN {target} ELSE {target, NoItem}]
           Walk == CHOOSE f : IsWalk(f)
<1>1. N \in Nat /\ NoItem \notin Loaded
  BY BoardAssumption, FS_CardinalityType DEF Loaded
<1>2. Further({target}) = {target, NoItem} /\ Further({target, NoItem}) = {target, NoItem}
  BY <1>1
<1> HIDE DEF Further
<1>3. IsWalk(f0)
  <2>1. \A n \in 0..N : n # 0 => n - 1 \in 0..N
    BY <1>1
  <2>2. \A n \in 0..N : f0[n] = IF n = 0 THEN {target} ELSE Further(f0[n - 1])
    BY <1>1, <1>2, <2>1
  <2>. QED
    BY <2>2
<1>4. IsWalk(Walk)
  <2> HIDE DEF IsWalk
  <2>. QED
    BY <1>3
<1> HIDE DEF Walk
<1> DEFINE S == {n \in Nat : n \in 0..N => Walk[n] \subseteq {target, NoItem}}
<1>5. 0 \in S
  BY <1>1, <1>4
<1>6. ASSUME NEW n \in S PROVE n + 1 \in S
  <2>1. CASE n + 1 \in 0..N
    <3>1. n \in 0..N /\ Walk[n] \subseteq {target, NoItem}
      BY <1>1, <2>1
    <3>2. Walk[n + 1] = Further(Walk[n])
      <4>1. (n + 1) - 1 = n /\ n + 1 # 0
        BY <3>1
      <4>. QED
        BY <1>4, <2>1, <4>1
    <3>3. Further(Walk[n]) \subseteq {target, NoItem}
      BY <1>1, <3>1 DEF Further
    <3>. QED
      BY <3>2, <3>3
  <2>. QED
    BY <2>1
<1>7. Walk[N] \subseteq {target, NoItem}
  <2>1. S = Nat
    <3> HIDE DEF S
    <3>1. S \in SUBSET Nat
      BY DEF S
    <3>. QED
      BY <1>5, <1>6, <3>1, Steps
  <2>. QED
    BY <1>1, <2>1
<1>8. WouldCreateCycle(i, target, field) <=> i # NoItem /\ i \in Walk[N]
  BY DEF WouldCreateCycle, Walk, Further
<1>. QED
  BY <1>7, <1>8
-----------------------------------------------------------------------------
(* Types.                                                                   *)

LEMMA KindsAre ==
  /\ Tree!EpicChild = {"user_story", "task"}
  /\ Tree!Kind = {"user_story", "task", "epic", "subtask", "test_case"}
BY DEF Tree!EpicChild, Tree!Kind

LEMMA PlaceIs ==
  ASSUME NEW r
  PROVE  r \in ItemRow <=>
           /\ r = [type |-> r.type, parent |-> r.parent, epic |-> r.epic, sprint |-> r.sprint]
           /\ r.type \in Tree!Kind /\ r.parent \in Link /\ r.epic \in Link
           /\ r.sprint \in Sprint \cup {NoSprint}
BY DEF ItemRow

LEMMA TableType ==
  ASSUME live \subseteq Item, row \in [Item -> ItemRow]
  PROVE  Table \in [Item -> ItemRow \cup {Closed}] /\ \A i \in Item : Table[i] # Closed <=> i \in live
BY BoardAssumption DEF Table

LEMMA LoadedType ==
  ASSUME BoardTypeOK
  PROVE  /\ Loaded \subseteq Item /\ \A j \in Loaded : list[j] \in ItemRow
         /\ \A j \in live : j \in Item /\ row[j] \in ItemRow
BY DEF BoardTypeOK, Loaded

LEMMA NoPlaceType == BlankRow \in ItemRow
BY KindsAre DEF BlankRow, ItemRow, Link

LEMMA FormType ==
  ASSUME BoardTypeOK, form # Closed
  PROVE  /\ form \in Form /\ form.row \in ItemRow /\ form.item \in Link
         /\ form.alone \in BOOLEAN /\ form.sound \in BOOLEAN
         /\ form.dialog \in {"edit", "create", "child"}
BY DEF BoardTypeOK, Form

LEMMA SoundType == ASSUME NEW i, NEW r PROVE Sound(i, r) \in BOOLEAN
BY DEF Sound, Tree!validate_hierarchy

LEMMA OpensType ==
  ASSUME BoardTypeOK, NEW d \in {"edit", "create", "child"}, NEW i \in Link,
         NEW r \in ItemRow, NEW alone \in BOOLEAN, Opens(d, i, r, alone)
  PROVE  BoardTypeOK'
<1>1. form' \in Form
  BY SoundType DEF Opens, Form
<1>. QED
  BY <1>1 DEF Opens, BoardTypeOK

LEMMA FillsType ==
  ASSUME BoardTypeOK, form # Closed, NEW r \in ItemRow, Fills(r)
  PROVE  BoardTypeOK'
<1>1. form' \in Form
  BY FormType DEF Fills, Form
<1>. QED
  BY <1>1 DEF Fills, BoardTypeOK

LEMMA StoredType ==
  ASSUME BoardTypeOK, NEW i \in Link, NEW r \in ItemRow, Stored(i, r)
  PROVE  live' \subseteq Item /\ row' \in [Item -> ItemRow]
BY DEF BoardTypeOK, Stored, Accepted

LEMMA OvertakenType ==
  ASSUME BoardTypeOK PROVE Overtaken \in Form \cup {Closed}
BY DEF BoardTypeOK, Overtaken, Form

LEMMA CountedType ==
  ASSUME BoardTypeOK, Counted PROVE ahead' \in 0..MaxAhead
BY BoardAssumption DEF BoardTypeOK, Counted

LEMMA Starts == BoardInit => BoardTypeOK
<1> SUFFICES ASSUME BoardInit PROVE BoardTypeOK
  OBVIOUS
<1>1. row \in [Item -> ItemRow] /\ live \subseteq Item
  BY NoPlaceType DEF BoardInit
<1>. QED
  BY <1>1, TableType, BoardAssumption DEF BoardInit, BoardTypeOK

LEMMA TypeStep == BoardTypeOK /\ [BoardNext]_boardVars => BoardTypeOK'
<1> SUFFICES ASSUME BoardTypeOK, [BoardNext]_boardVars PROVE BoardTypeOK'
  OBVIOUS
<1>1. ASSUME NEW i \in Item, StartEditing(i) PROVE BoardTypeOK'
  <2>1. PICK r \in {list[i]} \cup {row[j] : j \in {i} \cap live} :
          Opens("edit", i, r, Alike(list) /\ r = row[i])
    BY <1>1 DEF StartEditing
  <2>2. r \in ItemRow /\ i \in Link /\ (Alike(list) /\ r = row[i]) \in BOOLEAN
    BY <1>1, <2>1, LoadedType DEF StartEditing, Link, Alike
  <2>. QED
    BY <2>1, <2>2, OpensType
<1>2. ASSUME NEW k \in Tree!Kind, OpenCreate(k) PROVE BoardTypeOK'
  <2>1. [BlankRow EXCEPT !.type = k] \in ItemRow /\ NoItem \in Link /\ Alike(list) \in BOOLEAN
    BY DEF BlankRow, ItemRow, Link, Alike
  <2>. QED
    BY <1>2, <2>1, OpensType DEF OpenCreate
<1>3. ASSUME NEW k \in Tree!Kind, NEW i \in Item, AddChild(i, k) PROVE BoardTypeOK'
  <2>1. [BlankRow EXCEPT !.type = k, !.parent = i] \in ItemRow /\ NoItem \in Link
        /\ Alike(list) \in BOOLEAN
    BY DEF BlankRow, ItemRow, Link, Alike
  <2>. QED
    BY <1>3, <2>1, OpensType DEF AddChild
<1>4. ASSUME NEW k \in Tree!Kind, PickType(k) PROVE BoardTypeOK'
  <2> DEFINE r == [form.row EXCEPT
                     !.type = k,
                     !.epic = IF Supports(k, "epic") THEN @ ELSE NoItem,
                     !.parent = IF Supports(k, "parent") THEN @ ELSE NoItem]
  <2>1. form # Closed /\ Fills(r)
    BY <1>4 DEF PickType
  <2>2. r \in ItemRow
    BY <2>1, FormType DEF ItemRow, Link
  <2>. QED
    BY <2>1, <2>2, FillsType
<1>5. ASSUME NEW e \in Link, PickEpic(e) PROVE BoardTypeOK'
  <2>1. form # Closed /\ Fills([form.row EXCEPT !.epic = e])
    BY <1>5 DEF PickEpic
  <2>2. [form.row EXCEPT !.epic = e] \in ItemRow
    BY <2>1, FormType DEF ItemRow
  <2>. QED
    BY <2>1, <2>2, FillsType
<1>6. ASSUME NEW p \in Link, PickParent(p) PROVE BoardTypeOK'
  <2>1. form # Closed /\ Fills([form.row EXCEPT !.parent = p])
    BY <1>6 DEF PickParent
  <2>2. [form.row EXCEPT !.parent = p] \in ItemRow
    BY <2>1, FormType DEF ItemRow
  <2>. QED
    BY <2>1, <2>2, FillsType
<1>7. CASE CloseForm
  BY <1>7 DEF CloseForm, BoardTypeOK
<1>8. CASE SaveForm
  <2>1. live' \subseteq Item /\ row' \in [Item -> ItemRow] /\ ahead' \in 0..MaxAhead
    <3>1. CASE Stored(form.item, form.row) /\ Counted
      <4>1. form.item \in Link /\ form.row \in ItemRow
        BY <1>8, FormType DEF SaveForm
      <4>. QED
        BY <3>1, <4>1, StoredType, CountedType
    <3>2. CASE UNCHANGED <<live, row, ahead>>
      BY <3>2 DEF BoardTypeOK
    <3>. QED
      BY <1>8, <3>1, <3>2 DEF SaveForm
  <2>. QED
    BY <1>8, <2>1 DEF SaveForm, BoardTypeOK
<1>9. CASE OtherSaves
  <2>1. live' \subseteq Item /\ row' \in [Item -> ItemRow]
    BY <1>9, StoredType DEF OtherSaves
  <2>. QED
    BY <1>9, <2>1, CountedType, OvertakenType DEF OtherSaves, BoardTypeOK
<1>10. ASSUME NEW i \in Item, OtherDeletes(i) PROVE BoardTypeOK'
  <2>1. row' \in [Item -> ItemRow]
    <3>1. ASSUME NEW j \in Item
          PROVE  [row[j] EXCEPT !.parent = Tree!Unlink(@, {i}), !.epic = Tree!Unlink(@, {i})] \in ItemRow
      <4>1. row[j] \in ItemRow
        BY DEF BoardTypeOK
      <4>. QED
        BY <4>1 DEF ItemRow, Link, Tree!Unlink
    <3>. QED
      BY <1>10, <3>1, NoPlaceType DEF OtherDeletes
  <2>2. live' \subseteq Item
    BY <1>10 DEF OtherDeletes, BoardTypeOK
  <2>. QED
    BY <1>10, <2>1, <2>2, CountedType, OvertakenType DEF OtherDeletes, BoardTypeOK
<1>11. ASSUME NEW s \in Sprint, CreateSprint(s) PROVE BoardTypeOK'
  BY <1>11 DEF CreateSprint, SetSprint, BoardTypeOK
<1>12. ASSUME NEW s \in Sprint, EndSprint(s) PROVE BoardTypeOK'
  BY <1>12 DEF EndSprint, SetSprint, BoardTypeOK
<1>13. ASSUME NEW s \in Sprint, DeleteSprint(s) PROVE BoardTypeOK'
  <2>1. row' \in [Item -> ItemRow]
    <3>1. ASSUME NEW j \in Item PROVE [row[j] EXCEPT !.sprint = NoSprint] \in ItemRow
      <4>1. row[j] \in ItemRow
        BY DEF BoardTypeOK
      <4>. QED
        BY <4>1 DEF ItemRow
    <3>. QED
      BY <1>13, <3>1 DEF DeleteSprint, BoardTypeOK
  <2>2. sprint' \in [Sprint -> {"open", "over", Closed}]
    BY <1>13 DEF DeleteSprint, SetSprint, BoardTypeOK
  <2>3. form' \in Form \cup {Closed} /\ ahead' \in 0..MaxAhead
    BY <1>13, CountedType, OvertakenType DEF DeleteSprint, BoardTypeOK
  <2>. QED
    BY <1>13, <2>1, <2>2, <2>3 DEF DeleteSprint, BoardTypeOK
<1>14. CASE FetchItems
  BY <1>14, TableType, BoardAssumption DEF FetchItems, BoardTypeOK
<1>15. CASE FetchSprints
  BY <1>15 DEF FetchSprints, BoardTypeOK
<1>16. CASE UNCHANGED boardVars
  BY <1>16 DEF boardVars, BoardTypeOK
<1>. QED
  BY <1>1, <1>2, <1>3, <1>4, <1>5, <1>6, <1>7, <1>8, <1>9, <1>10, <1>11, <1>12, <1>13,
     <1>14, <1>15, <1>16 DEF BoardNext
-----------------------------------------------------------------------------
(* The tree on the server, the copy on the page, and an open form.          *)

\* Links are to items that are there and of one level, and sprints exist.
TreeFits ==
  \A i \in live :
    /\ row[i].epic \in live \cup {NoItem} /\ row[i].parent \in live \cup {NoItem}
    /\ row[i].epic # NoItem => row[i].type \in Tree!EpicChild
    /\ row[i].parent # NoItem =>
         Tree!ParentTypes(row[i].type) # {} /\ row[row[i].parent].parent = NoItem
    /\ row[i].sprint # NoSprint => sprint[row[i].sprint] # Closed

\* What the page fetched is of one level, however old it is.
ListFits ==
  \A j \in Loaded : list[j].parent \in Loaded => list[list[j].parent].parent = NoItem

\* A form opened on the tree as it still is has links the server takes.
FormFits ==
  form # Closed /\ form.alone =>
    /\ list = Table
    /\ form.sound => Sound(form.item, form.row)

BoardInv == BoardTypeOK /\ TreeFits /\ ListFits /\ FormFits

LEMMA ParentTypesAre ==
  ASSUME NEW k
  PROVE  /\ k = "subtask" => Tree!ParentTypes(k) = {"user_story", "task"}
         /\ k = "test_case" => Tree!ParentTypes(k) = {"user_story"}
         /\ k \notin {"subtask", "test_case"} => Tree!ParentTypes(k) = {}
BY KindsAre DEF Tree!ParentTypes

LEMMA TargetsAre ==
  ASSUME NEW k
  PROVE  /\ AllowedTargets(k, "epic") = IF k \in {"user_story", "task"} THEN {"epic"} ELSE {}
         /\ AllowedTargets(k, "parent") = Tree!ParentTypes(k)
         /\ Supports(k, "epic") <=> k \in {"user_story", "task"}
         /\ Supports(k, "parent") <=> Tree!ParentTypes(k) # {}
<1>1. AllowedTargets(k, "epic") = IF k \in {"user_story", "task"} THEN {"epic"} ELSE {}
  BY DEF AllowedTargets
<1>2. AllowedTargets(k, "parent") = Tree!ParentTypes(k)
  BY ParentTypesAre DEF AllowedTargets
<1>. QED
  BY <1>1, <1>2 DEF Supports

\* The server's checks, written out.
LEMMA SoundIs ==
  ASSUME NEW i, NEW r
  PROVE  Sound(i, r) <=>
           /\ r.epic # NoItem =>
                /\ r.type \in {"user_story", "task"}
                /\ r.epic \in live \ {i} /\ row[r.epic].type = "epic"
           /\ r.parent # NoItem =>
                /\ r.parent \in live \ {i}
                /\ row[r.parent].type \in Tree!ParentTypes(r.type)
                /\ row[r.parent].parent = NoItem
                /\ i # NoItem => \A j \in live : row[j].parent # i
<1>1. Tree!Children(i) = {} <=> \A j \in live : row[j].parent # i
  BY DEF Tree!Children
<1>. QED
  BY <1>1, KindsAre DEF Sound, Tree!validate_hierarchy, Tree!ValidEpic, Tree!ValidParent

LEMMA TreeFrame ==
  ASSUME TreeFits, UNCHANGED <<live, row, sprint>> PROVE TreeFits'
BY DEF TreeFits

LEMMA CopyFrame == ASSUME ListFits, UNCHANGED list PROVE ListFits'
BY DEF ListFits, Loaded

LEMMA FormFrame ==
  ASSUME FormFits, UNCHANGED <<live, row, list, form>> PROVE FormFits'
<1>1. Table' = Table
  BY DEF Table
<1>2. form # Closed => (Sound(form.item, form.row) <=> Sound(form.item, form.row)')
  BY SoundIs DEF Sound, Tree!validate_hierarchy, Tree!ValidEpic, Tree!ValidParent, Tree!Children
<1>. QED
  BY <1>1, <1>2 DEF FormFits

\* A form that somebody else's write overtakes vouches for nothing.
LEMMA OvertakenFits ==
  ASSUME BoardTypeOK, form' = Overtaken PROVE FormFits'
<1>1. CASE form = Closed
  BY <1>1 DEF FormFits, Overtaken
<1>2. CASE form # Closed
  <2>1. form' = [form EXCEPT !.alone = FALSE] /\ form \in Form
    BY <1>2, FormType DEF Overtaken
  <2>2. form'.alone = FALSE
    BY <2>1 DEF Form
  <2>. QED
    BY <2>2 DEF FormFits
<1>. QED
  BY <1>1, <1>2

\* What the server stores keeps the tree.
LEMMA StoredFits ==
  ASSUME BoardTypeOK, TreeFits, NEW i \in Link, NEW r \in ItemRow, Stored(i, r), UNCHANGED sprint
  PROVE  TreeFits'
<1>1. PICK j \in Item :
        /\ row' = [row EXCEPT ![j] = r] /\ live' = live \cup {j}
        /\ i = j \/ (i = NoItem /\ j \notin live)
  BY BoardAssumption DEF Stored, Accepted, Link
<1>2. /\ row'[j] = r /\ \A k \in Item \ {j} : row'[k] = row[k]
      /\ live \subseteq Item
  BY <1>1 DEF BoardTypeOK
<1>3. Sound(i, r) /\ SprintExists(r)
  BY DEF Stored, Accepted
<1>4. /\ r.epic # NoItem => r.type \in {"user_story", "task"} /\ r.epic \in live
      /\ r.parent # NoItem =>
           /\ r.parent \in live \ {j} /\ Tree!ParentTypes(r.type) # {}
           /\ row[r.parent].parent = NoItem
           /\ \A k \in live : row[k].parent # j
  <2>1. j \notin live => \A k \in live : row[k].parent # j
    BY BoardAssumption, <1>2 DEF TreeFits
  <2>. QED
    BY <1>1, <1>3, <2>1, SoundIs, BoardAssumption
<1>5. ASSUME NEW k \in live'
      PROVE  /\ row'[k].epic \in live' \cup {NoItem} /\ row'[k].parent \in live' \cup {NoItem}
             /\ row'[k].epic # NoItem => row'[k].type \in Tree!EpicChild
             /\ row'[k].parent # NoItem =>
                  Tree!ParentTypes(row'[k].type) # {} /\ row'[row'[k].parent].parent = NoItem
             /\ row'[k].sprint # NoSprint => sprint'[row'[k].sprint] # Closed
  <2>1. CASE k = j
    BY <1>1, <1>2, <1>3, <1>4, <2>1, KindsAre DEF SprintExists
  <2>2. CASE k # j
    <3>1. k \in live /\ k \in Item /\ row'[k] = row[k]
      BY <1>1, <1>2, <2>2
    <3>2. row[k].parent = j => r.parent = NoItem
      BY <1>4, <3>1
    <3>. QED
      BY <1>1, <1>2, <3>1, <3>2 DEF TreeFits
  <2>. QED
    BY <2>1, <2>2
<1>6. Tree!EpicChild' = Tree!EpicChild /\ \A k : Tree!ParentTypes(k)' = Tree!ParentTypes(k)
  BY DEF Tree!EpicChild, Tree!ParentTypes
<1>. QED
  BY <1>5 DEF TreeFits

LEMMA DeletedFits ==
  ASSUME BoardTypeOK, TreeFits, NEW i \in Item, OtherDeletes(i)
  PROVE  TreeFits'
<1>1. /\ live' = live \ {i} /\ live \subseteq Item /\ UNCHANGED sprint
      /\ \A k \in live' :
           row'[k] = [row[k] EXCEPT !.parent = IF @ = i THEN NoItem ELSE @,
                                    !.epic = IF @ = i THEN NoItem ELSE @]
  BY DEF OtherDeletes, Tree!Unlink, BoardTypeOK
<1>2. ASSUME NEW k \in live'
      PROVE  /\ row'[k].type = row[k].type /\ row'[k].sprint = row[k].sprint
             /\ row'[k].parent = IF row[k].parent = i THEN NoItem ELSE row[k].parent
             /\ row'[k].epic = IF row[k].epic = i THEN NoItem ELSE row[k].epic
  BY <1>1, LoadedType DEF ItemRow
<1>. QED
  <2>1. NoItem \notin live
    BY <1>1, BoardAssumption
  <2>2. ASSUME NEW k \in live'
        PROVE  /\ row'[k].epic \in live' \cup {NoItem} /\ row'[k].parent \in live' \cup {NoItem}
               /\ row'[k].epic # NoItem => row'[k].type \in Tree!EpicChild
               /\ row'[k].sprint # NoSprint => sprint'[row'[k].sprint] # Closed
    BY <1>1, <1>2, <2>2 DEF TreeFits
  <2>3. ASSUME NEW k \in live', row'[k].parent # NoItem
        PROVE  Tree!ParentTypes(row'[k].type) # {} /\ row'[row'[k].parent].parent = NoItem
    <3>1. k \in live /\ row'[k].parent = row[k].parent /\ row[k].parent \in live'
      BY <1>1, <1>2, <2>3 DEF TreeFits
    <3>2. row'[row[k].parent].parent \in {NoItem, row[row[k].parent].parent}
      BY <1>2, <3>1
    <3>. QED
      BY <1>2, <2>3, <3>1, <3>2 DEF TreeFits
  <2>4. Tree!EpicChild' = Tree!EpicChild /\ \A k : Tree!ParentTypes(k)' = Tree!ParentTypes(k)
    BY DEF Tree!EpicChild, Tree!ParentTypes
  <2>. QED
    BY <2>2, <2>3, <2>4 DEF TreeFits

LEMMA SprintDeletedFits ==
  ASSUME BoardTypeOK, TreeFits, NEW s \in Sprint, DeleteSprint(s)
  PROVE  TreeFits'
<1>1. /\ live' = live /\ live \subseteq Item
      /\ \A k \in live : row'[k] = IF row[k].sprint = s
                                     THEN [row[k] EXCEPT !.sprint = NoSprint] ELSE row[k]
      /\ \A t \in Sprint : t # s => sprint'[t] = sprint[t]
  BY DEF DeleteSprint, SetSprint, BoardTypeOK
<1>2. ASSUME NEW k \in live
      PROVE  /\ row'[k].type = row[k].type /\ row'[k].parent = row[k].parent
             /\ row'[k].epic = row[k].epic
             /\ row'[k].sprint # NoSprint =>
                  row'[k].sprint \in Sprint \ {s} /\ row'[k].sprint = row[k].sprint
  BY <1>1, LoadedType DEF ItemRow
<1>. QED
  BY <1>1, <1>2 DEF TreeFits

LEMMA FetchedFits ==
  ASSUME BoardTypeOK, TreeFits, FetchItems PROVE ListFits'
<1>1. list' = Table /\ \A j \in Item : Table[j] = IF j \in live THEN row[j] ELSE Closed
  BY DEF FetchItems, Table
<1>2. Loaded' = live
  BY <1>1, TableType DEF Loaded, BoardTypeOK
<1>3. \A j \in live : list'[j] = row[j] /\ (row[j].parent \in live => list'[row[j].parent] = row[row[j].parent])
  BY <1>1 DEF BoardTypeOK
<1>4. \A j \in live : row[j].parent \in live => row[j].parent # NoItem
  BY BoardAssumption DEF BoardTypeOK
<1>. QED
  BY <1>2, <1>3, <1>4 DEF ListFits, TreeFits
-----------------------------------------------------------------------------
(* On a copy that is the table, the pickers offer what the server takes.    *)

LEMMA CurrentCopy ==
  ASSUME BoardTypeOK, list = Table
  PROVE  /\ Loaded = live /\ live \subseteq Item /\ NoItem \notin live
         /\ \A j \in live : list[j] = row[j]
         /\ \A i : HasChildren(i) <=> i # NoItem /\ \E j \in live : row[j].parent = i
<1>1. Loaded = live /\ live \subseteq Item /\ \A j \in live : list[j] = row[j]
  BY TableType DEF BoardTypeOK, Loaded, Table
<1>2. NoItem \notin live
  BY <1>1, BoardAssumption
<1>. QED
  BY <1>1, <1>2 DEF HasChildren

LEMMA EpicsMatch ==
  ASSUME BoardTypeOK, TreeFits, form # Closed, list = Table
  PROVE  Pickable("epic") = {e \in Item : Tree!ValidEpic(form.item, form.row.type, e)}
<1> DEFINE i == form.item
           k == form.row.type
           Fine(e) == k \in {"user_story", "task"} /\ e \in live \ {i} /\ row[e].type = "epic"
<1>1. \A e \in Item : Tree!ValidEpic(i, k, e) <=> Fine(e)
  BY KindsAre, BoardAssumption DEF Tree!ValidEpic
<1>2. \A e : e \in Options(k, i, "epic") <=> Fine(e)
  BY CurrentCopy, TargetsAre DEF Options, Excluded
<1>3. ASSUME NEW e, Fine(e) PROVE ValidReparent(i, k, e, "epic")
  <2>1. e \in Loaded /\ list[e].epic = NoItem /\ list[e].type \in AllowedTargets(k, "epic")
    BY <1>3, CurrentCopy, TargetsAre, KindsAre DEF TreeFits
  <2>2. ~WouldCreateCycle(i, e, "epic")
    BY <1>3, <2>1, NoCycle
  <2>. QED
    BY <1>3, <2>1, <2>2 DEF ValidReparent
<1>4. \A e : e \in Pickable("epic") <=> Fine(e)
  <2> HIDE DEF Fine
  <2>. QED
    BY <1>2, <1>3 DEF Pickable
<1>. QED
  BY <1>1, <1>4, CurrentCopy

LEMMA ParentsMatch ==
  ASSUME BoardTypeOK, TreeFits, form # Closed, list = Table
  PROVE  Pickable("parent") = {p \in Item : Tree!ValidParent(form.item, form.row.type, p)}
<1> DEFINE i == form.item
           k == form.row.type
           Fine(p) == /\ p \in live \ {i} /\ row[p].type \in Tree!ParentTypes(k)
                      /\ row[p].parent = NoItem
<1>1. \A p \in Item : Tree!ValidParent(i, k, p) <=> Fine(p) /\ ~HasChildren(i)
  <2>1. HasChildren(i) <=> i # NoItem /\ Tree!Children(i) # {}
    BY CurrentCopy DEF Tree!Children
  <2>. QED
    BY <2>1, BoardAssumption DEF Tree!ValidParent
<1>2. \A p : p \in Options(k, i, "parent") <=> Fine(p)
  BY CurrentCopy, TargetsAre DEF Options, Excluded
<1>3. ASSUME NEW p, Fine(p), ~HasChildren(i) PROVE ValidReparent(i, k, p, "parent")
  <2>1. p \in Loaded /\ list[p].parent = NoItem /\ list[p].type \in AllowedTargets(k, "parent")
    BY <1>3, CurrentCopy, TargetsAre
  <2>2. ~WouldCreateCycle(i, p, "parent")
    BY <1>3, <2>1, NoCycle
  <2>. QED
    BY <1>3, <2>1, <2>2 DEF ValidReparent
<1>4. \A p : p \in Pickable("parent") <=> Fine(p) /\ ~HasChildren(i)
  <2> HIDE DEF Fine
  <2>. QED
    BY <1>2, <1>3 DEF Pickable
<1>. QED
  BY <1>1, <1>4, CurrentCopy

-----------------------------------------------------------------------------
(* Every step keeps the invariant.                                          *)

LEMMA OpensFits ==
  ASSUME BoardTypeOK, NEW d \in {"edit", "create", "child"}, NEW i \in Link, NEW r,
         NEW alone \in BOOLEAN, Opens(d, i, r, alone),
         alone => list = Table /\ (d # "edit" => Sound(i, r))
  PROVE  FormFits'
<1>1. /\ form' = [dialog |-> d, item |-> i, row |-> r, alone |-> alone,
                  sound |-> d # "edit" \/ Sound(i, r)]
      /\ UNCHANGED <<live, row, list>>
  BY DEF Opens
<1>2. Table' = Table
  BY <1>1 DEF Table
<1>3. Sound(i, r)' <=> Sound(i, r)
  BY <1>1 DEF Sound, Tree!validate_hierarchy, Tree!ValidEpic, Tree!ValidParent,
              Tree!Children, Tree!ParentTypes, Tree!EpicChild
<1>4. (form'.item = i /\ form'.row = r /\ form'.alone = alone)
      /\ (form'.sound <=> d # "edit" \/ Sound(i, r))
  BY <1>1
<1>5. Sound(form.item, form.row)' <=> Sound(i, r)'
  BY <1>4 DEF Sound, Tree!validate_hierarchy, Tree!ValidEpic, Tree!ValidParent,
              Tree!Children, Tree!ParentTypes, Tree!EpicChild
<1>. QED
  BY <1>1, <1>2, <1>3, <1>4, <1>5 DEF FormFits

LEMMA FillsFits ==
  ASSUME BoardTypeOK, FormFits, form # Closed, NEW r, Fills(r),
         list = Table /\ Sound(form.item, form.row) => Sound(form.item, r)
  PROVE  FormFits'
<1>1. form' = [form EXCEPT !.row = r] /\ UNCHANGED <<live, row, list>> /\ form \in Form
  BY FormType DEF Fills
<1>2. Table' = Table
  BY <1>1 DEF Table
<1>3. /\ form'.item = form.item /\ form'.row = r /\ form'.alone = form.alone
      /\ form'.sound = form.sound
  BY <1>1 DEF Form
<1>4. Sound(form.item, form.row)' <=> Sound(form.item, r)
  BY <1>1, <1>3 DEF Sound, Tree!validate_hierarchy, Tree!ValidEpic, Tree!ValidParent,
              Tree!Children, Tree!ParentTypes, Tree!EpicChild
<1>. QED
  BY <1>1, <1>2, <1>3, <1>4 DEF FormFits

LEMMA PickTypeFits ==
  ASSUME BoardInv, NEW k \in Tree!Kind, PickType(k) PROVE FormFits'
<1> DEFINE r == [form.row EXCEPT
                   !.type = k,
                   !.epic = IF Supports(k, "epic") THEN @ ELSE NoItem,
                   !.parent = IF Supports(k, "parent") THEN @ ELSE NoItem]
<1>1. form # Closed /\ Fills(r) /\ k \in {"user_story", "task", "epic"}
  BY DEF PickType
<1>2. /\ r.type = k /\ r.parent = NoItem
      /\ r.epic = IF k \in {"user_story", "task"} THEN form.row.epic ELSE NoItem
  <2>1. form.row \in ItemRow
    BY <1>1, FormType DEF BoardInv
  <2>2. ~Supports(k, "parent") /\ (Supports(k, "epic") <=> k \in {"user_story", "task"})
    BY <1>1, TargetsAre, ParentTypesAre
  <2>. QED
    BY <2>1, <2>2 DEF ItemRow
<1> HIDE DEF r
<1>3. Sound(form.item, form.row) => Sound(form.item, r)
  BY <1>2, SoundIs
<1>. QED
  BY <1>1, <1>3, FillsFits DEF BoardInv

LEMMA PickEpicFits ==
  ASSUME BoardInv, NEW e \in Link, PickEpic(e) PROVE FormFits'
<1> DEFINE r == [form.row EXCEPT !.epic = e]
<1>1. form # Closed /\ Fills(r) /\ e \in Pickable("epic") \cup {NoItem}
  BY DEF PickEpic
<1>2. r.type = form.row.type /\ r.parent = form.row.parent /\ r.epic = e
  BY <1>1, FormType DEF BoardInv, ItemRow
<1>3. list = Table => Tree!ValidEpic(form.item, form.row.type, e)
  BY <1>1, EpicsMatch DEF BoardInv, Tree!ValidEpic
<1> HIDE DEF r
<1>4. list = Table /\ Sound(form.item, form.row) => Sound(form.item, r)
  BY <1>2, <1>3 DEF Sound, Tree!validate_hierarchy
<1>. QED
  BY <1>1, <1>4, FillsFits DEF BoardInv

LEMMA PickParentFits ==
  ASSUME BoardInv, NEW p \in Link, PickParent(p) PROVE FormFits'
<1> DEFINE r == [form.row EXCEPT !.parent = p]
<1>1. form # Closed /\ Fills(r) /\ p \in Pickable("parent") \cup {NoItem}
  BY DEF PickParent
<1>2. r.type = form.row.type /\ r.parent = p /\ r.epic = form.row.epic
  BY <1>1, FormType DEF BoardInv, ItemRow
<1>3. list = Table => Tree!ValidParent(form.item, form.row.type, p)
  BY <1>1, ParentsMatch DEF BoardInv, Tree!ValidParent
<1> HIDE DEF r
<1>4. list = Table /\ Sound(form.item, form.row) => Sound(form.item, r)
  BY <1>2, <1>3 DEF Sound, Tree!validate_hierarchy
<1>. QED
  BY <1>1, <1>4, FillsFits DEF BoardInv

LEMMA AddChildFits ==
  ASSUME BoardInv, NEW k \in Tree!Kind, NEW i \in Item, AddChild(i, k) PROVE FormFits'
<1> DEFINE r == [BlankRow EXCEPT !.type = k, !.parent = i]
<1>1. /\ i \in Loaded /\ list[i].type \in Tree!ParentTypes(k)
      /\ Opens("child", NoItem, r, Alike(list))
  BY TargetsAre DEF AddChild
<1>2. r.type = k /\ r.parent = i /\ r.epic = NoItem
  BY DEF BlankRow
<1> HIDE DEF r
<1>3. ASSUME list = Table PROVE Sound(NoItem, r)
  <2>1. i \in live /\ row[i].type \in {"user_story", "task"} /\ row[i].type \in Tree!ParentTypes(k)
    BY <1>1, <1>3, CurrentCopy, ParentTypesAre DEF BoardInv
  <2>2. row[i].parent = NoItem /\ i # NoItem
    BY <2>1, ParentTypesAre, BoardAssumption DEF BoardInv, TreeFits
  <2>. QED
    BY <1>2, <2>1, <2>2, SoundIs
<1>4. NoItem \in Link /\ Alike(list) \in BOOLEAN /\ (Alike(list) <=> list = Table)
  BY DEF Link, Alike
<1>. QED
  BY <1>1, <1>3, <1>4, OpensFits DEF BoardInv

LEMMA BoardStarts == BoardInit => BoardInv
<1> SUFFICES ASSUME BoardInit PROVE BoardInv
  OBVIOUS
<1>1. BoardTypeOK
  BY Starts
<1>2. Loaded = {}
  BY DEF BoardInit, Loaded, Table
<1>. QED
  BY <1>1, <1>2 DEF BoardInv, BoardInit, TreeFits, ListFits, FormFits

LEMMA BoardKept == BoardInv /\ [BoardNext]_boardVars => BoardInv'
<1> SUFFICES ASSUME BoardInv, [BoardNext]_boardVars PROVE BoardInv'
  OBVIOUS
<1> USE DEF BoardInv
<1>1. BoardTypeOK'
  BY TypeStep
<1>2. ASSUME NEW i \in Item, StartEditing(i) PROVE BoardInv'
  <2>1. PICK r : Opens("edit", i, r, Alike(list) /\ r = row[i])
    BY <1>2 DEF StartEditing
  <2>2. (Alike(list) /\ r = row[i]) \in BOOLEAN /\ i \in Link /\ (Alike(list) => list = Table)
    BY DEF Link, Alike
  <2>3. FormFits'
    BY <2>1, <2>2, OpensFits
  <2>. QED
    BY <1>1, <2>1, <2>3, TreeFrame, CopyFrame DEF Opens
<1>3. ASSUME NEW k \in Tree!Kind, OpenCreate(k) PROVE BoardInv'
  <2> DEFINE r == [BlankRow EXCEPT !.type = k]
  <2>1. Opens("create", NoItem, r, Alike(list))
    BY <1>3 DEF OpenCreate
  <2>2. Sound(NoItem, r)
    <3>1. r.parent = NoItem /\ r.epic = NoItem
      BY DEF BlankRow
    <3> HIDE DEF r
    <3>. QED
      BY <3>1, SoundIs
  <2>3. NoItem \in Link /\ Alike(list) \in BOOLEAN /\ (Alike(list) => list = Table)
    BY DEF Link, Alike
  <2> HIDE DEF r
  <2>4. FormFits'
    BY <2>1, <2>2, <2>3, OpensFits
  <2>. QED
    BY <1>1, <2>1, <2>4, TreeFrame, CopyFrame DEF Opens
<1>4. ASSUME NEW k \in Tree!Kind, NEW i \in Item, AddChild(i, k) PROVE BoardInv'
  BY <1>1, <1>4, AddChildFits, TreeFrame, CopyFrame DEF AddChild, Opens
<1>5. ASSUME NEW k \in Tree!Kind, PickType(k) PROVE BoardInv'
  BY <1>1, <1>5, PickTypeFits, TreeFrame, CopyFrame DEF PickType, Fills
<1>6. ASSUME NEW e \in Link, PickEpic(e) PROVE BoardInv'
  BY <1>1, <1>6, PickEpicFits, TreeFrame, CopyFrame DEF PickEpic, Fills
<1>7. ASSUME NEW p \in Link, PickParent(p) PROVE BoardInv'
  BY <1>1, <1>7, PickParentFits, TreeFrame, CopyFrame DEF PickParent, Fills
<1>8. CASE CloseForm
  BY <1>1, <1>8, TreeFrame, CopyFrame DEF CloseForm, FormFits
<1>9. CASE SaveForm
  <2>1. TreeFits'
    <3>1. CASE Stored(form.item, form.row)
      BY <1>9, <3>1, FormType, StoredFits DEF SaveForm
    <3>2. CASE UNCHANGED <<live, row>>
      BY <1>9, <3>2, TreeFrame DEF SaveForm
    <3>. QED
      BY <1>9, <3>1, <3>2 DEF SaveForm
  <2>. QED
    BY <1>1, <1>9, <2>1, CopyFrame DEF SaveForm, FormFits
<1>10. CASE OtherSaves
  BY <1>1, <1>10, StoredFits, CopyFrame, OvertakenFits DEF OtherSaves
<1>11. ASSUME NEW i \in Item, OtherDeletes(i) PROVE BoardInv'
  BY <1>1, <1>11, DeletedFits, CopyFrame, OvertakenFits DEF OtherDeletes
<1>12. ASSUME NEW s \in Sprint, CreateSprint(s) PROVE BoardInv'
  <2>1. TreeFits'
    BY <1>12 DEF CreateSprint, SetSprint, TreeFits, BoardTypeOK
  <2>. QED
    BY <1>1, <1>12, <2>1, CopyFrame, FormFrame DEF CreateSprint
<1>13. ASSUME NEW s \in Sprint, EndSprint(s) PROVE BoardInv'
  <2>1. \A t \in Sprint : sprint[t] # Closed => sprint'[t] # Closed
    BY <1>13, BoardAssumption DEF EndSprint, SetSprint, BoardTypeOK
  <2>2. \A i \in live : row[i].sprint # NoSprint => row[i].sprint \in Sprint
    BY LoadedType DEF ItemRow
  <2>3. TreeFits'
    BY <1>13, <2>1, <2>2 DEF EndSprint, TreeFits
  <2>. QED
    BY <1>1, <1>13, <2>3, CopyFrame, FormFrame DEF EndSprint
<1>14. ASSUME NEW s \in Sprint, DeleteSprint(s) PROVE BoardInv'
  <2>1. FormFits'
    BY <1>14, OvertakenFits, FormFrame DEF DeleteSprint
  <2>. QED
    BY <1>1, <1>14, <2>1, SprintDeletedFits, CopyFrame DEF DeleteSprint
<1>15. CASE FetchItems
  <2>1. FormFits'
    BY <1>15 DEF FetchItems, FormFits
  <2>. QED
    BY <1>1, <1>15, <2>1, FetchedFits, TreeFrame DEF FetchItems
<1>16. CASE FetchSprints
  BY <1>1, <1>16, TreeFrame, CopyFrame, FormFrame DEF FetchSprints
<1>17. CASE UNCHANGED boardVars
  BY <1>1, <1>17, TreeFrame, CopyFrame, FormFrame DEF boardVars
<1>. QED
  BY <1>2, <1>3, <1>4, <1>5, <1>6, <1>7, <1>8, <1>9, <1>10, <1>11, <1>12, <1>13,
     <1>14, <1>15, <1>16, <1>17 DEF BoardNext
-----------------------------------------------------------------------------
(* The views.                                                               *)

LEMMA OnceIs ==
  ASSUME NEW view, NEW i, NEW r0 \in view, r0.item = i,
         \A r \in view : r.item = i => r = r0
  PROVE  Once(view, i)
<1>1. {r \in view : r.item = i} = {r0}
  OBVIOUS
<1>2. Cardinality({r0}) = 1
  BY FS_Singleton
<1>. QED
  BY <1>1, <1>2 DEF Once

\* Among the items of a group, one is a parent or a child of one, not both.
LEMMA OrderedOnce ==
  ASSUME BoardTypeOK, ListFits, NEW group \in SUBSET Loaded, NEW i \in group
  PROVE  \E d \in {0, 1} : \A r : r \in OrderWithSubtasks(group) /\ r[1] = i <=> r = <<i, d>>
<1> DEFINE parents == {j \in group : list[j].parent \notin group}
           d == IF i \in parents THEN 0 ELSE 1
<1>1. \A j \in group : list[j].parent \in group => list[j].parent \in parents
  BY LoadedType, BoardAssumption DEF ListFits
<1>2. i \notin parents => list[i].parent \in parents
  BY <1>1
<1>3. i \in parents => list[i].parent \notin parents
  OBVIOUS
<1> HIDE DEF parents
<1>4. \A r : r \in OrderWithSubtasks(group) <=>
               \/ \E j \in parents : r = <<j, 0>>
               \/ \E j \in group : list[j].parent \in parents /\ r = <<j, 1>>
  BY DEF OrderWithSubtasks, parents
<1>5. \A r : r \in OrderWithSubtasks(group) /\ r[1] = i <=> r = <<i, d>>
  BY <1>2, <1>3, <1>4
<1>. QED
  BY <1>5

LEMMA EpicViewShows ==
  ASSUME BoardTypeOK, ListFits, NEW passed \in SUBSET Visible, NEW i \in passed \ Epics
  PROVE  Once(EpicGroups(passed), i)
<1> DEFINE Groups == Epics \cup {NoItem}
           Below(g) == {j \in passed \ Epics :
                          list[j].epic = g \/ (g = NoItem /\ list[j].epic \notin Epics)}
           home == IF list[i].epic \in Epics THEN list[i].epic ELSE NoItem
<1>1. NoItem \notin Epics
  BY LoadedType, BoardAssumption DEF Epics
<1>2. home \in Groups /\ \A g \in Groups : i \in Below(g) <=> g = home
  BY <1>1
<1>3. \A g : Below(g) \in SUBSET Loaded
  BY DEF Visible
<1>4. PICK d : \A r : r \in OrderWithSubtasks(Below(home)) /\ r[1] = i <=> r = <<i, d>>
  <2>1. i \in Below(home) /\ Below(home) \in SUBSET Loaded
    BY <1>2, <1>3
  <2> HIDE DEF Below, home
  <2>. QED
    BY <2>1, OrderedOnce
<1>5. \A g, r : r \in OrderWithSubtasks(Below(g)) => r[1] \in Below(g)
  BY DEF OrderWithSubtasks
<1>6. \A x : x \in EpicGroups(passed) <=>
               \E g \in Groups : \E r \in OrderWithSubtasks(Below(g)) : x = EpicRow(g, r)
  BY DEF EpicGroups
<1> HIDE DEF Groups, Below, home
<1> DEFINE x0 == EpicRow(home, <<i, d>>)
<1>7. x0 \in EpicGroups(passed)
  BY <1>2, <1>4, <1>6
<1>8. ASSUME NEW x \in EpicGroups(passed), x.item = i PROVE x = x0
  <2>1. PICK g \in Groups : \E r \in OrderWithSubtasks(Below(g)) : x = EpicRow(g, r)
    BY <1>6
  <2>. PICK r \in OrderWithSubtasks(Below(g)) : x = EpicRow(g, r)
    BY <2>1
  <2>2. r[1] = i
    BY <1>8, <2>1 DEF EpicRow
  <2>3. g = home
    BY <1>2, <1>5, <2>1, <2>2
  <2>. QED
    BY <1>4, <2>1, <2>2, <2>3
<1>9. x0.item = i
  BY DEF EpicRow
<1>. QED
  BY <1>7, <1>8, <1>9, OnceIs

LEMMA ListShows ==
  ASSUME NEW i \in Visible, NEW all \in BOOLEAN,
         list[i].sprint \in OrderedListSprints(all) \cup {NoSprint}
  PROVE  Once(ListGroups(Visible, all), i)
<1> DEFINE Groups == OrderedListSprints(all) \cup {NoSprint}
           x0 == ListRow(list[i].sprint, i)
<1>1. \A x : x \in ListGroups(Visible, all) <=>
               \E g \in Groups : \E j \in Visible : list[j].sprint = g /\ x = ListRow(g, j)
  BY DEF ListGroups
<1> HIDE DEF Groups
<1>2. x0 \in ListGroups(Visible, all) /\ x0.item = i
  BY <1>1 DEF ListRow, Groups
<1>3. ASSUME NEW x \in ListGroups(Visible, all), x.item = i PROVE x = x0
  BY <1>1, <1>3 DEF ListRow
<1>. QED
  BY <1>2, <1>3, OnceIs

LEMMA ListHides ==
  ASSUME BoardTypeOK, TreeFits, NEW i \in Visible, NEW all \in BOOLEAN, list[i] = Table[i],
         list[i].sprint # NoSprint =>
           /\ sprints[list[i].sprint] = sprint[list[i].sprint]
           /\ all \/ ~IsSprintCompleted(list[i].sprint)
  PROVE  list[i].sprint \in OrderedListSprints(all) \cup {NoSprint}
<1>1. i \in Item /\ list[i] # Closed /\ list[i] \in ItemRow
  BY LoadedType DEF Visible, Loaded
<1>2. i \in live /\ list[i] = row[i]
  BY <1>1 DEF Table
<1>3. list[i].sprint \in Sprint \cup {NoSprint}
  BY <1>1 DEF ItemRow
<1>. QED
  BY <1>2, <1>3 DEF TreeFits, OrderedListSprints

-----------------------------------------------------------------------------
(* The rules of the page are those of the server: on a tree that nobody has *)
(* touched since it was fetched, its pickers offer exactly what the server  *)
(* takes, and what was acceptable stays so whatever the user picks.         *)
THEOREM BoardInvariance == BoardSpec => []BoardInv
<1>. QED
  BY BoardStarts, BoardKept, PTL DEF BoardSpec

THEOREM FormsMatch == BoardSpec => []FormsMatchTheServer
<1>1. BoardInv => FormsMatchTheServer
  BY EpicsMatch, ParentsMatch DEF BoardInv, FormFits, FormsMatchTheServer
<1>. QED
  BY <1>1, BoardInvariance, PTL

(* Whatever the filters let through is on the screen once, for any tree the *)
(* server can hold and any copy of it the page can have.                    *)
THEOREM NothingIsHidden == BoardSpec => []NothingHidden
<1>1. ASSUME BoardInv PROVE NothingHidden
  <2>1. \A passed \in SUBSET Visible : \A i \in passed \ Epics : Once(EpicGroups(passed), i)
    BY <1>1, EpicViewShows DEF BoardInv
  <2>2. ASSUME NEW i \in Visible, NEW all \in BOOLEAN, ~Once(ListGroups(Visible, all), i),
               list[i] = Table[i]
        PROVE  LET s == list[i].sprint
               IN  s # NoSprint /\ (sprints[s] # sprint[s] \/ (~all /\ IsSprintCompleted(s)))
    BY <1>1, <2>2, ListShows, ListHides DEF BoardInv
  <2>. QED
    BY <2>1, <2>2 DEF NothingHidden
<1>. QED
  BY <1>1, BoardInvariance, PTL

-----------------------------------------------------------------------------
(* The role editor: grants and what they give.                              *)

LEMMA CatalogueIs ==
  /\ GrantsNest /\ BoxesDiffer /\ ParentsAreRead
  /\ \A g \in Group : Items(g) # {} /\ Items(g) \subseteq g.rows
  /\ \A x \in Grant : KeysOf(x) # {}
  /\ \A g \in Group : \A n \in g.rows : n.read # NoGrant \/ n.write # NoGrant
BY CatalogueAssumption DEF Items

LEMMA RowIs ==
  ASSUME NEW g \in Group, NEW n \in g.rows, NEW m \in Rows(n)
  PROVE  /\ n \in PickerRow /\ m \in PickerRow /\ n \in Rows(n)
         /\ m = n \/ (m \in n.children /\ m.children = {})
         /\ m["read"] = m.read /\ m["write"] = m.write
         /\ m.read \in Seq(STRING) /\ m.write \in Seq(STRING)
<1>1. n \in Node
  BY CatalogueAssumption
<1>2. n \in Rows(n) /\ (m = n \/ m \in n.children)
  BY DEF Rows
<1>3. m \in Node \cup Leaf /\ (m = n \/ m.children = {})
  BY <1>1, <1>2 DEF Node, Leaf
<1>. QED
  BY <1>1, <1>2, <1>3 DEF PickerRow, Node, Leaf, Key

LEMMA RowOf ==
  ASSUME NEW m \in PickerRow
  PROVE  \E g \in Group : \E n \in g.rows : m \in Rows(n)
BY DEF PickerRow

LEMMA GrantsAre ==
  /\ Full \in Grant
  /\ \A g \in Group : g.wildcard \in Grant
  /\ \A m \in PickerRow : (m.read # NoGrant => m.read \in Grant) /\ (m.write # NoGrant => m.write \in Grant)
  /\ \A x \in Grant : x \in Seq(STRING) /\ x # NoGrant
<1>1. \A g \in Group : g.wildcard \in Key /\ g.wildcard # NoGrant
  BY CatalogueAssumption
<1>2. Full \in Key /\ Full # NoGrant
  BY CatalogueAssumption DEF Full, NoGrant
<1>3. \A m \in PickerRow : m.read \in Key /\ m.write \in Key
  BY RowOf, RowIs DEF Key
<1>. QED
  BY <1>1, <1>2, <1>3 DEF Grant, Wide, Key

LEMMA BoxIs ==
  ASSUME NEW m \in PickerRow, NEW side \in Side, m[side] # NoGrant
  PROVE  /\ m[side] \in Grant /\ m[side] \notin Wide
         /\ \A l \in PickerRow, s \in Side : l[s] = m[side] => l = m /\ s = side
<1>1. m["read"] = m.read /\ m["write"] = m.write
  BY RowOf, RowIs
<1>2. m[side] \in Grant
  BY <1>1, GrantsAre DEF Side
<1>. QED
  BY <1>2, CatalogueIs DEF BoxesDiffer

\* The page's question about a grant is the server's about a key.
LEMMA HeldIs ==
  ASSUME NEW x, NEW G
  PROVE  /\ isGrantHeld(x, G) <=> \E h \in G : keyIsUnderGrant(x, h)
         /\ matches(x, G) <=> \E h \in G : keyIsUnderGrant(x, h)
BY DEF isGrantHeld, matches, keyIsUnderGrant

LEMMA HeldAbove ==
  ASSUME NEW x, NEW G \in SUBSET Grant
  PROVE  isGrantHeld(x, G) <=> G \cap Above(x) # {}
BY HeldIs DEF Above

LEMMA AboveSelf == ASSUME NEW x \in Grant PROVE x \in Above(x)
BY DEF Above, keyIsUnderGrant

\* A wildcard covers itself.
LEMMA CoversItself ==
  ASSUME NEW x \in Seq(STRING), x # NoGrant, Wildcard(x)
  PROVE  IsPrefix(Front(x), x)
<1>1. Len(x) \in Nat /\ Len(x) >= 1
  BY DEF NoGrant
<1> DEFINE n == Len(x) - 1
           f == SubSeq(x, 1, n)
<1>2. n \in Nat /\ n <= Len(x)
  BY <1>1
<1>3. f \in Seq(STRING) /\ Len(f) = n
  <2>1. \A i \in 1..n : x[i] \in STRING
    BY <1>2
  <2> HIDE DEF n
  <2>. QED
    BY <1>2, <2>1, SubSeqProperties
<1>4. SubSeq(f, 1, n) = SubSeq(x, 1, n)
  BY <1>3, SubSeqFull
<1>. QED
  BY <1>2, <1>3, <1>4 DEF IsPrefix, Front

\* Sweeping removes what a grant gives, itself included.
LEMMA SweepIs ==
  ASSUME NEW x \in Grant, NEW G \in SUBSET Grant
  PROVE  sweepUnder(x, G) = {h \in G : x \notin Above(h)}
<1>1. \A h \in G : x \in Above(h) <=> keyIsUnderGrant(h, x)
  BY DEF Above
<1>2. CASE Wildcard(x)
  <2>1. \A h \in G : keyIsUnderGrant(h, x) <=> IsPrefix(Front(x), h)
    BY <1>2, GrantsAre, CoversItself DEF keyIsUnderGrant, wildcardCovers
  <2>. QED
    BY <1>1, <1>2, <2>1 DEF sweepUnder
<1>3. CASE ~Wildcard(x)
  BY <1>1, <1>3 DEF sweepUnder, keyIsUnderGrant, wildcardCovers
<1>. QED
  BY <1>2, <1>3

\* Who holds a grant has its keys.
LEMMA HeldGives ==
  ASSUME NEW x \in Grant, NEW G \in SUBSET Grant, isGrantHeld(x, G), NEW k \in KeysOf(x)
  PROVE  matches(k, G)
<1>1. PICK h \in G : h \in Above(x)
  BY HeldAbove
<1>2. keyIsUnderGrant(k, h)
  BY <1>1, CatalogueIs DEF GrantsNest, KeysOf
<1>. QED
  BY <1>1, <1>2, HeldIs

\* Who has every key of a row's own box holds its grant.
LEMMA KeysGive ==
  ASSUME NEW m \in PickerRow, NEW side \in Side, m[side] # NoGrant, m.children = {},
         NEW G \in SUBSET Grant, \A k \in KeysOf(m[side]) : matches(k, G)
  PROVE  isGrantHeld(m[side], G)
<1>1. PICK k \in KeysOf(m[side]) : Above(k) = Above(m[side])
  BY CatalogueIs DEF BoxesDiffer
<1>2. PICK h \in G : keyIsUnderGrant(k, h)
  BY HeldIs
<1>3. h \in Above(m[side])
  BY <1>1, <1>2 DEF Above
<1>. QED
  BY <1>3, HeldAbove

\* What gives a box: its grant, the one above it, the group's and full access.
LEMMA GivesBox ==
  ASSUME NEW g \in Group, NEW n \in g.rows, NEW m \in Rows(n), NEW side \in Side,
         m[side] # NoGrant
  PROVE  Above(m[side]) = {m[side], n[side], g.wildcard, Full} \ {NoGrant}
BY CatalogueIs DEF GrantsNest

LEMMA ParentIs ==
  ASSUME NEW n \in PickerRow, n.children # {}
  PROVE  /\ \A m \in Rows(n) : m.write = NoGrant /\ m.read # NoGrant
         /\ KeysOf(n.read) \subseteq UNION {KeysOf(m.read) : m \in n.children}
BY CatalogueIs DEF ParentsAreRead

\* A ticked box, said of the grants.
LEMMA TickedIs ==
  ASSUME NEW m \in PickerRow, NEW side \in Side, m[side] # NoGrant, NEW G
  PROVE  /\ isSideEffective(m, side, G) \in BOOLEAN
         /\ m.children = {} => (isSideEffective(m, side, G) <=> isGrantHeld(m[side], G))
         /\ m.children # {} =>
              /\ side = "read"
              /\ isSideEffective(m, side, G) <=>
                   isGrantHeld(m.read, G) \/ \A c \in m.children : isGrantHeld(c.read, G)
<1>1. isSideEffective(m, side, G) <=>
        \/ isGrantHeld(m[side], G)
        \/ m.children # {} /\ \A c \in m.children : c[side] = NoGrant \/ isGrantHeld(c[side], G)
  BY DEF isSideEffective
<1>2. ASSUME m.children # {}
      PROVE  side = "read" /\ \A c \in m.children : c[side] = c.read /\ c.read # NoGrant
  <2>1. PICK g \in Group : \E n \in g.rows : m \in Rows(n)
    BY RowOf
  <2>. PICK n \in g.rows : m \in Rows(n)
    BY <2>1
  <2>2. m = n /\ \A c \in m.children : c \in Rows(n)
    BY <1>2, <2>1, RowIs DEF Rows
  <2>3. m \in Rows(m) /\ m["write"] = m.write /\ \A c \in m.children : c["read"] = c.read
    BY <2>1, <2>2, RowIs
  <2>4. side = "read"
    BY <1>2, <2>3, ParentIs DEF Side
  <2>5. \A c \in m.children : c.read # NoGrant
    BY <1>2, <2>2, ParentIs
  <2>. QED
    BY <2>3, <2>4, <2>5
<1>3. isSideEffective(m, side, G) \in BOOLEAN
  BY DEF isSideEffective
<1>4. m["read"] = m.read
  BY RowOf, RowIs
<1>. QED
  BY <1>1, <1>2, <1>3, <1>4

LEMMA TickedTells ==
  ASSUME NEW g \in Group, NEW n \in g.rows, NEW m \in Rows(n), NEW side \in Side,
         m[side] # NoGrant, NEW G \in SUBSET Grant
  PROVE  isSideEffective(m, side, G) <=> \A k \in KeysOf(m[side]) : matches(k, G)
<1>1. m \in PickerRow /\ m[side] \in Grant
  BY RowIs, BoxIs
<1>2. isGrantHeld(m[side], G) => \A k \in KeysOf(m[side]) : matches(k, G)
  BY <1>1, HeldGives
<1>3. CASE m.children = {}
  BY <1>1, <1>2, <1>3, TickedIs, KeysGive
<1>4. CASE m.children # {}
  <2>1. m = n /\ side = "read" /\ m[side] = m.read
    BY <1>1, <1>4, RowIs, TickedIs
  <2>2. ASSUME NEW c \in m.children
        PROVE  /\ c \in PickerRow /\ c.children = {} /\ c.read # NoGrant /\ c["read"] = c.read
               /\ c.read \in Grant /\ KeysOf(c.read) \subseteq KeysOf(m.read)
    <3>1. c \in Rows(n)
      BY <2>1 DEF Rows
    <3>2. c \in PickerRow /\ c["read"] = c.read /\ c.read # NoGrant
      BY <1>1, <1>4, <2>1, <3>1, RowIs, ParentIs
    <3>3. c.children = {}
      BY <2>1, CatalogueAssumption DEF Node, Leaf
    <3>4. c.read \in Grant /\ m.read \in Above(c.read)
      BY <2>1, <3>1, <3>2, BoxIs, GivesBox DEF Side
    <3>5. KeysOf(c.read) \subseteq KeysOf(m.read)
      BY <3>4, CatalogueIs DEF GrantsNest, KeysOf
    <3>. QED
      BY <3>2, <3>3, <3>4, <3>5
  <2>3. ASSUME \A k \in KeysOf(m.read) : matches(k, G), NEW c \in m.children
        PROVE  isGrantHeld(c.read, G)
    BY <2>2, <2>3, KeysGive DEF Side
  <2>4. ASSUME \A c \in m.children : isGrantHeld(c.read, G), NEW k \in KeysOf(m.read)
        PROVE  matches(k, G)
    <3>1. PICK c \in m.children : k \in KeysOf(c.read)
      BY <1>1, <1>4, ParentIs
    <3>. QED
      BY <2>2, <2>4, <3>1, HeldGives
  <2>. QED
    BY <1>1, <1>2, <1>4, <2>1, <2>3, <2>4, TickedIs
<1>. QED
  BY <1>3, <1>4

LEMMA WildcardIs ==
  ASSUME NEW g \in Group
  PROVE  /\ g.wildcard \in Grant /\ g.wildcard \in Wide /\ Above(g.wildcard) = {g.wildcard, Full}
         /\ Full \in Grant /\ Full \in Wide /\ Above(Full) = {Full}
         /\ \A h \in Grant : Full \in Above(h)
<1>1. \A m \in PickerRow, side \in Side : m[side] # NoGrant => Full \in Above(m[side])
  <2> SUFFICES ASSUME NEW m \in PickerRow, NEW side \in Side, m[side] # NoGrant
               PROVE  Full \in Above(m[side])
    OBVIOUS
  <2>1. PICK f \in Group : \E n \in f.rows : m \in Rows(n)
    BY RowOf
  <2>. PICK n \in f.rows : m \in Rows(n)
    BY <2>1
  <2>2. Above(m[side]) = {m[side], n[side], f.wildcard, Full} \ {NoGrant}
    BY GivesBox
  <2>3. Full # NoGrant
    BY GrantsAre
  <2>. QED
    BY <2>2, <2>3
<1>2. \A m \in PickerRow : m["read"] = m.read /\ m["write"] = m.write
  BY RowOf, RowIs
<1>3. \A h \in Grant : Full \in Above(h)
  <2> SUFFICES ASSUME NEW h \in Grant PROVE Full \in Above(h)
    OBVIOUS
  <2>1. CASE h \in Wide
    BY <2>1, CatalogueIs DEF GrantsNest, Wide
  <2>2. CASE \E m \in PickerRow : h = m.read \/ h = m.write
    <3>1. PICK m \in PickerRow : h = m.read \/ h = m.write
      BY <2>2
    <3>. QED
      BY <1>1, <1>2, <3>1, GrantsAre DEF Side
  <2>. QED
    BY <2>1, <2>2 DEF Grant
<1>. QED
  BY <1>3, GrantsAre, CatalogueIs DEF GrantsNest, Wide

\* A group's box says that every box below it is ticked.
LEMMA GroupTells ==
  ASSUME NEW g \in Group, NEW G \in SUBSET Grant
  PROVE  isGroupEffective(g, G) <=> \A k \in KeysOfGroup(g) : matches(k, G)
<1>1. \A n \in Items(g) : n \in g.rows
  BY CatalogueIs
<1>2. \A k : k \in KeysOfGroup(g) <=>
        \E n \in Items(g) : \E m \in Rows(n) : k \in KeysOf(m.read) \/ k \in KeysOf(m.write)
  BY DEF KeysOfGroup, KeysOfRow
<1>3. \A n \in Items(g) : \A m \in Rows(n) :
        m["read"] = m.read /\ m["write"] = m.write /\ m \in PickerRow
  BY <1>1, RowIs
<1>4. KeysOf(NoGrant) = {}
  BY CatalogueAssumption DEF KeysOf, keyIsUnderGrant, wildcardCovers, Wildcard
<1> DEFINE All == \A n \in Items(g) : \A m \in Rows(n), side \in Side :
                    m[side] = NoGrant \/ isSideEffective(m, side, G)
<1>5. All <=> \A k \in KeysOfGroup(g) : matches(k, G)
  <2>1. \A n \in Items(g) : \A m \in Rows(n), side \in Side :
          (m[side] = NoGrant \/ isSideEffective(m, side, G))
            <=> \A k \in KeysOf(m[side]) : matches(k, G)
    BY <1>1, <1>4, TickedTells
  <2>. QED
    BY <1>2, <1>3, <2>1 DEF Side
<1>6. ASSUME isGrantHeld(g.wildcard, G), NEW k \in KeysOfGroup(g) PROVE matches(k, G)
  <2>1. PICK n \in Items(g) : \E m \in Rows(n), side \in Side : k \in KeysOf(m[side])
    BY <1>2, <1>3 DEF Side
  <2>. PICK m \in Rows(n), side \in Side : k \in KeysOf(m[side])
    BY <2>1
  <2>2. m[side] # NoGrant /\ n \in g.rows
    BY <1>1, <1>4
  <2>3. m[side] \in Grant /\ g.wildcard \in Above(m[side])
    <3>1. Above(m[side]) = {m[side], n[side], g.wildcard, Full} \ {NoGrant}
      BY <2>2, GivesBox
    <3>. QED
      BY <1>3, <2>2, <3>1, BoxIs, GrantsAre
  <2>4. k \in KeysOf(g.wildcard)
    BY <2>3, CatalogueIs DEF GrantsNest, KeysOf
  <2>. QED
    BY <1>6, <2>4, HeldGives, GrantsAre
<1>. QED
  BY <1>5, <1>6 DEF isGroupEffective

-----------------------------------------------------------------------------
(* What clicks keep: a role may see what it may write.                      *)

\* A row that may write and read has no rows below it, and its read box is
\* given by its own grant, its group's wildcard or full access.
LEMMA ReadAndWrite ==
  ASSUME NEW n \in PickerRow, n.read # NoGrant, n.write # NoGrant
  PROVE  \E g \in Group :
           /\ n \in g.rows /\ n.children = {} /\ n["read"] = n.read /\ n["write"] = n.write
           /\ n.read \in Grant /\ n.write \in Grant
           /\ Above(n.read) = {n.read, g.wildcard, Full}
           /\ Above(n.write) = {n.write, g.wildcard, Full}
<1>1. PICK g \in Group : \E p \in g.rows : n \in Rows(p)
  BY RowOf
<1>. PICK p \in g.rows : n \in Rows(p)
  BY <1>1
<1>2. p \in PickerRow /\ (n = p \/ p.children # {}) /\ n["read"] = n.read /\ n["write"] = n.write
  BY RowIs
<1>3. n = p /\ n.children = {}
  <2>1. p.children = {}
    BY <1>2, ParentIs
  <2>. QED
    BY <1>2, <2>1
<1>4. n \in Rows(n)
  BY DEF Rows
<1>5. Above(n.read) = {n.read, g.wildcard, Full} /\ Above(n.write) = {n.write, g.wildcard, Full}
  <2>1. ASSUME NEW side \in Side, n[side] # NoGrant
        PROVE  Above(n[side]) = {n[side], g.wildcard, Full}
    <3>1. Above(n[side]) = {n[side], n[side], g.wildcard, Full} \ {NoGrant}
      BY <1>3, <1>4, <2>1, GivesBox
    <3>2. g.wildcard # NoGrant /\ Full # NoGrant
      BY GrantsAre
    <3>. QED
      BY <2>1, <3>1, <3>2
  <2>2. "read" \in Side /\ "write" \in Side
    BY DEF Side
  <2>. QED
    BY <1>2, <2>1, <2>2
<1>. QED
  BY <1>2, <1>3, <1>5, GrantsAre

\* A change keeps that if with a read grant go the write grants it serves.
LEMMA ReadableIf ==
  ASSUME NEW G \in SUBSET Grant, NEW H \in SUBSET Grant, Readable(G), Full \notin G,
         \A n \in PickerRow : n.read # NoGrant /\ n.write \in H =>
           \/ n.read \in H
           \/ isGrantHeld(n.read, G) /\ G \subseteq H
           \/ /\ n.write \in G
              /\ n.read \in G => n.read \in H
              /\ \A g \in Group : g.wildcard \in G => g.wildcard \in H \/ g.wildcard \notin Above(n.write)
  PROVE  Readable(H)
<1> SUFFICES ASSUME NEW n \in PickerRow, n.read # NoGrant, n.write \in H
             PROVE  isGrantHeld(n.read, H \ {Full})
  BY DEF Readable
<1>1. n.write # NoGrant
  BY GrantsAre
<1>2. PICK g \in Group :
        /\ n["read"] = n.read /\ n.read \in Grant
        /\ Above(n.read) = {n.read, g.wildcard, Full}
        /\ Above(n.write) = {n.write, g.wildcard, Full}
  BY <1>1, ReadAndWrite
<1>3. n.read # Full
  BY <1>2, BoxIs DEF Side, Wide
<1>4. CASE n.read \in H
  BY <1>2, <1>3, <1>4, AboveSelf, HeldAbove
<1>5. CASE isGrantHeld(n.read, G) /\ G \subseteq H
  <2>1. PICK h \in G : h \in Above(n.read)
    BY <1>2, <1>5, HeldAbove
  <2>. QED
    BY <1>2, <1>5, <2>1, HeldAbove
<1>6. CASE n.read \notin H /\ ~(isGrantHeld(n.read, G) /\ G \subseteq H)
  <2>1. PICK h \in G \ {Full} : h \in Above(n.read)
    BY <1>6, <1>2, HeldAbove DEF Readable
  <2>2. h = g.wildcard
    BY <1>2, <1>6, <2>1
  <2>3. h \in H
    BY <1>2, <1>6, <2>1, <2>2
  <2>. QED
    BY <2>1, <2>3, HeldAbove
<1>. QED
  BY <1>4, <1>5, <1>6

LEMMA FullKeeps ==
  ASSUME NEW G, Readable(G) PROVE Readable(G \cup {Full}) /\ Readable(G \ {Full})
<1>1. \A n \in PickerRow : n.write # NoGrant => n.write # Full
  <2> SUFFICES ASSUME NEW n \in PickerRow, n.write # NoGrant PROVE n.write # Full
    OBVIOUS
  <2>1. n["write"] = n.write
    BY RowOf, RowIs
  <2>. QED
    BY <2>1, BoxIs DEF Side, Wide
<1>2. (G \cup {Full}) \ {Full} = G \ {Full} /\ (G \ {Full}) \ {Full} = G \ {Full}
  OBVIOUS
<1>3. G \subseteq Grant /\ Full \in Grant /\ NoGrant \notin Grant
  BY GrantsAre DEF Readable
<1>4. \A n \in PickerRow : n.write \in G \cup {Full} => n.write \in G \/ n.write = Full
  OBVIOUS
<1>5. NoGrant # Full
  BY <1>3
<1>. QED
  BY <1>1, <1>2, <1>3, <1>5 DEF Readable

\* What a row may write and read, and its group's wildcard, survive a sweep
\* that leaves the row's write grant and is not its read grant's.
LEMMA SurvivesSweep ==
  ASSUME NEW G \in SUBSET Grant, Full \notin G, NEW x \in Grant,
         NEW n \in PickerRow, n.read # NoGrant, n.write # NoGrant,
         x \notin Above(n.write), x # n.read
  PROVE  /\ n.read \in G => n.read \in sweepUnder(x, G)
         /\ \A g \in Group : g.wildcard \in G =>
              g.wildcard \in sweepUnder(x, G) \/ g.wildcard \notin Above(n.write)
<1>1. PICK f \in Group :
        /\ n["write"] = n.write /\ n.write \in Grant
        /\ Above(n.read) = {n.read, f.wildcard, Full}
        /\ Above(n.write) = {n.write, f.wildcard, Full}
  BY ReadAndWrite
<1>2. x # f.wildcard /\ x # Full
  BY <1>1
<1>3. n.write \notin Wide
  BY <1>1, BoxIs DEF Side
<1>4. ASSUME NEW g \in Group, g.wildcard \in G, g.wildcard \in Above(n.write)
      PROVE  x \notin Above(g.wildcard)
  <2>1. g.wildcard = f.wildcard
    BY <1>1, <1>3, <1>4 DEF Wide
  <2>. QED
    BY <1>2, <2>1, WildcardIs
<1>. QED
  BY <1>1, <1>2, <1>4, SweepIs

LEMMA GroupKeeps ==
  ASSUME NEW g \in Group, NEW G, Readable(G), Full \notin G
  PROVE  /\ Readable(sweepUnder(g.wildcard, G))
         /\ Readable(sweepUnder(g.wildcard, G) \cup {g.wildcard})
<1>1. G \subseteq Grant /\ g.wildcard \in Grant /\ g.wildcard \in Wide
  BY WildcardIs DEF Readable
<1> DEFINE S == sweepUnder(g.wildcard, G)
<1>2. S = {h \in G : g.wildcard \notin Above(h)}
  BY <1>1, SweepIs
<1>3. ASSUME NEW n \in PickerRow, n.read # NoGrant, n.write \in S \cup {g.wildcard}
      PROVE  /\ n.write \in G
             /\ n.read \in G => n.read \in S
             /\ \A f \in Group : f.wildcard \in G =>
                  f.wildcard \in S \/ f.wildcard \notin Above(n.write)
  <2>1. n.write # NoGrant
    BY <1>1, <1>2, <1>3, GrantsAre
  <2>2. n["write"] = n.write /\ n["read"] = n.read
    BY RowOf, RowIs
  <2>3. n.write \notin Wide /\ n.read \notin Wide
    BY <1>3, <2>1, <2>2, BoxIs DEF Side
  <2>4. n.write \in G /\ g.wildcard \notin Above(n.write) /\ g.wildcard # n.read
    BY <1>1, <1>2, <1>3, <2>3
  <2>. QED
    BY <1>1, <1>3, <2>1, <2>4, SurvivesSweep
<1>4. S \subseteq Grant /\ S \cup {g.wildcard} \subseteq Grant
  BY <1>1, <1>2
<1> HIDE DEF S
<1>5. Readable(S)
  BY <1>1, <1>3, <1>4, ReadableIf
<1>6. Readable(S \cup {g.wildcard})
  BY <1>1, <1>3, <1>4, ReadableIf
<1>. QED
  BY <1>5, <1>6 DEF S

\* What unticking a reading box leaves.
LEMMA ReadOffIs ==
  ASSUME NEW n \in PickerRow, grants \subseteq Grant
  PROVE  ReadOff(n) = {h \in grants : \A m \in Rows(n) :
                         h # m.write /\ (m.read # NoGrant => m.read \notin Above(h))}
<1>1. \A m \in Rows(n) : m.read # NoGrant => m.read \in Grant
  <2>1. PICK g \in Group : \E p \in g.rows : n \in Rows(p)
    BY RowOf
  <2>. PICK p \in g.rows : n \in Rows(p)
    BY <2>1
  <2>2. \A m \in Rows(n) : m \in Rows(p)
    BY RowIs DEF Rows
  <2>. QED
    BY <2>2, RowIs, GrantsAre
<1>2. \A m \in Rows(n) : m.read # NoGrant =>
        sweepUnder(m.read, grants) = {h \in grants : m.read \notin Above(h)}
  BY <1>1, SweepIs
<1>. QED
  BY <1>2 DEF ReadOff

LEMMA RowsOf ==
  ASSUME NEW n \in PickerRow
  PROVE  n \in Rows(n) /\ \A m \in Rows(n) : m \in PickerRow /\ m["read"] = m.read /\ m["write"] = m.write
<1>1. PICK g \in Group : \E p \in g.rows : n \in Rows(p)
  BY RowOf
<1>. PICK p \in g.rows : n \in Rows(p)
  BY <1>1
<1>2. n \in Rows(n) /\ \A m \in Rows(n) : m \in Rows(p)
  BY RowIs DEF Rows
<1>. QED
  BY <1>2, RowIs

LEMMA ReadOffKeeps ==
  ASSUME Readable(grants), Full \notin grants, NEW n \in PickerRow
  PROVE  Readable(ReadOff(n))
<1>1. grants \subseteq Grant
  BY DEF Readable
<1>2. ReadOff(n) = {h \in grants : \A m \in Rows(n) :
                      h # m.write /\ (m.read # NoGrant => m.read \notin Above(h))}
  BY <1>1, ReadOffIs
<1>3. ASSUME NEW l \in PickerRow, l.read # NoGrant, l.write \in ReadOff(n)
      PROVE  /\ l.write \in grants
             /\ l.read \in grants => l.read \in ReadOff(n)
             /\ \A f \in Group : f.wildcard \in grants =>
                  f.wildcard \in ReadOff(n) \/ f.wildcard \notin Above(l.write)
  <2>1. l.write \in grants /\ l.write # NoGrant
    BY <1>1, <1>2, <1>3, GrantsAre
  <2>2. l["write"] = l.write /\ l["read"] = l.read
    BY RowsOf
  <2>3. ASSUME NEW m \in Rows(n)
        PROVE  /\ l.read # m.write /\ m.write \notin Wide
               /\ m.read # NoGrant =>
                    /\ m.read \in Grant /\ m.read \notin Above(l.write) /\ m.read # l.read
    <3>1. m \in PickerRow /\ m["read"] = m.read /\ m["write"] = m.write
      BY RowsOf
    <3>2. m.write \notin Wide
      <4>1. NoGrant \notin Wide
        BY GrantsAre, WildcardIs DEF Wide
      <4>. QED
        BY <3>1, <4>1, BoxIs DEF Side
    <3>3. l.read # m.write
      BY <1>3, <2>2, <3>1, BoxIs DEF Side
    <3>4. ASSUME m.read # NoGrant PROVE m.read # l.read
      <4>1. ASSUME m.read = l.read PROVE m = l
        BY <2>2, <3>1, <3>4, <4>1, BoxIs DEF Side
      <4>. QED
        BY <1>2, <1>3, <4>1
    <3>. QED
      BY <1>2, <1>3, <3>1, <3>2, <3>3, <3>4, GrantsAre
  <2>4. ASSUME NEW m \in Rows(n), m.read # NoGrant
        PROVE  /\ l.read \in grants => m.read \notin Above(l.read)
               /\ \A f \in Group : f.wildcard \in grants =>
                    m.read \notin Above(f.wildcard) \/ f.wildcard \notin Above(l.write)
    <3>1. /\ l.read \in grants => l.read \in sweepUnder(m.read, grants)
          /\ \A f \in Group : f.wildcard \in grants =>
               f.wildcard \in sweepUnder(m.read, grants) \/ f.wildcard \notin Above(l.write)
      BY <1>1, <1>3, <2>1, <2>3, <2>4, SurvivesSweep
    <3>. QED
      BY <1>1, <2>3, <2>4, <3>1, SweepIs
  <2>5. \A f \in Group : f.wildcard \in Wide
    BY WildcardIs
  <2>. QED
    BY <1>2, <2>1, <2>3, <2>4, <2>5
<1>. QED
  BY <1>1, <1>2, <1>3, ReadableIf

LEMMA ReadOnIs ==
  ASSUME NEW n \in PickerRow, n.read # NoGrant, grants \subseteq Grant
  PROVE  /\ n.read \in Grant
         /\ ReadOn(n) = {h \in grants : n.read \notin Above(h)} \cup {n.read}
BY GrantsAre, SweepIs DEF ReadOn

LEMMA ReadOnServes ==
  ASSUME Readable(grants), Full \notin grants, NEW n \in PickerRow, n.read # NoGrant,
         NEW l \in PickerRow, l.read # NoGrant, l.write \in grants, n.read \notin Above(l.write)
  PROVE  \/ l.read \in ReadOn(n)
         \/ /\ l.read \in grants => l.read \in ReadOn(n)
            /\ \A f \in Group : f.wildcard \in grants =>
                 f.wildcard \in ReadOn(n) \/ f.wildcard \notin Above(l.write)
<1>1. grants \subseteq Grant /\ l.write # NoGrant
  BY GrantsAre DEF Readable
<1>2. n.read \in Grant
  BY GrantsAre
<1>3. CASE n.read = l.read
  BY <1>1, <1>3, ReadOnIs
<1>4. CASE n.read # l.read
  BY <1>1, <1>2, <1>4, SurvivesSweep DEF ReadOn
<1>. QED
  BY <1>3, <1>4

LEMMA ReadOnKeeps ==
  ASSUME Readable(grants), Full \notin grants, NEW n \in PickerRow, n.read # NoGrant
  PROVE  /\ Readable(ReadOn(n))
         /\ n.write # NoGrant => Readable({n.write} \cup ReadOn(n))
<1>1. grants \subseteq Grant
  BY DEF Readable
<1>2. /\ n.read \in Grant
      /\ ReadOn(n) = {h \in grants : n.read \notin Above(h)} \cup {n.read}
  BY <1>1, ReadOnIs
<1>3. ASSUME NEW l \in PickerRow, l.read # NoGrant, l.write \in ReadOn(n)
      PROVE  \/ l.read \in ReadOn(n)
             \/ /\ l.write \in grants
                /\ l.read \in grants => l.read \in ReadOn(n)
                /\ \A f \in Group : f.wildcard \in grants =>
                     f.wildcard \in ReadOn(n) \/ f.wildcard \notin Above(l.write)
  <2>1. l.write # n.read
    <3>1. l["write"] = l.write /\ n["read"] = n.read
      BY RowsOf
    <3>. QED
      BY <3>1, BoxIs DEF Side
  <2>. QED
    BY <1>2, <1>3, <2>1, ReadOnServes
<1>4. Readable(ReadOn(n))
  BY <1>1, <1>2, <1>3, ReadableIf
<1>5. ASSUME n.write # NoGrant PROVE Readable({n.write} \cup ReadOn(n))
  <2>1. n.write \in Grant /\ n["write"] = n.write
    BY <1>5, GrantsAre, RowsOf
  <2>2. ASSUME NEW l \in PickerRow, l.read # NoGrant, l.write = n.write PROVE l.read \in ReadOn(n)
    <3>1. l = n
      BY <1>5, <2>1, <2>2, RowsOf, BoxIs DEF Side
    <3>. QED
      BY <1>2, <3>1
  <2> DEFINE H == {n.write} \cup ReadOn(n)
  <2>3. H \in SUBSET Grant /\ ReadOn(n) \subseteq H
        /\ \A x : x \in H <=> x = n.write \/ x \in ReadOn(n)
    BY <1>1, <1>2, <2>1
  <2> HIDE DEF H
  <2>4. Readable(H)
    BY <1>1, <1>3, <2>2, <2>3, ReadableIf
  <2>. QED
    BY <2>4 DEF H
<1>. QED
  BY <1>4, <1>5

LEMMA WriteKeeps ==
  ASSUME Readable(grants), Full \notin grants, NEW n \in PickerRow, n.write # NoGrant
  PROVE  Readable(WriteOff(n)) /\ Readable(WriteOn(n))
<1>1. grants \subseteq Grant /\ n.write \in Grant /\ n["write"] = n.write /\ n["read"] = n.read
  BY GrantsAre, RowsOf DEF Readable
<1>2. Readable(WriteOff(n))
  <2>1. \A l \in PickerRow : l.read # NoGrant => l.read # n.write
    BY <1>1, RowsOf, BoxIs DEF Side
  <2>2. \A f \in Group : f.wildcard # n.write
    BY <1>1, BoxIs, WildcardIs DEF Side
  <2>. QED
    BY <1>1, <2>1, <2>2, ReadableIf DEF WriteOff
<1>3. CASE n.read # NoGrant /\ ~isSideEffective(n, "read", grants)
  BY <1>2, <1>3, ReadOnKeeps DEF WriteOn
<1>4. CASE ~(n.read # NoGrant /\ ~isSideEffective(n, "read", grants))
  <2>1. WriteOn(n) = {n.write} \cup grants
    BY <1>4 DEF WriteOn
  <2>2. ASSUME NEW l \in PickerRow, l.read # NoGrant, l.write = n.write
        PROVE  isGrantHeld(l.read, grants)
    <3>1. l = n
      BY <1>1, <2>2, RowsOf, BoxIs DEF Side
    <3>2. n.children = {}
      BY <2>2, <3>1, ReadAndWrite
    <3>. QED
      BY <1>1, <1>4, <2>2, <3>1, <3>2, TickedIs DEF Side
  <2> DEFINE H == {n.write} \cup grants
  <2>3. H \in SUBSET Grant /\ grants \subseteq H
        /\ \A x : x \in H <=> x = n.write \/ x \in grants
    BY <1>1
  <2> HIDE DEF H
  <2>4. Readable(H)
    BY <1>1, <2>2, <2>3, ReadableIf
  <2>. QED
    BY <1>2, <2>1, <2>4 DEF H
<1>. QED
  BY <1>3, <1>4

-----------------------------------------------------------------------------
(* The invariant: every set of grants that the editor reaches is a role's.  *)

\* A step is an opening, a closing or a click on an enabled box.
LEMMA ClickIs ==
  ASSUME NEW g \in Group, NEW parent \in Items(g), NEW n \in Rows(parent), NEW side \in Side,
         Enabled(g, parent, n, side), grants \subseteq Grant
  PROVE  /\ parent \in g.rows /\ parent \in PickerRow /\ n \in PickerRow /\ n[side] # NoGrant
         /\ n["read"] = n.read /\ n["write"] = n.write
         /\ Full \notin grants /\ g.wildcard \notin grants
         /\ n = parent \/ parent.read = NoGrant \/ parent.read \notin grants
<1>1. parent \in g.rows
  BY CatalogueIs
<1>2. parent \in PickerRow /\ n \in PickerRow /\ n["read"] = n.read /\ n["write"] = n.write
  BY <1>1, RowIs
<1>3. n[side] # NoGrant /\ ~Covered(g, parent, n)
  BY DEF Enabled
<1>4. g.wildcard \notin grants
  BY <1>3, WildcardIs, AboveSelf, HeldAbove DEF Covered
<1>. QED
  BY <1>1, <1>2, <1>3, <1>4 DEF Covered

\* What a click does.
LEMMA ClickDoes ==
  ASSUME NEW n, NEW side \in Side
  PROVE  \/ side = "read" /\ isSideEffective(n, side, grants) /\ AfterClick(n, side) = ReadOff(n)
         \/ side = "read" /\ ~isSideEffective(n, side, grants) /\ AfterClick(n, side) = ReadOn(n)
         \/ side = "write" /\ isSideEffective(n, side, grants) /\ AfterClick(n, side) = WriteOff(n)
         \/ side = "write" /\ ~isSideEffective(n, side, grants) /\ AfterClick(n, side) = WriteOn(n)
BY DEF AfterClick, Side

\* Every step of the editor keeps a role whose writers may read.
LEMMA ReadableStep ==
  ASSUME Readable(grants), [RoleNext]_roleVars PROVE Readable(grants')
<1>1. ASSUME NEW G \in Role, OpenRole(G) PROVE Readable(grants')
  BY <1>1, CatalogueAssumption DEF OpenRole
<1>2. CASE CloseRole
  BY <1>2 DEF CloseRole
<1>3. CASE ToggleFullAccess
  BY <1>3, FullKeeps DEF ToggleFullAccess
<1>4. ASSUME NEW g \in Group, ToggleGroupWildcard(g) PROVE Readable(grants')
  <2>1. Full \notin grants /\ grants' = AfterGroup(g)
    BY <1>4 DEF ToggleGroupWildcard
  <2>2. \/ AfterGroup(g) = sweepUnder(g.wildcard, grants)
        \/ AfterGroup(g) = sweepUnder(g.wildcard, grants) \cup {g.wildcard}
    BY DEF AfterGroup
  <2>. QED
    BY <2>1, <2>2, GroupKeeps
<1>5. ASSUME NEW g \in Group, NEW parent \in Items(g), NEW n \in Rows(parent), NEW side \in Side,
             TogglePickerCheckbox(g, parent, n, side)
      PROVE  Readable(grants')
  <2>1. Enabled(g, parent, n, side) /\ grants' = AfterClick(n, side)
    BY <1>5 DEF TogglePickerCheckbox
  <2>2. n \in PickerRow /\ n[side] # NoGrant /\ n["read"] = n.read /\ n["write"] = n.write
        /\ Full \notin grants
    BY <2>1, ClickIs DEF Readable
  <2>. QED
    BY <2>1, <2>2, ClickDoes, ReadOffKeeps, ReadOnKeeps, WriteKeeps
<1>6. CASE UNCHANGED roleVars
  BY <1>6 DEF roleVars
<1>. QED
  BY <1>1, <1>2, <1>3, <1>4, <1>5, <1>6 DEF RoleNext

(* In every state of the role editor the grants in the form are those of     *)
(* boxes of the catalogue, and with the grant to write a row they give its   *)
(* reading, however the boxes were clicked (togglePickerCheckbox,            *)
(* toggleGroupWildcard).                                                     *)
THEOREM RoleInvariance == RoleSpec => []Readable(grants)
<1>1. RoleInit => Readable(grants)
  BY GrantsAre DEF RoleInit, Readable
<1>2. Readable(grants) /\ [RoleNext]_roleVars => Readable(grants)'
  BY ReadableStep
<1>. QED
  BY <1>1, <1>2, PTL DEF RoleSpec

-----------------------------------------------------------------------------
(* The boxes say what the server does.                                      *)

\* Who may write a row may read it.
LEMMA WriterReads ==
  ASSUME Readable(grants), NEW n \in PickerRow, n.read # NoGrant, n.write # NoGrant,
         isSideEffective(n, "write", grants)
  PROVE  isSideEffective(n, "read", grants)
<1>1. grants \subseteq Grant
  BY DEF Readable
<1>2. PICK g \in Group :
        /\ n.children = {} /\ n["read"] = n.read /\ n["write"] = n.write
        /\ n.read \in Grant /\ n.write \in Grant
        /\ Above(n.read) = {n.read, g.wildcard, Full}
        /\ Above(n.write) = {n.write, g.wildcard, Full}
  BY ReadAndWrite
<1>3. isGrantHeld(n.write, grants)
  BY <1>2, TickedIs DEF Side
<1>4. PICK h \in grants : h = n.write \/ h \in Above(n.read)
  BY <1>1, <1>2, <1>3, HeldAbove
<1>5. isGrantHeld(n.read, grants)
  <2>1. CASE h \in Above(n.read)
    BY <1>1, <1>2, <2>1, HeldAbove
  <2>2. CASE h = n.write
    <3>1. isGrantHeld(n.read, grants \ {Full})
      BY <1>4, <2>2 DEF Readable
    <3>. QED
      BY <3>1, HeldIs
  <2>. QED
    BY <1>4, <2>1, <2>2
<1>. QED
  BY <1>2, <1>5, TickedIs DEF Side

LEMMA ReadableTells == ASSUME Readable(grants) PROVE BoxesTellAccess
<1>1. grants \subseteq Grant
  BY DEF Readable
<1> SUFFICES ASSUME NEW g \in Group
             PROVE
    /\ isGroupEffective(g, grants) <=> \A k \in KeysOfGroup(g) : matches(k, grants)
    /\ \A n \in Items(g) :
         /\ \A m \in Rows(n), side \in Side : m[side] # NoGrant =>
              (isSideEffective(m, side, grants) <=> \A k \in KeysOf(m[side]) : matches(k, grants))
         /\ n.read # NoGrant /\ n.write # NoGrant /\ isSideEffective(n, "write", grants)
              => isSideEffective(n, "read", grants)
    /\ \A h \in grants : KeysOf(h) # {}
  BY DEF BoxesTellAccess
<1>2. isGroupEffective(g, grants) <=> \A k \in KeysOfGroup(g) : matches(k, grants)
  BY <1>1, GroupTells
<1>3. ASSUME NEW n \in Items(g)
      PROVE  /\ \A m \in Rows(n), side \in Side : m[side] # NoGrant =>
                  (isSideEffective(m, side, grants)
                     <=> \A k \in KeysOf(m[side]) : matches(k, grants))
             /\ n.read # NoGrant /\ n.write # NoGrant /\ isSideEffective(n, "write", grants)
                  => isSideEffective(n, "read", grants)
  <2>1. n \in g.rows /\ n \in PickerRow
    BY CatalogueIs, RowIs DEF Rows
  <2>. QED
    BY <1>1, <2>1, TickedTells, WriterReads
<1>4. \A h \in grants : KeysOf(h) # {}
  BY <1>1, CatalogueIs
<1>. QED
  BY <1>2, <1>3, <1>4

(* For any catalogue whose grants nest, any rows shown and any roles: what   *)
(* a box of the editor shows (isSideEffective, isGroupEffective) is what     *)
(* the server gives a holder (capabilities.py's matches), a writer may read, *)
(* and every grant of the set is one the server takes.                       *)
THEOREM BoxesTell == RoleSpec => []BoxesTellAccess
BY RoleInvariance, ReadableTells, PTL

-----------------------------------------------------------------------------
(* A click flips its own box and no other's keys.                           *)

\* What is under a grant is under what gives it.
LEMMA KeysBelow ==
  ASSUME NEW h \in Grant, NEW x \in Above(h)
  PROVE  KeysOf(h) \subseteq KeysOf(x)
BY CatalogueIs DEF GrantsNest, KeysOf

\* Two sets whose differences give only keys of K give the same otherwise.
LEMMA SameOutside ==
  ASSUME NEW G, NEW H, NEW K,
         \A h \in G : h \in H \/ KeysOf(h) \subseteq K,
         \A h \in H : h \in G \/ KeysOf(h) \subseteq K,
         NEW k \in Capability \ K
  PROVE  matches(k, H) = matches(k, G)
<1>1. matches(k, H) <=> matches(k, G)
  BY DEF matches, KeysOf
<1>2. matches(k, H) \in BOOLEAN /\ matches(k, G) \in BOOLEAN
  BY DEF matches
<1>. QED
  BY <1>1, <1>2

LEMMA RowKeys ==
  ASSUME NEW n, NEW m \in Rows(n)
  PROVE  KeysOf(m.read) \subseteq KeysOfRow(n) /\ KeysOf(m.write) \subseteq KeysOfRow(n)
BY DEF KeysOfRow

\* What the click takes and gives is below the row's own grants.
LEMMA ClickKeeps ==
  ASSUME Readable(grants), NEW n \in PickerRow, NEW side \in Side, n[side] # NoGrant
  PROVE  /\ \A h \in grants : h \in AfterClick(n, side) \/ KeysOf(h) \subseteq KeysOfRow(n)
         /\ \A h \in AfterClick(n, side) : h \in grants \/ KeysOf(h) \subseteq KeysOfRow(n)
<1>1. grants \subseteq Grant
  BY DEF Readable
<1>2. n \in Rows(n) /\ n["read"] = n.read /\ n["write"] = n.write
  BY RowsOf
<1>3. KeysOf(n.read) \subseteq KeysOfRow(n) /\ KeysOf(n.write) \subseteq KeysOfRow(n)
  BY <1>2, RowKeys
<1>4. CASE AfterClick(n, side) = ReadOff(n)
  <2>1. ReadOff(n) = {h \in grants : \A m \in Rows(n) :
                        h # m.write /\ (m.read # NoGrant => m.read \notin Above(h))}
    BY <1>1, ReadOffIs
  <2>2. ASSUME NEW h \in grants, h \notin ReadOff(n) PROVE KeysOf(h) \subseteq KeysOfRow(n)
    <3>1. PICK m \in Rows(n) : h = m.write \/ m.read \in Above(h)
      BY <2>1, <2>2
    <3>. QED
      BY <1>1, <3>1, RowKeys, KeysBelow
  <2>. QED
    BY <1>4, <2>1, <2>2
<1>5. ASSUME n.read # NoGrant
      PROVE  /\ \A h \in grants : h \in ReadOn(n) \/ KeysOf(h) \subseteq KeysOfRow(n)
             /\ \A h \in ReadOn(n) : h \in grants \/ KeysOf(h) \subseteq KeysOfRow(n)
  <2>1. n.read \in Grant
        /\ ReadOn(n) = {h \in grants : n.read \notin Above(h)} \cup {n.read}
    BY <1>1, <1>5, ReadOnIs
  <2>2. ASSUME NEW h \in grants, n.read \in Above(h) PROVE KeysOf(h) \subseteq KeysOfRow(n)
    BY <1>1, <1>3, <2>2, KeysBelow
  <2>. QED
    BY <1>3, <2>1, <2>2
<1>6. CASE AfterClick(n, side) = WriteOff(n)
  BY <1>3, <1>6 DEF WriteOff
<1>7. CASE side = "write" /\ AfterClick(n, side) = WriteOn(n)
  <2>1. CASE n.read # NoGrant /\ ~isSideEffective(n, "read", grants)
    BY <1>3, <1>5, <1>7, <2>1 DEF WriteOn
  <2>2. CASE ~(n.read # NoGrant /\ ~isSideEffective(n, "read", grants))
    BY <1>3, <1>7, <2>2 DEF WriteOn
  <2>. QED
    BY <2>1, <2>2
<1>. QED
  BY <1>2, <1>4, <1>5, <1>6, <1>7, ClickDoes

\* An enabled box is given by its own grant or by its row's own children.
LEMMA ClickFlips ==
  ASSUME Readable(grants), NEW g \in Group, NEW parent \in Items(g), NEW n \in Rows(parent),
         NEW side \in Side, Enabled(g, parent, n, side)
  PROVE  isSideEffective(n, side, AfterClick(n, side)) # isSideEffective(n, side, grants)
<1>1. grants \subseteq Grant
  BY DEF Readable
<1>2. /\ parent \in g.rows /\ parent \in PickerRow /\ n \in PickerRow /\ n[side] # NoGrant
      /\ n["read"] = n.read /\ n["write"] = n.write
      /\ Full \notin grants /\ g.wildcard \notin grants
      /\ n = parent \/ parent.read = NoGrant \/ parent.read \notin grants
  BY <1>1, ClickIs
<1>3. n[side] \in Grant /\ Above(n[side]) = {n[side], parent[side], g.wildcard, Full} \ {NoGrant}
  BY <1>2, GivesBox, BoxIs
<1>4. parent["read"] = parent.read /\ parent["write"] = parent.write /\ NoGrant \notin Grant
  BY <1>2, RowsOf, GrantsAre
<1>5. n = parent \/ (n \in parent.children /\ n.children = {} /\ parent.write = NoGrant)
  BY <1>2, RowIs, ParentIs DEF Rows
<1>6. \A G : isSideEffective(n, side, G) \in BOOLEAN
  BY <1>2, TickedIs
<1>7. ASSUME NEW H \in SUBSET grants, n[side] \notin H PROVE ~isGrantHeld(n[side], H)
  <2>1. parent[side] = NoGrant \/ n = parent \/ parent[side] \notin grants
    BY <1>2, <1>4, <1>5 DEF Side
  <2>. QED
    BY <1>1, <1>2, <1>3, <1>7, <2>1, HeldAbove
<1>8. ASSUME NEW H \in SUBSET Grant, n[side] \in H PROVE isSideEffective(n, side, H)
  BY <1>2, <1>3, <1>8, AboveSelf, HeldAbove DEF isSideEffective
<1>9. CASE side = "read" /\ isSideEffective(n, side, grants) /\ AfterClick(n, side) = ReadOff(n)
  <2>1. ReadOff(n) = {h \in grants : \A m \in Rows(n) :
                        h # m.write /\ (m.read # NoGrant => m.read \notin Above(h))}
    BY <1>1, <1>2, ReadOffIs
  <2>2. n.read \notin ReadOff(n)
    BY <1>2, <1>3, <1>9, <2>1, AboveSelf, RowsOf
  <2>3. ~isGrantHeld(n[side], ReadOff(n))
    BY <1>2, <1>7, <1>9, <2>1, <2>2
  <2>4. CASE n.children = {}
    BY <1>2, <1>6, <1>9, <2>3, <2>4, TickedIs
  <2>5. CASE n.children # {}
    <3>1. n = parent
      BY <1>5, <2>5
    <3>2. PICK c : c \in n.children
      BY <2>5
    <3>3. c \in Rows(n) /\ c \in PickerRow /\ c["read"] = c.read /\ c.read # NoGrant
      BY <1>2, <2>5, <3>2, RowsOf, ParentIs DEF Rows
    <3>4. c.read \in Grant
          /\ Above(c.read) = {c.read, n.read, g.wildcard, Full} \ {NoGrant}
      BY <1>2, <3>1, <3>3, GivesBox, GrantsAre DEF Side
    <3>5. c.read \notin ReadOff(n)
      BY <2>1, <3>3, <3>4, AboveSelf
    <3>6. ~isGrantHeld(c.read, ReadOff(n))
      BY <1>1, <1>2, <2>1, <2>2, <3>4, <3>5, HeldAbove
    <3>. QED
      BY <1>2, <1>6, <1>9, <2>3, <2>5, <3>2, <3>6, TickedIs
  <2>. QED
    BY <2>4, <2>5
<1>10. ASSUME n.read # NoGrant PROVE n.read \in ReadOn(n) /\ ReadOn(n) \subseteq Grant
  BY <1>1, <1>2, <1>10, ReadOnIs
<1>11. CASE side = "read" /\ ~isSideEffective(n, side, grants) /\ AfterClick(n, side) = ReadOn(n)
  BY <1>2, <1>6, <1>8, <1>10, <1>11
<1>12. CASE side = "write" /\ isSideEffective(n, side, grants) /\ AfterClick(n, side) = WriteOff(n)
  <2>1. n.children = {}
    BY <1>2, <1>12, ParentIs, RowsOf
  <2>2. ~isGrantHeld(n[side], WriteOff(n))
    BY <1>2, <1>7, <1>12 DEF WriteOff
  <2>. QED
    BY <1>2, <1>6, <1>12, <2>1, <2>2, TickedIs
<1>13. CASE side = "write" /\ ~isSideEffective(n, side, grants) /\ AfterClick(n, side) = WriteOn(n)
  <2>1. n[side] \in WriteOn(n)
    BY <1>2, <1>13 DEF WriteOn
  <2>2. WriteOn(n) \subseteq Grant
    BY <1>1, <1>2, <1>3, <1>10, <1>13 DEF WriteOn
  <2>. QED
    BY <1>6, <1>8, <1>13, <2>1, <2>2
<1>. QED
  BY <1>9, <1>11, <1>12, <1>13, ClickDoes

\* After a sweep of a group's wildcard no box of the group is given.
LEMMA SweptGroup ==
  ASSUME NEW g \in Group, grants \subseteq Grant, Full \notin grants
  PROVE  ~isGroupEffective(g, sweepUnder(g.wildcard, grants))
<1> DEFINE S == sweepUnder(g.wildcard, grants)
<1>1. S = {h \in grants : g.wildcard \notin Above(h)}
  BY SweepIs, WildcardIs
<1>2. S \subseteq Grant /\ Full \notin S /\ g.wildcard \notin S
  BY <1>1, WildcardIs, AboveSelf
<1> HIDE DEF S
<1>3. ~isGrantHeld(g.wildcard, S)
  BY <1>2, WildcardIs, HeldAbove
<1>4. ASSUME NEW n \in g.rows, NEW m \in Rows(n), NEW side \in Side, m[side] # NoGrant
      PROVE  ~isGrantHeld(m[side], S)
  <2>1. n \in PickerRow /\ m \in PickerRow /\ n \in Rows(n)
    BY RowIs
  <2>2. m[side] \in Grant
    BY <1>4, <2>1, BoxIs
  <2>3. Above(m[side]) = {m[side], n[side], g.wildcard, Full} \ {NoGrant}
    BY <1>4, GivesBox
  <2>4. g.wildcard # NoGrant
    BY GrantsAre
  <2>5. m[side] \notin S
    BY <1>1, <2>3, <2>4
  <2>6. n[side] # NoGrant => n[side] \notin S
    <3>1. ASSUME n[side] # NoGrant PROVE g.wildcard \in Above(n[side])
      <4>1. Above(n[side]) = {n[side], n[side], g.wildcard, Full} \ {NoGrant}
        BY <2>1, <3>1, GivesBox
      <4>. QED
        BY <2>4, <4>1
    <3>. QED
      BY <1>1, <3>1
  <2>. QED
    BY <1>2, <2>2, <2>3, <2>5, <2>6, HeldAbove
<1>5. PICK n \in Items(g) : n \in g.rows /\ (n.read # NoGrant \/ n.write # NoGrant)
  BY CatalogueIs
<1>6. n \in PickerRow /\ n \in Rows(n) /\ n["read"] = n.read /\ n["write"] = n.write
  BY <1>5, RowIs DEF Rows
<1>7. PICK side \in Side : n[side] # NoGrant
  BY <1>5, <1>6 DEF Side
<1>8. ~isSideEffective(n, side, S)
  <2>1. ~isGrantHeld(n[side], S)
    BY <1>4, <1>5, <1>6, <1>7
  <2>2. ASSUME n.children # {} PROVE \E c \in n.children : ~isGrantHeld(c.read, S)
    <3>1. PICK c : c \in n.children
      BY <2>2
    <3>2. c \in Rows(n) /\ c["read"] = c.read /\ c.read # NoGrant
      BY <1>6, <2>2, <3>1, RowsOf, ParentIs DEF Rows
    <3>3. ~isGrantHeld(c["read"], S)
      BY <1>4, <1>5, <3>2 DEF Side
    <3>. QED
      BY <3>1, <3>2, <3>3
  <2>3. side = "read" => n[side] = n.read
    BY <1>6
  <2>. QED
    BY <1>6, <1>7, <2>1, <2>2, TickedIs
<1>9. ~isGroupEffective(g, S)
  BY <1>3, <1>5, <1>6, <1>7, <1>8 DEF isGroupEffective
<1>. QED
  BY <1>9 DEF S

LEMMA GroupFlips ==
  ASSUME NEW g \in Group, grants \subseteq Grant, Full \notin grants
  PROVE  /\ isGroupEffective(g, AfterGroup(g)) # isGroupEffective(g, grants)
         /\ \A k \in Capability \ KeysOf(g.wildcard) :
              matches(k, AfterGroup(g)) = matches(k, grants)
<1> DEFINE S == sweepUnder(g.wildcard, grants)
<1>1. S = {h \in grants : g.wildcard \notin Above(h)}
  BY SweepIs, WildcardIs
<1>2. AfterGroup(g) = S \cup (IF isGroupEffective(g, grants) THEN {} ELSE {g.wildcard})
  BY DEF AfterGroup
<1>3. ~isGroupEffective(g, S)
  BY SweptGroup
<1> HIDE DEF S
<1>4. isGroupEffective(g, AfterGroup(g)) # isGroupEffective(g, grants)
  <2>1. CASE isGroupEffective(g, grants)
    <3>1. AfterGroup(g) = S
      BY <1>2, <2>1
    <3>. QED
      BY <1>3, <2>1, <3>1
  <2>2. CASE ~isGroupEffective(g, grants)
    <3>1. g.wildcard \in AfterGroup(g)
      BY <1>2, <2>2
    <3>2. isGrantHeld(g.wildcard, AfterGroup(g))
      BY <3>1 DEF isGrantHeld
    <3>3. isGroupEffective(g, AfterGroup(g))
      BY <3>2 DEF isGroupEffective
    <3>. QED
      BY <2>2, <3>3
  <2>. QED
    BY <2>1, <2>2
<1>5. \A h \in grants : h \in AfterGroup(g) \/ KeysOf(h) \subseteq KeysOf(g.wildcard)
  BY <1>1, <1>2, KeysBelow
<1>6. \A h \in AfterGroup(g) : h \in grants \/ KeysOf(h) \subseteq KeysOf(g.wildcard)
  BY <1>1, <1>2
<1>7. \A k \in Capability \ KeysOf(g.wildcard) :
        matches(k, AfterGroup(g)) = matches(k, grants)
  BY <1>5, <1>6, SameOutside
<1>. QED
  BY <1>4, <1>7

LEMMA ReadableLocal == ASSUME Readable(grants) PROVE ClickIsLocal
<1>1. grants \subseteq Grant
  BY DEF Readable
<1>2. ASSUME NEW g \in Group, NEW parent \in Items(g), NEW n \in Rows(parent), NEW side \in Side,
             Enabled(g, parent, n, side)
      PROVE  /\ isSideEffective(n, side, AfterClick(n, side)) # isSideEffective(n, side, grants)
             /\ \A k \in Capability \ KeysOfRow(n) :
                  matches(k, AfterClick(n, side)) = matches(k, grants)
  <2>1. n \in PickerRow /\ n[side] # NoGrant
    BY <1>1, <1>2, ClickIs
  <2>2. /\ \A h \in grants : h \in AfterClick(n, side) \/ KeysOf(h) \subseteq KeysOfRow(n)
        /\ \A h \in AfterClick(n, side) : h \in grants \/ KeysOf(h) \subseteq KeysOfRow(n)
    BY <2>1, ClickKeeps
  <2>3. \A k \in Capability \ KeysOfRow(n) :
          matches(k, AfterClick(n, side)) = matches(k, grants)
    BY <2>2, SameOutside
  <2>. QED
    BY <1>2, <2>3, ClickFlips
<1>. QED
  BY <1>1, <1>2, GroupFlips DEF ClickIsLocal

(* In every state of the editor a click on an enabled box flips that box     *)
(* and gives or takes no key of another row, and a click on a group's box    *)
(* flips it and gives or takes no key of another group (sweepUnder and the   *)
(* four cases of togglePickerCheckbox).                                      *)
THEOREM ClicksAreLocal == RoleSpec => []ClickIsLocal
BY RoleInvariance, ReadableLocal, PTL
=============================================================================
