-------------------------------- MODULE Dialogs --------------------------------
(***************************************************************************)
(* A dialog of the web client: the user opens it for a subject, types,     *)
(* submits and walks away; the call is answered whenever it is answered,   *)
(* and its callbacks act on whatever is on the screen by then.             *)
(*                                                                         *)
(* A behaviour follows one dialog.  What the dialog does comes from its    *)
(* row: the form's part (the component) and the answer's part (the hook).  *)
(* A draft is the number of its last keystroke, 0 when untouched, and the  *)
(* subject it was filled for.                                              *)
(***************************************************************************)
EXTENDS Naturals

CONSTANTS
  Dialog, Row,        \* Row[d]: what dialog d does
  Subject, Call,
  MaxOpenings,        \* bound: how often the dialog is opened
  MaxTyped,           \* bound: how often the user types
  Unsent, Nothing,    \* a call not made; a subject not named
  \* dialogs known not to keep the promise below that bears the name
  Doubling, Losing, Stealing, Misdirecting

RowType == [
  creates : BOOLEAN,    \* another call makes another thing
  text    : BOOLEAN,    \* it has something to fill in
  many    : BOOLEAN,    \* it opens for one of several subjects
  guard   : {"none", "mount", "page"},    \* who refuses a call while one is pending
  locked  : SUBSET {"open", "leave"},    \* what it refuses while a call is pending
  frozen  : BOOLEAN,    \* it cannot be typed in either
  keeps   : BOOLEAN,    \* its draft outlives it: state of the page or the hook
  resets  : SUBSET {"open", "leave"},    \* when a draft that outlives it is cleared
  fills   : {"never", "open", "asked"},    \* when something else writes the draft
  submit  : SUBSET {"closes", "clears"},    \* what submitting does before any answer
  success : {"stays", "closes", "shows"},    \* what the answer does to the screen
  clears  : BOOLEAN,    \* the answer clears the draft
  names   : {"variables", "shown"},    \* whom the callbacks take for the subject
  steps   : 1..2]       \* requests of one call

Opening == 1..MaxOpenings
Version == 0..MaxTyped
Draft == [version : Version, of : Subject]
CallType == [opening : Opening, version : Version, of : Subject, subject : Subject,
             state : {"sent", "ok", "error", "won", "failed"}, made : BOOLEAN,
             named : Subject \cup {Nothing}]

ASSUME DialogAssumption ==
  /\ Row \in [Dialog -> RowType]
  /\ MaxOpenings \in Nat \ {0} /\ MaxTyped \in Nat
  /\ Nothing \notin Subject /\ Unsent \notin CallType
  /\ \A d \in {Doubling, Losing, Stealing, Misdirecting} : d \subseteq Dialog

VARIABLES
  dialog,      \* the dialog this behaviour follows
  shown,       \* the opening on the screen, 0 when the dialog is closed
  openings,    \* how often it was opened
  subject,     \* what each opening shows
  draft,       \* [version, of]
  typed,       \* how often the user typed
  excused,     \* keystrokes given up, typed over, or typed while a call ran
  filling,     \* an answer that will write the draft is awaited
  call         \* each call: [opening, version, of, subject, state, made, named]

vars == <<dialog, shown, openings, subject, draft, typed, excused, filling, call>>

This == Row[dialog]
Made == {k \in Call : call[k] # Unsent}
Pending == {k \in Made : call[k].state \in {"sent", "ok", "error"}}
Blank(s) == [version |-> 0, of |-> s]

TypeOK ==
  /\ dialog \in Dialog
  /\ openings \in 0..MaxOpenings /\ shown \in 0..openings
  /\ subject \in [Opening -> Subject]
  /\ draft \in Draft
  /\ typed \in Version /\ draft.version \in 0..typed
  /\ excused \in SUBSET (1..typed)
  /\ filling \in BOOLEAN
  /\ call \in [Call -> CallType \cup {Unsent}]

Init ==
  \E s \in Subject :
    /\ dialog \in Dialog
    /\ shown = 0 /\ openings = 0 /\ typed = 0 /\ excused = {}
    /\ subject = [n \in Opening |-> s]
    /\ draft = Blank(s)
    /\ filling = FALSE
    /\ call = [k \in Call |-> Unsent]

-----------------------------------------------------------------------------
(* The user.                                                                *)

(* Faulty: the draft of the last opening is kept. *)
OpenedUncleared(s) ==
  /\ openings < MaxOpenings
  /\ openings' = openings + 1 /\ shown' = openings + 1
  /\ subject' = [subject EXCEPT ![openings + 1] = s]
  /\ draft' = IF This.keeps THEN draft ELSE Blank(s)
  /\ filling' \in {FALSE, This.fills = "open"}
\* Opening: a draft of the dialog's own is new; one of the page's is what it
\* was unless opening fills it.
Opened(s) ==
  /\ openings < MaxOpenings
  /\ openings' = openings + 1 /\ shown' = openings + 1
  /\ subject' = [subject EXCEPT ![openings + 1] = s]
  /\ draft' = IF This.keeps /\ "open" \notin This.resets THEN draft ELSE Blank(s)
  /\ filling' \in {FALSE, This.fills = "open"}

Open(s) ==
  /\ shown = 0
  /\ ~("open" \in This.locked /\ Pending # {})
  /\ This.many \/ s = subject[1]
  /\ Opened(s)
  /\ UNCHANGED <<dialog, typed, excused, call>>

\* A keystroke replaces what the form held.
Type ==
  /\ shown # 0 /\ This.text /\ typed < MaxTyped
  /\ ~(This.frozen /\ Pending # {})
  /\ typed' = typed + 1
  /\ draft' = [draft EXCEPT !.version = typed + 1]
  /\ excused' = excused \cup ({draft.version} \ {0})
                        \cup (IF Pending # {} THEN {typed + 1} ELSE {})
  /\ UNCHANGED <<dialog, shown, openings, subject, filling, call>>

(* Faulty: it can be left while its call runs. *)
LeaveUnlocked ==
  /\ shown # 0
  /\ shown' = 0 /\ filling' = FALSE
  /\ draft' = IF This.keeps /\ "leave" \notin This.resets THEN draft ELSE Blank(draft.of)
  /\ excused' = excused \cup ({draft.version} \ {0})
  /\ UNCHANGED <<dialog, openings, subject, typed, call>>
\* Cancel, the X, the backdrop: the user gives up what he typed.
Leave ==
  /\ shown # 0
  /\ ~("leave" \in This.locked /\ Pending # {})
  /\ shown' = 0 /\ filling' = FALSE
  /\ draft' = IF This.keeps /\ "leave" \notin This.resets THEN draft ELSE Blank(draft.of)
  /\ excused' = excused \cup ({draft.version} \ {0})
  /\ UNCHANGED <<dialog, openings, subject, typed, call>>

\* An assistant is asked to rewrite what the form holds.
Ask ==
  /\ shown # 0 /\ This.fills = "asked" /\ ~filling
  /\ filling' = TRUE
  /\ excused' = excused \cup ({draft.version} \ {0})
  /\ UNCHANGED <<dialog, shown, openings, subject, draft, typed, call>>

\* Its answer, or the saved values the form was opened without, arrive.
Fill ==
  /\ filling /\ filling' = FALSE
  /\ draft' = Blank(draft.of)
  /\ UNCHANGED <<dialog, shown, openings, subject, typed, excused, call>>

(* Faulty: a call of an earlier opening is overlooked. *)
RefusedByThisOpening ==
  This.guard # "none" /\ \E k \in Pending : call[k].opening = shown
Refused ==
  CASE This.guard = "page" -> Pending # {}
    [] This.guard = "mount" -> \E k \in Pending : call[k].opening = shown
    [] OTHER -> FALSE

Submit(k) ==
  /\ shown # 0 /\ ~Refused
  /\ This.text => draft.version # 0
  /\ call[k] = Unsent
  /\ k = CHOOSE l \in Call : call[l] = Unsent    \* calls not made yet are alike
  /\ call' = [call EXCEPT ![k] =
       [opening |-> shown, version |-> draft.version, of |-> draft.of,
        subject |-> subject[shown], state |-> "sent", made |-> FALSE, named |-> Nothing]]
  /\ shown' = IF "closes" \in This.submit THEN 0 ELSE shown
  /\ draft' = IF "clears" \in This.submit THEN Blank(draft.of) ELSE draft
  /\ UNCHANGED <<dialog, openings, subject, typed, excused, filling>>

-----------------------------------------------------------------------------
(* The server, and the callbacks.                                           *)

\* An answer; of a call of two requests the second may fail alone.
Serve(k) ==
  /\ k \in Made /\ call[k].state = "sent"
  /\ \E ok, made \in BOOLEAN :
       /\ ok => made
       /\ made /\ ~ok => This.steps = 2
       /\ call' = [call EXCEPT ![k].state = IF ok THEN "ok" ELSE "error", ![k].made = made]
  /\ UNCHANGED <<dialog, shown, openings, subject, draft, typed, excused, filling>>

\* The subject the callbacks name: the variables', or the one the page showed
\* last when the answer came.
Named(k) == IF This.names = "variables" THEN call[k].subject ELSE subject[openings]

\* A draft of the page is cleared whoever typed it, the dialog's own draft
\* only by the dialog that is still there.
Reset(k) ==
  IF This.clears /\ (This.keeps \/ shown = call[k].opening)
  THEN Blank(draft.of) ELSE draft

SettledAs(k, state) ==
  call' = [call EXCEPT ![k].state = state, ![k].named = Named(k)]

(* Faulty: the failure clears the draft. *)
FailsAndClears(k) ==
  /\ k \in Made /\ call[k].state = "error"
  /\ SettledAs(k, "failed")
  /\ draft' = Blank(draft.of)
  /\ UNCHANGED <<dialog, shown, openings, subject, typed, excused, filling>>
Fails(k) ==
  /\ k \in Made /\ call[k].state = "error"
  /\ SettledAs(k, "failed")
  /\ UNCHANGED <<dialog, shown, openings, subject, draft, typed, excused, filling>>

Wins(k) == k \in Made /\ call[k].state = "ok" /\ SettledAs(k, "won")

Stays(k) ==
  /\ This.success = "stays" /\ Wins(k)
  /\ draft' = Reset(k)
  /\ UNCHANGED <<dialog, shown, openings, subject, typed, excused, filling>>

\* The flag the callback lowers is the page's: it closes what is open.
Closes(k) ==
  /\ This.success = "closes" /\ Wins(k)
  /\ shown' = 0 /\ filling' = FALSE
  /\ draft' = IF This.keeps THEN Reset(k) ELSE Blank(draft.of)
  /\ UNCHANGED <<dialog, openings, subject, typed, excused>>

\* The callback puts its subject on the screen, in the panel that is open or
\* in a new one.
Shows(k) ==
  /\ This.success = "shows" /\ Wins(k)
  /\ \/ /\ shown # 0
        /\ subject' = [subject EXCEPT ![shown] = call[k].subject]
        /\ draft' = Reset(k)
        /\ UNCHANGED <<shown, openings, filling>>
     \/ shown = 0 /\ Opened(call[k].subject)
     \/ /\ shown = 0 /\ openings = MaxOpenings    \* bound reached: not followed
        /\ UNCHANGED <<shown, openings, subject, draft, filling>>
  /\ UNCHANGED <<dialog, typed, excused>>

Settle(k) == Fails(k) \/ Stays(k) \/ Closes(k) \/ Shows(k)

Next ==
  \/ \E s \in Subject : Open(s)
  \/ Type \/ Leave \/ Ask \/ Fill
  \/ \E k \in Call : Submit(k) \/ Serve(k) \/ Settle(k)

Spec == Init /\ [][Next]_vars

-----------------------------------------------------------------------------
(* Properties.                                                              *)

Creating(k) == call[k].state = "sent" \/ call[k].made

\* One form, filled in once, makes one thing: no two calls with the same
\* draft are under way or acknowledged, whatever the user pressed and
\* however often he closed and reopened the dialog (the isPending guards and
\* the resets of the create dialogs).
NoDouble ==
  dialog \notin Doubling /\ This.creates =>
    \A k, l \in Made :
      (k # l /\ call[k].version = call[l].version) => ~(Creating(k) /\ Creating(l))

\* What the user typed is in the form or in a call that did not fail, unless
\* he gave it up or typed it while another call ran: an error costs nobody
\* his text (the onError paths, and what submitting clears beforehand).
InputKept ==
  dialog \notin Losing =>
    \A v \in (1..typed) \ excused :
      \/ v = draft.version
      \/ \E k \in Made : call[k].version = v /\ call[k].state # "failed"

\* A call writes to the subject its draft was filled for, and its callbacks
\* name that subject (mutation variables against the closures of the hooks).
SubjectKept ==
  dialog \notin Misdirecting =>
    \A k \in Made :
      /\ This.text => call[k].of = call[k].subject
      /\ call[k].named \in {call[k].subject, Nothing}

\* An answer that comes when the user is in another opening leaves that
\* alone: its screen, its subject and what he typed there (the onSuccess
\* callbacks that lower the flag of the page).
NeverStolen ==
  [][dialog \notin Stealing =>
       \A k \in Made :
         (call'[k] # call[k] /\ call'[k].state = "won" /\ shown \notin {0, call[k].opening})
         => shown' = shown /\ subject' = subject /\ draft' = draft]_vars

-----------------------------------------------------------------------------
(* The rows that keep each promise, as ScreensProofs shows.                 *)

\* What is sent is gone from the form at once; or the button is off while the
\* call is pending, and a success takes it from the form before that can be
\* used again.
MakesOne(r) ==
  /\ r.text
  /\ \/ "clears" \in r.submit
     \/ /\ r.steps = 1
        /\ r.guard = "page" \/ (r.guard = "mount" /\ ~r.keeps)
        /\ r.clears \/ (r.success = "closes" /\ (~r.keeps \/ "open" \in r.resets))
        /\ r.success = "shows" => ~r.keeps \/ "open" \in r.resets

\* Only the user and a success take anything from the form.
Forgiving(r) == r.submit = {} /\ r.fills = "never"

\* The form is of the subject on the screen, and the answer of the call's.
Aimed(r) ==
  /\ r.names = "variables"
  /\ ~r.many \/ (r.success # "shows" /\ (~r.keeps \/ "open" \in r.resets))

\* A success leaves the screen alone, or the user cannot be anywhere else.
Polite(r) ==
  \/ r.success = "stays" /\ ~(r.clears /\ r.keeps)
  \/ r.success # "shows" /\ "open" \in r.locked
  \/ r.guard = "page" /\ "leave" \in r.locked /\ "closes" \notin r.submit
=============================================================================
