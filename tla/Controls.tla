-------------------------------- MODULE Controls --------------------------------
(***************************************************************************)
(* A control of the web client that acts where it stands: a status dot, a  *)
(* checkbox, a picker, a card dragged to a column, a delete button.  It    *)
(* stands in every row of a list; each click is a call of its own, calls   *)
(* overlap and overtake each other, and the list is fetched again.         *)
(*                                                                         *)
(* A behaviour follows one control.  What it does comes from its row: the  *)
(* click's part (the component) and the answer's part (the hook).          *)
(***************************************************************************)
EXTENDS Naturals, FiniteSets, FiniteSetsExt

CONSTANTS
  Control, Does,    \* Does[c]: what control c does
  Listed,           \* the rows of the list: numbers, for the order on the screen
  MaxCalls,         \* bound: clicks of one behaviour
  Unmade,
  \* controls known not to keep the promise below that bears the name
  Mismarked, Unhealed

Value == {"off", "on", "held"}

DoesType == [
  offers  : SUBSET Value,    \* what the user can pick
  marks   : {"none",      \* no click is refused
             "own",       \* the clicked row's, while its call is pending
             "choice",    \* the clicked button's of the clicked row
             "first",     \* own, but only the first marked row is drawn so
             "latest",    \* the row of the hook's latest call
             "flag",      \* one flag for the list, lowered by any answer
             "all"},      \* every row's
  patches : {"never", "now", "success"},    \* when the answer is anticipated on the screen
  settles : {"always", "success", "nothing"}]    \* which answers fetch the list again

List == [Listed -> Value]
ClickType == [subject : Listed, value : Value, before : List,
              state : {"sent", "ok", "error", "won", "lost"}]

ASSUME ControlAssumption ==
  /\ Does \in [Control -> DoesType]
  /\ Listed \subseteq Nat /\ IsFiniteSet(Listed)
  /\ MaxCalls \in Nat /\ Unmade \notin ClickType
  /\ \A d \in {Mismarked, Unhealed} : d \subseteq Control

VARIABLES
  control,    \* the control this behaviour follows
  server,     \* the value of each subject
  displayed,  \* the client's copy of the list
  click,      \* each call: [subject, value, state, before]
  raised,     \* the pending marks of the hook: row and button
  fetch       \* the fetch of the list: "idle", "asked", "failed", or what it read

controlVars == <<control, server, displayed, click, raised, fetch>>

Act == Does[control]
Click == 1..MaxCalls
Clicked == {k \in Click : click[k] # Unmade}
Awaited == {k \in Clicked : click[k].state \in {"sent", "ok", "error"}}

Idle == [state |-> "idle", read |-> [s \in Listed |-> "off"]]
Asked == [Idle EXCEPT !.state = "asked"]

ControlTypeOK ==
  /\ control \in Control
  /\ server \in List /\ displayed \in List
  /\ click \in [Click -> ClickType \cup {Unmade}]
  /\ raised \subseteq Listed \X Value
  /\ fetch \in [state : {"idle", "asked", "read", "failed"}, read : List]

ControlInit ==
  /\ control \in Control
  /\ server = [s \in Listed |-> "off"] /\ displayed = server
  /\ click = [k \in Click |-> Unmade]
  /\ raised = {} /\ fetch = Idle

-----------------------------------------------------------------------------
(* The click.                                                               *)

\* The buttons drawn as busy, and refused.
Busy ==
  IF Act.marks = "first" /\ raised # {}
  THEN {m \in raised : m[1] = Min({n[1] : n \in raised})}
  ELSE raised

Raise(s, v) ==
  CASE Act.marks \in {"own", "first"} -> raised \cup ({s} \X Value)
    [] Act.marks = "choice" -> raised \cup {<<s, v>>}
    [] Act.marks \in {"latest", "flag"} -> {s} \X Value
    [] Act.marks = "all" -> Listed \X Value
    [] OTHER -> {}

(* Faulty: any answer takes every mark away. *)
LowerAny(k) == {}
\* The hook of the latest call watches that call alone; the list's flag goes
\* down with whichever answer comes.
Lower(k) ==
  CASE Act.marks \in {"own", "first"} -> raised \ ({click[k].subject} \X Value)
    [] Act.marks = "choice" -> raised \ {<<click[k].subject, click[k].value>>}
    [] Act.marks = "latest" -> IF k = Max(Clicked) THEN {} ELSE raised
    [] OTHER -> {}

\* A row offers what it does not show, unless it shows nothing of the value.
Offered(s, v) == v \in Act.offers /\ (Act.settles = "nothing" \/ v # displayed[s])

\* What an answer could have to take back.
Before == IF Act.patches = "now" THEN displayed ELSE Idle.read

\* The user picks.  An anticipated answer cancels
\* the fetch that would overwrite it.
Choose(s, v) ==
  \E k \in Click :
    /\ k = Cardinality(Clicked) + 1
    /\ Offered(s, v)
    /\ <<s, v>> \notin Busy
    /\ click' = [click EXCEPT ![k] =
         [subject |-> s, value |-> v, before |-> Before, state |-> "sent"]]
    /\ raised' = Raise(s, v)
    /\ displayed' = IF Act.patches = "now" THEN [displayed EXCEPT ![s] = v] ELSE displayed
    /\ fetch' = IF Act.patches = "now" THEN Idle ELSE fetch
    /\ UNCHANGED <<control, server>>

-----------------------------------------------------------------------------
(* The server, in any order of the calls.                                   *)

\* It applies the call or refuses it; the client may hear of a failure
\* although the call took effect.
Apply(k) ==
  /\ k \in Clicked /\ click[k].state = "sent"
  /\ \E applied, heard \in BOOLEAN :
       /\ server' = IF applied THEN [server EXCEPT ![click[k].subject] = click[k].value]
                    ELSE server
       /\ click' = [click EXCEPT ![k].state = IF applied /\ heard THEN "ok" ELSE "error"]
  /\ UNCHANGED <<control, displayed, raised, fetch>>

\* A window that gets the focus again fetches too (queryClient.ts).
Refetch ==
  /\ fetch.state \in {"idle", "failed"} /\ Act.settles # "nothing"
  /\ fetch' = Asked
  /\ UNCHANGED <<control, server, displayed, click, raised>>

ReadList ==
  /\ fetch.state = "asked"
  /\ fetch' \in {[state |-> "read", read |-> server], [Idle EXCEPT !.state = "failed"]}
  /\ UNCHANGED <<control, server, displayed, click, raised>>

DeliverList ==
  /\ fetch.state = "read"
  /\ displayed' = fetch.read /\ fetch' = Idle
  /\ UNCHANGED <<control, server, click, raised>>

-----------------------------------------------------------------------------
(* The callbacks.                                                           *)

(* Faulty: only a success fetches again. *)
InvalidateOnSuccess(won) == IF won THEN Asked ELSE fetch
\* An invalidation starts the fetch anew, an older one's answer is dropped.
Invalidate(won) ==
  IF Act.settles = "always" \/ (Act.settles = "success" /\ won) THEN Asked ELSE fetch

Succeed(k) ==
  /\ k \in Clicked /\ click[k].state = "ok"
  /\ click' = [click EXCEPT ![k].state = "won", ![k].before = Idle.read]
  /\ raised' = Lower(k)
  /\ displayed' = IF Act.patches = "success"
              THEN [displayed EXCEPT ![click[k].subject] = click[k].value] ELSE displayed
  /\ fetch' = Invalidate(TRUE)
  /\ UNCHANGED <<control, server>>

\* An anticipated answer is taken back, with the whole list of that moment.
GiveUp(k) ==
  /\ k \in Clicked /\ click[k].state = "error"
  /\ click' = [click EXCEPT ![k].state = "lost", ![k].before = Idle.read]
  /\ raised' = Lower(k)
  /\ displayed' = IF Act.patches = "now" THEN click[k].before ELSE displayed
  /\ fetch' = Invalidate(FALSE)
  /\ UNCHANGED <<control, server>>

ControlNext ==
  \/ \E s \in Listed, v \in Value : Choose(s, v)
  \/ Refetch \/ ReadList \/ DeliverList
  \/ \E k \in Click : Apply(k) \/ Succeed(k) \/ GiveUp(k)

ControlSpec == ControlInit /\ [][ControlNext]_controlVars

-----------------------------------------------------------------------------
(* Properties.                                                              *)

\* A control that marks its pending calls marks those and no others: a click
\* on a busy row is refused, and no row stays busy when its call is over
\* (the loading maps, isPending with variables, invitingProjectId).
BusyIsTrue ==
  control \notin Mismarked /\ Act.marks # "none" =>
    \A s \in Listed, v \in Value :
      <<s, v>> \in Busy <=>
        \E k \in Awaited :
          \/ Act.marks = "all"
          \/ click[k].subject = s /\ (Act.marks = "choice" => click[k].value = v)

\* When nothing is under way the list shows what the server holds, whatever
\* was anticipated, taken back, refused, or failed after it took effect (the
\* invalidations of onSettled and onSuccess, and the rollbacks of onError).
ShownIsTruth ==
  /\ control \notin Unhealed /\ Act.settles # "nothing"
  /\ Awaited = {} /\ fetch.state = "idle"
  => displayed = server
=============================================================================
