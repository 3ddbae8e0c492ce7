----------------------------- MODULE PlanningWizard -----------------------------
(***************************************************************************)
(* The AI planning wizard of the board (useAIPlanning, AIPlanningModal):   *)
(* it turns a PRD or a roadmap file into tickets, in steps.  Its handlers  *)
(* set the step, await the server and set the step again, whatever the     *)
(* user did meanwhile; closing the wizard drops its state and leaves its   *)
(* handlers running.  The page keeps isGenerating and the architectures;   *)
(* leaving it drops those too, and the requests go on without it.          *)
(*                                                                         *)
(* The work weeks of a file are fixed, and the server cuts them into       *)
(* sprints of the lengths it is asked for, as far as the calendar allows.  *)
(* A roadmap has the lengths shown, those its tickets were distributed by  *)
(* (cut) and, for the properties, those last asked for; whole says that    *)
(* sprints and tickets come from the same file.                            *)
(***************************************************************************)
EXTENDS Naturals, Sequences
LOCAL INSTANCE Functions

CONSTANTS
  LastWeek, Gaps,      \* the work weeks of a file, and those a gap follows
  SprintWeeks,         \* the weeks of a sprint nothing was asked for
  MaxWeeks,            \* bound: weeks asked for
  Slot,                \* bound: handlers under way at once
  None

ASSUME WizardAssumption ==
  /\ LastWeek \in Nat \ {0} /\ MaxWeeks \in Nat \ {0}
  /\ Gaps \subseteq 1..LastWeek /\ SprintWeeks \in 1..MaxWeeks
  /\ Slot # {}

VARIABLES
  open,            \* the wizard is on the screen
  step, mode,      \* aiStep, uploadMode
  selected,        \* selectedArchitectureId is set
  roadmap,         \* roadmapParsedData
  generating,      \* isGenerating of the page
  architectures,   \* the page has architectures to show
  probe,           \* what the query for an existing analysis answered
  analysed,        \* the server has an analysis of the project
  handler,         \* the handlers awaiting an answer
  timer,           \* a done wizard is about to call onClose
  overlapped,      \* a handler was started while a preview was awaited
  adrift           \* an edit of the sprints failed or hit another file's

vars == <<open, step, mode, selected, roadmap, generating, architectures, probe,
          analysed, handler, timer, overlapped, adrift>>
local == <<step, mode, selected, roadmap, adrift>>
server == <<analysed, probe>>

Answers == {"ok", "empty", "error"}
Kind == {"analyze", "parse", "preview", "commitPRD", "commitRoadmap", "rebalance"}
Lengths == UNION {[1..n -> 1..MaxWeeks] : n \in 1..LastWeek}
Roadmap == [lengths : Lengths, cut : Lengths, wanted : Lengths \cup {<<>>},
            whole : BOOLEAN]
\* here: of the page on the screen; mine: of the wizard on it; latest: no newer
\* edit; current: of the file on the screen; sent: the lengths asked for.
Handler == [kind : Kind, here : BOOLEAN, mine : BOOLEAN, latest : BOOLEAN,
            current : BOOLEAN, sent : Lengths \cup {None},
            state : {"sent", "checked"} \cup Answers]

ASSUME NoneAssumption == None \notin Handler /\ None \notin Roadmap

\* The handlers of the page on the screen.
Awaits(s, kinds) == handler[s] # None /\ handler[s].here /\ handler[s].kind \in kinds
Awaiting(kinds) == {s \in Slot : Awaits(s, kinds)}

\* The server's cut of the weeks (_chunk_weeks): each sprint runs as long as it
\* was asked to, unless a gap or the last week closes it; sprints that nothing
\* was asked of have the default length, and together they cover the weeks.
Asked(durations, i) == IF i \in DOMAIN durations THEN durations[i] ELSE SprintWeeks
EndOf(lengths, i) == SumFunctionOnSet(lengths, 1..i)
Chunked(durations, lengths) ==
  /\ EndOf(lengths, Len(lengths)) = LastWeek
  /\ \A i \in DOMAIN lengths :
       /\ lengths[i] <= Asked(durations, i)
       /\ (EndOf(lengths, i - 1) + 1 .. EndOf(lengths, i) - 1) \cap Gaps = {}
       /\ \/ lengths[i] = Asked(durations, i)
          \/ EndOf(lengths, i) \in Gaps \cup {LastWeek}

Cuts == [durations \in Lengths \cup {<<>>} |->
           {lengths \in Lengths : Chunked(durations, lengths)}]

\* The server's sprints for the lengths asked for, each with its tickets.
Sprints(durations, lengths, whole) ==
  [lengths |-> lengths, cut |-> lengths, wanted |-> durations, whole |-> whole]

TypeOK ==
  /\ open \in BOOLEAN /\ selected \in BOOLEAN
  /\ step \in {"upload", "analyzing", "architectures", "preview", "committing", "done"}
  /\ mode \in {"prd", "roadmap"}
  /\ roadmap \in Roadmap \cup {None}
  /\ generating \in BOOLEAN /\ architectures \in BOOLEAN
  /\ probe \in BOOLEAN /\ analysed \in BOOLEAN
  /\ handler \in [Slot -> Handler \cup {None}]
  /\ timer \in BOOLEAN /\ overlapped \in BOOLEAN /\ adrift \in BOOLEAN
  /\ roadmap = None => ~adrift

NewWizard ==
  /\ step' = "upload" /\ mode' = "prd" /\ selected' = FALSE
  /\ roadmap' = None /\ adrift' = FALSE

Init ==
  /\ open = FALSE /\ step = "upload" /\ mode = "prd" /\ selected = FALSE
  /\ roadmap = None /\ adrift = FALSE
  /\ generating = FALSE /\ architectures = FALSE
  /\ probe = FALSE /\ analysed \in BOOLEAN
  /\ handler = [s \in Slot |-> None]
  /\ timer = FALSE /\ overlapped = FALSE

-----------------------------------------------------------------------------
(* Opening, closing, walking back.                                          *)

(* Faulty: the page's button stays enabled. *)
OpenWhileGenerating ==
  /\ ~open /\ open' = TRUE
  /\ NewWizard
  /\ architectures' = FALSE
  /\ probe' \in {probe, analysed}
  /\ UNCHANGED <<generating, analysed, handler, timer, overlapped>>
\* handleAIGenerate; the button is disabled while isGenerating.  The query for
\* an existing analysis asks the server, or shows its answer of before.
OpenWizard ==
  /\ ~open /\ ~generating /\ open' = TRUE
  /\ NewWizard
  /\ architectures' = FALSE
  /\ probe' \in {probe, analysed}
  /\ UNCHANGED <<generating, analysed, handler, timer, overlapped>>

\* What a handler may still do when its wizard is gone, and the page is not
\* (stays): nothing to the state of the wizard, so the edits of its sprints are
\* not followed.
Orphaned(stays) ==
  [s \in Slot |->
     IF handler[s] = None \/ Awaits(s, {"rebalance"}) THEN None
     ELSE [handler[s] EXCEPT !.mine = FALSE, !.here = stays /\ @]]

Closed(stays) == open' = FALSE /\ handler' = Orphaned(stays) /\ NewWizard

\* The X at any step, Cancel, "Save & close".
CloseWizard ==
  /\ open /\ Closed(TRUE)
  /\ UNCHANGED <<generating, architectures, server, timer, overlapped>>

\* To another page and back to a board that is mounted anew: isGenerating and
\* the architectures are lost with the wizard.  What was asked of the server it
\* still does, while the handlers and the timeout speak to a page that is gone.
LeavePage ==
  /\ Closed(FALSE)
  /\ generating' = FALSE /\ architectures' = FALSE
  /\ timer' = FALSE /\ overlapped' = FALSE
  /\ UNCHANGED server

\* The timeout of a wizard that is done closes the one that is open.
TimerFires ==
  /\ timer /\ timer' = FALSE
  /\ IF open THEN Closed(TRUE) ELSE UNCHANGED <<open, handler, local>>
  /\ UNCHANGED <<generating, architectures, server, overlapped>>

Back ==
  /\ open
  /\ \/ step = "architectures" /\ step' = "upload"
     \/ step = "preview" /\ step' = "architectures"
  /\ UNCHANGED <<open, mode, selected, roadmap, adrift, generating, architectures,
                 server, handler, timer, overlapped>>

SwitchMode ==
  /\ open /\ step = "upload"
  /\ mode' = IF mode = "prd" THEN "roadmap" ELSE "prd"
  /\ UNCHANGED <<open, step, selected, roadmap, adrift, generating, architectures,
                 server, handler, timer, overlapped>>

\* handleSelectArchitecture; a parsed roadmap hides the cards.
SelectArchitecture ==
  /\ open /\ step = "architectures" /\ roadmap = None /\ architectures
  /\ ~selected /\ selected' = TRUE
  /\ UNCHANGED <<open, step, mode, roadmap, adrift, generating, architectures,
                 server, handler, timer, overlapped>>

\* "Create Tickets from Roadmap" at the summary: only the step changes.
ToPreview ==
  /\ open /\ step = "architectures" /\ mode = "roadmap"
  /\ step' = "preview"
  /\ UNCHANGED <<open, mode, selected, roadmap, adrift, generating, architectures,
                 server, handler, timer, overlapped>>

-----------------------------------------------------------------------------
(* Handlers, up to their await.                                             *)

Starts(s, kind) ==
  /\ handler[s] = None
  /\ s = CHOOSE t \in Slot : handler[t] = None    \* free slots are alike
  /\ handler' = [handler EXCEPT ![s] =
       [kind |-> kind, here |-> TRUE, mine |-> TRUE, latest |-> TRUE,
        current |-> TRUE, sent |-> None, state |-> "sent"]]

\* setAiStep and setIsGenerating, then the request.
Begins(s, kind, next) ==
  /\ open /\ Starts(s, kind)
  /\ step' = next /\ generating' = TRUE
  /\ overlapped' = (overlapped \/ Awaiting({"preview"}) # {})
  /\ UNCHANGED <<open, mode, selected, roadmap, adrift, architectures, server, timer>>

AnalyzePRD(s) ==
  step = "upload" /\ mode = "prd" /\ ~probe /\ Begins(s, "analyze", "analyzing")

ParseRoadmap(s) ==
  step = "upload" /\ mode = "roadmap" /\ Begins(s, "parse", "analyzing")

PreviewTickets(s) ==
  /\ step = "architectures" /\ mode = "prd" /\ selected
  /\ Begins(s, "preview", "preview")

CommitArchitecture(s) ==
  /\ step = "preview" /\ mode = "prd" /\ selected
  /\ Begins(s, "commitPRD", "committing")

CommitRoadmap(s) ==
  /\ step = "preview" /\ mode = "roadmap" /\ roadmap # None
  /\ Begins(s, "commitRoadmap", "committing")

\* The two buttons of a sprint; the first is disabled at one week.
Weeks(i) == {roadmap.lengths[i] - 1, roadmap.lengths[i] + 1} \ {0}

\* One more or one less week: shown at once, then the server cuts the weeks of
\* the sprints shown again and distributes the tickets.  A newer edit
\* supersedes the older ones (rebalanceReqId).
SetSprintDuration(s) ==
  /\ open /\ step = "architectures" /\ roadmap # None
  /\ \E i \in DOMAIN roadmap.lengths : \E weeks \in Weeks(i) :
       LET lengths == [roadmap.lengths EXCEPT ![i] = weeks] IN
         /\ weeks <= MaxWeeks
         /\ roadmap' = [roadmap EXCEPT !.lengths = lengths, !.wanted = lengths]
         /\ handler[s] = None
         /\ s = CHOOSE t \in Slot : handler[t] = None
         /\ handler' = [t \in Slot |->
              IF t = s THEN [kind |-> "rebalance", here |-> TRUE, mine |-> TRUE,
                             latest |-> TRUE, current |-> roadmap.whole,
                             sent |-> lengths, state |-> "sent"]
              ELSE IF Awaits(t, {"rebalance"}) THEN [handler[t] EXCEPT !.latest = FALSE]
              ELSE handler[t]]
  /\ UNCHANGED <<open, step, mode, selected, adrift, generating, architectures,
                 server, timer, overlapped>>

-----------------------------------------------------------------------------
(* Answers.                                                                 *)

\* A project that has an analysis is refused another (409); two that were both
\* let in are both made.
CheckAnalysis(s) ==
  /\ handler[s] # None /\ handler[s].kind = "analyze" /\ handler[s].state = "sent"
  /\ handler' = [handler EXCEPT ![s].state = IF analysed THEN "error" ELSE "checked"]
  /\ UNCHANGED analysed

Answer(s) ==
  /\ handler[s] # None
  /\ handler[s].state = IF handler[s].kind = "analyze" THEN "checked" ELSE "sent"
  /\ \E answer \in Answers :
       /\ answer = "empty" => handler[s].kind = "commitPRD"
       /\ handler' = [handler EXCEPT ![s].state = answer]
       /\ analysed' \in {analysed, analysed \/ handler[s].kind = "analyze"}
       /\ handler[s].kind = "analyze" /\ answer = "ok" => analysed'

Serve(s) ==
  /\ CheckAnalysis(s) \/ Answer(s)
  /\ UNCHANGED <<open, local, generating, architectures, probe, timer, overlapped>>

Answered(s, kinds, state) == Awaits(s, kinds) /\ handler[s].state = state

\* The finally of a handler lowers the flag of the page; the steps it sets
\* are its own wizard's.
Overlapped(s) == overlapped /\ Awaiting(Kind) \ {s} # {}
Lowers(s) ==
  /\ generating' = FALSE /\ overlapped' = Overlapped(s)
  /\ UNCHANGED <<open, mode, selected, server>>
Ends(s) == handler' = [handler EXCEPT ![s] = None] /\ Lowers(s)

MyStep(s, next) == step' = IF handler[s].mine THEN next ELSE step

(* Faulty: a failure leaves the step. *)
EndAnalyzeStuck(s) ==
  /\ \/ /\ Answered(s, {"analyze"}, "ok") /\ MyStep(s, "architectures")
        /\ architectures' = TRUE
     \/ Answered(s, {"analyze"}, "error") /\ UNCHANGED <<step, architectures>>
  /\ Ends(s)
  /\ UNCHANGED <<roadmap, adrift, timer>>
EndAnalyze(s) ==
  /\ \/ /\ Answered(s, {"analyze"}, "ok") /\ MyStep(s, "architectures")
        /\ architectures' = TRUE
     \/ /\ Answered(s, {"analyze"}, "error") /\ MyStep(s, "upload")
        /\ UNCHANGED architectures
  /\ Ends(s)
  /\ UNCHANGED <<roadmap, adrift, timer>>

\* A parsed file replaces the roadmap; edits of the one before are not called
\* off.
EndParse(s) ==
  /\ \/ /\ Answered(s, {"parse"}, "ok") /\ MyStep(s, "architectures")
        /\ IF handler[s].mine
           THEN /\ \E lengths \in Cuts[<<>>] : roadmap' = Sprints(<<>>, lengths, TRUE)
                /\ adrift' = FALSE
           ELSE UNCHANGED <<roadmap, adrift>>
        /\ handler' = [t \in Slot |->
             IF t = s THEN None
             ELSE IF handler[s].mine /\ Awaits(t, {"rebalance"})
             THEN [handler[t] EXCEPT !.current = FALSE] ELSE handler[t]]
     \/ /\ Answered(s, {"parse"}, "error") /\ MyStep(s, "upload")
        /\ handler' = [handler EXCEPT ![s] = None]
        /\ UNCHANGED <<roadmap, adrift>>
  /\ Lowers(s)
  /\ UNCHANGED <<architectures, timer>>

EndPreview(s) ==
  /\ \/ Answered(s, {"preview"}, "ok") /\ UNCHANGED step
     \/ Answered(s, {"preview"}, "error") /\ MyStep(s, "architectures")
  /\ Ends(s)
  /\ UNCHANGED <<roadmap, adrift, architectures, timer>>

Commits == {"commitPRD", "commitRoadmap"}

(* Faulty: a commit that failed is sent again. *)
EndCommitRetries(s) ==
  /\ \/ /\ Answered(s, Commits, "ok") /\ MyStep(s, "done") /\ timer' = TRUE
        /\ Ends(s)
     \/ /\ Answered(s, Commits, "empty") \/ Answered(s, Commits, "error")
        /\ handler' = [handler EXCEPT ![s].state = "sent"]
        /\ UNCHANGED <<open, step, mode, selected, server, generating, timer, overlapped>>
  /\ UNCHANGED <<roadmap, adrift, architectures>>
EndCommit(s) ==
  /\ \/ Answered(s, Commits, "ok") /\ MyStep(s, "done") /\ timer' = TRUE
     \/ /\ Answered(s, Commits, "empty") \/ Answered(s, Commits, "error")
        /\ MyStep(s, "preview") /\ UNCHANGED timer
  /\ Ends(s)
  /\ UNCHANGED <<roadmap, adrift, architectures>>

(* Faulty: the answer of an older edit counts too. *)
AnyAnswer(s) == handler[s].state = "ok"
\* Whether an answered edit counts: no newer one was made.
Counts(s) == handler[s].latest

\* The newest edit's answer replaces the sprints, their number and lengths
\* included, whichever file they are of; an error leaves the lengths that were
\* shown at once.
EndRebalance(s) ==
  LET now == handler[s] IN
    /\ Awaits(s, {"rebalance"}) /\ now.state \in Answers
    /\ IF now.state = "ok" /\ Counts(s)
       THEN /\ \E lengths \in Cuts[now.sent] :
                 roadmap' = [Sprints(now.sent, lengths, now.current)
                               EXCEPT !.wanted = roadmap.wanted]
            /\ adrift' = ~now.current
       ELSE /\ adrift' = (adrift \/ (now.state = "error" /\ now.latest))
            /\ UNCHANGED roadmap
    /\ handler' = [handler EXCEPT ![s] = None]
    /\ overlapped' = Overlapped(s)
    /\ UNCHANGED <<open, step, mode, selected, generating, architectures, server, timer>>

\* The handler of a page that was left ends unheard.
EndUnheard(s) ==
  /\ handler[s] # None /\ ~handler[s].here /\ handler[s].state \in Answers
  /\ handler' = [handler EXCEPT ![s] = None]
  /\ UNCHANGED <<open, local, generating, architectures, server, timer, overlapped>>

Settle(s) ==
  \/ EndAnalyze(s) \/ EndParse(s) \/ EndPreview(s) \/ EndCommit(s)
  \/ EndRebalance(s) \/ EndUnheard(s)

Next ==
  \/ OpenWizard \/ CloseWizard \/ LeavePage \/ TimerFires
  \/ Back \/ SwitchMode \/ SelectArchitecture \/ ToPreview
  \/ \E s \in Slot :
       \/ AnalyzePRD(s) \/ ParseRoadmap(s) \/ PreviewTickets(s)
       \/ CommitArchitecture(s) \/ CommitRoadmap(s) \/ SetSprintDuration(s)
       \/ Serve(s) \/ Settle(s)

Spec == Init /\ [][Next]_vars

\* Requests are answered and handlers resumed.
FairSpec ==
  Spec /\ \A s \in Slot : WF_handler(handler[s] # None /\ (Serve(s) \/ Settle(s)))

-----------------------------------------------------------------------------
(* Properties.                                                              *)

\* A step without buttons has a handler of this wizard under way that will
\* leave it: the user is never left before a spinner (the setAiStep calls on
\* every path of the handlers).
SpinnerHasHandler ==
  /\ step = "analyzing" => \E s \in Awaiting({"analyze", "parse"}) : handler[s].mine
  /\ step = "committing" => \E s \in Awaiting(Commits) : handler[s].mine

\* Once the newest edit of the sprints is answered, the sprints shown are the
\* server's cut of the weeks for the lengths last asked for, and the tickets
\* were distributed by it, however the answers overtook one another ("preview
\* and commit can't drift"); left out is what a failed edit and an answer for
\* the file before leave behind.
SprintsMatchTickets ==
  roadmap # None /\ ~adrift /\ (\A s \in Awaiting({"rebalance"}) : ~handler[s].latest)
    => /\ roadmap.lengths \in Cuts[roadmap.wanted]
       /\ roadmap.lengths = roadmap.cut /\ roadmap.whole

\* A page commits once at a time: the step, its missing buttons and the
\* disabled button keep the user from creating the tickets again, unless he
\* went on while a preview was awaited.  He may leave the page under a commit,
\* return and start another: of that one the new page knows nothing.
OneCommitAtATime ==
  ~overlapped => \A s, t \in Awaiting(Commits) : s = t

\* The page's button comes back: every flag raised is lowered, whatever the
\* answer and wherever the wizard is by then (the finally blocks).
GeneratingEnds == generating ~> ~generating
=============================================================================
