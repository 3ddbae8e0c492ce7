-------------------------- MODULE PlanningWizardProofs --------------------------
(***************************************************************************)
(* The safety properties of PlanningWizard, for any calendar, any lengths  *)
(* of sprints and any number of handlers at once.                          *)
(***************************************************************************)
EXTENDS PlanningWizard, TLAPS

-----------------------------------------------------------------------------
(* The inductive invariants.                                                *)

\* Every handler but the edits of the sprints raises and lowers isGenerating.
Asking == Awaiting(Kind \ {"rebalance"})

\* The step a handler of this wizard has left on the screen.
Spins(s) ==
  /\ handler[s].kind \in {"analyze", "parse"} => step = "analyzing"
  /\ handler[s].kind \in Commits => step = "committing"

\* Unless something was started under a preview, there is one such handler,
\* the page's button is disabled for it, and it is this wizard's or none is
\* open.
OneAsks ==
  ~overlapped =>
    /\ \A s, t \in Asking : s = t
    /\ \A s \in Asking :
         /\ generating
         /\ handler[s].mine \/ ~open
         /\ handler[s].mine => Spins(s)

Edits == Awaiting({"rebalance"})
Newest == {s \in Edits : handler[s].latest}

\* One edit is the newest, and it asks for the lengths the user wants; edits
\* need a roadmap and go with their wizard.
EditsFit ==
  /\ \A s, t \in Newest : s = t
  /\ Edits # {} => open /\ roadmap # None
  /\ \A s \in Edits :
       /\ handler[s].sent \in Lengths /\ handler[s].state \in {"sent", "ok", "error"}
       /\ handler[s].latest /\ handler[s].current =>
            roadmap.whole /\ handler[s].sent = roadmap.wanted

\* What an answered edit, a failed one and an answer for another file leave.
RoadmapFits ==
  roadmap # None =>
    /\ ~adrift => roadmap.whole
    /\ ~adrift /\ Newest = {} =>
         /\ roadmap.lengths \in Cuts[roadmap.wanted]
         /\ roadmap.lengths = roadmap.cut

IInv == TypeOK /\ SpinnerHasHandler /\ OneAsks /\ EditsFit /\ RoadmapFits

-----------------------------------------------------------------------------
(* Types.                                                                   *)

\* A handler that awaits is a record; None is not one.
LEMMA HandlerType ==
  ASSUME TypeOK, NEW s \in Slot, handler[s] # None
  PROVE  /\ handler[s] \in Handler
         /\ handler[s].kind \in Kind /\ handler[s].mine \in BOOLEAN
         /\ handler[s].here \in BOOLEAN
         /\ handler[s].latest \in BOOLEAN /\ handler[s].current \in BOOLEAN
         /\ handler[s].sent \in Lengths \cup {None}
         /\ handler[s].state \in {"sent", "checked"} \cup Answers
BY DEF TypeOK, Handler

\* The buttons of a sprint keep its lengths.
LEMMA LengthsType ==
  ASSUME NEW lengths \in Lengths, NEW i \in DOMAIN lengths,
         NEW weeks \in Nat \ {0}, weeks <= MaxWeeks
  PROVE  [lengths EXCEPT ![i] = weeks] \in Lengths
<1>1. PICK n \in 1..LastWeek : lengths \in [1..n -> 1..MaxWeeks]
  BY DEF Lengths
<1>2. [lengths EXCEPT ![i] = weeks] \in [1..n -> 1..MaxWeeks]
  BY <1>1, WizardAssumption
<1>. QED
  BY <1>1, <1>2 DEF Lengths

\* The server's cut is one of lengths, for whatever was asked.
LEMMA CutsType ==
  ASSUME NEW durations \in Lengths \cup {<<>>} PROVE Cuts[durations] \subseteq Lengths
BY DEF Cuts

\* So are the sprints it answers with.
LEMMA SprintsType ==
  ASSUME NEW durations \in Lengths \cup {<<>>}, NEW lengths \in Lengths,
         NEW whole \in BOOLEAN
  PROVE  Sprints(durations, lengths, whole) \in Roadmap
BY DEF Sprints, Roadmap

\* A button of a sprint asks for a whole number of weeks.
LEMMA WeeksType ==
  ASSUME roadmap \in Roadmap, NEW i \in DOMAIN roadmap.lengths, NEW weeks \in Weeks(i)
  PROVE  weeks \in Nat \ {0}
<1>1. PICK n \in 1..LastWeek : roadmap.lengths \in [1..n -> 1..MaxWeeks]
  BY DEF Roadmap, Lengths
<1>2. roadmap.lengths[i] \in 1..MaxWeeks
  BY <1>1
<1>. QED
  BY <1>2, WizardAssumption DEF Weeks

\* The types hold at first.
LEMMA InitTypes == Init => TypeOK
BY DEF Init, TypeOK

\* A handler that starts is one.
LEMMA StartsType ==
  ASSUME TypeOK, NEW s \in Slot, NEW kind \in Kind, Starts(s, kind)
  PROVE  handler' \in [Slot -> Handler \cup {None}]
BY DEF TypeOK, Starts, Handler

\* So is one whose wizard is gone.
LEMMA OrphanedType ==
  ASSUME TypeOK, NEW stays \in BOOLEAN
  PROVE  Orphaned(stays) \in [Slot -> Handler \cup {None}]
<1>1. ASSUME NEW s \in Slot, handler[s] # None
      PROVE  [handler[s] EXCEPT !.mine = FALSE, !.here = stays /\ @] \in Handler
  BY <1>1, HandlerType DEF Handler
<1>. QED
  BY <1>1 DEF Orphaned

\* Every step keeps the types; the answer of an edit needs the roadmap and the
\* lengths the edit was made with.
LEMMA TypesKept == ASSUME TypeOK, EditsFit, [Next]_vars PROVE TypeOK'
<1>1. CASE OpenWizard
  BY <1>1 DEF TypeOK, OpenWizard, NewWizard
<1>2. CASE CloseWizard
  BY <1>2, OrphanedType DEF TypeOK, CloseWizard, Closed, NewWizard, server
<1>3. CASE TimerFires
  BY <1>3, OrphanedType DEF TypeOK, TimerFires, Closed, NewWizard, server, local
<1>13. CASE LeavePage
  BY <1>13, OrphanedType DEF TypeOK, LeavePage, Closed, NewWizard, server
<1>14. ASSUME NEW s \in Slot, EndUnheard(s) PROVE TypeOK'
  BY <1>14 DEF TypeOK, EndUnheard, local, server
<1>4. CASE Back \/ SwitchMode \/ SelectArchitecture \/ ToPreview
  <2>1. /\ step' \in {"upload", "analyzing", "architectures", "preview", "committing", "done"}
        /\ mode' \in {"prd", "roadmap"} /\ selected' \in BOOLEAN
    BY <1>4 DEF TypeOK, Back, SwitchMode, SelectArchitecture, ToPreview
  <2>2. UNCHANGED <<open, roadmap, adrift, generating, architectures, server, handler,
                    timer, overlapped>>
    BY <1>4 DEF Back, SwitchMode, SelectArchitecture, ToPreview
  <2>. QED
    BY <2>1, <2>2 DEF TypeOK, server
<1>5. ASSUME NEW s \in Slot, NEW kind \in Kind,
             NEW next \in {"analyzing", "preview", "committing"}, Begins(s, kind, next)
      PROVE  TypeOK'
  <2>1. Starts(s, kind)
    BY <1>5 DEF Begins
  <2>2. handler' \in [Slot -> Handler \cup {None}]
    BY <2>1, StartsType
  <2>3. overlapped' \in BOOLEAN
    BY <1>5 DEF Begins, TypeOK
  <2>. QED
    BY <1>5, <2>2, <2>3 DEF TypeOK, Begins, server
<1>6. ASSUME NEW s \in Slot, AnalyzePRD(s) \/ ParseRoadmap(s) \/ PreviewTickets(s)
                             \/ CommitArchitecture(s) \/ CommitRoadmap(s)
      PROVE  TypeOK'
  BY <1>5, <1>6 DEF AnalyzePRD, ParseRoadmap, PreviewTickets, CommitArchitecture,
                    CommitRoadmap, Kind
<1>7. ASSUME NEW s \in Slot, SetSprintDuration(s) PROVE TypeOK'
  <2>1. PICK i \in DOMAIN roadmap.lengths : \E weeks \in Weeks(i) :
          LET lengths == [roadmap.lengths EXCEPT ![i] = weeks] IN
            /\ weeks <= MaxWeeks
            /\ roadmap' = [roadmap EXCEPT !.lengths = lengths, !.wanted = lengths]
            /\ handler[s] = None
            /\ handler' = [t \in Slot |->
                 IF t = s THEN [kind |-> "rebalance", here |-> TRUE, mine |-> TRUE, latest |-> TRUE,
                                current |-> roadmap.whole, sent |-> lengths, state |-> "sent"]
                 ELSE IF Awaits(t, {"rebalance"}) THEN [handler[t] EXCEPT !.latest = FALSE]
                 ELSE handler[t]]
    BY <1>7 DEF SetSprintDuration
  <2>2. PICK weeks \in Weeks(i) :
          LET lengths == [roadmap.lengths EXCEPT ![i] = weeks] IN
            /\ weeks <= MaxWeeks
            /\ roadmap' = [roadmap EXCEPT !.lengths = lengths, !.wanted = lengths]
            /\ handler[s] = None
            /\ handler' = [t \in Slot |->
                 IF t = s THEN [kind |-> "rebalance", here |-> TRUE, mine |-> TRUE, latest |-> TRUE,
                                current |-> roadmap.whole, sent |-> lengths, state |-> "sent"]
                 ELSE IF Awaits(t, {"rebalance"}) THEN [handler[t] EXCEPT !.latest = FALSE]
                 ELSE handler[t]]
    BY <2>1
  <2>3. roadmap \in Roadmap
    BY <1>7 DEF SetSprintDuration, TypeOK
  <2>4. roadmap.lengths \in Lengths /\ roadmap.whole \in BOOLEAN
    BY <2>3 DEF Roadmap
  <2>5. weeks \in Nat \ {0}
    BY <2>3, WeeksType
  <2>6. [roadmap.lengths EXCEPT ![i] = weeks] \in Lengths
    BY <2>2, <2>4, <2>5, LengthsType
  <2>7. roadmap' \in Roadmap
    BY <2>2, <2>3, <2>6 DEF Roadmap
  <2>8. ASSUME NEW t \in Slot, handler[t] # None
        PROVE  [handler[t] EXCEPT !.latest = FALSE] \in Handler
    BY <2>8, HandlerType DEF Handler
  <2>9. [kind |-> "rebalance", here |-> TRUE, mine |-> TRUE, latest |-> TRUE, current |-> roadmap.whole,
         sent |-> [roadmap.lengths EXCEPT ![i] = weeks], state |-> "sent"] \in Handler
    BY <2>4, <2>6 DEF Handler, Kind
  <2>10. handler' \in [Slot -> Handler \cup {None}]
    BY <2>2, <2>8, <2>9 DEF Awaiting, Awaits, TypeOK
  <2>. QED
    BY <1>7, <2>7, <2>10, NoneAssumption DEF TypeOK, SetSprintDuration, server
<1>8. ASSUME NEW s \in Slot, Serve(s) PROVE TypeOK'
  <2>1. handler' \in [Slot -> Handler \cup {None}]
    BY <1>8, HandlerType DEF Serve, CheckAnalysis, Answer, Answers, TypeOK, Handler
  <2>2. analysed' \in BOOLEAN
    BY <1>8 DEF Serve, CheckAnalysis, Answer, TypeOK
  <2>. QED
    BY <1>8, <2>1, <2>2 DEF TypeOK, Serve, local
<1>9. ASSUME NEW s \in Slot PROVE Overlapped(s) \in BOOLEAN
  BY DEF Overlapped
<1>10. ASSUME NEW s \in Slot, EndAnalyze(s) \/ EndPreview(s) \/ EndCommit(s)
       PROVE  TypeOK'
  <2>1. handler' \in [Slot -> Handler \cup {None}]
    BY <1>10 DEF EndAnalyze, EndPreview, EndCommit, Ends, TypeOK
  <2>2. step' \in {"upload", "analyzing", "architectures", "preview", "committing", "done"}
    BY <1>10 DEF EndAnalyze, EndPreview, EndCommit, MyStep, TypeOK
  <2>3. /\ timer' \in BOOLEAN /\ architectures' \in BOOLEAN
        /\ UNCHANGED <<roadmap, adrift>>
    BY <1>10 DEF EndAnalyze, EndPreview, EndCommit, TypeOK
  <2>4. Lowers(s)
    BY <1>10 DEF EndAnalyze, EndPreview, EndCommit, Ends
  <2>. QED
    BY <1>9, <2>1, <2>2, <2>3, <2>4 DEF Lowers, server, TypeOK
<1>11. ASSUME NEW s \in Slot, EndParse(s) PROVE TypeOK'
  <2>1. ASSUME NEW t \in Slot, handler[t] # None
        PROVE  [handler[t] EXCEPT !.current = FALSE] \in Handler
    BY <2>1, HandlerType DEF Handler
  <2>2. handler' \in [Slot -> Handler \cup {None}]
    BY <1>11, <2>1 DEF EndParse, TypeOK, Awaiting, Awaits
  <2>3. step' \in {"upload", "analyzing", "architectures", "preview", "committing", "done"}
    BY <1>11 DEF EndParse, MyStep, TypeOK
  <2>4. \/ /\ \E lengths \in Cuts[<<>>] : roadmap' = Sprints(<<>>, lengths, TRUE)
           /\ adrift' = FALSE
        \/ UNCHANGED <<roadmap, adrift>>
    BY <1>11 DEF EndParse
  <2>5. /\ roadmap' \in Roadmap \cup {None} /\ adrift' \in BOOLEAN
        /\ roadmap' = None => ~adrift'
    <3>1. ASSUME NEW lengths \in Cuts[<<>>], roadmap' = Sprints(<<>>, lengths, TRUE),
                 adrift' = FALSE
          PROVE  roadmap' \in Roadmap /\ roadmap' # None
      BY <3>1, CutsType, SprintsType, NoneAssumption
    <3>2. CASE UNCHANGED <<roadmap, adrift>>
      BY <3>2 DEF TypeOK
    <3>. QED
      BY <2>4, <3>1, <3>2
  <2>. QED
    BY <1>9, <1>11, <2>2, <2>3, <2>5 DEF EndParse, Lowers, server, TypeOK
<1>12. ASSUME NEW s \in Slot, EndRebalance(s) PROVE TypeOK'
  <2>1. handler[s] # None /\ s \in Edits
    BY <1>12 DEF EndRebalance, Edits, Awaiting, Awaits
  <2>2. /\ roadmap \in Roadmap /\ roadmap # None /\ handler[s].sent \in Lengths
        /\ handler[s].current \in BOOLEAN
    BY <1>12, <2>1, HandlerType DEF EditsFit, TypeOK
  <2>3. roadmap' \in Roadmap /\ adrift' \in BOOLEAN
    <3>1. ASSUME NEW lengths \in Cuts[handler[s].sent],
                 roadmap' = [Sprints(handler[s].sent, lengths, handler[s].current)
                               EXCEPT !.wanted = roadmap.wanted]
          PROVE  roadmap' \in Roadmap
      <4>1. Sprints(handler[s].sent, lengths, handler[s].current) \in Roadmap
        BY <2>2, CutsType, SprintsType
      <4>. QED
        BY <2>2, <3>1, <4>1 DEF Roadmap
    <3>. QED
      BY <1>12, <2>2, <3>1 DEF EndRebalance, TypeOK
  <2>4. handler' \in [Slot -> Handler \cup {None}]
    BY <1>12 DEF EndRebalance, TypeOK
  <2>. QED
    BY <1>9, <1>12, <2>3, <2>4, NoneAssumption DEF EndRebalance, server, TypeOK
<1>. QED
  BY <1>1, <1>2, <1>3, <1>4, <1>6, <1>7, <1>8, <1>10, <1>11, <1>12, <1>13, <1>14
  DEF Next, Settle, vars, TypeOK

-----------------------------------------------------------------------------
(* The spinner.                                                             *)

\* The handlers that leave a step without buttons.
Spinning == Awaiting({"analyze", "parse"} \cup Commits)

\* Whatever leaves such a step alone, or leaves it, and ends none of this
\* wizard's handlers that should leave it, keeps the promise.
LEMMA SpinnerFrame ==
  ASSUME SpinnerHasHandler,
         step' \in {"analyzing", "committing"} =>
           /\ step' = step
           /\ \A t \in Spinning : handler[t].mine =>
                /\ handler'[t] # None /\ handler'[t].kind = handler[t].kind
                /\ handler'[t].here /\ handler'[t].mine
  PROVE  SpinnerHasHandler'
BY DEF SpinnerHasHandler, Spinning, Awaiting, Awaits, Commits

\* Every step keeps the promise of the spinner.
LEMMA SpinnerKept ==
  ASSUME TypeOK, SpinnerHasHandler, [Next]_vars PROVE SpinnerHasHandler'
<1>1. CASE OpenWizard \/ CloseWizard \/ LeavePage
  BY <1>1 DEF OpenWizard, CloseWizard, LeavePage, Closed, NewWizard, SpinnerHasHandler
<1>2. CASE TimerFires
  <2>1. step' = "upload" \/ UNCHANGED <<step, handler>>
    BY <1>2 DEF TimerFires, Closed, NewWizard, local
  <2>. QED
    BY <2>1, SpinnerFrame DEF Spinning, Awaiting, Awaits
<1>3. CASE Back \/ SwitchMode \/ SelectArchitecture \/ ToPreview
  <2>1. handler' = handler /\ (step' = step \/ step' \notin {"analyzing", "committing"})
    BY <1>3 DEF Back, SwitchMode, SelectArchitecture, ToPreview
  <2>. QED
    BY <2>1, SpinnerFrame DEF Spinning, Awaiting, Awaits
<1>4. ASSUME NEW s \in Slot, NEW kind, NEW next, Begins(s, kind, next),
             next = "analyzing" => kind \in {"analyze", "parse"},
             next = "committing" => kind \in Commits
      PROVE  SpinnerHasHandler'
  <2>1. handler' = [handler EXCEPT ![s] =
          [kind |-> kind, here |-> TRUE, mine |-> TRUE, latest |-> TRUE, current |-> TRUE,
           sent |-> None, state |-> "sent"]]
    BY <1>4 DEF Begins, Starts
  <2>2. /\ handler'[s].kind = kind /\ handler'[s].here /\ handler'[s].mine
        /\ step' = next
    BY <1>4, <2>1 DEF TypeOK, Begins
  <2>3. handler'[s] \in Handler \/ kind \notin Kind
    BY <2>1 DEF Handler, TypeOK
  <2>4. handler'[s] # None \/ kind \notin Kind
    BY <2>3, NoneAssumption
  <2>. QED
    BY <1>4, <2>2, <2>4 DEF SpinnerHasHandler, Awaiting, Awaits, Commits, Kind
<1>5. ASSUME NEW s \in Slot, AnalyzePRD(s) \/ ParseRoadmap(s) \/ PreviewTickets(s)
                             \/ CommitArchitecture(s) \/ CommitRoadmap(s)
      PROVE  SpinnerHasHandler'
  BY <1>4, <1>5 DEF AnalyzePRD, ParseRoadmap, PreviewTickets, CommitArchitecture,
                    CommitRoadmap, Commits
<1>6. ASSUME NEW s \in Slot, SetSprintDuration(s) PROVE SpinnerHasHandler'
  BY <1>6 DEF SetSprintDuration, SpinnerHasHandler
<1>7. ASSUME NEW s \in Slot, Serve(s) PROVE SpinnerHasHandler'
  <2>1. PICK answer \in Answers \cup {"checked"} :
          handler' = [handler EXCEPT ![s].state = answer]
    BY <1>7 DEF Serve, CheckAnalysis, Answer, Answers
  <2>2. handler[s] # None
    BY <1>7 DEF Serve, CheckAnalysis, Answer, Answers
  <2>3. handler'[s] \in Handler
    BY <2>1, <2>2, HandlerType DEF Handler, TypeOK
  <2>4. \A t \in Spinning : /\ handler'[t] # None /\ handler'[t].kind = handler[t].kind
                            /\ handler'[t].mine = handler[t].mine /\ handler'[t].here
    BY <2>1, <2>3, HandlerType, NoneAssumption DEF Spinning, Awaiting, Awaits, TypeOK, Handler
  <2>5. step' = step
    BY <1>7 DEF Serve, local
  <2>. QED
    BY <2>4, <2>5, SpinnerFrame
<1>8. ASSUME NEW s \in Slot, EndAnalyze(s) \/ EndPreview(s) \/ EndCommit(s)
      PROVE  SpinnerHasHandler'
  <2>1. /\ handler' = [handler EXCEPT ![s] = None]
        /\ \/ step' \notin {"analyzing", "committing"}
           \/ step' = step /\ (~handler[s].mine \/ handler[s].kind = "preview")
    BY <1>8 DEF EndAnalyze, EndPreview, EndCommit, Ends, MyStep, Answered, Awaits
  <2>. QED
    BY <2>1, SpinnerFrame DEF TypeOK, Spinning, Awaiting, Awaits, Commits
<1>9. ASSUME NEW s \in Slot, EndParse(s) PROVE SpinnerHasHandler'
  <2>1. \/ step' \notin {"analyzing", "committing"}
        \/ step' = step /\ ~handler[s].mine /\ handler' = [handler EXCEPT ![s] = None]
    BY <1>9 DEF EndParse, MyStep, Awaiting, Awaits, TypeOK
  <2>. QED
    BY <2>1, SpinnerFrame DEF TypeOK, Spinning, Awaiting, Awaits, Commits
<1>10. ASSUME NEW s \in Slot, EndRebalance(s) PROVE SpinnerHasHandler'
  <2>1. /\ handler' = [handler EXCEPT ![s] = None] /\ step' = step
        /\ handler[s].kind = "rebalance"
    BY <1>10 DEF EndRebalance, Awaits
  <2>. QED
    BY <2>1, SpinnerFrame DEF TypeOK, Spinning, Awaiting, Awaits, Commits
<1>11. CASE UNCHANGED vars
  BY <1>11, SpinnerFrame DEF vars, Spinning, Awaiting, Awaits
<1>12. ASSUME NEW s \in Slot, EndUnheard(s) PROVE SpinnerHasHandler'
  <2>1. /\ handler' = [handler EXCEPT ![s] = None] /\ step' = step /\ ~handler[s].here
    BY <1>12 DEF EndUnheard, local
  <2>. QED
    BY <2>1, SpinnerFrame DEF TypeOK, Spinning, Awaiting, Awaits
<1>. QED
  BY <1>1, <1>2, <1>3, <1>5, <1>6, <1>7, <1>8, <1>9, <1>10, <1>11, <1>12 DEF Next, Settle

-----------------------------------------------------------------------------
(* The handlers that ask.                                                   *)

\* Whatever starts none, and leaves those there are and their step, keeps
\* them apart.
LEMMA AsksFrame ==
  ASSUME OneAsks,
         overlapped' = overlapped,
         generating' = generating,
         open' = open \/ ~open',
         \A t \in Asking' :
           /\ t \in Asking /\ handler'[t].kind = handler[t].kind
           /\ handler'[t].mine => handler[t].mine
           /\ handler[t].mine => handler'[t].mine \/ ~open',
         \A t \in Asking : ~overlapped /\ Spins(t) /\ handler[t].mine /\ t \in Asking'
                             => Spins(t)' \/ ~handler'[t].mine
  PROVE  OneAsks'
BY DEF OneAsks

\* With none left, there is nothing to keep apart.
LEMMA NoneAsks == ASSUME Asking' = {} PROVE OneAsks'
BY DEF OneAsks

\* Every step keeps at most one asking, or records that a preview was awaited.
LEMMA AsksKept ==
  ASSUME TypeOK, OneAsks, [Next]_vars PROVE OneAsks'
<1>1. CASE OpenWizard
  <2>1. handler' = handler /\ overlapped' = overlapped /\ ~generating
    BY <1>1 DEF OpenWizard
  <2>. QED
    BY <2>1 DEF OneAsks, Asking, Awaiting, Awaits
<1>2. ASSUME Closed(TRUE), UNCHANGED <<generating, overlapped>> PROVE OneAsks'
  <2>1. ~open' /\ handler' = Orphaned(TRUE)
    BY <1>2 DEF Closed
  <2>2. ASSUME NEW t \in Asking'
        PROVE  t \in Asking /\ handler'[t].kind = handler[t].kind /\ ~handler'[t].mine
    <3>1. t \in Slot /\ handler'[t] # None
      BY DEF Asking, Awaiting, Awaits
    <3>2. /\ handler[t] # None
          /\ handler'[t] = [handler[t] EXCEPT !.mine = FALSE, !.here = TRUE /\ @]
      BY <2>1, <3>1 DEF Orphaned
    <3>. QED
      BY <3>1, <3>2, HandlerType DEF Handler, Asking, Awaiting, Awaits
  <2>. QED
    BY <1>2, <2>1, <2>2, AsksFrame
<1>3. CASE CloseWizard
  BY <1>2, <1>3 DEF CloseWizard
<1>4. CASE TimerFires
  <2>1. CASE open
    BY <1>2, <1>4, <2>1 DEF TimerFires
  <2>2. CASE ~open
    BY <1>4, <2>2, AsksFrame DEF TimerFires, local, Asking, Awaiting, Awaits, Spins
  <2>. QED
    BY <2>1, <2>2
<1>5. CASE Back \/ SwitchMode \/ SelectArchitecture \/ ToPreview
  <2>1. /\ UNCHANGED <<handler, open, overlapped, generating>>
        /\ step' = step \/ step \notin {"analyzing", "committing"}
    BY <1>5 DEF Back, SwitchMode, SelectArchitecture, ToPreview
  <2>. QED
    BY <2>1, AsksFrame DEF Asking, Awaiting, Awaits, Spins
<1>6. ASSUME NEW s \in Slot, NEW kind, NEW next, Begins(s, kind, next),
             step \notin {"analyzing", "committing"},
             kind \in {"analyze", "parse"} => next = "analyzing",
             kind \in Commits => next = "committing"
      PROVE  OneAsks'
  <2>1. /\ handler' = [handler EXCEPT ![s] =
             [kind |-> kind, here |-> TRUE, mine |-> TRUE, latest |-> TRUE, current |-> TRUE,
              sent |-> None, state |-> "sent"]]
        /\ open /\ handler[s] = None
    BY <1>6 DEF Begins, Starts
  <2>2. /\ handler'[s].kind = kind /\ handler'[s].mine
        /\ step' = next /\ generating' /\ open' = open
        /\ overlapped' = (overlapped \/ Awaiting({"preview"}) # {})
    BY <1>6, <2>1 DEF TypeOK, Begins
  <2>3. SUFFICES ASSUME ~overlapped' PROVE Asking' \subseteq {s} /\ Spins(s)'
    BY <2>2 DEF OneAsks
  <2>4. Asking = {}
    BY <1>6, <2>1, <2>2, <2>3, HandlerType
    DEF OneAsks, Asking, Awaiting, Awaits, Spins, Kind, Commits
  <2>5. Asking' \subseteq {s}
    BY <2>1, <2>4 DEF Asking, Awaiting, Awaits, TypeOK
  <2>. QED
    BY <1>6, <2>2, <2>5 DEF Spins
<1>7. ASSUME NEW s \in Slot, AnalyzePRD(s) \/ ParseRoadmap(s) \/ PreviewTickets(s)
                             \/ CommitArchitecture(s) \/ CommitRoadmap(s)
      PROVE  OneAsks'
  BY <1>6, <1>7 DEF AnalyzePRD, ParseRoadmap, PreviewTickets, CommitArchitecture,
                    CommitRoadmap, Commits
<1>8. ASSUME NEW s \in Slot, SetSprintDuration(s) PROVE OneAsks'
  <2>1. /\ UNCHANGED <<open, step, generating, overlapped>>
        /\ \A t \in Slot : \/ handler'[t].kind = "rebalance"
                           \/ handler'[t] = handler[t]
    <3>1. PICK lengths :
            handler' = [t \in Slot |->
              IF t = s THEN [kind |-> "rebalance", here |-> TRUE, mine |-> TRUE, latest |-> TRUE,
                             current |-> roadmap.whole,
                             sent |-> lengths, state |-> "sent"]
              ELSE IF Awaits(t, {"rebalance"}) THEN [handler[t] EXCEPT !.latest = FALSE]
              ELSE handler[t]]
      BY <1>8 DEF SetSprintDuration
    <3>2. \A t \in Awaiting({"rebalance"}) :
            ([handler[t] EXCEPT !.latest = FALSE]).kind = "rebalance"
      BY HandlerType DEF Awaiting, Awaits, Handler
    <3>. QED
      BY <1>8, <3>1, <3>2 DEF SetSprintDuration, Awaiting
  <2>. QED
    BY <2>1, AsksFrame DEF Asking, Awaiting, Awaits, Spins
<1>9. ASSUME NEW s \in Slot, Serve(s) PROVE OneAsks'
  <2>1. PICK answer \in Answers \cup {"checked"} :
          handler' = [handler EXCEPT ![s].state = answer]
    BY <1>9 DEF Serve, CheckAnalysis, Answer, Answers
  <2>2. handler[s] # None
    BY <1>9 DEF Serve, CheckAnalysis, Answer, Answers
  <2>3. \A t \in Slot : handler'[t] # None =>
          /\ handler[t] # None /\ handler'[t].kind = handler[t].kind
          /\ handler'[t].mine = handler[t].mine /\ handler'[t].here = handler[t].here
    BY <2>1, <2>2, HandlerType DEF TypeOK, Handler
  <2>4. UNCHANGED <<open, step, generating, overlapped>>
    BY <1>9 DEF Serve, local
  <2>. QED
    BY <2>3, <2>4, AsksFrame DEF Asking, Awaiting, Awaits, Spins
<1>10. ASSUME NEW s \in Slot, EndAnalyze(s) \/ EndParse(s) \/ EndPreview(s) \/ EndCommit(s)
       PROVE  OneAsks'
  <2>1. s \in Asking
    BY <1>10 DEF EndAnalyze, EndParse, EndPreview, EndCommit, Answered, Asking, Awaiting,
                 Awaits, Kind, Commits
  <2>2. /\ handler'[s] = None
        /\ \A t \in Slot : handler'[t] # None =>
             /\ handler[t] # None /\ handler'[t].kind = handler[t].kind
             /\ handler'[t].here = handler[t].here
    <3>1. CASE handler' = [handler EXCEPT ![s] = None]
      BY <3>1 DEF TypeOK
    <3>2. CASE handler' = [t \in Slot |->
                 IF t = s THEN None
                 ELSE IF handler[s].mine /\ Awaits(t, {"rebalance"})
                 THEN [handler[t] EXCEPT !.current = FALSE] ELSE handler[t]]
      BY <3>2, HandlerType DEF Handler, Awaiting, Awaits
    <3>. QED
      BY <1>10, <3>1, <3>2 DEF EndAnalyze, EndParse, EndPreview, EndCommit, Ends
  <2>3. overlapped' = (overlapped /\ Awaiting(Kind) \ {s} # {})
    BY <1>10 DEF EndAnalyze, EndParse, EndPreview, EndCommit, Ends, Lowers, Overlapped
  <2>4. ASSUME ~overlapped' PROVE Asking' = {}
    <3>1. Asking' \subseteq Asking \ {s}
      BY <2>2 DEF Asking, Awaiting, Awaits
    <3>2. Asking \subseteq Awaiting(Kind)
      BY DEF Asking, Awaiting, Awaits
    <3>3. CASE ~overlapped
      BY <2>1, <3>1, <3>3 DEF OneAsks
    <3>4. CASE overlapped
      BY <2>3, <2>4, <3>1, <3>2, <3>4
    <3>. QED
      BY <3>3, <3>4
  <2>. QED
    BY <2>4, NoneAsks DEF OneAsks
<1>11. ASSUME NEW s \in Slot, EndRebalance(s) PROVE OneAsks'
  <2>1. /\ handler' = [handler EXCEPT ![s] = None] /\ handler[s].kind = "rebalance"
        /\ overlapped' = Overlapped(s) /\ UNCHANGED <<open, step, generating>>
    BY <1>11 DEF EndRebalance, Awaits
  <2>2. \A t \in Slot : handler'[t] # None => t # s /\ handler'[t] = handler[t]
    BY <2>1 DEF TypeOK
  <2>3. CASE overlapped' = overlapped
    BY <2>1, <2>2, <2>3, AsksFrame DEF Asking, Awaiting, Awaits, Spins
  <2>4. CASE overlapped' # overlapped
    <3>1. Awaiting(Kind) \subseteq {s}
      BY <2>1, <2>4 DEF Overlapped, TypeOK
    <3>. QED
      BY <2>2, <3>1, NoneAsks DEF Asking, Awaiting, Awaits
  <2>. QED
    BY <2>3, <2>4
<1>12. CASE UNCHANGED vars
  BY <1>12, AsksFrame DEF vars, Asking, Awaiting, Awaits, Spins
<1>13. CASE LeavePage
  <2>1. handler' = Orphaned(FALSE)
    BY <1>13 DEF LeavePage, Closed
  <2>2. ASSUME NEW t \in Slot, handler'[t] # None PROVE ~handler'[t].here
    <3>1. handler[t] # None /\ handler'[t] = [handler[t] EXCEPT !.mine = FALSE, !.here = FALSE /\ @]
      BY <2>1, <2>2 DEF Orphaned
    <3>. QED
      BY <3>1, HandlerType DEF Handler
  <2>3. Asking' = {}
    BY <2>2 DEF Asking, Awaiting, Awaits
  <2>. QED
    BY <2>3, NoneAsks
<1>14. ASSUME NEW s \in Slot, EndUnheard(s) PROVE OneAsks'
  <2>1. /\ handler' = [handler EXCEPT ![s] = None] /\ ~handler[s].here
        /\ UNCHANGED <<open, step, generating, overlapped>>
    BY <1>14 DEF EndUnheard, local
  <2>2. \A t \in Slot : handler'[t] # None => t # s /\ handler'[t] = handler[t]
    BY <2>1 DEF TypeOK
  <2>. QED
    BY <2>1, <2>2, AsksFrame DEF Asking, Awaiting, Awaits, Spins
<1>. QED
  BY <1>1, <1>3, <1>4, <1>5, <1>7, <1>8, <1>9, <1>10, <1>11, <1>12, <1>13, <1>14
  DEF Next, Settle

-----------------------------------------------------------------------------
(* The edits of the sprints.                                                *)

\* Whatever leaves the roadmap and the edits under way keeps them together.
LEMMA EditsFrame ==
  ASSUME EditsFit, RoadmapFits,
         UNCHANGED <<open, roadmap, adrift>>,
         Edits' = Edits,
         \A t \in Edits :
           /\ handler'[t].latest = handler[t].latest
           /\ handler'[t].current = handler[t].current
           /\ handler'[t].sent = handler[t].sent
           /\ handler'[t].state \in {"sent", "ok", "error"}
  PROVE  EditsFit' /\ RoadmapFits'
<1>1. Newest' = Newest
  BY DEF Newest
<1>. QED
  BY <1>1 DEF EditsFit, RoadmapFits, Newest

\* With no edit under way there is nothing to keep but the roadmap.
LEMMA NoEdits == ASSUME Edits' = {} PROVE EditsFit' /\ Newest' = {}
BY DEF EditsFit, Newest

\* Ending another handler leaves the edits.
LEMMA EndsFrame ==
  ASSUME TypeOK, EditsFit, RoadmapFits, NEW s \in Slot,
         handler[s] = None \/ handler[s].kind # "rebalance",
         handler' = [handler EXCEPT ![s] = None],
         UNCHANGED <<open, roadmap, adrift>>
  PROVE  EditsFit' /\ RoadmapFits'
<1>1. Edits' = Edits /\ \A t \in Edits : handler'[t] = handler[t]
  BY DEF TypeOK, Edits, Awaiting, Awaits
<1>. QED
  BY <1>1, EditsFrame DEF EditsFit

\* Every step keeps the newest edit, the roadmap on the screen and the user's
\* lengths together.
LEMMA EditsKept ==
  ASSUME TypeOK, EditsFit, RoadmapFits, [Next]_vars PROVE EditsFit' /\ RoadmapFits'
<1>1. CASE OpenWizard
  <2>1. Edits' = {} /\ roadmap' = None
    BY <1>1 DEF OpenWizard, NewWizard, EditsFit, Edits, Awaiting, Awaits
  <2>. QED
    BY <2>1, NoEdits DEF RoadmapFits
<1>2. ASSUME NEW stays \in BOOLEAN, Closed(stays) PROVE EditsFit' /\ RoadmapFits'
  <2>1. handler' = Orphaned(stays) /\ roadmap' = None
    BY <1>2 DEF Closed, NewWizard
  <2>2. ASSUME NEW t \in Slot, handler'[t] # None PROVE ~Awaits(t, {"rebalance"})'
    <3>1. /\ handler[t] # None /\ ~Awaits(t, {"rebalance"})
          /\ handler'[t] = [handler[t] EXCEPT !.mine = FALSE, !.here = stays /\ @]
      BY <2>1, <2>2 DEF Orphaned
    <3>. QED
      BY <3>1, HandlerType DEF Awaits, Handler
  <2>3. Edits' = {}
    BY <2>2 DEF Edits, Awaiting, Awaits
  <2>. QED
    BY <2>1, <2>3, NoEdits DEF RoadmapFits
<1>3. CASE CloseWizard
  BY <1>2, <1>3 DEF CloseWizard
<1>15. CASE LeavePage
  BY <1>2, <1>15 DEF LeavePage
<1>16. ASSUME NEW s \in Slot, EndUnheard(s) PROVE EditsFit' /\ RoadmapFits'
  <2>1. /\ handler' = [handler EXCEPT ![s] = None] /\ ~handler[s].here
        /\ UNCHANGED <<open, roadmap, adrift>>
    BY <1>16 DEF EndUnheard, local
  <2>2. Edits' = Edits /\ \A t \in Edits : handler'[t] = handler[t]
    BY <2>1 DEF TypeOK, Edits, Awaiting, Awaits
  <2>. QED
    BY <2>1, <2>2, EditsFrame DEF EditsFit
<1>4. CASE UNCHANGED <<open, handler, roadmap, adrift>>
  <2>1. Edits' = Edits
    BY <1>4 DEF Edits, Awaiting, Awaits
  <2>. QED
    BY <1>4, <2>1, EditsFrame DEF EditsFit
<1>5. CASE TimerFires
  BY <1>2, <1>4, <1>5 DEF TimerFires, local
<1>6. CASE Back \/ SwitchMode \/ SelectArchitecture \/ ToPreview
  BY <1>4, <1>6 DEF Back, SwitchMode, SelectArchitecture, ToPreview
<1>7. ASSUME NEW s \in Slot, NEW kind, NEW next, Begins(s, kind, next), kind # "rebalance"
      PROVE  EditsFit' /\ RoadmapFits'
  <2>1. /\ handler' = [handler EXCEPT ![s] =
             [kind |-> kind, here |-> TRUE, mine |-> TRUE, latest |-> TRUE, current |-> TRUE,
              sent |-> None, state |-> "sent"]]
        /\ handler[s] = None /\ UNCHANGED <<open, roadmap, adrift>>
    BY <1>7 DEF Begins, Starts
  <2>2. Edits' = Edits /\ \A t \in Edits : handler'[t] = handler[t]
    BY <1>7, <2>1 DEF TypeOK, Edits, Awaiting, Awaits
  <2>. QED
    BY <2>1, <2>2, EditsFrame DEF EditsFit
<1>8. ASSUME NEW s \in Slot, AnalyzePRD(s) \/ ParseRoadmap(s) \/ PreviewTickets(s)
                             \/ CommitArchitecture(s) \/ CommitRoadmap(s)
      PROVE  EditsFit' /\ RoadmapFits'
  BY <1>7, <1>8 DEF AnalyzePRD, ParseRoadmap, PreviewTickets, CommitArchitecture,
                    CommitRoadmap
<1>9. ASSUME NEW s \in Slot, SetSprintDuration(s) PROVE EditsFit' /\ RoadmapFits'
  <2>1. PICK i \in DOMAIN roadmap.lengths : \E weeks \in Weeks(i) :
          LET lengths == [roadmap.lengths EXCEPT ![i] = weeks] IN
            /\ weeks <= MaxWeeks
            /\ roadmap' = [roadmap EXCEPT !.lengths = lengths, !.wanted = lengths]
            /\ handler' = [t \in Slot |->
                 IF t = s THEN [kind |-> "rebalance", here |-> TRUE, mine |-> TRUE, latest |-> TRUE,
                                current |-> roadmap.whole, sent |-> lengths, state |-> "sent"]
                 ELSE IF Awaits(t, {"rebalance"}) THEN [handler[t] EXCEPT !.latest = FALSE]
                 ELSE handler[t]]
    BY <1>9 DEF SetSprintDuration
  <2>2. PICK weeks \in Weeks(i) :
          LET lengths == [roadmap.lengths EXCEPT ![i] = weeks] IN
            /\ weeks <= MaxWeeks
            /\ roadmap' = [roadmap EXCEPT !.lengths = lengths, !.wanted = lengths]
            /\ handler' = [t \in Slot |->
                 IF t = s THEN [kind |-> "rebalance", here |-> TRUE, mine |-> TRUE, latest |-> TRUE,
                                current |-> roadmap.whole, sent |-> lengths, state |-> "sent"]
                 ELSE IF Awaits(t, {"rebalance"}) THEN [handler[t] EXCEPT !.latest = FALSE]
                 ELSE handler[t]]
    BY <2>1
  <2> DEFINE new == [roadmap.lengths EXCEPT ![i] = weeks]
  <2>3. roadmap \in Roadmap /\ roadmap # None /\ open
    BY <1>9 DEF SetSprintDuration, TypeOK
  <2>4. roadmap.lengths \in Lengths /\ roadmap.whole \in BOOLEAN
    BY <2>3 DEF Roadmap
  <2>5. new \in Lengths
    BY <2>2, <2>3, <2>4, WeeksType, LengthsType
  <2>6. /\ roadmap'.lengths = new
        /\ roadmap'.wanted = new
        /\ roadmap'.whole = roadmap.whole
    BY <2>2, <2>3 DEF Roadmap
  <2>7. roadmap' # None /\ open' /\ adrift' = adrift
    <3>1. roadmap' \in Roadmap
      BY <2>2, <2>3, <2>5 DEF Roadmap
    <3>. QED
      BY <1>9, <2>3, <3>1, NoneAssumption DEF SetSprintDuration
  <2>8. handler'[s] = [kind |-> "rebalance", here |-> TRUE, mine |-> TRUE, latest |-> TRUE,
                       current |-> roadmap.whole, sent |-> new, state |-> "sent"]
    BY <2>2
  <2>9. ASSUME NEW t \in Edits', t # s
        PROVE  ~handler'[t].latest /\ handler'[t].sent \in Lengths /\ handler'[t].state \in {"sent", "ok", "error"}
    <3>1. t \in Slot
      BY DEF Edits, Awaiting, Awaits
    <3>2. handler'[t] = IF t \in Edits THEN [handler[t] EXCEPT !.latest = FALSE] ELSE handler[t]
      BY <2>2, <2>9, <3>1 DEF Edits, Awaiting
    <3>3. t \in Edits
      BY <3>1, <3>2 DEF Edits, Awaiting, Awaits
    <3>4. handler[t] \in Handler
      BY <3>1, <3>3, HandlerType DEF Edits, Awaiting, Awaits
    <3>. QED
      BY <3>2, <3>3, <3>4 DEF EditsFit, Handler
  <2>10. s \in Newest'
    <3>1. handler'[s] \in Handler
      BY <2>4, <2>5, <2>8 DEF Handler, Kind
    <3>. QED
      BY <2>8, <3>1, NoneAssumption DEF Newest, Edits, Awaiting, Awaits
  <2>11. Newest' = {s}
    BY <2>9, <2>10 DEF Newest
  <2>12. EditsFit'
    BY <2>5, <2>6, <2>7, <2>8, <2>9, <2>11 DEF EditsFit
  <2>13. RoadmapFits'
    BY <2>3, <2>6, <2>7, <2>10 DEF RoadmapFits
  <2>. QED
    BY <2>12, <2>13
<1>10. ASSUME NEW s \in Slot, Serve(s) PROVE EditsFit' /\ RoadmapFits'
  <2>1. PICK answer \in Answers \cup {"checked"} :
          /\ answer \in {"empty", "checked"} => handler[s].kind # "rebalance"
          /\ handler' = [handler EXCEPT ![s].state = answer]
    BY <1>10 DEF Serve, CheckAnalysis, Answer, Answers
  <2>2. handler[s] # None /\ handler[s] \in Handler
    BY <1>10, HandlerType DEF Serve, CheckAnalysis, Answer, Answers
  <2>3. /\ handler'[s] \in Handler /\ handler'[s].kind = handler[s].kind
        /\ handler'[s].latest = handler[s].latest /\ handler'[s].current = handler[s].current
        /\ handler'[s].sent = handler[s].sent /\ handler'[s].state = answer
        /\ handler'[s].here = handler[s].here
        /\ \A t \in Slot \ {s} : handler'[t] = handler[t]
    BY <2>1, <2>2 DEF TypeOK, Handler
  <2>4. handler'[s] # None
    BY <2>3, NoneAssumption
  <2>5. Edits' = Edits
    BY <2>2, <2>3, <2>4 DEF Edits, Awaiting, Awaits
  <2>6. \A t \in Edits :
           /\ handler'[t].latest = handler[t].latest
           /\ handler'[t].current = handler[t].current
           /\ handler'[t].sent = handler[t].sent
           /\ handler'[t].state \in {"sent", "ok", "error"}
    BY <2>1, <2>3 DEF EditsFit, Edits, Awaiting, Awaits, Answers
  <2>. QED
    BY <1>10, <2>5, <2>6, EditsFrame DEF Serve, local
<1>11. ASSUME NEW s \in Slot, EndAnalyze(s) \/ EndPreview(s) \/ EndCommit(s)
       PROVE  EditsFit' /\ RoadmapFits'
  <2>1. /\ handler' = [handler EXCEPT ![s] = None] /\ handler[s].kind # "rebalance"
        /\ UNCHANGED <<open, roadmap, adrift>>
    BY <1>11 DEF EndAnalyze, EndPreview, EndCommit, Ends, Lowers, Answered, Awaits,
                Commits
  <2>. QED
    BY <2>1, EndsFrame
<1>12. ASSUME NEW s \in Slot, EndParse(s) PROVE EditsFit' /\ RoadmapFits'
  <2>1. handler[s].kind = "parse" /\ handler[s] # None /\ open' = open
    BY <1>12 DEF EndParse, Answered, Awaits, Lowers
  <2>2. CASE ~handler[s].mine \/ handler[s].state # "ok"
    <3>1. handler' = [handler EXCEPT ![s] = None] /\ UNCHANGED <<roadmap, adrift>>
      BY <1>12, <2>2 DEF EndParse, Answered, TypeOK
    <3>. QED
      BY <2>1, <3>1, EndsFrame
  <2>3. CASE handler[s].mine /\ handler[s].state = "ok"
    <3>1. /\ \E lengths \in Cuts[<<>>] : roadmap' = Sprints(<<>>, lengths, TRUE)
          /\ adrift' = FALSE
          /\ handler' = [t \in Slot |->
               IF t = s THEN None
               ELSE IF Awaits(t, {"rebalance"})
               THEN [handler[t] EXCEPT !.current = FALSE] ELSE handler[t]]
      BY <1>12, <2>3 DEF EndParse, Answered
    <3>2. /\ roadmap' # None /\ roadmap'.whole
          /\ roadmap'.lengths \in Cuts[roadmap'.wanted] /\ roadmap'.lengths = roadmap'.cut
      <4>1. PICK lengths \in Cuts[<<>>] : roadmap' = Sprints(<<>>, lengths, TRUE)
        BY <3>1
      <4>2. roadmap' \in Roadmap
        BY <4>1, CutsType, SprintsType
      <4>. QED
        BY <4>1, <4>2, NoneAssumption DEF Sprints
    <3>3. ASSUME NEW t \in Edits'
          PROVE  t \in Edits /\ handler'[t] = [handler[t] EXCEPT !.current = FALSE]
      BY <3>1, <3>3 DEF Edits, Awaiting, Awaits
    <3>4. \A t \in Edits : handler[t] \in Handler
      BY HandlerType DEF Edits, Awaiting, Awaits
    <3>5. \A t \in Edits' : /\ t \in Edits /\ handler'[t].latest = handler[t].latest
                            /\ ~handler'[t].current /\ handler'[t].sent = handler[t].sent
                            /\ handler'[t].state = handler[t].state
      BY <3>3, <3>4 DEF Handler
    <3>6. Newest' \subseteq Newest
      BY <3>5 DEF Newest
    <3>7. EditsFit'
      BY <2>1, <3>2, <3>5, <3>6 DEF EditsFit
    <3>. QED
      BY <3>2, <3>7 DEF RoadmapFits
  <2>. QED
    BY <2>2, <2>3
<1>13. ASSUME NEW s \in Slot, EndRebalance(s) PROVE EditsFit' /\ RoadmapFits'
  <2>1. /\ Awaits(s, {"rebalance"}) /\ handler[s].state \in Answers
        /\ handler' = [handler EXCEPT ![s] = None] /\ open' = open
    BY <1>13 DEF EndRebalance
  <2>2. /\ s \in Edits /\ Edits' = Edits \ {s}
        /\ \A t \in Edits' : handler'[t] = handler[t]
    BY <2>1 DEF TypeOK, Edits, Awaiting, Awaits
  <2>3. Newest' = Newest \ {s}
    BY <2>2 DEF Newest
  <2>4. open /\ roadmap # None /\ roadmap \in Roadmap /\ handler[s].sent \in Lengths
    BY <2>2 DEF EditsFit, TypeOK
  <2>5. handler[s].current \in BOOLEAN /\ handler[s].latest \in BOOLEAN
    BY <2>1, HandlerType DEF Awaits
  <2>6. CASE handler[s].state = "ok" /\ handler[s].latest
    <3>1. PICK lengths \in Cuts[handler[s].sent] :
            /\ roadmap' = [Sprints(handler[s].sent, lengths, handler[s].current)
                             EXCEPT !.wanted = roadmap.wanted]
            /\ adrift' = ~handler[s].current
      BY <1>13, <2>6 DEF EndRebalance, Counts
    <3>2. /\ roadmap'.lengths = lengths /\ roadmap'.cut = lengths
          /\ roadmap'.whole = handler[s].current /\ roadmap'.wanted = roadmap.wanted
          /\ roadmap' \in Roadmap
      <4>1. Sprints(handler[s].sent, lengths, handler[s].current) \in Roadmap
        BY <2>4, <2>5, CutsType, SprintsType
      <4>. QED
        BY <2>4, <3>1, <4>1 DEF Roadmap, Sprints
    <3>3. roadmap' # None
      BY <3>2, NoneAssumption
    <3>4. Newest' = {}
      BY <2>2, <2>3, <2>6 DEF EditsFit, Newest
    <3>5. EditsFit'
      BY <2>1, <2>2, <2>4, <3>3, <3>4 DEF EditsFit, Newest
    <3>6. RoadmapFits'
      BY <2>2, <2>4, <2>6, <3>1, <3>2 DEF RoadmapFits, EditsFit
    <3>. QED
      BY <3>5, <3>6
  <2>7. CASE ~(handler[s].state = "ok" /\ handler[s].latest)
    <3>1. /\ roadmap' = roadmap
          /\ adrift' = (adrift \/ (handler[s].state = "error" /\ handler[s].latest))
      BY <1>13, <2>7 DEF EndRebalance, Counts
    <3>2. EditsFit'
      BY <2>1, <2>2, <2>3, <2>4, <3>1 DEF EditsFit
    <3>3. handler[s].latest => handler[s].state = "error"
      BY <2>1, <2>2, <2>7, HandlerType DEF EditsFit, Awaits, Answers
    <3>4. ~adrift' => Newest' = Newest
      BY <2>3, <3>1, <3>3 DEF Newest
    <3>5. RoadmapFits'
      BY <3>1, <3>4 DEF RoadmapFits
    <3>. QED
      BY <3>2, <3>5
  <2>. QED
    BY <2>6, <2>7
<1>14. CASE UNCHANGED vars
  BY <1>4, <1>14 DEF vars
<1>. QED
  BY <1>1, <1>3, <1>5, <1>6, <1>8, <1>9, <1>10, <1>11, <1>12, <1>13, <1>14, <1>15, <1>16
  DEF Next, Settle

-----------------------------------------------------------------------------
(* The theorems.                                                            *)

\* The inductive invariant holds at first.
LEMMA InitInv == Init => IInv
BY InitTypes DEF Init, IInv, SpinnerHasHandler, OneAsks, Asking, EditsFit, Newest, Edits,
                 Awaiting, Awaits, RoadmapFits

\* And every step keeps it.
LEMMA InvKept == IInv /\ [Next]_vars => IInv'
BY TypesKept, SpinnerKept, AsksKept, EditsKept DEF IInv

\* In every behaviour of the wizard.
THEOREM Invariance == Spec => []IInv
BY InitInv, InvKept, PTL DEF Spec

\* The wizard, its handlers and its roadmap have their types: no answer makes
\* a roadmap of something else, none is edited that is not there.
THEOREM TypeCorrect == Spec => []TypeOK
<1>1. IInv => TypeOK
  BY DEF IInv
<1>. QED
  BY <1>1, Invariance, PTL

\* The user is never left before a spinner no handler of his wizard will end.
THEOREM Spinner == Spec => []SpinnerHasHandler
<1>1. IInv => SpinnerHasHandler
  BY DEF IInv
<1>. QED
  BY <1>1, Invariance, PTL

\* Whatever the calendar, the lengths and the edits under way: the sprints
\* shown are the server's cut for the lengths last asked for, and that of the
\* tickets, once the newest edit is answered.
THEOREM SprintsMatch == Spec => []SprintsMatchTickets
<1>1. IInv => SprintsMatchTickets
  BY DEF IInv, RoadmapFits, SprintsMatchTickets, Newest, Edits
<1>. QED
  BY <1>1, Invariance, PTL

\* Only under an awaited preview can a page start a second commit.
THEOREM OneCommit == Spec => []OneCommitAtATime
<1>1. IInv => OneCommitAtATime
  BY DEF IInv, OneAsks, OneCommitAtATime, Asking, Awaiting, Awaits, Commits, Kind
<1>. QED
  BY <1>1, Invariance, PTL
=============================================================================
