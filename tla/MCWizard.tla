-------------------------------- MODULE MCWizard --------------------------------
(***************************************************************************)
(* The wizard over a roadmap of two weeks; and the wizard's Chunked held   *)
(* against the loops of _chunk_weeks, over calendars with gaps.            *)
(***************************************************************************)
EXTENDS PlanningWizard

\* The loops of _chunk_weeks, at the given week with the chunks so far; a week
\* goes to the last of them while that is short of its target and no gap lies
\* between.
RECURSIVE ChunkWeeks(_, _, _, _, _, _)
ChunkWeeks(last, gaps, default, durations, week, chunks) ==
  LET d == Len(chunks)
      target == IF d \in DOMAIN durations THEN durations[d] ELSE default
      next == IF d > 0 /\ chunks[d] < target /\ week - 1 \notin gaps
              THEN [chunks EXCEPT ![d] = @ + 1] ELSE Append(chunks, 1)
  IN IF week > last THEN chunks
     ELSE ChunkWeeks(last, gaps, default, durations, week + 1, next)

Calendar(last, gaps, default, max) ==
  INSTANCE PlanningWizard
    WITH LastWeek <- last, Gaps <- gaps, SprintWeeks <- default, MaxWeeks <- max

\* In every calendar of at most three weeks a request has one answer, that of
\* the loops.
ASSUME ChunkedAssumption ==
  \A last \in 1..3, default \in 1..2 : \A gaps \in SUBSET (1..last) :
    LET cuts == Calendar(last, gaps, default, 3)!Cuts IN
      \A durations \in DOMAIN cuts :
        cuts[durations] = {ChunkWeeks(last, gaps, default, durations, 1, <<>>)}
=============================================================================
