\* A file of two weeks, a sprint each; two handlers at once.
CONSTANTS
  LastWeek = 2
  Gaps = {}
  SprintWeeks = 1
  MaxWeeks = 2
  Slot = {h1, h2}
  None = None
SPECIFICATION FairSpec
INVARIANTS
  SpinnerHasHandler
  SprintsMatchTickets
  OneCommitAtATime
PROPERTIES
  GeneratingEnds
