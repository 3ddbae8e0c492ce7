\* Every dialog, opened three times for two subjects; every control, clicked
\* three times in a list of two; every panel, asking three times for two choices.
CONSTANTS
  Dialog <- MCDialog
  Row <- MCRow
  Subject = {s1, s2}
  Call = {k1, k2}
  MaxOpenings = 3
  MaxTyped = 3
  Unsent = Unsent
  Nothing = Nothing
  Doubling <- MCDoubling
  Losing <- MCLosing
  Stealing <- MCStealing
  Misdirecting <- MCMisdirecting
  Control <- MCControl
  Does <- MCDoes
  Listed = {1, 2}
  MaxCalls = 3
  Unmade = Unmade
  Mismarked <- MCMismarked
  Unhealed <- MCUnhealed
  Panel <- MCPanel
  Loads <- MCLoads
  Choice = {c1, c2}
  Empty = Empty
  MaxAsks = 3
  MaxNews = 1
  Unasked = Unasked
  Missing = Missing
  Misplaced <- MCMisplaced
  Outdated <- MCOutdated
SPECIFICATION MCSpec
INVARIANTS
  NoDouble
  InputKept
  SubjectKept
  BusyIsTrue
  ShownIsTruth
  PanelTellsTruth
PROPERTIES
  NeverStolen
CHECK_DEADLOCK FALSE
