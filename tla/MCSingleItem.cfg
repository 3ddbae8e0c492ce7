CONSTANTS
  Item = {i1, i2, i3}
  Req = {r1}
  NoItem = NoItem
  Keep = Keep
  OpenStatus = {"backlog", "todo"}
  Change <- SimpleChanges
  Batch = FALSE
  Crashes = FALSE
SYMMETRY AnyItem
SPECIFICATION Spec
PROPERTIES
  ReopeningClimbs
  ClosingCoversSubtasks
