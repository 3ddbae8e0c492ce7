CONSTANTS
  Item = {i1, i2, i3}
  Req = {r1}
  NoItem = NoItem
  Keep = Keep
  OpenStatus = {"todo"}
  Change <- AllChanges
  Batch = TRUE
  Crashes = TRUE
SYMMETRY AnyItem
SPECIFICATION Spec
INVARIANTS
  DepthCap
PROPERTIES
  DoneGate
