CONSTANTS
  Item = {i1, i2, i3}
  NoItem = NoItem
  Sprint = {p1}
  NoSprint = NoSprint
  Closed = Closed
  MaxAhead = 1
  Capability <- MCCapability
  Group <- MCGroup
  Role <- MCRole
  Labels = {"Overview", "Project Manager", "Pulse", "Pulse Settings", "Project Board",
            "AI Generators", "Dashboard", "Users"}
SPECIFICATION MCSpec
INVARIANTS FormsMatchTheServer NothingHidden BoxesTellAccess ClickIsLocal
SYMMETRY Symmetric
CHECK_DEADLOCK FALSE
