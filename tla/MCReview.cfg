\* Two rows, two mutations, both in flight at once, one change by others.
CONSTANTS
  Entry = {e1, e2}
  Slot = {s1, s2}
  MaxCalls = 2
  MaxOthers = 1
  None = None
SPECIFICATION Spec
SYMMETRY Symmetric
INVARIANTS
  OutcomeSeen
  OneSubmit
  PageIsTheWeek
PROPERTIES
  EditorsKept
