\* One request at a time; a subtask moves between stories of two epics.
CONSTANTS
  e1 = e1
  e2 = e2
  s1 = s1
  s2 = s2
  t1 = t1
  Epic = {e1, e2}
  Story = {s1, s2}
  Subtask = {t1}
  Entry = {n1}
  Req = {r1}
  NoItem = NoItem
  Keep = Keep
  Hours = {1, 2}
  Estimate = {1}
  Worked = {s1, s2, t1}
  Scripts = {}
  Crashes = FALSE
SYMMETRY Alike
SPECIFICATION Spec
INVARIANTS
  LoggedIsSum
  EpicAddsUp
