\* Two requests race each other, every script among them, and processes die.
CONSTANTS
  e1 = e1
  e2 = e2
  s1 = s1
  s2 = s2
  t1 = t1
  Epic = {}
  Story = {s1}
  Subtask = {}
  Entry = {n1, n2}
  Req = {r1, r2}
  NoItem = NoItem
  Keep = Keep
  Hours = {1, 2}
  Estimate = {1}
  Worked = {s1}
  Scripts = {"dedupe", "repair"}
  Crashes = TRUE
SYMMETRY Alike
SPECIFICATION Spec
PROPERTIES
  RecomputeHeals
