\* One row over two weeks, its hours edited; answers are lost and processes die.
\* The lock is always given back.
CONSTANTS
  w1 = w1
  p1 = p1
  d1 = d1
  d2 = d2
  r1 = r1
  r2 = r2
  Entry = {1}
  Item = {w1}
  Project = {p1}
  Dev = {d1}
  Run = {r1}
  ItemOf <- OneItem
  ProjectOf <- OneProject
  DevOf <- OneDev
  Employee = {d1}
  MaxHours = 2
  MaxWeek = 1
  MaxActivity = 2
  BatchCap = 2
  Postgres = TRUE
  Lossy = TRUE
  Crashes = TRUE
SPECIFICATION FairSpec
PROPERTIES
  LockReleased
  ImplementsLifecycle
