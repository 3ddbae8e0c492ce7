\* A run of the admin sync, two developers who submit, edits, deletions and the
\* dedupe script over two rows of one of them; answers are lost and processes die.
CONSTANTS
  w1 = w1
  p1 = p1
  d1 = d1
  d2 = d2
  r1 = r1
  r2 = r2
  Entry = {1, 2}
  Item = {w1}
  Project = {p1}
  Dev = {d1, d2}
  Run = {r1}
  ItemOf <- OneItem
  ProjectOf <- OneProject
  DevOf <- OneDev
  Employee = {d1, d2}
  MaxHours = 1
  MaxWeek = 0
  MaxActivity = 2
  BatchCap = 2
  Postgres = TRUE
  Lossy = TRUE
  Crashes = TRUE
SPECIFICATION Spec
INVARIANTS
  RecordedIsOwn
PROPERTIES
  NoRepush
  TruthfulReport
  SubmitStampsFirst
