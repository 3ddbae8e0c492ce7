\* Every mutation with every query whose answer it changes.
CONSTANTS
  Query <- AllQueries
  Mutation <- AllMutations
  Page <- AllPages
  Call = {c1, c2}
  Active <- MCActive
  Flagged <- ByFlag
  Bundle <- Overview
  Seeded <- MCSeeded
  SeedingPage <- OverviewPages
  From <- MCFrom
  Serial <- SerialMutations
  Writes <- MCWrites
  OnSettled <- MCOnSettled
  OnSuccess <- MCOnSuccess
  Removes <- MCRemoves
  Cancels <- MCCancels
  Optimistic <- MCOptimistic
  Patches <- MCPatches
  Gaps <- MCGaps
  RefetchOnMount <- MCRefetchOnMount
  Repeated <- CalledTwice
  MaxFailures = 1
  None = None
  Idle = Idle
  Asked = Asked
SPECIFICATION MCSpec
INVARIANTS
  OwnWritesFlagged
  PhantomFlagged
PROPERTIES
  FocusHeals
