CONSTANTS
  Uids <- MCUids
  Gids <- MCGids
  RootId = 1
  AdminId = 11
  SeedUsers <- MCSeedUsers
  SeedGroups <- MCSeedGroups
  UserNames <- MCNames
  Providers <- Local
  Batches <- MCBatches
  BodyGroups <- MCNoBodies
  BodyUsers <- MCNoBodies
  Requests <- MCRequests
  MaxRequests = 3
  MaxWrites = 0
  MaxRestarts = 0
SPECIFICATION Spec
INVARIANTS TypeOK MembershipAgrees OutcomesExact
CHECK_DEADLOCK FALSE
