CONSTANTS
  Uids <- MCUids
  Gids <- MCGids
  RootId = 2
  AdminId = 12
  SeedUsers <- MCSeedAnn
  SeedGroups <- MCSeedOps
  UserNames <- MCNames
  Providers <- Both
  Batches <- MCMixedBatches
  BodyGroups <- MCBodyGroups
  BodyUsers <- MCBodyUsers
  Requests <- MCRequests
  MaxRequests = 2
  MaxWrites = 1
  MaxRestarts = 1
SPECIFICATION Spec
INVARIANT RootKeepsAdmin
PROPERTIES DeletedReturnsAsNew FilledGroupsStay
CHECK_DEADLOCK FALSE
