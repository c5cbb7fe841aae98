CONSTANTS
  Uids <- MCUids
  Gids <- MCTwoGids
  RootId = 2
  AdminId = 12
  SeedUsers <- MCSeedAnn
  SeedGroups <- MCSeedOps
  UserNames <- MCNames
  Providers <- Local
  Batches <- MCAnnBatch
  BodyGroups <- MCNoBodies
  BodyUsers <- MCNoBodies
  Requests <- MCRequests
  MaxRequests = 3
  MaxWrites = 0
  MaxRestarts = 0
SPECIFICATION Spec
PROPERTY RefusalMeansMembers
CHECK_DEADLOCK FALSE
