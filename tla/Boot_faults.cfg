CONSTANTS
  UserIds <- MCUserIds
  GroupIds <- MCGroupIds
  RoleIds <- MCTwoRoles
  MaxCrashes = 1
  MaxFaults = 2
SPECIFICATION FairSpec
INVARIANTS TypeOK ServedMeansSealed
PROPERTIES SealedForever RestartFootprint EventuallyServing
CHECK_DEADLOCK FALSE
