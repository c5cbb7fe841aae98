CONSTANTS
  UserIds <- MCUserIds
  GroupIds <- MCGroupIds
  RoleIds <- MCRoleIds
  MaxCrashes = 3
  MaxFaults = 0
SPECIFICATION FairSpec
PROPERTIES ImplementsAdminAccess EventuallySealed
CHECK_DEADLOCK FALSE
