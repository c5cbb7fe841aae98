CONSTANTS
  q1 = q1
  q2 = q2
  Uids <- MCUids
  Gids <- MCGids
  RoleIds <- MCRoleIds
  BindIds <- MCBindIds
  RoleNames <- MCRoleNames
  BindNames <- MCBindNames
  GroupNames <- MCGroupNames
  Providers <- MCProviders
  GroupName <- MCGroupName
  RootId = "root"
  AdminId = "admins"
  SeedUsers <- MCSeedUsers
  SeedRoles <- MCSeedRoles
  SeedBinds <- MCSeedBinds
  Objects <- MCObjects
  RoleBodies <- MCRoleBodies
  BindBodies <- MCBindBodies
  Uses <- MCUses
  Paths <- MCPaths
  Ops <- MCOps
  Requests <- MCRequests
  MaxRequests = 3
  MaxChanges = 1
SYMMETRY MCSymmetry
SPECIFICATION Spec
INVARIANTS TypeOK BindingNamesItsRole
PROPERTIES DanglingStays WritesWhatWasAuthorised UpdatesNeedWildcard ImplementsAuthorised
CHECK_DEADLOCK FALSE
