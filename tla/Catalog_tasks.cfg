CONSTANTS
  Names <- MCNames
  SecretNames <- MCSecretNames
  TokenOf <- MCTokenOf
  Images <- MCImage
  Commands <- MCCommand
  Schemas <- MCSchema
  Values <- MCValues
  Mask = "************"
  Keys <- MCKeys
  RunnerBodies <- MCPlain
  TaskBodies <- MCTaskBodies
  SecretBodies <- MCNoBodies
  SeedMaps <- MCSeedBound
  SeedSecrets <- MCSeedNothing
  Routes <- MCMapRoutes
  Requests <- MCRequests
  MaxRequests = 4
  MaxFaults = 1
SPECIFICATION Spec
INVARIANT TasksHaveRunners
PROPERTY SchemaRoutesKeepTask
CHECK_DEADLOCK FALSE
