CONSTANTS
  Names <- MCTwoNames
  SecretNames <- MCSecretNames
  TokenOf <- MCTwoTokenOf
  Images <- MCImages
  Commands <- MCCommand
  Schemas <- MCSchema
  Values <- MCTwoValues
  Mask = "************"
  Keys <- MCKeys
  RunnerBodies <- MCBodies
  TaskBodies <- MCNoBodies
  SecretBodies <- MCSecretBodies
  SeedMaps <- MCSeedRunner
  SeedSecrets <- MCSeedSecrets
  Routes <- MCSecretRoutes
  Requests <- MCRequests
  MaxRequests = 3
  MaxFaults = 1
SPECIFICATION Spec
INVARIANT TypeOK
PROPERTIES EchoIsHarmless ConflictMeansLeftOrRaced
CHECK_DEADLOCK FALSE
