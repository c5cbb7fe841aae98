CONSTANTS
  q1 = q1
  q2 = q2
  Uids <- MCUids
  TokenIds <- MCTokenIds
  Keys <- MCKeys
  Names <- MCNames
  Providers <- MCProviders
  Nobody = "nobody"
  Wardens = {"root"}
  SeedUsers <- MCSeedUsers
  SeedTokens <- MCSeedTokens
  SeedJwts <- MCSeedJwts
  GivenIds = {"t1"}
  Bodies <- MCBodies
  JwtTTL = 1
  MaxTime = 2
  Requests <- MCRequests
  MaxRequests = 3
SYMMETRY MCSymmetry
SPECIFICATION Spec
INVARIANTS TypeOK OrphansCameLate
PROPERTIES RevivedOnPurpose KeysAreForLife WritesOwnTokens
CHECK_DEADLOCK FALSE
