CONSTANTS
  Users = {"ann", "bob"}
  Callers = {"bob", ""}
  Served <- MCServed
  HookIds = {"h"}
  Secrets = {"s", "z"}
  Tasks = {"t", "u"}
  HookBodies <- MCHookBodies
  SeedHooks <- MCSeedHooks
  SeedTasks = {"t", "u"}
  Groups = {"ops", "dev"}
  SeedUsers <- MCSeedUsers
  SeedGrants <- MCSeedGrants
  MaxRequests = 2
  MaxAlive = 2
  MaxEvents = 2
SPECIFICATION Spec
INVARIANTS TypeOK RowsTellWhatHappened OrphanHooksCameLate
PROPERTY DeliveriesAreDecidedBySignature
CHECK_DEADLOCK FALSE
