CONSTANTS
  Tasks = {"t"}
  Runners = {"rn"}
  CronNames = {"c"}
  Callers = {"ann"}
  Commands = {"c1", "c2"}
  Images = {"i1", "i2"}
  Tokens = {"k1", "k2"}
  Marking = {"c2"}
  SeedTasks <- MCSeedTasks
  SeedRunners <- MCSeedRunners
  SeedTokens <- MCSeedTokens
  TaskBodies <- MCTaskBodies
  RunnerBodies <- MCRunnerBodies
  Lists <- MCLists
  MaxRequests = 2
  MaxEvents = 1
SPECIFICATION Spec
INVARIANT TypeOK
PROPERTIES CopiesTheCatalogue SyncAnswers RequestsAnswered
CHECK_DEADLOCK FALSE
