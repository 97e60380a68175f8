CONSTANTS
  MaxJobs = 4
  r1 = r1
  r2 = r2
  r3 = r3
  Repos = {r1, r2, r3}
  NoRepo = NoRepo
  JobLists <- MCJobLists
  WorkerCount = 3
  AiConcurrency = 2
SPECIFICATION FairSpec
INVARIANTS
  TypeOK
  StatusIsTrue
  EveryJobAnswered
  NobodyIsStuck
PROPERTIES
  ImplementsExecution
  ExecuteReturns
