CONSTANTS
  a = a
  b = b
  c = c
  r1 = r1
  r2 = r2
  r3 = r3
  Issues = {a, b, c}
  Repos = {r1, r2}
  RepoOf <- MCRepoOf
  Priority <- MCPriority
  MaxConcurrentJobs = 2
  AiConcurrency = 1
  InitialLabels <- MCInitialLabels
  HumanLabels <- MCHumanLabels
  EditsAnytime = FALSE
  UnmergeablePRs = {}
  MaxFaults = 0
  MaxRestarts = 1
SPECIFICATION FairSpec
INVARIANTS
  TypeOK
  OneJobPerRepository
  WorkingHasOwner
  ClaimsAreActive
PROPERTIES
  NobodyPassedOver
  ImplementsLifecycle
  WorkingIsLeft
