CONSTANTS
  a = a
  b = b
  c = c
  r1 = r1
  r2 = r2
  r3 = r3
  Issues = {a, b, c}
  Repos = {r1, r2, r3}
  RepoOf <- MCOwnRepo
  Priority <- MCPriority
  MaxConcurrentJobs = 2
  AiConcurrency = 1
  InitialLabels = {{"ready"}, {"review"}, {"working"}}
  HumanLabels = {{"ready"}}
  EditsAnytime = TRUE
  UnmergeablePRs = {}
  MaxFaults = 1
  MaxRestarts = 0
SPECIFICATION FairSpec
INVARIANTS
  JobEndsAreAllowed
  AgentHoldsClaim
PROPERTIES
  LoneReadyGetsAPlace
