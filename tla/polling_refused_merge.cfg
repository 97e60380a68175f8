CONSTANTS
  a = a
  b = b
  c = c
  r1 = r1
  r2 = r2
  r3 = r3
  Issues = {a, b, c}
  Repos = {r1, r2}
  RepoOf <- MCRepoOf
  Priority <- MCPriority
  MaxConcurrentJobs = 2
  AiConcurrency = 1
  InitialLabels <- MCDueLabels
  HumanLabels = {}
  EditsAnytime = FALSE
  UnmergeablePRs = {a}
  MaxFaults = 0
  MaxRestarts = 0
SPECIFICATION FairSpec
PROPERTIES
  LoneReadyIsClaimed
