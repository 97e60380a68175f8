CONSTANTS
  a = a
  b = b
  c = c
  r1 = r1
  r2 = r2
  r3 = r3
  Issues = {a, b, c}
  Repos = {r1, r2}
  RepoOf <- MCRepoOf
  Priority <- MCPriority
  MaxConcurrentJobs = 2
  AiConcurrency = 1
  InitialLabels <- MCDueLabels
  HumanLabels <- MCDueLabels
  EditsAnytime = FALSE
  UnmergeablePRs = {}
  MaxFaults = 1
  MaxRestarts = 0
SPECIFICATION FairSpec
PROPERTIES
  WorkingIsLeft
