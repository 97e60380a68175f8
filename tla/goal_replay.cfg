CONSTANTS
  NodeCount = 3
  Dependencies <- MCDependencies
  RequiredNodes = {1, 2}
  GateCount = 3
  GateKind <- MCGateKind
  AppliesTo <- MCAppliesTo
  RequiredGates = {1, 2, 3}
  AiReviewGates = {2}
  MaxRetries = 2
  MaxReviewsPerNode = 2
  MaxReviewsPerGoal = 3
  ExhaustionBehavior = {"stop", "escalate"}
  c1 = c1
  Commands = {c1}
  NoFile = NoFile
  MaxFaults = 2
  MaxStarts = 1
SPECIFICATION Spec
PROPERTIES
  NoAmbiguousReplay
CHECK_DEADLOCK FALSE
