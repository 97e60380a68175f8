CONSTANTS
  MaxChanges = 3
  MaxBase = 1
  NoCommit = NoCommit
  ReviewLoopLimit = 2
  ResumeAttemptLimit = 1
  RequestAttempts = 2
  MaxEdits = 1
  MaxFaults = 2
SPECIFICATION FairSpec
INVARIANTS
  TypeOK
  ReviewLoopEnds
  ReviewerSeesAgentWork
  AgentWorkSurvives
PROPERTIES
  OneVerdictPerHead
  MergedHeadWasChecked
  DirtyWorkIsKept
  ReviewIsTaken
CHECK_DEADLOCK FALSE
