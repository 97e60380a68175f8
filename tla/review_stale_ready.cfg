CONSTANTS
  MaxChanges = 3
  MaxBase = 0
  NoCommit = NoCommit
  ReviewLoopLimit = 2
  ResumeAttemptLimit = 1
  RequestAttempts = 1
  MaxEdits = 1
  MaxFaults = 0
SPECIFICATION FairSpec
PROPERTY MergedHeadWasApproved
CHECK_DEADLOCK FALSE
