CONSTANTS
  Tasks = 2
  MaxAttempts = 2
  MaxMain = 3
  MaxEdits = 3
  MaxFaults = 2
SPECIFICATION Spec
INVARIANTS
  TypeOK
  TasksInOrder
  ContractHasItsIssue
  BaseIsValidated
PROPERTIES
  OneRequestPerTask
CHECK_DEADLOCK FALSE
