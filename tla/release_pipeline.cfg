CONSTANTS
  Changes <- MCChanges
  MaxMain = 3
  MaxCommands = 2
  MaxDispatches = 1
  MaxFaults = 1
  MaxBlindReads = 1
SPECIFICATION Spec
INVARIANTS
  TypeOK
  ReportIsTrue
PROPERTIES
  DirectTagDeclaresVersion
  ImplementsRegistry
CHECK_DEADLOCK FALSE
