SPECIFICATION Spec
CONSTANTS
  MaxChunks = 2
  MaxEntries = 2
  MaxFaults = 3
INVARIANTS
  TypeOK
  DataIsExpected
  TransferNeedsSession
PROPERTIES
  ExitCompletes
CHECK_DEADLOCK FALSE
