SPECIFICATION Spec
CONSTANTS
  MaxChunks = 1
  MaxEntries = 2
  MaxFaults = 1
INVARIANTS
  HeaderOnlyInNspMode
CHECK_DEADLOCK FALSE
