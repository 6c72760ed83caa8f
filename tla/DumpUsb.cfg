SPECIFICATION Spec
CONSTANTS
  NumChunks = 4
  UseUsbHost = TRUE
  Faults = {"spawn", "alloc", "read", "write", "cancel"}
INVARIANTS
  TypeOK
  SuccessMatchesChecksum
  NoBufferRace
  NoMutualSleep
  UsbAccounting
PROPERTIES
  ImplementsService
  WriteErrorEndsDump
  WrittenDumpEnds
CHECK_DEADLOCK FALSE
