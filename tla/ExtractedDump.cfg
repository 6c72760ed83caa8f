SPECIFICATION Spec
CONSTANTS
  FileSizes <- MCFileSizes
  Directory <- MCDirectory
  Faults = {"setup", "read", "write", "cancel"}
INVARIANTS
  TypeOK
  SuccessIsWhole
  ChunkMeetsItsFile
  CancelledIsRemoved
PROPERTIES
  WrittenExtractionEnds
CHECK_DEADLOCK FALSE
