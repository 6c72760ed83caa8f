SPECIFICATION Spec
CONSTANTS
  Type <- MCType
  Blocks <- MCBlocks
  HeaderBlocks <- MCHeaderBlocks
  PatchBlocks <- MCPatchBlocks
  Icons <- MCIcons
  Protected = {1, 2}
  Faults = {"spawn", "setup", "read", "write", "cancel"}
INVARIANTS
  TypeOK
  PackageConsistent
  PatchesComplete
  FailureSettled
PROPERTIES
  NspDumpEnds
CHECK_DEADLOCK FALSE
