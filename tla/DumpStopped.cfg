SPECIFICATION Spec
CONSTANTS
  NumChunks = 3
  UseUsbHost = FALSE
  Faults = {"read", "cancel"}
PROPERTIES
  StoppedDumpEnds
CHECK_DEADLOCK FALSE
