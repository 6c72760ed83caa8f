SPECIFICATION Spec
CONSTANTS
  NumChunks = 3
  UseUsbHost = FALSE
  Faults = {}
PROPERTIES
  WaitsHold
CHECK_DEADLOCK FALSE
