SPECIFICATION Spec
CONSTANTS
  Devices = {d1, d2}
  NoDevice = NoDevice
  MaxClicks = 4
INVARIANTS
  OneDevicePerExtraction
CHECK_DEADLOCK FALSE
