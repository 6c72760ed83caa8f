SPECIFICATION Spec
CONSTANTS
  Devices = {d1, d2}
  NoDevice = NoDevice
  MaxClicks = 5
INVARIANTS
  TypeOK
PROPERTIES
  OneExtraction
  NoConnectDuringExtraction
  ConnectComesBack
CHECK_DEADLOCK FALSE
