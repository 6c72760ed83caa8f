SPECIFICATION DiscoverySpec
CONSTANTS
  Devices = {d1, d2, d3}
  MaxClicks = 2
INVARIANTS
  DiscoveryTypeOK
  ListIsCurrent
PROPERTIES
  OnlySilentLeave
  SilentDeviceLeaves
CHECK_DEADLOCK FALSE
