SPECIFICATION DiscoverySpec
CONSTANTS
  Devices = {d1}
  MaxClicks = 1
PROPERTIES
  RefreshEnds
CHECK_DEADLOCK FALSE
