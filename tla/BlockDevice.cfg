SPECIFICATION Spec
CONSTANTS
  SectorWords = 2
  Wrap = 16
  DeviceWords = 5
  Data = {0, 1}
  Params = {1, 2, 7}
  Lengths = {2}
  Uses <- WordByWord
  HostFails = TRUE
  MaxStream = 4
INVARIANT NothingLeftOver
PROPERTY WritesStayInWindow
