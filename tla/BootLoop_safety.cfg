\* Interruptions of every class nest on a stack of two frames while two requests
\* queue up and Ctrl+Z is pressed twice.
SPECIFICATION Spec
CONSTANTS
  StackFrames = 2
  GuestOps = {"plain", "int", "fault", "iret", "getinput", "alwi", "igni", "flush", "hlt"}
  IntCodes = {3, 32, 256, 257}
  FaultCodes = {0}
  DevCodes = {33}
  MaxRequests = 2
  MaxTyped <- TypedSafety
INVARIANTS TypeOK RequestsExclusive FlagMatchesQueue ImagesIntact MaskRespected ShutdownOnce
CHECK_DEADLOCK FALSE
