\* A guest that reads the keyboard, with routines that do so too and return.
SPECIFICATION FairSpec
CONSTANTS
  StackFrames = 2
  GuestOps = {"getinput", "iret"}
  IntCodes = {}
  FaultCodes = {}
  DevCodes = {33}
  MaxRequests = 1
  MaxTyped <- TypedLive
PROPERTIES HaltReturns KeyboardAbortServed KeyReachesGuest
CHECK_DEADLOCK FALSE
