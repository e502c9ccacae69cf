\* One client that stops and continues a guest whose instructions all decode.
SPECIFICATION FairSpec
CONSTANTS
    c1 = c1
    Client = {c1}
    Address = {0, 1}
    BIOS_START = 0
    Spelling = {1}
    Condition = {"met", "throws"}
    Routes = {"continue", "break", "step", "run", "breakpoint", "delete"}
    GuestOps = {"plain", "int3", "getinput"}
    MayHalt = TRUE
PROPERTY BreakPauses
CHECK_DEADLOCK FALSE
