\* Two connections; the guest executes INT3 and instructions that do not decode.
SPECIFICATION Spec
CONSTANTS
    c1 = c1
    c2 = c2
    Client = {c1, c2}
    Address = {0}
    BIOS_START = 0
    Spelling = {1}
    Condition = {"met", "throws"}
    Routes = {"continue", "break", "step", "context", "set", "watch", "breakpoint"}
    GuestOps = {"plain", "int3", "getinput", "illegal"}
    MayHalt = FALSE
SYMMETRY Symmetry
INVARIANTS ContextAlive PauseHolds
CHECK_DEADLOCK FALSE
