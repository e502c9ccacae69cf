SPECIFICATION FairSpec
CONSTANTS
    c1 = c1
    Client = {c1}
    Address = {0, 1}
    BIOS_START = 0
    Spelling = {1}
    Condition = {"met"}
    Routes = {"continue"}
    GuestOps = {"int3"}
    MayHalt = FALSE
PROPERTY Int3Pauses
CHECK_DEADLOCK FALSE
