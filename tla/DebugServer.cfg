SPECIFICATION Spec
CONSTANTS
    LengthMax = 255
    MaxHeaderSize = 200
    Clients <- MCClients
    Scenarios <- MCScenarios
    Workers = 2
    Timeout = 1
    StaticFiles = {"/static/f"}
    LargeRules = {"/DisassembleMemory"}
INVARIANT RequestsIntact
INVARIANT AnswersMatch
PROPERTY IdleCloses
PROPERTY StopEnds
CHECK_DEADLOCK FALSE
