SPECIFICATION FairSpec
CONSTANTS
  Numbers = {9, 32, 255}
  Scales = {0, 1, 3}
  Times = {0, 5}
  MaxClock = 2
  MaxGap = 5
INVARIANT AsksOnlyProgrammed
PROPERTIES PeriodSteady ProgrammedFires
