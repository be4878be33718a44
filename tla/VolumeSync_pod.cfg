SPECIFICATION FairSpec
CONSTANTS
  Last = 3
  a = a
  Units <- UnitsOfTwoStages
  Gate = 2
  Resident = 2
  Threshold = 0
  COPY_WORKERS = 1
  Selections <- WholeAndFirstHalf
  MaxRuns = 2
  MaxFaults = 1
  Absent = Absent
INVARIANTS
  EndedHoldsAll
  BehindByOne
  OnlyManifestsRefused
PROPERTIES
  HaltStands
  DrivesEnd
CHECK_DEADLOCK FALSE
