SPECIFICATION Spec
CONSTANTS
  Reqs = {r1, r2}
  NoReq = NoReq
  NoFile = NoFile
  AnyName = AnyName
  KeepsOrphans = FALSE
  MaxFile = 1
SYMMETRY Symmetry
CHECK_DEADLOCK FALSE
INVARIANTS
  CancelHolds
  JobsReport
  ReadersKeepTheirTake
  ToldIsTrue
  WoundDown
PROPERTIES
  ReplacesOnlyWhatItSaw
