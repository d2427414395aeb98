SPECIFICATION Spec
CONSTANTS
  MaxTake = 3
  Stream = {cam}
  Req = {r1, r2}
  NoReq = NoReq
  Countdowns = {0}
  Lengths = {1, 2}
  MinTakeFrames = 2
  InitProjects <- JustBinned
  AutoRun = FALSE
  MaxJobs = 0
  MaxEdits = 1
  MaxFails = 1
  MaxCrashes = 1
CHECK_DEADLOCK FALSE
SYMMETRY Symmetry
INVARIANTS
  AnswersAreDurable
PROPERTIES
  TakeNumbersAreNotReused
  TakesLive
