SPECIFICATION FairSpec
CONSTANTS
  MaxTake = 2
  Stream = {cam}
  Req = {r1, r2}
  NoReq = NoReq
  Countdowns = {2}
  Lengths = {2}
  MinTakeFrames = 2
  InitProjects <- JustLeftFirst
  AutoRun = FALSE
  MaxJobs = 0
  MaxEdits = 0
  MaxFails = 0
  MaxCrashes = 0
CHECK_DEADLOCK FALSE
PROPERTIES
  PhasesEnd
  StopsAreAnswered
