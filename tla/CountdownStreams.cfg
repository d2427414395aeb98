SPECIFICATION Spec
CONSTANTS
  MaxTake = 2
  Stream = {cam, mic}
  Req = {r1, r2}
  NoReq = NoReq
  Countdowns = {0, 2}
  Lengths = {1, 2}
  MinTakeFrames = 2
  InitProjects <- JustOneTake
  AutoRun = FALSE
  MaxJobs = 0
  MaxEdits = 0
  MaxFails = 0
  MaxCrashes = 0
CHECK_DEADLOCK FALSE
SYMMETRY Symmetry
INVARIANTS
  EngineFollowsHost
  MissingFollowsEngine
  CountdownHasItsTimer
