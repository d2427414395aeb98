SPECIFICATION Spec
CONSTANTS
  MaxTake = 2
  Stream = {cam}
  Req = {r1, r2}
  NoReq = NoReq
  Countdowns = {0}
  Lengths = {1, 2}
  MinTakeFrames = 2
  InitProjects <- JustOneTake
  AutoRun = TRUE
  MaxJobs = 1
  MaxEdits = 1
  MaxFails = 1
  MaxCrashes = 0
CHECK_DEADLOCK FALSE
SYMMETRY Symmetry
INVARIANTS
  InFlightIsRecording
  TimelineIsSound
  TypeOK
  PendingIsHeld
  NoReadyJobWhileIdle
PROPERTIES
  DiscardUndoesTake
