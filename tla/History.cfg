SPECIFICATION Spec
CONSTANTS
  MaxTake = 1
  Scene = {1, 2}
  NewScene = 1
  Above = 3
  Keep = 2
  MaxSeq = 5
CHECK_DEADLOCK FALSE
INVARIANTS
  EveryStateIsReachable
  HashesMatch
  SeqsAreNotReused
  BaseIsTheOldestState
