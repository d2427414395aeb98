SPECIFICATION Spec
CONSTANTS
  Missing = Missing
  Broken = Broken
  Nothing = Nothing
  MaxTake = 1
  Scene = {1, 2}
  NewScene = 1
  Above = 1
  Keep = 1
  MaxRedispatch = 3
  Faults = {"dir", "base", "append", "lines", "project", "projectSync", "head", "putBack", "removeBase", "putBase", "putLines"}
  Troubles <- CrashOrTwo
  MaxSeq = 2
CHECK_DEADLOCK FALSE
INVARIANTS
  CleanStoreMatchesDisk
  
  EditsAreKept
  TakesHaveFolders
  ReopenFindsAPromise
  ReopenedHistoryHolds
  OwnFilesMerge
