SPECIFICATION Spec
CONSTANTS
  Clients = {c1, c2}
  c1 = c1
  c2 = c2
  Wants <- MCWants
  NoOne = NoOne
  MaxTrouble = 1
  MaxTries = 2
  MaxLeavers = 1
CHECK_DEADLOCK FALSE
INVARIANTS
  InterruptedWindsDown
  StopsAreFinal
  AcceptedAreServed
  RunsOnce
  ExitsAreQuiet
PROPERTIES
  AcceptedAreAnswered
  SignalledHostsEnd
