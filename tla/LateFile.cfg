SPECIFICATION Spec
CONSTANTS
  Reqs = {r1}
  NoReq = NoReq
  NoFile = NoFile
  AnyName = AnyName
  KeepsOrphans = FALSE
  MaxFile = 2
CHECK_DEADLOCK FALSE
PROPERTIES
  OnlyTheConfirmedIsReplaced
