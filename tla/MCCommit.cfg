SPECIFICATION FairSpec
CONSTANTS
  p = p
  d = d
  f = f
  b = b
  Req <- MCReq
  Kind <- MCKind
  MaxGroup = 2
  MaxDrops = 2
INVARIANTS
  PublishedDurable
  AckedVisible
  RefusedNotLogged
  GroupFitsLog
  DrainedAgrees
PROPERTIES
  PublishedExtends
  QuiescedIsQuiet
  EveryRequestAnswered
CHECK_DEADLOCK FALSE
