SPECIFICATION Spec
CONSTANTS
  p = p
  d = d
  f = f
  b = b
  Req <- MCFewReq
  Kind <- MCKind
  MaxGroup = 2
  MaxDrops = 0
PROPERTY FilterAckVisible
CHECK_DEADLOCK FALSE
