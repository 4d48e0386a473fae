SPECIFICATION Spec
CONSTANTS
  p = p
  d = d
  f = f
  b = b
  Req <- MCFewReq
  Kind <- MCKind
  MaxGroup = 2
  MaxDrops = 2
PROPERTY RenamedKeepsRefusing
CHECK_DEADLOCK FALSE
