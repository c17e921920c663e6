CONSTANTS
  o1 = o1
  o2 = o2
  Owners = {o1, o2}
  Interval <- TwoIntervals
  Null = Null
  Half = 8
  LateMax = 2
  MaxLag = 3
  MaxIds = 3
SPECIFICATION Spec
INVARIANT
  RemovedIsDeleted
