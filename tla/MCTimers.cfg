SPECIFICATION Spec
CONSTANTS
  a = a
  b = b
  r = r
  s = s
  p = p
  q = q
  OneShots = {}
  Requests = {r}
  Periodics = {p, q}
  Delays = {1, 2, 3}
  LoopLimit = 1
  UINT32_MAX = 3
  OutOfMemory = {TRUE, FALSE}
  MaxTime = 2
  MaxPosted = 2
INVARIANTS TimersSorted IdsAccounted
PROPERTY ExpiredArePosted
CHECK_DEADLOCK FALSE
