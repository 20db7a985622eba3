SPECIFICATION SubsSpec
CONSTANTS
  Sessions = {s1}
  Requests = {r1}
  MaxSubs = 3
  SubsPerSession = 3
  ReqsPerSession = 1
  Priorities = {1, 2, 3}
  KeepAlives = {1}
  Lifetimes = {1}
  MinLifetime = 3
  MaxLifetime = 5
  MsgSizes = {1}
  MaxAvail = 0
  MaxForgotten = 1
  ClientsLeave = FALSE
INVARIANT PrioritiesIncreasing
