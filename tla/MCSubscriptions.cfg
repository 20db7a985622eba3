SPECIFICATION SubsSpec
CONSTANTS
  Sessions = {s1}
  Requests = {r1, r2, r3}
  MaxSubs = 2
  SubsPerSession = 2
  ReqsPerSession = 2
  Priorities = {1, 2}
  KeepAlives = {1}
  Lifetimes = {1}
  MinLifetime = 1
  MaxLifetime = 2
  MsgSizes = {1}
  MaxAvail = 2
  MaxForgotten = 1
  ClientsLeave = FALSE
SYMMETRY RequestSymmetry
INVARIANTS AttentiveNoRequest RequestsAccounted PrioritiesSound RoundRobin
