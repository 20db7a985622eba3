SPECIFICATION SubsFairSpec
CONSTANTS
  Sessions = {s1}
  Requests = {r1, r2, r3}
  MaxSubs = 1
  SubsPerSession = 2
  ReqsPerSession = 2
  Priorities = {1}
  KeepAlives = {1, 2}
  Lifetimes = {1}
  MinLifetime = 3
  MaxLifetime = 5
  MsgSizes = {1}
  MaxAvail = 2
  MaxForgotten = 1
  ClientsLeave = TRUE
PROPERTIES RequestsEnd UnattendedClosed
CHECK_DEADLOCK FALSE
