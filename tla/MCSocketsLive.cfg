SPECIFICATION FairSpec
CONSTANTS
  MaxSockets = 1
  MaxConnections = 1
  MaxAddrs = 2
  ConnIds = {1}
  EpIds = {1}
  Owners = {0}
  m1 = m1
  m2 = m2
  Msgs = {m1}
  MsgLen = 2
  Oob = TRUE
  Blocking = TRUE
  QueueBound = 1
  OutBound = 1
PROPERTIES EventsTreated DeadClosed
