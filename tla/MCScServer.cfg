SPECIFICATION ScSpec
CONSTANTS
  MaxSockets = 2
  MaxConnections = 1
  MaxAddrs = 1
  ConnIds = {1}
  EpIds = {1}
  Owners = {0, 1, 2}
  Msgs = {1, 2}
  MsgLen = 1
  Oob = FALSE
  Blocking = FALSE
  QueueBound = 0
  OutBound = 2
  MaxInst = 2
  MaxClients = 0
  MaxRequests = 3
VIEW ScView
INVARIANTS ScTypeOK ListenerKnowsConnections CloseReachesOwner
CHECK_DEADLOCK FALSE
