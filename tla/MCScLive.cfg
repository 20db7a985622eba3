SPECIFICATION ScFairSpec
CONSTANTS
  MaxSockets = 1
  MaxConnections = 1
  MaxAddrs = 1
  ConnIds = {1}
  EpIds = {}
  Owners = {0, 1, 2}
  Msgs = {1, 2}
  MsgLen = 1
  Oob = FALSE
  Blocking = FALSE
  QueueBound = 0
  OutBound = 1
  MaxInst = 2
  MaxClients = 2
  MaxRequests = 0
PROPERTIES ConnectAnswered ClosingEnds
CHECK_DEADLOCK FALSE
