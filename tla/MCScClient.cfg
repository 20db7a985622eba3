SPECIFICATION ScSpec
CONSTANTS
  MaxSockets = 2
  MaxConnections = 1
  MaxAddrs = 1
  ConnIds = {1}
  EpIds = {}
  Owners = {0, 1, 2}
  Msgs = {1, 2}
  MsgLen = 1
  Oob = FALSE
  Blocking = FALSE
  QueueBound = 0
  OutBound = 2
  MaxInst = 2
  MaxClients = 2
  MaxRequests = 1
VIEW ScView
INVARIANTS RequestsReachOwner ClosingIsReleased ServicesHoldLiveChannels OneAnswer LateSocketClosed
CHECK_DEADLOCK FALSE
