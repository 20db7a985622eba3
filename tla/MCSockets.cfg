SPECIFICATION Spec
CONSTANTS
  MaxSockets = 2
  MaxConnections = 1
  MaxAddrs = 1
  ConnIds = {1}
  EpIds = {2}
  Owners = {0}
  m1 = m1
  m2 = m2
  Msgs = {m1, m2}
  MsgLen = 2
  Oob = FALSE
  Blocking = TRUE
  QueueBound = 1
  OutBound = 1
VIEW LayerView
SYMMETRY MsgSymmetry
INVARIANTS TypeOK NoLostWakeup NoPhantomConnection StreamIntact PendingWriteWatched
PROPERTY IdentityKept
