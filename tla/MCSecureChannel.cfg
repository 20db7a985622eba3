SPECIFICATION Spec
CONSTANTS
  Calls = {1, 2}
  MaxHandles = 2
  MaxChunkCount = 2
  Sizes = {1, 2, 3}
  TokenIds = {1, 2}
  SNMax = 7
  SNMargin = 3
  StartSN = 3
  MaxRenewals = 1
  Ending = {"server"}
  OutOfMemory = {"buffer"}
INVARIANTS TypeOK PeerNeverRefused MessagesWhole WaitedIsTimed RenewalAhead
CHECK_DEADLOCK FALSE
