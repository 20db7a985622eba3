SPECIFICATION FairSpec
CONSTANTS
  Calls = {1, 2, 3}
  MaxHandles = 2
  MaxChunkCount = 2
  Sizes = {1, 2}
  TokenIds = {1, 2}
  SNMax = 7
  SNMargin = 3
  StartSN = 3
  MaxRenewals = 0
  Ending = {"client"}
  OutOfMemory = {"context"}
INVARIANT HandlesAccounted
PROPERTIES CallsAtMostOnce CallsEnd
CHECK_DEADLOCK FALSE
