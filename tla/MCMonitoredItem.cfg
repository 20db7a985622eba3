SPECIFICATION ItemSpec
CONSTANTS
  Kinds = {"data", "event"}
  Sizes = {2, 3}
  EventOps = {}
  MaxValues = 9
INVARIANTS AvailExact InOrder LossSignalled NewestKept OverflowOnce
CHECK_DEADLOCK FALSE
