SPECIFICATION Spec
CONSTANTS
  Addrs = {"a", "b", "c", "d"}
  ClientName = "name"
  MaxNames = 1
INVARIANT OneOwnerEach
CHECK_DEADLOCK FALSE
