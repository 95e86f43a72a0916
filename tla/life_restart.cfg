\* A gateway that is stopped and started again.
SPECIFICATION Spec
CONSTANTS
  plain = plain
  wrap = wrap
  ephemeral = ephemeral
  Events <- Three
  FilterOf <- FilterOfThree
  Capacity = 2
  MaxLoops = 2
INVARIANTS
  StartReturnsReceiver
CHECK_DEADLOCK FALSE
