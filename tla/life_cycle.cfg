\* Three events, one per filter, a channel of two, two restarts.
SPECIFICATION FairSpec
CONSTANTS
  plain = plain
  wrap = wrap
  ephemeral = ephemeral
  Events <- Three
  FilterOf <- FilterOfThree
  Capacity = 2
  MaxLoops = 2
INVARIANTS
  TypeOK
  OneLoopPerCycle
  FirstStartHasReceiver
  NoGaps
PROPERTIES
  HeardIsRead
CHECK_DEADLOCK FALSE
