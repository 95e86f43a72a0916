\* Two events of any kind, clocks a second apart, crashes and restarts.
SPECIFICATION FairSpec
CONSTANTS
  None = None
  Events = {e1, e2}
  Skews <- AnyClock
  MaxTime = 2
  MaxRuns = 2
INVARIANTS
  TypeOK
  NoReplay
PROPERTIES
  OwedIsServed
CHECK_DEADLOCK FALSE
