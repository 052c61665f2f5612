SPECIFICATION FairSpec
CONSTANTS
  w1 = w1  w2 = w2
  Callers = {w1, w2}
  MaxFaults = 2
CHECK_DEADLOCK FALSE
INVARIANTS NothingLeaked FailureHasCause
PROPERTIES ConsumesAgain
