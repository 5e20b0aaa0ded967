SPECIFICATION Spec
CONSTANTS
  N = 2
  TargetOf <- MCTarget
  Mode <- MCMode
  Interval <- MCInterval
  Policy <- MCDefer
  MaxTime = 1
  MaxOps = 1
  MaxFaults = 0
PROPERTIES StoppedNeverFires
CHECK_DEADLOCK FALSE
