SPECIFICATION Spec
CONSTANTS
  N = 2
  TargetOf <- MCTarget
  Mode <- MCMode
  Interval <- MCInterval
  Policy <- MCPolicy
  MaxTime = 1
  MaxOps = 0
  MaxFaults = 1
INVARIANTS SkippedHasNoIntent
CHECK_DEADLOCK FALSE
