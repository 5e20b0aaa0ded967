SPECIFICATION Spec
CONSTANTS
  N = 2
  TargetOf <- MCTarget
  Mode <- MCMode
  Interval <- MCInterval
  Policy <- MCPolicy
  MaxTime = 2
  MaxOps = 1
  MaxFaults = 1
INVARIANTS TypeOK ScheduleTellsTruth QuietStopSticks
PROPERTIES NoBacklog
CHECK_DEADLOCK FALSE
