SPECIFICATION FairSpec
CONSTANTS
  N = 2
  TargetOf <- MCTarget
  Mode <- MCMode
  Interval <- MCInterval
  Policy <- MCPolicy
  MaxTime = 1
  MaxOps = 1
  MaxFaults = 1
PROPERTIES ClaimEnds DueIsServed
CHECK_DEADLOCK FALSE
