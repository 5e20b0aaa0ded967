SPECIFICATION FairSpec
CONSTANTS
  N = 2
  TargetOf <- MCTarget
  Mode <- MCMode
  Interval <- MCInterval
  Policy <- MCDefer
  MaxTime = 1
  MaxOps = 0
  MaxFaults = 0
PROPERTIES SentDeferredMovesOn
CHECK_DEADLOCK FALSE
