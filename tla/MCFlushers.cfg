SPECIFICATION FairSpec
CONSTANTS
  i1 = i1
  i2 = i2
  s1 = s1
  Intents <- MCSkipped
  Sessions = {s1}
  Flushers = {f1, f2}
  TargetOf <- MCTarget
  SendMode <- MCMode
  BusyPolicy <- MCPolicy
  Operation <- MCQueue
  Expiring = {}
  MaxAttempt = 3
  MaxCrashes = 2
INVARIANTS OneSender
PROPERTIES UnresolvedEnds FlushEnds
CHECK_DEADLOCK FALSE
