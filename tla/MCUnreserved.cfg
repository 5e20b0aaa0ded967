SPECIFICATION Spec
CONSTANTS
  i1 = i1
  i2 = i2
  s1 = s1
  Intents <- MCOrdinary
  Sessions = {s1}
  Flushers = {f1}
  TargetOf <- MCTarget
  SendMode <- MCMode
  BusyPolicy <- MCPolicy
  Operation <- MCQueue
  Expiring = {}
  MaxAttempt = 2
  MaxCrashes = 0
INVARIANTS ReservedBeforeStatus
CHECK_DEADLOCK FALSE
