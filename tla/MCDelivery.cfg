SPECIFICATION Spec
CONSTANTS
  i1 = i1
  i2 = i2
  s1 = s1
  Intents <- MCIntents
  Sessions = {s1}
  Flushers = {f1}
  TargetOf <- MCTarget
  SendMode <- MCMode
  BusyPolicy <- MCPolicy
  Operation <- MCQueue
  Expiring <- MCExpiring
  MaxAttempt = 3
  MaxCrashes = 2
INVARIANTS AtMostOnce NotSentIsTrue AnswerHonoured
PROPERTIES FreshAttempt ImplementsOutbox ImplementsTransport
CHECK_DEADLOCK FALSE
