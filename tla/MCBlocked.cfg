SPECIFICATION FairSpec
CONSTANTS
  Intents = {i1, i2}
  Callers = {}
  MaxRestarts = 0
PROPERTIES OldDoesNotBlock
CHECK_DEADLOCK FALSE
