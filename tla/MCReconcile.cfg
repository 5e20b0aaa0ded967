SPECIFICATION FairSpec
CONSTANTS
  Intents = {i1, i2}
  Callers = {c1}
  MaxRestarts = 1
INVARIANTS TypeOK NothingInvented
PROPERTIES OneRungUp UnresolvedDoesNotBlock
CHECK_DEADLOCK FALSE
