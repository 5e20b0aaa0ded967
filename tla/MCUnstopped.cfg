SPECIFICATION Spec
CONSTANTS
  g1 = g1
  g2 = g2
  Goals = {g1}
  Plain = {}
  Mode <- MCMode
  MaxRestarts = 0
  MaxOps = 2
PROPERTIES StopIsFinal
CHECK_DEADLOCK FALSE
