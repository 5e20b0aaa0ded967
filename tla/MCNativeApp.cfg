SPECIFICATION Spec
CONSTANTS
  c1 = c1
  c2 = c2
  r1 = r1
  r2 = r2
  Creates = {c1, c2}
  Ephemeral = {c1}
  Reads = {r1, r2}
  Of <- MCOf
  MaxFaults = 2
INVARIANTS InitializedFirst ResultReaches
PROPERTIES RequestEnds
CHECK_DEADLOCK FALSE
