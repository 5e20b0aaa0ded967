SPECIFICATION Spec
CONSTANTS
  g1 = g1
  g2 = g2
  Goals = {g1, g2}
  Plain = {p1}
  Mode <- MCMode
  MaxRestarts = 2
  MaxOps = 4
INVARIANTS TypeOK CheckFollowsGoal SwitchesFollow
PROPERTIES RestartWatches
CHECK_DEADLOCK FALSE
