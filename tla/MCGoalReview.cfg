SPECIFICATION FairSpec
CONSTANTS
  t1 = t1
  Goals = {g1, g2}
  Turns = {t1, t2}
  Reviews <- MCReviews
  Budget <- MCBudget
  Requests = {}
  Occurrences = {}
  Stoppers = {}
  Interrupts <- MCInterrupts
  MaxBorn = 2
  MaxFaults = 2
  MaxTouched = 0
  MaxOps = 1
INVARIANTS TypeOK BudgetKept PendingHasTask
PROPERTIES InterruptHonoured FeedbackOnce ReviewEnds
CHECK_DEADLOCK FALSE
