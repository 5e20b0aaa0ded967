SPECIFICATION RegistrySpec
CONSTANTS
  Requests = {u1}
  Occurrences = {o1}
  Reviews = {}
  Stoppers = {k1, k2}
  MaxBorn = 4
  MaxFaults = 1
  MaxTouched = 1
INVARIANTS OneChild
PROPERTIES RegistryForgets
CHECK_DEADLOCK FALSE
