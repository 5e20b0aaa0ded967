SPECIFICATION Spec
CONSTANTS
  Calls = {c1, c2}
  Queries = {q1, q2}
  Msgs = {m1, m2}
  MaxRestarts = 1
SYMMETRY MCSymmetry
INVARIANTS AnswerIsTrue NotStranded EvidenceHonest
PROPERTY ImplementsTransport
CHECK_DEADLOCK FALSE
