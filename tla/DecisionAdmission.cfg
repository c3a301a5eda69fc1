\* The retry of an effect that nobody can verify, under a provider key.
SPECIFICATION Spec
CONSTANTS
  Caps = {0, 1, 2}
  Numbers = {1, 2, 3}
  Counts = {1, 2, 3, 4}
INVARIANTS
  ProposedRetryIsAdmitted
CHECK_DEADLOCK FALSE
