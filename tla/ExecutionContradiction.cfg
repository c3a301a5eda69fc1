\* Late evidence for an operation that was verified meanwhile.
SPECIFICATION Spec
CONSTANTS
  Workers = {w1, w2}
  Effects <- ImmediateOnly
  Obligation <- OneTry
  MaxDeliveries = 2
  MaxRecoveries = 1
  StackLimit = 1
  MaxCrashes = 0
  MaxReplays = 0
  LateLanding = FALSE
SYMMETRY Symmetry
INVARIANTS
  FailureUncontradicted
CHECK_DEADLOCK FALSE
