\* One worker that may crash; a request is decided before its handler gives up.
SPECIFICATION Spec
CONSTANTS
  Workers = {w1}
  Effects <- ImmediateOrUnverifiable
  Obligation <- TwoTries
  MaxDeliveries = 2
  MaxRecoveries = 1
  StackLimit = 1
  MaxCrashes = 2
  MaxReplays = 1
  LateLanding = FALSE
INVARIANTS
  CoveredWork
  AtMostOnce
PROPERTIES
  NotAppliedIsProven
  KeepsPromise
CHECK_DEADLOCK FALSE
