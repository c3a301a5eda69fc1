\* Two workers race for the claim of a message.
SPECIFICATION Spec
CONSTANTS
  Workers = {w1, w2}
  Effects <- ImmediateOnly
  Obligation <- TwoTries
  MaxDeliveries = 2
  MaxRecoveries = 1
  StackLimit = 3
  MaxCrashes = 0
  MaxReplays = 0
  LateLanding = FALSE
SYMMETRY Symmetry
INVARIANTS
  ClaimTerminates
CHECK_DEADLOCK FALSE
