\* Two workers: every message may be handled by both at once.
SPECIFICATION Spec
CONSTANTS
  Workers = {w1, w2}
  Effects <- VerifiedOnly
  Obligation <- TwoTries
  MaxDeliveries = 2
  MaxRecoveries = 1
  StackLimit = 1
  MaxCrashes = 0
  MaxReplays = 0
  LateLanding = FALSE
SYMMETRY Symmetry
INVARIANTS
  TypeOK
  AttemptBudget
  RecoveryBudget
  AttemptPerMessage
  OneCallerPerAttempt
PROPERTIES
  EvidenceIsFinal
  KeepsPromise
CHECK_DEADLOCK FALSE
