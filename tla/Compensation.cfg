\* A worker and an operator who acts twice; lost messages, and one crash or one
\* republished command.
SPECIFICATION Spec
CONSTANTS
  Workers = {w1}
  Operators = {o1}
  Effects <- DelayedOrUnverifiable
  Origins <- Succeeded
  Obligation <- TwoTries
  MaxDeliveries = 2
  MaxRecoveries = 1
  MaxActions = 2
  MaxFaults = 1
INVARIANTS
  TypeOK
  RowsAgree
  SettledByEvidence
  CallersShareMessage
  AttemptsAreAllowed
PROPERTIES
  NoBlindAttempt
  EvidenceIsFinal
  KeepsPromise
CHECK_DEADLOCK FALSE
