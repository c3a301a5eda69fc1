\* Messages may be lost, the worker may crash, a request may land late.
SPECIFICATION FairSpec
CONSTANTS
  Workers = {w1}
  Effects <- VerifiedOrUnverifiable
  Obligation <- OneTry
  MaxDeliveries = 1
  MaxRecoveries = 1
  StackLimit = 1
  MaxCrashes = 1
  MaxReplays = 9
  LateLanding = TRUE
PROPERTIES
  KeepsPromise
  EventuallyResolved
CHECK_DEADLOCK FALSE
