\* A lost message, a crash of the worker, an operator: stranded work is found again.
SPECIFICATION FairSpec
CONSTANTS
  Operations = {o1}
  Relays = {r1}
  Batch = 1
  MaxDeliveries = 2
  MaxRecoveries = 1
  MaxInspections = 1
  Applied <- ExecuteOnly
  MaxVersion = 3
  MaxFaults <- AllFaults
INVARIANTS
  TypeOK
  TermIsQuarantined
PROPERTIES
  WorkIsDiscovered
CHECK_DEADLOCK FALSE
