\* A batch of one row, a compensated operation and a lost message.
SPECIFICATION FairSpec
CONSTANTS
  Operations = {o1, o2}
  Relays = {r1}
  Batch = 1
  MaxDeliveries = 1
  MaxRecoveries = 1
  MaxInspections = 1
  Applied <- Compensated
  MaxVersion = 6
  MaxFaults <- Loss
PROPERTIES
  WorkIsDiscovered
CHECK_DEADLOCK FALSE
