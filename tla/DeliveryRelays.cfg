\* Two relays side by side, one operation; a crash between publication and mark.
SPECIFICATION Spec
CONSTANTS
  Operations = {o1}
  Relays = {r1, r2}
  Batch = 1
  MaxDeliveries = 1
  MaxRecoveries = 1
  MaxInspections = 1
  Applied <- Executed
  MaxVersion = 5
  MaxFaults <- RelayCrash
SYMMETRY Symmetry
INVARIANTS
  PublishedOnce
  ReplayedOnce
  ReplayBudget
PROPERTIES
  ExhaustedAfterAllTries
CHECK_DEADLOCK FALSE
