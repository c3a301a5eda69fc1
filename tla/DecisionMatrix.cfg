\* Every evidence, descriptor and obligation within small caps; and one operation
\* through the adapters of both providers.
SPECIFICATION MCSpec
CONSTANTS
  Caps = {0, 1, 2}
  Numbers = {1, 2, 3}
  Counts = {1, 2, 3, 4}
  AttemptCaps = {0, 1, 2}
  MaxUndos = 2
INVARIANTS
  RetryIsWarranted
  EvidenceDecides
  DecisionIsApplicable
  ProvenRetryIsAdmitted
  EffectIsSingle
  SuccessIsReal
  FailureIsReal
  UndoIsReal
CHECK_DEADLOCK FALSE
