\* Two requests at a time, of an approver and of another principal; two intents under one key, and a third that the
\* adapter does not accept.
SPECIFICATION Spec
CONSTANTS
  Servers = {s1, s2}
  Principals = {alice, bob}
  Approvers = {alice}
  Expectations = {2, 4}
  Digests = {d1, d2, d3}
  Valid = {d1, d2}
  Environments = {"staging", "production"}
  Policies <- Revisions
  None = None
  MaxVersion = 5
  MaxEvents = 11
  MaxRequests = 3
SYMMETRY Symmetry
INVARIANTS
  TypeOK
  AnswersMatch
  AuthorisedWork
  TrailTellsState
CHECK_DEADLOCK FALSE
