--------------------------- MODULE MCCompensation ---------------------------
EXTENDS Compensation, TLC

\* Effects as they are declared: one whose provider has to be asked again, and an
\* idempotent one that cannot be asked
Delayed == [mode |-> "NONE", verifiable |-> TRUE, immediate |-> FALSE]
Unverifiable == [mode |-> "PROVIDER_KEY", verifiable |-> FALSE, immediate |-> TRUE]

DelayedOrUnverifiable == {Delayed, Unverifiable}
Succeeded == {"SUCCEEDED"}

\* Two automatic attempts and one inconclusive verification
TwoTries == [verify |-> FALSE, executions |-> 2, recoveries |-> 1]
=============================================================================
