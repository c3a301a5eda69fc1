---------------------------- MODULE MCExecution ----------------------------
EXTENDS Execution, TLC

Verified == [mode |-> "NONE", verifiable |-> TRUE, immediate |-> FALSE]
Immediate == [mode |-> "NONE", verifiable |-> TRUE, immediate |-> TRUE]
Unverifiable == [mode |-> "PROVIDER_KEY", verifiable |-> FALSE, immediate |-> TRUE]

VerifiedOnly == {Verified}
ImmediateOnly == {Immediate}
ImmediateOrUnverifiable == {Immediate, Unverifiable}
VerifiedOrUnverifiable == {Verified, Unverifiable}

TwoTries == [verify |-> FALSE, executions |-> 2, recoveries |-> 1]
OneTry == [verify |-> FALSE, executions |-> 1, recoveries |-> 1]

Symmetry == Permutations(Workers)
=============================================================================
