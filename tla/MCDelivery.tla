----------------------------- MODULE MCDelivery -----------------------------
EXTENDS Delivery, TLC

Symmetry == Permutations(Operations) \union Permutations(Relays)

ExecuteOnly == {"CLAIM_EXECUTION"}
Executed == {"CLAIM_EXECUTION", "EXECUTION_NOT_APPLIED_FAIL"}
Compensated == {"CLAIM_EXECUTION", "EXECUTION_APPLIED", "COMPENSATION_APPLIED"}

NoFault == [relay |-> 0, worker |-> 0, loss |-> 0, command |-> 0]
RelayCrash == [NoFault EXCEPT !.relay = 1]
Loss == [NoFault EXCEPT !.loss = 1]
AllFaults == [relay |-> 0, worker |-> 1, loss |-> 1, command |-> 1]
=============================================================================
