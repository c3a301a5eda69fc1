-------------------------- MODULE MCDecisionMatrix --------------------------
(***************************************************************************)
(* Either one decision of the matrix, on arbitrary evidence, or one       *)
(* operation driven through the adapters to its end.                      *)
(***************************************************************************)
EXTENDS DecisionMatrix, EffectProtocol

MCInit == Init /\ ProtocolInit

\* One of the initial states, where the arbitrary decisions are made
AtRest ==
  /\ effect = "read_resource" /\ ~world.foreign /\ op.number = 0
  /\ o = [verify |-> FALSE, executions |-> 0, recoveries |-> 0]

MCNext ==
  \/ AtRest /\ Next /\ UNCHANGED protocolVars
  \/ ProtocolNext /\ ~Decided /\ UNCHANGED case

MCSpec == MCInit /\ [][MCNext]_<<case, protocolVars>>
=============================================================================
