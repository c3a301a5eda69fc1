------------------------------ MODULE Lifecycle ------------------------------
(***************************************************************************)
(* The tables of the lifecycle of an operation: its states, the edge of   *)
(* every transition kind, the pairs that the state machine lists as       *)
(* legal, the work command each kind leaves in the outbox, and the states *)
(* in which a command still has work to do.                               *)
(***************************************************************************)
EXTENDS Naturals

\* OperationState
OperationStates ==
  {"PENDING_POLICY", "AWAITING_APPROVAL", "DENIED", "CANCELLED", "READY",
   "EXECUTING", "VERIFYING", "UNKNOWN", "SUCCEEDED", "FAILED",
   "COMPENSATING", "COMPENSATION_UNKNOWN", "COMPENSATED",
   "COMPENSATION_FAILED", "MANUAL_INTERVENTION"}

AbsoluteTerminal == {"DENIED", "CANCELLED", "COMPENSATED"}

Absent == "ABSENT"              \* the source of CREATE_OPERATION: no row yet

\* KIND_TO_EDGE
Edge ==
  [CREATE_OPERATION              |-> <<Absent, "PENDING_POLICY">>,
   POLICY_ALLOW                  |-> <<"PENDING_POLICY", "READY">>,
   POLICY_REQUIRE_APPROVAL       |-> <<"PENDING_POLICY", "AWAITING_APPROVAL">>,
   POLICY_DENY                   |-> <<"PENDING_POLICY", "DENIED">>,
   CANCEL_PENDING_POLICY         |-> <<"PENDING_POLICY", "CANCELLED">>,
   APPROVAL_GRANT                |-> <<"AWAITING_APPROVAL", "READY">>,
   APPROVAL_REJECT               |-> <<"AWAITING_APPROVAL", "DENIED">>,
   CANCEL_AWAITING_APPROVAL      |-> <<"AWAITING_APPROVAL", "CANCELLED">>,
   CLAIM_EXECUTION               |-> <<"READY", "EXECUTING">>,
   CANCEL_READY                  |-> <<"READY", "CANCELLED">>,
   READY_MESSAGING_RECOVERY_EXHAUSTED |-> <<"READY", "MANUAL_INTERVENTION">>,
   EXECUTION_APPLIED             |-> <<"EXECUTING", "SUCCEEDED">>,
   EXECUTION_REQUIRE_VERIFICATION |-> <<"EXECUTING", "VERIFYING">>,
   EXECUTION_NOT_APPLIED_RETRY   |-> <<"EXECUTING", "READY">>,
   EXECUTION_NOT_APPLIED_FAIL    |-> <<"EXECUTING", "FAILED">>,
   EXECUTION_UNKNOWN             |-> <<"EXECUTING", "UNKNOWN">>,
   EXECUTION_MESSAGING_RECOVERY_EXHAUSTED |-> <<"EXECUTING", "MANUAL_INTERVENTION">>,
   VERIFICATION_APPLIED          |-> <<"VERIFYING", "SUCCEEDED">>,
   VERIFICATION_NOT_APPLIED_RETRY |-> <<"VERIFYING", "READY">>,
   VERIFICATION_NOT_APPLIED_FAIL |-> <<"VERIFYING", "FAILED">>,
   VERIFICATION_INCONCLUSIVE     |-> <<"VERIFYING", "UNKNOWN">>,
   VERIFICATION_ESCALATE         |-> <<"VERIFYING", "MANUAL_INTERVENTION">>,
   UNKNOWN_START_VERIFICATION    |-> <<"UNKNOWN", "VERIFYING">>,
   UNKNOWN_SAFE_RETRY            |-> <<"UNKNOWN", "READY">>,
   UNKNOWN_RECONCILE_APPLIED     |-> <<"UNKNOWN", "SUCCEEDED">>,
   UNKNOWN_RECONCILE_NOT_APPLIED |-> <<"UNKNOWN", "FAILED">>,
   UNKNOWN_ESCALATE              |-> <<"UNKNOWN", "MANUAL_INTERVENTION">>,
   SUCCEEDED_START_COMPENSATION  |-> <<"SUCCEEDED", "COMPENSATING">>,
   FAILED_START_COMPENSATION     |-> <<"FAILED", "COMPENSATING">>,
   MANUAL_START_VERIFICATION     |-> <<"MANUAL_INTERVENTION", "VERIFYING">>,
   MANUAL_START_COMPENSATION     |-> <<"MANUAL_INTERVENTION", "COMPENSATING">>,
   MANUAL_SAFE_RETRY             |-> <<"MANUAL_INTERVENTION", "READY">>,
   COMPENSATION_APPLIED          |-> <<"COMPENSATING", "COMPENSATED">>,
   COMPENSATION_OUTCOME_UNKNOWN  |-> <<"COMPENSATING", "COMPENSATION_UNKNOWN">>,
   COMPENSATION_OUTCOME_FAILED   |-> <<"COMPENSATING", "COMPENSATION_FAILED">>,
   COMPENSATION_ESCALATE         |-> <<"COMPENSATING", "MANUAL_INTERVENTION">>,
   COMPENSATION_UNKNOWN_RETRY    |-> <<"COMPENSATION_UNKNOWN", "COMPENSATING">>,
   COMPENSATION_UNKNOWN_APPLIED  |-> <<"COMPENSATION_UNKNOWN", "COMPENSATED">>,
   COMPENSATION_UNKNOWN_FAILED   |-> <<"COMPENSATION_UNKNOWN", "COMPENSATION_FAILED">>,
   COMPENSATION_UNKNOWN_ESCALATE |-> <<"COMPENSATION_UNKNOWN", "MANUAL_INTERVENTION">>,
   COMPENSATION_FAILED_RETRY     |-> <<"COMPENSATION_FAILED", "COMPENSATING">>,
   COMPENSATION_FAILED_ESCALATE  |-> <<"COMPENSATION_FAILED", "MANUAL_INTERVENTION">>]

Kinds == DOMAIN Edge
Source(k) == Edge[k][1]

TargetUndecided(k) ==               \* mutant: an escalation that stays where it was
  IF k = "VERIFICATION_ESCALATE" THEN "VERIFYING" ELSE Edge[k][2]

Target(k) == Edge[k][2]

\* LEGAL_OPERATION_TRANSITIONS, as the set of successors of each state
LegalNext ==
  [s \in OperationStates \union {Absent} |->
     CASE s = Absent              -> {"PENDING_POLICY"}
       [] s = "PENDING_POLICY"    -> {"READY", "AWAITING_APPROVAL", "DENIED", "CANCELLED"}
       [] s = "AWAITING_APPROVAL" -> {"READY", "DENIED", "CANCELLED"}
       [] s = "READY"             -> {"EXECUTING", "CANCELLED", "MANUAL_INTERVENTION"}
       [] s = "EXECUTING"         -> {"SUCCEEDED", "VERIFYING", "READY", "FAILED",
                                      "UNKNOWN", "MANUAL_INTERVENTION"}
       [] s = "VERIFYING"         -> {"SUCCEEDED", "READY", "FAILED", "UNKNOWN",
                                      "MANUAL_INTERVENTION"}
       [] s = "UNKNOWN"           -> {"VERIFYING", "READY", "SUCCEEDED", "FAILED",
                                      "MANUAL_INTERVENTION"}
       [] s \in {"SUCCEEDED", "FAILED"} -> {"COMPENSATING"}
       [] s = "MANUAL_INTERVENTION" -> {"VERIFYING", "COMPENSATING", "READY"}
       [] s = "COMPENSATING"      -> {"COMPENSATED", "COMPENSATION_UNKNOWN",
                                      "COMPENSATION_FAILED", "MANUAL_INTERVENTION"}
       [] s = "COMPENSATION_UNKNOWN" -> {"COMPENSATING", "COMPENSATED",
                                      "COMPENSATION_FAILED", "MANUAL_INTERVENTION"}
       [] s = "COMPENSATION_FAILED" -> {"COMPENSATING", "MANUAL_INTERVENTION"}
       [] OTHER                   -> {}]

-----------------------------------------------------------------------------
Commands == {"EXECUTE", "VERIFY", "COMPENSATE"}
NoCommand == "NO_COMMAND"

ExecuteKinds ==
  {"POLICY_ALLOW", "APPROVAL_GRANT", "EXECUTION_NOT_APPLIED_RETRY",
   "VERIFICATION_NOT_APPLIED_RETRY", "UNKNOWN_SAFE_RETRY", "MANUAL_SAFE_RETRY"}
VerifyKinds ==
  {"EXECUTION_REQUIRE_VERIFICATION", "EXECUTION_UNKNOWN",
   "UNKNOWN_START_VERIFICATION", "MANUAL_START_VERIFICATION"}
CompensateKinds ==
  {"SUCCEEDED_START_COMPENSATION", "FAILED_START_COMPENSATION",
   "MANUAL_START_COMPENSATION", "COMPENSATION_OUTCOME_UNKNOWN",
   "COMPENSATION_UNKNOWN_RETRY", "COMPENSATION_FAILED_RETRY"}

OutboxCommandForgetful(k) ==        \* mutant: kinds that keep the work silent
  CASE k \in ExecuteKinds \ {"VERIFICATION_NOT_APPLIED_RETRY"} -> "EXECUTE"
    [] k \in VerifyKinds \ {"EXECUTION_UNKNOWN"} -> "VERIFY"
    [] k \in CompensateKinds -> "COMPENSATE"
    [] OTHER -> NoCommand

\* OUTBOX_COMMAND_FOR_KIND
OutboxCommand(k) ==
  CASE k \in ExecuteKinds    -> "EXECUTE"
    [] k \in VerifyKinds     -> "VERIFY"
    [] k \in CompensateKinds -> "COMPENSATE"
    [] OTHER                 -> NoCommand

CommandStatesNarrow(c) ==           \* mutant: EXECUTE forgotten once claimed
  CASE c = "EXECUTE" -> {"READY"}
    [] c = "VERIFY"  -> {"UNKNOWN", "VERIFYING", "COMPENSATING", "COMPENSATION_UNKNOWN"}
    [] c = "COMPENSATE" -> {"COMPENSATING", "COMPENSATION_UNKNOWN", "COMPENSATION_FAILED"}

\* _COMMAND_STATES: where a published command is still required
CommandStates(c) ==
  CASE c = "EXECUTE" -> {"READY", "EXECUTING"}
    [] c = "VERIFY"  -> {"EXECUTING", "UNKNOWN", "VERIFYING", "COMPENSATING",
                         "COMPENSATION_UNKNOWN"}
    [] c = "COMPENSATE" -> {"COMPENSATING", "COMPENSATION_UNKNOWN",
                            "COMPENSATION_FAILED"}

\* The kind with which exhausted messaging recovery escalates a state
ExhaustedKind ==
  [READY                |-> "READY_MESSAGING_RECOVERY_EXHAUSTED",
   EXECUTING            |-> "EXECUTION_MESSAGING_RECOVERY_EXHAUSTED",
   VERIFYING            |-> "VERIFICATION_ESCALATE",
   UNKNOWN              |-> "UNKNOWN_ESCALATE",
   COMPENSATING         |-> "COMPENSATION_ESCALATE",
   COMPENSATION_UNKNOWN |-> "COMPENSATION_UNKNOWN_ESCALATE",
   COMPENSATION_FAILED  |-> "COMPENSATION_FAILED_ESCALATE"]
=============================================================================
