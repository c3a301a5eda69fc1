------------------------------ MODULE Decisions ------------------------------
(***************************************************************************)
(* The pure decisions of the runtime and of recovery: whether a mutating  *)
(* retry is justified (domain/retry_safety.py, providers/registry.py),    *)
(* which transition an attempt's evidence asks for (runtime/outcome.py),  *)
(* which one a verification result asks for (recovery/reconcile.py and    *)
(* kinds.py), and the retry-safety precondition with which the transition *)
(* service re-checks every retry (transitions/preconditions.py).          *)
(*                                                                         *)
(* A descriptor d describes the effect: d.mode is its idempotency mode    *)
(* (provider-key semantics are declared exactly when it is PROVIDER_KEY), *)
(* d.verifiable says that its verification mode is not NONE, d.immediate  *)
(* that an immediate response can prove the effect.  The obligations o    *)
(* come from the policy.                                                  *)
(***************************************************************************)
EXTENDS Lifecycle

Outcomes == {"APPLIED", "NOT_APPLIED", "UNKNOWN"}    \* EffectOutcome
None == "NONE"                                       \* Python's None

IdempotencyModes == {"NONE", "NATURAL", "PROVIDER_KEY"}
Verdicts == {"SAFE", "UNSAFE", "NEEDS_CAPABILITY_PROOF"}

Descriptors == [mode : IdempotencyModes, verifiable : BOOLEAN, immediate : BOOLEAN]

\* PolicyObligations: a cap of 0 stands for None and for every value below 1
Obligations(caps) == [verify : BOOLEAN, executions : caps, recoveries : caps]

-----------------------------------------------------------------------------
\* Without any evidence a retry rests on the idempotency of the effect alone
UnknownRetryTrusting(mode, elapsed, proven) ==         \* mutant: proof not asked for
  IF mode = "NONE" \/ (mode = "PROVIDER_KEY" /\ elapsed) THEN "UNSAFE" ELSE "SAFE"

UnknownRetryTimeless(mode, elapsed, proven) ==         \* mutant: the window is ignored
  IF mode = "NONE" THEN "UNSAFE"
  ELSE IF ~proven THEN "NEEDS_CAPABILITY_PROOF" ELSE "SAFE"

UnknownRetrySafety(mode, elapsed, proven) ==
  IF mode = "NONE" THEN "UNSAFE"
  ELSE IF ~proven THEN "NEEDS_CAPABILITY_PROOF"
  ELSE IF mode = "PROVIDER_KEY" /\ elapsed THEN "UNSAFE"
  ELSE "SAFE"

\* evaluate_effect_retry_safety, without the insufficient_signal no caller here
\* passes; "proven" says that the caller vouches for the idempotency mode: the
\* key's semantics, or that the NATURAL declaration is a tested one
EffectRetrySafety(execution, verification, mode, elapsed, proven) ==
  CASE "APPLIED" \in {execution, verification}     -> "UNSAFE"
    [] /\ "NOT_APPLIED" \in {execution, verification}
       /\ "APPLIED" \notin {execution, verification} -> "SAFE"
    [] {execution, verification} \subseteq {"UNKNOWN", None} ->
         UnknownRetrySafety(mode, elapsed, proven)

\* CapabilityRegistry.evaluate_retry_safety: the registry knows the declaration
RegistryRetrySafety(d, execution, verification, elapsed) ==
  EffectRetrySafety(execution, verification, d.mode, elapsed, TRUE)

RetryAdmittedUnseen(d, execution, verification) ==     \* mutant: verification ignored
  EffectRetrySafety(execution, None, d.mode, FALSE, FALSE) = "SAFE"

\* map_retry_safety_reason: the precondition knows the mode and nothing else
RetryAdmitted(d, execution, verification) ==
  EffectRetrySafety(execution, verification, d.mode, FALSE, FALSE) = "SAFE"

\* max_automatic_attempts
ExecutionCap(o) == IF o.executions < 1 THEN 1 ELSE o.executions

MayTryOnceMore(number, o) == number <= ExecutionCap(o)      \* mutant: off by one

MayTryOnceLess(number, o) == number + 1 < ExecutionCap(o)   \* mutant: off by one

\* Whether policy allows an attempt after the attempt with this number
MayTryAgain(number, o) == number < ExecutionCap(o)

DefaultRecoveries == 3          \* PHASE6_DEFAULT_RECOVERY_ATTEMPTS

\* max_automatic_recovery_attempts
RecoveryCap(o) == IF o.recoveries < 1 THEN DefaultRecoveries ELSE o.recoveries

\* decide_execution_kind
ExecutionKind(outcome, d, o, number, verdict) ==
  CASE outcome = "UNKNOWN" -> "EXECUTION_UNKNOWN"
    [] outcome = "APPLIED" -> IF o.verify \/ ~d.immediate
                              THEN "EXECUTION_REQUIRE_VERIFICATION"
                              ELSE "EXECUTION_APPLIED"
    [] OTHER -> IF verdict = "SAFE" /\ MayTryAgain(number, o)
                THEN "EXECUTION_NOT_APPLIED_RETRY"
                ELSE "EXECUTION_NOT_APPLIED_FAIL"

-----------------------------------------------------------------------------
(***************************************************************************)
(* A verification result is an outcome; "UNSUPPORTED" is an UNKNOWN one   *)
(* whose error says that no further verification can help: an unsupported *)
(* capability, or the code "ref.verify.inconsistent".                     *)
(***************************************************************************)
VerificationResults == Outcomes \union {"UNSUPPORTED"}
OutcomeOf(result) == IF result = "UNSUPPORTED" THEN "UNKNOWN" ELSE result

ContradictNever(latest, result) == FALSE                    \* mutant: no check

Contradict(latest, result) == {latest, result} = {"APPLIED", "NOT_APPLIED"}

RecoverySpentLate(count, o) == count > RecoveryCap(o)       \* mutant: off by one

RecoverySpent(count, o) == count >= RecoveryCap(o)

\* reconcile and decision_to_kind: "latest" is the outcome of the last attempt
\* (UNKNOWN while it is STARTED), "number" its number, "count" the number of
\* completed verifications of the original effect
VerificationKind(result, latest, number, count, d, o) ==
  CASE result = "APPLIED" -> IF Contradict(latest, result) THEN "VERIFICATION_ESCALATE"
                             ELSE "VERIFICATION_APPLIED"
    [] result = "NOT_APPLIED" ->
         IF Contradict(latest, result) THEN "VERIFICATION_ESCALATE"
         ELSE IF /\ EffectRetrySafety(None, "NOT_APPLIED", d.mode, FALSE, TRUE) = "SAFE"
                 /\ MayTryAgain(number, o)
              THEN "VERIFICATION_NOT_APPLIED_RETRY"
              ELSE "VERIFICATION_NOT_APPLIED_FAIL"
    [] result = "UNSUPPORTED" -> "VERIFICATION_ESCALATE"
    [] OTHER -> IF RecoverySpent(count, o) THEN "VERIFICATION_ESCALATE"
                ELSE "VERIFICATION_INCONCLUSIVE"

\* _unknown_without_verify
UnverifiableKind(latest, number, elapsed, d, o) ==
  IF /\ RegistryRetrySafety(d, latest, None, elapsed) = "SAFE"
     /\ MayTryAgain(number, o)
  THEN "UNKNOWN_SAFE_RETRY"
  ELSE "UNKNOWN_ESCALATE"
=============================================================================
