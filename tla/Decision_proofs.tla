---------------------------- MODULE Decision_proofs ----------------------------
(***************************************************************************)
(* Proofs about module DecisionMatrix: for every descriptor, every policy *)
(* and every count, the decisions of the runtime and of recovery keep to  *)
(* the matrix.  The invariant says how a decided case came about; the     *)
(* rest is about the pure decisions, one lemma for each.                  *)
(***************************************************************************)
EXTENDS DecisionMatrix, TLAPS

\* The kinds each decision may ask for
ByAttempt ==
  {"EXECUTION_UNKNOWN", "EXECUTION_REQUIRE_VERIFICATION", "EXECUTION_APPLIED",
   "EXECUTION_NOT_APPLIED_RETRY", "EXECUTION_NOT_APPLIED_FAIL"}
ByResult ==
  {"VERIFICATION_ESCALATE", "VERIFICATION_APPLIED", "VERIFICATION_NOT_APPLIED_RETRY",
   "VERIFICATION_NOT_APPLIED_FAIL", "VERIFICATION_INCONCLUSIVE"}
ByNothing == {"UNKNOWN_SAFE_RETRY", "UNKNOWN_ESCALATE"}

\* Where a decided case comes from
FromAttempt ==
  \E latest \in Outcomes, number \in Numbers, d \in Descriptors, o \in Obligations(Caps) :
    case = Case("EXECUTING", latest, None, number, FALSE, d, o,
             ExecutionKind(latest, d, o, number, RegistryRetrySafety(d, latest, None, FALSE)))

FromResult ==
  \E latest \in Outcomes, result \in VerificationResults, number \in Numbers,
     count \in Counts, d \in Descriptors, o \in Obligations(Caps) :
    case = Case("VERIFYING", latest, OutcomeOf(result), number, FALSE, d, o,
             VerificationKind(result, latest, number, count, d, o))

FromNothing ==
  \E latest \in Outcomes, number \in Numbers, elapsed \in BOOLEAN,
     d \in Descriptors, o \in Obligations(Caps) :
    case = Case("UNKNOWN", latest, None, number, elapsed, d, o,
             UnverifiableKind(latest, number, elapsed, d, o))

Explained == case = Undecided \/ FromAttempt \/ FromResult \/ FromNothing

-----------------------------------------------------------------------------
(***************************************************************************)
(* The decisions                                                          *)
(***************************************************************************)

\* An attempt is tried again, or fails, on its own evidence only
LEMMA AttemptDecides ==
  ASSUME NEW latest \in Outcomes, NEW number, NEW d, NEW o, NEW kind,
         kind = ExecutionKind(latest, d, o, number,
                  RegistryRetrySafety(d, latest, None, FALSE))
  PROVE  /\ kind \in ByAttempt
         /\ kind = "EXECUTION_APPLIED" => latest = "APPLIED"
         /\ kind \in {"EXECUTION_NOT_APPLIED_RETRY", "EXECUTION_NOT_APPLIED_FAIL"}
              => latest = "NOT_APPLIED"
         /\ kind = "EXECUTION_NOT_APPLIED_RETRY" => MayTryAgain(number, o)
BY DEF ExecutionKind, ByAttempt, Outcomes

\* A verification ends an operation, or tries it again, only on a result that the
\* attempt does not contradict; a contradiction goes to a human
LEMMA ResultDecides ==
  ASSUME NEW latest \in Outcomes, NEW result \in VerificationResults, NEW number,
         NEW count, NEW d, NEW o, NEW kind,
         kind = VerificationKind(result, latest, number, count, d, o)
  PROVE  /\ kind \in ByResult
         /\ kind = "VERIFICATION_APPLIED" => result = "APPLIED"
         /\ kind \in {"VERIFICATION_NOT_APPLIED_RETRY", "VERIFICATION_NOT_APPLIED_FAIL"}
              => result = "NOT_APPLIED" /\ latest # "APPLIED"
         /\ kind = "VERIFICATION_NOT_APPLIED_RETRY" => MayTryAgain(number, o)
         /\ Contradict(latest, result) => kind = "VERIFICATION_ESCALATE"
BY DEF VerificationKind, Contradict, ByResult, Outcomes, VerificationResults

\* The registry calls a retry safe on one of two grounds
LEMMA SafeMeans ==
  ASSUME NEW latest \in Outcomes, NEW d, NEW elapsed \in BOOLEAN,
         RegistryRetrySafety(d, latest, None, elapsed) = "SAFE"
  PROVE  \/ latest = "NOT_APPLIED"
         \/ /\ latest = "UNKNOWN" /\ d.mode # "NONE"
            /\ ~(d.mode = "PROVIDER_KEY" /\ elapsed)
BY DEF RegistryRetrySafety, EffectRetrySafety, UnknownRetrySafety, Outcomes, None

LEMMA NothingDecides ==
  ASSUME NEW latest, NEW number, NEW elapsed, NEW d, NEW o, NEW kind,
         kind = UnverifiableKind(latest, number, elapsed, d, o)
  PROVE  /\ kind \in ByNothing
         /\ kind = "UNKNOWN_SAFE_RETRY" =>
              /\ MayTryAgain(number, o)
              /\ RegistryRetrySafety(d, latest, None, elapsed) = "SAFE"
BY DEF UnverifiableKind, ByNothing

\* Evidence that the effect is not there passes the precondition of every retry
LEMMA AbsenceIsAdmitted ==
  ASSUME NEW d
  PROVE  /\ RetryAdmitted(d, "NOT_APPLIED", None)
         /\ RetryAdmitted(d, None, "NOT_APPLIED")
BY DEF RetryAdmitted, EffectRetrySafety, None

-----------------------------------------------------------------------------
(***************************************************************************)
(* Where the kinds lead                                                   *)
(***************************************************************************)
LEMMA DecisionTargets ==
  ASSUME NEW kind \in ByAttempt \union ByResult \union ByNothing
  PROVE  /\ Target(kind) = "READY" <=>
              kind \in {"EXECUTION_NOT_APPLIED_RETRY", "VERIFICATION_NOT_APPLIED_RETRY",
                        "UNKNOWN_SAFE_RETRY"}
         /\ Target(kind) = "SUCCEEDED" <=>
              kind \in {"EXECUTION_APPLIED", "VERIFICATION_APPLIED"}
         /\ Target(kind) = "FAILED" <=>
              kind \in {"EXECUTION_NOT_APPLIED_FAIL", "VERIFICATION_NOT_APPLIED_FAIL"}
         /\ Target("VERIFICATION_ESCALATE") = "MANUAL_INTERVENTION"
BY DEF ByAttempt, ByResult, ByNothing, Target, Edge

LEMMA DecisionEdges ==
  ASSUME NEW kind \in ByAttempt \union ByResult \union ByNothing
  PROVE  /\ Source(kind) = IF kind \in ByAttempt THEN "EXECUTING"
                           ELSE IF kind \in ByResult THEN "VERIFYING" ELSE "UNKNOWN"
         /\ Target(kind) \in LegalNext[Source(kind)]
<1>1. /\ kind \in ByAttempt => Source(kind) = "EXECUTING"
      /\ kind \in ByResult => Source(kind) = "VERIFYING"
      /\ kind \in ByNothing => Source(kind) = "UNKNOWN"
  BY DEF ByAttempt, ByResult, ByNothing, Source, Edge
<1>2. kind \in ByAttempt => Target(kind) \in {"SUCCEEDED", "VERIFYING", "READY", "FAILED",
                                              "UNKNOWN"}
  BY DEF ByAttempt, Target, Edge
<1>3. kind \in ByResult => Target(kind) \in {"SUCCEEDED", "READY", "FAILED", "UNKNOWN",
                                             "MANUAL_INTERVENTION"}
  BY DEF ByResult, Target, Edge
<1>4. kind \in ByNothing => Target(kind) \in {"READY", "MANUAL_INTERVENTION"}
  BY DEF ByNothing, Target, Edge
<1>5. /\ LegalNext["EXECUTING"] = {"SUCCEEDED", "VERIFYING", "READY", "FAILED",
                                   "UNKNOWN", "MANUAL_INTERVENTION"}
      /\ LegalNext["VERIFYING"] = {"SUCCEEDED", "READY", "FAILED", "UNKNOWN",
                                   "MANUAL_INTERVENTION"}
      /\ LegalNext["UNKNOWN"] = {"VERIFYING", "READY", "SUCCEEDED", "FAILED",
                                 "MANUAL_INTERVENTION"}
  BY DEF LegalNext, OperationStates, Absent
<1>6. CASE kind \in ByAttempt
  BY <1>1, <1>2, <1>5, <1>6
<1>7. CASE kind \in ByResult
  BY <1>1, <1>3, <1>5, <1>7 DEF ByAttempt, ByResult
<1>8. CASE kind \in ByNothing
  BY <1>1, <1>4, <1>5, <1>8 DEF ByAttempt, ByResult, ByNothing
<1> QED
  BY <1>6, <1>7, <1>8

LEMMA DecisionCommands ==
  ASSUME NEW kind \in ByAttempt \union ByResult \union ByNothing,
         OutboxCommand(kind) # NoCommand
  PROVE  Target(kind) \in CommandStates(OutboxCommand(kind))
<1>1. \/ /\ kind \in {"EXECUTION_NOT_APPLIED_RETRY", "VERIFICATION_NOT_APPLIED_RETRY",
                      "UNKNOWN_SAFE_RETRY"}
         /\ OutboxCommand(kind) = "EXECUTE"
      \/ /\ kind \in {"EXECUTION_REQUIRE_VERIFICATION", "EXECUTION_UNKNOWN"}
         /\ OutboxCommand(kind) = "VERIFY"
  BY DEF ByAttempt, ByResult, ByNothing, OutboxCommand, ExecuteKinds, VerifyKinds,
         CompensateKinds, NoCommand
<1>2. /\ Target("EXECUTION_REQUIRE_VERIFICATION") = "VERIFYING"
      /\ Target("EXECUTION_UNKNOWN") = "UNKNOWN"
  BY DEF Target, Edge
<1>3. "READY" \in CommandStates("EXECUTE") /\ {"VERIFYING", "UNKNOWN"} \subseteq CommandStates("VERIFY")
  BY DEF CommandStates
<1> QED
  BY <1>1, <1>2, <1>3, DecisionTargets

-----------------------------------------------------------------------------
(***************************************************************************)
(* The matrix                                                             *)
(***************************************************************************)
LEMMA ExplainedNext == Explained /\ [Next]_case => Explained'
<1> SUFFICES ASSUME Explained, [Next]_case
             PROVE  Explained'
  OBVIOUS
<1>1. CASE DecideExecution
  BY <1>1 DEF DecideExecution, Explained, FromAttempt
<1>2. CASE DecideVerification
  BY <1>2 DEF DecideVerification, Explained, FromResult
<1>3. CASE DecideUnverifiable
  BY <1>3 DEF DecideUnverifiable, Explained, FromNothing
<1>4. CASE UNCHANGED case
  BY <1>4 DEF Explained, FromAttempt, FromResult, FromNothing
<1> QED
  BY <1>1, <1>2, <1>3, <1>4 DEF Next

\* Every decided case is one of the three decisions on some evidence: what is recorded
\* of it is what the decision was made from
THEOREM CasesExplained == Spec => []Explained
<1>1. Init => Explained
  BY DEF Init, Explained
<1> QED
  BY <1>1, ExplainedNext, PTL DEF Spec

\* What a case records
LEMMA CaseFields ==
  ASSUME NEW by, NEW latest, NEW result, NEW number, NEW elapsed, NEW d, NEW o, NEW kind,
         case = Case(by, latest, result, number, elapsed, d, o, kind)
  PROVE  /\ case.by = by /\ case.latest = latest /\ case.result = result
         /\ case.number = number /\ case.elapsed = elapsed /\ case.d = d /\ case.o = o
         /\ case.kind = kind
BY DEF Case

\* A decided case, with what the decision says of it
LEMMA DecidedCase ==
  ASSUME Explained, Decided
  PROVE  \/ /\ case.by = "EXECUTING" /\ case.latest \in Outcomes /\ case.result = None
            /\ case.kind = ExecutionKind(case.latest, case.d, case.o, case.number,
                             RegistryRetrySafety(case.d, case.latest, None, FALSE))
         \/ /\ case.by = "VERIFYING" /\ case.latest \in Outcomes
            /\ \E result \in VerificationResults, count \in Counts :
                 /\ case.result = OutcomeOf(result)
                 /\ case.kind = VerificationKind(result, case.latest, case.number, count,
                                                 case.d, case.o)
         \/ /\ case.by = "UNKNOWN" /\ case.latest \in Outcomes /\ case.result = None
            /\ case.elapsed \in BOOLEAN
            /\ case.kind = UnverifiableKind(case.latest, case.number, case.elapsed,
                                            case.d, case.o)
<1>1. CASE FromAttempt
  <2>1. PICK latest \in Outcomes, number \in Numbers, d \in Descriptors,
             o \in Obligations(Caps) : \E kind :
          /\ kind = ExecutionKind(latest, d, o, number,
                      RegistryRetrySafety(d, latest, None, FALSE))
          /\ case = Case("EXECUTING", latest, None, number, FALSE, d, o, kind)
    BY <1>1 DEF FromAttempt
  <2>2. PICK kind :
          /\ kind = ExecutionKind(latest, d, o, number,
                      RegistryRetrySafety(d, latest, None, FALSE))
          /\ case = Case("EXECUTING", latest, None, number, FALSE, d, o, kind)
    BY <2>1
  <2>3. /\ case.by = "EXECUTING" /\ case.latest = latest /\ case.result = None
        /\ case.number = number /\ case.d = d /\ case.o = o /\ case.kind = kind
    BY <2>2, CaseFields
  <2> QED
    BY <2>2, <2>3
<1>2. CASE FromResult
  <2>1. PICK latest \in Outcomes, result \in VerificationResults, number \in Numbers,
             count \in Counts, d \in Descriptors, o \in Obligations(Caps) : \E kind :
          /\ kind = VerificationKind(result, latest, number, count, d, o)
          /\ case = Case("VERIFYING", latest, OutcomeOf(result), number, FALSE, d, o, kind)
    BY <1>2 DEF FromResult
  <2>2. PICK kind :
          /\ kind = VerificationKind(result, latest, number, count, d, o)
          /\ case = Case("VERIFYING", latest, OutcomeOf(result), number, FALSE, d, o, kind)
    BY <2>1
  <2>3. /\ case.by = "VERIFYING" /\ case.latest = latest /\ case.result = OutcomeOf(result)
        /\ case.number = number /\ case.d = d /\ case.o = o /\ case.kind = kind
    BY <2>2, CaseFields
  <2> QED
    BY <2>2, <2>3
<1>3. CASE FromNothing
  <2>1. PICK latest \in Outcomes, number \in Numbers, elapsed \in BOOLEAN,
             d \in Descriptors, o \in Obligations(Caps) : \E kind :
          /\ kind = UnverifiableKind(latest, number, elapsed, d, o)
          /\ case = Case("UNKNOWN", latest, None, number, elapsed, d, o, kind)
    BY <1>3 DEF FromNothing
  <2>2. PICK kind :
          /\ kind = UnverifiableKind(latest, number, elapsed, d, o)
          /\ case = Case("UNKNOWN", latest, None, number, elapsed, d, o, kind)
    BY <2>1
  <2>3. /\ case.by = "UNKNOWN" /\ case.latest = latest /\ case.result = None
        /\ case.number = number /\ case.elapsed = elapsed /\ case.d = d /\ case.o = o
        /\ case.kind = kind
    BY <2>2, CaseFields
  <2> QED
    BY <2>2, <2>3
<1> QED
  BY <1>1, <1>2, <1>3 DEF Explained, Decided

\* Which decision a kind comes from, and on what
LEMMA KindsOfCase ==
  ASSUME Explained, Decided
  PROVE  /\ case.latest \in Outcomes
         /\ \/ /\ case.by = "EXECUTING" /\ case.kind \in ByAttempt /\ case.result = None
            \/ /\ case.by = "VERIFYING" /\ case.kind \in ByResult
               /\ case.result \in Outcomes
               /\ {case.latest, case.result} = {"APPLIED", "NOT_APPLIED"}
                    => case.kind = "VERIFICATION_ESCALATE"
            \/ /\ case.by = "UNKNOWN" /\ case.kind \in ByNothing /\ case.result = None
         /\ case.kind = "EXECUTION_APPLIED" => case.latest = "APPLIED"
         /\ case.kind = "VERIFICATION_APPLIED" => case.result = "APPLIED"
         /\ case.kind \in {"EXECUTION_NOT_APPLIED_RETRY", "EXECUTION_NOT_APPLIED_FAIL"}
              => case.latest = "NOT_APPLIED"
         /\ case.kind \in {"VERIFICATION_NOT_APPLIED_RETRY", "VERIFICATION_NOT_APPLIED_FAIL"}
              => case.result = "NOT_APPLIED" /\ case.latest # "APPLIED"
         /\ case.kind = "UNKNOWN_SAFE_RETRY"
              => \/ case.latest = "NOT_APPLIED"
                 \/ /\ case.latest = "UNKNOWN" /\ case.d.mode # "NONE"
                    /\ ~(case.d.mode = "PROVIDER_KEY" /\ case.elapsed)
         /\ case.kind \in {"EXECUTION_NOT_APPLIED_RETRY", "VERIFICATION_NOT_APPLIED_RETRY",
                           "UNKNOWN_SAFE_RETRY"}
              => MayTryAgain(case.number, case.o)
<1>1. CASE /\ case.by = "EXECUTING" /\ case.latest \in Outcomes /\ case.result = None
           /\ case.kind = ExecutionKind(case.latest, case.d, case.o, case.number,
                            RegistryRetrySafety(case.d, case.latest, None, FALSE))
  <2>1. /\ case.kind \in ByAttempt
        /\ case.kind = "EXECUTION_APPLIED" => case.latest = "APPLIED"
        /\ case.kind \in {"EXECUTION_NOT_APPLIED_RETRY", "EXECUTION_NOT_APPLIED_FAIL"}
             => case.latest = "NOT_APPLIED"
        /\ case.kind = "EXECUTION_NOT_APPLIED_RETRY" => MayTryAgain(case.number, case.o)
    BY <1>1, AttemptDecides
  <2> QED
    BY <1>1, <2>1 DEF ByAttempt
<1>2. ASSUME NEW result \in VerificationResults, NEW count \in Counts,
             case.by = "VERIFYING", case.latest \in Outcomes,
             case.result = OutcomeOf(result),
             case.kind = VerificationKind(result, case.latest, case.number, count,
                                          case.d, case.o)
      PROVE  /\ case.kind \in ByResult /\ case.result \in Outcomes
             /\ {case.latest, case.result} = {"APPLIED", "NOT_APPLIED"}
                  => case.kind = "VERIFICATION_ESCALATE"
             /\ case.kind = "VERIFICATION_APPLIED" => case.result = "APPLIED"
             /\ case.kind \in {"VERIFICATION_NOT_APPLIED_RETRY",
                               "VERIFICATION_NOT_APPLIED_FAIL"}
                  => case.result = "NOT_APPLIED" /\ case.latest # "APPLIED"
             /\ case.kind = "VERIFICATION_NOT_APPLIED_RETRY"
                  => MayTryAgain(case.number, case.o)
  <2>1. /\ case.result \in Outcomes
        /\ case.result \in {"APPLIED", "NOT_APPLIED"} => result = case.result
        /\ result \in {"APPLIED", "NOT_APPLIED"} => result = case.result
    BY <1>2 DEF OutcomeOf, VerificationResults, Outcomes
  <2>2. {case.latest, case.result} = {"APPLIED", "NOT_APPLIED"}
          => Contradict(case.latest, result)
    BY <1>2, <2>1 DEF Contradict
  <2> QED
    BY <1>2, <2>1, <2>2, ResultDecides
<1>3. CASE /\ case.by = "UNKNOWN" /\ case.latest \in Outcomes /\ case.result = None
           /\ case.elapsed \in BOOLEAN
           /\ case.kind = UnverifiableKind(case.latest, case.number, case.elapsed,
                                           case.d, case.o)
  <2>1. /\ case.kind \in ByNothing
        /\ case.kind = "UNKNOWN_SAFE_RETRY" =>
             /\ MayTryAgain(case.number, case.o)
             /\ RegistryRetrySafety(case.d, case.latest, None, case.elapsed) = "SAFE"
    BY <1>3, NothingDecides
  <2> QED
    BY <1>3, <2>1, SafeMeans DEF ByNothing
<1>4. CASE case.by = "VERIFYING"
  <2>1. PICK result \in VerificationResults, count \in Counts :
          /\ case.latest \in Outcomes /\ case.result = OutcomeOf(result)
          /\ case.kind = VerificationKind(result, case.latest, case.number, count,
                                          case.d, case.o)
    BY <1>4, DecidedCase
  <2> QED
    BY <1>2, <1>4, <2>1 DEF ByResult
<1> QED
  BY <1>1, <1>3, <1>4, DecidedCase

\* A further attempt stays within the budget and rests on evidence that the effect is
\* not there, or, without any evidence, on an idempotency that makes it harmless:
\* evaluate_effect_retry_safety and max_automatic_attempts, for every policy and effect
THEOREM RetriesWarranted == Spec => []RetryIsWarranted
<1>1. ASSUME Explained, Decided, Retry
      PROVE  /\ case.number < ExecutionCap(case.o)
             /\ \/ "NOT_APPLIED" \in Evidence /\ "APPLIED" \notin Evidence
                \/ /\ Evidence = {"UNKNOWN"}
                   /\ case.d.mode # "NONE"
                   /\ ~(case.d.mode = "PROVIDER_KEY" /\ case.elapsed)
  <2>1. case.kind \in {"EXECUTION_NOT_APPLIED_RETRY", "VERIFICATION_NOT_APPLIED_RETRY",
                       "UNKNOWN_SAFE_RETRY"}
    BY <1>1, KindsOfCase, DecisionTargets DEF Retry
  <2>2. case.number < ExecutionCap(case.o)
    BY <1>1, <2>1, KindsOfCase DEF MayTryAgain
  <2>3. CASE case.kind = "VERIFICATION_NOT_APPLIED_RETRY"
    BY <1>1, <2>2, <2>3, KindsOfCase DEF Evidence, None
  <2>4. CASE case.kind # "VERIFICATION_NOT_APPLIED_RETRY"
    <3>1. case.result = None
      BY <1>1, <2>1, <2>4, KindsOfCase DEF ByResult
    <3>2. Evidence = {case.latest}
      BY <1>1, <3>1, KindsOfCase DEF Evidence, Outcomes, None
    <3> QED
      BY <1>1, <2>1, <2>2, <2>4, <3>2, KindsOfCase
  <2> QED
    BY <2>3, <2>4
<1>2. Explained => RetryIsWarranted
  BY <1>1 DEF RetryIsWarranted
<1> QED
  BY <1>2, CasesExplained, PTL

\* An operation ends only on evidence for its end and none against it: contradictory
\* evidence always goes to a human
THEOREM EndsAreEvident == Spec => []EvidenceDecides
<1>1. ASSUME Explained, Decided
      PROVE  /\ Target(case.kind) = "SUCCEEDED" => "APPLIED" \in Evidence
             /\ Target(case.kind) = "FAILED" => "NOT_APPLIED" \in Evidence
             /\ {"APPLIED", "NOT_APPLIED"} \subseteq Evidence
                  => Target(case.kind) = "MANUAL_INTERVENTION"
  <2>1. case.kind \in ByAttempt \union ByResult \union ByNothing
    BY <1>1, KindsOfCase
  <2>2. Target(case.kind) = "SUCCEEDED" => "APPLIED" \in Evidence
    BY <1>1, <2>1, KindsOfCase, DecisionTargets DEF Evidence, None
  <2>3. Target(case.kind) = "FAILED" => "NOT_APPLIED" \in Evidence
    BY <1>1, <2>1, KindsOfCase, DecisionTargets DEF Evidence, None
  <2>4. ASSUME {"APPLIED", "NOT_APPLIED"} \subseteq Evidence
        PROVE  Target(case.kind) = "MANUAL_INTERVENTION"
    <3>1. {case.latest, case.result} = {"APPLIED", "NOT_APPLIED"}
      BY <2>4 DEF Evidence
    <3>2. case.result # None
      BY <3>1 DEF None
    <3>3. case.kind = "VERIFICATION_ESCALATE"
      BY <1>1, <3>1, <3>2, KindsOfCase
    <3> QED
      BY <2>1, <3>3, DecisionTargets
  <2> QED
    BY <2>2, <2>3, <2>4
<1>2. Explained => EvidenceDecides
  BY <1>1 DEF EvidenceDecides
<1> QED
  BY <1>2, CasesExplained, PTL

\* The transition service can carry out what was decided: the kind starts from the state
\* the decision was made in, leads along an edge of the state machine, and its command
\* applies where it leads
THEOREM DecisionsApplicable == Spec => []DecisionIsApplicable
<1>1. ASSUME Explained, Decided
      PROVE  /\ Source(case.kind) = case.by
             /\ Target(case.kind) \in LegalNext[case.by]
             /\ OutboxCommand(case.kind) # NoCommand
                  => Target(case.kind) \in CommandStates(OutboxCommand(case.kind))
  <2>1. /\ case.kind \in ByAttempt \union ByResult \union ByNothing
        /\ case.by = IF case.kind \in ByAttempt THEN "EXECUTING"
                     ELSE IF case.kind \in ByResult THEN "VERIFYING" ELSE "UNKNOWN"
    BY <1>1, KindsOfCase DEF ByAttempt, ByResult, ByNothing
  <2> QED
    BY <2>1, DecisionEdges, DecisionCommands
<1>2. Explained => DecisionIsApplicable
  BY <1>1 DEF DecisionIsApplicable
<1> QED
  BY <1>2, CasesExplained, PTL

\* A retry decided on the evidence of an attempt or of a verification passes the
\* precondition with which the transition service checks its safety again
THEOREM ProvenRetriesAdmitted == Spec => []ProvenRetryIsAdmitted
<1>1. ASSUME Explained, Decided, Retry, case.by # "UNKNOWN"
      PROVE  Admitted
  <2>1. case.by \in {"EXECUTING", "VERIFYING"}
    BY <1>1, KindsOfCase
  <2> QED
    BY <2>1, AbsenceIsAdmitted DEF Admitted
<1>2. Explained => ProvenRetryIsAdmitted
  BY <1>1 DEF ProvenRetryIsAdmitted
<1> QED
  BY <1>2, CasesExplained, PTL
===============================================================================
