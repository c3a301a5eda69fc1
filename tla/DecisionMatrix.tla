---------------------------- MODULE DecisionMatrix ----------------------------
(***************************************************************************)
(* One automatic decision about one operation, against the matrix of      *)
(* FAILURE_MODEL.md (section 4): the evidence at hand, the descriptor of  *)
(* the effect and the policy's obligations are arbitrary, and the case    *)
(* records what the code decides to do with them.                         *)
(***************************************************************************)
EXTENDS Decisions

CONSTANTS
  Caps,       \* caps of attempts and of recoveries a policy may state
  Numbers,    \* numbers of the latest attempt
  Counts      \* numbers of completed verifications

ASSUME MatrixAssumption == Caps \subseteq Nat /\ Numbers \subseteq Nat /\ Counts \subseteq Nat

VARIABLE case

Undecided == [by |-> "nobody"]

Case(by, latest, result, number, elapsed, d, o, kind) ==
  [by |-> by, latest |-> latest, result |-> result, number |-> number,
   elapsed |-> elapsed, d |-> d, o |-> o, kind |-> kind]

Init == case = Undecided

\* An EXECUTING operation and the completed attempt
DecideExecution ==
  /\ case = Undecided
  /\ \E latest \in Outcomes, number \in Numbers, d \in Descriptors, o \in Obligations(Caps) :
       LET verdict == RegistryRetrySafety(d, latest, None, FALSE)
       IN case' = Case("EXECUTING", latest, None, number, FALSE, d, o,
                       ExecutionKind(latest, d, o, number, verdict))

\* A VERIFYING operation and a verification result
DecideVerification ==
  /\ case = Undecided
  /\ \E latest \in Outcomes, result \in VerificationResults, number \in Numbers,
        count \in Counts, d \in Descriptors, o \in Obligations(Caps) :
       case' = Case("VERIFYING", latest, OutcomeOf(result), number, FALSE, d, o,
                    VerificationKind(result, latest, number, count, d, o))

\* An UNKNOWN operation whose effect cannot be verified
DecideUnverifiable ==
  /\ case = Undecided
  /\ \E latest \in Outcomes, number \in Numbers, elapsed \in BOOLEAN,
        d \in Descriptors, o \in Obligations(Caps) :
       /\ ~d.verifiable
       /\ case' = Case("UNKNOWN", latest, None, number, elapsed, d, o,
                       UnverifiableKind(latest, number, elapsed, d, o))

Next == DecideExecution \/ DecideVerification \/ DecideUnverifiable

Spec == Init /\ [][Next]_case

-----------------------------------------------------------------------------
Decided == case # Undecided
Evidence == {case.latest, case.result} \ {None}
Retry == Target(case.kind) = "READY"

\* The matrix allows a further attempt within the budget and on two grounds only:
\* evidence that the effect is not there, none that it is; or no evidence at all and
\* an idempotency that makes a duplicate harmless
RetryIsWarranted ==
  Decided /\ Retry =>
    /\ case.number < ExecutionCap(case.o)
    /\ \/ "NOT_APPLIED" \in Evidence /\ "APPLIED" \notin Evidence
       \/ /\ Evidence = {"UNKNOWN"}
          /\ case.d.mode # "NONE"
          /\ ~(case.d.mode = "PROVIDER_KEY" /\ case.elapsed)

\* No operation ends without evidence for its end, none with evidence against it;
\* contradictory evidence ends with a human
EvidenceDecides ==
  Decided =>
    /\ Target(case.kind) = "SUCCEEDED" => "APPLIED" \in Evidence
    /\ Target(case.kind) = "FAILED" => "NOT_APPLIED" \in Evidence
    /\ {"APPLIED", "NOT_APPLIED"} \subseteq Evidence
         => Target(case.kind) = "MANUAL_INTERVENTION"

\* The kind decided starts from the state it was decided in, leads along a listed
\* transition, and a command it leaves applies to the state it leads to
DecisionIsApplicable ==
  Decided =>
    /\ Source(case.kind) = case.by
    /\ Target(case.kind) \in LegalNext[case.by]
    /\ OutboxCommand(case.kind) # NoCommand
         => Target(case.kind) \in CommandStates(OutboxCommand(case.kind))

\* What the transition service is told of the evidence when a retry is applied
Admitted ==
  CASE case.by = "EXECUTING" -> RetryAdmitted(case.d, "NOT_APPLIED", None)
    [] case.by = "VERIFYING" -> RetryAdmitted(case.d, None, "NOT_APPLIED")
    [] case.by = "UNKNOWN"   -> RetryAdmitted(case.d, case.latest, None)

\* A retry decided on an attempt's or a verification's evidence passes the
\* precondition with which the transition service checks its safety again
ProvenRetryIsAdmitted ==
  Decided /\ Retry /\ case.by # "UNKNOWN" => Admitted

\* So does every retry that recovery proposes: the safety it has computed from the
\* registry's knowledge of the effect is the safety the service sees
ProposedRetryIsAdmitted == Decided /\ Retry => Admitted
=============================================================================
