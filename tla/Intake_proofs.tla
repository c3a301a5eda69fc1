----------------------------- MODULE Intake_proofs -----------------------------
(***************************************************************************)
(* Proofs about module Intake: however the requests under one key         *)
(* interleave, no work is commanded without authorisation, and every      *)
(* success that a client is told of is true.  The invariant has a part    *)
(* for the rows, which only transitions change, one for the open          *)
(* requests, whose snapshots may be stale, and one for the last answer.   *)
(* A second invariant says what the audit trail tells of the rows.        *)
(***************************************************************************)
EXTENDS Intake, SequenceTheorems, FiniteSetTheorems, WellFoundedInduction, TLAPS

Rows == [state : States, version : Nat, digest : Digests \union {None}, bound : BOOLEAN]
Judgements == [verdict : PolicyVerdicts \union {"NONE"}, version : {0, 1}]
Approvals ==
  [state : ApprovalStates \union {"NONE"}, version : Nat, expires : BOOLEAN,
   inTime : BOOLEAN, by : Principals \union {None}]
Events == [type : EventTypes, from : States, to : States, version : Nat]
Sessions ==
  [pc : PCs, job : Jobs, actor : Principals \union {None}, digest : Digests \union {None},
   op : Rows, now : BOOLEAN, verdict : PolicyVerdicts \union {"NONE"}, expires : BOOLEAN]

\* The states in which no work has been allowed
Early == {Absent, "PENDING_POLICY", "AWAITING_APPROVAL", "DENIED", "CANCELLED"}

Types ==
  /\ op \in Rows /\ policy \in Judgements /\ approval \in Approvals
  /\ approval.state \in {"APPROVED", "REJECTED"} <=> approval.by \in Principals
  /\ \A row \in outbox : row.command \in Commands /\ row.version \in 2..op.version
  /\ trail \in Seq(Events) /\ late \in BOOLEAN

\* How far the operation is
Stages ==
  /\ op.state = Absent <=> op.version = 0
  /\ op.state = Absent <=> op.digest = None
  /\ op.state = "PENDING_POLICY" <=> op.version = 1
  /\ op.state = "AWAITING_APPROVAL" => op.version = 2 /\ op.bound

\* What the policy and the approver have said, and what follows from it
Judged ==
  /\ op.version <= 1 <=> policy.verdict = "NONE"
  /\ op.version > 1 => policy.version = 1
  /\ approval.state # "NONE" <=> policy.verdict = "REQUIRE_APPROVAL"
  /\ approval.state # "NONE" => approval.version = 2
  /\ approval.state = "PENDING" <=> op.state = "AWAITING_APPROVAL"
  /\ op.state \in Early => outbox = {}
  /\ policy.verdict = "DENY" => op.state = "DENIED"
  /\ approval.state = "REJECTED" <=> op.state = "DENIED" /\ policy.verdict # "DENY"
  /\ approval.state = "EXPIRED" <=> op.state = "CANCELLED"
  /\ approval.state = "APPROVED" =>
       /\ approval.by \in Approvers
       /\ approval.expires => approval.inTime
       /\ [command |-> "EXECUTE", version |-> approval.version + 1] \in outbox

\* What the code has made sure of when a request is where it is, given the operation's
\* row, the state of the approval and whether its deadline has passed by now
SessionOK(s, row, asked, past) ==
  /\ s.job = "SUBMIT" <=> s.pc \in {"lookup", "insert", "reread", "policy", "record"}
  /\ s.job \in DOMAIN DecisionKind
       <=> s.pc \in {"load", "check", "decide", "reload", "settle"}
  /\ s.job = "SUBMIT" => s.digest \in Digests
  /\ s.pc \in {"policy", "record", "verify"} => s.op.state # Absent
  /\ s.pc \in {"policy", "record"} => s.op.digest = s.digest /\ row.digest = s.digest
  /\ s.pc = "record" => s.verdict \in PolicyVerdicts
  /\ s.pc \in {"decide", "reload", "settle"} =>
       /\ asked # "NONE"
       /\ s.now => past
       /\ s.actor \in IF s.job = "EXPIRED" THEN {None} ELSE Approvers
  /\ s.op.version <= row.version

Requests ==
  /\ h \in [Servers -> Sessions]
  /\ \A c \in Servers : SessionOK(h[c], op, approval.state, late)

IntakeInv == Types /\ Stages /\ Judged /\ Requests /\ AnswersMatch

-----------------------------------------------------------------------------
(***************************************************************************)
(* The kinds                                                              *)
(***************************************************************************)

\* The transitions of an operation that is past its authorisation
LateKinds ==
  {"CLAIM_EXECUTION", "READY_MESSAGING_RECOVERY_EXHAUSTED", "EXECUTION_APPLIED",
   "EXECUTION_REQUIRE_VERIFICATION", "EXECUTION_NOT_APPLIED_RETRY",
   "EXECUTION_NOT_APPLIED_FAIL", "EXECUTION_UNKNOWN",
   "EXECUTION_MESSAGING_RECOVERY_EXHAUSTED", "VERIFICATION_APPLIED",
   "VERIFICATION_NOT_APPLIED_RETRY", "VERIFICATION_NOT_APPLIED_FAIL",
   "VERIFICATION_INCONCLUSIVE", "VERIFICATION_ESCALATE", "UNKNOWN_START_VERIFICATION",
   "UNKNOWN_SAFE_RETRY", "UNKNOWN_ESCALATE", "SUCCEEDED_START_COMPENSATION",
   "FAILED_START_COMPENSATION", "MANUAL_START_VERIFICATION", "MANUAL_START_COMPENSATION",
   "COMPENSATION_APPLIED", "COMPENSATION_OUTCOME_UNKNOWN", "COMPENSATION_OUTCOME_FAILED",
   "COMPENSATION_ESCALATE", "COMPENSATION_UNKNOWN_RETRY", "COMPENSATION_UNKNOWN_APPLIED",
   "COMPENSATION_UNKNOWN_ESCALATE", "COMPENSATION_FAILED_RETRY",
   "COMPENSATION_FAILED_ESCALATE"}

LEMMA WorkIsLate == WorkKinds \subseteq LateKinds
BY DEF WorkKinds, LateKinds, Kinds, Edge, PolicyKind, PolicyVerdicts, DecisionKind

LEMMA ExhaustionIsLate ==
  ASSUME NEW state \in DOMAIN ExhaustedKind
  PROVE  ExhaustedKind[state] \in LateKinds /\ Source(ExhaustedKind[state]) = state
BY DEF ExhaustedKind, LateKinds, Source, Edge

LEMMA LateStates ==
  ASSUME NEW kind \in LateKinds
  PROVE  /\ Source(kind) \in OperationStates \ Early
         /\ Target(kind) \in OperationStates \ Early
<1>1. Source(kind) \in {"READY", "EXECUTING", "VERIFYING", "UNKNOWN", "SUCCEEDED", "FAILED",
                        "MANUAL_INTERVENTION", "COMPENSATING", "COMPENSATION_UNKNOWN",
                        "COMPENSATION_FAILED"}
  BY DEF LateKinds, Source, Edge
<1>2. Target(kind) \in {"READY", "EXECUTING", "VERIFYING", "UNKNOWN", "SUCCEEDED", "FAILED",
                        "MANUAL_INTERVENTION", "COMPENSATING", "COMPENSATED",
                        "COMPENSATION_UNKNOWN", "COMPENSATION_FAILED"}
  BY DEF LateKinds, Target, Edge
<1> QED
  BY <1>1, <1>2 DEF OperationStates, Early, Absent

LEMMA JudgementKinds ==
  /\ Source("POLICY_ALLOW") = "PENDING_POLICY" /\ Target("POLICY_ALLOW") = "READY"
  /\ Source("POLICY_DENY") = "PENDING_POLICY" /\ Target("POLICY_DENY") = "DENIED"
  /\ Source("POLICY_REQUIRE_APPROVAL") = "PENDING_POLICY"
  /\ Target("POLICY_REQUIRE_APPROVAL") = "AWAITING_APPROVAL"
  /\ Source("APPROVAL_GRANT") = "AWAITING_APPROVAL" /\ Target("APPROVAL_GRANT") = "READY"
  /\ Source("APPROVAL_REJECT") = "AWAITING_APPROVAL" /\ Target("APPROVAL_REJECT") = "DENIED"
  /\ Source("CANCEL_AWAITING_APPROVAL") = "AWAITING_APPROVAL"
  /\ Target("CANCEL_AWAITING_APPROVAL") = "CANCELLED"
BY DEF Source, Target, Edge

LEMMA JudgementCommands ==
  /\ OutboxCommand("POLICY_ALLOW") = "EXECUTE" /\ OutboxCommand("APPROVAL_GRANT") = "EXECUTE"
  /\ OutboxCommand("POLICY_DENY") = NoCommand
  /\ OutboxCommand("POLICY_REQUIRE_APPROVAL") = NoCommand
  /\ OutboxCommand("APPROVAL_REJECT") = NoCommand
  /\ OutboxCommand("CANCEL_AWAITING_APPROVAL") = NoCommand
BY DEF OutboxCommand, ExecuteKinds, VerifyKinds, CompensateKinds, NoCommand

LEMMA CommandsKnown ==
  ASSUME NEW kind
  PROVE  OutboxCommand(kind) = NoCommand \/ OutboxCommand(kind) \in Commands
BY DEF OutboxCommand, Commands

-----------------------------------------------------------------------------
(***************************************************************************)
(* The trail                                                              *)
(***************************************************************************)
LEMMA GroupsKnown ==
  ASSUME NEW kind
  PROVE  /\ PolicyEvents(kind) \in Seq(EventTypes) /\ ExecutionEvents(kind) \in Seq(EventTypes)
         /\ RecoveryEvents(kind) \in Seq(EventTypes)
         /\ CompensationEvents(kind) \in Seq(EventTypes)
         /\ (IF kind \in Escalations THEN <<"MANUAL_INTERVENTION_REASON">> ELSE << >>)
              \in Seq(EventTypes)
<1>a. << >> \in Seq(EventTypes)
  BY EmptySeq
<1>b. \A first \in EventTypes : <<first>> \in Seq(EventTypes)
  OBVIOUS
<1>c. \A first, second \in EventTypes : <<first, second>> \in Seq(EventTypes)
  OBVIOUS
<1>1. PolicyEvents(kind) \in Seq(EventTypes)
  <2>1. PolicyEvents(kind) \in {<< >>, <<"POLICY_EVALUATED">>, <<"APPROVAL_DECIDED">>,
                                <<"POLICY_EVALUATED", "APPROVAL_REQUESTED">>}
    BY DEF PolicyEvents
  <2>2. {"POLICY_EVALUATED", "APPROVAL_REQUESTED", "APPROVAL_DECIDED"} \subseteq EventTypes
    BY DEF EventTypes
  <2> QED
    BY <1>a, <1>b, <1>c, <2>1, <2>2
<1>2. ExecutionEvents(kind) \in Seq(EventTypes)
  <2>1. ExecutionEvents(kind)
          \in {<< >>, <<"EXECUTION_ATTEMPT_STARTED">>, <<"EXECUTION_EVIDENCE_RECORDED">>,
               <<"EXECUTION_EVIDENCE_RECORDED", "VERIFICATION_STARTED">>}
    BY DEF ExecutionEvents
  <2>2. {"EXECUTION_ATTEMPT_STARTED", "EXECUTION_EVIDENCE_RECORDED", "VERIFICATION_STARTED"}
          \subseteq EventTypes
    BY DEF EventTypes
  <2> QED
    BY <1>a, <1>b, <1>c, <2>1, <2>2
<1>3. RecoveryEvents(kind) \in Seq(EventTypes)
  <2>1. RecoveryEvents(kind)
          \in {<< >>, <<"VERIFICATION_COMPLETED">>, <<"VERIFICATION_STARTED">>,
               <<"OPERATOR_ACTION", "VERIFICATION_STARTED">>, <<"OPERATOR_ACTION">>,
               <<"RECONCILIATION_DECIDED">>}
    BY DEF RecoveryEvents
  <2>2. {"VERIFICATION_COMPLETED", "VERIFICATION_STARTED", "OPERATOR_ACTION",
         "RECONCILIATION_DECIDED"} \subseteq EventTypes
    BY DEF EventTypes
  <2> QED
    BY <1>a, <1>b, <1>c, <2>1, <2>2
<1>4. CompensationEvents(kind) \in Seq(EventTypes)
  <2>1. CompensationEvents(kind)
          \in {<< >>, <<"COMPENSATION_REQUESTED">>, <<"COMPENSATION_RESULT">>,
               <<"OPERATOR_ACTION", "COMPENSATION_REQUESTED">>}
    BY DEF CompensationEvents
  <2>2. {"COMPENSATION_REQUESTED", "COMPENSATION_RESULT", "OPERATOR_ACTION"}
          \subseteq EventTypes
    BY DEF EventTypes
  <2> QED
    BY <1>a, <1>b, <1>c, <2>1, <2>2
<1>5. (IF kind \in Escalations THEN <<"MANUAL_INTERVENTION_REASON">> ELSE << >>)
        \in Seq(EventTypes)
  <2>1. "MANUAL_INTERVENTION_REASON" \in EventTypes
    BY DEF EventTypes
  <2> QED
    BY <1>a, <1>b, <2>1
<1> QED
  BY <1>1, <1>2, <1>3, <1>4, <1>5

LEMMA AuditTypesKnown ==
  ASSUME NEW kind
  PROVE  AuditTypes(kind) \in Seq(EventTypes)
<1>1. \A s, t \in Seq(EventTypes) : s \o t \in Seq(EventTypes)
  BY ConcatProperties
<1> QED
  BY <1>1, GroupsKnown DEF AuditTypes

LEMMA TransitionEventsKnown ==
  ASSUME NEW kind, Source(kind) \in States, Target(kind) \in States,
         NEW types \in Seq(EventTypes), op.version \in Nat
  PROVE  TransitionEvents(kind, types) \in Seq(Events)
<1>1. "OPERATION_TRANSITIONED" \in EventTypes
  BY DEF EventTypes
<1>2. /\ Append(types, "OPERATION_TRANSITIONED") \in Seq(EventTypes)
      /\ Len(Append(types, "OPERATION_TRANSITIONED")) = Len(types) + 1
  BY <1>1, AppendProperties
<1>3. \A i \in 1..(Len(types) + 1) :
        Append(types, "OPERATION_TRANSITIONED")[i] \in EventTypes
  BY <1>2, ElementOfSeq
<1>4. \A type \in EventTypes :
        Event(type, Source(kind), Target(kind), op.version + 1) \in Events
  BY DEF Event, Events
<1>5. Len(types) + 1 \in Nat
  BY LenProperties
<1> QED
  BY <1>3, <1>4, <1>5 DEF TransitionEvents

LEMMA MoveTypes ==
  ASSUME Types, NEW kind, Source(kind) \in States, Target(kind) \in States,
         NEW types \in Seq(EventTypes), Move(kind, types), op.version >= 1
  PROVE  /\ op' \in Rows /\ op'.state = Target(kind) /\ op'.version = op.version + 1
         /\ op'.digest = op.digest /\ op'.bound = (op.bound \/ kind = "POLICY_REQUIRE_APPROVAL")
         /\ trail' \in Seq(Events)
         /\ outbox \subseteq outbox'
         /\ \A row \in outbox' : row.command \in Commands /\ row.version \in 2..op'.version
         /\ OutboxCommand(kind) # NoCommand =>
              [command |-> OutboxCommand(kind), version |-> op.version + 1] \in outbox'
         /\ OutboxCommand(kind) = NoCommand => outbox' = outbox
<1>1. op \in Rows /\ op.version \in Nat /\ op.bound \in BOOLEAN
  BY DEF Types, Rows
<1> DEFINE held == op.bound \/ kind = "POLICY_REQUIRE_APPROVAL"
<1>2. op' = [state |-> Target(kind), version |-> op.version + 1, digest |-> op.digest,
             bound |-> held]
  BY <1>1 DEF Move, Rows
<1>3. held \in BOOLEAN
  OBVIOUS
<1>4. /\ op' \in Rows /\ op'.state = Target(kind) /\ op'.version = op.version + 1
      /\ op'.digest = op.digest /\ op'.bound = held
  <2> HIDE DEF held
  <2> QED
    BY <1>1, <1>2, <1>3 DEF Rows
<1>5. trail' \in Seq(Events)
  <2>1. TransitionEvents(kind, types) \in Seq(Events)
    BY <1>1, TransitionEventsKnown
  <2>2. trail \in Seq(Events)
    BY DEF Types
  <2>3. trail \o TransitionEvents(kind, types) \in Seq(Events)
    BY <2>1, <2>2, ConcatProperties
  <2> QED
    BY <2>3 DEF Move
<1>6. \A row \in outbox : row.command \in Commands /\ row.version \in 2..op'.version
  BY <1>1, <1>4 DEF Types
<1>7. CASE OutboxCommand(kind) = NoCommand
  <2>1. outbox' = outbox
    BY <1>7 DEF Move
  <2> QED
    BY <1>4, <1>5, <1>6, <1>7, <2>1
<1>8. CASE OutboxCommand(kind) # NoCommand
  <2> DEFINE written == [command |-> OutboxCommand(kind), version |-> op.version + 1]
  <2>1. outbox' = outbox \union {written}
    BY <1>8 DEF Move
  <2>2. written.command \in Commands /\ written.version \in 2..op'.version
    BY <1>1, <1>4, <1>8, CommandsKnown
  <2> QED
    BY <1>4, <1>5, <1>6, <1>8, <2>1, <2>2
<1> QED
  BY <1>4, <1>5, <1>7, <1>8

-----------------------------------------------------------------------------
(***************************************************************************)
(* The policy's judgement                                                 *)
(***************************************************************************)
LEMMA LeastHit ==
  ASSUME NEW S \in SUBSET Nat, S # {}
  PROVE  \E least \in S : \A other \in S : least <= other
<1>1. IsWellFoundedOn(OpToRel(<, Nat), Nat)
  BY NatLessThanWellFounded
<1>2. PICK least \in S : \A other \in S : ~(<<other, least>> \in OpToRel(<, Nat))
  BY <1>1, WFMin
<1>3. \A other \in S : ~(other < least)
  BY <1>2 DEF OpToRel
<1> QED
  BY <1>3

LEMMA VerdictKnown ==
  ASSUME NEW rules \in Policies, NEW env
  PROVE  Verdict(rules, env).verdict \in PolicyVerdicts
         /\ Verdict(rules, env).expires \in BOOLEAN
<1>1. rules \in Seq(Rules)
  BY IntakeAssumption
<1> DEFINE hits == {i \in DOMAIN rules :
                      rules[i].environments = {} \/ env \in rules[i].environments}
           first == CHOOSE i \in hits : \A j \in hits : i <= j
<1>2. CASE hits = {}
  BY <1>2 DEF Verdict, PolicyVerdicts
<1>3. CASE hits # {}
  <2>1. hits \in SUBSET Nat
    BY <1>1
  <2>2. \E i \in hits : \A j \in hits : i <= j
    BY <1>3, <2>1, LeastHit
  <2>3. first \in hits
    BY <2>2
  <2>4. first \in 1..Len(rules)
    BY <1>1, <2>3
  <2>5. rules[first] \in Rules
    BY <1>1, <2>4, ElementOfSeq
  <2>6. Verdict(rules, env) = [verdict |-> rules[first].verdict,
                               expires |-> rules[first].expires]
    BY <1>3 DEF Verdict
  <2> QED
    BY <2>5, <2>6 DEF Rules
<1> QED
  BY <1>2, <1>3

-----------------------------------------------------------------------------
(***************************************************************************)
(* What every step keeps                                                  *)
(***************************************************************************)

\* A request keeps what it relies on, whatever the others do meanwhile
LEMMA SessionKeeps ==
  ASSUME NEW s \in Sessions, NEW row \in Rows, NEW grown \in Rows,
         NEW asked, NEW asks, NEW past \in BOOLEAN, NEW passed \in BOOLEAN,
         SessionOK(s, row, asked, past),
         row.version <= grown.version, row.digest # None => grown.digest = row.digest,
         asked # "NONE" => asks # "NONE", past => passed
  PROVE  SessionOK(s, grown, asks, passed)
<1>1. s.op.version \in Nat /\ row.version \in Nat /\ grown.version \in Nat
  BY DEF Sessions, Rows
<1>2. s.op.version <= grown.version
  BY <1>1 DEF SessionOK
<1>3. s.pc \in {"policy", "record"} => s.op.digest = s.digest /\ grown.digest = s.digest
  <2>1. s.pc \in {"policy", "record"} => s.digest \in Digests
    BY DEF SessionOK
  <2>2. None \notin Digests
    BY IntakeAssumption
  <2> QED
    BY <2>1, <2>2 DEF SessionOK
<1> QED
  BY <1>2, <1>3 DEF SessionOK

LEMMA RequestsKeep ==
  ASSUME Types, Types', Requests,
         op.version <= op'.version, op.digest # None => op'.digest = op.digest,
         approval.state # "NONE" => approval'.state # "NONE", late => late'
  PROVE  \A c \in Servers : SessionOK(h[c], op', approval'.state, late')
<1>1. op \in Rows /\ op' \in Rows /\ late \in BOOLEAN /\ late' \in BOOLEAN
  BY DEF Types
<1>2. h \in [Servers -> Sessions]
  BY DEF Requests
<1> SUFFICES ASSUME NEW c \in Servers
             PROVE  SessionOK(h[c], op', approval'.state, late')
  OBVIOUS
<1>3. h[c] \in Sessions
  BY <1>2
<1>4. SessionOK(h[c], op, approval.state, late)
  BY DEF Requests
<1> QED
  BY <1>1, <1>3, <1>4, SessionKeeps

LEMMA RequestTurns ==
  ASSUME Types, Types', Requests,
         op.version <= op'.version, op.digest # None => op'.digest = op.digest,
         approval.state # "NONE" => approval'.state # "NONE", late => late',
         NEW c \in Servers, NEW r \in Sessions, SessionOK(r, op', approval'.state, late'),
         h' = [h EXCEPT ![c] = r]
  PROVE  Requests'
<1>1. h \in [Servers -> Sessions]
  BY DEF Requests
<1>2. \A d \in Servers : SessionOK(h[d], op', approval'.state, late')
  BY RequestsKeep
<1>3. h' \in [Servers -> Sessions]
  BY <1>1
<1>4. \A d \in Servers : SessionOK(h'[d], op', approval'.state, late')
  BY <1>1, <1>2
<1> QED
  BY <1>3, <1>4 DEF Requests

LEMMA RequestsWait ==
  ASSUME Types, Types', Requests,
         op.version <= op'.version, op.digest # None => op'.digest = op.digest,
         approval.state # "NONE" => approval'.state # "NONE", late => late', h' = h
  PROVE  Requests'
<1>1. \A d \in Servers : SessionOK(h[d], op', approval'.state, late')
  BY RequestsKeep
<1> QED
  BY <1>1 DEF Requests

LEMMA IdleFits ==
  ASSUME Types'
  PROVE  Idle \in Sessions /\ SessionOK(Idle, op', approval'.state, late')
<1>1. NoOperation \in Rows /\ NoOperation.version = 0
  BY DEF NoOperation, Rows, States
<1>2. Idle \in Sessions
  BY <1>1 DEF Idle, Sessions, PCs, Jobs
<1>3. op'.version \in Nat
  BY DEF Types, Rows
<1>4. 0 <= op'.version
  BY <1>3
<1>5. Idle.pc = "idle" /\ Idle.job = "NONE" /\ Idle.op.version = 0
  BY <1>1 DEF Idle
<1>6. DOMAIN DecisionKind = {"APPROVED", "REJECTED", "EXPIRED"}
  BY DEF DecisionKind
<1> QED
  BY <1>2, <1>4, <1>5, <1>6 DEF SessionOK

\* A step that answers nobody
LEMMA Silent ==
  ASSUME answer' = Silence
  PROVE  AnswersMatch'
<1>1. answer'.job = "NONE"
  BY DEF Silence
<1> QED
  BY <1>1 DEF AnswersMatch

\* A step of a request, or of the clock, that changes no row
LEMMA RowsStand ==
  ASSUME IntakeInv, UNCHANGED rows, late' \in BOOLEAN
  PROVE  /\ Types' /\ Stages' /\ Judged'
         /\ op.version <= op'.version /\ op'.digest = op.digest
         /\ approval'.state = approval.state
<1>1. op' = op /\ policy' = policy /\ approval' = approval /\ outbox' = outbox /\ trail' = trail
  BY DEF rows
<1>2. Types'
  BY <1>1 DEF IntakeInv, Types
<1>3. Stages' /\ Judged'
  BY <1>1 DEF IntakeInv, Stages, Judged
<1>4. op.version \in Nat
  BY DEF IntakeInv, Types, Rows
<1> QED
  BY <1>1, <1>2, <1>3, <1>4

\* ... of a request that answers nobody
LEMMA StepInSilence ==
  ASSUME IntakeInv, UNCHANGED <<rows, late>>, NEW c \in Servers, NEW r \in Sessions,
         SessionOK(r, op, approval.state, late), Become(c, r)
  PROVE  IntakeInv'
<1>1. late' = late /\ late \in BOOLEAN /\ UNCHANGED rows
  BY DEF IntakeInv, Types
<1>2. /\ Types' /\ Stages' /\ Judged'
      /\ op.version <= op'.version /\ op'.digest = op.digest
      /\ approval'.state = approval.state
  BY <1>1, RowsStand
<1>3. op' = op
  BY DEF rows
<1>4. Types /\ Requests
  BY DEF IntakeInv
<1>5. h' = [h EXCEPT ![c] = r] /\ answer' = Silence
  BY DEF Become
<1>6. SessionOK(r, op', approval'.state, late')
  BY <1>1, <1>2, <1>3
<1>7. Requests'
  <2>1. /\ op.version <= op'.version
        /\ op.digest # None => op'.digest = op.digest
        /\ approval.state # "NONE" => approval'.state # "NONE"
    BY <1>2
  <2>2. late => late'
    BY <1>1
  <2>3. Types'
    BY <1>2
  <2>4. h' = [h EXCEPT ![c] = r]
    BY <1>5
  <2> QED
    BY <1>4, <1>6, <2>1, <2>2, <2>3, <2>4, RequestTurns
<1>8. AnswersMatch'
  BY <1>5, Silent
<1> QED
  BY <1>2, <1>7, <1>8 DEF IntakeInv

\* ... of a request that is answered
LEMMA StepWithAnswer ==
  ASSUME IntakeInv, UNCHANGED <<rows, late>>, NEW c \in Servers, NEW told, Accept(c, told),
         AnswersMatch'
  PROVE  IntakeInv'
<1>1. late' = late /\ late \in BOOLEAN /\ UNCHANGED rows
  BY DEF IntakeInv, Types
<1>2. /\ Types' /\ Stages' /\ Judged'
      /\ op.version <= op'.version /\ op'.digest = op.digest
      /\ approval'.state = approval.state
  BY <1>1, RowsStand
<1>3. Types /\ Requests
  BY DEF IntakeInv
<1>4. h' = [h EXCEPT ![c] = Idle]
  BY DEF Accept
<1>5. Idle \in Sessions /\ SessionOK(Idle, op', approval'.state, late')
  BY <1>2, IdleFits
<1>6. Requests'
  <2>1. /\ op.version <= op'.version
        /\ op.digest # None => op'.digest = op.digest
        /\ approval.state # "NONE" => approval'.state # "NONE"
    BY <1>2
  <2>2. late => late'
    BY <1>1
  <2>3. Types'
    BY <1>2
  <2> QED
    BY <1>3, <1>4, <1>5, <2>1, <2>2, <2>3, RequestTurns
<1> QED
  BY <1>2, <1>6 DEF IntakeInv

LEMMA StepRefused ==
  ASSUME IntakeInv, UNCHANGED <<rows, late>>, NEW c \in Servers, Refuse(c)
  PROVE  IntakeInv'
<1>1. late' = late /\ late \in BOOLEAN /\ UNCHANGED rows
  BY DEF IntakeInv, Types
<1>2. Types'
  BY <1>1, RowsStand
<1>3. op' = op /\ approval' = approval
  BY DEF rows
<1>4. Idle \in Sessions /\ SessionOK(Idle, op, approval.state, late)
  BY <1>1, <1>2, <1>3, IdleFits
<1> QED
  BY <1>4, StepInSilence DEF Refuse

-----------------------------------------------------------------------------
(***************************************************************************)
(* Requests taken up                                                      *)
(***************************************************************************)
LEMMA Opened ==
  ASSUME IntakeInv, NEW c \in Servers
  PROVE  /\ h[c] \in Sessions /\ SessionOK(h[c], op, approval.state, late)
         /\ op \in Rows /\ op.version \in Nat /\ late \in BOOLEAN
BY DEF IntakeInv, Requests, Types, Rows

LEMMA DecisionsNamed ==
  /\ DOMAIN DecisionKind = {"APPROVED", "REJECTED", "EXPIRED"}
  /\ DOMAIN DecisionKind \subseteq Jobs
BY DEF DecisionKind, Jobs

\* A request that takes a snapshot of the operation and goes on
Reading(s, pc, row) == [s EXCEPT !.pc = pc, !.op = row]

LEMMA Snapshot ==
  ASSUME NEW s \in Sessions, NEW pc \in PCs, NEW row \in Rows
  PROVE  /\ Reading(s, pc, row) \in Sessions
         /\ Reading(s, pc, row).pc = pc /\ Reading(s, pc, row).op = row
         /\ Reading(s, pc, row).job = s.job /\ Reading(s, pc, row).actor = s.actor
         /\ Reading(s, pc, row).digest = s.digest /\ Reading(s, pc, row).now = s.now
<1> DEFINE r == [s EXCEPT !.pc = pc, !.op = row]
           t == [s EXCEPT !.pc = pc]
<1>1. t \in Sessions
  BY DEF Sessions
<1>2. r = [t EXCEPT !.op = row]
  OBVIOUS
<1>3. r \in Sessions
  <2> HIDE DEF t, r
  <2> QED
    BY <1>1, <1>2 DEF Sessions
<1>4. /\ r.pc = pc /\ r.op = row /\ r.job = s.job
      /\ r.actor = s.actor /\ r.digest = s.digest /\ r.now = s.now
  BY DEF Sessions
<1>5. Reading(s, pc, row) = r
  BY DEF Reading
<1> HIDE DEF r
<1> QED
  BY <1>3, <1>4, <1>5

LEMMA NewRequest ==
  ASSUME NEW job \in Jobs, NEW pc \in PCs
  PROVE  LET r == [Idle EXCEPT !.job = job, !.pc = pc]
         IN /\ r \in Sessions /\ r.pc = pc /\ r.job = job
            /\ r.op = NoOperation /\ r.op.version = 0
<1>1. NoOperation \in Rows /\ NoOperation.version = 0
  BY DEF NoOperation, Rows, States
<1>2. Idle \in Sessions
  BY <1>1 DEF Idle, Sessions, PCs, Jobs
<1> DEFINE r == [Idle EXCEPT !.job = job, !.pc = pc]
           t == [Idle EXCEPT !.job = job]
<1>3. t \in Sessions
  BY <1>2 DEF Sessions
<1>4. r = [t EXCEPT !.pc = pc]
  OBVIOUS
<1>5. r \in Sessions
  <2> HIDE DEF t, r
  <2> QED
    BY <1>3, <1>4 DEF Sessions
<1>6. r.pc = pc /\ r.job = job /\ r.op = Idle.op
  BY <1>2 DEF Sessions
<1>7. Idle.op = NoOperation
  BY DEF Idle
<1> QED
  BY <1>1, <1>5, <1>6, <1>7

LEMMA NewSubmission ==
  ASSUME NEW digest \in Digests,
         NEW r, r = [Idle EXCEPT !.job = "SUBMIT", !.digest = digest, !.pc = "lookup"]
  PROVE  /\ r \in Sessions /\ r.pc = "lookup" /\ r.job = "SUBMIT" /\ r.digest = digest
         /\ r.op = NoOperation /\ r.op.version = 0
<1>1. NoOperation \in Rows /\ NoOperation.version = 0
  BY DEF NoOperation, Rows, States
<1>2. Idle \in Sessions /\ Idle.op = NoOperation
  BY <1>1 DEF Idle, Sessions, PCs, Jobs
<1> DEFINE t == [Idle EXCEPT !.job = "SUBMIT"]
           u == [t EXCEPT !.digest = digest]
<1>3. t \in Sessions
  BY <1>2 DEF Sessions, Jobs
<1>4. r = [u EXCEPT !.pc = "lookup"]
  OBVIOUS
<1>5. u \in Sessions
  <2> HIDE DEF t
  <2> QED
    BY <1>3 DEF Sessions
<1>6. r \in Sessions
  <2> HIDE DEF u
  <2> QED
    BY <1>4, <1>5 DEF Sessions, PCs
<1>7. r.pc = "lookup" /\ r.job = "SUBMIT" /\ r.digest = digest /\ r.op = Idle.op
  BY <1>2 DEF Sessions
<1> QED
  BY <1>1, <1>2, <1>6, <1>7

LEMMA BeginKeeps ==
  ASSUME IntakeInv, NEW c \in Servers, Request(c)
  PROVE  IntakeInv'
<1>1. op \in Rows /\ op.version \in Nat
  BY Opened
<1>5. ASSUME NEW r, Begin(c, r), r \in Sessions, SessionOK(r, op, approval.state, late)
      PROVE  IntakeInv'
  <2>1. Become(c, r) /\ UNCHANGED <<rows, late>>
    BY <1>5 DEF Begin
  <2> QED
    BY <1>5, <2>1, StepInSilence
<1>6. ASSUME NEW digest \in Digests, Submit(c, digest)
      PROVE  IntakeInv'
  <2>1. CASE digest \in Valid
    <3> DEFINE r == [Idle EXCEPT !.job = "SUBMIT", !.digest = digest, !.pc = "lookup"]
    <3>1. Begin(c, r)
      BY <1>6, <2>1 DEF Submit
    <3>2. /\ r \in Sessions /\ r.pc = "lookup" /\ r.job = "SUBMIT" /\ r.digest = digest
          /\ r.op = NoOperation /\ r.op.version = 0
      BY NewSubmission
    <3> HIDE DEF r
    <3>3. SessionOK(r, op, approval.state, late)
      BY <1>1, <3>2, DecisionsNamed DEF SessionOK
    <3> QED
      BY <1>5, <3>1, <3>2, <3>3
  <2>2. CASE digest \notin Valid
    <3>1. Begin(c, Idle)
      BY <1>6, <2>2 DEF Submit
    <3>2. Refuse(c) /\ UNCHANGED <<rows, late>>
      BY <3>1 DEF Begin, Refuse
    <3> QED
      BY <3>2, StepRefused
  <2> QED
    BY <2>1, <2>2
<1>7. ASSUME NEW decision \in DOMAIN DecisionKind, Decide(c, decision)
      PROVE  IntakeInv'
  <2> DEFINE r == [Idle EXCEPT !.job = decision, !.pc = "load"]
  <2>1. Begin(c, r)
    BY <1>7 DEF Decide
  <2>2. decision \in Jobs /\ "load" \in PCs
    BY <1>7, DecisionsNamed DEF PCs
  <2>4. /\ r \in Sessions /\ r.pc = "load" /\ r.job = decision
        /\ r.op = NoOperation /\ r.op.version = 0
    BY <2>2, NewRequest
  <2> HIDE DEF r
  <2>3. SessionOK(r, op, approval.state, late)
    BY <1>1, <1>7, <2>4, DecisionsNamed DEF SessionOK
  <2> QED
    BY <1>5, <2>1, <2>4, <2>3
<1>8. ASSUME RequestVerification(c)
      PROVE  IntakeInv'
  <2> DEFINE r == [Idle EXCEPT !.job = "VERIFY", !.pc = "operator"]
  <2>1. Begin(c, r)
    BY <1>8 DEF RequestVerification
  <2>2. "VERIFY" \in Jobs /\ "operator" \in PCs
    BY DEF Jobs, PCs
  <2>4. /\ r \in Sessions /\ r.pc = "operator" /\ r.job = "VERIFY"
        /\ r.op = NoOperation /\ r.op.version = 0
    BY <2>2, NewRequest
  <2> HIDE DEF r
  <2>3. SessionOK(r, op, approval.state, late)
    BY <1>1, <2>4, DecisionsNamed DEF SessionOK
  <2> QED
    BY <1>5, <2>1, <2>4, <2>3
<1> QED
  BY <1>6, <1>7, <1>8 DEF Request

\* A request goes on without a new snapshot
LEMMA GotoFits ==
  ASSUME IntakeInv, NEW c \in Servers, NEW pc,
         \/ h[c].pc = "lookup" /\ pc = "insert"
         \/ h[c].pc = "insert" /\ pc = "reread"
         \/ h[c].pc = "decide" /\ pc = "reload"
  PROVE  /\ [h[c] EXCEPT !.pc = pc] \in Sessions
         /\ SessionOK([h[c] EXCEPT !.pc = pc], op, approval.state, late)
<1>1. h[c] \in Sessions /\ SessionOK(h[c], op, approval.state, late)
  BY Opened
<1>2. pc \in PCs
  BY DEF PCs
<1> DEFINE r == [h[c] EXCEPT !.pc = pc]
<1>3. r \in Sessions
  BY <1>1, <1>2 DEF Sessions
<1>4. /\ r.pc = pc /\ r.job = h[c].job /\ r.actor = h[c].actor /\ r.digest = h[c].digest
      /\ r.op = h[c].op /\ r.now = h[c].now /\ r.verdict = h[c].verdict
  BY <1>1 DEF Sessions
<1> HIDE DEF r
<1>5. SessionOK(r, op, approval.state, late)
  BY <1>1, <1>4 DEF SessionOK
<1> QED
  BY <1>3, <1>5 DEF r

\* A submission takes a snapshot of the operation of its own intent
LEMMA TakeOverKeeps ==
  ASSUME IntakeInv, NEW c \in Servers, h[c].pc \in {"lookup", "reread"},
         TakeOver(c), UNCHANGED <<rows, late>>
  PROVE  IntakeInv'
<1>1. h[c] \in Sessions /\ SessionOK(h[c], op, approval.state, late) /\ op \in Rows
      /\ op.version \in Nat
  BY Opened
<1>2. CASE op.digest = h[c].digest
  <2> DEFINE r == Reading(h[c], "policy", op)
  <2>1. "policy" \in PCs
    BY DEF PCs
  <2>2. Become(c, r)
    BY <1>2 DEF TakeOver, Reading
  <2>3. /\ r \in Sessions /\ r.pc = "policy" /\ r.op = op /\ r.job = h[c].job
        /\ r.digest = h[c].digest
    <3>1. h[c] \in Sessions /\ op \in Rows
      BY <1>1
    <3> QED
      BY <2>1, <3>1, Snapshot
  <2> HIDE DEF r
  <2>5. op.state # Absent
    <3>1. h[c].digest \in Digests
      BY <1>1 DEF SessionOK
    <3>2. op.digest # None
      BY <1>2, <3>1, IntakeAssumption
    <3> QED
      BY <3>2 DEF IntakeInv, Stages
  <2>4. SessionOK(r, op, approval.state, late)
    BY <1>1, <1>2, <2>3, <2>5 DEF SessionOK
  <2> QED
    BY <2>2, <2>3, <2>4, StepInSilence
<1>3. CASE op.digest # h[c].digest
  BY <1>3, StepRefused DEF TakeOver
<1> QED
  BY <1>2, <1>3

LEMMA LookupKeeps ==
  ASSUME IntakeInv, NEW c \in Servers, Lookup(c)
  PROVE  IntakeInv'
<1>1. h[c].pc = "lookup" /\ UNCHANGED <<rows, late>>
  BY DEF Lookup
<1>2. CASE op.state = Absent
  <2>1. Become(c, [h[c] EXCEPT !.pc = "insert"])
    BY <1>2 DEF Lookup, Goto
  <2> QED
    BY <1>1, <2>1, GotoFits, StepInSilence
<1>3. CASE op.state # Absent
  <2>1. TakeOver(c)
    BY <1>3 DEF Lookup
  <2> QED
    BY <1>1, <2>1, TakeOverKeeps
<1> QED
  BY <1>2, <1>3

LEMMA RereadKeeps ==
  ASSUME IntakeInv, NEW c \in Servers, Reread(c)
  PROVE  IntakeInv'
<1>1. h[c].pc = "reread" /\ UNCHANGED <<rows, late>> /\ TakeOver(c)
  BY DEF Reread
<1> QED
  BY <1>1, TakeOverKeeps

\* The operation comes into being: nothing is judged, nothing is commanded
LEMMA InsertKeeps ==
  ASSUME IntakeInv, NEW c \in Servers, Insert(c)
  PROVE  IntakeInv'
<1>1. h[c].pc = "insert" /\ late' = late
  BY DEF Insert
<1>2. h[c] \in Sessions /\ SessionOK(h[c], op, approval.state, late) /\ late \in BOOLEAN
  BY Opened
<1>3. CASE op.state # Absent
  <2>1. Become(c, [h[c] EXCEPT !.pc = "reread"]) /\ UNCHANGED <<rows, late>>
    BY <1>1, <1>3 DEF Insert, Goto
  <2> QED
    BY <1>1, <2>1, GotoFits, StepInSilence
<1>4. CASE op.state = Absent
  <2> DEFINE created == [state |-> "PENDING_POLICY", version |-> 1,
                         digest |-> h[c].digest, bound |-> FALSE]
             r == Reading(h[c], "policy", created)
  <2>1. /\ op' = created /\ Become(c, r)
        /\ trail' = << Event("OPERATION_CREATED", Absent, "PENDING_POLICY", 1) >>
        /\ UNCHANGED <<policy, approval, outbox>>
    BY <1>4 DEF Insert, Reading
  <2>2. h[c].job = "SUBMIT" /\ h[c].digest \in Digests /\ h[c].digest # None
    <3>1. h[c].job = "SUBMIT" /\ h[c].digest \in Digests
      BY <1>1, <1>2 DEF SessionOK
    <3> QED
      BY <3>1, IntakeAssumption
  <2>3. created \in Rows
    BY <2>2 DEF Rows, States, OperationStates
  <2>4. /\ created.state = "PENDING_POLICY" /\ created.version = 1
        /\ created.digest = h[c].digest /\ created.bound = FALSE
    OBVIOUS
  <2> HIDE DEF created
  <2>5. "policy" \in PCs
    BY DEF PCs
  <2>6. /\ r \in Sessions /\ r.pc = "policy" /\ r.op = created /\ r.job = h[c].job
        /\ r.digest = h[c].digest
    BY <1>2, <2>3, <2>5, Snapshot
  <2> HIDE DEF r
  <2>7. op.version = 0 /\ op.digest = None
    BY <1>4 DEF IntakeInv, Stages
  <2>8. policy.verdict = "NONE" /\ approval.state = "NONE" /\ outbox = {}
    BY <1>4, <2>7 DEF IntakeInv, Judged, Early
  <2>9. "PENDING_POLICY" \in Early /\ "PENDING_POLICY" # Absent
    BY DEF Early, Absent
  <2>10. Types'
    <3>1. Event("OPERATION_CREATED", Absent, "PENDING_POLICY", 1) \in Events
      BY DEF Event, Events, EventTypes, States, OperationStates
    <3>2. trail' \in Seq(Events)
      BY <2>1, <3>1
    <3> QED
      BY <1>1, <1>2, <2>1, <2>3, <2>8, <3>2 DEF IntakeInv, Types
  <2>11. Stages'
    BY <2>1, <2>2, <2>4, <2>9 DEF Stages
  <2>12. Judged'
    BY <2>1, <2>4, <2>8, <2>9 DEF Judged
  <2>13. SessionOK(r, op', approval'.state, late')
    <3>1. SessionOK(r, created, approval.state, late)
      BY <1>2, <2>2, <2>4, <2>6, <2>9, DecisionsNamed DEF SessionOK
    <3> QED
      BY <1>1, <2>1, <3>1
  <2>14. Requests'
    <3>1. /\ op.version <= op'.version
          /\ op.digest # None => op'.digest = op.digest
          /\ approval.state # "NONE" => approval'.state # "NONE"
      BY <2>1, <2>4, <2>7
    <3>2. late => late'
      BY <1>1
    <3>3. Types /\ Requests
      BY DEF IntakeInv
    <3>4. h' = [h EXCEPT ![c] = r]
      BY <2>1 DEF Become
    <3> QED
      BY <2>6, <2>10, <2>13, <3>1, <3>2, <3>3, <3>4, RequestTurns
  <2>15. AnswersMatch'
    <3>1. answer' = Silence
      BY <2>1 DEF Become
    <3> QED
      BY <3>1, Silent
  <2> QED
    BY <2>10, <2>11, <2>12, <2>14, <2>15 DEF IntakeInv
<1> QED
  BY <1>3, <1>4

\* A submission is answered with the snapshot of its own intent
LEMMA ToldOfOwnIntent ==
  ASSUME IntakeInv, NEW c \in Servers, h[c].pc \in {"policy", "record"},
         NEW told, told = h[c].digest, Accept(c, told), op'.digest = op.digest
  PROVE  AnswersMatch'
<1>1. SessionOK(h[c], op, approval.state, late)
  BY Opened
<1>2. h[c].job = "SUBMIT" /\ op.digest = h[c].digest
  BY <1>1 DEF SessionOK
<1>3. answer'.job = "SUBMIT" /\ answer'.digest = h[c].digest /\ answer'.told = h[c].digest
  BY <1>2 DEF Accept
<1> QED
  BY <1>2, <1>3 DEF AnswersMatch

LEMMA EvaluateKeeps ==
  ASSUME IntakeInv, NEW c \in Servers, Evaluate(c) \/ EngineFails(c)
  PROVE  IntakeInv'
<1>1. h[c].pc = "policy" /\ UNCHANGED <<rows, late>>
  BY DEF Evaluate, EngineFails
<1>2. h[c] \in Sessions /\ SessionOK(h[c], op, approval.state, late)
  BY Opened
<1>3. CASE TellOperation(c, h[c].op)
  <2>1. Accept(c, h[c].op.digest) /\ h[c].op.digest = h[c].digest
    BY <1>1, <1>2, <1>3 DEF TellOperation, SessionOK
  <2>2. op'.digest = op.digest
    BY <1>1 DEF rows
  <2>3. AnswersMatch'
    BY <1>1, <2>1, <2>2, ToldOfOwnIntent
  <2> QED
    BY <1>1, <2>1, <2>3, StepWithAnswer
<1>4. ASSUME NEW rules \in Policies, NEW env \in Environments,
             Become(c, [h[c] EXCEPT !.pc = "record", !.verdict = Verdict(rules, env).verdict,
                                    !.expires = Verdict(rules, env).expires])
      PROVE  IntakeInv'
  <2> DEFINE t == [h[c] EXCEPT !.pc = "record"]
             u == [t EXCEPT !.verdict = Verdict(rules, env).verdict]
             r == [u EXCEPT !.expires = Verdict(rules, env).expires]
  <2>1. Verdict(rules, env).verdict \in PolicyVerdicts /\ Verdict(rules, env).expires \in BOOLEAN
    BY VerdictKnown
  <2>2. Become(c, r)
    BY <1>4
  <2>3. t \in Sessions
    BY <1>2 DEF Sessions, PCs
  <2>4. u \in Sessions
    <3> HIDE DEF t
    <3> QED
      BY <2>1, <2>3 DEF Sessions
  <2>5. r \in Sessions
    <3> HIDE DEF u
    <3> QED
      BY <2>1, <2>4 DEF Sessions
  <2>6. /\ r.pc = "record" /\ r.verdict = Verdict(rules, env).verdict /\ r.job = h[c].job
        /\ r.digest = h[c].digest /\ r.op = h[c].op
    BY <1>2 DEF Sessions
  <2> HIDE DEF r
  <2>7. SessionOK(r, op, approval.state, late)
    BY <1>1, <1>2, <2>1, <2>6 DEF SessionOK
  <2> QED
    BY <1>1, <2>2, <2>5, <2>7, StepInSilence
<1>5. CASE Evaluate(c)
  BY <1>3, <1>4, <1>5 DEF Evaluate
<1>6. CASE EngineFails(c)
  BY <1>3, <1>6 DEF EngineFails
<1> QED
  BY <1>5, <1>6

-----------------------------------------------------------------------------
(***************************************************************************)
(* Decisions and the operator's request, as far as they only read         *)
(***************************************************************************)
LEMMA LoadKeeps ==
  ASSUME IntakeInv, NEW c \in Servers, LoadOperation(c)
  PROVE  IntakeInv'
<1>1. h[c].pc \in {"load", "reload"} /\ UNCHANGED <<rows, late>>
  BY DEF LoadOperation
<1>2. /\ h[c] \in Sessions /\ SessionOK(h[c], op, approval.state, late)
      /\ op \in Rows /\ op.version \in Nat
  BY Opened
<1> DEFINE pc == IF h[c].pc = "load" THEN "check" ELSE "settle"
           r == Reading(h[c], pc, op)
<1>3. Become(c, r)
  BY DEF LoadOperation, Reading
<1>4. /\ pc \in PCs
      /\ \/ h[c].pc = "load" /\ pc = "check"
         \/ h[c].pc = "reload" /\ pc = "settle"
  BY <1>1 DEF PCs
<1> HIDE DEF pc
<1>5. /\ r \in Sessions /\ r.pc = pc /\ r.op = op /\ r.job = h[c].job
      /\ r.actor = h[c].actor /\ r.digest = h[c].digest /\ r.now = h[c].now
  BY <1>2, <1>4, Snapshot
<1> HIDE DEF r
<1>6. SessionOK(r, op, approval.state, late)
  BY <1>2, <1>4, <1>5 DEF SessionOK
<1> QED
  BY <1>1, <1>3, <1>5, <1>6, StepInSilence

\* What the row of a decided approval says of the operation and of the outbox
LEMMA DecidedIsDone ==
  ASSUME IntakeInv, approval.state \in DOMAIN DecisionKind
  PROVE  /\ approval.state = "APPROVED" =>
              [command |-> "EXECUTE", version |-> approval.version + 1] \in outbox
         /\ approval.state = "REJECTED" => op.state = "DENIED"
         /\ approval.state = "EXPIRED" => op.state = "CANCELLED"
BY DEF IntakeInv, Judged

\* A decision is answered with what the approval's row says
LEMMA ToldOfDecision ==
  ASSUME IntakeInv, UNCHANGED <<rows, late>>, NEW c \in Servers,
         h[c].job \in DOMAIN DecisionKind, approval.state = h[c].job, Accept(c, None)
  PROVE  IntakeInv'
<1>1. /\ approval.state = "APPROVED" =>
           [command |-> "EXECUTE", version |-> approval.version + 1] \in outbox
      /\ approval.state = "REJECTED" => op.state = "DENIED"
      /\ approval.state = "EXPIRED" => op.state = "CANCELLED"
  BY DecidedIsDone
<1>2. op' = op /\ approval' = approval /\ outbox' = outbox
  BY DEF rows
<1>3. answer'.job = h[c].job
  BY DEF Accept
<1>4. h[c].job # "SUBMIT"
  BY DecisionsNamed
<1>5. AnswersMatch'
  BY <1>1, <1>2, <1>3, <1>4 DEF AnswersMatch
<1> QED
  BY <1>5, StepWithAnswer

LEMMA CheckKeeps ==
  ASSUME IntakeInv, NEW c \in Servers, CheckApproval(c)
  PROVE  IntakeInv'
<1>1. h[c].pc = "check" /\ UNCHANGED <<rows, late>>
  BY DEF CheckApproval
<1>2. /\ h[c] \in Sessions /\ SessionOK(h[c], op, approval.state, late)
      /\ op \in Rows /\ op.version \in Nat /\ late \in BOOLEAN
  BY Opened
<1>3. h[c].job \in DOMAIN DecisionKind
  BY <1>1, <1>2 DEF SessionOK
<1> DEFINE Decides(actor) ==
             Become(c, [h[c] EXCEPT !.pc = "decide", !.actor = actor, !.now = late,
                                    !.op = NoOperation])
<1>4. PICK actor \in Deciders(h[c].job) :
        \/ Refuse(c)
        \/ approval.state = h[c].job /\ Accept(c, None)
        \/ /\ ~Unbound(h[c].op, approval) /\ actor \in Approvers \union {None}
           /\ Decides(actor)
  BY DEF CheckApproval
<1>5. CASE Refuse(c)
  BY <1>1, <1>5, StepRefused
<1>6. CASE approval.state = h[c].job /\ Accept(c, None)
  BY <1>1, <1>3, <1>6, ToldOfDecision
<1>7. CASE ~Unbound(h[c].op, approval) /\ actor \in Approvers \union {None} /\ Decides(actor)
  <2> DEFINE t == [h[c] EXCEPT !.pc = "decide"]
             u == [t EXCEPT !.actor = actor]
             v == [u EXCEPT !.now = late]
             r == [v EXCEPT !.op = NoOperation]
  <2>1. Become(c, r)
    BY <1>7
  <2>2. actor \in Principals \union {None}
    BY DEF Deciders
  <2>3. NoOperation \in Rows /\ NoOperation.version = 0
    BY DEF NoOperation, Rows, States
  <2>4. t \in Sessions
    BY <1>2 DEF Sessions, PCs
  <2>5. u \in Sessions
    <3> HIDE DEF t
    <3> QED
      BY <2>2, <2>4 DEF Sessions
  <2>6. v \in Sessions
    <3> HIDE DEF u
    <3> QED
      BY <1>2, <2>5 DEF Sessions
  <2>7. r \in Sessions
    <3> HIDE DEF v
    <3> QED
      BY <2>3, <2>6 DEF Sessions
  <2>8. /\ r.pc = "decide" /\ r.actor = actor /\ r.now = late /\ r.job = h[c].job
        /\ r.digest = h[c].digest /\ r.op = NoOperation
    BY <1>2 DEF Sessions
  <2> HIDE DEF r
  <2>9. approval.state # "NONE"
    BY <1>7 DEF Unbound
  <2>10. actor \in IF h[c].job = "EXPIRED" THEN {None} ELSE Approvers
    <3>1. None \notin Principals
      BY IntakeAssumption
    <3> QED
      BY <1>7, <3>1 DEF Deciders
  <2>11. SessionOK(r, op, approval.state, late)
    BY <1>2, <1>3, <2>3, <2>8, <2>9, <2>10, DecisionsNamed DEF SessionOK
  <2> QED
    BY <1>1, <2>1, <2>7, <2>11, StepInSilence
<1> QED
  BY <1>4, <1>5, <1>6, <1>7

LEMMA SettleKeeps ==
  ASSUME IntakeInv, NEW c \in Servers, Settle(c)
  PROVE  IntakeInv'
<1>1. h[c].pc = "settle" /\ UNCHANGED <<rows, late>>
  BY DEF Settle
<1>2. SessionOK(h[c], op, approval.state, late)
  BY Opened
<1>3. h[c].job \in DOMAIN DecisionKind
  BY <1>1, <1>2 DEF SessionOK
<1>4. CASE approval.state = h[c].job /\ Accept(c, None)
  BY <1>1, <1>3, <1>4, ToldOfDecision
<1>5. CASE Refuse(c)
  BY <1>1, <1>5, StepRefused
<1> QED
  BY <1>4, <1>5 DEF Settle

LEMMA LoadManualKeeps ==
  ASSUME IntakeInv, NEW c \in Servers, LoadManual(c)
  PROVE  IntakeInv'
<1>1. h[c].pc = "operator" /\ UNCHANGED <<rows, late>>
  BY DEF LoadManual
<1>2. /\ h[c] \in Sessions /\ SessionOK(h[c], op, approval.state, late)
      /\ op \in Rows /\ op.version \in Nat
  BY Opened
<1>3. CASE op.state = "MANUAL_INTERVENTION"
  <2> DEFINE r == Reading(h[c], "verify", op)
  <2>1. Become(c, r)
    BY <1>3 DEF LoadManual, Reading
  <2>2. "verify" \in PCs /\ op.state # Absent
    BY <1>3 DEF PCs, Absent
  <2>3. /\ r \in Sessions /\ r.pc = "verify" /\ r.op = op /\ r.job = h[c].job
        /\ r.digest = h[c].digest
    BY <1>2, <2>2, Snapshot
  <2> HIDE DEF r
  <2>4. SessionOK(r, op, approval.state, late)
    BY <1>1, <1>2, <2>2, <2>3 DEF SessionOK
  <2> QED
    BY <1>1, <2>1, <2>3, <2>4, StepInSilence
<1>4. CASE op.state # "MANUAL_INTERVENTION"
  BY <1>1, <1>4, StepRefused DEF LoadManual
<1> QED
  BY <1>3, <1>4

LEMMA CrashKeeps ==
  ASSUME IntakeInv, NEW c \in Servers, Crash(c)
  PROVE  IntakeInv'
<1>1. Refuse(c) /\ UNCHANGED <<rows, late>>
  BY DEF Crash, Refuse
<1> QED
  BY <1>1, StepRefused

LEMMA PassDeadlineKeeps ==
  ASSUME IntakeInv, PassDeadline
  PROVE  IntakeInv'
<1>1. late' = TRUE /\ UNCHANGED rows /\ h' = h /\ answer' = Silence
  BY DEF PassDeadline
<1>2. late' \in BOOLEAN /\ (late => late')
  BY <1>1
<1>3. /\ Types' /\ Stages' /\ Judged'
      /\ op.version <= op'.version /\ op'.digest = op.digest
      /\ approval'.state = approval.state
  BY <1>1, <1>2, RowsStand
<1>4. Requests'
  <2>1. Types /\ Requests
    BY DEF IntakeInv
  <2>2. approval.state # "NONE" => approval'.state # "NONE"
    BY <1>3
  <2> QED
    BY <1>1, <1>2, <1>3, <2>1, <2>2, RequestsWait
<1>5. AnswersMatch'
  BY <1>1, Silent
<1> QED
  BY <1>3, <1>4, <1>5 DEF IntakeInv

-----------------------------------------------------------------------------
(***************************************************************************)
(* Transitions past the authorisation                                     *)
(***************************************************************************)
LEMMA LateMove ==
  ASSUME IntakeInv, NEW kind \in LateKinds, NEW types \in Seq(EventTypes),
         op.state = Source(kind), Move(kind, types), UNCHANGED <<policy, approval, late>>
  PROVE  /\ Types' /\ Stages' /\ Judged'
         /\ op.version <= op'.version /\ op'.digest = op.digest
<1>1. /\ op \in Rows /\ op.version \in Nat /\ policy \in Judgements /\ approval \in Approvals
      /\ late \in BOOLEAN
  BY DEF IntakeInv, Types, Rows
<1>2. op.state \notin Early /\ Target(kind) \notin Early
  BY LateStates
<1>3. Source(kind) \in States /\ Target(kind) \in States
  BY LateStates DEF States
<1>4. op.version >= 2 /\ op.digest # None
  BY <1>1, <1>2 DEF IntakeInv, Stages, Early
<1>5. /\ op' \in Rows /\ op'.state = Target(kind) /\ op'.version = op.version + 1
      /\ op'.digest = op.digest
      /\ trail' \in Seq(Events)
      /\ outbox \subseteq outbox'
      /\ \A row \in outbox' : row.command \in Commands /\ row.version \in 2..op'.version
  <2>1. Types /\ op.version >= 1
    BY <1>1, <1>4 DEF IntakeInv
  <2> QED
    BY <1>3, <2>1, MoveTypes
<1>6. policy' = policy /\ approval' = approval /\ late' = late
  OBVIOUS
<1>7. Types'
  BY <1>1, <1>5, <1>6 DEF IntakeInv, Types
<1>8. Stages'
  BY <1>1, <1>2, <1>4, <1>5 DEF Stages, Early
<1>9. Judged'
  <2>1. /\ op.state \notin {"AWAITING_APPROVAL", "DENIED", "CANCELLED"}
        /\ op'.state \notin {"AWAITING_APPROVAL", "DENIED", "CANCELLED"}
        /\ op'.state \notin Early
        /\ op.version > 1 /\ op'.version > 1
    BY <1>1, <1>2, <1>4, <1>5 DEF Early
  <2>2. Judged
    BY DEF IntakeInv
  <2>3. ~(op.version <= 1) /\ ~(op'.version <= 1)
    BY <1>1, <1>5, <2>1
  <2> QED
    BY <1>5, <1>6, <2>1, <2>2, <2>3 DEF Judged
<1> QED
  BY <1>1, <1>5, <1>7, <1>8, <1>9

LEMMA WorkKeeps ==
  ASSUME IntakeInv, NEW kind \in LateKinds, NEW types \in Seq(EventTypes),
         op.state = Source(kind), Move(kind, types), UNCHANGED <<policy, approval, late, h>>,
         answer' = Silence
  PROVE  IntakeInv'
<1>1. /\ Types' /\ Stages' /\ Judged'
      /\ op.version <= op'.version /\ op'.digest = op.digest
  BY LateMove
<1>2. Requests'
  <2>1. Types /\ Requests
    BY DEF IntakeInv
  <2>2. h' = h /\ (late => late')
    OBVIOUS
  <2>3. approval.state # "NONE" => approval'.state # "NONE"
    OBVIOUS
  <2> QED
    BY <1>1, <2>1, <2>2, <2>3, RequestsWait
<1>3. AnswersMatch'
  BY Silent
<1> QED
  BY <1>1, <1>2, <1>3 DEF IntakeInv

LEMMA StartVerificationKeeps ==
  ASSUME IntakeInv, NEW c \in Servers, StartVerification(c)
  PROVE  IntakeInv'
<1> DEFINE kind == "MANUAL_START_VERIFICATION"
<1>1. Refuse(c) /\ late' = late
  BY DEF StartVerification, Refuse
<1>2. CASE UNCHANGED rows
  BY <1>1, <1>2, StepRefused
<1>3. CASE /\ ApplyResult(kind, h[c].op.version, TRUE) = "APPLIED"
           /\ Commit(kind) /\ UNCHANGED <<policy, approval>>
  <2>1. op.state = Source(kind)
    BY <1>3 DEF ApplyResult
  <2>2. kind \in LateKinds
    BY DEF LateKinds
  <2>3. AuditTypes(kind) \in Seq(EventTypes)
    BY AuditTypesKnown
  <2>4. Move(kind, AuditTypes(kind)) /\ UNCHANGED <<policy, approval, late>>
    BY <1>1, <1>3 DEF Commit
  <2>5. /\ Types' /\ Stages' /\ Judged'
        /\ op.version <= op'.version /\ op'.digest = op.digest
    <3> HIDE DEF kind
    <3> QED
      BY <2>1, <2>2, <2>3, <2>4, LateMove
  <2>6. Requests'
    <3>1. Types /\ Requests
      BY DEF IntakeInv
    <3>2. h' = [h EXCEPT ![c] = Idle] /\ (late => late')
      BY <1>1 DEF Refuse, Become
    <3>3. approval.state # "NONE" => approval'.state # "NONE"
      BY <1>3
    <3>4. Idle \in Sessions /\ SessionOK(Idle, op', approval'.state, late')
      BY <2>5, IdleFits
    <3> QED
      BY <2>5, <3>1, <3>2, <3>3, <3>4, RequestTurns
  <2>7. AnswersMatch'
    BY <1>1, Silent DEF Refuse, Become
  <2> QED
    BY <2>5, <2>6, <2>7 DEF IntakeInv
<1> QED
  BY <1>2, <1>3 DEF StartVerification

\* The steps of a compensation add to the trail and to the outbox
LEMMA ProgressKeeps ==
  ASSUME IntakeInv, Progress
  PROVE  IntakeInv'
<1>1. /\ op.state = "COMPENSATING" /\ answer' = Silence /\ h' = h
      /\ op' = op /\ policy' = policy /\ approval' = approval /\ late' = late
  BY DEF Progress
<1>2. /\ op \in Rows /\ op.version \in Nat /\ policy \in Judgements /\ approval \in Approvals
      /\ late \in BOOLEAN /\ trail \in Seq(Events)
  BY DEF IntakeInv, Types, Rows
<1>3. op.version >= 2
  BY <1>1, <1>2 DEF IntakeInv, Stages, Absent
<1>4. PICK step \in ProgressSteps :
        /\ trail' = trail \o [i \in DOMAIN step.types |->
                                Event(step.types[i], op.state, op.state, op.version)]
        /\ outbox' = IF step.command = NoCommand THEN outbox
                     ELSE outbox \union {[command |-> step.command, version |-> op.version]}
  BY DEF Progress
<1>5. /\ step.types \in Seq(EventTypes)
      /\ step.command = NoCommand \/ step.command \in Commands
  <2>1. /\ \A first \in EventTypes : <<first>> \in Seq(EventTypes)
        /\ \A first, second \in EventTypes : <<first, second>> \in Seq(EventTypes)
    OBVIOUS
  <2>2. {"COMPENSATION_ATTEMPTED", "COMPENSATION_RESULT", "VERIFICATION_COMPLETED"}
          \subseteq EventTypes
    BY DEF EventTypes
  <2>3. step.types \in {<<"COMPENSATION_ATTEMPTED">>, <<"COMPENSATION_RESULT">>,
                        <<"VERIFICATION_COMPLETED", "COMPENSATION_ATTEMPTED">>}
    BY DEF ProgressSteps, Step
  <2>4. step.command \in {NoCommand, "VERIFY", "COMPENSATE"}
    BY DEF ProgressSteps, Step
  <2> QED
    BY <2>1, <2>2, <2>3, <2>4 DEF Commands
<1>6. trail' \in Seq(Events)
  <2> DEFINE added == [i \in DOMAIN step.types |->
                         Event(step.types[i], op.state, op.state, op.version)]
  <2>1. DOMAIN step.types = 1..Len(step.types) /\ Len(step.types) \in Nat
    BY <1>5, LenProperties
  <2>2. \A i \in 1..Len(step.types) : step.types[i] \in EventTypes
    BY <1>5, ElementOfSeq
  <2>3. \A type \in EventTypes : Event(type, op.state, op.state, op.version) \in Events
    BY <1>2 DEF Event, Events, Rows
  <2>4. added \in Seq(Events)
    BY <2>1, <2>2, <2>3
  <2>5. trail \o added \in Seq(Events)
    BY <1>2, <2>4, ConcatProperties
  <2> QED
    BY <1>4, <2>5
<1>7. /\ outbox \subseteq outbox'
      /\ \A row \in outbox' : row.command \in Commands /\ row.version \in 2..op.version
  <2>1. \A row \in outbox : row.command \in Commands /\ row.version \in 2..op.version
    BY DEF IntakeInv, Types
  <2>2. CASE step.command = NoCommand
    BY <1>4, <2>1, <2>2
  <2>3. CASE step.command \in Commands
    <3> DEFINE written == [command |-> step.command, version |-> op.version]
    <3>1. outbox' \in {outbox, outbox \union {written}}
      BY <1>4
    <3>2. written.command \in Commands /\ written.version \in 2..op.version
      BY <1>2, <1>3, <2>3
    <3> QED
      BY <2>1, <3>1, <3>2
  <2> QED
    BY <1>5, <2>2, <2>3
<1>8. Types'
  BY <1>1, <1>2, <1>6, <1>7 DEF IntakeInv, Types
<1>9. Stages'
  BY <1>1 DEF IntakeInv, Stages
<1>10. Judged'
  <2>1. op.state \notin Early
    BY <1>1 DEF Early, Absent
  <2> QED
    BY <1>1, <1>7, <2>1 DEF IntakeInv, Judged
<1>11. Requests'
  <2>1. Types /\ Requests
    BY DEF IntakeInv
  <2>2. late => late'
    BY <1>1
  <2>3. op.version <= op'.version /\ (op.digest # None => op'.digest = op.digest)
    BY <1>1, <1>2
  <2>4. approval.state # "NONE" => approval'.state # "NONE"
    BY <1>1
  <2> QED
    BY <1>1, <1>8, <2>1, <2>2, <2>3, <2>4, RequestsWait
<1>12. AnswersMatch'
  BY <1>1, Silent
<1> QED
  BY <1>8, <1>9, <1>10, <1>11, <1>12 DEF IntakeInv

-----------------------------------------------------------------------------
(***************************************************************************)
(* The judgement of the policy and the decision of the approver           *)
(***************************************************************************)
LEMMA Results ==
  ASSUME IntakeInv, NEW kind, NEW version \in Nat, NEW precondition
  PROVE  /\ ApplyResult(kind, version, precondition)
              \in {"APPLIED", "ALREADY_APPLIED", "REJECTED", "CONFLICT"}
         /\ ApplyResult(kind, version, precondition) = "APPLIED" =>
              op.version = version /\ op.state = Source(kind) /\ precondition
         /\ ApplyResult(kind, version, precondition) = "ALREADY_APPLIED" =>
              op.state = Target(kind)
<1>1. op.version \in Nat
  BY DEF IntakeInv, Types, Rows
<1> QED
  BY <1>1 DEF ApplyResult

LEMMA JudgementKeeps ==
  ASSUME IntakeInv, NEW c \in Servers, h[c].pc = "record", late' = late,
         NEW kind, kind = PolicyKind[h[c].verdict],
         op.state = Source(kind), Commit(kind),
         policy' = [verdict |-> h[c].verdict, version |-> op.version],
         approval' = IF h[c].verdict = "REQUIRE_APPROVAL"
                     THEN [state |-> "PENDING", version |-> op.version + 1,
                           expires |-> h[c].expires, inTime |-> FALSE, by |-> None]
                     ELSE approval,
         TellOperation(c, op)
  PROVE  IntakeInv'
<1>1. /\ h[c] \in Sessions /\ SessionOK(h[c], op, approval.state, late)
      /\ op \in Rows /\ late \in BOOLEAN
  BY Opened
<1>2. h[c].verdict \in PolicyVerdicts /\ op.digest = h[c].digest
  BY <1>1 DEF SessionOK
<1>3. \/ h[c].verdict = "ALLOW" /\ kind = "POLICY_ALLOW"
      \/ h[c].verdict = "DENY" /\ kind = "POLICY_DENY"
      \/ h[c].verdict = "REQUIRE_APPROVAL" /\ kind = "POLICY_REQUIRE_APPROVAL"
  BY <1>2 DEF PolicyVerdicts, PolicyKind
<1>4. op.state = "PENDING_POLICY" /\ op.version = 1
  <2>1. op.state = "PENDING_POLICY"
    BY <1>3, JudgementKinds
  <2> QED
    BY <2>1 DEF IntakeInv, Stages
<1>5. /\ Target(kind) \in {"READY", "DENIED", "AWAITING_APPROVAL"}
      /\ Source(kind) = "PENDING_POLICY"
  BY <1>3, JudgementKinds
<1>6. Source(kind) \in States /\ Target(kind) \in States
  BY <1>5 DEF States, OperationStates
<1>7. /\ op' \in Rows /\ op'.state = Target(kind) /\ op'.version = 2
      /\ op'.digest = op.digest /\ op'.bound = (op.bound \/ kind = "POLICY_REQUIRE_APPROVAL")
      /\ trail' \in Seq(Events)
      /\ outbox \subseteq outbox'
      /\ \A row \in outbox' : row.command \in Commands /\ row.version \in 2..op'.version
      /\ OutboxCommand(kind) = NoCommand => outbox' = outbox
  <2>1. Types /\ op.version >= 1
    BY <1>4 DEF IntakeInv
  <2>2. AuditTypes(kind) \in Seq(EventTypes)
    BY AuditTypesKnown
  <2>3. Move(kind, AuditTypes(kind))
    BY DEF Commit
  <2>4. op'.bound = (op.bound \/ kind = "POLICY_REQUIRE_APPROVAL")
    BY <1>6, <2>1, <2>2, <2>3, MoveTypes
  <2>5. /\ op' \in Rows /\ op'.state = Target(kind) /\ op'.version = op.version + 1
        /\ op'.digest = op.digest
        /\ trail' \in Seq(Events)
        /\ outbox \subseteq outbox'
        /\ \A row \in outbox' : row.command \in Commands /\ row.version \in 2..op'.version
        /\ OutboxCommand(kind) = NoCommand => outbox' = outbox
    BY <1>6, <2>1, <2>2, <2>3, MoveTypes
  <2>6. op'.version = 2
    BY <1>4, <2>5
  <2> QED
    BY <2>4, <2>5, <2>6
<1>8. /\ policy.verdict = "NONE" /\ approval.state = "NONE" /\ outbox = {}
      /\ approval \in Approvals /\ approval.by \notin Principals
  <2>1. policy.verdict = "NONE" /\ approval.state = "NONE" /\ outbox = {}
    BY <1>4 DEF IntakeInv, Judged, Early
  <2>2. approval \in Approvals /\ approval.by \notin Principals
    BY <2>1 DEF IntakeInv, Types
  <2> QED
    BY <2>1, <2>2
<1>9. policy'.verdict = h[c].verdict /\ policy'.version = 1 /\ policy' \in Judgements
  BY <1>2, <1>4 DEF Judgements
<1>10. op.digest # None
  <2>1. op.state # Absent
    BY <1>4 DEF Absent
  <2> QED
    BY <2>1 DEF IntakeInv, Stages
<1>11. /\ Absent \notin {"READY", "DENIED", "AWAITING_APPROVAL"}
       /\ {"DENIED", "AWAITING_APPROVAL"} \subseteq Early /\ "READY" \notin Early
  BY DEF Absent, Early
<1>12. Types' /\ Judged' /\ approval'.state # "EXPIRED"
  <2>1. CASE h[c].verdict = "REQUIRE_APPROVAL"
    <3>1. /\ approval'.state = "PENDING" /\ approval'.version = 2
          /\ approval'.by = None
      BY <1>4, <2>1
    <3>2. approval' \in Approvals
      BY <1>1, <1>4, <2>1 DEF Approvals, ApprovalStates, Sessions
    <3>3. approval'.by \notin Principals
      BY <3>1, IntakeAssumption
    <3>4. /\ kind = "POLICY_REQUIRE_APPROVAL" /\ op'.state = "AWAITING_APPROVAL"
          /\ outbox' = {}
      BY <1>3, <1>7, <1>8, <2>1, JudgementKinds, JudgementCommands
    <3>5. Types'
      BY <1>1, <1>7, <1>9, <3>1, <3>2, <3>3 DEF Types
    <3>6. Judged'
      BY <1>7, <1>9, <2>1, <3>1, <3>4 DEF Judged
    <3> QED
      BY <3>1, <3>5, <3>6
  <2>2. CASE h[c].verdict # "REQUIRE_APPROVAL"
    <3>1. approval' = approval
      BY <2>2
    <3>2. Types'
      BY <1>1, <1>7, <1>8, <1>9, <3>1 DEF IntakeInv, Types
    <3>3. \/ /\ h[c].verdict = "ALLOW" /\ op'.state = "READY"
          \/ /\ h[c].verdict = "DENY" /\ op'.state = "DENIED" /\ outbox' = {}
      BY <1>3, <1>7, <1>8, <2>2, JudgementKinds, JudgementCommands
    <3>4. Judged'
      BY <1>7, <1>8, <1>9, <1>11, <3>1, <3>3 DEF Judged
    <3> QED
      BY <1>8, <3>1, <3>2, <3>4
  <2> QED
    BY <2>1, <2>2
<1>13. Stages'
  <2>1. op'.state = "AWAITING_APPROVAL" => op'.bound
    <3>1. op'.state = "AWAITING_APPROVAL" => kind = "POLICY_REQUIRE_APPROVAL"
      BY <1>3, <1>7, JudgementKinds
    <3> QED
      BY <1>7, <3>1
  <2> QED
    BY <1>5, <1>7, <1>10, <1>11, <2>1 DEF Stages
<1>14. Requests'
  <2>1. /\ op.version <= op'.version
        /\ op.digest # None => op'.digest = op.digest
        /\ approval.state # "NONE" => approval'.state # "NONE"
    BY <1>4, <1>7, <1>8
  <2>2. late => late'
    OBVIOUS
  <2>3. Types /\ Requests /\ Types'
    BY <1>12 DEF IntakeInv
  <2>4. h' = [h EXCEPT ![c] = Idle]
    BY DEF TellOperation, Accept
  <2>5. Idle \in Sessions /\ SessionOK(Idle, op', approval'.state, late')
    BY <2>3, IdleFits
  <2> QED
    BY <2>1, <2>2, <2>3, <2>4, <2>5, RequestTurns
<1>15. AnswersMatch'
  <2>1. Accept(c, op.digest)
    BY DEF TellOperation
  <2> QED
    BY <1>2, <1>7, <2>1, ToldOfOwnIntent
<1> QED
  BY <1>12, <1>13, <1>14, <1>15 DEF IntakeInv

LEMMA PersistKeeps ==
  ASSUME IntakeInv, NEW c \in Servers, PersistPolicy(c)
  PROVE  IntakeInv'
<1> DEFINE kind == PolicyKind[h[c].verdict]
           result == ApplyResult(kind, h[c].op.version, TRUE)
<1>1. h[c].pc = "record" /\ late' = late
  BY DEF PersistPolicy
<1>2. h[c] \in Sessions /\ SessionOK(h[c], op, approval.state, late)
  BY Opened
<1>3. h[c].op.version \in Nat
  BY <1>2 DEF Sessions, Rows
<1>4. /\ result \in {"APPLIED", "ALREADY_APPLIED", "REJECTED", "CONFLICT"}
      /\ result = "APPLIED" => op.state = Source(kind)
  <2> HIDE DEF kind
  <2> DEFINE yes == TRUE
  <2> HIDE DEF yes
  <2>1. /\ ApplyResult(kind, h[c].op.version, yes)
             \in {"APPLIED", "ALREADY_APPLIED", "REJECTED", "CONFLICT"}
        /\ ApplyResult(kind, h[c].op.version, yes) = "APPLIED" => op.state = Source(kind)
    BY <1>3, Results
  <2> QED
    BY <2>1 DEF yes
<1>5. CASE result = "APPLIED"
  <2>1. /\ Commit(kind)
        /\ policy' = [verdict |-> h[c].verdict, version |-> op.version]
        /\ approval' = IF h[c].verdict = "REQUIRE_APPROVAL"
                       THEN [state |-> "PENDING", version |-> op.version + 1,
                             expires |-> h[c].expires, inTime |-> FALSE, by |-> None]
                       ELSE approval
        /\ TellOperation(c, op)
    <3> HIDE DEF kind
    <3> QED
      BY <1>5 DEF PersistPolicy, kind
  <2>2. op.state = Source(kind)
    BY <1>4, <1>5
  <2> HIDE DEF result
  <2> QED
    BY <1>1, <2>1, <2>2, JudgementKeeps
<1>6. CASE TellOperation(c, op) /\ UNCHANGED rows
  <2>1. Accept(c, op.digest) /\ op.digest = h[c].digest
    BY <1>1, <1>2, <1>6 DEF TellOperation, SessionOK
  <2>2. op'.digest = op.digest
    BY <1>6 DEF rows
  <2>3. AnswersMatch'
    BY <1>1, <2>1, <2>2, ToldOfOwnIntent
  <2> QED
    BY <1>1, <1>6, <2>1, <2>3, StepWithAnswer
<1>7. CASE Refuse(c) /\ UNCHANGED rows
  BY <1>1, <1>7, StepRefused
<1> QED
  BY <1>4, <1>5, <1>6, <1>7 DEF PersistPolicy

\* A decision that is admitted: the approval is pending, and a grant is in time
LEMMA DecisionKeeps ==
  ASSUME IntakeInv, NEW c \in Servers, h[c].pc = "decide", late' = late,
         NEW kind, kind = DecisionKind[h[c].job], op.state = Source(kind),
         NEW occurred, occurred \in IF h[c].job = "EXPIRED" THEN {h[c].now} ELSE {h[c].now, late},
         Decidable(h[c].job, occurred), Commit(kind), policy' = policy,
         approval' = [approval EXCEPT !.state = h[c].job, !.inTime = ~h[c].now,
                                      !.by = h[c].actor],
         Accept(c, None)
  PROVE  IntakeInv'
<1>1. /\ h[c] \in Sessions /\ SessionOK(h[c], op, approval.state, late)
      /\ op \in Rows /\ late \in BOOLEAN
  BY Opened
<1>2. /\ h[c].job \in DOMAIN DecisionKind
      /\ h[c].now => late
      /\ h[c].actor \in IF h[c].job = "EXPIRED" THEN {None} ELSE Approvers
  BY <1>1 DEF SessionOK
<1>3. \/ h[c].job = "APPROVED" /\ kind = "APPROVAL_GRANT"
      \/ h[c].job = "REJECTED" /\ kind = "APPROVAL_REJECT"
      \/ h[c].job = "EXPIRED" /\ kind = "CANCEL_AWAITING_APPROVAL"
  BY <1>2 DEF DecisionKind
<1>4. op.state = "AWAITING_APPROVAL"
  BY <1>3, JudgementKinds
<1>5. op.version = 2 /\ op.digest # None
  BY <1>4 DEF IntakeInv, Stages, Absent
<1>6. /\ policy.verdict = "REQUIRE_APPROVAL" /\ approval.state = "PENDING"
      /\ approval.version = 2 /\ policy.version = 1 /\ policy \in Judgements
      /\ approval \in Approvals
  <2>1. approval.state = "PENDING"
    BY <1>4 DEF IntakeInv, Judged
  <2> QED
    BY <1>5, <2>1 DEF IntakeInv, Judged, Types
<1>7. /\ Target(kind) \in {"READY", "DENIED", "CANCELLED"}
      /\ Source(kind) = "AWAITING_APPROVAL"
  BY <1>3, JudgementKinds
<1>8. Source(kind) \in States /\ Target(kind) \in States
  BY <1>7 DEF States, OperationStates
<1>9. /\ op' \in Rows /\ op'.state = Target(kind) /\ op'.version = 3
      /\ op'.digest = op.digest
      /\ trail' \in Seq(Events)
      /\ \A row \in outbox' : row.command \in Commands /\ row.version \in 2..op'.version
      /\ OutboxCommand(kind) # NoCommand =>
           [command |-> OutboxCommand(kind), version |-> 3] \in outbox'
      /\ OutboxCommand(kind) = NoCommand => outbox' = outbox
  <2>1. Types /\ op.version >= 1
    BY <1>5 DEF IntakeInv
  <2>2. AuditTypes(kind) \in Seq(EventTypes)
    BY AuditTypesKnown
  <2>3. Move(kind, AuditTypes(kind))
    BY DEF Commit
  <2>4. /\ op' \in Rows /\ op'.state = Target(kind) /\ op'.version = op.version + 1
        /\ op'.digest = op.digest
        /\ trail' \in Seq(Events)
        /\ \A row \in outbox' : row.command \in Commands /\ row.version \in 2..op'.version
        /\ OutboxCommand(kind) # NoCommand =>
             [command |-> OutboxCommand(kind), version |-> op.version + 1] \in outbox'
        /\ OutboxCommand(kind) = NoCommand => outbox' = outbox
    BY <1>8, <2>1, <2>2, <2>3, MoveTypes
  <2>5. op.version + 1 = 3
    BY <1>5
  <2> QED
    BY <2>4, <2>5
<1>10. outbox = {}
  BY <1>4 DEF IntakeInv, Judged, Early
<1>11. \/ /\ h[c].job = "APPROVED" /\ op'.state = "READY"
          /\ [command |-> "EXECUTE", version |-> 3] \in outbox'
       \/ h[c].job = "REJECTED" /\ op'.state = "DENIED" /\ outbox' = {}
       \/ h[c].job = "EXPIRED" /\ op'.state = "CANCELLED" /\ outbox' = {}
  <2>1. "EXECUTE" # NoCommand
    BY DEF NoCommand
  <2> QED
    BY <1>3, <1>9, <1>10, <2>1, JudgementKinds, JudgementCommands
<1>12. h[c].job = "APPROVED" => (approval.expires => ~h[c].now)
  <2> SUFFICES ASSUME h[c].job = "APPROVED", approval.expires
               PROVE  ~h[c].now
    OBVIOUS
  <2>1. ~occurred
    BY DEF Decidable, Binding
  <2>2. occurred = h[c].now \/ occurred = late
    OBVIOUS
  <2> QED
    BY <1>2, <2>1, <2>2
<1>13. /\ approval'.state = h[c].job /\ approval'.version = 2
       /\ approval'.expires = approval.expires /\ approval'.by = h[c].actor
       /\ approval'.inTime = ~h[c].now
  BY <1>6 DEF Approvals
<1>14. approval' \in Approvals
  <2> DEFINE t == [approval EXCEPT !.state = h[c].job]
             u == [t EXCEPT !.inTime = ~h[c].now]
  <2>1. h[c].job \in ApprovalStates
    BY <1>3 DEF ApprovalStates
  <2>2. h[c].actor \in Principals \union {None}
    BY <1>1 DEF Sessions
  <2>3. approval' = [u EXCEPT !.by = h[c].actor]
    OBVIOUS
  <2>4. t \in Approvals
    BY <1>6, <2>1 DEF Approvals
  <2>5. u \in Approvals
    <3>1. (~h[c].now) \in BOOLEAN
      OBVIOUS
    <3> HIDE DEF t
    <3> QED
      BY <2>4, <3>1 DEF Approvals
  <2> HIDE DEF u
  <2> QED
    BY <2>2, <2>3, <2>5 DEF Approvals
<1>15. /\ h[c].job \in {"APPROVED", "REJECTED"} =>
            approval'.by \in Principals /\ approval'.by \in Approvers
       /\ h[c].job = "EXPIRED" => approval'.by \notin Principals
  BY <1>2, <1>13, IntakeAssumption
<1>16. Types'
  <2>1. approval'.state \in {"APPROVED", "REJECTED"} <=> approval'.by \in Principals
    BY <1>3, <1>13, <1>15
  <2> QED
    BY <1>1, <1>6, <1>9, <1>14, <2>1 DEF Types
<1>17. Stages'
  BY <1>5, <1>7, <1>9 DEF Stages, Absent
<1>18. Judged'
  <2>1. approval'.state = "APPROVED" => (approval'.expires => approval'.inTime)
    BY <1>12, <1>13
  <2>2. /\ policy'.verdict = "REQUIRE_APPROVAL" /\ policy'.version = 1
        /\ ~(op'.version <= 1) /\ approval'.version = 2
    BY <1>6, <1>9, <1>13
  <2>3. approval'.state = "APPROVED" =>
          /\ approval'.by \in Approvers
          /\ [command |-> "EXECUTE", version |-> approval'.version + 1] \in outbox'
    BY <1>11, <1>13, <1>15
  <2>4. "READY" \notin Early
    BY DEF Early, Absent
  <2>5. /\ op'.state \in Early => outbox' = {}
        /\ approval'.state = "PENDING" <=> op'.state = "AWAITING_APPROVAL"
        /\ approval'.state = "REJECTED" <=> op'.state = "DENIED"
        /\ approval'.state = "EXPIRED" <=> op'.state = "CANCELLED"
        /\ approval'.state # "NONE"
    BY <1>11, <1>13, <2>4
  <2> QED
    BY <2>1, <2>2, <2>3, <2>5 DEF Judged
<1>19. Requests'
  <2>1. /\ op.version <= op'.version
        /\ op.digest # None => op'.digest = op.digest
        /\ approval.state # "NONE" => approval'.state # "NONE"
    BY <1>3, <1>5, <1>9, <1>13
  <2>2. late => late'
    OBVIOUS
  <2>3. Types /\ Requests
    BY DEF IntakeInv
  <2>4. h' = [h EXCEPT ![c] = Idle]
    BY DEF Accept
  <2>5. Idle \in Sessions /\ SessionOK(Idle, op', approval'.state, late')
    BY <1>16, IdleFits
  <2> QED
    BY <1>16, <2>1, <2>2, <2>3, <2>4, <2>5, RequestTurns
<1>20. AnswersMatch'
  <2>1. answer'.job = h[c].job
    BY DEF Accept
  <2>2. h[c].job = "APPROVED" =>
          [command |-> "EXECUTE", version |-> approval'.version + 1] \in outbox'
    BY <1>11, <1>13
  <2> QED
    BY <1>3, <1>11, <1>13, <2>1, <2>2 DEF AnswersMatch
<1> QED
  BY <1>16, <1>17, <1>18, <1>19, <1>20 DEF IntakeInv

\* A decision whose transition has been made already, by whomever
LEMMA RepeatedDecision ==
  ASSUME IntakeInv, NEW c \in Servers, h[c].pc = "decide",
         op.state = Target(DecisionKind[h[c].job])
  PROVE  approval.state = h[c].job
<1>1. SessionOK(h[c], op, approval.state, late)
  BY Opened
<1>2. h[c].job \in DOMAIN DecisionKind /\ approval.state # "NONE"
  BY <1>1 DEF SessionOK
<1>3. \/ h[c].job = "APPROVED" /\ op.state = "READY"
      \/ h[c].job = "REJECTED" /\ op.state = "DENIED"
      \/ h[c].job = "EXPIRED" /\ op.state = "CANCELLED"
  BY <1>2, JudgementKinds DEF DecisionKind
<1>4. policy.verdict = "REQUIRE_APPROVAL"
  BY <1>2 DEF IntakeInv, Judged
<1>5. approval.state \in {"PENDING", "APPROVED", "REJECTED", "EXPIRED"}
  BY <1>2 DEF IntakeInv, Types, Approvals, ApprovalStates
<1> QED
  BY <1>3, <1>4, <1>5 DEF IntakeInv, Judged

LEMMA ApplyKeeps ==
  ASSUME IntakeInv, NEW c \in Servers, ApplyDecision(c)
  PROVE  IntakeInv'
<1> DEFINE kind == DecisionKind[h[c].job]
<1>1. h[c].pc = "decide" /\ late' = late
  BY DEF ApplyDecision
<1>2. SessionOK(h[c], op, approval.state, late)
  BY Opened
<1>3. h[c].job \in DOMAIN DecisionKind
  BY <1>1, <1>2 DEF SessionOK
<1>4. PICK expected \in Expectations,
           occurred \in IF h[c].job = "EXPIRED" THEN {h[c].now} ELSE {h[c].now, late} :
        LET result == ApplyResult(kind, expected, Decidable(h[c].job, occurred))
        IN CASE result = "APPLIED" ->
                  /\ Commit(kind)
                  /\ approval' = [approval EXCEPT
                                    !.state = h[c].job, !.inTime = ~h[c].now,
                                    !.by = h[c].actor]
                  /\ Accept(c, None)
                  /\ UNCHANGED policy
             [] result = "ALREADY_APPLIED" -> Accept(c, None) /\ UNCHANGED rows
             [] result = "REJECTED" -> Refuse(c) /\ UNCHANGED rows
             [] result = "CONFLICT" -> Goto(c, "reload") /\ UNCHANGED rows
  BY DEF ApplyDecision
<1> DEFINE fits == Decidable(h[c].job, occurred)
           result == ApplyResult(kind, expected, fits)
<1>5. /\ result \in {"APPLIED", "ALREADY_APPLIED", "REJECTED", "CONFLICT"}
      /\ result = "APPLIED" => op.state = Source(kind) /\ fits
      /\ result = "ALREADY_APPLIED" => op.state = Target(kind)
  <2>1. expected \in Nat
    BY IntakeAssumption
  <2> HIDE DEF fits, kind
  <2> QED
    BY <2>1, Results
<1>6. CASE result = "APPLIED"
  <2>1. /\ Commit(kind)
        /\ approval' = [approval EXCEPT !.state = h[c].job, !.inTime = ~h[c].now,
                                        !.by = h[c].actor]
        /\ Accept(c, None)
        /\ policy' = policy
    <3> HIDE DEF kind
    <3> QED
      BY <1>4, <1>6
  <2>2. op.state = Source(kind) /\ Decidable(h[c].job, occurred)
    BY <1>5, <1>6
  <2> HIDE DEF result
  <2> QED
    BY <1>1, <2>1, <2>2, DecisionKeeps
<1>7. CASE result = "ALREADY_APPLIED"
  <2>1. Accept(c, None) /\ UNCHANGED rows
    BY <1>4, <1>7
  <2>2. approval.state = h[c].job
    BY <1>1, <1>5, <1>7, RepeatedDecision
  <2> QED
    BY <1>1, <1>3, <2>1, <2>2, ToldOfDecision
<1>8. CASE result = "REJECTED"
  <2>1. Refuse(c) /\ UNCHANGED rows
    BY <1>4, <1>8
  <2> QED
    BY <1>1, <2>1, StepRefused
<1>9. CASE result = "CONFLICT"
  <2>1. Become(c, [h[c] EXCEPT !.pc = "reload"]) /\ UNCHANGED rows
    BY <1>4, <1>9 DEF Goto
  <2> QED
    BY <1>1, <2>1, GotoFits, StepInSilence
<1> QED
  BY <1>5, <1>6, <1>7, <1>8, <1>9

-----------------------------------------------------------------------------
(***************************************************************************)
(* The invariant, and what it implies                                     *)
(***************************************************************************)
LEMMA IntakeStarts == Init => IntakeInv
<1> SUFFICES ASSUME Init PROVE IntakeInv
  OBVIOUS
<1>1. NoOperation \in Rows /\ NoOperation.version = 0 /\ NoOperation.state = Absent
      /\ NoOperation.digest = None
  BY DEF NoOperation, Rows, States
<1>2. Types
  <2>1. << >> \in Seq(Events)
    BY EmptySeq
  <2>2. None \notin Principals
    BY IntakeAssumption
  <2> QED
    BY <1>1, <2>1, <2>2 DEF Init, Types, Judgements, Approvals
<1>3. Stages
  BY <1>1 DEF Init, Stages, Absent
<1>4. Judged
  BY <1>1 DEF Init, Judged, Absent
<1>5. Requests
  <2>1. Idle \in Sessions
    BY <1>1 DEF Idle, Sessions, PCs, Jobs
  <2>2. h = [c \in Servers |-> Idle]
    BY DEF Init
  <2>3. Idle.pc = "idle" /\ Idle.job = "NONE" /\ Idle.op.version = 0 /\ op.version = 0
    BY <1>1 DEF Idle, Init
  <2>4. SessionOK(Idle, op, approval.state, late)
    BY <2>3, DecisionsNamed DEF SessionOK
  <2> QED
    BY <2>1, <2>2, <2>4 DEF Requests
<1>6. AnswersMatch
  <2>1. answer.job = "NONE"
    BY DEF Init, Silence
  <2> QED
    BY <2>1 DEF AnswersMatch
<1> QED
  BY <1>2, <1>3, <1>4, <1>5, <1>6 DEF IntakeInv

LEMMA IntakeStep == IntakeInv /\ [Next]_vars => IntakeInv'
<1> SUFFICES ASSUME IntakeInv, [Next]_vars PROVE IntakeInv'
  OBVIOUS
<1>1. ASSUME NEW c \in Servers, Request(c)
      PROVE  IntakeInv'
  BY <1>1, BeginKeeps
<1>2. ASSUME NEW c \in Servers, Serve(c)
      PROVE  IntakeInv'
  BY <1>2, LookupKeeps, InsertKeeps, RereadKeeps, EvaluateKeeps, PersistKeeps, LoadKeeps,
     CheckKeeps, ApplyKeeps, SettleKeeps, LoadManualKeeps, StartVerificationKeeps, CrashKeeps
     DEF Serve
<1>3. ASSUME NEW kind \in WorkKinds, Work(kind)
      PROVE  IntakeInv'
  <2>1. kind \in LateKinds
    BY WorkIsLate
  <2>2. AuditTypes(kind) \in Seq(EventTypes)
    BY AuditTypesKnown
  <2>3. /\ op.state = Source(kind) /\ Move(kind, AuditTypes(kind))
        /\ UNCHANGED <<policy, approval, late, h>> /\ answer' = Silence
    BY <1>3 DEF Work, Commit
  <2> QED
    BY <2>1, <2>2, <2>3, WorkKeeps
<1>4. CASE Exhaust
  <2> DEFINE kind == ExhaustedKind[op.state]
             none == << >>
  <2>1. kind \in LateKinds /\ Source(kind) = op.state
    BY <1>4, ExhaustionIsLate DEF Exhaust
  <2>2. none \in Seq(EventTypes)
    BY EmptySeq
  <2>3. Move(kind, none) /\ UNCHANGED <<policy, approval, late, h>> /\ answer' = Silence
    BY <1>4 DEF Exhaust
  <2> HIDE DEF kind, none
  <2> QED
    BY <2>1, <2>2, <2>3, WorkKeeps
<1>5. CASE Progress
  BY <1>5, ProgressKeeps
<1>6. CASE PassDeadline
  BY <1>6, PassDeadlineKeeps
<1>7. CASE UNCHANGED vars
  <2>1. UNCHANGED <<op, policy, approval, outbox, trail, late, h, answer>>
    BY <1>7 DEF vars
  <2>2. Types' /\ Stages' /\ Judged'
    BY <2>1 DEF IntakeInv, Types, Stages, Judged
  <2>3. Requests'
    BY <2>1 DEF IntakeInv, Requests
  <2>4. AnswersMatch'
    BY <2>1 DEF IntakeInv, AnswersMatch
  <2> QED
    BY <2>2, <2>3, <2>4 DEF IntakeInv
<1> QED
  BY <1>1, <1>2, <1>3, <1>4, <1>5, <1>6, <1>7 DEF Next

\* What the rows and the open requests promise each other holds however submissions,
\* decisions, the expiry, the rest of the lifecycle and crashes interleave, for every
\* number of servers, policies, principals, intents and versions.
THEOREM IntakeInvariance == Spec => []IntakeInv
<1>1. Init => IntakeInv
  BY IntakeStarts
<1>2. IntakeInv /\ [Next]_vars => IntakeInv'
  BY IntakeStep
<1> QED
  BY <1>1, <1>2, PTL DEF Spec

\* Rows, trail and requests keep their shape: a request is taken up with a snapshot only
\* of an operation that exists, never newer than the row, and a decided approval names
\* who decided it unless it expired.
THEOREM IntakeTyped == Spec => []TypeOK
<1>1. IntakeInv => TypeOK
  <2> SUFFICES ASSUME IntakeInv PROVE TypeOK
    OBVIOUS
  <2>1. /\ op \in Rows /\ policy \in Judgements /\ approval \in Approvals
        /\ approval.state \in {"APPROVED", "REJECTED"} <=> approval.by \in Principals
        /\ \A row \in outbox : row.command \in Commands /\ row.version \in 2..op.version
        /\ trail \in Seq(Events)
    BY DEF IntakeInv, Types
  <2>2. \A i \in DOMAIN trail : trail[i] \in Events
    BY <2>1
  <2>3. \A i \in DOMAIN trail :
          trail[i].type \in EventTypes /\ trail[i].from \in States /\ trail[i].to \in States
    BY <2>2 DEF Events
  <2>4. \A c \in Servers :
          /\ h[c].pc \in PCs /\ h[c].job \in Jobs
          /\ h[c].pc \in {"policy", "record", "verify"} => h[c].op.state # Absent
          /\ h[c].op.version <= op.version
    <3> SUFFICES ASSUME NEW c \in Servers
                 PROVE  /\ h[c].pc \in PCs /\ h[c].job \in Jobs
                        /\ h[c].pc \in {"policy", "record", "verify"} => h[c].op.state # Absent
                        /\ h[c].op.version <= op.version
      OBVIOUS
    <3>1. h[c] \in Sessions /\ SessionOK(h[c], op, approval.state, late)
      BY Opened
    <3> QED
      BY <3>1 DEF Sessions, SessionOK
  <2>5. op.state = Absent <=> op.version = 0
    BY DEF IntakeInv, Stages
  <2>6. op \in [state : States, version : Nat, digest : Digests \union {None}, bound : BOOLEAN]
    BY <2>1 DEF Rows
  <2>7. /\ policy.verdict \in PolicyVerdicts \union {"NONE"} /\ policy.version \in {0, 1}
        /\ approval.state \in ApprovalStates \union {"NONE"}
    BY <2>1 DEF Judgements, Approvals
  <2> QED
    BY <2>1, <2>3, <2>4, <2>5, <2>6, <2>7 DEF TypeOK
<1> QED
  BY <1>1, IntakeInvariance, PTL

\* Whoever is told of a success finds it done, whether the answer came from the
\* transition, from an idempotent repetition or from the resolution of a lost race.
THEOREM AnswersAreTrue == Spec => []AnswersMatch
<1>1. IntakeInv => AnswersMatch
  BY DEF IntakeInv
<1> QED
  BY <1>1, IntakeInvariance, PTL

\* No work is commanded, and no state past the approval is reached, without the policy's
\* permission or the approval it asked for, given by an approver in time; a refusal is
\* never followed by work.
THEOREM WorkIsAuthorised == Spec => []AuthorisedWork
<1>1. IntakeInv => AuthorisedWork
  <2> SUFFICES ASSUME IntakeInv PROVE AuthorisedWork
    OBVIOUS
  <2>1. op.version \in Nat /\ policy \in Judgements /\ approval \in Approvals
    BY DEF IntakeInv, Types, Rows
  <2>2. outbox # {} => op.state \notin Early
    BY DEF IntakeInv, Judged
  <2>3. op.state \notin Early => Authorised
    <3> SUFFICES ASSUME op.state \notin Early PROVE Authorised
      OBVIOUS
    <3>1. op.version > 1
      BY <2>1 DEF IntakeInv, Stages, Early
    <3>2. policy.version = 1 /\ policy.verdict # "NONE" /\ policy.verdict # "DENY"
      BY <2>1, <3>1 DEF IntakeInv, Judged, Early
    <3>3. policy.verdict \in {"ALLOW", "REQUIRE_APPROVAL"}
      BY <2>1, <3>2 DEF Judgements, PolicyVerdicts
    <3>4. CASE policy.verdict = "REQUIRE_APPROVAL"
      <4>1. approval.state \in ApprovalStates
        BY <2>1, <3>4 DEF IntakeInv, Judged, Approvals
      <4>2. approval.state = "APPROVED"
        BY <4>1 DEF IntakeInv, Judged, Early, ApprovalStates
      <4> QED
        BY <3>2, <3>4, <4>2 DEF Authorised, IntakeInv, Judged
    <3> QED
      BY <3>3, <3>4 DEF Authorised
  <2>4. policy.verdict = "DENY" \/ approval.state \in {"REJECTED", "EXPIRED"} =>
          outbox = {} /\ op.state \in {"DENIED", "CANCELLED"}
    BY DEF IntakeInv, Judged, Early
  <2> QED
    BY <2>2, <2>3, <2>4 DEF AuthorisedWork, Early
<1> QED
  BY <1>1, IntakeInvariance, PTL

-----------------------------------------------------------------------------
(***************************************************************************)
(* The audit trail.  What it says of the operation is stated of a trail t *)
(* and of the version and the state it has led to; a step extends it with *)
(* events of one version.                                                 *)
(***************************************************************************)
Changing == {"OPERATION_CREATED", "OPERATION_TRANSITIONED"}
ChangesOf(t) == {i \in DOMAIN t : t[i].type \in Changing}

\* The versions follow each other
InOrder(t, last) ==
  /\ \A i \in DOMAIN t : t[i].version \in 1..last
  /\ \A i, j \in DOMAIN t : i <= j => t[i].version <= t[j].version

\* A change starts where the one of the version before has ended
Linked(t, i) ==
  IF t[i].version = 1 THEN t[i].from = Absent
  ELSE \E j \in ChangesOf(t) : t[j].version = t[i].version - 1 /\ t[j].to = t[i].from

Explained(t, i) ==
  /\ Linked(t, i)
  /\ t[i].to \in LegalNext[t[i].from]
  /\ t[i].from = "MANUAL_INTERVENTION" =>
       \E k \in DOMAIN t : t[k].type = "OPERATOR_ACTION" /\ t[k].version = t[i].version

\* Every version has its change, and the last one is to the present state
Chain(t, last, state) ==
  /\ \A v \in 1..last : \E i \in ChangesOf(t) : t[i].version = v
  /\ \A i, j \in ChangesOf(t) : t[i].version = t[j].version => i = j
  /\ \A i \in ChangesOf(t) : Explained(t, i) /\ (t[i].version = last => t[i].to = state)

\* No two actions of the operator under one version
ActionsApart(t) ==
  \A i, j \in DOMAIN t :
    (/\ t[i].type = "OPERATOR_ACTION" /\ t[j].type = "OPERATOR_ACTION"
     /\ t[i].version = t[j].version) => i = j

Seen(t, type) == \E i \in DOMAIN t : t[i].type = type

\* If there is an event of the type, it is the only one, and of the given version
Single(t, type, version) ==
  /\ \A i \in DOMAIN t : t[i].type = type => t[i].version = version
  /\ \A i, j \in DOMAIN t : (t[i].type = type /\ t[j].type = type) => i = j

Decided == {"APPROVED", "REJECTED"}

TrailInv ==
  /\ InOrder(trail, op.version) /\ Chain(trail, op.version, op.state) /\ ActionsApart(trail)
  /\ Single(trail, "POLICY_EVALUATED", 2) /\ Single(trail, "APPROVAL_REQUESTED", 2)
  /\ Single(trail, "APPROVAL_DECIDED", 3)
  /\ Seen(trail, "POLICY_EVALUATED") <=> policy.verdict # "NONE"
  /\ Seen(trail, "APPROVAL_REQUESTED") <=> approval.state # "NONE"
  /\ Seen(trail, "APPROVAL_DECIDED") <=> approval.state \in Decided

\* Trail u is trail s with further events of one version
Extends(s, u, names, from, to, v) ==
  /\ Len(s) \in Nat /\ Len(names) \in Nat
  /\ DOMAIN s = 1..Len(s) /\ DOMAIN names = 1..Len(names)
  /\ DOMAIN u = 1..(Len(s) + Len(names))
  /\ \A i \in 1..Len(s) : u[i] = s[i]
  /\ \A i \in 1..Len(names) :
       /\ u[Len(s) + i].type = names[i] /\ u[Len(s) + i].version = v
       /\ u[Len(s) + i].from = from /\ u[Len(s) + i].to = to

Reports(names, from, to, v) == [i \in 1..Len(names) |-> Event(names[i], from, to, v)]

LEMMA EventsAdded ==
  ASSUME NEW names \in Seq(EventTypes), NEW from \in States, NEW to \in States, NEW v \in Nat,
         NEW added, added = Reports(names, from, to, v)
  PROVE  /\ added \in Seq(Events) /\ Len(added) = Len(names)
         /\ \A i \in 1..Len(names) :
              /\ added[i].type = names[i] /\ added[i].version = v
              /\ added[i].from = from /\ added[i].to = to
<1>1. Len(names) \in Nat /\ \A i \in 1..Len(names) : names[i] \in EventTypes
  BY LenProperties, ElementOfSeq
<1>2. added \in [1..Len(names) -> Events]
  <2>1. \A i \in 1..Len(names) : Event(names[i], from, to, v) \in Events
    BY <1>1 DEF Event, Events
  <2> QED
    BY <2>1 DEF Reports
<1>3. added \in Seq(Events)
  BY <1>1, <1>2
<1>4. DOMAIN added = 1..Len(names)
  BY DEF Reports
<1>5. Len(added) = Len(names)
  BY <1>1, <1>3, <1>4, LenProperties
<1>6. ASSUME NEW i \in 1..Len(names)
      PROVE  /\ added[i].type = names[i] /\ added[i].version = v
             /\ added[i].from = from /\ added[i].to = to
  <2>1. added[i] = Event(names[i], from, to, v)
    BY DEF Reports
  <2> QED
    BY <2>1 DEF Event
<1> QED
  BY <1>3, <1>5, <1>6

LEMMA ConcatExtends ==
  ASSUME NEW s \in Seq(Events), NEW added \in Seq(Events), NEW names \in Seq(EventTypes),
         NEW from, NEW to, NEW v, NEW u, u = s \o added, Len(added) = Len(names),
         \A i \in 1..Len(names) :
           /\ added[i].type = names[i] /\ added[i].version = v
           /\ added[i].from = from /\ added[i].to = to
  PROVE  Extends(s, u, names, from, to, v)
<1>1. /\ Len(s) \in Nat /\ Len(names) \in Nat
      /\ DOMAIN s = 1..Len(s) /\ DOMAIN names = 1..Len(names)
  BY LenProperties
<1>2. /\ Len(u) = Len(s) + Len(names) /\ u \in Seq(Events)
      /\ \A i \in 1..(Len(s) + Len(names)) :
           u[i] = IF i <= Len(s) THEN s[i] ELSE added[i - Len(s)]
  <2>1. u \in Seq(Events) /\ Len(u) = Len(s) + Len(added)
    BY ConcatProperties
  <2>2. \A i \in 1..(Len(s) + Len(added)) :
          (s \o added)[i] = IF i <= Len(s) THEN s[i] ELSE added[i - Len(s)]
    BY ConcatProperties
  <2>3. \A i \in 1..(Len(s) + Len(added)) :
          u[i] = IF i <= Len(s) THEN s[i] ELSE added[i - Len(s)]
    BY <2>2, Zenon
  <2> QED
    BY <2>1, <2>3
<1>3. DOMAIN u = 1..(Len(s) + Len(names))
  BY <1>2, LenProperties
<1>4. \A i \in 1..Len(s) : u[i] = s[i]
  BY <1>1, <1>2
<1>5. ASSUME NEW i \in 1..Len(names)
      PROVE  u[Len(s) + i] = added[i]
  <2>1. /\ Len(s) + i \in 1..(Len(s) + Len(names)) /\ ~(Len(s) + i <= Len(s))
        /\ Len(s) + i - Len(s) = i
    BY <1>1
  <2> QED
    BY <1>2, <2>1
<1> QED
  BY <1>1, <1>3, <1>4, <1>5 DEF Extends

LEMMA ReportsExtend ==
  ASSUME NEW s \in Seq(Events), NEW names \in Seq(EventTypes), NEW from \in States,
         NEW to \in States, NEW v \in Nat, NEW u, u = s \o Reports(names, from, to, v)
  PROVE  Extends(s, u, names, from, to, v)
<1>1. PICK added : added = Reports(names, from, to, v)
  OBVIOUS
<1>2. /\ added \in Seq(Events) /\ Len(added) = Len(names)
      /\ \A i \in 1..Len(names) :
           /\ added[i].type = names[i] /\ added[i].version = v
           /\ added[i].from = from /\ added[i].to = to
  BY <1>1, EventsAdded
<1>3. u = s \o added
  BY <1>1
<1> QED
  BY <1>2, <1>3, ConcatExtends

\* An index of the longer trail is one of the shorter, or of one of the new events
LEMMA ExtendedIndex ==
  ASSUME NEW s, NEW u, NEW names, NEW from, NEW to, NEW v, Extends(s, u, names, from, to, v),
         NEW i \in DOMAIN u
  PROVE  /\ i \in Nat /\ Len(s) \in Nat
         /\ \/ i \in DOMAIN s /\ i <= Len(s) /\ u[i] = s[i]
            \/ \E k \in DOMAIN names :
                 /\ i = Len(s) + k /\ i > Len(s) /\ i \notin DOMAIN s
                 /\ u[i].type = names[k] /\ u[i].version = v
                 /\ u[i].from = from /\ u[i].to = to
<1>1. i \in 1..(Len(s) + Len(names)) /\ Len(s) \in Nat /\ Len(names) \in Nat
  BY DEF Extends
<1>2. CASE i <= Len(s)
  <2>1. i \in 1..Len(s)
    BY <1>1, <1>2
  <2> QED
    BY <1>1, <1>2, <2>1 DEF Extends
<1>3. CASE i > Len(s)
  <2>1. PICK k \in 1..Len(names) : i = Len(s) + k
    <3>1. i - Len(s) \in 1..Len(names) /\ i = Len(s) + (i - Len(s))
      BY <1>1, <1>3
    <3> QED
      BY <3>1
  <2>2. k \in DOMAIN names /\ i \notin DOMAIN s
    BY <1>1, <1>3, <2>1 DEF Extends
  <2>3. /\ u[i].type = names[k] /\ u[i].version = v
        /\ u[i].from = from /\ u[i].to = to
    BY <2>1 DEF Extends
  <2> QED
    BY <1>1, <1>3, <2>1, <2>2, <2>3
<1> QED
  BY <1>1, <1>2, <1>3

\* What the trail had, it has
LEMMA ExtendedStays ==
  ASSUME NEW s, NEW u, NEW names, NEW from, NEW to, NEW v, Extends(s, u, names, from, to, v)
  PROVE  /\ \A i \in DOMAIN s : i \in DOMAIN u /\ u[i] = s[i]
         /\ \A k \in DOMAIN names :
              \E i \in DOMAIN u : /\ u[i].type = names[k] /\ u[i].version = v
                                  /\ u[i].from = from /\ u[i].to = to
<1>1. /\ Len(s) \in Nat /\ Len(names) \in Nat
      /\ DOMAIN s = 1..Len(s) /\ DOMAIN names = 1..Len(names)
      /\ DOMAIN u = 1..(Len(s) + Len(names))
  BY DEF Extends
<1>2. \A i \in DOMAIN s : i \in DOMAIN u
  BY <1>1
<1>3. \A k \in DOMAIN names : Len(s) + k \in DOMAIN u
  BY <1>1
<1> QED
  BY <1>1, <1>2, <1>3 DEF Extends

LEMMA OrderExtends ==
  ASSUME NEW s, NEW u, NEW names, NEW from, NEW to, NEW v, Extends(s, u, names, from, to, v),
         NEW last \in Nat, InOrder(s, last), v \in {last, last + 1}, v >= 1
  PROVE  InOrder(u, v)
<1>1. \A i \in DOMAIN s : s[i].version \in 1..last
  BY DEF InOrder
<1>2. ASSUME NEW i \in DOMAIN u
      PROVE  u[i].version \in 1..v
  <2>1. CASE i \in DOMAIN s /\ u[i] = s[i]
    BY <1>1, <2>1
  <2>2. CASE u[i].version = v
    BY <2>2
  <2> QED
    BY <2>1, <2>2, ExtendedIndex
<1>3. ASSUME NEW i \in DOMAIN u, NEW j \in DOMAIN u, i <= j
      PROVE  u[i].version <= u[j].version
  <2>1. /\ i \in Nat /\ j \in Nat /\ Len(s) \in Nat
        /\ (i \in DOMAIN s /\ i <= Len(s) /\ u[i] = s[i]) \/ (u[i].version = v /\ i > Len(s))
        /\ (j \in DOMAIN s /\ j <= Len(s) /\ u[j] = s[j]) \/ (u[j].version = v /\ j > Len(s))
    BY ExtendedIndex
  <2>2. CASE u[j].version = v
    <3>1. u[i].version \in 1..v
      BY <1>2
    <3> QED
      BY <2>2, <3>1
  <2>3. CASE j \in DOMAIN s /\ j <= Len(s) /\ u[j] = s[j]
    <3>1. i \in DOMAIN s /\ u[i] = s[i]
      BY <1>3, <2>1, <2>3
    <3> QED
      BY <1>3, <2>3, <3>1 DEF InOrder
  <2> QED
    BY <2>1, <2>2, <2>3
<1> QED
  BY <1>2, <1>3 DEF InOrder

\* An explanation stays
LEMMA ExplainedStays ==
  ASSUME NEW s, NEW u, NEW names, NEW from, NEW to, NEW v, Extends(s, u, names, from, to, v),
         NEW i \in DOMAIN s, Explained(s, i)
  PROVE  Explained(u, i)
<1>1. \A k \in DOMAIN s : k \in DOMAIN u /\ u[k] = s[k]
  BY ExtendedStays
<1>2. ChangesOf(s) \subseteq ChangesOf(u)
  BY <1>1 DEF ChangesOf
<1>3. u[i] = s[i]
  BY <1>1
<1>4. Linked(u, i)
  <2>1. CASE s[i].version = 1
    BY <1>3, <2>1 DEF Linked, Explained
  <2>2. CASE s[i].version # 1
    <3>1. PICK j \in ChangesOf(s) : s[j].version = s[i].version - 1 /\ s[j].to = s[i].from
      BY <2>2 DEF Linked, Explained
    <3>2. j \in ChangesOf(u) /\ u[j] = s[j]
      BY <1>1, <1>2, <3>1 DEF ChangesOf
    <3> QED
      BY <1>3, <2>2, <3>1, <3>2 DEF Linked
  <2> QED
    BY <2>1, <2>2
<1>5. u[i].from = "MANUAL_INTERVENTION" =>
        \E k \in DOMAIN u : u[k].type = "OPERATOR_ACTION" /\ u[k].version = u[i].version
  <2> SUFFICES ASSUME s[i].from = "MANUAL_INTERVENTION"
               PROVE  \E k \in DOMAIN u : /\ u[k].type = "OPERATOR_ACTION"
                                          /\ u[k].version = u[i].version
    BY <1>3
  <2>1. PICK k \in DOMAIN s : s[k].type = "OPERATOR_ACTION" /\ s[k].version = s[i].version
    BY DEF Explained
  <2> QED
    BY <1>1, <1>3, <2>1
<1> QED
  BY <1>3, <1>4, <1>5 DEF Explained

\* Events that are no changes leave the chain as it is
LEMMA ChainStays ==
  ASSUME NEW s, NEW u, NEW names, NEW from, NEW to, NEW v, Extends(s, u, names, from, to, v),
         NEW last, NEW state, Chain(s, last, state),
         \A k \in DOMAIN names : names[k] \notin Changing
  PROVE  Chain(u, last, state)
<1>1. \A i \in DOMAIN s : i \in DOMAIN u /\ u[i] = s[i]
  BY ExtendedStays
<1>2. ASSUME NEW i \in DOMAIN u, u[i].type \in Changing
      PROVE  i \in DOMAIN s
  BY <1>2, ExtendedIndex
<1>3. ChangesOf(u) = ChangesOf(s)
  BY <1>1, <1>2 DEF ChangesOf
<1>4. \A i \in ChangesOf(s) : i \in DOMAIN s /\ u[i] = s[i]
  BY <1>1 DEF ChangesOf
<1>5. \A i \in ChangesOf(s) : Explained(u, i)
  <2>1. \A i \in ChangesOf(s) : Explained(s, i)
    BY DEF Chain
  <2> QED
    BY <1>4, <2>1, ExplainedStays
<1> QED
  BY <1>3, <1>4, <1>5 DEF Chain

\* The events of a transition lengthen it by one change
LEMMA ChainGrows ==
  ASSUME NEW s, NEW u, NEW names, NEW to, NEW state,
         NEW last \in Nat, last >= 1, Extends(s, u, names, state, to, last + 1),
         InOrder(s, last), Chain(s, last, state), to \in LegalNext[state],
         NEW final \in DOMAIN names, names[final] = "OPERATION_TRANSITIONED",
         \A k \in DOMAIN names : k # final => names[k] \notin Changing,
         state = "MANUAL_INTERVENTION" => \E k \in DOMAIN names : names[k] = "OPERATOR_ACTION"
  PROVE  Chain(u, last + 1, to)
<1>1. \A i \in DOMAIN s : i \in DOMAIN u /\ u[i] = s[i]
  BY ExtendedStays
<1>2. \A i \in ChangesOf(s) :
        /\ i \in DOMAIN s /\ i \in ChangesOf(u) /\ u[i] = s[i] /\ u[i].version \in 1..last
  BY <1>1 DEF ChangesOf, InOrder
<1> DEFINE new == Len(s) + final
<1>3. /\ new \in DOMAIN u /\ u[new].type = "OPERATION_TRANSITIONED"
      /\ u[new].version = last + 1 /\ u[new].from = state /\ u[new].to = to
  BY DEF Extends
<1>4. new \in ChangesOf(u)
  BY <1>3 DEF ChangesOf, Changing
<1>5. ASSUME NEW i \in ChangesOf(u)
      PROVE  i \in ChangesOf(s) \/ i = new
  <2>1. i \in DOMAIN u /\ u[i].type \in Changing
    BY DEF ChangesOf
  <2>2. CASE i \in DOMAIN s /\ u[i] = s[i]
    BY <2>1, <2>2 DEF ChangesOf
  <2>3. CASE \E k \in DOMAIN names : i = Len(s) + k /\ u[i].type = names[k]
    BY <2>1, <2>3
  <2> QED
    BY <2>1, <2>2, <2>3, ExtendedIndex
<1> HIDE DEF new
<1>6. PICK before \in ChangesOf(s) : s[before].version = last
  BY DEF Chain
<1>7. before \in ChangesOf(u) /\ u[before].version = last /\ u[before].to = state
  BY <1>2, <1>6 DEF Chain
<1>8. Explained(u, new)
  <2>1. Linked(u, new)
    BY <1>3, <1>7 DEF Linked
  <2>2. state = "MANUAL_INTERVENTION" =>
          \E k \in DOMAIN u : u[k].type = "OPERATOR_ACTION" /\ u[k].version = last + 1
    BY ExtendedStays
  <2> QED
    BY <1>3, <2>1, <2>2 DEF Explained
<1>9. ASSUME NEW v \in 1..(last + 1)
      PROVE  \E i \in ChangesOf(u) : u[i].version = v
  <2>1. CASE v = last + 1
    BY <1>3, <1>4, <2>1
  <2>2. CASE v \in 1..last
    <3>1. PICK i \in ChangesOf(s) : s[i].version = v
      BY <2>2 DEF Chain
    <3> QED
      BY <1>2, <3>1
  <2> QED
    BY <2>1, <2>2
<1>10. ASSUME NEW i \in ChangesOf(u), NEW j \in ChangesOf(u), u[i].version = u[j].version
       PROVE  i = j
  <2>1. CASE i \in ChangesOf(s) /\ j \in ChangesOf(s)
    BY <1>2, <1>10, <2>1 DEF Chain
  <2>2. CASE i = new /\ j = new
    BY <2>2
  <2>3. \A k \in ChangesOf(s) : u[k].version # u[new].version
    BY <1>2, <1>3
  <2> QED
    BY <1>5, <1>10, <2>1, <2>2, <2>3
<1>11. ASSUME NEW i \in ChangesOf(u)
       PROVE  Explained(u, i) /\ (u[i].version = last + 1 => u[i].to = to)
  <2>1. CASE i = new
    BY <1>3, <1>8, <2>1
  <2>2. CASE i \in ChangesOf(s)
    <3>1. i \in DOMAIN s /\ Explained(s, i)
      BY <2>2 DEF Chain, ChangesOf
    <3>2. Explained(u, i)
      BY <3>1, ExplainedStays
    <3>3. u[i].version # last + 1
      BY <1>2, <2>2
    <3> QED
      BY <3>2, <3>3
  <2> QED
    BY <1>5, <2>1, <2>2
<1> QED
  BY <1>9, <1>10, <1>11 DEF Chain

\* At most one action of the operator comes with a new version
LEMMA ActionsStayApart ==
  ASSUME NEW s, NEW u, NEW names, NEW from, NEW to, NEW v, Extends(s, u, names, from, to, v),
         NEW last \in Nat, InOrder(s, last), ActionsApart(s),
         \/ \A k \in DOMAIN names : names[k] # "OPERATOR_ACTION"
         \/ /\ v = last + 1
            /\ \A k, l \in DOMAIN names : names[k] = names[l] => k = l
  PROVE  ActionsApart(u)
<1> SUFFICES ASSUME NEW i \in DOMAIN u, NEW j \in DOMAIN u,
                    u[i].type = "OPERATOR_ACTION", u[j].type = "OPERATOR_ACTION",
                    u[i].version = u[j].version
             PROVE  i = j
  BY DEF ActionsApart
<1>1. CASE \A k \in DOMAIN names : names[k] # "OPERATOR_ACTION"
  <2>1. i \in DOMAIN s /\ j \in DOMAIN s /\ u[i] = s[i] /\ u[j] = s[j]
    BY <1>1, ExtendedIndex
  <2> QED
    BY <2>1 DEF ActionsApart
<1>2. CASE v = last + 1 /\ \A k, l \in DOMAIN names : names[k] = names[l] => k = l
  <2>1. \A k \in DOMAIN s : s[k].version # v
    BY <1>2 DEF InOrder
  <2>2. CASE i \in DOMAIN s /\ u[i] = s[i] /\ j \in DOMAIN s /\ u[j] = s[j]
    BY <2>2 DEF ActionsApart
  <2>3. CASE /\ \E k \in DOMAIN names : i = Len(s) + k /\ u[i].type = names[k]
             /\ \E k \in DOMAIN names : j = Len(s) + k /\ u[j].type = names[k]
    BY <1>2, <2>3
  <2>4. /\ \/ i \in DOMAIN s /\ u[i] = s[i]
           \/ \E k \in DOMAIN names : /\ i = Len(s) + k /\ u[i].type = names[k]
                                      /\ u[i].version = v
        /\ \/ j \in DOMAIN s /\ u[j] = s[j]
           \/ \E k \in DOMAIN names : /\ j = Len(s) + k /\ u[j].type = names[k]
                                      /\ u[j].version = v
    BY ExtendedIndex
  <2> QED
    BY <2>1, <2>2, <2>3, <2>4
<1> QED
  BY <1>1, <1>2

\* An event that is not added stays as it is; one that is added is the only one
LEMMA SingleStays ==
  ASSUME NEW s, NEW u, NEW names, NEW from, NEW to, NEW v, Extends(s, u, names, from, to, v),
         NEW type, NEW version, Single(s, type, version),
         \A k \in DOMAIN names : names[k] # type
  PROVE  Single(u, type, version) /\ (Seen(u, type) <=> Seen(s, type))
<1>1. \A i \in DOMAIN s : i \in DOMAIN u /\ u[i] = s[i]
  BY ExtendedStays
<1>2. ASSUME NEW i \in DOMAIN u, u[i].type = type
      PROVE  i \in DOMAIN s
  BY <1>2, ExtendedIndex
<1>3. Seen(u, type) <=> Seen(s, type)
  BY <1>1, <1>2 DEF Seen
<1>4. \A i \in DOMAIN u : u[i].type = type => u[i].version = version
  BY <1>1, <1>2 DEF Single
<1>5. \A i, j \in DOMAIN u : (u[i].type = type /\ u[j].type = type) => i = j
  BY <1>1, <1>2 DEF Single
<1> QED
  BY <1>3, <1>4, <1>5 DEF Single

LEMMA SingleMade ==
  ASSUME NEW s, NEW u, NEW names, NEW from, NEW to, NEW v, Extends(s, u, names, from, to, v),
         NEW type, ~Seen(s, type), NEW k \in DOMAIN names, names[k] = type,
         \A l \in DOMAIN names : names[l] = type => l = k
  PROVE  Single(u, type, v) /\ Seen(u, type)
<1>1. \A i \in DOMAIN s : s[i].type # type
  BY DEF Seen
<1>2. ASSUME NEW i \in DOMAIN u, u[i].type = type
      PROVE  i = Len(s) + k /\ u[i].version = v
  <2>1. CASE i \in DOMAIN s /\ u[i] = s[i]
    BY <1>1, <1>2, <2>1
  <2>2. CASE \E l \in DOMAIN names : /\ i = Len(s) + l /\ u[i].type = names[l]
                                     /\ u[i].version = v
    BY <1>2, <2>2
  <2> QED
    BY <2>1, <2>2, ExtendedIndex
<1>3. Seen(u, type)
  BY ExtendedStays DEF Seen
<1> QED
  BY <1>2, <1>3 DEF Single

-----------------------------------------------------------------------------
(***************************************************************************)
(* The events of each kind                                                *)
(***************************************************************************)

\* What transitions past the authorisation report
LateReports ==
  {<< >>, <<"EXECUTION_ATTEMPT_STARTED">>, <<"EXECUTION_EVIDENCE_RECORDED">>,
   <<"EXECUTION_EVIDENCE_RECORDED", "VERIFICATION_STARTED">>, <<"VERIFICATION_COMPLETED">>,
   <<"VERIFICATION_STARTED">>, <<"OPERATOR_ACTION", "VERIFICATION_STARTED">>,
   <<"COMPENSATION_REQUESTED">>, <<"OPERATOR_ACTION", "COMPENSATION_REQUESTED">>,
   <<"COMPENSATION_RESULT">>, <<"MANUAL_INTERVENTION_REASON">>}

LEMMA NothingAdded ==
  /\ << >> \in Seq(EventTypes)
  /\ \A s \in Seq(EventTypes) : s \o << >> = s /\ << >> \o s = s
BY ConcatEmptySeq, EmptySeq

\* The judgement of the policy, the request for an approval and the decision are reported
\* by their own kinds
LEMMA JudgementReports ==
  /\ AuditTypes("POLICY_ALLOW") = <<"POLICY_EVALUATED">>
  /\ AuditTypes("POLICY_DENY") = <<"POLICY_EVALUATED">>
  /\ AuditTypes("POLICY_REQUIRE_APPROVAL") = <<"POLICY_EVALUATED", "APPROVAL_REQUESTED">>
  /\ AuditTypes("APPROVAL_GRANT") = <<"APPROVAL_DECIDED">>
  /\ AuditTypes("APPROVAL_REJECT") = <<"APPROVAL_DECIDED">>
  /\ AuditTypes("CANCEL_AWAITING_APPROVAL") = << >>
<1> DEFINE Judging == {"POLICY_ALLOW", "POLICY_DENY", "POLICY_REQUIRE_APPROVAL",
                       "APPROVAL_GRANT", "APPROVAL_REJECT", "CANCEL_AWAITING_APPROVAL"}
<1>1. ASSUME NEW kind \in Judging
      PROVE  AuditTypes(kind) = PolicyEvents(kind)
  <2>1. ExecutionEvents(kind) = << >> /\ RecoveryEvents(kind) = << >>
    BY DEF ExecutionEvents, RecoveryEvents
  <2>2. CompensationEvents(kind) = << >>
        /\ (IF kind \in Escalations THEN <<"MANUAL_INTERVENTION_REASON">> ELSE << >>) = << >>
    BY DEF CompensationEvents, Escalations
  <2> QED
    BY <2>1, <2>2, GroupsKnown, NothingAdded DEF AuditTypes
<1>2. /\ PolicyEvents("POLICY_ALLOW") = <<"POLICY_EVALUATED">>
      /\ PolicyEvents("POLICY_DENY") = <<"POLICY_EVALUATED">>
      /\ PolicyEvents("POLICY_REQUIRE_APPROVAL") = <<"POLICY_EVALUATED", "APPROVAL_REQUESTED">>
      /\ PolicyEvents("APPROVAL_GRANT") = <<"APPROVAL_DECIDED">>
      /\ PolicyEvents("APPROVAL_REJECT") = <<"APPROVAL_DECIDED">>
      /\ PolicyEvents("CANCEL_AWAITING_APPROVAL") = << >>
  BY DEF PolicyEvents
<1> QED
  BY <1>1, <1>2

LEMMA LateReported ==
  ASSUME NEW kind \in LateKinds
  PROVE  /\ AuditTypes(kind) \in LateReports
         /\ Source(kind) = "MANUAL_INTERVENTION" =>
              AuditTypes(kind) \in {<<"OPERATOR_ACTION", "VERIFICATION_STARTED">>,
                                    <<"OPERATOR_ACTION", "COMPENSATION_REQUESTED">>}
<1> DEFINE p == PolicyEvents(kind)
           e == ExecutionEvents(kind)
           r == RecoveryEvents(kind)
           c == CompensationEvents(kind)
           m == IF kind \in Escalations THEN <<"MANUAL_INTERVENTION_REASON">> ELSE << >>
<1>1. /\ p \in Seq(EventTypes) /\ e \in Seq(EventTypes) /\ r \in Seq(EventTypes)
      /\ c \in Seq(EventTypes) /\ m \in Seq(EventTypes)
  BY GroupsKnown
<1>2. p = << >>
  BY DEF PolicyEvents, LateKinds
<1>3. /\ e = << >> \/ (r = << >> /\ c = << >> /\ m = << >>)
      /\ r = << >> \/ (c = << >> /\ m = << >>)
      /\ c = << >> \/ m = << >>
  <2>1. e = << >> \/ kind \in {"CLAIM_EXECUTION", "EXECUTION_REQUIRE_VERIFICATION",
          "EXECUTION_APPLIED", "EXECUTION_NOT_APPLIED_RETRY", "EXECUTION_NOT_APPLIED_FAIL",
          "EXECUTION_UNKNOWN"}
    BY DEF ExecutionEvents
  <2>2. r = << >> \/ kind \in {"VERIFICATION_APPLIED", "VERIFICATION_NOT_APPLIED_RETRY",
          "VERIFICATION_NOT_APPLIED_FAIL", "VERIFICATION_INCONCLUSIVE",
          "UNKNOWN_START_VERIFICATION", "MANUAL_START_VERIFICATION"}
    BY DEF RecoveryEvents, LateKinds
  <2>3. c = << >> \/ kind \in {"SUCCEEDED_START_COMPENSATION", "FAILED_START_COMPENSATION",
          "MANUAL_START_COMPENSATION", "COMPENSATION_APPLIED", "COMPENSATION_OUTCOME_UNKNOWN",
          "COMPENSATION_OUTCOME_FAILED"}
    BY DEF CompensationEvents
  <2>4. m = << >> \/ kind \in {"VERIFICATION_ESCALATE", "UNKNOWN_ESCALATE",
          "COMPENSATION_ESCALATE", "COMPENSATION_UNKNOWN_ESCALATE",
          "COMPENSATION_FAILED_ESCALATE"}
    BY DEF Escalations
  <2> HIDE DEF e, r, c, m
  <2> QED
    BY <2>1, <2>2, <2>3, <2>4
<1>4. /\ e \in {<< >>, <<"EXECUTION_ATTEMPT_STARTED">>, <<"EXECUTION_EVIDENCE_RECORDED">>,
                <<"EXECUTION_EVIDENCE_RECORDED", "VERIFICATION_STARTED">>}
      /\ r \in {<< >>, <<"VERIFICATION_COMPLETED">>, <<"VERIFICATION_STARTED">>,
                <<"OPERATOR_ACTION", "VERIFICATION_STARTED">>}
      /\ c \in {<< >>, <<"COMPENSATION_REQUESTED">>, <<"COMPENSATION_RESULT">>,
                <<"OPERATOR_ACTION", "COMPENSATION_REQUESTED">>}
      /\ m \in {<< >>, <<"MANUAL_INTERVENTION_REASON">>}
  BY DEF ExecutionEvents, RecoveryEvents, CompensationEvents, LateKinds
<1>5. AuditTypes(kind) = p \o e \o r \o c \o m
  BY DEF AuditTypes
<1>6. Source(kind) = "MANUAL_INTERVENTION" =>
        \/ e = << >> /\ r = <<"OPERATOR_ACTION", "VERIFICATION_STARTED">> /\ c = << >> /\ m = << >>
        \/ e = << >> /\ c = <<"OPERATOR_ACTION", "COMPENSATION_REQUESTED">> /\ r = << >> /\ m = << >>
  <2> SUFFICES ASSUME Source(kind) = "MANUAL_INTERVENTION"
               PROVE  \/ /\ e = << >> /\ r = <<"OPERATOR_ACTION", "VERIFICATION_STARTED">>
                         /\ c = << >> /\ m = << >>
                      \/ /\ e = << >> /\ c = <<"OPERATOR_ACTION", "COMPENSATION_REQUESTED">>
                         /\ r = << >> /\ m = << >>
    OBVIOUS
  <2>1. kind \in {"MANUAL_START_VERIFICATION", "MANUAL_START_COMPENSATION"}
    BY DEF LateKinds, Source, Edge
  <2> QED
    BY <2>1 DEF ExecutionEvents, RecoveryEvents, CompensationEvents, Escalations
<1> HIDE DEF p, e, r, c, m
<1>7. /\ (r = << >> /\ c = << >> /\ m = << >>) => AuditTypes(kind) = e
      /\ (e = << >> /\ c = << >> /\ m = << >>) => AuditTypes(kind) = r
      /\ (e = << >> /\ r = << >> /\ m = << >>) => AuditTypes(kind) = c
      /\ (e = << >> /\ r = << >> /\ c = << >>) => AuditTypes(kind) = m
  <2>1. CASE r = << >> /\ c = << >> /\ m = << >>
    BY <1>1, <1>2, <1>5, <2>1, NothingAdded
  <2>2. CASE e = << >> /\ c = << >> /\ m = << >>
    BY <1>1, <1>2, <1>5, <2>2, NothingAdded
  <2>3. CASE e = << >> /\ r = << >> /\ m = << >>
    BY <1>1, <1>2, <1>5, <2>3, NothingAdded
  <2>4. CASE e = << >> /\ r = << >> /\ c = << >>
    BY <1>1, <1>2, <1>5, <2>4, NothingAdded
  <2> QED
    BY <2>1, <2>2, <2>3, <2>4
<1>8. AuditTypes(kind) \in {e, r, c, m}
  BY <1>3, <1>7
<1>9. AuditTypes(kind) \in LateReports
  BY <1>4, <1>8 DEF LateReports
<1> QED
  BY <1>6, <1>7, <1>9

\* No event is reported twice, and the changes and the judgements by others only
LEMMA LateReportsKnown ==
  ASSUME NEW types \in LateReports
  PROVE  /\ types \in Seq(EventTypes)
         /\ \A i \in DOMAIN types :
              types[i] \notin Changing \union {"POLICY_EVALUATED", "APPROVAL_REQUESTED",
                                               "APPROVAL_DECIDED"}
         /\ \A i, j \in DOMAIN types : types[i] = types[j] => i = j
<1> DEFINE Others == {"EXECUTION_ATTEMPT_STARTED", "EXECUTION_EVIDENCE_RECORDED",
                      "VERIFICATION_STARTED", "VERIFICATION_COMPLETED", "OPERATOR_ACTION",
                      "COMPENSATION_REQUESTED", "COMPENSATION_RESULT",
                      "MANUAL_INTERVENTION_REASON"}
<1>1. \/ types = << >>
      \/ \E first \in Others : types = <<first>>
      \/ \E first, second \in Others : first # second /\ types = <<first, second>>
  BY DEF LateReports
<1>2. /\ Others \subseteq EventTypes
      /\ \A other \in Others :
           other \notin Changing \union {"POLICY_EVALUATED", "APPROVAL_REQUESTED",
                                         "APPROVAL_DECIDED"}
  BY DEF EventTypes, Changing
<1> HIDE DEF Others
<1>3. CASE types = << >>
  <2>1. DOMAIN types = {} /\ types \in Seq(EventTypes)
    BY <1>3, EmptySeq
  <2> QED
    BY <2>1
<1>4. CASE \E first \in Others : types = <<first>>
  BY <1>2, <1>4
<1>5. CASE \E first, second \in Others : first # second /\ types = <<first, second>>
  <2>1. PICK first \in Others, second \in Others :
          first # second /\ types = <<first, second>>
    BY <1>5
  <2>2. DOMAIN types = {1, 2} /\ types[1] = first /\ types[2] = second
    BY <2>1
  <2>3. types \in Seq(EventTypes)
    BY <1>2, <2>1
  <2> QED
    BY <1>2, <2>1, <2>2, <2>3
<1> QED
  BY <1>1, <1>3, <1>4, <1>5

-----------------------------------------------------------------------------
(***************************************************************************)
(* Every step keeps what the trail tells                                  *)
(***************************************************************************)
LEMMA LegalEdges ==
  ASSUME NEW kind \in LateKinds \union {"POLICY_ALLOW", "POLICY_DENY", "POLICY_REQUIRE_APPROVAL",
                        "APPROVAL_GRANT", "APPROVAL_REJECT", "CANCEL_AWAITING_APPROVAL"}
  PROVE  Target(kind) \in LegalNext[Source(kind)]
<1> DEFINE from == Source(kind)
           to == Target(kind)
<1>1. \/ from = "PENDING_POLICY" /\ to \in {"READY", "AWAITING_APPROVAL", "DENIED"}
      \/ from = "AWAITING_APPROVAL" /\ to \in {"READY", "DENIED", "CANCELLED"}
      \/ from = "READY" /\ to \in {"EXECUTING", "MANUAL_INTERVENTION"}
      \/ from = "EXECUTING" /\ to \in {"SUCCEEDED", "VERIFYING", "READY", "FAILED", "UNKNOWN",
                                       "MANUAL_INTERVENTION"}
      \/ from = "VERIFYING" /\ to \in {"SUCCEEDED", "READY", "FAILED", "UNKNOWN",
                                       "MANUAL_INTERVENTION"}
      \/ from = "UNKNOWN" /\ to \in {"VERIFYING", "READY", "MANUAL_INTERVENTION"}
      \/ from \in {"SUCCEEDED", "FAILED"} /\ to = "COMPENSATING"
      \/ from = "MANUAL_INTERVENTION" /\ to \in {"VERIFYING", "COMPENSATING"}
      \/ from = "COMPENSATING" /\ to \in {"COMPENSATED", "COMPENSATION_UNKNOWN",
                                          "COMPENSATION_FAILED", "MANUAL_INTERVENTION"}
      \/ from = "COMPENSATION_UNKNOWN" /\ to \in {"COMPENSATING", "COMPENSATED",
                                                  "MANUAL_INTERVENTION"}
      \/ from = "COMPENSATION_FAILED" /\ to \in {"COMPENSATING", "MANUAL_INTERVENTION"}
  BY DEF LateKinds, Source, Target, Edge
<1> HIDE DEF from, to
<1>2. to \in LegalNext[from]
  BY <1>1 DEF LegalNext, OperationStates, Absent
<1> QED
  BY <1>2 DEF from, to

\* What is reported before the transition itself
LEMMA MoveExtends ==
  ASSUME Types, NEW kind, Source(kind) \in States, Target(kind) \in States,
         NEW types \in Seq(EventTypes), Move(kind, types),
         NEW names, names = Append(types, "OPERATION_TRANSITIONED")
  PROVE  /\ Extends(trail, trail', names, Source(kind), Target(kind), op.version + 1)
         /\ DOMAIN names = 1..(Len(types) + 1) /\ DOMAIN types = 1..Len(types)
         /\ Len(types) \in Nat
         /\ names[Len(types) + 1] = "OPERATION_TRANSITIONED"
         /\ \A k \in DOMAIN types : names[k] = types[k]
<1>1. "OPERATION_TRANSITIONED" \in EventTypes
  BY DEF EventTypes
<1>2. /\ Len(types) \in Nat /\ DOMAIN types = 1..Len(types)
      /\ names \in Seq(EventTypes) /\ Len(names) = Len(types) + 1
      /\ names[Len(types) + 1] = "OPERATION_TRANSITIONED"
      /\ \A k \in 1..Len(types) : names[k] = types[k]
  BY <1>1, AppendProperties, LenProperties
<1>3. DOMAIN names = 1..(Len(types) + 1)
  BY <1>2, LenProperties
<1>4. op.version + 1 \in Nat /\ trail \in Seq(Events)
  BY DEF Types, Rows
<1>5. PICK from \in States, to \in States, v \in Nat :
        from = Source(kind) /\ to = Target(kind) /\ v = op.version + 1
  BY <1>4
<1>6. TransitionEvents(kind, types) = Reports(names, from, to, v)
  BY <1>2, <1>5 DEF TransitionEvents, Reports
<1>7. trail' = trail \o Reports(names, from, to, v)
  BY <1>6 DEF Move
<1>8. names \in Seq(EventTypes) /\ trail \in Seq(Events)
  BY <1>2, <1>4
<1>9. Extends(trail, trail', names, from, to, v)
  BY <1>7, <1>8, ReportsExtend
<1>10. Extends(trail, trail', names, Source(kind), Target(kind), op.version + 1)
  BY <1>5, <1>9
<1> QED
  BY <1>2, <1>3, <1>10

\* The report of a transition itself comes last, no event is reported twice, and the
\* operator's action is
Orderly(kind, types) ==
  /\ \A k \in DOMAIN types : types[k] \notin Changing
  /\ \A k, l \in DOMAIN types : types[k] = types[l] => k = l
  /\ Source(kind) = "MANUAL_INTERVENTION" =>
       \E k \in DOMAIN types : types[k] = "OPERATOR_ACTION"

\* A transition lengthens the chain
LEMMA MoveKeepsChain ==
  ASSUME IntakeInv, TrailInv, NEW kind, op.state = Source(kind), Source(kind) \in States,
         Target(kind) \in States, Target(kind) \in LegalNext[Source(kind)],
         NEW types \in Seq(EventTypes), Move(kind, types), op.version >= 1,
         Orderly(kind, types)
  PROVE  /\ InOrder(trail', op'.version) /\ Chain(trail', op'.version, op'.state)
         /\ ActionsApart(trail')
<1>1. Types /\ op.version \in Nat
  BY DEF IntakeInv, Types, Rows
<1>2. op'.version = op.version + 1 /\ op'.state = Target(kind)
  BY <1>1, MoveTypes
<1>3. PICK names : names = Append(types, "OPERATION_TRANSITIONED")
  OBVIOUS
<1>4. /\ Extends(trail, trail', names, Source(kind), Target(kind), op.version + 1)
      /\ DOMAIN names = 1..(Len(types) + 1) /\ DOMAIN types = 1..Len(types)
      /\ Len(types) \in Nat
      /\ names[Len(types) + 1] = "OPERATION_TRANSITIONED"
      /\ \A k \in DOMAIN types : names[k] = types[k]
  BY <1>1, <1>3, MoveExtends
<1>5. PICK final : final = Len(types) + 1
  OBVIOUS
<1>6. /\ final \in DOMAIN names /\ names[final] = "OPERATION_TRANSITIONED"
      /\ \A k \in DOMAIN names : k # final => k \in DOMAIN types
  BY <1>4, <1>5
<1>7. /\ \A k \in DOMAIN names : k # final => names[k] \notin Changing
      /\ Source(kind) = "MANUAL_INTERVENTION" =>
           \E k \in DOMAIN names : names[k] = "OPERATOR_ACTION"
  <2>1. DOMAIN types \subseteq DOMAIN names
    BY <1>4
  <2> QED
    BY <1>4, <1>6, <2>1 DEF Orderly
<1>8. \A k, l \in DOMAIN names : names[k] = names[l] => k = l
  <2>1. "OPERATION_TRANSITIONED" \in Changing
    BY DEF Changing
  <2>2. \A k \in DOMAIN names : k # final => names[k] # names[final]
    BY <1>6, <1>7, <2>1
  <2>3. \A k, l \in DOMAIN types : names[k] = names[l] => k = l
    BY <1>4 DEF Orderly
  <2> QED
    BY <1>6, <2>2, <2>3
<1>9. InOrder(trail, op.version) /\ Chain(trail, op.version, op.state) /\ ActionsApart(trail)
  BY DEF TrailInv
<1>10. InOrder(trail', op.version + 1)
  BY <1>1, <1>4, <1>9, OrderExtends
<1>11. Chain(trail', op.version + 1, Target(kind))
  BY <1>1, <1>4, <1>6, <1>7, <1>9, ChainGrows
<1>12. ActionsApart(trail')
  BY <1>1, <1>4, <1>8, <1>9, ActionsStayApart
<1> QED
  BY <1>2, <1>10, <1>11, <1>12

\* ... and leaves an event of another type as it is
LEMMA MoveKeepsSingle ==
  ASSUME IntakeInv, NEW kind, Source(kind) \in States, Target(kind) \in States,
         NEW types \in Seq(EventTypes), Move(kind, types),
         NEW type, type # "OPERATION_TRANSITIONED", NEW version, Single(trail, type, version),
         \A k \in DOMAIN types : types[k] # type
  PROVE  Single(trail', type, version) /\ (Seen(trail', type) <=> Seen(trail, type))
<1>1. Types
  BY DEF IntakeInv
<1>2. PICK names : names = Append(types, "OPERATION_TRANSITIONED")
  OBVIOUS
<1>3. /\ Extends(trail, trail', names, Source(kind), Target(kind), op.version + 1)
      /\ DOMAIN names = 1..(Len(types) + 1) /\ DOMAIN types = 1..Len(types)
      /\ Len(types) \in Nat
      /\ names[Len(types) + 1] = "OPERATION_TRANSITIONED"
      /\ \A k \in DOMAIN types : names[k] = types[k]
  BY <1>1, <1>2, MoveExtends
<1>4. \A k \in DOMAIN names : names[k] # type
  BY <1>3
<1> QED
  BY <1>3, <1>4, SingleStays

\* ... or makes it the only one
LEMMA MoveMakesSingle ==
  ASSUME IntakeInv, NEW kind, Source(kind) \in States, Target(kind) \in States,
         NEW types \in Seq(EventTypes), Move(kind, types),
         NEW type, type # "OPERATION_TRANSITIONED", ~Seen(trail, type),
         NEW k \in DOMAIN types, types[k] = type,
         \A l \in DOMAIN types : types[l] = type => l = k
  PROVE  Single(trail', type, op.version + 1) /\ Seen(trail', type)
<1>1. Types
  BY DEF IntakeInv
<1>2. PICK names : names = Append(types, "OPERATION_TRANSITIONED")
  OBVIOUS
<1>3. /\ Extends(trail, trail', names, Source(kind), Target(kind), op.version + 1)
      /\ DOMAIN names = 1..(Len(types) + 1) /\ DOMAIN types = 1..Len(types)
      /\ Len(types) \in Nat
      /\ names[Len(types) + 1] = "OPERATION_TRANSITIONED"
      /\ \A l \in DOMAIN types : names[l] = types[l]
  BY <1>1, <1>2, MoveExtends
<1>4. k \in DOMAIN names /\ names[k] = type
  BY <1>3
<1>5. \A l \in DOMAIN names : names[l] = type => l = k
  BY <1>3
<1> QED
  BY <1>3, <1>4, <1>5, SingleMade

\* A transition past the authorisation
LEMMA LateTrail ==
  ASSUME IntakeInv, TrailInv, NEW kind \in LateKinds, NEW types \in LateReports,
         op.state = Source(kind), Move(kind, types), UNCHANGED <<policy, approval>>,
         Source(kind) = "MANUAL_INTERVENTION" =>
           \E k \in DOMAIN types : types[k] = "OPERATOR_ACTION"
  PROVE  TrailInv'
<1>1. /\ types \in Seq(EventTypes) /\ Orderly(kind, types)
      /\ \A k \in DOMAIN types :
           types[k] \notin {"POLICY_EVALUATED", "APPROVAL_REQUESTED", "APPROVAL_DECIDED"}
  BY LateReportsKnown DEF Orderly
<1>2. /\ Source(kind) \in States /\ Target(kind) \in States
      /\ Target(kind) \in LegalNext[Source(kind)]
  BY LateStates, LegalEdges DEF States
<1>3. op.version >= 1
  <2>1. op.state # Absent /\ op.version \in Nat
    BY LateStates DEF IntakeInv, Types, Rows, Early
  <2> QED
    BY <2>1 DEF IntakeInv, Stages
<1>4. /\ InOrder(trail', op'.version) /\ Chain(trail', op'.version, op'.state)
      /\ ActionsApart(trail')
  BY <1>1, <1>2, <1>3, MoveKeepsChain
<1>5. ASSUME NEW type \in {"POLICY_EVALUATED", "APPROVAL_REQUESTED", "APPROVAL_DECIDED"},
             NEW version, Single(trail, type, version)
      PROVE  Single(trail', type, version) /\ (Seen(trail', type) <=> Seen(trail, type))
  <2>1. type # "OPERATION_TRANSITIONED" /\ \A k \in DOMAIN types : types[k] # type
    BY <1>1
  <2> QED
    BY <1>1, <1>2, <1>5, <2>1, MoveKeepsSingle
<1>6. policy' = policy /\ approval' = approval
  OBVIOUS
<1> QED
  BY <1>4, <1>5, <1>6 DEF TrailInv

\* The judgement of the policy
LEMMA JudgementTrail ==
  ASSUME IntakeInv, TrailInv, NEW verdict \in PolicyVerdicts,
         NEW kind, kind = PolicyKind[verdict], op.state = Source(kind), Commit(kind),
         policy'.verdict = verdict,
         verdict = "REQUIRE_APPROVAL" => approval'.state = "PENDING",
         verdict # "REQUIRE_APPROVAL" => approval' = approval
  PROVE  TrailInv'
<1>1. \/ verdict = "ALLOW" /\ kind = "POLICY_ALLOW"
      \/ verdict = "DENY" /\ kind = "POLICY_DENY"
      \/ verdict = "REQUIRE_APPROVAL" /\ kind = "POLICY_REQUIRE_APPROVAL"
  BY DEF PolicyVerdicts, PolicyKind
<1>2. op.state = "PENDING_POLICY" /\ op.version = 1
  <2>1. op.state = "PENDING_POLICY"
    BY <1>1, JudgementKinds
  <2> QED
    BY <2>1 DEF IntakeInv, Stages
<1>3. /\ Source(kind) = "PENDING_POLICY"
      /\ Source(kind) \in States /\ Target(kind) \in States
      /\ Target(kind) \in LegalNext[Source(kind)]
  BY <1>1, JudgementKinds, LegalEdges DEF States, OperationStates
<1>4. policy.verdict = "NONE" /\ approval.state = "NONE"
  BY <1>2 DEF IntakeInv, Judged
<1>5. /\ ~Seen(trail, "POLICY_EVALUATED") /\ ~Seen(trail, "APPROVAL_REQUESTED")
      /\ ~Seen(trail, "APPROVAL_DECIDED")
  BY <1>4 DEF TrailInv, Decided
<1>6. PICK types \in Seq(EventTypes) : types = AuditTypes(kind)
  BY AuditTypesKnown
<1>7. Move(kind, types)
  BY <1>6 DEF Commit
<1>8. /\ types = <<"POLICY_EVALUATED">> \/ types = <<"POLICY_EVALUATED", "APPROVAL_REQUESTED">>
      /\ types = <<"POLICY_EVALUATED", "APPROVAL_REQUESTED">> <=> verdict = "REQUIRE_APPROVAL"
  <2>1. \/ verdict = "ALLOW" /\ types = <<"POLICY_EVALUATED">>
        \/ verdict = "DENY" /\ types = <<"POLICY_EVALUATED">>
        \/ /\ verdict = "REQUIRE_APPROVAL"
           /\ types = <<"POLICY_EVALUATED", "APPROVAL_REQUESTED">>
    BY <1>1, <1>6, JudgementReports
  <2>2. <<"POLICY_EVALUATED">> # <<"POLICY_EVALUATED", "APPROVAL_REQUESTED">>
    OBVIOUS
  <2> QED
    BY <2>1, <2>2
<1>9. /\ DOMAIN types \subseteq {1, 2} /\ 1 \in DOMAIN types /\ types[1] = "POLICY_EVALUATED"
      /\ 2 \in DOMAIN types => types[2] = "APPROVAL_REQUESTED"
      /\ 2 \in DOMAIN types <=> verdict = "REQUIRE_APPROVAL"
  <2>1. CASE types = <<"POLICY_EVALUATED">>
    <3>1. DOMAIN types = {1} /\ types[1] = "POLICY_EVALUATED"
      BY <2>1
    <3>2. verdict # "REQUIRE_APPROVAL"
      BY <1>8, <2>1
    <3> QED
      BY <3>1, <3>2
  <2>2. CASE types = <<"POLICY_EVALUATED", "APPROVAL_REQUESTED">>
    <3>1. DOMAIN types = {1, 2} /\ types[1] = "POLICY_EVALUATED"
          /\ types[2] = "APPROVAL_REQUESTED"
      BY <2>2
    <3>2. verdict = "REQUIRE_APPROVAL"
      BY <1>8, <2>2
    <3> QED
      BY <3>1, <3>2
  <2> QED
    BY <1>8, <2>1, <2>2
<1>10. Orderly(kind, types)
  BY <1>3, <1>9 DEF Orderly, Changing
<1>11. /\ InOrder(trail', op'.version) /\ Chain(trail', op'.version, op'.state)
       /\ ActionsApart(trail')
  BY <1>2, <1>3, <1>7, <1>10, MoveKeepsChain
<1>12. Single(trail', "POLICY_EVALUATED", 2) /\ Seen(trail', "POLICY_EVALUATED")
  <2>1. \A l \in DOMAIN types : types[l] = "POLICY_EVALUATED" => l = 1
    BY <1>9
  <2>2. /\ Single(trail', "POLICY_EVALUATED", op.version + 1)
        /\ Seen(trail', "POLICY_EVALUATED")
    BY <1>3, <1>5, <1>7, <1>9, <2>1, MoveMakesSingle
  <2> QED
    BY <1>2, <2>2
<1>13. /\ Single(trail', "APPROVAL_REQUESTED", 2)
       /\ Seen(trail', "APPROVAL_REQUESTED") <=> approval'.state # "NONE"
  <2>1. CASE verdict = "REQUIRE_APPROVAL"
    <3>1. /\ 2 \in DOMAIN types /\ types[2] = "APPROVAL_REQUESTED"
          /\ \A l \in DOMAIN types : types[l] = "APPROVAL_REQUESTED" => l = 2
      BY <1>9, <2>1
    <3>2. /\ Single(trail', "APPROVAL_REQUESTED", op.version + 1)
          /\ Seen(trail', "APPROVAL_REQUESTED")
      BY <1>3, <1>5, <1>7, <3>1, MoveMakesSingle
    <3> QED
      BY <1>2, <2>1, <3>2
  <2>2. CASE verdict # "REQUIRE_APPROVAL"
    <3>1. \A k \in DOMAIN types : types[k] # "APPROVAL_REQUESTED"
      BY <1>9, <2>2
    <3>2. Single(trail, "APPROVAL_REQUESTED", 2)
      BY DEF TrailInv
    <3>3. /\ Single(trail', "APPROVAL_REQUESTED", 2)
          /\ Seen(trail', "APPROVAL_REQUESTED") <=> Seen(trail, "APPROVAL_REQUESTED")
      BY <1>3, <1>7, <3>1, <3>2, MoveKeepsSingle
    <3> QED
      BY <1>4, <1>5, <2>2, <3>3
  <2> QED
    BY <2>1, <2>2
<1>14. /\ Single(trail', "APPROVAL_DECIDED", 3)
       /\ Seen(trail', "APPROVAL_DECIDED") <=> approval'.state \in Decided
  <2>1. \A k \in DOMAIN types : types[k] # "APPROVAL_DECIDED"
    BY <1>9
  <2>2. Single(trail, "APPROVAL_DECIDED", 3)
    BY DEF TrailInv
  <2>3. /\ Single(trail', "APPROVAL_DECIDED", 3)
        /\ Seen(trail', "APPROVAL_DECIDED") <=> Seen(trail, "APPROVAL_DECIDED")
    BY <1>3, <1>7, <2>1, <2>2, MoveKeepsSingle
  <2>4. approval'.state \notin Decided
    BY <1>4 DEF Decided
  <2> QED
    BY <1>5, <2>3, <2>4
<1>15. policy'.verdict # "NONE"
  BY DEF PolicyVerdicts
<1> QED
  BY <1>11, <1>12, <1>13, <1>14, <1>15 DEF TrailInv

\* The decision of the approver, and the expiry
LEMMA DecisionTrail ==
  ASSUME IntakeInv, TrailInv, NEW job \in DOMAIN DecisionKind,
         NEW kind, kind = DecisionKind[job], op.state = Source(kind), Commit(kind),
         approval'.state = job, policy' = policy
  PROVE  TrailInv'
<1>1. \/ job = "APPROVED" /\ kind = "APPROVAL_GRANT"
      \/ job = "REJECTED" /\ kind = "APPROVAL_REJECT"
      \/ job = "EXPIRED" /\ kind = "CANCEL_AWAITING_APPROVAL"
  BY DEF DecisionKind
<1>2. op.state = "AWAITING_APPROVAL" /\ op.version = 2
  <2>1. op.state = "AWAITING_APPROVAL"
    BY <1>1, JudgementKinds
  <2> QED
    BY <2>1 DEF IntakeInv, Stages
<1>3. /\ Source(kind) = "AWAITING_APPROVAL"
      /\ Source(kind) \in States /\ Target(kind) \in States
      /\ Target(kind) \in LegalNext[Source(kind)]
  BY <1>1, JudgementKinds, LegalEdges DEF States, OperationStates
<1>4. approval.state = "PENDING"
  BY <1>2 DEF IntakeInv, Judged
<1>5. ~Seen(trail, "APPROVAL_DECIDED") /\ Seen(trail, "APPROVAL_REQUESTED")
  BY <1>4 DEF TrailInv, Decided
<1>6. PICK types \in Seq(EventTypes) : types = AuditTypes(kind)
  BY AuditTypesKnown
<1>7. Move(kind, types)
  BY <1>6 DEF Commit
<1>8. \/ job \in Decided /\ types = <<"APPROVAL_DECIDED">>
      \/ job = "EXPIRED" /\ types = << >>
  BY <1>1, <1>6, JudgementReports DEF Decided
<1>9. /\ DOMAIN types \subseteq {1}
      /\ \A k \in DOMAIN types : types[k] = "APPROVAL_DECIDED"
      /\ 1 \in DOMAIN types <=> job \in Decided
  <2>1. CASE job \in Decided /\ types = <<"APPROVAL_DECIDED">>
    <3>1. DOMAIN types = {1} /\ types[1] = "APPROVAL_DECIDED"
      BY <2>1
    <3> QED
      BY <2>1, <3>1
  <2>2. CASE job = "EXPIRED" /\ types = << >>
    <3>1. DOMAIN types = {} /\ job \notin Decided
      BY <2>2 DEF Decided
    <3> QED
      BY <3>1
  <2> QED
    BY <1>8, <2>1, <2>2
<1>10. Orderly(kind, types)
  BY <1>3, <1>9 DEF Orderly, Changing
<1>11. /\ InOrder(trail', op'.version) /\ Chain(trail', op'.version, op'.state)
       /\ ActionsApart(trail')
  BY <1>2, <1>3, <1>7, <1>10, MoveKeepsChain
<1>12. ASSUME NEW type \in {"POLICY_EVALUATED", "APPROVAL_REQUESTED"}, Single(trail, type, 2)
       PROVE  Single(trail', type, 2) /\ (Seen(trail', type) <=> Seen(trail, type))
  <2>1. type # "OPERATION_TRANSITIONED" /\ \A k \in DOMAIN types : types[k] # type
    BY <1>9
  <2> QED
    BY <1>3, <1>7, <1>12, <2>1, MoveKeepsSingle
<1>13. Single(trail', "APPROVAL_DECIDED", 3) /\ (Seen(trail', "APPROVAL_DECIDED") <=> job \in Decided)
  <2>1. CASE job \in Decided
    <3>1. /\ 1 \in DOMAIN types /\ types[1] = "APPROVAL_DECIDED"
          /\ \A l \in DOMAIN types : types[l] = "APPROVAL_DECIDED" => l = 1
      BY <1>9, <2>1
    <3>2. /\ Single(trail', "APPROVAL_DECIDED", op.version + 1)
          /\ Seen(trail', "APPROVAL_DECIDED")
      BY <1>3, <1>5, <1>7, <3>1, MoveMakesSingle
    <3> QED
      BY <1>2, <2>1, <3>2
  <2>2. CASE job \notin Decided
    <3>1. \A k \in DOMAIN types : types[k] # "APPROVAL_DECIDED"
      BY <1>9, <2>2
    <3>2. Single(trail, "APPROVAL_DECIDED", 3)
      BY DEF TrailInv
    <3>3. /\ Single(trail', "APPROVAL_DECIDED", 3)
          /\ Seen(trail', "APPROVAL_DECIDED") <=> Seen(trail, "APPROVAL_DECIDED")
      BY <1>3, <1>7, <3>1, <3>2, MoveKeepsSingle
    <3> QED
      BY <1>5, <2>2, <3>3
  <2> QED
    BY <2>1, <2>2
<1>14. approval'.state # "NONE"
  BY DEF DecisionKind
<1> QED
  BY <1>5, <1>11, <1>12, <1>13, <1>14 DEF TrailInv

\* The creation of the operation begins the trail
LEMMA InsertTrail ==
  ASSUME IntakeInv, TrailInv, op.state = Absent,
         op'.state = "PENDING_POLICY", op'.version = 1,
         trail' = << Event("OPERATION_CREATED", Absent, "PENDING_POLICY", 1) >>,
         UNCHANGED <<policy, approval>>
  PROVE  TrailInv'
<1>1. op.version = 0 /\ trail \in Seq(Events)
  BY DEF IntakeInv, Stages, Types
<1>2. \A i \in DOMAIN trail : FALSE
  BY <1>1 DEF TrailInv, InOrder
<1>3. policy.verdict = "NONE" /\ approval.state = "NONE"
  BY <1>1 DEF IntakeInv, Judged
<1>4. /\ DOMAIN trail' = {1}
      /\ trail'[1] = Event("OPERATION_CREATED", Absent, "PENDING_POLICY", 1)
  OBVIOUS
<1>5. PICK made : made = trail'
  OBVIOUS
<1>6. /\ DOMAIN made = {1} /\ made[1].type = "OPERATION_CREATED" /\ made[1].from = Absent
      /\ made[1].to = "PENDING_POLICY" /\ made[1].version = 1
  BY <1>4, <1>5 DEF Event
<1>7. InOrder(made, 1) /\ ActionsApart(made)
  BY <1>6 DEF InOrder, ActionsApart
<1>8. Chain(made, 1, "PENDING_POLICY")
  <2>1. ChangesOf(made) = {1}
    BY <1>6 DEF ChangesOf, Changing
  <2>2. "PENDING_POLICY" \in LegalNext[Absent]
    BY DEF LegalNext, OperationStates, Absent
  <2>3. Explained(made, 1)
    <3>1. Absent # "MANUAL_INTERVENTION"
      BY DEF Absent
    <3> QED
      BY <1>6, <2>2, <3>1 DEF Explained, Linked
  <2> QED
    BY <1>6, <2>1, <2>3 DEF Chain
<1>9. ASSUME NEW type \in {"POLICY_EVALUATED", "APPROVAL_REQUESTED", "APPROVAL_DECIDED"},
             NEW version
      PROVE  Single(made, type, version) /\ ~Seen(made, type)
  BY <1>6 DEF Single, Seen
<1>10. policy' = policy /\ approval' = approval
  OBVIOUS
<1>11. /\ InOrder(trail', op'.version) /\ Chain(trail', op'.version, op'.state)
       /\ ActionsApart(trail')
  BY <1>5, <1>7, <1>8
<1>12. ASSUME NEW type \in {"POLICY_EVALUATED", "APPROVAL_REQUESTED", "APPROVAL_DECIDED"},
              NEW version
       PROVE  Single(trail', type, version) /\ ~Seen(trail', type)
  BY <1>5, <1>9
<1> QED
  BY <1>3, <1>10, <1>11, <1>12 DEF TrailInv, Decided

\* The progress of a compensation is no change
LEMMA ProgressTrail ==
  ASSUME IntakeInv, TrailInv, Progress
  PROVE  TrailInv'
<1>1. op' = op /\ policy' = policy /\ approval' = approval /\ op.state = "COMPENSATING"
  BY DEF Progress
<1>2. PICK step \in ProgressSteps :
        trail' = trail \o [i \in DOMAIN step.types |->
                             Event(step.types[i], op.state, op.state, op.version)]
  BY DEF Progress
<1>3. PICK names : names = step.types
  OBVIOUS
<1>4. names \in {<<"COMPENSATION_ATTEMPTED">>, <<"COMPENSATION_RESULT">>,
                 <<"VERIFICATION_COMPLETED", "COMPENSATION_ATTEMPTED">>}
  BY <1>3 DEF ProgressSteps, Step
<1>5. /\ names \in Seq(EventTypes) /\ DOMAIN names = 1..Len(names)
      /\ \A k \in DOMAIN names :
           names[k] \in {"COMPENSATION_ATTEMPTED", "COMPENSATION_RESULT",
                         "VERIFICATION_COMPLETED"}
  <2>1. {"COMPENSATION_ATTEMPTED", "COMPENSATION_RESULT", "VERIFICATION_COMPLETED"}
          \subseteq EventTypes
    BY DEF EventTypes
  <2>2. CASE names = <<"COMPENSATION_ATTEMPTED">>
    BY <2>1, <2>2
  <2>3. CASE names = <<"COMPENSATION_RESULT">>
    BY <2>1, <2>3
  <2>4. CASE names = <<"VERIFICATION_COMPLETED", "COMPENSATION_ATTEMPTED">>
    BY <2>1, <2>4
  <2> QED
    BY <1>4, <2>2, <2>3, <2>4
<1>6. PICK state \in States, v \in Nat : state = op.state /\ v = op.version
  BY DEF IntakeInv, Types, Rows
<1>7. trail \in Seq(Events) /\ v >= 1
  <2>1. op.state # Absent
    BY <1>1 DEF Absent
  <2> QED
    BY <1>6, <2>1 DEF IntakeInv, Types, Stages
<1>8. trail' = trail \o Reports(names, state, state, v)
  BY <1>2, <1>3, <1>5, <1>6 DEF Reports
<1>9. Extends(trail, trail', names, state, state, v)
  BY <1>5, <1>7, <1>8, ReportsExtend
<1>10. InOrder(trail, v) /\ Chain(trail, v, state) /\ ActionsApart(trail)
  BY <1>6 DEF TrailInv
<1>11. InOrder(trail', v)
  BY <1>6, <1>7, <1>9, <1>10, OrderExtends
<1>12. Chain(trail', v, state)
  <2>1. \A k \in DOMAIN names : names[k] \notin Changing
    BY <1>5 DEF Changing
  <2> QED
    BY <1>9, <1>10, <2>1, ChainStays
<1>13. ActionsApart(trail')
  <2>1. \A k \in DOMAIN names : names[k] # "OPERATOR_ACTION"
    BY <1>5
  <2> QED
    BY <1>9, <1>10, <2>1, ActionsStayApart
<1>14. ASSUME NEW type \in {"POLICY_EVALUATED", "APPROVAL_REQUESTED", "APPROVAL_DECIDED"},
              NEW version, Single(trail, type, version)
       PROVE  Single(trail', type, version) /\ (Seen(trail', type) <=> Seen(trail, type))
  <2>1. \A k \in DOMAIN names : names[k] # type
    BY <1>5
  <2> QED
    BY <1>9, <1>14, <2>1, SingleStays
<1> QED
  BY <1>1, <1>6, <1>11, <1>12, <1>13, <1>14 DEF TrailInv

LEMMA TrailStands ==
  ASSUME TrailInv, UNCHANGED <<op, policy, approval, trail>>
  PROVE  TrailInv'
BY DEF TrailInv

LEMMA TrailStarts ==
  ASSUME Init
  PROVE  TrailInv
<1>1. /\ op.state = Absent /\ op.version = 0 /\ policy.verdict = "NONE"
      /\ approval.state = "NONE" /\ DOMAIN trail = {}
  BY DEF Init, NoOperation
<1>2. ChangesOf(trail) = {}
  BY <1>1 DEF ChangesOf
<1>3. InOrder(trail, 0) /\ Chain(trail, 0, Absent) /\ ActionsApart(trail)
  BY <1>1, <1>2 DEF InOrder, Chain, ActionsApart
<1>4. ASSUME NEW type, NEW version
      PROVE  Single(trail, type, version) /\ ~Seen(trail, type)
  BY <1>1 DEF Single, Seen
<1> QED
  BY <1>1, <1>3, <1>4 DEF TrailInv, Decided

LEMMA TrailStep ==
  ASSUME IntakeInv, TrailInv, [Next]_vars
  PROVE  TrailInv'
<1>1. CASE UNCHANGED <<op, policy, approval, trail>>
  BY <1>1, TrailStands
<1>2. ASSUME NEW c \in Servers, Request(c)
      PROVE  UNCHANGED rows
  BY <1>2 DEF Request, Submit, Decide, RequestVerification, Begin
<1>3. ASSUME NEW c \in Servers, Insert(c)
      PROVE  TrailInv'
  <2>1. CASE op.state = Absent
    <3>1. /\ op' = [state |-> "PENDING_POLICY", version |-> 1, digest |-> h[c].digest,
                    bound |-> FALSE]
          /\ trail' = << Event("OPERATION_CREATED", Absent, "PENDING_POLICY", 1) >>
          /\ UNCHANGED <<policy, approval>>
      BY <1>3, <2>1 DEF Insert
    <3>2. op'.state = "PENDING_POLICY" /\ op'.version = 1
      BY <3>1
    <3> QED
      BY <2>1, <3>1, <3>2, InsertTrail
  <2>2. CASE op.state # Absent
    BY <1>1, <1>3, <2>2 DEF Insert, rows
  <2> QED
    BY <2>1, <2>2
<1>4. ASSUME NEW c \in Servers, PersistPolicy(c)
      PROVE  TrailInv'
  <2>1. h[c].pc = "record" /\ h[c] \in Sessions /\ SessionOK(h[c], op, approval.state, late)
    BY <1>4, Opened DEF PersistPolicy
  <2>2. h[c].verdict \in PolicyVerdicts
    BY <2>1 DEF SessionOK
  <2>3. PICK verdict \in PolicyVerdicts : verdict = h[c].verdict
    BY <2>2
  <2>4. PICK kind : kind = PolicyKind[verdict]
    OBVIOUS
  <2>5. PICK result : result = ApplyResult(kind, h[c].op.version, TRUE)
    OBVIOUS
  <2>6. result \in {"APPLIED", "ALREADY_APPLIED", "REJECTED", "CONFLICT"}
        /\ (result = "APPLIED" => op.state = Source(kind))
    <3>1. h[c].op.version \in Nat
      BY <2>1 DEF Sessions, Rows
    <3> QED
      BY <2>5, <3>1, Results
  <2>7. CASE result = "APPLIED"
    <3>1. /\ Commit(kind)
          /\ policy' = [verdict |-> verdict, version |-> op.version]
          /\ approval' = IF verdict = "REQUIRE_APPROVAL"
                         THEN [state |-> "PENDING", version |-> op.version + 1,
                               expires |-> h[c].expires, inTime |-> FALSE, by |-> None]
                         ELSE approval
      BY <1>4, <2>3, <2>4, <2>5, <2>7 DEF PersistPolicy
    <3>2. policy'.verdict = verdict
      BY <3>1
    <3>3. /\ verdict = "REQUIRE_APPROVAL" => approval'.state = "PENDING"
          /\ verdict # "REQUIRE_APPROVAL" => approval' = approval
      BY <3>1
    <3> QED
      BY <2>4, <2>6, <2>7, <3>1, <3>2, <3>3, JudgementTrail
  <2>8. CASE result # "APPLIED"
    <3>1. UNCHANGED rows
      BY <1>4, <2>3, <2>4, <2>5, <2>6, <2>8 DEF PersistPolicy
    <3> QED
      BY <1>1, <3>1 DEF rows
  <2> QED
    BY <2>7, <2>8
<1>5. ASSUME NEW c \in Servers, ApplyDecision(c)
      PROVE  TrailInv'
  <2>1. h[c].pc = "decide" /\ SessionOK(h[c], op, approval.state, late)
    BY <1>5, Opened DEF ApplyDecision
  <2>2. h[c].job \in DOMAIN DecisionKind
    BY <2>1 DEF SessionOK
  <2> DEFINE kind == DecisionKind[h[c].job]
  <2>3. PICK expected \in Expectations,
             occurred \in IF h[c].job = "EXPIRED" THEN {h[c].now} ELSE {h[c].now, late} :
          LET result == ApplyResult(kind, expected, Decidable(h[c].job, occurred))
          IN CASE result = "APPLIED" ->
                    /\ Commit(kind)
                    /\ approval' = [approval EXCEPT
                                      !.state = h[c].job, !.inTime = ~h[c].now,
                                      !.by = h[c].actor]
                    /\ Accept(c, None)
                    /\ UNCHANGED policy
               [] result = "ALREADY_APPLIED" -> Accept(c, None) /\ UNCHANGED rows
               [] result = "REJECTED" -> Refuse(c) /\ UNCHANGED rows
               [] result = "CONFLICT" -> Goto(c, "reload") /\ UNCHANGED rows
    BY <1>5 DEF ApplyDecision
  <2> DEFINE fits == Decidable(h[c].job, occurred)
             result == ApplyResult(kind, expected, fits)
  <2>4. /\ result \in {"APPLIED", "ALREADY_APPLIED", "REJECTED", "CONFLICT"}
        /\ result = "APPLIED" => op.state = Source(kind)
    <3>1. expected \in Nat
      BY IntakeAssumption
    <3> HIDE DEF fits, kind
    <3> QED
      BY <3>1, Results
  <2> HIDE DEF kind
  <2>5. CASE result = "APPLIED"
    <3>1. /\ Commit(kind) /\ policy' = policy
          /\ approval' = [approval EXCEPT !.state = h[c].job, !.inTime = ~h[c].now,
                                          !.by = h[c].actor]
      BY <2>3, <2>5
    <3>2. approval'.state = h[c].job
      <4>1. approval \in Approvals
        BY DEF IntakeInv, Types
      <4> QED
        BY <3>1, <4>1 DEF Approvals
    <3>3. op.state = Source(kind) /\ kind = DecisionKind[h[c].job]
      BY <2>4, <2>5 DEF kind
    <3> HIDE DEF result
    <3> QED
      BY <2>2, <3>1, <3>2, <3>3, DecisionTrail
  <2>6. CASE result # "APPLIED"
    <3>1. UNCHANGED rows
      BY <2>3, <2>4, <2>6
    <3> QED
      BY <1>1, <3>1 DEF rows
  <2> QED
    BY <2>5, <2>6
<1>6. ASSUME NEW kind \in LateKinds, op.state = Source(kind), Commit(kind),
             UNCHANGED <<policy, approval>>
      PROVE  TrailInv'
  <2>1. PICK types : types = AuditTypes(kind)
    OBVIOUS
  <2>2. /\ types \in LateReports
        /\ Source(kind) = "MANUAL_INTERVENTION" =>
             types \in {<<"OPERATOR_ACTION", "VERIFICATION_STARTED">>,
                        <<"OPERATOR_ACTION", "COMPENSATION_REQUESTED">>}
    BY <2>1, LateReported
  <2>3. Source(kind) = "MANUAL_INTERVENTION" =>
          \E k \in DOMAIN types : types[k] = "OPERATOR_ACTION"
    <3>1. CASE types \in {<<"OPERATOR_ACTION", "VERIFICATION_STARTED">>,
                          <<"OPERATOR_ACTION", "COMPENSATION_REQUESTED">>}
      <4>1. 1 \in DOMAIN types /\ types[1] = "OPERATOR_ACTION"
        BY <3>1
      <4> QED
        BY <4>1
    <3> QED
      BY <2>2, <3>1
  <2>4. Move(kind, types)
    BY <1>6, <2>1 DEF Commit
  <2> QED
    BY <1>6, <2>2, <2>3, <2>4, LateTrail
<1>7. ASSUME NEW c \in Servers, StartVerification(c)
      PROVE  TrailInv'
  <2> DEFINE kind == "MANUAL_START_VERIFICATION"
  <2>1. CASE UNCHANGED rows
    BY <1>1, <2>1 DEF rows
  <2>2. CASE /\ ApplyResult(kind, h[c].op.version, TRUE) = "APPLIED"
             /\ Commit(kind) /\ UNCHANGED <<policy, approval>>
    <3>1. op.state = Source(kind)
      BY <2>2 DEF ApplyResult
    <3>2. kind \in LateKinds
      BY DEF LateKinds
    <3> HIDE DEF kind
    <3> QED
      BY <1>6, <2>2, <3>1, <3>2
  <2> QED
    BY <1>7, <2>1, <2>2 DEF StartVerification
<1>8. ASSUME NEW c \in Servers, Serve(c), ~Insert(c), ~PersistPolicy(c), ~ApplyDecision(c),
             ~StartVerification(c)
      PROVE  UNCHANGED rows
  BY <1>8 DEF Serve, Lookup, Reread, Evaluate, EngineFails, LoadOperation, CheckApproval,
              Settle, LoadManual, Crash
<1>9. ASSUME NEW kind \in WorkKinds, Work(kind)
      PROVE  TrailInv'
  BY <1>6, <1>9, WorkIsLate DEF Work
<1>10. CASE Exhaust
  <2>1. PICK kind : kind = ExhaustedKind[op.state]
    OBVIOUS
  <2>2. /\ op.state \in DOMAIN ExhaustedKind /\ Move(kind, << >>)
        /\ UNCHANGED <<policy, approval>>
    BY <1>10, <2>1 DEF Exhaust
  <2>3. kind \in LateKinds /\ Source(kind) = op.state
    BY <2>1, <2>2, ExhaustionIsLate
  <2>4. op.state # "MANUAL_INTERVENTION"
    BY <2>2 DEF ExhaustedKind
  <2>5. << >> \in LateReports
    BY DEF LateReports
  <2> QED
    BY <2>2, <2>3, <2>4, <2>5, LateTrail
<1>11. CASE Progress
  BY <1>11, ProgressTrail
<1>12. CASE PassDeadline
  BY <1>1, <1>12 DEF PassDeadline, rows
<1>13. CASE UNCHANGED vars
  BY <1>1, <1>13 DEF vars
<1>14. CASE \E c \in Servers : Request(c) \/ Serve(c)
  <2>1. PICK c \in Servers : Request(c) \/ Serve(c)
    BY <1>14
  <2>2. UNCHANGED rows => UNCHANGED <<op, policy, approval, trail>>
    BY DEF rows
  <2> QED
    BY <1>1, <1>2, <1>3, <1>4, <1>5, <1>7, <1>8, <2>1, <2>2
<1> QED
  BY <1>9, <1>10, <1>11, <1>12, <1>13, <1>14 DEF Next

-----------------------------------------------------------------------------
(***************************************************************************)
(* What the trail tells                                                   *)
(***************************************************************************)
LEMMA OnlyOne ==
  ASSUME NEW S, NEW x \in S, \A y \in S : y = x
  PROVE  Cardinality(S) = 1
<1>1. S = {x}
  OBVIOUS
<1> QED
  BY <1>1, FS_Singleton

LEMMA NoneOrOne ==
  ASSUME NEW S, \A x, y \in S : x = y
  PROVE  Cardinality(S) <= 1
<1>1. CASE S = {}
  BY <1>1, FS_EmptySet
<1>2. CASE S # {}
  <2>1. PICK x \in S : TRUE
    BY <1>2
  <2>2. Cardinality(S) = 1
    BY <2>1, OnlyOne
  <2> QED
    BY <2>2
<1> QED
  BY <1>1, <1>2

Counted(t, type, v) == Cardinality({i \in DOMAIN t : t[i].type = type /\ t[i].version = v})
CountedAll(t, type) == Cardinality({i \in DOMAIN t : t[i].type = type})

LEMMA SingleCounted ==
  ASSUME NEW t, NEW type, NEW version, Single(t, type, version)
  PROVE  /\ CountedAll(t, type) <= 1
         /\ Seen(t, type) => Counted(t, type, version) = 1
         /\ \A v : Counted(t, type, v) = 1 => Seen(t, type)
<1>1. CountedAll(t, type) <= 1
  <2> DEFINE S == {i \in DOMAIN t : t[i].type = type}
  <2>1. \A i, j \in S : i = j
    BY DEF Single
  <2> HIDE DEF S
  <2>2. Cardinality(S) <= 1
    BY <2>1, NoneOrOne
  <2> QED
    BY <2>2 DEF S, CountedAll
<1>2. ASSUME Seen(t, type)
      PROVE  Counted(t, type, version) = 1
  <2> DEFINE S == {i \in DOMAIN t : t[i].type = type /\ t[i].version = version}
  <2>1. PICK i \in DOMAIN t : t[i].type = type
    BY <1>2 DEF Seen
  <2>2. i \in S /\ \A j \in S : j = i
    BY <2>1 DEF Single
  <2> HIDE DEF S
  <2>3. Cardinality(S) = 1
    BY <2>2, OnlyOne
  <2> QED
    BY <2>3 DEF S, Counted
<1>3. ASSUME NEW v, Counted(t, type, v) = 1
      PROVE  Seen(t, type)
  <2> DEFINE S == {i \in DOMAIN t : t[i].type = type /\ t[i].version = v}
  <2> SUFFICES ASSUME ~Seen(t, type) PROVE FALSE
    OBVIOUS
  <2>1. S = {}
    BY DEF Seen
  <2> HIDE DEF S
  <2>2. Cardinality(S) = 0
    BY <2>1, FS_EmptySet
  <2>3. Cardinality(S) = 1
    BY <1>3 DEF S, Counted
  <2> QED
    BY <2>2, <2>3
<1> QED
  BY <1>1, <1>2, <1>3

LEMMA TrailTells ==
  ASSUME IntakeInv, TrailInv
  PROVE  TrailTellsState
<1>1. /\ InOrder(trail, op.version) /\ Chain(trail, op.version, op.state) /\ ActionsApart(trail)
      /\ op.version \in Nat /\ trail \in Seq(Events)
  BY DEF TrailInv, IntakeInv, Types, Rows
<1>2. Changes = ChangesOf(trail)
  BY DEF Changes, ChangesOf, Changing
<1>3. DOMAIN trail = 1..Len(trail) /\ Len(trail) \in Nat
  BY <1>1, LenProperties
<1>4. \A i \in DOMAIN trail : i \in Nat /\ trail[i].version \in 1..op.version
  BY <1>1, <1>3 DEF InOrder
<1>5. \A i \in Changes : i \in DOMAIN trail
  BY DEF Changes
<1>6. ASSUME NEW version \in 1..op.version
      PROVE  Cardinality({i \in Changes : trail[i].version = version}) = 1
  <2> DEFINE S == {i \in Changes : trail[i].version = version}
  <2>1. PICK i \in Changes : trail[i].version = version
    BY <1>1, <1>2 DEF Chain
  <2>2. i \in S /\ \A j \in S : j = i
    BY <1>1, <1>2, <2>1 DEF Chain
  <2> HIDE DEF S
  <2>3. Cardinality(S) = 1
    BY <2>2, OnlyOne
  <2> QED
    BY <2>3 DEF S
<1>7. ASSUME NEW i \in Changes
      PROVE  /\ trail[i].version \in 1..op.version
             /\ IF trail[i].version = 1 THEN trail[i].from = Absent
                ELSE \E j \in Changes : /\ j < i /\ trail[j].version = trail[i].version - 1
                                        /\ trail[j].to = trail[i].from
             /\ trail[i].to \in LegalNext[trail[i].from]
             /\ trail[i].from = "MANUAL_INTERVENTION" =>
                  Recorded("OPERATOR_ACTION", trail[i].version) = 1
             /\ trail[i].version = op.version => trail[i].to = op.state
  <2>1. Explained(trail, i) /\ (trail[i].version = op.version => trail[i].to = op.state)
    BY <1>1, <1>2 DEF Chain
  <2>2. i \in Nat /\ trail[i].version \in 1..op.version
    BY <1>4, <1>5
  <2>3. ASSUME trail[i].version # 1
        PROVE  \E j \in Changes : /\ j < i /\ trail[j].version = trail[i].version - 1
                                  /\ trail[j].to = trail[i].from
    <3>1. PICK j \in Changes : /\ trail[j].version = trail[i].version - 1
                               /\ trail[j].to = trail[i].from
      BY <1>2, <2>1, <2>3 DEF Explained, Linked
    <3>2. j \in Nat /\ trail[j].version < trail[i].version
      BY <1>4, <1>5, <2>2, <3>1
    <3>3. i <= j => trail[i].version <= trail[j].version
      BY <1>1, <1>5 DEF InOrder
    <3>4. j < i
      <4>1. trail[j].version \in Nat /\ trail[i].version \in Nat
        BY <1>4, <1>5
      <4> QED
        BY <2>2, <3>2, <3>3, <4>1
    <3> QED
      BY <3>1, <3>4
  <2>4. trail[i].version = 1 => trail[i].from = Absent
    BY <2>1 DEF Explained, Linked
  <2>5. ASSUME trail[i].from = "MANUAL_INTERVENTION"
        PROVE  Recorded("OPERATOR_ACTION", trail[i].version) = 1
    <3> DEFINE S == {k \in DOMAIN trail : /\ trail[k].type = "OPERATOR_ACTION"
                                          /\ trail[k].version = trail[i].version}
    <3>1. PICK k \in DOMAIN trail : /\ trail[k].type = "OPERATOR_ACTION"
                                    /\ trail[k].version = trail[i].version
      BY <2>1, <2>5 DEF Explained
    <3>2. k \in S /\ \A l \in S : l = k
      BY <1>1, <3>1 DEF ActionsApart
    <3> HIDE DEF S
    <3>3. Cardinality(S) = 1
      BY <3>2, OnlyOne
    <3> QED
      BY <3>3 DEF S, Recorded
  <2> QED
    BY <2>1, <2>2, <2>3, <2>4, <2>5 DEF Explained
<1>8. \A i \in 2..Len(trail) : trail[i - 1].version <= trail[i].version
  <2> SUFFICES ASSUME NEW i \in 2..Len(trail)
               PROVE  trail[i - 1].version <= trail[i].version
    OBVIOUS
  <2>1. i \in DOMAIN trail /\ i - 1 \in DOMAIN trail /\ i - 1 <= i
    BY <1>3
  <2> QED
    BY <1>1, <2>1 DEF InOrder
<1>9. /\ Single(trail, "POLICY_EVALUATED", 2) /\ Single(trail, "APPROVAL_REQUESTED", 2)
      /\ Single(trail, "APPROVAL_DECIDED", 3)
  BY DEF TrailInv
<1>a. ASSUME NEW type
      PROVE  /\ AtMostOnce(type) <=> CountedAll(trail, type) <= 1
             /\ \A v : Recorded(type, v) = Counted(trail, type, v)
  BY DEF AtMostOnce, CountedAll, Recorded, Counted
<1>10. \A type \in {"POLICY_EVALUATED", "APPROVAL_REQUESTED", "APPROVAL_DECIDED"} :
         AtMostOnce(type)
  BY <1>9, <1>a, SingleCounted
<1>11. policy.verdict # "NONE" <=> Recorded("POLICY_EVALUATED", policy.version + 1) = 1
  <2>1. ASSUME policy.verdict # "NONE"
        PROVE  Recorded("POLICY_EVALUATED", policy.version + 1) = 1
    <3>1. op.version > 1
      BY <1>1, <2>1 DEF IntakeInv, Judged
    <3>2. policy.version + 1 = 2
      BY <3>1 DEF IntakeInv, Judged
    <3>3. Recorded("POLICY_EVALUATED", 2) = 1
      BY <1>9, <2>1, <1>a, SingleCounted DEF TrailInv
    <3> QED
      BY <3>2, <3>3
  <2>2. ASSUME Recorded("POLICY_EVALUATED", policy.version + 1) = 1
        PROVE  policy.verdict # "NONE"
    <3>1. Seen(trail, "POLICY_EVALUATED")
      BY <1>9, <2>2, <1>a, SingleCounted
    <3> QED
      BY <3>1 DEF TrailInv
  <2> QED
    BY <2>1, <2>2
<1>12. approval.state # "NONE" <=> Recorded("APPROVAL_REQUESTED", approval.version) = 1
  <2>1. ASSUME approval.state # "NONE"
        PROVE  Recorded("APPROVAL_REQUESTED", approval.version) = 1
    <3>1. approval.version = 2
      BY <2>1 DEF IntakeInv, Judged
    <3>2. Recorded("APPROVAL_REQUESTED", 2) = 1
      BY <1>9, <2>1, <1>a, SingleCounted DEF TrailInv
    <3> QED
      BY <3>1, <3>2
  <2>2. ASSUME Recorded("APPROVAL_REQUESTED", approval.version) = 1
        PROVE  approval.state # "NONE"
    <3>1. Seen(trail, "APPROVAL_REQUESTED")
      BY <1>9, <2>2, <1>a, SingleCounted
    <3> QED
      BY <3>1 DEF TrailInv
  <2> QED
    BY <2>1, <2>2
<1>13. approval.state \in {"APPROVED", "REJECTED"}
         <=> Recorded("APPROVAL_DECIDED", approval.version + 1) = 1
  <2>1. ASSUME approval.state \in Decided
        PROVE  Recorded("APPROVAL_DECIDED", approval.version + 1) = 1
    <3>1. approval.version + 1 = 3
      <4>1. approval.state # "NONE"
        BY <2>1 DEF Decided
      <4> QED
        BY <4>1 DEF IntakeInv, Judged
    <3>2. Recorded("APPROVAL_DECIDED", 3) = 1
      BY <1>9, <2>1, <1>a, SingleCounted DEF TrailInv
    <3> QED
      BY <3>1, <3>2
  <2>2. ASSUME Recorded("APPROVAL_DECIDED", approval.version + 1) = 1
        PROVE  approval.state \in Decided
    <3>1. Seen(trail, "APPROVAL_DECIDED")
      BY <1>9, <2>2, <1>a, SingleCounted
    <3> QED
      BY <3>1 DEF TrailInv
  <2> QED
    BY <2>1, <2>2 DEF Decided
<1> QED
  BY <1>6, <1>7, <1>8, <1>10, <1>11, <1>12, <1>13 DEF TrailTellsState

\* What TrailTellsState says of the rows, of any number of requests: whatever process has
\* made a transition, the events that AuditTypes has it write leave a trail from which the
\* operation's whole history can be told, without the rows.
THEOREM TrailIsTrue == Spec => []TrailTellsState
<1>1. Init => TrailInv
  BY TrailStarts
<1>2. IntakeInv /\ TrailInv /\ [Next]_vars => TrailInv'
  BY TrailStep
<1>3. IntakeInv /\ TrailInv => TrailTellsState
  BY TrailTells
<1> QED
  BY <1>1, <1>2, <1>3, IntakeInvariance, PTL DEF Spec
===============================================================================
