------------------------------- MODULE Intake -------------------------------
(***************************************************************************)
(* The requests that decide whether an operation may run, as the API      *)
(* processes serve them: submissions under one idempotency key, decisions *)
(* of its approval, the expiry of the approval, and the operator's        *)
(* request to verify.  Submissions that share the key share the identity  *)
(* of the operation and of every row they write.  A request is several    *)
(* units of work and reads; others, the passing of the approval's         *)
(* deadline, the rest of the lifecycle and a crash of the process come    *)
(* between them.                                                          *)
(*                                                                         *)
(* The audit trail is kept event by event, with the version of the        *)
(* operation each event records.                                          *)
(***************************************************************************)
EXTENDS Lifecycle, Sequences, FiniteSets

CONSTANTS
  Servers,         \* the API processes' threads, each serving one request at a time
  Principals,      \* who sends a decision
  Approvers,       \* the principals the authorizer accepts as approvers
  Digests,         \* the intents submitted under the key, by their digests
  Valid,           \* the intents that the registry and the adapter accept
  Environments,    \* deployment environments: not a part of the intent's digest
  Policies,        \* the rule lists deployed one after another
  Expectations,    \* the versions that clients send with a decision
  None,            \* no principal, no intent
  MaxVersion,      \* bound: versions of the operation
  MaxEvents,       \* bound: events of the trail
  MaxRequests      \* bound: requests in a behaviour

PolicyVerdicts == {"ALLOW", "DENY", "REQUIRE_APPROVAL"}

\* A rule applies to the environments it lists, or to all if it lists none; its
\* obligations give the deadline of the approval it asks for, if any.  The effect, the
\* risk and the requester are the same for every request under the key.
Rules == [environments : SUBSET Environments, verdict : PolicyVerdicts, expires : BOOLEAN]

ASSUME IntakeAssumption ==
  /\ Approvers \subseteq Principals
  /\ Expectations \subseteq Nat
  /\ Valid \subseteq Digests
  /\ Policies \subseteq Seq(Rules)
  /\ None \notin Principals \union Digests
  /\ MaxVersion \in Nat
  /\ MaxEvents \in Nat
  /\ MaxRequests \in Nat

VARIABLES
  op,         \* the operation row
  policy,     \* the policy decision row: its verdict and the version it judged
  approval,   \* the approval row
  outbox,     \* the work commands written, each with the version that wrote it
  trail,      \* the audit events, in sequence
  late,       \* whether the clock has passed the approval's deadline
  h,          \* the request each server has open
  answer,     \* the success the last step reported to a client, if it did
  requests    \* requests so far

vars == <<op, policy, approval, outbox, trail, late, h, answer, requests>>
rows == <<op, policy, approval, outbox, trail>>

ApprovalStates == {"PENDING", "APPROVED", "REJECTED", "EXPIRED"}
EventTypes ==
  {"OPERATION_CREATED", "POLICY_EVALUATED", "APPROVAL_REQUESTED", "APPROVAL_DECIDED",
   "OPERATION_TRANSITIONED", "EXECUTION_ATTEMPT_STARTED",
   "EXECUTION_EVIDENCE_RECORDED", "VERIFICATION_STARTED", "VERIFICATION_COMPLETED",
   "RECONCILIATION_DECIDED", "COMPENSATION_REQUESTED", "COMPENSATION_ATTEMPTED",
   "COMPENSATION_RESULT", "OPERATOR_ACTION", "MANUAL_INTERVENTION_REASON"}
States == OperationStates \union {Absent}
Jobs == {"NONE", "SUBMIT", "APPROVED", "REJECTED", "EXPIRED", "VERIFY"}
PCs == {"idle", "lookup", "insert", "reread", "policy", "record",
        "load", "check", "decide", "reload", "settle", "operator", "verify"}

NoOperation == [state |-> Absent, version |-> 0, digest |-> None, bound |-> FALSE]
Idle == [pc |-> "idle", job |-> "NONE", actor |-> None, digest |-> None,
         op |-> NoOperation, now |-> FALSE, verdict |-> "NONE", expires |-> FALSE]
Silence == [job |-> "NONE", digest |-> None, told |-> None]

Init ==
  /\ op = NoOperation
  /\ policy = [verdict |-> "NONE", version |-> 0]
  /\ approval = [state |-> "NONE", version |-> 0, expires |-> FALSE,
                 inTime |-> FALSE, by |-> None]
  /\ outbox = {}
  /\ trail = << >>
  /\ late = FALSE
  /\ h = [c \in Servers |-> Idle]
  /\ answer = Silence
  /\ requests = 0

-----------------------------------------------------------------------------
(***************************************************************************)
(* Transitions.  The row lock makes each one atomic.                      *)
(***************************************************************************)

\* The events of one transition that precede its OPERATION_TRANSITIONED
PolicyEvents(kind) ==
  CASE kind \in {"POLICY_ALLOW", "POLICY_DENY"} -> <<"POLICY_EVALUATED">>
    [] kind = "POLICY_REQUIRE_APPROVAL" -> <<"POLICY_EVALUATED", "APPROVAL_REQUESTED">>
    [] kind \in {"APPROVAL_GRANT", "APPROVAL_REJECT"} -> <<"APPROVAL_DECIDED">>
    [] OTHER -> << >>

ExecutionEvents(kind) ==
  CASE kind = "CLAIM_EXECUTION" -> <<"EXECUTION_ATTEMPT_STARTED">>
    [] kind = "EXECUTION_REQUIRE_VERIFICATION" ->
         <<"EXECUTION_EVIDENCE_RECORDED", "VERIFICATION_STARTED">>
    [] kind \in {"EXECUTION_APPLIED", "EXECUTION_NOT_APPLIED_RETRY",
                 "EXECUTION_NOT_APPLIED_FAIL", "EXECUTION_UNKNOWN"} ->
         <<"EXECUTION_EVIDENCE_RECORDED">>
    [] OTHER -> << >>

RecoveryEvents(kind) ==
  CASE kind \in {"VERIFICATION_APPLIED", "VERIFICATION_NOT_APPLIED_RETRY",
                 "VERIFICATION_NOT_APPLIED_FAIL", "VERIFICATION_INCONCLUSIVE"} ->
         <<"VERIFICATION_COMPLETED">>
    [] kind = "UNKNOWN_START_VERIFICATION" -> <<"VERIFICATION_STARTED">>
    [] kind = "MANUAL_START_VERIFICATION" -> <<"OPERATOR_ACTION", "VERIFICATION_STARTED">>
    [] kind = "MANUAL_SAFE_RETRY" -> <<"OPERATOR_ACTION">>
    [] kind \in {"UNKNOWN_RECONCILE_APPLIED", "UNKNOWN_RECONCILE_NOT_APPLIED"} ->
         <<"RECONCILIATION_DECIDED">>
    [] OTHER -> << >>

CompensationEvents(kind) ==
  CASE kind \in {"SUCCEEDED_START_COMPENSATION", "FAILED_START_COMPENSATION"} ->
         <<"COMPENSATION_REQUESTED">>
    [] kind = "MANUAL_START_COMPENSATION" -> <<"OPERATOR_ACTION", "COMPENSATION_REQUESTED">>
    [] kind \in {"COMPENSATION_APPLIED", "COMPENSATION_OUTCOME_UNKNOWN",
                 "COMPENSATION_OUTCOME_FAILED"} -> <<"COMPENSATION_RESULT">>
    [] OTHER -> << >>

\* The kinds whose command names the event of a manual intervention
Escalations ==
  {"VERIFICATION_ESCALATE", "UNKNOWN_ESCALATE", "COMPENSATION_ESCALATE",
   "COMPENSATION_UNKNOWN_ESCALATE", "COMPENSATION_FAILED_ESCALATE"}

Event(type, from, to, version) ==
  [type |-> type, from |-> from, to |-> to, version |-> version]

TransitionEvents(kind, types) ==
  [i \in 1..(Len(types) + 1) |->
     Event(Append(types, "OPERATION_TRANSITIONED")[i],
           Source(kind), Target(kind), op.version + 1)]

AuditTypesUnreported(kind) ==           \* mutant: some kinds leave their reason out
  PolicyEvents(kind) \o ExecutionEvents(kind) \o CompensationEvents(kind)

AuditTypes(kind) ==
  PolicyEvents(kind) \o ExecutionEvents(kind) \o RecoveryEvents(kind)
    \o CompensationEvents(kind)
    \o (IF kind \in Escalations THEN <<"MANUAL_INTERVENTION_REASON">> ELSE << >>)

ApplyResult(kind, version, precondition) ==
  CASE op.version = version + 1 ->
         IF op.state = Target(kind) THEN "ALREADY_APPLIED" ELSE "REJECTED"
    [] op.version \notin {version, version + 1} -> "CONFLICT"
    [] op.version = version ->
         IF /\ op.state = Source(kind)
            /\ op.state \notin AbsoluteTerminal
            /\ Target(kind) \in LegalNext[op.state]
            /\ precondition
         THEN "APPLIED" ELSE "REJECTED"

\* The operation row, the events and the outbox row of one admitted transition
Move(kind, types) ==
  /\ op' = [op EXCEPT !.state = Target(kind), !.version = @ + 1,
                      !.bound = @ \/ kind = "POLICY_REQUIRE_APPROVAL"]
  /\ trail' = trail \o TransitionEvents(kind, types)
  /\ outbox' = IF OutboxCommand(kind) = NoCommand THEN outbox
               ELSE outbox \union {[command |-> OutboxCommand(kind),
                                    version |-> op.version + 1]}

Commit(kind) == Move(kind, AuditTypes(kind))

-----------------------------------------------------------------------------
(***************************************************************************)
(* Requests.  What a client sends is chosen where the code first uses it:  *)
(* the environment by the policy, the actor by the authorizer, the        *)
(* version the client believes in by the transition.                      *)
(***************************************************************************)

Become(c, r) == h' = [h EXCEPT ![c] = r] /\ answer' = Silence
Goto(c, pc) == Become(c, [h[c] EXCEPT !.pc = pc])
Refuse(c) == Become(c, Idle)            \* a 4xx, or a 5xx that the client may repeat

Accept(c, told) ==
  /\ h' = [h EXCEPT ![c] = Idle]
  /\ answer' = [job |-> h[c].job, digest |-> h[c].digest, told |-> told]

\* The API answers a submission with the operation of the result, whatever the
\* result says of the transition; only a conflict of intents is an error
TellOperation(c, o) == Accept(c, o.digest)

Begin(c, r) ==
  /\ h[c].pc = "idle"
  /\ requests < MaxRequests
  /\ requests' = requests + 1
  /\ Become(c, r)
  /\ UNCHANGED <<rows, late>>

Submit(c, digest) ==
  Begin(c, IF digest \in Valid
           THEN [Idle EXCEPT !.job = "SUBMIT", !.digest = digest, !.pc = "lookup"]
           ELSE Idle)

\* "EXPIRED" asks for the expiry
Decide(c, decision) == Begin(c, [Idle EXCEPT !.job = decision, !.pc = "load"])

RequestVerification(c) ==
  Begin(c, [Idle EXCEPT !.job = "VERIFY", !.pc = "operator"])

-----------------------------------------------------------------------------
(***************************************************************************)
(* A submission                                                           *)
(***************************************************************************)

\* An operation that exists is taken over, in whatever state, if its intent is the same
TakeOver(c) ==
  IF op.digest = h[c].digest
  THEN Become(c, [h[c] EXCEPT !.pc = "policy", !.op = op])
  ELSE Refuse(c)

\* The unit of work that creates the operation first looks for it
Lookup(c) ==
  /\ h[c].pc = "lookup"
  /\ IF op.state = Absent THEN Goto(c, "insert") ELSE TakeOver(c)
  /\ UNCHANGED <<rows, late, requests>>

\* Another submission may have inserted the operation since: DuplicateKeyError
Insert(c) ==
  /\ h[c].pc = "insert"
  /\ IF op.state = Absent
     THEN LET created == [state |-> "PENDING_POLICY", version |-> 1,
                          digest |-> h[c].digest, bound |-> FALSE]
          IN /\ op' = created
             /\ trail' = << Event("OPERATION_CREATED", Absent, "PENDING_POLICY", 1) >>
             /\ Become(c, [h[c] EXCEPT !.pc = "policy", !.op = created])
             /\ UNCHANGED <<policy, approval, outbox>>
     ELSE Goto(c, "reread") /\ UNCHANGED rows
  /\ UNCHANGED <<late, requests>>

RereadTrusting(c) ==                    \* mutant: the winner's intent is not compared
  /\ h[c].pc = "reread"
  /\ Become(c, [h[c] EXCEPT !.pc = "policy", !.op = op])
  /\ UNCHANGED <<rows, late, requests>>

Reread(c) ==
  /\ h[c].pc = "reread"
  /\ TakeOver(c)
  /\ UNCHANGED <<rows, late, requests>>

\* RulePolicyEngine: the first rule that matches, or denial
Verdict(rules, env) ==
  LET hits == {i \in DOMAIN rules :
                 rules[i].environments = {} \/ env \in rules[i].environments}
  IN IF hits = {} THEN [verdict |-> "DENY", expires |-> FALSE]
     ELSE LET first == CHOOSE i \in hits : \A j \in hits : i <= j
          IN [verdict |-> rules[first].verdict, expires |-> rules[first].expires]

\* The policy judges the snapshot of the first unit of work, outside any other
Evaluate(c) ==
  /\ h[c].pc = "policy"
  /\ IF h[c].op.state # "PENDING_POLICY" THEN TellOperation(c, h[c].op)
     ELSE \E rules \in Policies, env \in Environments :
            LET evaluation == Verdict(rules, env)
            IN Become(c, [h[c] EXCEPT !.pc = "record", !.verdict = evaluation.verdict,
                                      !.expires = evaluation.expires])
  /\ UNCHANGED <<rows, late, requests>>

\* A policy engine that raises leaves the operation pending: the API still answers with it
EngineFails(c) ==
  /\ h[c].pc = "policy"
  /\ h[c].op.state = "PENDING_POLICY"
  /\ TellOperation(c, h[c].op)
  /\ UNCHANGED <<rows, late, requests>>

PolicyKind ==
  [ALLOW            |-> "POLICY_ALLOW",
   DENY             |-> "POLICY_DENY",
   REQUIRE_APPROVAL |-> "POLICY_REQUIRE_APPROVAL"]

PersistPolicy(c) ==
  /\ h[c].pc = "record"
  /\ LET kind == PolicyKind[h[c].verdict]
         result == ApplyResult(kind, h[c].op.version, TRUE)
     IN CASE result = "APPLIED" ->
               /\ Commit(kind)
               /\ policy' = [verdict |-> h[c].verdict, version |-> op.version]
               /\ approval' = IF h[c].verdict = "REQUIRE_APPROVAL"
                              THEN [state |-> "PENDING", version |-> op.version + 1,
                                    expires |-> h[c].expires, inTime |-> FALSE, by |-> None]
                              ELSE approval
               /\ TellOperation(c, op)
          [] result \in {"ALREADY_APPLIED", "REJECTED"} ->
               TellOperation(c, op) /\ UNCHANGED rows
          [] result = "CONFLICT" -> Refuse(c) /\ UNCHANGED rows
  /\ UNCHANGED <<late, requests>>

-----------------------------------------------------------------------------
(***************************************************************************)
(* A decision of the approval, or its expiry                              *)
(***************************************************************************)

\* _binding_error, or no approval at all
Unbound(o, a) ==
  \/ o.state = Absent \/ a.state = "NONE"
  \/ ~o.bound
  \/ a.state = "PENDING" /\ a.version # o.version
  \/ a.state # "PENDING" /\ o.version <= a.version

\* The operation and the approval are read one after the other
LoadOperation(c) ==
  /\ h[c].pc \in {"load", "reload"}
  /\ Become(c, [h[c] EXCEPT !.pc = IF h[c].pc = "load" THEN "check" ELSE "settle",
                            !.op = op])
  /\ UNCHANGED <<rows, late, requests>>

DecidersNamed(job) == Principals        \* mutant: an expiry is signed like a decision

\* An expiry has no actor, and needs no authorization
Deciders(job) == IF job = "EXPIRED" THEN {None} ELSE Principals

CheckApproval(c) ==
  /\ h[c].pc = "check"
  /\ \E actor \in Deciders(h[c].job) :
       IF Unbound(h[c].op, approval) \/ actor \notin Approvers \union {None}
       THEN Refuse(c)
       ELSE IF approval.state = h[c].job THEN Accept(c, None)
       ELSE IF \/ approval.state # "PENDING"
               \/ h[c].job = "EXPIRED" /\ ~(approval.expires /\ late)
       THEN Refuse(c)
       ELSE Become(c, [h[c] EXCEPT !.pc = "decide", !.actor = actor, !.now = late,
                                   !.op = NoOperation])
  /\ UNCHANGED <<rows, late, requests>>

DecisionKind ==
  [APPROVED |-> "APPROVAL_GRANT",
   REJECTED |-> "APPROVAL_REJECT",
   EXPIRED  |-> "CANCEL_AWAITING_APPROVAL"]

DecidableAnyTime(decision, occurred) == \* mutant: an approval may be granted past its deadline
  /\ approval.state = "PENDING"
  /\ decision = "APPROVED" => approval.version = op.version /\ op.bound

\* evaluate_approval_binding, of the operation still awaiting it
Binding(occurred) ==
  /\ approval.version = op.version
  /\ op.bound
  /\ ~(approval.expires /\ occurred)

\* Only a grant is bound to the version and to the deadline
Decidable(decision, occurred) ==
  /\ approval.state = "PENDING"
  /\ decision = "APPROVED" => Binding(occurred)

\* The decision and its transition read the clock one after the other; an expiry
\* reads it once
ApplyDecision(c) ==
  /\ h[c].pc = "decide"
  /\ \E expected \in Expectations,
        occurred \in IF h[c].job = "EXPIRED" THEN {h[c].now} ELSE {h[c].now, late} :
       LET kind == DecisionKind[h[c].job]
           result == ApplyResult(kind, expected, Decidable(h[c].job, occurred))
       IN CASE result = "APPLIED" ->
                 /\ Commit(kind)
                 /\ approval' = [approval EXCEPT
                                   !.state = h[c].job, !.inTime = ~h[c].now,
                                   !.by = h[c].actor]
                 /\ Accept(c, None)
                 /\ UNCHANGED policy
            [] result = "ALREADY_APPLIED" -> Accept(c, None) /\ UNCHANGED rows
            [] result = "REJECTED" -> Refuse(c) /\ UNCHANGED rows
            [] result = "CONFLICT" -> Goto(c, "reload") /\ UNCHANGED rows
  /\ UNCHANGED <<late, requests>>

\* _resolve_concurrent: the loser of a race succeeds if the winner decided the same
Settle(c) ==
  /\ h[c].pc = "settle"
  /\ IF ~Unbound(h[c].op, approval) /\ approval.state = h[c].job
     THEN Accept(c, None) ELSE Refuse(c)
  /\ UNCHANGED <<rows, late, requests>>

-----------------------------------------------------------------------------
(***************************************************************************)
(* An operator's request to verify                                        *)
(***************************************************************************)

\* The version the client sent is not the one that is checked: the handler takes the
\* version it finds.  Once the verification is started, the same request runs its
\* cycle, and answers with what becomes of it: Work.
LoadManual(c) ==
  /\ h[c].pc = "operator"
  /\ IF op.state = "MANUAL_INTERVENTION"
     THEN Become(c, [h[c] EXCEPT !.pc = "verify", !.op = op])
     ELSE Refuse(c)
  /\ UNCHANGED <<rows, late, requests>>

StartVerification(c) ==
  /\ h[c].pc = "verify"
  /\ LET kind == "MANUAL_START_VERIFICATION"
         result == ApplyResult(kind, h[c].op.version, TRUE)
     IN /\ IF result = "APPLIED" THEN Commit(kind) /\ UNCHANGED <<policy, approval>>
           ELSE UNCHANGED rows
        /\ Become(c, Idle)
  /\ UNCHANGED <<late, requests>>

-----------------------------------------------------------------------------
(***************************************************************************)
(* The rest of the system                                                 *)
(***************************************************************************)

\* The transitions of the workers and of the operator's compensation, on any evidence
WorkKinds ==
  Kinds \ ({"CREATE_OPERATION", "MANUAL_START_VERIFICATION"}
           \union {PolicyKind[v] : v \in PolicyVerdicts}
           \union {DecisionKind[d] : d \in DOMAIN DecisionKind}
           \* kinds that no service issues
           \union {"CANCEL_PENDING_POLICY", "CANCEL_READY", "MANUAL_SAFE_RETRY",
                   "UNKNOWN_RECONCILE_APPLIED", "UNKNOWN_RECONCILE_NOT_APPLIED",
                   "COMPENSATION_UNKNOWN_FAILED"}
           \* kinds that only exhausted messaging recovery issues
           \union {"READY_MESSAGING_RECOVERY_EXHAUSTED",
                   "EXECUTION_MESSAGING_RECOVERY_EXHAUSTED"})

Work(kind) ==
  /\ op.state = Source(kind)
  /\ op.version < MaxVersion
  /\ Commit(kind)
  /\ UNCHANGED <<policy, approval, late, h, requests>> /\ answer' = Silence

\* Exhausted messaging recovery records the transition alone
Exhaust ==
  /\ op.state \in DOMAIN ExhaustedKind
  /\ op.version < MaxVersion
  /\ Move(ExhaustedKind[op.state], << >>)
  /\ UNCHANGED <<policy, approval, late, h, requests>> /\ answer' = Silence

\* The steps of a compensation that leave the operation and its version as they are
Step(types, command) == [types |-> types, command |-> command]
ProgressSteps ==
  {Step(<<"COMPENSATION_ATTEMPTED">>, NoCommand),       \* either claim of an attempt
   Step(<<"COMPENSATION_RESULT">>, "VERIFY"),
   Step(<<"COMPENSATION_ATTEMPTED">>, "VERIFY"),        \* an attempt left by a crash
   Step(<<"VERIFICATION_COMPLETED", "COMPENSATION_ATTEMPTED">>, "COMPENSATE")}

Progress ==
  /\ op.state = "COMPENSATING"
  /\ \E step \in ProgressSteps :
       /\ Len(trail) + Len(step.types) <= MaxEvents
       /\ trail' = trail \o [i \in DOMAIN step.types |->
                               Event(step.types[i], op.state, op.state, op.version)]
       /\ outbox' = IF step.command = NoCommand THEN outbox
                    ELSE outbox \union {[command |-> step.command, version |-> op.version]}
  /\ UNCHANGED <<op, policy, approval, late, h, requests>> /\ answer' = Silence

PassDeadline ==
  /\ ~late
  /\ late' = TRUE
  /\ UNCHANGED <<rows, h, requests>> /\ answer' = Silence

\* The process, or the connection to the client: no answer
Crash(c) ==
  /\ h[c].pc # "idle"
  /\ Become(c, Idle)
  /\ UNCHANGED <<rows, late, requests>>

-----------------------------------------------------------------------------
Request(c) ==
  \/ \E digest \in Digests : Submit(c, digest)
  \/ \E decision \in DOMAIN DecisionKind : Decide(c, decision)
  \/ RequestVerification(c)

Serve(c) ==
  \/ Lookup(c) \/ Insert(c) \/ Reread(c) \/ Evaluate(c) \/ EngineFails(c)
  \/ PersistPolicy(c)
  \/ LoadOperation(c) \/ CheckApproval(c) \/ ApplyDecision(c) \/ Settle(c)
  \/ LoadManual(c) \/ StartVerification(c)
  \/ Crash(c)

Next ==
  \/ \E c \in Servers : Request(c) \/ Serve(c)
  \/ \E kind \in WorkKinds : Work(kind)
  \/ Exhaust \/ Progress \/ PassDeadline

Spec == Init /\ [][Next]_vars

-----------------------------------------------------------------------------
(***************************************************************************)
(* Properties                                                             *)
(***************************************************************************)

\* The rows, the trail and every open request have the shape the code gives them: a
\* request is taken up with a snapshot only of an operation that exists, and a decided
\* approval names an approver unless it expired.
TypeOK ==
  /\ op \in [state : States, version : Nat,
             digest : Digests \union {None}, bound : BOOLEAN]
  /\ op.state = Absent <=> op.version = 0
  /\ policy.verdict \in PolicyVerdicts \union {"NONE"} /\ policy.version \in {0, 1}
  /\ approval.state \in ApprovalStates \union {"NONE"}
  /\ approval.state \in {"APPROVED", "REJECTED"} <=> approval.by \in Principals
  /\ \A row \in outbox : row.command \in Commands /\ row.version \in 2..op.version
  /\ \A i \in DOMAIN trail :
       trail[i].type \in EventTypes /\ trail[i].from \in States /\ trail[i].to \in States
  /\ \A c \in Servers :
       /\ h[c].pc \in PCs /\ h[c].job \in Jobs
       /\ h[c].pc \in {"policy", "record", "verify"} => h[c].op.state # Absent
       /\ h[c].op.version <= op.version

\* Whoever is told that a request succeeded finds it done, whatever other request was
\* served at the same time, and whether the answer came from the transition, from an
\* idempotent repetition or from the resolution of a lost race: a submission has become
\* the operation of its own intent; a grant has left the work of its version in the
\* outbox; a rejection or an expiry has ended the operation for good.
AnswersMatch ==
  /\ answer.job = "SUBMIT" => answer.told = answer.digest /\ op.digest = answer.digest
  /\ answer.job \in {"APPROVED", "REJECTED", "EXPIRED"} => approval.state = answer.job
  /\ answer.job = "APPROVED" =>
       [command |-> "EXECUTE", version |-> approval.version + 1] \in outbox
  /\ answer.job = "REJECTED" => op.state = "DENIED"
  /\ answer.job = "EXPIRED" => op.state = "CANCELLED"

\* The policy's permission for the intent that is stored, or the approval that the policy
\* asked for, given by an approver before the deadline.
Authorised ==
  \/ policy.verdict = "ALLOW"
  \/ /\ policy.verdict = "REQUIRE_APPROVAL"
     /\ approval.state = "APPROVED"
     /\ approval.by \in Approvers
     /\ approval.expires => approval.inTime
     /\ approval.version = policy.version + 1

\* No work is commanded and no state past the approval is reached without authorisation,
\* by any interleaving of submissions judged under different policies, of decisions, and
\* of the expiry; and a refusal is never followed by work.
AuthorisedWork ==
  /\ \/ outbox # {}
     \/ op.state \notin {Absent, "PENDING_POLICY", "AWAITING_APPROVAL", "DENIED", "CANCELLED"}
     => Authorised
  /\ policy.verdict = "DENY" \/ approval.state \in {"REJECTED", "EXPIRED"} =>
       outbox = {} /\ op.state \in {"DENIED", "CANCELLED"}

\* The events that record a change of the operation's state
Changes ==
  {i \in DOMAIN trail : trail[i].type \in {"OPERATION_CREATED", "OPERATION_TRANSITIONED"}}
Recorded(type, version) ==
  Cardinality({i \in DOMAIN trail : trail[i].type = type /\ trail[i].version = version})
AtMostOnce(type) == Cardinality({i \in DOMAIN trail : trail[i].type = type}) <= 1

\* The trail alone tells the operation's history: one change for every version, each from
\* the state the last one reached, along the legal transitions, to the state of the row;
\* one judgement of the policy, one request for approval and one decision, at the
\* versions their rows have; and no way out of manual intervention without the
\* operator's action.
TrailTellsState ==
  /\ \A version \in 1..op.version :
       Cardinality({i \in Changes : trail[i].version = version}) = 1
  /\ \A i \in Changes :
       /\ trail[i].version \in 1..op.version
       /\ IF trail[i].version = 1 THEN trail[i].from = Absent
          ELSE \E j \in Changes : /\ j < i /\ trail[j].version = trail[i].version - 1
                                 /\ trail[j].to = trail[i].from
       /\ trail[i].to \in LegalNext[trail[i].from]
       /\ trail[i].from = "MANUAL_INTERVENTION" =>
            Recorded("OPERATOR_ACTION", trail[i].version) = 1
       /\ trail[i].version = op.version => trail[i].to = op.state
  /\ \A i \in 2..Len(trail) : trail[i - 1].version <= trail[i].version
  /\ \A type \in {"POLICY_EVALUATED", "APPROVAL_REQUESTED", "APPROVAL_DECIDED"} :
       AtMostOnce(type)
  /\ policy.verdict # "NONE" <=> Recorded("POLICY_EVALUATED", policy.version + 1) = 1
  /\ approval.state # "NONE" <=> Recorded("APPROVAL_REQUESTED", approval.version) = 1
  /\ approval.state \in {"APPROVED", "REJECTED"}
       <=> Recorded("APPROVAL_DECIDED", approval.version + 1) = 1
=============================================================================
