# Stateback in TLA+

Stateback executes one mutating effect of an external provider (an issue
comment, a charge, ...) on behalf of an agent, under policy and approval, and
keeps a journal in PostgreSQL from which the operation can be resumed after any
failure. Work is carried by an outbox table, relays and a NATS JetStream
stream. The promise is a modest one, and hard to keep: *the effect is never
retried unless that is safe, success is never reported without evidence, and no
required work ever becomes invisible.*

This directory models the part of the program that keeps the promise, checks it
with TLC on small instances, and proves most of its safety properties with TLAPS
for every value of the parameters. Paths below are relative to `src/stateback/`
of the repository.

## 1. Inventory

| Component | State it keeps | Operations | Talks to |
|---|---|---|---|
| Lifecycle tables (`domain/enums.py`, `domain/transitions.py`, `transitions/kinds.py`, `transitions/outbox.py`) | none | the edge of each of the 42 kinds, the legal pairs, the outbox command of a kind | everything |
| Decisions (`domain/retry_safety.py`, `runtime/outcome.py`, `recovery/reconcile.py`, `recovery/budget.py`, `providers/registry.py`) | none | retry safety, the kind after an execution, the kind after a verification | runtime, recovery |
| Transition service (`transitions/service.py`, `preconditions.py`) | operation row with its version; attempts, verifications, compensation, approvals, audit, outbox | `apply`, `escalate_messaging_recovery` | called by all others inside their unit of work |
| Submission and policy (`runtime/submit.py`, `policy/`) | - | create, then policy, in two transactions | transition service |
| Approval (`approval/`) | approval row | decide, expire | transition service |
| Execution runtime (`runtime/execute.py`, `runtime/recover.py`) | the running handler | claim, call the provider, persist evidence, apply; recover an EXECUTING operation | provider, transition service |
| Recovery (`recovery/`) | the running handler | start a verification, ask the provider, persist the result, reconcile; resolve what cannot be verified | provider, transition service |
| Compensation (`compensation/`) | compensation row and its attempts | start, claim, call, verify, retry, escalate | provider, transition service |
| Relay (`messaging/relay.py`, `run_relay`) | the round it is in; a row lock while it publishes | recover stranded work, publish pending rows | PostgreSQL, JetStream |
| Worker (`messaging/worker.py`, `messaging/nats.py`, `run_worker`) | the message it handles | fetch, dispatch on command and state, ACK / NAK / TERM with quarantine | JetStream, runtime, recovery, compensation |
| Quarantine operator (`deployment/processes.py`) | - | inspect, replay, discard | JetStream |
| GitHub adapter (`providers/github/`) | none | execute, verify, compensate: evidence from answers | GitHub |
| Reference adapter (`providers/reference/`) | the store of rows, the indexes over it, script queues | the same, in process | - |
| Application service and HTTP API (`application/`, `api/`) | - | validate, authorize, submit, decide, request verification, compensate; read | submission, approval, recovery, compensation |
| SDK, MCP, CLI, operator UI, semantic summaries | - | clients and readers | the API |

**How they interact.** A transition and its audit and outbox rows are one
transaction. A relay publishes the outbox row and then marks it PUBLISHED. A
worker loads the operation, dispatches on the pair (command, state), and runs a
handler that consists of several transactions with provider calls in between.
Every row a handler inserts has an identity derived from the message it handles.
Nothing holds a lock across a provider call: concurrency is controlled by the
version of the operation row and by unique keys alone.

**What is hard.** Redelivery after `ack_wait` (60 s) while the first handler is
still waiting for the provider; evidence that arrives after recovery has
concluded; a crash between any two transactions; a message lost after its row
was marked; attempts and verifications read in one transaction and decided upon
in another; budgets that no single guard enforces; two relays in the same scan;
bounded deliveries, republications and batches. `PROJECT.json` lists these
hazards, each at its line.

**What makes each part correct.**

- decisions: a retry only with grounds and within the budget; a final state only
  with evidence; contradictions end with a human; what is proposed is admissible;
- execution and recovery: budget of attempts, one claim per message, one caller
  per attempt, evidence is final, at most one effect where retries rest on
  evidence, a last command that always applies, eventual resolution;
- relay: each row published before it is marked and marked once, replayed once,
  republication budget, no escalation before the last try was published;
- worker and quarantine: deliveries bounded, no termination without a diagnostic,
  and stranded work found again;
- submission and approval: what a client is told is what was done, no work
  without an allowing verdict or a granted, bound, timely approval, and an audit
  trail from which the history can be read;
- compensation: operation and compensation row move together, on evidence, with
  at most the allowed attempts and none on a mere doubt;
- adapters: one effect per operation at the provider, and a reported success,
  failure or undoing that is a fact there.

## 2. Plan

Done in this order, most important behaviour first:

1. `Lifecycle`, `Decisions`: tables and pure decisions used by everything else.
2. `Execution` with `OperationPromise`, then its proofs.
3. `Delivery`, then `DecisionMatrix`.
4. `Compensation` with `CompensationPromise`.
5. `GitHubAdapter`, `ReferenceAdapter` and `EffectProtocol`, which composes them
   with the decisions.
6. `Intake`: submission, policy, approval, expiry, operator verification, and
   the audit trail of every kind.
7. Proofs: first `Execution` (types and budget, then the evidence, the callers,
   the claims, the recovery budget, the refinement of `OperationPromise`), then
   the decisions, the protocol of the adapters, `Intake` and `Delivery`; last
   `Compensation`, with the refinement of `CompensationPromise`, and the audit
   trail of `Intake`.

Still to come, in this order:

8. The verification cycle after MANUAL_INTERVENTION as further actions of
   `Execution`: the recovery budget counts verifications of earlier rounds too.
9. A composition of `Delivery` with an abstraction of `Execution`, so that the
   handlers of `Delivery` no longer apply arbitrary transitions.

## 3. Modules

| Module | Models | EXTENDS / INSTANCE |
|---|---|---|
| `Lifecycle` | the tables | - |
| `Decisions` | retry safety, execution and verification kinds | `Lifecycle` |
| `DecisionMatrix` | one decision on arbitrary evidence, against the matrix of FAILURE_MODEL.md section 4 | `Decisions` |
| `OperationPromise` | the abstract specification: tries, doubts, success, failure, human | - |
| `Execution` | one operation, its journal, any number of workers, the provider, republication | `Decisions`; refines `OperationPromise` |
| `Delivery` | many operations, outbox, relays, stream, worker, quarantine | `Lifecycle` |
| `CompensationPromise` | the abstract specification of a compensation: asked for, tried, concluded, handed over | - |
| `Compensation` | the compensation of one operation: rows, handlers, operator, provider, messaging recovery | `Decisions`; refines `CompensationPromise` |
| `GitHubAdapter` | evidence from GitHub's answers, and what GitHub may answer | `Decisions` |
| `ReferenceAdapter` | the reference provider's store and the evidence from it | `Decisions` |
| `EffectProtocol` | one operation through the adapters: attempts, verifications, compensations, late requests | both adapters |
| `Intake` | API requests before and around an approval, and the audit trail | `Lifecycle` |
| `MCExecution`, `MCDelivery`, `MCCompensation`, `MCIntake` | values of the constants for TLC | the above |
| `MCDecisionMatrix` | either one decision of the matrix or one run of the protocol | `DecisionMatrix`, `EffectProtocol` |
| `Execution_proofs` | types and attempt budget of the execution | `Execution` |
| `ExecutionSafety_proofs` | its other safety properties | `Execution_proofs` |
| `ExecutionPromise_proofs` | refinement of `OperationPromise`; at most one effect | `ExecutionSafety_proofs` |
| `Decision_proofs` | the decisions for every effect and policy | `DecisionMatrix` |
| `EffectProtocol_proofs` | the evidence of both adapters | `EffectProtocol` |
| `Compensation_proofs` | the compensation's types, safety properties and refinement of `CompensationPromise` | `Compensation` |
| `Intake_proofs` | submission, policy, approval and the audit trail | `Intake` |
| `Delivery_proofs` | relays, worker and quarantine | `Delivery` |

### Execution

Handlers of different operations share no row, so one operation is modelled. The
rows are `op` (state, version, effect), `attempts`, `verifs`, `audit` and
`outbox`; `queue` is what the broker holds of each outbox row; `world` is what
became of the provider request of each attempt; `h[w]` is the local state of the
handler that worker `w` runs, with a program counter.

A step is one unit of work, one read outside of one, or one provider call:

| Code | Actions |
|---|---|
| `WorkHandler.handle`, `_dispatch` | `Load`, then `Ack` or `Nak` (which also stands for the TERM of the last delivery) |
| `execute_operation`, `_dispatch`, `_claim_and_execute` | `Execute`, `Claim`, `Call`, `Return`, `PersistEvidence`, `ApplyExecution` |
| `recover_operation`, `_unknown_without_completing` | `Recover`, `Inspect`, `Abandon`, `ApplyExecution` |
| `recover_unknown_operation`, `_unknown_start_verification`, `run_verifying_cycle`, `_apply_verification_kind` | `Recovery`, `StartVerification`, `Rejoin`, `Cycle`, `Verify`, `Record`, `Gather`, `Conclude` |
| `_unknown_without_verify` | `Weigh`, `Resolve` |
| `recover_stranded`, `escalate_messaging_recovery` | `Republish`, `Exhaust` |
| the process ends | `Crash`, `Overflow` |

`ApplyResult` is `TransitionService._apply_operation` up to its decision and
`Commit` the rows it writes; a claim, an attempt's completion, a verification
request or result is written by the action of the handler in the same step. A
duplicate identity is an infrastructure failure of the handler, as in the code.
The initial state is an operation that policy has just allowed: version 2 and
one EXECUTE row. (An approved operation starts at version 3; the model compares
versions with each other only.)

Kept from the code although it looks odd, because it is what the code does: a
claim expects the version the worker loaded *first* even after it loaded the
operation again; recovery reads attempts after the operation and not with it;
evidence of a call is persisted without looking at the operation; a claim checks
no budget.

Abstracted: payloads, digests, identities (a row's identity is the pair of
outbox event and role), wording, ages and clocks (whether the replay window of
a provider key has elapsed is a free choice, as is the moment work counts as
stranded), `READY` rows that are deleted or unreadable. A verification result is
an outcome or UNSUPPORTED, an UNKNOWN one whose error ends verification.
A request that is `EN_ROUTE` lands or is dropped, at once or, with `LateLanding`,
after its handler gave up; the evidence a provider returns may be missing but
is never false: an adapter that lies is outside of what Stateback promises.

### Delivery

`op` and `outbox` are the rows of several operations, `published` the PUBLISHED
rows in the order in which they were published, `stream` and `quarantine` the
messages with the number of deliveries and their fate, `relay[r]` the place of
a relay in its round (`Scan`, `RecoverCandidate`, `ClaimPending`, `Publish`,
`MarkPublished`), `worker` the single outstanding message (`max_ack_pending`
is 1), `operator` a replay in progress. The scan sees the rows published before
a cutoff, which is any prefix of `published`; it keeps the order and the limit of
the query (`OldestCandidates`: the positions of the first `Batch` candidates), and its candidates are checked again one by one in the state the
operation has then. A handler applies any transition that is allowed from the
operation's state (the constant `Applied` narrows them per run) or fails; what
it decides is the matter of `Execution`.

### DecisionMatrix

One step from `Undecided` to a recorded decision, for every combination of
evidence, effect, obligation, attempt number and verification count.

### Compensation

One operation that may be compensated (`op`), its compensation row (`comp`), its
attempts, verifications, outbox rows and the broker's message in hand. Every
process (a worker or an API process serving the operator) runs one handler with
a program counter. Actions and code:

| Code (`compensation/`) | Actions |
|---|---|
| `start_compensation` | `Start` |
| `execute_compensation`, `dispatch_execute`, `_delegate_to_recover` | `Execute`, `Dispatch`, `Peek` |
| `claim_and_compensate`, `_call_compensate`, `_compensate_step` | `Claim`, `Call`, `Outcome` |
| `_maybe_claim_retry`, `retry_failed_compensation` | `Reclaim`, `AskRetry` |
| `recover_compensation` and its branches | `Recover`, `Recovering`, `Inspect`, `Leftover`, `Pending`, `Unknown`, `Restart`, `Weigh`, `Rejoin`, `AskRecovery` |
| `run_verify_cycle`, `_verify_step` | `Find`, `Verify`, `Gather`, `Conclude` |
| `escalate_compensation` | `AskEscalate`, `Escalate` |
| worker, relay, crash | `Deliver`, `Reply`, `Republish`, `Exhaust`, `Crash` |

Four transitions of a compensation (`CompensationProgressKind`) do not move the
operation's version; `ProgressResult` is their own check, of the compensation
row. The evidence of an attempt is written by the transition it asks for, and
not before it as in the execution.

### Adapters and EffectProtocol

An answer is a status and a body ("good", "other", "malformed"), evidence an
outcome and the identities it carries; what the provider holds of one operation
is the record `w`. Each adapter operation is a pure operator from an answer to
evidence, in the order of the code's tests. `EffectProtocol` makes an attempt,
a verification or a compensation one step, applies the decision of `Decisions`
to the evidence, and lets requests land late, other people push or close, and
the process end between call and evidence (`Interrupted`, which is also what an
exception of the reference adapter amounts to).

External to the repository, and assumed: GitHub's refusals (400, 401, 403, 404,
410, 422, 429, and for a merge 405, 409) have not acted; a well-formed success
is true; any other answer, or none, says nothing. Searches and lists may hide
an object at any time.

### Intake

One idempotency key, hence one operation and one set of row identities. `h[c]`
is the request that server `c` has open:

| Code | Actions |
|---|---|
| `ApplicationService.submit`, `submit_operation`, `_apply_create` | `Submit`, `Lookup`, `Insert`, `Reread` |
| `_apply_policy`, `RulePolicyEngine`, `_persist_policy` | `Evaluate`, `EngineFails`, `PersistPolicy` |
| `ApprovalService.decide`, `expire`, `_resolve_concurrent` | `Decide`, `LoadOperation`, `CheckApproval`, `ApplyDecision`, `Settle` |
| `request_verification`, `start_operator_verification` | `RequestVerification`, `LoadManual`, `StartVerification` |
| everything else in the lifecycle | `Work`, `Progress`, `Exhaust` |
| time, process | `PassDeadline`, `Crash` |

`AuditTypes` is `_append_audits` for every kind. What a client sends is chosen
where it is first used (environment, actor, expected version), which gives the
same behaviours as choosing it at the start. `answer` is the success the last
step reported.

## 4. Runs

| Run | Instance | Shows |
|---|---|---|
| `ExecutionConcurrent` | two workers, two deliveries per message, two attempts allowed | `TypeOK`, `AttemptBudget`, `RecoveryBudget`, `AttemptPerMessage`, `OneCallerPerAttempt`, `EvidenceIsFinal`, and that `Execution` implements `OperationPromise` (`KeepsPromise`) |
| `ExecutionCrash` | one worker, two crashes, one republication, two attempts, verifiable and unverifiable effect | `CoveredWork`, `AtMostOnce`, `NotAppliedIsProven`, `KeepsPromise` |
| `ExecutionLive` | one worker, one crash, lost messages, late landing, fairness | `EventuallyResolved`, `KeepsPromise` |
| `DeliveryRelays` | two relays, one operation, a relay crash | `PublishedOnce`, `ReplayedOnce`, `ReplayBudget`, `ExhaustedAfterAllTries` |
| `DeliveryLive` | one relay, a lost message, a worker crash or failed quarantine publication, one operator command, fairness | `WorkIsDiscovered`, `TermIsQuarantined`, `TypeOK` |
| `DecisionMatrix` | caps None/0 to 2, attempt numbers to 3, counts to 4; every effect of both providers with caps to 2 and two undoings | `RetryIsWarranted`, `EvidenceDecides`, `DecisionIsApplicable`, `ProvenRetryIsAdmitted`; `EffectIsSingle`, `SuccessIsReal`, `FailureIsReal`, `UndoIsReal` |
| `Compensation` | a worker, an operator who acts twice, two deliveries, one crash or republication, an effect with delayed proof and one that cannot be verified | `TypeOK`, `RowsAgree`, `SettledByEvidence`, `CallersShareMessage`, `AttemptsAreAllowed`, `NoBlindAttempt`, `EvidenceIsFinal`, and that it implements `CompensationPromise` (`KeepsPromise`) |
| `Intake` | two servers, an approver and another principal, two valid intents and one invalid, two policy revisions and two environments, three requests | `TypeOK`, `AnswersMatch`, `AuthorisedWork`, `TrailTellsState` |
| `ExecutionStack` | two workers | violation of `ClaimTerminates` |
| `ExecutionContradiction` | two workers, one attempt | violation of `FailureUncontradicted` |
| `DeliveryStarved` | two operations, a batch of one | violation of `WorkIsDiscovered` |
| `DecisionAdmission` | as `DecisionMatrix` | violation of `ProposedRetryIsAdmitted` |

**Bounds.** Two workers are enough for a race over a row: every handler reads
or writes one operation, and every conflict is between two handlers. Two
deliveries let the same message run twice at once and let an old message come
back when the operation is READY again; two attempts are the smallest budget
with a retry, and the budget's last attempt is reached. `MaxCrashes` and
`MaxFaults` allow a crash between any two steps and a second one during the
repair of the first. `StackLimit` is 1 where only the behaviour after the
overflow matters, and 3 in `ExecutionStack` to show that nothing but the stack
ends the descent. `MaxReplays` is 9 in `ExecutionLive`, more than the versions an
operation with one attempt can go through, so that there the bound is never
what stops the relay. In `Delivery`, `MaxVersion` bounds what handlers change,
and `Batch` of 1 is the smallest in which a candidate can displace another.

In `Compensation` the worker and the operator's process are the two handlers of
a race; two deliveries and two actions let a message come back after an operator
has intervened, and `TwoTries` has a retry and its limit. In `Intake` three
requests are a race of two and a third that finds its result, or a submission
and two decisions; `MaxVersion` 5 reaches from the creation through approval and
claim to manual intervention and back, and `MaxEvents` 11 is the trail of such a
history. The expected versions 2 and 4 are the version of an approval that waits
and one that it never has. In `EffectProtocol` the caps 0 to 2 and the recovery
budget bound a behaviour by themselves.

The safety runs need no deadlock check, since the system comes to rest when an
operation is resolved; that it does not rest earlier is what the liveness
properties say.

`AtMostOnce` is checked with one worker and no late landing: with an overlapping
redelivery, or a request that lands after the provider said it had not, a
verification is true when it is made and false later, and no retry without an
idempotent provider can be safe. The repository's INVARIANTS.md says the same.
`ExecutionConcurrent` and `ExecutionLive` check the properties that hold without
this restriction.

**Fairness.** `FairSpec` of `Execution`: a handler that runs goes on (a crash is
a separate action and bounded), a provider request is settled some time, and the
relay repeats its round, which `run_relay` does for ever. Nothing is asked of
the broker: `Deliver` has no fairness, so any message may be lost for ever. In
`Delivery` each relay and the worker go on, and the broker delivers what it
still has. Strong fairness of a scan that sees all of `published` stands for
the passing of time: rows become older than the cutoff, and a relay scans
again and again, so infinitely many of its scans find every row old enough.
`Handle` and the operator have no fairness: a handler may fail each time.

## 5. Disagreements between documents and code

- **`DeliveryStarved`.** `list_stranded_candidate_ids` counts COMPENSATED
  operations as candidates of a COMPENSATE row, `_COMMAND_STATES` of the relay
  does not. Such a row is a candidate in every scan and is skipped each time;
  with as many of them as the batch has places, nothing behind them is found.
  FAILURE_MODEL.md requires that lost work stays discoverable.
- **`ExecutionContradiction`.** Late evidence is persisted into an attempt of an
  operation that has become FAILED on a verification, and nothing reconciles the
  two. The failure matrix asks for manual intervention.
- **`ExecutionStack`.** A lost race for the claim dispatches the same command
  again, with the same stale version, until the interpreter's stack ends.
- **`DecisionAdmission`.** The transition service re-checks `UNKNOWN_SAFE_RETRY`
  without the provider-key semantics the registry used, so the retry recovery
  proposes is never admitted; `ExecutionCrash` covers what happens instead.

### Observations that are not findings

Facts the models contain because the code does, and of which no document says
otherwise, or which only limit a property:

- *Compensation.* A crash after the claim of an attempt leaves COMPENSATING with
  a STARTED attempt. Redeliveries answer IN_FLIGHT and are acknowledged
  (`execute.py:191`); only exhausted messaging recovery moves the operation, to
  MANUAL_INTERVENTION, where another start answers that it is already applied.
  A COMPENSATION_FAILED operation whose last row is COMPENSATE counts as
  stranded and is escalated. `_verify_step` takes ALREADY_APPLIED of a retry for
  its own claim, so two handlers *of one message* may both call for an attempt:
  `CallersShareMessage` says "message" for this reason.
- *GitHub.* Nothing but a 2xx that identifies the object gives identities, so an
  object found by verification only cannot be closed by a compensation, and the
  verification of a pull request's closing, whose request carries no head and
  base, is never conclusive. A merge that lands after its verification makes a
  FAILED operation true; `FailureIsReal` excepts what lands after a look. An
  inconsistent answer (another head, other branches) is inconclusive and used up
  by the recovery budget: reconciliation ends at once only on the reference
  provider's own code `ref.verify.inconsistent`.
- *Reference provider.* A natural effect whose answer was lost has neither
  identity nor key and verifies as NOT_APPLIED although its row exists
  (excepted in `FailureIsReal`); a compensation without evidence verifies as
  NOT_APPLIED although the row is marked. A keyed effect on a resource of
  another operation raises out of `execute` after the claim. Natural effects
  converge on one row, and undoing one of them undoes the other's.
- *Intake.* The deployment environment is not part of the intent's digest, so
  the first submission judged decides for all. The API answers a submission with
  the operation whatever became of the policy step, conflicts of intents and
  versions aside; after an engine failure or a crash only a second submission
  moves PENDING_POLICY on. An operator's `expected_version` is not used. Expiry
  is offered by `ApprovalService.expire` and called by no deployed process;
  grant and expiry exclude each other by the state of the approval.
  VERIFICATION_ESCALATE and COMPENSATION_UNKNOWN_APPLIED write no event for the
  result they rest on.

## 6. Proofs

Eight modules hold theorems; each is about *every* value of the constants that
the named assumption of its model allows, where the runs of section 4 check a
few. Each property below is also checked by a run, and the inductive invariants
were checked by TLC on the instances of the runs too. All proofs
have the same shape: one lemma for each action, which says what it keeps of each
part of the invariant it can disturb, one that joins them over `Next`, and a
temporal step.

| Theorem | States | Rests on |
|---|---|---|
| `TypeCorrect`, `BudgetKept` | `TypeOK`, `AttemptBudget` of `Execution` | `Inv` (`Invariance`) |
| `EvidenceKept` | `EvidenceIsFinal` | `Inv` |
| `CallsAreAlone`, `RecordedIsTrue` | `OneCallerPerAttempt`, and that recorded evidence is true | `AttemptInv` (`AttemptsKnown`) |
| `ClaimsAreMatched` | `AttemptPerMessage` | `ClaimsInv` |
| `WorkIsCovered` | `CoveredWork` | `Inv` |
| `RecoveryIsBounded` | `RecoveryBudget` | `VerificationInv` (`VerificationsKnown`) |
| `RetriesAreProven` | `NotAppliedIsProven` | `Inv`, `AttemptInv` |
| `PromiseKept` | `KeepsPromise`: `Execution` implements `OperationPromise` | `Inv`, `AttemptInv`, `Witnessed` (`AppliedIsSeen`) |
| `EffectOnce` | `AtMostOnce`, for one worker and no late landing | `SerialInv` |
| `RetriesWarranted`, `EndsAreEvident`, `DecisionsApplicable`, `ProvenRetriesAdmitted` | the four properties of `DecisionMatrix` | `Explained` (`CasesExplained`) |
| `SingleEffect`, `RealSuccess`, `RealFailure`, `RealUndo` | the four properties of `EffectProtocol` | `ProtocolInv` (`ProtocolInvariance`) |
| `TypesHold`, `RowsStayInAgreement`, `SettlingRestsOnEvidence`, `AttemptsStayAllowed`, `CallersOfAttempt` | `TypeOK`, `RowsAgree`, `SettledByEvidence`, `AttemptsAreAllowed`, `CallersShareMessage` of `Compensation` | `CompensationInv` (`CompensationInvariance`) |
| `EvidenceStaysFinal`, `NoAttemptIsBlind` | `EvidenceIsFinal`, `NoBlindAttempt` of `Compensation` | `CompensationInv` |
| `CompensationKeepsPromise` | `KeepsPromise`: `Compensation` implements `CompensationPromise` | `CompensationInv` |
| `IntakeTyped`, `AnswersAreTrue`, `WorkIsAuthorised` | `TypeOK`, `AnswersMatch`, `AuthorisedWork` | `IntakeInv` (`IntakeInvariance`) |
| `TrailIsTrue` | `TrailTellsState` | `IntakeInv`, `TrailInv` |
| `DeliveryTyped`, `RowsPublishedOnce`, `RowsReplayedOnce`, `ReplaysBounded`, `TerminatedKept`, `GivenUpInTurn` | `TypeOK`, `PublishedOnce`, `ReplayedOnce`, `ReplayBudget`, `TermIsQuarantined`, `ExhaustedAfterAllTries` | `DeliveryInv` (`DeliveryInvariance`) |

### Execution

`AttemptBudget` is not inductive. No guard of `Claim` mentions it; a claim only
needs the operation to be READY. So READY must imply that an attempt is left
(`Progress`), and whoever makes the operation READY must have decided on the
*true* number of attempts, although it read that number in an earlier
transaction. `Inv` is `TypeOK /\ Progress /\ Handled`, where `Handled` says of
every handler what it knows: its version is not ahead of the operation's; the
attempt and the verification it speaks of exist; and if it is about to conclude
and its version is still the operation's, the number it holds is the number of
attempts. The last is preserved because a claim, the only step that adds an
attempt, moves the version (`Grows`, `SoundKeeps`). A handler with an older
version cannot apply anything (`AppliedMeans`). The retry after an execution
rests on another guard: evidence is admitted only for the latest attempt
(`AttemptMatches`).

`AttemptInv` adds what a handler knows of its attempt before its evidence is
durable: it holds the number alone, since only the claim hands it out and no
recovery takes it up; during the call the row is STARTED; and the outcome it
carries is what became of the request. Hence a second caller, or a row that
says something untrue, is impossible with any number of workers.

`VerificationInv` is the same idea for verifications. `RecoveryBudget` is
enforced by no guard: a handler counts the completed rows it has read. It holds
because only the latest row may be open, because a handler whose version is
still the operation's has counted all of them, and because the rows, with those
that the present state may still ask for, stay within a budget that each further
attempt extends by one (`RowsBounded`).

`PromiseKept` maps the initial state and every step. The mapping needs, beyond
`Inv`, that success is only ever reported of a request that has landed: for an
attempt by `EvidenceIsTrue`, for a verification by `Witnessed`.

`EffectOnce` has the hypothesis `Serial`: one worker, and no request that lands
after its handler gave up. These are the circumstances of the run
`ExecutionCrash`; section 4 says why the property needs them. They exclude
neither crashes nor lost messages, redeliveries or republications, all of which
the theorem leaves unbounded. `SerialInv` says that only the last request may
have been made, that a request under way has its handler waiting for it, that no
request was made when the operation is READY or FAILED, and that NOT_APPLIED,
once seen, stays true as long as it may be acted upon.

### Decisions and adapters

`Explained` records how a decided case came about, and the rest are facts about
pure operators, one lemma for each decision, over all descriptors, obligations,
numbers and counts.

`EffectProtocol_proofs` first bounds what an attempt, a verification or a
compensation may answer, given what the provider holds, and then shows
`ProtocolInv`: an effect that can be made twice is attempted only while none is
made or under way (`Single`); an operation that is tried again, like one that
has failed, has not had its effect, or only from a request that arrived after a
look (`Looked`); evidence against an effect that cannot be verified is acted
upon at once (`Blind`). The theorems are about `ProtocolSpec`, whose
next-state relation the run `DecisionMatrix` explores as part of
`MCDecisionMatrix`. What they assume of GitHub is what section 3 lists.

### Compensation

`CompensationInv` is `RowsInv /\ SideTypes /\ HandlersFit /\ Distinct`. The
argument of the execution, that a handler with an old version can apply nothing,
does not carry over: four kinds of progress change attempts, verifications and
the compensation row under one version. What a version does say is that the
*operation* has not moved since, and this is enough where it is joined with what
each kind of progress asks of the compensation row:

- a handler that has decided on a retry holds the number of the next attempt
  (`FitsAttempt`): at its version no attempt has been added, since after
  COMPENSATION_FAILED or COMPENSATION_UNKNOWN one is added only together with a
  new version;
- while COMPENSATING, a verification of the latest attempt at the present version
  is the last verification, and pending, and the row is VERIFYING (`VerifsFit`). So
  a handler that concludes one late finds either its own verification or another
  version, and evidence about an earlier attempt settles nothing;
- an attempt under an action key was made by the handler that holds the key, and
  two handlers never hold the same one (`Distinct`): the attempts of an operator,
  which no cap counts, are one for each action.

`CallersOfAttempt` is weaker than its counterpart for the execution because the
code is: an attempt in flight is called again by a redelivery of its own message,
and by nobody else.

The steps write the rows in five ways only (`Journal`): the start of the
compensation, an attempt, a verification, a transition, and an effect that lands.
`EvidenceStaysFinal` and the refinement are proved of these five, not of each of
the actions. The mapping to `CompensationPromise` is that of the model (`Phase`);
it needs of the invariant that an outcome APPLIED, of an attempt or of a
verification, is only ever recorded of an effect that has landed.

`Compensation` gives the identities of rows and handlers their type through
`Roles`, the roles the code derives a key for.

### Intake

`IntakeInv` joins what the rows say of each other (`Stages`, `Judged`), what the
code has made sure of when a request is where it is (`SessionOK`: its snapshot
exists and is not newer than the row, its digest is the row's, its clock was not
ahead), and `AnswersMatch`. `AuthorisedWork` follows from `Judged`, which says
for each verdict and each state of the approval in which states the operation
may be; no single transition establishes it.

`TrailInv` says what `TrailTellsState` counts without counting: the versions of
the trail are in order (`InOrder`); each has exactly one change, which is legal
and continues the change of the version before, the last one to the present state
(`Chain`); no version has two actions of the operator (`ActionsApart`); each event
of the policy and of the approval is the only one of its type, at the version at
which its row was written, and is there if and only if the row says so (`Single`,
`Seen`). Every step extends the trail by the events of one version (`Extends`),
and the lemmas say what of the invariant such an extension keeps, whichever kind
it comes from. That each kind reports what it has to is `JudgementReports` and
`LateReported`, by the cases of `AuditTypes`. `Cardinality` enters at the end, of
sets with one element or none (`TrailTells`).

### Delivery

`DeliveryInv` has three parts. `Journal`: in the order of creation the versions
of an operation's rows only grow, a replay follows the row it replays, and of
the rows of one version *only the last may be pending* (`Ordered`). From the last,
with the check that a recovered row is the latest and PUBLISHED, follow both
`ReplayedOnce` and `ExhaustedAfterAllTries`: the latest row of the version being
published, so are all before it. `Streams`: every message, also one in the
quarantine, is one of a row, and a worker about to terminate has published the
diagnostic. `Claims`: a row is claimed by one relay while it is pending, and
marked after it was sent. The theorems hold for any finite set of operations,
any set of relays, and any number of faults.

### Only model-checked

- The liveness properties `EventuallyResolved` and `WorkIsDiscovered`: fairness
  is out of the prover's reach.
- The four violations of section 5, which are counterexamples.

## 7. Not modelled

- The kinds that no service issues (UNKNOWN_RECONCILE_*, MANUAL_SAFE_RETRY,
  CANCEL_PENDING_POLICY, CANCEL_READY, COMPENSATION_UNKNOWN_FAILED) have their
  edges, outbox commands and audit events, but not their preconditions.
- `recovery/scan.py` and `compensation/scan.py` are called by no process; the
  latter's recovery is there as `AskRecovery`.
- The verification an operator starts: `Intake` ends with its start, `Execution`
  begins with a fresh operation.
- Liveness of a compensation: no component promises it. A handler that dies
  after a claim leaves the attempt in flight until a human is asked.
- Payloads that cannot be decoded: the program's own publishers write none.
- Clock skew between hosts (`created_at` orders the outbox rows) and the length
  of the backlog: ages are abstracted to a free choice, so that work still
  queued may be escalated in the model as it may be in the program.
- An adapter error that is raised instead of returned ends the worker; the model
  has it as a crash.
- Serialization, canonical form, secrets, HTTP, SDK, MCP, CLI, UI and semantic
  summaries: no control state of the journal.
- In the adapters: argument validation (one flag), error kinds, codes and
  evidence fields no decision reads, paging beyond the first page, rate limits
  as such (a 429 is a refusal), and other operations' objects except the
  reference provider's row for the same resource.
