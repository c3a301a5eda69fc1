---------------------------- MODULE Compensation ----------------------------
(***************************************************************************)
(* The compensation of one operation: the operation row, the compensation *)
(* row and its attempts and verifications in PostgreSQL, the workers that *)
(* handle COMPENSATE and VERIFY messages, the operator who starts,        *)
(* retries or escalates a compensation through the API, the provider, and *)
(* the recovery of stranded work.                                         *)
(*                                                                         *)
(* Unlike the execution of the original effect, the evidence of an        *)
(* attempt is written together with the transition it asks for, several   *)
(* steps (claim, start of a verification, retry after a verification)     *)
(* leave the version of the operation alone, and one handler may go       *)
(* through several attempts and verifications.  Each unit of work, each   *)
(* read outside one and each provider call is a step.                     *)
(***************************************************************************)
EXTENDS Decisions, Sequences, FiniteSets

CONSTANTS
  Workers,         \* the worker processes
  Operators,       \* the API processes that serve the operator
  Effects,         \* the compensatable effects the registry knows
  Origins,         \* the states in which the operation may be found
  Obligation,      \* the policy's obligations
  MaxDeliveries,   \* max_deliver of the consumer, and the worker's max_deliveries
  MaxRecoveries,   \* republications of one command at one operation version
  MaxActions,      \* bound: operator actions in a behaviour
  MaxFaults        \* bound: crashes and republications in a behaviour

StartKind ==
  [SUCCEEDED           |-> "SUCCEEDED_START_COMPENSATION",
   FAILED              |-> "FAILED_START_COMPENSATION",
   MANUAL_INTERVENTION |-> "MANUAL_START_COMPENSATION"]

ASSUME CompensationAssumption ==
  /\ Workers \intersect Operators = {}
  /\ Effects \subseteq Descriptors
  /\ Origins \subseteq DOMAIN StartKind
  /\ Obligation \in Obligations(Nat)
  /\ MaxDeliveries \in Nat \ {0}
  /\ MaxRecoveries \in Nat \ {0}
  /\ MaxActions \in Nat
  /\ MaxFaults \in Nat

VARIABLES
  op,         \* the operation row: its state and version, and its effect
  comp,       \* the compensation row: its state and version
  attempts,   \* the compensation attempts: who inserted them, and their outcome
  verifs,     \* the verifications: identity, attempt, operation version, result
  used,       \* identities of the rows written under each message or action
  outbox,     \* the outbox rows, in order of creation
  queue,      \* the broker's message in hand: its outbox row, deliveries, and end
  landed,     \* whether the compensating effect has reached the provider
  h,          \* the handler each process is running
  actions,    \* operator actions so far: each has an action key of its own
  crashes     \* crashes so far

rows == <<op, comp, attempts, verifs, used, outbox>>
vars == <<op, comp, attempts, verifs, used, outbox, queue, landed, h, actions, crashes>>

Processes == Workers \union Operators
AttemptStates == Outcomes \union {"STARTED"}
NoRow == "NO_ROW"                           \* the compensation is not yet requested
CompensationStates ==
  {"PENDING", "EXECUTING", "VERIFYING", "SUCCEEDED", "FAILED", "UNKNOWN"}

\* LEGAL_COMPENSATION_TRANSITIONS, as the set of successors of each state
CompensationNext ==
  [PENDING   |-> {"EXECUTING"},
   EXECUTING |-> {"SUCCEEDED", "VERIFYING", "UNKNOWN", "FAILED"},
   VERIFYING |-> {"SUCCEEDED", "EXECUTING", "UNKNOWN", "FAILED"},
   UNKNOWN   |-> {"VERIFYING", "EXECUTING", "SUCCEEDED", "FAILED"},
   FAILED    |-> {"EXECUTING"},
   SUCCEEDED |-> {}]

\* PARENT_FOR_COMPENSATION_STATE
ParentState ==
  [PENDING |-> "COMPENSATING", EXECUTING |-> "COMPENSATING",
   VERIFYING |-> "COMPENSATING", UNKNOWN |-> "COMPENSATION_UNKNOWN",
   SUCCEEDED |-> "COMPENSATED", FAILED |-> "COMPENSATION_FAILED"]

\* COMPENSATION_TARGET_STATE; the kinds that escalate leave the row alone
CompensationTarget ==
  [COMPENSATION_APPLIED         |-> "SUCCEEDED",
   COMPENSATION_OUTCOME_UNKNOWN |-> "UNKNOWN",
   COMPENSATION_OUTCOME_FAILED  |-> "FAILED",
   COMPENSATION_UNKNOWN_RETRY   |-> "EXECUTING",
   COMPENSATION_UNKNOWN_APPLIED |-> "SUCCEEDED",
   COMPENSATION_UNKNOWN_FAILED  |-> "FAILED",
   COMPENSATION_FAILED_RETRY    |-> "EXECUTING"]

PCs == {"idle", "execute", "again", "dispatch", "peek", "claim", "call",
        "outcome", "reclaim", "recover", "recovering", "inspect",
        "leftover", "pending", "find", "verify", "gather", "conclude", "unknown",
        "restart", "weigh", "rejoin", "escalate", "ack", "nak"}

NoSpace == <<"NONE", 0>>
Namespaces == {"message", "action"} \X Nat

\* ver and cver: the versions of the operation and the compensation row it knows;
\* old: its verification result was read from the journal
Handlers == [pc : PCs, ns : Namespaces \union {NoSpace}, n : Nat, ver : Nat,
             st : OperationStates \union {None}, cver : Nat, num : Nat,
             out : AttemptStates \union {None}, vid : Nat,
             res : VerificationResults \union {None}, cnt : Nat, old : BOOLEAN]

Idle == [pc |-> "idle", ns |-> NoSpace, n |-> 0, ver |-> 0, st |-> None, cver |-> 0,
         num |-> 0, out |-> None, vid |-> 0, res |-> None, cnt |-> 0, old |-> FALSE]

\* The operation has been executed: created, allowed, claimed, decided
Init ==
  /\ op \in [state : Origins, version : {4}, effect : Effects]
  /\ comp = [state |-> NoRow, version |-> 0]
  /\ attempts = <<>> /\ verifs = <<>>
  /\ landed = FALSE
  /\ used = {} /\ outbox = <<>> /\ queue = [row |-> 0, tries |-> 0, done |-> TRUE]
  /\ h = [p \in Processes |-> Idle]
  /\ actions = 0 /\ crashes = 0

-----------------------------------------------------------------------------
(***************************************************************************)
(* The transition service, for the kinds that move the operation and for  *)
(* those that only make progress under its unchanged version.             *)
(***************************************************************************)

Descriptor == op.effect
Latest == attempts[Len(attempts)]

\* compensation_parent_is_consistent
ParentAgrees == comp.state # NoRow /\ ParentState[comp.state] = op.state

\* The legality check that precedes every write of the compensation row
RowMayFollow(kind) ==
  kind \in DOMAIN CompensationTarget =>
    CompensationTarget[kind] \in CompensationNext[comp.state] \union {comp.state}

\* _apply_operation: "written" are the identities of the rows it would insert
ApplyResult(kind, version, precondition, written) ==
  CASE op.version = version + 1 ->
         IF op.state = Target(kind) THEN "ALREADY_APPLIED" ELSE "REJECTED"
    [] op.version \notin {version, version + 1} -> "CONFLICT"
    [] op.version = version ->
         IF ~(/\ op.state = Source(kind)
              /\ op.state \notin AbsoluteTerminal
              /\ Target(kind) \in LegalNext[op.state]
              /\ precondition) THEN "REJECTED"
         ELSE IF written \intersect used # {} THEN "DUPLICATE" ELSE "APPLIED"

\* mutant: the operation may have moved on
ProgressResultUnversioned(version, cversion, already, precondition, written) ==
  CASE comp.version = cversion + 1 -> IF already THEN "ALREADY_APPLIED" ELSE "REJECTED"
    [] comp.version \notin {cversion, cversion + 1} -> "CONFLICT"
    [] OTHER -> IF ~precondition THEN "REJECTED"
                ELSE IF written \intersect used # {} THEN "DUPLICATE" ELSE "APPLIED"

\* The four kinds of progress: "already" recognises the step as done before
ProgressResult(version, cversion, already, precondition, written) ==
  CASE op.version # version -> "CONFLICT"
    [] op.version = version /\ op.state # "COMPENSATING" -> "REJECTED"
    [] /\ op.version = version /\ op.state = "COMPENSATING"
       /\ comp.version = cversion + 1 -> IF already THEN "ALREADY_APPLIED" ELSE "REJECTED"
    [] /\ op.version = version /\ op.state = "COMPENSATING"
       /\ comp.version \notin {cversion, cversion + 1} -> "CONFLICT"
    [] OTHER -> IF ~precondition THEN "REJECTED"
                ELSE IF written \intersect used # {} THEN "DUPLICATE" ELSE "APPLIED"

MoveOperationAlone(kind) ==             \* mutant: the compensation row is forgotten
  /\ op' = [op EXCEPT !.state = Target(kind), !.version = @ + 1]
  /\ UNCHANGED comp

\* The operation and the compensation row after an admitted kind, without verdicts
MoveRows(kind) ==
  /\ op' = [op EXCEPT !.state = Target(kind), !.version = @ + 1]
  /\ comp' = IF kind \in DOMAIN CompensationTarget
             THEN [state |-> CompensationTarget[kind], version |-> comp.version + 1]
             ELSE comp

\* The rows of progress: the operation stays as it is
Progress(state) ==
  /\ comp' = [state |-> state, version |-> comp.version + 1]
  /\ UNCHANGED op

\* One outbox row per command, at the version the operation then has
Emit(commands, version) ==
  outbox' = outbox \o [i \in DOMAIN commands |->
                         [cmd |-> commands[i], version |-> version, replay |-> FALSE]]

EmitFor(kind) ==
  IF OutboxCommand(kind) = NoCommand THEN UNCHANGED outbox
  ELSE Emit(<<OutboxCommand(kind)>>, op.version + 1)

CompleteAgain(num, outcome) ==          \* mutant: an outcome may be revised
  [attempts EXCEPT ![num].out = outcome]

\* A started attempt is completed; a completed one keeps its outcome
Complete(num, outcome) ==
  IF attempts[num].out = "STARTED" THEN [attempts EXCEPT ![num].out = outcome]
  ELSE attempts

StartAttempt(p) == Append(attempts, [by |-> h[p].ns, out |-> "STARTED"])

Become(p, r) == h' = [h EXCEPT ![p] = r]
At(p, pc) == [Idle EXCEPT !.pc = pc, !.ns = h[p].ns, !.n = h[p].n]
Goto(p, pc) == Become(p, [h[p] EXCEPT !.pc = pc])

\* A worker has an answer to give to the broker, an API process is done
Finish(p, pc) ==
  Become(p, IF pc = "abort" \/ (p \in Operators /\ pc \in {"ack", "nak"}) THEN Idle
            ELSE At(p, pc))

\* Nothing but the handler changes
Quiet == UNCHANGED <<rows, queue, landed, actions, crashes>>

\* No row is written.  The kinds that move the operation report ALREADY_APPLIED
\* without the compensation row: the handler asserts that there is one and ends with
\* an AssertionError, which answers nothing to the broker
Answer(p, result) ==
  /\ Finish(p, CASE result \in {"REJECTED", "CONFLICT"} -> "ack"
                 [] result = "DUPLICATE" -> "nak"
                 [] OTHER -> "abort")
  /\ Quiet

\* CompensationIds and CompensationRetryIds: what a message or an action brings one
\* identity each for, and one per attempt number
Roles == {"start", "claim", "evidence", "complete", "verification", "result", "manual",
          "parent_retry", "attempt", "resume", "resume_result", "resume_complete"}

Id(p, role, n) == <<h[p].ns, role, n>>

\* The identities of an attempt: the first one's, or those made for its number
Nth(num) == IF num > 1 THEN num ELSE 0

-----------------------------------------------------------------------------
(***************************************************************************)
(* The broker and the ends of a handler.                                  *)
(***************************************************************************)

\* WorkHandler: where the command has work to do
LiveStates(cmd) ==
  {"COMPENSATING", "COMPENSATION_UNKNOWN"} \union
    (IF cmd = "COMPENSATE" THEN {"COMPENSATION_FAILED", "COMPENSATED"} ELSE {})

\* The message in hand is delivered again when it was refused, when its handler
\* crashed, or when its handler is slow; the next one follows when it is done or has
\* used up its deliveries.  Messages come in the order of the outbox, and one that
\* is passed over is lost.  Its handler begins by loading the operation
Deliver(w, e) ==
  /\ h[w].pc = "idle"
  /\ \/ e = queue.row /\ ~queue.done /\ queue.tries < MaxDeliveries
     \/ e > queue.row /\ (queue.done \/ queue.tries = MaxDeliveries)
  /\ LET tries == IF e = queue.row THEN queue.tries + 1 ELSE 1
         r == [Idle EXCEPT !.ns = <<"message", e>>, !.n = tries]
     IN /\ queue' = [row |-> e, tries |-> tries, done |-> FALSE]
        /\ Become(w, IF op.state \in LiveStates(outbox[e].cmd)
                     THEN [r EXCEPT !.pc = "execute", !.ver = op.version]
                     ELSE [r EXCEPT !.pc = "ack"])
  /\ UNCHANGED <<rows, landed, actions, crashes>>

\* The worker answers the broker; the last delivery is
\* terminated when it is refused
Reply(w) ==
  /\ h[w].pc \in {"ack", "nak"}
  /\ queue' = IF /\ h[w].ns = <<"message", queue.row>>
                 /\ h[w].pc = "ack" \/ h[w].n = MaxDeliveries
               THEN [queue EXCEPT !.done = TRUE]
               ELSE queue
  /\ Become(w, Idle)
  /\ UNCHANGED <<rows, landed, actions, crashes>>

Faults == crashes + Cardinality({e \in DOMAIN outbox : outbox[e].replay})

Crash(p) ==
  /\ Faults < MaxFaults
  /\ h[p].pc # "idle"
  /\ crashes' = crashes + 1
  /\ Become(p, Idle)
  /\ UNCHANGED <<rows, queue, landed, actions>>

-----------------------------------------------------------------------------
(***************************************************************************)
(* execute_compensation                                                   *)
(***************************************************************************)

\* The operation is loaded again; after a lost claim ("again") at any version
Execute(p) ==
  /\ h[p].pc \in {"execute", "again"}
  /\ IF /\ h[p].pc = "execute" => op.version = h[p].ver \/ op.state = "COMPENSATION_FAILED"
        /\ op.state \in {"COMPENSATING", "COMPENSATION_UNKNOWN", "COMPENSATION_FAILED"}
     THEN Become(p, [At(p, "dispatch") EXCEPT !.ver = op.version, !.st = op.state])
     ELSE Finish(p, "ack")
  /\ Quiet

\* dispatch_execute: the compensation row is read after the operation
Dispatch(p) ==
  /\ h[p].pc = "dispatch"
  /\ CASE h[p].st # "COMPENSATING" \/ comp.state = "VERIFYING" -> Goto(p, "recover")
       [] h[p].st = "COMPENSATING" /\ comp.state = "PENDING" ->
            Become(p, [h[p] EXCEPT !.pc = "claim", !.cver = comp.version,
                                   !.num = Len(attempts) + 1])
       [] h[p].st = "COMPENSATING" /\ comp.state = "EXECUTING" -> Goto(p, "peek")
       [] h[p].st = "COMPENSATING" /\ comp.state \in {"SUCCEEDED", "FAILED", "UNKNOWN"} ->
            Finish(p, "ack")
  /\ Quiet

\* An attempt that is STARTED is taken to be in flight
Peek(p) ==
  /\ h[p].pc = "peek"
  /\ IF Latest.out = "STARTED" THEN Finish(p, "ack") ELSE Goto(p, "recover")
  /\ Quiet

\* evaluate_claim_compensation_preconditions
ClaimAdmitted(p) == comp.state = "PENDING" /\ h[p].num = Len(attempts) + 1

\* claim_and_compensate
Claim(p) ==
  /\ h[p].pc = "claim"
  /\ LET written == {Id(p, "claim", 0)}
         result == ProgressResult(h[p].ver, h[p].cver, comp.state = "EXECUTING",
                                  ClaimAdmitted(p), written)
     IN CASE result = "APPLIED" ->
               /\ Progress("EXECUTING")
               /\ attempts' = StartAttempt(p)
               /\ used' = used \union written
               /\ Become(p, [At(p, "call") EXCEPT !.ver = h[p].ver, !.num = h[p].num,
                                                  !.cver = comp.version + 1])
               /\ UNCHANGED <<verifs, outbox, queue, landed, actions, crashes>>
          [] result = "ALREADY_APPLIED" -> Finish(p, "again") /\ Quiet
          [] result \in {"REJECTED", "CONFLICT", "DUPLICATE"} -> Answer(p, result)

Evidence(fate) ==
  IF fate = "LANDED" THEN {"APPLIED", "UNKNOWN"} ELSE {"NOT_APPLIED", "UNKNOWN"}

\* adapter.compensate: the request reaches the provider or it does not, and the
\* evidence is true of it, or none
Call(p) ==
  /\ h[p].pc = "call"
  /\ \E fate \in {"LANDED", "DROPPED"} : \E outcome \in Evidence(fate) :
       /\ landed' = (landed \/ fate = "LANDED")
       /\ Become(p, [h[p] EXCEPT !.pc = "outcome", !.out = outcome])
  /\ UNCHANGED <<rows, queue, actions, crashes>>

CompensateKindTrusting(outcome, d, o) ==            \* mutant: never verified
  CASE outcome = "UNKNOWN"     -> "COMPENSATION_OUTCOME_UNKNOWN"
    [] outcome = "APPLIED"     -> "COMPENSATION_APPLIED"
    [] outcome = "NOT_APPLIED" -> "COMPENSATION_OUTCOME_FAILED"

CompensateKindPessimistic(outcome, d, o) ==         \* mutant: no answer is a failure
  CASE outcome = "APPLIED" -> IF o.verify \/ ~d.immediate
                              THEN "START_COMPENSATION_VERIFICATION"
                              ELSE "COMPENSATION_APPLIED"
    [] OTHER               -> "COMPENSATION_OUTCOME_FAILED"

\* decide_compensate_kind
CompensateKind(outcome, d, o) ==
  CASE outcome = "UNKNOWN"     -> "COMPENSATION_OUTCOME_UNKNOWN"
    [] outcome = "APPLIED"     -> IF o.verify \/ ~d.immediate
                                  THEN "START_COMPENSATION_VERIFICATION"
                                  ELSE "COMPENSATION_APPLIED"
    [] outcome = "NOT_APPLIED" -> "COMPENSATION_OUTCOME_FAILED"

\* _check_compensation_outcome for the evidence of an attempt
AttemptAdmitted(kind, num, outcome) ==
  /\ ParentAgrees
  /\ RowMayFollow(kind)
  /\ num = Len(attempts)
  /\ Latest.out \in {"STARTED", outcome}

\* evaluate_start_compensation_verification_preconditions
VerificationStartAdmitted(p) ==
  /\ comp.state = "EXECUTING"
  /\ h[p].num = Len(attempts)
  /\ Latest.out \in {"STARTED", "APPLIED"}

StartVerification(p) ==
  LET written == {Id(p, "evidence", Nth(h[p].num)), Id(p, "verification", Nth(h[p].num))}
      result == ProgressResult(h[p].ver, h[p].cver, comp.state = "VERIFYING",
                               VerificationStartAdmitted(p), written)
  IN CASE result = "APPLIED" ->
            /\ Progress("VERIFYING")
            /\ attempts' = Complete(h[p].num, "APPLIED")
            /\ verifs' = Append(verifs, [id |-> Id(p, "verification", Nth(h[p].num)),
                                         attempt |-> h[p].num, version |-> op.version,
                                         result |-> None])
            /\ used' = used \union written
            /\ Emit(<<"VERIFY">>, op.version)
            /\ Become(p, [At(p, "find") EXCEPT !.ver = h[p].ver, !.cver = comp.version + 1])
            /\ UNCHANGED <<queue, landed, actions, crashes>>
       [] result = "ALREADY_APPLIED" ->
            /\ Become(p, [At(p, "find") EXCEPT !.ver = h[p].ver, !.cver = comp.version])
            /\ Quiet
       [] result \in {"REJECTED", "CONFLICT", "DUPLICATE"} -> Answer(p, result)

\* The outcome is written with its attempt in one unit of work; a NOT_APPLIED one
\* may be followed by a retry, unless it was replayed from the journal
Outcome(p) ==
  /\ h[p].pc = "outcome"
  /\ LET kind == CompensateKind(h[p].out, Descriptor, Obligation)
         written == {Id(p, "complete", Nth(h[p].num)), Id(p, "evidence", Nth(h[p].num))}
         result == ApplyResult(kind, h[p].ver,
                     AttemptAdmitted(kind, h[p].num, h[p].out), written)
     IN IF kind = "START_COMPENSATION_VERIFICATION" THEN StartVerification(p)
        ELSE IF result = "APPLIED"
        THEN /\ MoveRows(kind)
             /\ attempts' = Complete(h[p].num, h[p].out)
             /\ used' = used \union written
             /\ EmitFor(kind)
             /\ IF /\ kind = "COMPENSATION_OUTCOME_FAILED" /\ ~h[p].old
                   /\ RegistryRetrySafety(Descriptor, "NOT_APPLIED", None, FALSE) = "SAFE"
                   /\ MayTryAgain(h[p].num, Obligation)
                THEN Become(p, [At(p, "reclaim") EXCEPT !.ver = op.version + 1,
                                                        !.num = h[p].num + 1])
                ELSE Finish(p, "ack")
             /\ UNCHANGED <<verifs, queue, landed, actions, crashes>>
        ELSE Answer(p, result)

\* evaluate_claim_compensation_retry_attempt_preconditions
RetryClaimAdmitted(next) == Latest.out # "STARTED" /\ next = Len(attempts) + 1

\* A retry moves the operation back to COMPENSATING and claims the next attempt in
\* one unit of work; when the claim is refused, the move is committed all the same
RetryAndClaim(p, kind) ==
  LET next == h[p].num
      claimable == RetryClaimAdmitted(next)
      parent == {Id(p, "parent_retry", next)}
      written == IF claimable THEN parent \union {Id(p, "attempt", next)} ELSE parent
      result == ApplyResult(kind, h[p].ver, ParentAgrees /\ RowMayFollow(kind), written)
  IN CASE result = "APPLIED" ->
            /\ op' = [op EXCEPT !.state = Target(kind), !.version = @ + 1]
            /\ comp' = [state |-> "EXECUTING",
                        version |-> comp.version + (IF claimable THEN 2 ELSE 1)]
            /\ used' = used \union written
            /\ EmitFor(kind)
            /\ IF claimable
               THEN /\ attempts' = StartAttempt(p)
                    /\ Become(p, [At(p, "call") EXCEPT !.ver = op.version + 1,
                                    !.cver = comp.version + 2, !.num = next])
               ELSE Finish(p, "ack") /\ UNCHANGED attempts
            /\ UNCHANGED <<verifs, queue, landed, actions, crashes>>
       [] result = "ALREADY_APPLIED" /\ kind = "COMPENSATION_UNKNOWN_RETRY" ->
            Finish(p, "rejoin") /\ Quiet
       [] OTHER -> Answer(p, result)

\* _maybe_claim_retry, and retry_failed_compensation of the operator
Reclaim(p) == h[p].pc = "reclaim" /\ RetryAndClaim(p, "COMPENSATION_FAILED_RETRY")

-----------------------------------------------------------------------------
(***************************************************************************)
(* recover_compensation                                                   *)
(***************************************************************************)
Recover(p) ==
  /\ h[p].pc = "recover"
  /\ IF op.version = h[p].ver /\ op.state \in {"COMPENSATING", "COMPENSATION_UNKNOWN"}
     THEN Become(p, [At(p, IF op.state = "COMPENSATING" THEN "recovering" ELSE "unknown")
                       EXCEPT !.ver = op.version])
     ELSE Finish(p, "ack")
  /\ Quiet

\* _recover_compensating: the compensation row is read after the operation
Recovering(p) ==
  /\ h[p].pc = "recovering"
  /\ CASE comp.state = "PENDING"   -> Goto(p, "execute")
       [] comp.state = "EXECUTING" ->
            Become(p, [h[p] EXCEPT !.pc = "inspect", !.cver = comp.version])
       [] comp.state = "VERIFYING" ->
            Become(p, [h[p] EXCEPT !.pc = "pending", !.cver = comp.version])
       [] comp.state \in {"SUCCEEDED", "FAILED", "UNKNOWN"} -> Finish(p, "ack")
  /\ Quiet

\* A STARTED attempt was left over by a crash; a completed one is replayed
Inspect(p) ==
  /\ h[p].pc = "inspect"
  /\ IF Latest.out = "STARTED" THEN Goto(p, "leftover")
     ELSE Become(p, [h[p] EXCEPT !.pc = "outcome", !.num = Len(attempts),
                                 !.out = Latest.out, !.old = TRUE])
  /\ Quiet

\* _leftover_started_to_unknown: the attempt stays STARTED
Leftover(p) ==
  /\ h[p].pc = "leftover"
  /\ LET kind == "COMPENSATION_OUTCOME_UNKNOWN"
         written == {Id(p, "complete", 0), Id(p, "evidence", 0)}
         result == ApplyResult(kind, h[p].ver, ParentAgrees /\ RowMayFollow(kind), written)
     IN CASE result = "APPLIED" ->
               /\ MoveRows(kind)
               /\ used' = used \union written
               /\ EmitFor(kind)
               /\ Finish(p, "ack")
               /\ UNCHANGED <<attempts, verifs, queue, landed, actions, crashes>>
          [] result = "ALREADY_APPLIED" -> Finish(p, "ack") /\ Quiet
          [] result \in {"REJECTED", "CONFLICT", "DUPLICATE"} -> Answer(p, result)

PendingVerifications == {i \in DOMAIN verifs : verifs[i].result = None}
LastOf(S) == CHOOSE i \in S : \A j \in S : j <= i

\* find_pending_compensation_verification; without one the last result is replayed
Pending(p) ==
  /\ h[p].pc = "pending"
  /\ CASE PendingVerifications # {} -> Goto(p, "find")
       [] PendingVerifications = {} /\ verifs # <<>> ->
            Become(p, [h[p] EXCEPT !.pc = "gather", !.vid = Len(verifs),
                                   !.res = verifs[Len(verifs)].result, !.old = TRUE])
       [] verifs = <<>> -> Finish(p, "ack")
  /\ Quiet

\* _verify_step looks for the pending verification itself
Find(p) ==
  /\ h[p].pc = "find"
  /\ IF PendingVerifications = {} THEN Finish(p, "ack")
     ELSE Become(p, [h[p] EXCEPT !.pc = "verify", !.vid = LastOf(PendingVerifications)])
  /\ Quiet

\* adapter.verify: true of the provider now, or inconclusive
Verify(p) ==
  /\ h[p].pc = "verify"
  /\ \E result \in {IF landed THEN "APPLIED" ELSE "NOT_APPLIED", "UNKNOWN", "UNSUPPORTED"} :
       Become(p, [h[p] EXCEPT !.pc = "gather", !.res = result])
  /\ Quiet

\* The attempts and verifications are read after the provider has answered; the
\* verification in hand counts although its result is not yet written
Gather(p) ==
  /\ h[p].pc = "gather"
  /\ Become(p, [h[p] EXCEPT !.pc = "conclude", !.num = Len(attempts),
                  !.out = Latest.out,
                  !.cnt = Cardinality((DOMAIN verifs \ PendingVerifications)
                                        \union {h[p].vid})])
  /\ Quiet

\* reconcile_compensation decides like reconcile does, and kinds.py maps its
\* decision for a VERIFYING compensation
ReconciledKind(result, latest, number, count, d, o) ==
  LET decision == VerificationKind(result, IF latest = "STARTED" THEN "UNKNOWN" ELSE latest,
                                   number, count, d, o)
  IN CASE decision = "VERIFICATION_APPLIED"           -> "COMPENSATION_APPLIED"
       [] decision = "VERIFICATION_NOT_APPLIED_RETRY" -> "RETRY_COMPENSATION_AFTER_VERIFICATION"
       [] decision = "VERIFICATION_NOT_APPLIED_FAIL"  -> "COMPENSATION_OUTCOME_FAILED"
       [] decision = "VERIFICATION_INCONCLUSIVE"      -> "COMPENSATION_OUTCOME_UNKNOWN"
       [] decision = "VERIFICATION_ESCALATE"          -> "COMPENSATION_ESCALATE"

\* _verification_write_ids: the identities belong to the command that asked for the
\* verification; a handler that took it over uses its own initial ones
Resumes(p) == verifs[h[p].vid].id = Id(p, "resume", h[p].num + 1)
WrittenNth(p) ==
  CASE Resumes(p) -> h[p].num + 1
    [] ~Resumes(p) /\ verifs[h[p].vid].id = Id(p, "verification", Nth(h[p].num)) -> Nth(h[p].num)
    [] OTHER -> 0
ResultRow(p) == Id(p, IF Resumes(p) THEN "resume_result" ELSE "result", WrittenNth(p))
TransitionRow(p) == Id(p, IF Resumes(p) THEN "resume_complete" ELSE "complete", WrittenNth(p))

\* What the verification part of _check_compensation_outcome asks for: the request
\* targets the latest attempt at this version, and its result is not yet written
VerificationAdmitted(p) ==
  LET request == verifs[h[p].vid] IN
  /\ request.version = op.version
  /\ request.attempt = Len(attempts)
  /\ request.result = None \/ h[p].old

\* The attempt a decisive result completes: already completed with that outcome, or
\* with UNKNOWN, or still STARTED
CompletionAdmitted(p, expected) ==
  LET given == IF h[p].out = "STARTED" THEN expected ELSE h[p].out IN
  /\ h[p].num = Len(attempts)
  /\ IF Latest.out = "STARTED" THEN given = expected
     ELSE given = Latest.out /\ Latest.out \in {expected, "UNKNOWN"}

SettleVerification(p) ==
  IF verifs[h[p].vid].result = None
  THEN [verifs EXCEPT ![h[p].vid].result = h[p].res] ELSE verifs

InsertedByAny(p, num) ==                 \* mutant: whoever inserted it
  Len(attempts) = num /\ Latest.out = "STARTED"

\* The attempt is in the journal under the identities of the command
Inserted(p, num) ==
  Len(attempts) = num /\ Latest.out = "STARTED" /\ Latest.by = h[p].ns

\* evaluate_retry_compensation_after_verification_preconditions
RetryAfterAdmitted(p, next) ==
  /\ comp.state = "VERIFYING"
  /\ VerificationAdmitted(p)
  /\ next = Len(attempts) + 1
  /\ RetryAdmitted(Descriptor, None, "NOT_APPLIED")

\* _apply_retry_compensation_after_verification: a handler of the same message that
\* finds the attempt inserted goes on to call the provider for it as well
RetryAfterVerification(p) ==
  LET next == h[p].num + 1
      written == {ResultRow(p), Id(p, "attempt", next)}
      result == ProgressResult(h[p].ver, h[p].cver,
                               Inserted(p, next), RetryAfterAdmitted(p, next), written)
      called == [At(p, "call") EXCEPT !.ver = h[p].ver, !.cver = h[p].cver + 1, !.num = next]
  IN CASE result = "APPLIED" ->
            /\ Progress("EXECUTING")
            /\ attempts' = StartAttempt(p)
            /\ verifs' = SettleVerification(p)
            /\ used' = used \union written
            /\ Emit(<<"COMPENSATE">>, op.version)
            /\ Become(p, called)
            /\ UNCHANGED <<queue, landed, actions, crashes>>
       [] result = "ALREADY_APPLIED" -> Become(p, called) /\ Quiet
       [] result \in {"REJECTED", "CONFLICT", "DUPLICATE"} -> Answer(p, result)

Conclude(p) ==
  /\ h[p].pc = "conclude"
  /\ LET kind == ReconciledKind(h[p].res, h[p].out, h[p].num, h[p].cnt,
                                Descriptor, Obligation)
         expected == IF kind = "COMPENSATION_APPLIED" THEN "APPLIED" ELSE "NOT_APPLIED"
         decisive == kind \in {"COMPENSATION_APPLIED", "COMPENSATION_OUTCOME_FAILED"}
         written == {TransitionRow(p), IF kind = "COMPENSATION_ESCALATE"
                                       THEN Id(p, "manual", 0) ELSE ResultRow(p)}
         result == ApplyResult(kind, h[p].ver,
                     /\ ParentAgrees /\ RowMayFollow(kind)
                     /\ VerificationAdmitted(p)
                     /\ decisive => CompletionAdmitted(p, expected), written)
     IN IF kind = "RETRY_COMPENSATION_AFTER_VERIFICATION" THEN RetryAfterVerification(p)
        ELSE IF result = "APPLIED"
        THEN /\ MoveRows(kind)
             /\ attempts' = IF decisive THEN Complete(Len(attempts), expected) ELSE attempts
             /\ verifs' = SettleVerification(p)
             /\ used' = used \union written
             /\ EmitFor(kind)
             /\ Finish(p, "ack")
             /\ UNCHANGED <<queue, landed, actions, crashes>>
        ELSE Answer(p, result)

-----------------------------------------------------------------------------
(***************************************************************************)
(* The recovery of a COMPENSATION_UNKNOWN operation: verify the latest    *)
(* attempt if the effect can be verified, else retry it or give up.       *)
(***************************************************************************)
Unknown(p) ==
  /\ h[p].pc = "unknown"
  /\ Become(p, [h[p] EXCEPT !.pc = IF Descriptor.verifiable THEN "restart" ELSE "weigh",
                            !.num = Len(attempts) + 1, !.out = Latest.out])
  /\ Quiet

VerifiedNext(next) == next              \* mutant: off by one

\* The attempt that is verified when another one would come next
Verified(next) == next - 1

\* _unknown_start_verification: two transitions and two commands in one unit of work
Restart(p) ==
  /\ h[p].pc = "restart"
  /\ LET kind == "COMPENSATION_UNKNOWN_RETRY"
         written == {Id(p, "parent_retry", h[p].num), Id(p, "resume", h[p].num)}
         result == ApplyResult(kind, h[p].ver, ParentAgrees /\ RowMayFollow(kind), written)
     IN CASE result = "APPLIED" ->
               /\ op' = [op EXCEPT !.state = Target(kind), !.version = @ + 1]
               /\ comp' = [state |-> "VERIFYING", version |-> comp.version + 2]
               /\ verifs' = Append(verifs, [id |-> Id(p, "resume", h[p].num),
                                            attempt |-> Verified(h[p].num),
                                            version |-> op.version + 1, result |-> None])
               /\ used' = used \union written
               /\ Emit(<<"COMPENSATE", "VERIFY">>, op.version + 1)
               /\ Become(p, [At(p, "find") EXCEPT !.ver = op.version + 1,
                                                  !.cver = comp.version + 2])
               /\ UNCHANGED <<attempts, queue, landed, actions, crashes>>
          [] result = "ALREADY_APPLIED" -> Finish(p, "rejoin") /\ Quiet
          [] result \in {"REJECTED", "CONFLICT", "DUPLICATE"} -> Answer(p, result)

\* The move was made by another handler: load the operation and recover it
Rejoin(p) ==
  /\ h[p].pc = "rejoin"
  /\ Become(p, [At(p, "recover") EXCEPT !.ver = op.version])
  /\ Quiet

\* An escalation leaves the compensation row as it is
EscalateAs(p, kind) ==
  LET written == {Id(p, "complete", 0), Id(p, "manual", 0)}
      result == ApplyResult(kind, h[p].ver, ParentAgrees, written)
  IN CASE result = "APPLIED" ->
            /\ MoveRows(kind)
            /\ used' = used \union written
            /\ Finish(p, "ack")
            /\ UNCHANGED <<attempts, verifs, outbox, queue, landed, actions, crashes>>
       [] result = "ALREADY_APPLIED" -> Finish(p, "ack") /\ Quiet
       [] result \in {"REJECTED", "CONFLICT", "DUPLICATE"} -> Answer(p, result)

\* _unknown_without_verify; the replay window may have elapsed meanwhile
Weigh(p) ==
  /\ h[p].pc = "weigh"
  /\ \E elapsed \in BOOLEAN :
       LET outcome == IF h[p].out = "STARTED" THEN "UNKNOWN" ELSE h[p].out IN
       IF /\ RegistryRetrySafety(Descriptor, outcome, None, elapsed) = "SAFE"
          /\ MayTryAgain(h[p].num - 1, Obligation)
       THEN RetryAndClaim(p, "COMPENSATION_UNKNOWN_RETRY")
       ELSE EscalateAs(p, "COMPENSATION_UNKNOWN_ESCALATE")

-----------------------------------------------------------------------------
(***************************************************************************)
(* The operator.  Every action brings an action key of its own and the    *)
(* version of the operation that it was decided on.                       *)
(***************************************************************************)
NextAction(o, r) ==
  /\ h[o].pc = "idle" /\ actions < MaxActions
  /\ actions' = actions + 1
  /\ Become(o, [r EXCEPT !.ns = <<"action", actions + 1>>, !.ver = op.version])

\* start_compensation, one unit of work: the effect is compensatable, and a FAILED
\* execution left an artifact (evaluate_start_eligibility)
Start(o) ==
  /\ h[o].pc = "idle" /\ actions < MaxActions
  /\ op.state \in DOMAIN StartKind /\ comp.state = NoRow
  /\ op' = [op EXCEPT !.state = "COMPENSATING", !.version = @ + 1]
  /\ comp' = [state |-> "PENDING", version |-> 1]
  /\ EmitFor(StartKind[op.state])
  /\ used' = used \union {<<<<"action", actions + 1>>, "start", 0>>}
  /\ actions' = actions + 1
  /\ UNCHANGED <<attempts, verifs, queue, landed, h, crashes>>

\* retry_failed_compensation up to its unit of work: no budget is consulted
AskRetry(o) ==
  /\ op.state = "COMPENSATION_FAILED"
  /\ NextAction(o, [Idle EXCEPT !.pc = "reclaim", !.num = Len(attempts) + 1])
  /\ UNCHANGED <<rows, queue, landed, crashes>>

\* escalate_compensation up to its unit of work
AskEscalate(o) ==
  /\ op.state \in {"COMPENSATING", "COMPENSATION_UNKNOWN", "COMPENSATION_FAILED"}
  /\ NextAction(o, [Idle EXCEPT !.pc = "escalate", !.st = op.state])
  /\ UNCHANGED <<rows, queue, landed, crashes>>

Escalate(p) == h[p].pc = "escalate" /\ EscalateAs(p, ExhaustedKind[h[p].st])

\* CompensationService.recover and scan, which the library offers and no deployed
\* process calls
AskRecovery(o) ==
  /\ op.state \in {"COMPENSATING", "COMPENSATION_UNKNOWN"}
  /\ NextAction(o, [Idle EXCEPT !.pc = "recover"])
  /\ UNCHANGED <<rows, queue, landed, crashes>>

-----------------------------------------------------------------------------
(***************************************************************************)
(* recover_stranded: the relay republishes the latest command that is     *)
(* still required, or escalates after MaxRecoveries republications.       *)
(***************************************************************************)
Replays(cmd) ==
  Cardinality({e \in DOMAIN outbox : /\ outbox[e].replay
                                     /\ outbox[e].cmd = cmd
                                     /\ outbox[e].version = op.version})

Stranded == outbox # <<>> /\ op.state \in CommandStates(outbox[Len(outbox)].cmd)

Republish ==
  LET cmd == outbox[Len(outbox)].cmd IN
  /\ Stranded /\ Replays(cmd) < MaxRecoveries
  /\ Faults < MaxFaults
  /\ outbox' = Append(outbox, [cmd |-> cmd, version |-> op.version, replay |-> TRUE])
  /\ UNCHANGED <<op, comp, attempts, verifs, used, queue, landed, h, actions, crashes>>

\* escalate_messaging_recovery
Exhaust ==
  /\ Stranded /\ Replays(outbox[Len(outbox)].cmd) >= MaxRecoveries
  /\ op' = [op EXCEPT !.state = Target(ExhaustedKind[@]), !.version = @ + 1]
  /\ UNCHANGED <<comp, attempts, verifs, used, outbox, queue, landed, h, actions, crashes>>

-----------------------------------------------------------------------------
Step(p) ==
  \/ Execute(p) \/ Dispatch(p) \/ Peek(p) \/ Claim(p) \/ Call(p)
  \/ Outcome(p) \/ Reclaim(p)
  \/ Recover(p) \/ Recovering(p) \/ Inspect(p) \/ Leftover(p) \/ Pending(p)
  \/ Find(p) \/ Verify(p) \/ Gather(p) \/ Conclude(p)
  \/ Unknown(p) \/ Restart(p) \/ Weigh(p) \/ Rejoin(p)
  \/ Escalate(p)

Next ==
  \/ \E w \in Workers : Reply(w) \/ \E e \in DOMAIN outbox : Deliver(w, e)
  \/ \E p \in Processes : Step(p) \/ Crash(p)
  \/ \E o \in Operators : Start(o) \/ AskRetry(o) \/ AskEscalate(o) \/ AskRecovery(o)
  \/ Republish
  \/ Exhaust

Spec == Init /\ [][Next]_vars

-----------------------------------------------------------------------------
(***************************************************************************)
(* Properties                                                             *)
(***************************************************************************)

\* Types of the rows, of the broker's view and of the handlers; an outbox row and
\* its message come together
TypeOK ==
  /\ op \in [state : OperationStates, version : Nat, effect : Effects]
  /\ comp \in [state : CompensationStates \union {NoRow}, version : Nat]
  /\ attempts \in Seq([by : Namespaces, out : AttemptStates])
  /\ verifs \in Seq([id : Namespaces \X {"verification", "resume"} \X Nat,
                     attempt : DOMAIN attempts, version : Nat,
                     result : VerificationResults \union {None}])
  /\ used \subseteq Namespaces \X Roles \X Nat
  /\ outbox \in Seq([cmd : Commands, version : Nat, replay : BOOLEAN])
  /\ queue \in [row : 0..Len(outbox), tries : 0..MaxDeliveries, done : BOOLEAN]
  /\ landed \in BOOLEAN
  /\ h \in [Processes -> Handlers]
  /\ actions \in 0..MaxActions /\ crashes \in 0..MaxFaults

\* Until an escalation takes the operation out of its hands, the compensation row
\* and its parent agree, an EXECUTING compensation has a STARTED attempt, and a
\* VERIFYING one has a pending verification: that of the latest attempt at the
\* operation's present version.  Four kinds of progress change the rows under an
\* unchanged version, so no version check alone assures this
RowsAgree ==
  comp.state # NoRow /\ op.state # "MANUAL_INTERVENTION" =>
    /\ ParentState[comp.state] = op.state
    /\ comp.state = "EXECUTING" => Latest.out = "STARTED"
    /\ comp.state = "VERIFYING" =>
         /\ verifs[Len(verifs)].result = None
         /\ verifs[Len(verifs)].attempt = Len(attempts)
         /\ verifs[Len(verifs)].version = op.version

\* A settled compensation is settled by durable evidence about its latest attempt,
\* and evidence to the contrary is not in the journal
SettledByEvidence ==
  LET verified(result) == \E i \in DOMAIN verifs : /\ verifs[i].attempt = Len(attempts)
                                                   /\ verifs[i].result = result
  IN /\ op.state = "COMPENSATED" =>
          /\ Latest.out # "NOT_APPLIED" /\ ~verified("NOT_APPLIED")
          /\ \/ Descriptor.immediate /\ ~Obligation.verify
             \/ verified("APPLIED")
     /\ op.state = "COMPENSATION_FAILED" =>
          /\ Latest.out # "APPLIED" /\ ~verified("APPLIED")
          /\ Latest.out = "NOT_APPLIED" \/ verified("NOT_APPLIED")

\* Two handlers that call the provider for the same attempt handle the same message:
\* neither another message, nor a republished one, nor an operator can make a second
\* caller of an attempt in flight
CallersShareMessage ==
  LET calling == {p \in Processes : h[p].pc \in {"call", "outcome"} /\ ~h[p].old} IN
  \A p, q \in calling : h[p].num = h[q].num => h[p].ns = h[q].ns

\* No automatic attempt is made beyond what the policy allows, and each operator
\* action buys at most one attempt, whatever is redelivered, raced or crashed
AttemptsAreAllowed ==
  LET extra == {i \in DOMAIN attempts : i > ExecutionCap(Obligation)} IN
  \A i \in extra : /\ attempts[i].by[1] = "action"
                   /\ \A j \in extra \ {i} : attempts[j].by # attempts[i].by

\* Another attempt starts only when the journal shows that the one before was not
\* applied, or when the effect is idempotent and cannot be verified
NoBlindAttempt ==
  [][\A i \in DOMAIN attempts' \ DOMAIN attempts : i > 1 =>
       \/ attempts'[i - 1].out = "NOT_APPLIED"
       \/ \E v \in DOMAIN verifs' :
            verifs'[v].attempt = i - 1 /\ verifs'[v].result = "NOT_APPLIED"
       \/ ~Descriptor.verifiable /\ Descriptor.mode # "NONE"]_vars

\* A completed attempt keeps its outcome and a verification its result
EvidenceIsFinal ==
  [][/\ \A i \in DOMAIN attempts :
          attempts[i].out # "STARTED" => attempts'[i] = attempts[i]
     /\ \A i \in DOMAIN verifs :
          verifs[i].result # None => verifs'[i] = verifs[i]]_vars

Phase ==
  CASE comp.state = NoRow                 -> "absent"
    [] comp.state # NoRow /\ op.state \in {"COMPENSATING", "COMPENSATION_UNKNOWN"} -> "open"
    [] op.state = "COMPENSATED"           -> "compensated"
    [] op.state = "COMPENSATION_FAILED"   -> "failed"
    [] comp.state # NoRow /\ op.state = "MANUAL_INTERVENTION" -> "manual"

\* The detailed handlers keep the promise made to whoever asks for a compensation
Promise == INSTANCE CompensationPromise WITH
             phase  <- Phase,
             tries  <- Len(attempts),
             landed <- landed

KeepsPromise == Promise!Spec
=============================================================================
