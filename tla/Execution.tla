------------------------------ MODULE Execution ------------------------------
(***************************************************************************)
(* The execution and the automatic recovery of one operation: the journal *)
(* rows of the operation in PostgreSQL, the workers that handle EXECUTE   *)
(* and VERIFY messages, the provider, and the recovery of stranded work.  *)
(*                                                                         *)
(* A handler runs in several units of work with the provider called in    *)
(* between; each unit of work, each read outside one and each provider    *)
(* call is a step, and any other worker, a crash or the late landing of a *)
(* provider request may come between two steps.  Handlers of different    *)
(* operations share no row, so one operation is enough.                   *)
(***************************************************************************)
EXTENDS Decisions, Sequences, FiniteSets

CONSTANTS
  Workers,         \* the worker processes
  Effects,         \* the declared capabilities of the effects the registry knows
  Obligation,      \* the policy's obligations
  MaxDeliveries,   \* max_deliver of the consumer, and the worker's max_deliveries
  MaxRecoveries,   \* republications of one command at one operation version
  StackLimit,      \* nested re-dispatches before the interpreter gives up
  MaxCrashes,      \* bound: worker crashes in a behaviour
  MaxReplays,      \* bound: republications in a behaviour
  LateLanding      \* whether a request may reach the provider after its handler gave up

ASSUME ExecutionAssumption ==
  /\ Effects \subseteq Descriptors
  /\ Obligation \in Obligations(Nat)
  /\ MaxDeliveries \in Nat \ {0}
  /\ MaxRecoveries \in Nat \ {0}
  /\ StackLimit \in Nat
  /\ MaxCrashes \in Nat
  /\ MaxReplays \in Nat
  /\ LateLanding \in BOOLEAN

VARIABLES
  op,         \* the operation row: its state and version, and its effect
  attempts,   \* outcome of each attempt row, in order; "STARTED" until completed
  verifs,     \* result of each verification row, in order; None until completed
  audit,      \* identities <<outbox event, role>> of the transition audit rows
  outbox,     \* the outbox rows, in order of creation
  queue,      \* the broker's view of the message of each outbox row
  world,      \* what became of the provider request of each attempt
  h,          \* the handler each worker is running
  crashes     \* crashes so far

vars == <<op, attempts, verifs, audit, outbox, queue, world, h, crashes>>
journal == <<op, attempts, verifs, audit, outbox>>

AttemptStates == Outcomes \union {"STARTED"}
Requests == {"UNSENT", "EN_ROUTE", "LANDED", "DROPPED"}
Roles == {"claim", "execute", "recover", "start", "complete"}

PCs == {"idle", "load", "execute", "claim", "call", "flight", "evidence", "apply",
        "recover", "inspect", "abandon", "recovery", "start", "rejoin", "cycle",
        "verify", "record", "gather", "conclude", "weigh", "resolve",
        "overflow", "ack", "nak"}

Handlers == [pc : PCs, ev : Nat, n : Nat, exp : Nat, ver : Nat, num : Nat,
             out : AttemptStates \union {None}, vid : Nat,
             res : VerificationResults \union {None}, cnt : Nat,
             role : {None, "execute", "recover"}, depth : Nat]

Idle == [pc |-> "idle", ev |-> 0, n |-> 0, exp |-> 0, ver |-> 0, num |-> 0,
         out |-> None, vid |-> 0, res |-> None, cnt |-> 0, role |-> None, depth |-> 0]

\* The operation has just been allowed by policy: version 2, one EXECUTE event
Init ==
  /\ op \in [state : {"READY"}, version : {2}, effect : Effects]
  /\ attempts = <<>> /\ verifs = <<>> /\ world = <<>>
  /\ audit = {}
  /\ outbox = <<[cmd |-> "EXECUTE", version |-> 2, replay |-> FALSE]>>
  /\ queue = <<[tries |-> 0, done |-> FALSE]>>
  /\ h = [w \in Workers |-> Idle]
  /\ crashes = 0

-----------------------------------------------------------------------------
(***************************************************************************)
(* The transition service.  A message identifies its work: every row that *)
(* a handler inserts has an identity derived from its outbox event and a  *)
(* role, so a role that was used once for an event raises a duplicate key.*)
(***************************************************************************)
UsedNever(row) == FALSE                 \* mutant: identities are not unique

Used(row) == row \in audit

ApplyResult(kind, version, precondition, row) ==
  CASE op.version = version + 1 ->
         IF op.state = Target(kind) THEN "ALREADY_APPLIED" ELSE "REJECTED"
    [] op.version \notin {version, version + 1} -> "CONFLICT"
    [] op.version = version ->
         IF ~(/\ op.state = Source(kind)
              /\ op.state \notin AbsoluteTerminal
              /\ Target(kind) \in LegalNext[op.state]
              /\ precondition) THEN "REJECTED"
         ELSE IF Used(row) THEN "DUPLICATE" ELSE "APPLIED"

\* The rows every admitted transition writes in its one unit of work
Commit(kind, row) ==
  /\ op' = [op EXCEPT !.state = Target(kind), !.version = @ + 1]
  /\ audit' = audit \union {row}
  /\ IF OutboxCommand(kind) = NoCommand
     THEN UNCHANGED <<outbox, queue>>
     ELSE /\ outbox' = Append(outbox, [cmd |-> OutboxCommand(kind),
                                       version |-> op.version + 1, replay |-> FALSE])
          /\ queue' = Append(queue, [tries |-> 0, done |-> FALSE])

\* registry.descriptor of the operation's effect
Descriptor == op.effect

Become(w, r) == h' = [h EXCEPT ![w] = r]

\* The handler at pc with what it no longer uses forgotten
At(w, pc) == [Idle EXCEPT !.pc = pc, !.ev = h[w].ev, !.n = h[w].n]

\* The handler at pc with all it knows
Goto(w, pc) == Become(w, [h[w] EXCEPT !.pc = pc])

Finish(w, pc) == Become(w, At(w, pc))

\* No row is written: the answer the worker gives the broker
Answer(w, result) ==
  /\ Finish(w, IF result \in {"CONFLICT", "DUPLICATE"} THEN "nak" ELSE "ack")
  /\ UNCHANGED <<journal, queue, world, crashes>>

\* An attempt that is still STARTED counts as UNKNOWN
LatestOutcome == IF attempts[Len(attempts)] = "STARTED" THEN "UNKNOWN"
                 ELSE attempts[Len(attempts)]

CompletedVerifications == Cardinality({i \in DOMAIN verifs : verifs[i] # None})

-----------------------------------------------------------------------------
(***************************************************************************)
(* The broker: one message outstanding (max_ack_pending = 1).  A message  *)
(* whose handler is slow is delivered again when ack_wait runs out.       *)
(***************************************************************************)
Outstanding(e) == queue[e].tries \in 1..(MaxDeliveries - 1) /\ ~queue[e].done

DeliverForever(w, e) ==                 \* mutant: no limit of deliveries
  /\ h[w].pc = "idle" /\ ~queue[e].done /\ queue[e].tries <= MaxDeliveries
  /\ queue' = [queue EXCEPT ![e].tries = @ + 1]
  /\ Become(w, [Idle EXCEPT !.pc = "load", !.ev = e, !.n = queue[e].tries + 1])
  /\ UNCHANGED <<journal, world, crashes>>

Deliver(w, e) ==
  /\ h[w].pc = "idle"
  /\ ~queue[e].done /\ queue[e].tries < MaxDeliveries
  /\ \A f \in DOMAIN queue \ {e} : ~Outstanding(f)
  /\ queue' = [queue EXCEPT ![e].tries = @ + 1]
  /\ Become(w, [Idle EXCEPT !.pc = "load", !.ev = e, !.n = queue[e].tries + 1])
  /\ UNCHANGED <<journal, world, crashes>>

Ack(w) ==
  /\ h[w].pc = "ack"
  /\ queue' = [queue EXCEPT ![h[w].ev].done = TRUE]
  /\ Become(w, Idle)
  /\ UNCHANGED <<journal, world, crashes>>

\* _retry_or_term: the last delivery is terminated and goes to quarantine
Nak(w) ==
  /\ h[w].pc = "nak"
  /\ queue' = IF h[w].n >= MaxDeliveries
              THEN [queue EXCEPT ![h[w].ev].done = TRUE]
              ELSE queue
  /\ Become(w, Idle)
  /\ UNCHANGED <<journal, world, crashes>>

\* A crash answers nothing: the broker will deliver the message again
Crash(w) ==
  /\ crashes < MaxCrashes
  /\ h[w].pc # "idle"
  /\ h[w].pc = "flight" => LateLanding \/ world[h[w].num] # "EN_ROUTE"
  /\ crashes' = crashes + 1
  /\ Become(w, Idle)
  /\ UNCHANGED <<journal, queue, world>>

\* RecursionError leaves WorkHandler.handle and ends the process, which restarts
Overflow(w) ==
  /\ h[w].pc = "overflow"
  /\ Become(w, Idle)
  /\ UNCHANGED <<journal, queue, world, crashes>>

\* WorkHandler: load the operation and dispatch on command and state
Load(w) ==
  /\ h[w].pc = "load"
  /\ LET c == outbox[h[w].ev].cmd
         next == CASE c = "EXECUTE" /\ op.state = "READY"     -> "execute"
                   [] c = "EXECUTE" /\ op.state = "EXECUTING" -> "recover"
                   [] c = "VERIFY" /\ op.state \in {"EXECUTING", "UNKNOWN", "VERIFYING"}
                                                              -> "recovery"
                   [] OTHER                                   -> "ack"
     IN Become(w, [At(w, next) EXCEPT !.exp = IF next = "execute" THEN op.version ELSE 0])
  /\ UNCHANGED <<journal, queue, world, crashes>>

-----------------------------------------------------------------------------
(***************************************************************************)
(* EXECUTE: claim the operation, call the provider, persist its evidence, *)
(* apply the transition the evidence asks for.                            *)
(***************************************************************************)

\* execute_operation and _dispatch: entered again after a lost race for the claim
Execute(w) ==
  /\ h[w].pc = "execute"
  /\ CASE op.state = "READY"     -> Goto(w, "claim")
       [] op.state = "EXECUTING" ->
            Become(w, [At(w, "inspect") EXCEPT !.ver = op.version,
                         !.num = Len(attempts), !.role = "execute"])
       [] OTHER                  -> Finish(w, "ack")
  /\ UNCHANGED <<journal, queue, world, crashes>>

\* _claim_and_execute: the claim expects the version the worker loaded first,
\* also when the operation was loaded again since
Claim(w) ==
  /\ h[w].pc = "claim"
  /\ LET row == <<h[w].ev, "claim">>
         result == ApplyResult("CLAIM_EXECUTION", h[w].exp, TRUE, row)
     IN CASE result = "APPLIED" ->
               /\ Commit("CLAIM_EXECUTION", row)
               /\ attempts' = Append(attempts, "STARTED")
               /\ world' = Append(world, "UNSENT")
               /\ Become(w, [At(w, "call") EXCEPT !.ver = op.version + 1,
                               !.num = Len(attempts) + 1, !.role = "execute"])
               /\ UNCHANGED <<verifs, crashes>>
          [] result \in {"CONFLICT", "ALREADY_APPLIED"} ->
               /\ Become(w, [h[w] EXCEPT
                              !.pc = IF h[w].depth < StackLimit
                                     THEN "execute" ELSE "overflow",
                              !.depth = h[w].depth + 1])
               /\ UNCHANGED <<journal, queue, world, crashes>>
          [] result \in {"REJECTED", "DUPLICATE"} -> Answer(w, result)

\* adapter.execute: the request leaves; it reaches the provider or does not, and
\* the call returns with evidence that is true of it, or with none
Call(w) ==
  /\ h[w].pc = "call"
  /\ world' = [world EXCEPT ![h[w].num] = "EN_ROUTE"]
  /\ Goto(w, "flight")
  /\ UNCHANGED <<journal, queue, crashes>>

Settle(i, fate) ==
  /\ world[i] = "EN_ROUTE"
  /\ world' = [world EXCEPT ![i] = fate]
  /\ UNCHANGED <<journal, queue, h, crashes>>

Evidence(fate) ==
  CASE fate = "LANDED"   -> {"APPLIED", "UNKNOWN"}
    [] fate = "DROPPED"  -> {"NOT_APPLIED", "UNKNOWN"}
    [] fate = "EN_ROUTE" -> IF LateLanding THEN {"UNKNOWN"} ELSE {}
    [] fate = "UNSENT"   -> {}

Return(w) ==
  /\ h[w].pc = "flight"
  /\ \E outcome \in Evidence(world[h[w].num]) :
       Become(w, [h[w] EXCEPT !.pc = "evidence", !.out = outcome])
  /\ UNCHANGED <<journal, queue, world, crashes>>

\* persist_attempt_evidence: a unit of work of its own, refused unless STARTED
PersistEvidence(w) ==
  /\ h[w].pc = "evidence"
  /\ IF attempts[h[w].num] = "STARTED"
     THEN /\ attempts' = [attempts EXCEPT ![h[w].num] = h[w].out]
          /\ Goto(w, "apply")
          /\ UNCHANGED <<op, verifs, audit, outbox, queue, world, crashes>>
     ELSE Answer(w, "DUPLICATE")

\* The evidence must be that of the latest attempt and agree with its row
AttemptMatches(num, outcome) ==
  num = Len(attempts) /\ attempts[num] \in {"STARTED", outcome}

\* apply_execution_kind
ApplyExecution(w) ==
  /\ h[w].pc = "apply"
  /\ LET verdict == RegistryRetrySafety(Descriptor, h[w].out, None, FALSE)
         kind == ExecutionKind(h[w].out, Descriptor, Obligation, h[w].num, verdict)
         row == <<h[w].ev, h[w].role>>
         result == ApplyResult(kind, h[w].ver,
                     /\ AttemptMatches(h[w].num, h[w].out)
                     /\ kind = "EXECUTION_NOT_APPLIED_RETRY"
                          => RetryAdmitted(Descriptor, "NOT_APPLIED", None), row)
     IN IF result = "APPLIED"
        THEN /\ Commit(kind, row)
             /\ attempts' = [attempts EXCEPT ![h[w].num] = h[w].out]
             /\ verifs' = IF kind = "EXECUTION_REQUIRE_VERIFICATION"
                          THEN Append(verifs, None) ELSE verifs
             /\ Finish(w, "ack")
             /\ UNCHANGED <<world, crashes>>
        ELSE Answer(w, result)

-----------------------------------------------------------------------------
(***************************************************************************)
(* The recovery of an EXECUTING operation: its worker may be gone, or may *)
(* still be waiting for the provider.                                     *)
(***************************************************************************)

\* recover_operation
Recover(w) ==
  /\ h[w].pc = "recover"
  /\ IF op.state = "EXECUTING"
     THEN Become(w, [At(w, "inspect") EXCEPT !.ver = op.version,
                       !.num = Len(attempts), !.role = "recover"])
     ELSE Finish(w, "ack")
  /\ UNCHANGED <<journal, queue, world, crashes>>

InspectAndCall(w) ==                    \* mutant: recovery calls the provider again
  /\ h[w].pc = "inspect"
  /\ IF attempts[h[w].num] = "STARTED" THEN Goto(w, "call")
     ELSE Become(w, [h[w] EXCEPT !.pc = "apply", !.out = attempts[h[w].num]])
  /\ UNCHANGED <<journal, queue, world, crashes>>

\* _latest_attempt, read after the operation
Inspect(w) ==
  /\ h[w].pc = "inspect"
  /\ LET row == attempts[h[w].num]
     IN IF row = "STARTED"
        THEN IF h[w].role = "recover" THEN Goto(w, "abandon") ELSE Finish(w, "ack")
        ELSE Become(w, [h[w] EXCEPT !.pc = "apply", !.out = row])
  /\ UNCHANGED <<journal, queue, world, crashes>>

\* _unknown_without_completing: the attempt stays STARTED
Abandon(w) ==
  /\ h[w].pc = "abandon"
  /\ LET row == <<h[w].ev, "recover">>
         result == ApplyResult("EXECUTION_UNKNOWN", h[w].ver,
                               attempts[Len(attempts)] = "STARTED", row)
     IN IF result = "APPLIED"
        THEN /\ Commit("EXECUTION_UNKNOWN", row)
             /\ Finish(w, "ack")
             /\ UNCHANGED <<attempts, verifs, world, crashes>>
        ELSE Answer(w, result)

-----------------------------------------------------------------------------
(***************************************************************************)
(* VERIFY: start a verification of an UNKNOWN effect, ask the provider,   *)
(* persist the result, reconcile it with the attempts, apply.             *)
(***************************************************************************)

\* recover_unknown_operation
Recovery(w) ==
  /\ h[w].pc = "recovery"
  /\ CASE op.state = "EXECUTING" -> Finish(w, "recover")
       [] op.state = "VERIFYING" ->
            Become(w, [At(w, "cycle") EXCEPT !.ver = op.version, !.vid = Len(verifs)])
       [] op.state = "UNKNOWN" ->
            Become(w, [At(w, IF Descriptor.verifiable THEN "start" ELSE "weigh")
                         EXCEPT !.ver = op.version])
       [] OTHER -> Finish(w, "ack")
  /\ UNCHANGED <<journal, queue, world, crashes>>

\* _unknown_start_verification
StartVerification(w) ==
  /\ h[w].pc = "start"
  /\ LET row == <<h[w].ev, "start">>
         result == ApplyResult("UNKNOWN_START_VERIFICATION", h[w].ver, TRUE, row)
     IN CASE result = "APPLIED" ->
               /\ Commit("UNKNOWN_START_VERIFICATION", row)
               /\ verifs' = Append(verifs, None)
               /\ Become(w, [At(w, "cycle") EXCEPT !.ver = op.version + 1,
                                                   !.vid = Len(verifs) + 1])
               /\ UNCHANGED <<attempts, world, crashes>>
          [] result = "ALREADY_APPLIED" ->
               /\ Finish(w, "rejoin")
               /\ UNCHANGED <<journal, queue, world, crashes>>
          [] OTHER -> Answer(w, result)

\* Another handler started the verification: reload and take part in its cycle
Rejoin(w) ==
  /\ h[w].pc = "rejoin"
  /\ IF op.state = "VERIFYING"
     THEN Become(w, [At(w, "cycle") EXCEPT !.ver = op.version, !.vid = Len(verifs)])
     ELSE Finish(w, "ack")
  /\ UNCHANGED <<journal, queue, world, crashes>>

\* run_verifying_cycle: a result already persisted is not asked for again
Cycle(w) ==
  /\ h[w].pc = "cycle"
  /\ LET result == verifs[h[w].vid]
     IN IF result = None THEN Goto(w, "verify")
        ELSE Become(w, [h[w] EXCEPT !.pc = "gather", !.res = result])
  /\ UNCHANGED <<journal, queue, world, crashes>>

\* adapter.verify: true of the provider now, or inconclusive
Verify(w) ==
  /\ h[w].pc = "verify"
  /\ LET truth == IF \E i \in DOMAIN world : world[i] = "LANDED"
                  THEN "APPLIED" ELSE "NOT_APPLIED"
     IN \E result \in {truth, "UNKNOWN", "UNSUPPORTED"} :
          Become(w, [h[w] EXCEPT !.pc = "record", !.res = result])
  /\ UNCHANGED <<journal, queue, world, crashes>>

RecordLast(w) ==                        \* mutant: the last result stays
  /\ h[w].pc = "record"
  /\ verifs' = [verifs EXCEPT ![h[w].vid] = h[w].res]
  /\ Goto(w, "gather")
  /\ UNCHANGED <<op, attempts, audit, outbox, queue, world, crashes>>

\* persist_verification_result: the first result stays; the same outcome is
\* accepted again, a different one is an infrastructure failure
Record(w) ==
  /\ h[w].pc = "record"
  /\ LET present == verifs[h[w].vid]
     IN CASE present = None ->
               /\ verifs' = [verifs EXCEPT ![h[w].vid] = h[w].res]
               /\ Goto(w, "gather")
               /\ UNCHANGED <<op, attempts, audit, outbox, queue, world, crashes>>
          [] present # None /\ OutcomeOf(present) = OutcomeOf(h[w].res) ->
               /\ Goto(w, "gather")
               /\ UNCHANGED <<journal, queue, world, crashes>>
          [] OTHER -> Answer(w, "DUPLICATE")

\* _apply_verification_kind reads attempts and verifications before it decides
Gather(w) ==
  /\ h[w].pc = "gather"
  /\ Become(w, [h[w] EXCEPT !.pc = "conclude", !.num = Len(attempts),
                            !.out = LatestOutcome, !.cnt = CompletedVerifications])
  /\ UNCHANGED <<journal, queue, world, crashes>>

\* The result must be that of the latest verification and agree with its row
ResultMatches(vid, result) ==
  /\ vid = Len(verifs)
  /\ verifs[vid] = None \/ OutcomeOf(verifs[vid]) = OutcomeOf(result)

Conclude(w) ==
  /\ h[w].pc = "conclude"
  /\ LET kind == VerificationKind(h[w].res, h[w].out, h[w].num, h[w].cnt,
                                  Descriptor, Obligation)
         row == <<h[w].ev, "complete">>
         result == ApplyResult(kind, h[w].ver,
                     /\ ResultMatches(h[w].vid, h[w].res)
                     /\ kind = "VERIFICATION_NOT_APPLIED_RETRY"
                          => RetryAdmitted(Descriptor, None, "NOT_APPLIED"), row)
     IN IF result = "APPLIED"
        THEN /\ Commit(kind, row)
             /\ verifs' = IF verifs[h[w].vid] = None
                          THEN [verifs EXCEPT ![h[w].vid] = h[w].res] ELSE verifs
             /\ Finish(w, "ack")
             /\ UNCHANGED <<attempts, world, crashes>>
        ELSE Answer(w, result)

\* _unknown_without_verify reads the attempts, then retries or gives up
Weigh(w) ==
  /\ h[w].pc = "weigh"
  /\ Become(w, [h[w] EXCEPT !.pc = "resolve", !.num = Len(attempts),
                            !.out = LatestOutcome])
  /\ UNCHANGED <<journal, queue, world, crashes>>

Resolve(w) ==
  /\ h[w].pc = "resolve"
  /\ \E elapsed \in BOOLEAN :
     LET kind == UnverifiableKind(h[w].out, h[w].num, elapsed, Descriptor, Obligation)
         row == <<h[w].ev, "complete">>
         result == ApplyResult(kind, h[w].ver,
                     kind = "UNKNOWN_SAFE_RETRY"
                       => RetryAdmitted(Descriptor, h[w].out, None), row)
     IN IF result = "APPLIED"
        THEN /\ Commit(kind, row)
             /\ Finish(w, "ack")
             /\ UNCHANGED <<attempts, verifs, world, crashes>>
        ELSE Answer(w, result)

-----------------------------------------------------------------------------
(***************************************************************************)
(* recover_stranded: the relay looks for published work that is old and   *)
(* still required, and republishes the latest command of the operation,   *)
(* or escalates after MaxRecoveries republications at this version.       *)
(***************************************************************************)
Replays(cmd) ==
  Cardinality({e \in DOMAIN outbox : /\ outbox[e].replay
                                     /\ outbox[e].cmd = cmd
                                     /\ outbox[e].version = op.version})

Stranded(e) == e = Len(outbox) /\ op.state \in CommandStates(outbox[e].cmd)

Republish ==
  LET e == Len(outbox) IN
  /\ Cardinality({f \in DOMAIN outbox : outbox[f].replay}) < MaxReplays
  /\ Stranded(e) /\ Replays(outbox[e].cmd) < MaxRecoveries
  /\ outbox' = Append(outbox, [cmd |-> outbox[e].cmd, version |-> op.version,
                               replay |-> TRUE])
  /\ queue' = Append(queue, [tries |-> 0, done |-> FALSE])
  /\ UNCHANGED <<op, attempts, verifs, audit, world, h, crashes>>

\* escalate_messaging_recovery
Exhaust ==
  LET e == Len(outbox) IN
  /\ Stranded(e) /\ Replays(outbox[e].cmd) >= MaxRecoveries
  /\ op.state \in DOMAIN ExhaustedKind
  /\ op' = [op EXCEPT !.state = Target(ExhaustedKind[@]), !.version = @ + 1]
  /\ UNCHANGED <<attempts, verifs, audit, outbox, queue, world, h, crashes>>

-----------------------------------------------------------------------------
Step(w) ==
  \/ Load(w) \/ Execute(w) \/ Claim(w) \/ Call(w) \/ Return(w)
  \/ PersistEvidence(w) \/ ApplyExecution(w)
  \/ Recover(w) \/ Inspect(w) \/ Abandon(w)
  \/ Recovery(w) \/ StartVerification(w) \/ Rejoin(w) \/ Cycle(w) \/ Verify(w)
  \/ Record(w) \/ Gather(w) \/ Conclude(w) \/ Weigh(w) \/ Resolve(w)
  \/ Ack(w) \/ Nak(w) \/ Overflow(w)

Provider == \E i \in DOMAIN world : \E fate \in {"LANDED", "DROPPED"} : Settle(i, fate)

Next ==
  \/ \E w \in Workers : Step(w) \/ Crash(w) \/ \E e \in DOMAIN queue : Deliver(w, e)
  \/ Provider
  \/ Republish
  \/ Exhaust

Spec == Init /\ [][Next]_vars

(***************************************************************************)
(* A running handler goes on, the provider answers, and the relay looks   *)
(* for stranded work in every round of its loop.  Nothing is asked of the *)
(* broker: any message may be lost.                                       *)
(***************************************************************************)
FairSpec ==
  /\ Spec
  /\ \A w \in Workers : WF_vars(Step(w))
  /\ WF_vars(Provider)
  /\ WF_vars(Republish \/ Exhaust)

-----------------------------------------------------------------------------
(***************************************************************************)
(* Properties                                                             *)
(***************************************************************************)

JournalOK ==
  /\ op \in [state : OperationStates, version : Nat, effect : Effects]
  /\ attempts \in Seq(AttemptStates)
  /\ verifs \in Seq(VerificationResults \union {None})
  /\ audit \subseteq Nat \X Roles
  /\ outbox \in Seq([cmd : Commands, version : Nat, replay : BOOLEAN])

\* Types of the rows, of the broker's view and of the handlers; an attempt row
\* and its provider request come together, as do an outbox row and its message
TypeOK ==
  /\ JournalOK
  /\ queue \in Seq([tries : 0..MaxDeliveries, done : BOOLEAN])
  /\ Len(queue) = Len(outbox)
  /\ world \in Seq(Requests)
  /\ Len(world) = Len(attempts)
  /\ h \in [Workers -> Handlers]
  /\ crashes \in Nat

Unresolved == {"READY", "EXECUTING", "VERIFYING", "UNKNOWN"}

\* Whatever is redelivered, raced or crashed, the operation is claimed no more
\* often than policy allows, although a claim itself checks no budget: the budget
\* is kept by the decisions that make the operation READY again
AttemptBudget == Len(attempts) <= ExecutionCap(Obligation)

\* Verification of an unknown effect does not go on for ever: there are no more
\* verification rows than the recovery budget plus one for each further attempt
RecoveryBudget ==
  Len(verifs) <= RecoveryCap(Obligation) + ExecutionCap(Obligation) - 1

\* One message claims the operation at most once: every attempt has a claiming
\* message of its own, however often the message is delivered
AttemptPerMessage ==
  Cardinality({row \in audit : row[2] = "claim"}) = Len(attempts)

\* A handler about to call or calling the provider is the only one that does so
\* for its attempt, and the journal shows that attempt STARTED
OneCallerPerAttempt ==
  \A w \in Workers : h[w].pc \in {"call", "flight"} =>
    /\ attempts[h[w].num] = "STARTED"
    /\ \A v \in Workers \ {w} :
         h[v].pc \in {"call", "flight", "evidence"} => h[v].num # h[w].num

\* While the operation is not resolved, the last command in its outbox is one that
\* still applies to its state: the scan for stranded work always finds it
CoveredWork ==
  op.state \in Unresolved => op.state \in CommandStates(outbox[Len(outbox)].cmd)

\* Evidence is never rewritten: a completed attempt keeps its outcome and a
\* verification row its result, whoever comes later with other evidence
EvidenceIsFinal ==
  [][/\ \A i \in DOMAIN attempts :
          attempts[i] # "STARTED" => attempts'[i] = attempts[i]
     /\ \A i \in DOMAIN verifs : verifs[i] # None => verifs'[i] = verifs[i]]_vars

\* The operation is made READY again, or FAILED, only on durable evidence that the
\* effect is not there: that of its latest attempt or of its latest verification
NotAppliedIsProven ==
  [][op'.state \in {"READY", "FAILED"} /\ op.state # op'.state =>
       \/ attempts'[Len(attempts')] = "NOT_APPLIED"
       \/ op.state = "VERIFYING" /\ verifs'[Len(verifs')] = "NOT_APPLIED"]_vars

\* The effect is carried out at most once, and not at all for a FAILED operation
\* (one worker, and no request that lands after its handler gave up)
AtMostOnce ==
  /\ Cardinality({i \in DOMAIN world : world[i] = "LANDED"}) <= 1
  /\ op.state = "FAILED" => \A i \in DOMAIN world : world[i] # "LANDED"

\* Recovery ends: even if messages are lost for ever, the operation leaves the
\* states in which automatic work remains
EventuallyResolved == <>[](op.state \notin Unresolved)

\* The detailed handlers keep the promise made to the submitter
Phase ==
  CASE op.state = "READY"                      -> "ready"
    [] op.state = "EXECUTING"                  -> "trying"
    [] op.state \in {"VERIFYING", "UNKNOWN"}   -> "doubtful"
    [] op.state = "SUCCEEDED"                  -> "succeeded"
    [] op.state = "FAILED"                     -> "failed"
    [] OTHER                                   -> "manual"

Promise == INSTANCE OperationPromise WITH
             Budget <- ExecutionCap(Obligation),
             phase  <- Phase,
             tries  <- Len(attempts),
             landed <- \E i \in DOMAIN world : world[i] = "LANDED"

KeepsPromise == Promise!Spec

-----------------------------------------------------------------------------
\* What the documents say and the code does not keep

\* No handler re-dispatches itself until the interpreter's stack is exhausted
ClaimTerminates == \A w \in Workers : h[w].pc # "overflow"

\* Contradictory durable evidence does not stay behind in a FAILED operation once
\* every handler has returned
FailureUncontradicted ==
  op.state = "FAILED" /\ (\A w \in Workers : h[w].pc = "idle") =>
    \A i \in DOMAIN attempts : attempts[i] # "APPLIED"
=============================================================================
