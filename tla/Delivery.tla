------------------------------- MODULE Delivery -------------------------------
(***************************************************************************)
(* How work reaches the worker: outbox rows written with the transitions, *)
(* relays that publish them and look for stranded work, the JetStream     *)
(* work stream, one worker, and the quarantine with its operator.         *)
(*                                                                         *)
(* What a handler decides is the matter of module Execution.  Here it may *)
(* apply any transition that its command can lead to, succeed or fail at  *)
(* any moment; what counts is what becomes of its message.                *)
(***************************************************************************)
EXTENDS Lifecycle, Sequences, FiniteSets

\* The transitions handlers apply on their own
Automatic ==
  {"CLAIM_EXECUTION", "EXECUTION_APPLIED", "EXECUTION_REQUIRE_VERIFICATION",
   "EXECUTION_NOT_APPLIED_RETRY", "EXECUTION_NOT_APPLIED_FAIL", "EXECUTION_UNKNOWN",
   "VERIFICATION_APPLIED", "VERIFICATION_NOT_APPLIED_RETRY",
   "VERIFICATION_NOT_APPLIED_FAIL", "VERIFICATION_INCONCLUSIVE",
   "VERIFICATION_ESCALATE", "UNKNOWN_START_VERIFICATION", "UNKNOWN_SAFE_RETRY",
   "UNKNOWN_ESCALATE", "COMPENSATION_APPLIED", "COMPENSATION_OUTCOME_UNKNOWN",
   "COMPENSATION_OUTCOME_FAILED", "COMPENSATION_ESCALATE", "COMPENSATION_UNKNOWN_RETRY",
   "COMPENSATION_UNKNOWN_APPLIED", "COMPENSATION_UNKNOWN_FAILED",
   "COMPENSATION_UNKNOWN_ESCALATE", "COMPENSATION_FAILED_RETRY",
   "COMPENSATION_FAILED_ESCALATE"}

CONSTANTS
  Operations,
  Relays,           \* relay processes
  Batch,            \* limit of a scan and of a round of publication
  MaxDeliveries,    \* max_deliver of the consumer and of the worker
  MaxRecoveries,    \* republications of one command at one operation version
  MaxInspections,   \* max_deliver of the quarantine consumer
  Applied,          \* bound: the transitions that handlers apply in a behaviour
  MaxVersion,       \* bound: version up to which handlers change an operation
  MaxFaults         \* bound: crashes, lost messages and operator commands

ASSUME DeliveryAssumption ==
  /\ IsFiniteSet(Operations)
  /\ Batch \in Nat \ {0}
  /\ MaxDeliveries \in Nat \ {0}
  /\ MaxRecoveries \in Nat \ {0}
  /\ MaxInspections \in Nat \ {0}
  /\ Applied \subseteq Automatic
  /\ MaxVersion \in Nat
  /\ MaxFaults \in [{"relay", "worker", "loss", "command"} -> Nat]

VARIABLES
  op,           \* the operation rows: state and version
  outbox,       \* the outbox rows in order of creation; source is the row replayed, or 0
  published,    \* the PUBLISHED rows in order of published_at
  stream,       \* the messages of the work stream
  quarantine,   \* the messages of the quarantine stream
  relay,        \* what each relay is doing
  worker,       \* what the worker is doing
  operator,     \* the quarantined message an operator has replayed and not yet acked
  faults

vars == <<op, outbox, published, stream, quarantine, relay, worker, operator, faults>>
rows == <<op, outbox, published>>

Resting == [pc |-> "idle", ev |-> 0, left |-> 0, todo |-> <<>>]
Free == [pc |-> "idle", m |-> 0, version |-> 0]

Events == DOMAIN outbox
Published(e) == \E i \in DOMAIN published : published[i] = e
Row(o, c, v, source) == [op |-> o, cmd |-> c, version |-> v, source |-> source]
Message(e) == [ev |-> e, tries |-> 0, fate |-> "live"]

\* Every operation has just been allowed: version 2, one EXECUTE event PENDING
Init ==
  /\ op = [o \in Operations |-> [state |-> "READY", version |-> 2]]
  /\ outbox \in {s \in [1..Cardinality(Operations) ->
                          {Row(o, "EXECUTE", 2, 0) : o \in Operations}] :
                   \A o \in Operations : \E e \in DOMAIN s : s[e].op = o}
  /\ published = <<>>
  /\ stream = <<>> /\ quarantine = <<>>
  /\ relay = [r \in Relays |-> Resting]
  /\ worker = Free /\ operator = 0
  /\ faults = [f \in DOMAIN MaxFaults |-> 0]

Fault(f) == faults[f] < MaxFaults[f] /\ faults' = [faults EXCEPT ![f] = @ + 1]

-----------------------------------------------------------------------------
\* A transition and its outbox row are one unit of work
Transition(o, k) ==
  /\ op[o].state = Source(k)
  /\ op' = [op EXCEPT ![o] = [state |-> Target(k), version |-> @.version + 1]]
  /\ outbox' = IF OutboxCommand(k) = NoCommand THEN outbox
               ELSE Append(outbox, Row(o, OutboxCommand(k), op[o].version + 1, 0))
  /\ UNCHANGED published

\* Somebody asks for the compensation of a finished operation
StartCompensation(o) ==
  /\ op[o].version < MaxVersion
  /\ \E k \in {"SUCCEEDED_START_COMPENSATION", "FAILED_START_COMPENSATION"} :
       Transition(o, k)
  /\ UNCHANGED <<stream, quarantine, relay, worker, operator, faults>>

-----------------------------------------------------------------------------
(***************************************************************************)
(* The relay.  In every round it recovers stranded work, then publishes.  *)
(***************************************************************************)
Do(r, s) == relay' = [relay EXCEPT ![r] = s]

LatestEvent(o) ==
  CHOOSE e \in Events :
    outbox[e].op = o /\ \A f \in Events : outbox[f].op = o => f <= e

\* Where the query of the scan finds a command applicable: one state more than
\* where the command is still required
CandidateStates(c) ==
  CommandStates(c) \union (IF c = "COMPENSATE" THEN {"COMPENSATED"} ELSE {})

Candidate(e) ==
  /\ e = LatestEvent(outbox[e].op)
  /\ op[outbox[e].op].state \in CandidateStates(outbox[e].cmd)

\* list_stranded_candidate_ids: of the rows published before the cutoff those that
\* are candidates, the longest published first, Batch of them; as positions
OldestCandidates(cutoff) ==
  LET found == {i \in 1..cutoff : Candidate(published[i])}
      count == IF Cardinality(found) < Batch THEN Cardinality(found) ELSE Batch
  IN {s \in [1..count -> found] :
        /\ \A i, j \in 1..count : i < j => s[i] < s[j]
        /\ \A i \in 1..count, p \in found : p < s[i] => \E j \in 1..count : s[j] = p}

ScanUpTo(r, cutoff) ==
  /\ relay[r].pc = "idle"
  /\ \E s \in OldestCandidates(cutoff) :
       Do(r, [Resting EXCEPT !.pc = "recover", !.left = Batch,
                             !.todo = [i \in DOMAIN s |-> published[s[i]]]])
  /\ UNCHANGED <<rows, stream, quarantine, worker, operator, faults>>

Scan(r) == \E cutoff \in 0..Len(published) : ScanUpTo(r, cutoff)

RequiredStale(e) ==                     \* mutant: newer rows are not looked for
  Published(e) /\ op[outbox[e].op].state \in CommandStates(outbox[e].cmd)

Required(e) ==
  /\ e = LatestEvent(outbox[e].op) /\ Published(e)
  /\ op[outbox[e].op].state \in CommandStates(outbox[e].cmd)

Republications(o, c, v) ==
  {e \in Events : /\ outbox[e].source # 0
                  /\ outbox[e].op = o /\ outbox[e].cmd = c /\ outbox[e].version = v}

\* recover_stranded, for one candidate: checked again under the operation's lock
RecoverUpTo(r, limit) ==
  /\ relay[r].pc = "recover" /\ relay[r].todo # <<>>
  /\ Do(r, [relay[r] EXCEPT !.todo = Tail(@)])
  /\ LET e == Head(relay[r].todo)
         o == outbox[e].op
         c == outbox[e].cmd
         v == op[o].version
     IN \/ /\ ~Required(e)
           /\ UNCHANGED <<op, outbox>>
        \/ /\ Required(e) /\ Cardinality(Republications(o, c, v)) < limit
           /\ outbox' = Append(outbox, Row(o, c, v, e))
           /\ UNCHANGED op
        \/ /\ Required(e) /\ Cardinality(Republications(o, c, v)) >= limit
           /\ op' = [op EXCEPT ![o] = [state |-> Target(ExhaustedKind[@.state]),
                                       version |-> v + 1]]
           /\ UNCHANGED outbox
  /\ UNCHANGED <<published, stream, quarantine, worker, operator, faults>>

RecoverOnceMore(r) == RecoverUpTo(r, MaxRecoveries + 1)     \* mutant: off by one

RecoverCandidate(r) == RecoverUpTo(r, MaxRecoveries)

Pending(e) == ~Published(e)

LockedNever(e) == FALSE                 \* mutant: rows are claimed without a lock

Locked(e) == \E q \in Relays : relay[q].pc \in {"send", "mark"} /\ relay[q].ev = e

\* list_pending_for_claim(1): the oldest pending row no other relay has locked
ClaimPending(r) ==
  /\ \/ relay[r].pc = "publish"
     \/ relay[r].pc = "recover" /\ relay[r].todo = <<>>
  /\ LET pending == {e \in Events : Pending(e) /\ ~Locked(e)}
     IN IF pending = {} \/ relay[r].left = 0
        THEN Do(r, Resting)
        ELSE Do(r, [relay[r] EXCEPT !.pc = "send", !.left = @ - 1,
                      !.ev = CHOOSE e \in pending : \A f \in pending : e <= f])
  /\ UNCHANGED <<rows, stream, quarantine, worker, operator, faults>>

Publish(r) ==
  /\ relay[r].pc = "send"
  /\ stream' = Append(stream, Message(relay[r].ev))
  /\ Do(r, [relay[r] EXCEPT !.pc = "mark"])
  /\ UNCHANGED <<rows, quarantine, worker, operator, faults>>

\* mark_published and the commit that releases the lock
MarkPublished(r) ==
  /\ relay[r].pc = "mark"
  /\ published' = Append(published, relay[r].ev)
  /\ Do(r, [relay[r] EXCEPT !.pc = "publish", !.ev = 0])
  /\ UNCHANGED <<op, outbox, stream, quarantine, worker, operator, faults>>

\* A crash, or a failed publication: nothing in the relay catches it
CrashRelay(r) ==
  /\ relay[r].pc # "idle"
  /\ Fault("relay")
  /\ Do(r, Resting)
  /\ UNCHANGED <<rows, stream, quarantine, worker, operator>>

-----------------------------------------------------------------------------
(***************************************************************************)
(* The work stream and the worker.                                        *)
(***************************************************************************)
Live(m) == stream[m].fate = "live"
DeliverableForever(m) == Live(m) /\ stream[m].tries <= MaxDeliveries   \* mutant
Deliverable(m) == Live(m) /\ stream[m].tries < MaxDeliveries

\* One message outstanding, in the order of the stream; the worker loads the operation
Fetch ==
  /\ worker.pc = "idle"
  /\ LET ready == {m \in DOMAIN stream : Deliverable(m)}
     IN /\ ready # {}
        /\ LET m == CHOOSE i \in ready : \A j \in ready : i <= j
           IN /\ worker' = [pc |-> "handle", m |-> m,
                             version |-> op[outbox[stream[m].ev].op].version]
              /\ stream' = [stream EXCEPT ![m].tries = @ + 1]
  /\ UNCHANGED <<rows, quarantine, relay, operator, faults>>

Handle ==
  /\ worker.pc = "handle"
  /\ LET work == outbox[stream[worker.m].ev]
     IN /\ op[work.op].version < MaxVersion
        /\ op[work.op].state \in CommandStates(work.cmd)
        /\ \E k \in Applied : Transition(work.op, k)
  /\ UNCHANGED <<stream, quarantine, relay, worker, operator, faults>>

Settle(fate) ==
  /\ stream' = [stream EXCEPT ![worker.m].fate = fate]
  /\ worker' = Free
  /\ UNCHANGED <<rows, quarantine, relay, operator, faults>>

\* WorkHandler.handle returns ACK when it changed the operation or found it changed,
\* and when the command has nothing to do in the operation's state
Ack ==
  /\ worker.pc = "handle"
  /\ LET work == outbox[stream[worker.m].ev]
     IN \/ op[work.op].version # worker.version
        \/ op[work.op].state \notin CommandStates(work.cmd)
  /\ Settle("acked")

\* It failed, and not at the last delivery
Nak ==
  \/ worker.pc = "handle" /\ stream[worker.m].tries < MaxDeliveries /\ Settle("live")
  \/ worker.pc = "nak" /\ Settle("live")

\* It failed at the last delivery: TERM
GiveUp ==
  /\ worker.pc = "handle" /\ stream[worker.m].tries >= MaxDeliveries
  /\ worker' = [worker EXCEPT !.pc = "quarantine"]
  /\ UNCHANGED <<rows, stream, quarantine, relay, operator, faults>>

QuarantineOrNot ==                      \* mutant: the failed publication is ignored
  /\ worker.pc = "quarantine"
  /\ \/ /\ quarantine' = Append(quarantine, Message(stream[worker.m].ev))
        /\ UNCHANGED faults
     \/ /\ Fault("worker")
        /\ UNCHANGED quarantine
  /\ worker' = [worker EXCEPT !.pc = "term"]
  /\ UNCHANGED <<rows, stream, relay, operator>>

\* The diagnostic is published, or its publication fails and the message is naked
Quarantine ==
  /\ worker.pc = "quarantine"
  /\ \/ /\ quarantine' = Append(quarantine, Message(stream[worker.m].ev))
        /\ worker' = [worker EXCEPT !.pc = "term"]
        /\ UNCHANGED faults
     \/ /\ Fault("worker")
        /\ worker' = [worker EXCEPT !.pc = "nak"]
        /\ UNCHANGED quarantine
  /\ UNCHANGED <<rows, stream, relay, operator>>

Term == worker.pc = "term" /\ Settle("terminated")

CrashWorker ==
  /\ worker.pc # "idle"
  /\ Fault("worker")
  /\ worker' = Free
  /\ UNCHANGED <<rows, stream, quarantine, relay, operator>>

\* The stream is full or too old, or its storage is gone
Lose(m) ==
  /\ Live(m) /\ worker.m # m
  /\ Fault("loss")
  /\ stream' = [stream EXCEPT ![m].fate = "lost"]
  /\ UNCHANGED <<rows, quarantine, relay, worker, operator>>

-----------------------------------------------------------------------------
(***************************************************************************)
(* The operator of the quarantine: every command fetches one message.     *)
(***************************************************************************)
Held(q) == quarantine[q].fate = "live" /\ quarantine[q].tries < MaxInspections

FirstHeld(q) == Held(q) /\ \A p \in 1..(q - 1) : ~Held(p)

\* inspect_quarantine, and the others when the confirmation does not match
Inspect(q) ==
  /\ operator = 0 /\ FirstHeld(q) /\ Fault("command")
  /\ quarantine' = [quarantine EXCEPT ![q].tries = @ + 1]
  /\ UNCHANGED <<rows, stream, relay, worker, operator>>

\* replay_quarantine publishes the message again before it acknowledges
Replay(q) ==
  /\ operator = 0 /\ FirstHeld(q) /\ Fault("command")
  /\ quarantine' = [quarantine EXCEPT ![q].tries = @ + 1]
  /\ stream' = Append(stream, Message(quarantine[q].ev))
  /\ operator' = q
  /\ UNCHANGED <<rows, relay, worker>>

AckReplay ==
  /\ operator # 0
  /\ \E fate \in {"replayed", "live"} :
       quarantine' = [quarantine EXCEPT ![operator].fate = fate]
  /\ operator' = 0
  /\ UNCHANGED <<rows, stream, relay, worker, faults>>

Discard(q) ==
  /\ operator = 0 /\ FirstHeld(q) /\ Fault("command")
  /\ quarantine' = [quarantine EXCEPT ![q].tries = @ + 1, ![q].fate = "discarded"]
  /\ UNCHANGED <<rows, stream, relay, worker, operator>>

-----------------------------------------------------------------------------
Relay(r) ==
  Scan(r) \/ RecoverCandidate(r) \/ ClaimPending(r) \/ Publish(r) \/ MarkPublished(r)

Worker == Fetch \/ Handle \/ Ack \/ Nak \/ GiveUp \/ Quarantine \/ Term

Operator ==
  AckReplay \/ \E q \in DOMAIN quarantine : Inspect(q) \/ Replay(q) \/ Discard(q)

Next ==
  \/ \E o \in Operations : StartCompensation(o)
  \/ \E r \in Relays : Relay(r) \/ CrashRelay(r)
  \/ Worker \/ CrashWorker
  \/ \E m \in DOMAIN stream : Lose(m)
  \/ Operator

Spec == Init /\ [][Next]_vars

(***************************************************************************)
(* Each relay repeats its rounds; what is published grows older than the  *)
(* cutoff, so that some scans see it all; the worker goes on with its     *)
(* message and the broker delivers what it still has.                     *)
(***************************************************************************)
FairSpec ==
  /\ Spec
  /\ \A r \in Relays : WF_vars(Relay(r)) /\ SF_vars(ScanUpTo(r, Len(published)))
  /\ WF_vars(Fetch) /\ WF_vars(Ack \/ Nak \/ GiveUp \/ Quarantine \/ Term)

-----------------------------------------------------------------------------
(***************************************************************************)
(* Properties                                                             *)
(***************************************************************************)
Fates == {"live", "acked", "terminated", "lost", "replayed", "discarded"}
Messages(limit) == [ev : Nat, tries : 0..limit, fate : Fates]

\* Types of the rows, the streams and the processes
TypeOK ==
  /\ op \in [Operations -> [state : OperationStates, version : Nat]]
  /\ outbox \in Seq([op : Operations, cmd : Commands, version : Nat, source : Nat])
  /\ published \in Seq(Nat)
  /\ stream \in Seq(Messages(MaxDeliveries))
  /\ quarantine \in Seq(Messages(MaxInspections))
  /\ relay \in [Relays -> [pc : {"idle", "recover", "publish", "send", "mark"},
                           ev : Nat, left : Nat, todo : Seq(Nat)]]
  /\ worker \in [pc : {"idle", "handle", "nak", "quarantine", "term"},
                m : Nat, version : Nat]
  /\ operator \in Nat
  /\ faults \in [DOMAIN MaxFaults -> Nat]

\* An outbox row is marked PUBLISHED once, and never before a message for it is in
\* the stream: with two relays publishing, and a crash before the mark
PublishedOnce ==
  /\ \A i, j \in DOMAIN published : published[i] = published[j] => i = j
  /\ \A i \in DOMAIN published : \E m \in DOMAIN stream : stream[m].ev = published[i]

\* One row is replayed once: the identity of the replay derives from that of the
\* row, so that a second one would raise a duplicate key and end the relay
ReplayedOnce ==
  \A e, f \in Events : outbox[e].source = outbox[f].source /\ e # f => outbox[e].source = 0

\* Two relays that scan at once do not exceed the budget of republications
ReplayBudget ==
  \A e \in Events :
    Cardinality(Republications(outbox[e].op, outbox[e].cmd, outbox[e].version))
      <= MaxRecoveries

\* A terminated message has its diagnostic in the quarantine stream
TermIsQuarantined ==
  \A m \in DOMAIN stream : stream[m].fate = "terminated" =>
    \E q \in DOMAIN quarantine : quarantine[q].ev = stream[m].ev

\* Messaging recovery gives an operation up only when every republication it counts
\* was published: none of the tries that were to save it is still to come
ExhaustedAfterAllTries ==
  [][\A o \in Operations :
       (op'[o] # op[o] /\ relay' # relay) =>
         \A e \in Events : (outbox[e].op = o /\ outbox[e].version = op[o].version)
                             => Published(e)]_vars

\* Work that handlers still have to do
Unfinished ==
  {"READY", "EXECUTING", "VERIFYING", "UNKNOWN", "COMPENSATING",
   "COMPENSATION_UNKNOWN", "COMPENSATION_FAILED"}

\* Although messages are lost and processes crash, an operation with work left is
\* found again by the scan until it is finished or an operator is asked
WorkIsDiscovered ==
  \A o \in Operations : <>[](op[o].state \notin Unfinished)
=============================================================================
