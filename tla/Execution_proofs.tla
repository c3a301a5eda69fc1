--------------------------- MODULE Execution_proofs ---------------------------
(***************************************************************************)
(* Proofs about module Execution, for every number of workers, every set  *)
(* of effects, every policy and every bound: the rows and handlers keep   *)
(* their types, and the operation is claimed no more often than policy    *)
(* allows.                                                                *)
(*                                                                         *)
(* The budget is no inductive invariant: a claim checks no budget, and a  *)
(* handler decides on the number it has read earlier.  What makes it hold *)
(* is that the version moves with every claim, so that a handler whose    *)
(* version is still the operation's knows the true number of attempts.    *)
(***************************************************************************)
EXTENDS Execution, SequenceTheorems, FiniteSetTheorems, TLAPS

Cap == ExecutionCap(Obligation)

\* What a handler knows: r is its record, na and nv the numbers of attempt and
\* verification rows, version that of the operation
Sound(r, na, nv, version) ==
  /\ r.ver <= version
  /\ r.pc \in {"inspect", "call", "flight", "evidence", "apply"} => r.num \in 1..na
  /\ r.pc \in {"inspect", "call", "flight", "evidence", "apply"} => r.role # None
  /\ r.pc \in {"cycle", "verify", "record", "gather", "conclude"} => r.vid \in 1..nv
  /\ r.pc \in {"cycle", "verify", "record", "gather", "conclude", "weigh", "resolve"}
       => na >= 1
  /\ r.pc \in {"evidence", "apply", "conclude", "resolve"} => r.out \in Outcomes
  /\ r.pc \in {"record", "gather", "conclude"} => r.res \in VerificationResults
  /\ r.pc \in {"conclude", "resolve"} /\ r.ver = version => r.num = na

\* What the state of the operation says of its rows
Progress ==
  /\ op.state \in {"EXECUTING", "VERIFYING", "UNKNOWN"} => Len(attempts) >= 1
  /\ op.state = "VERIFYING" => Len(verifs) >= 1
  /\ op.state = "READY" => Len(attempts) < Cap
  /\ Len(attempts) <= Cap
  /\ Len(outbox) >= 1

Handled == \A w \in Workers : Sound(h[w], Len(attempts), Len(verifs), op.version)

Inv == TypeOK /\ Progress /\ Handled

\* How the rows may change under a handler that takes no part in the step
Grows ==
  /\ Len(attempts) <= Len(attempts')
  /\ Len(verifs) <= Len(verifs')
  /\ op.version <= op'.version
  /\ Len(attempts') # Len(attempts) => op.version < op'.version

-----------------------------------------------------------------------------
(***************************************************************************)
(* Sequences and the tables of the lifecycle                              *)
(***************************************************************************)

\* An update at an index that may lie outside the sequence keeps its type and length
LEMMA ExceptKeepsSeq ==
  ASSUME NEW S, NEW s \in Seq(S), NEW i, NEW e, i \in DOMAIN s => e \in S
  PROVE  /\ [s EXCEPT ![i] = e] \in Seq(S)
         /\ Len([s EXCEPT ![i] = e]) = Len(s)
<1>1. DOMAIN s = 1..Len(s)
  BY LenProperties
<1>2. CASE i \in DOMAIN s
  BY <1>1, <1>2, ExceptSeq
<1>3. CASE i \notin DOMAIN s
  <2>1. [s EXCEPT ![i] = e] = s
    BY <1>3, <1>1, LenProperties
  <2> QED
    BY <2>1
<1> QED
  BY <1>2, <1>3

\* The cap that policy sets is a positive number
LEMMA CapIsPositive == Cap \in Nat /\ Cap >= 1
BY ExecutionAssumption DEF Cap, ExecutionCap, Obligations

\* Where the kinds lead that handlers apply
LEMMA Targets ==
  /\ Target("CLAIM_EXECUTION") = "EXECUTING"
  /\ Target("EXECUTION_APPLIED") = "SUCCEEDED"
  /\ Target("EXECUTION_REQUIRE_VERIFICATION") = "VERIFYING"
  /\ Target("EXECUTION_NOT_APPLIED_RETRY") = "READY"
  /\ Target("EXECUTION_NOT_APPLIED_FAIL") = "FAILED"
  /\ Target("EXECUTION_UNKNOWN") = "UNKNOWN"
  /\ Target("VERIFICATION_APPLIED") = "SUCCEEDED"
  /\ Target("VERIFICATION_NOT_APPLIED_RETRY") = "READY"
  /\ Target("VERIFICATION_NOT_APPLIED_FAIL") = "FAILED"
  /\ Target("VERIFICATION_INCONCLUSIVE") = "UNKNOWN"
  /\ Target("VERIFICATION_ESCALATE") = "MANUAL_INTERVENTION"
  /\ Target("UNKNOWN_START_VERIFICATION") = "VERIFYING"
  /\ Target("UNKNOWN_SAFE_RETRY") = "READY"
  /\ Target("UNKNOWN_ESCALATE") = "MANUAL_INTERVENTION"
BY DEF Target, Edge

\* Where the kinds start that handlers apply
LEMMA Sources ==
  /\ Source("CLAIM_EXECUTION") = "READY"
  /\ Source("EXECUTION_APPLIED") = "EXECUTING"
  /\ Source("EXECUTION_REQUIRE_VERIFICATION") = "EXECUTING"
  /\ Source("EXECUTION_NOT_APPLIED_RETRY") = "EXECUTING"
  /\ Source("EXECUTION_NOT_APPLIED_FAIL") = "EXECUTING"
  /\ Source("EXECUTION_UNKNOWN") = "EXECUTING"
  /\ Source("VERIFICATION_APPLIED") = "VERIFYING"
  /\ Source("VERIFICATION_NOT_APPLIED_RETRY") = "VERIFYING"
  /\ Source("VERIFICATION_NOT_APPLIED_FAIL") = "VERIFYING"
  /\ Source("VERIFICATION_INCONCLUSIVE") = "VERIFYING"
  /\ Source("VERIFICATION_ESCALATE") = "VERIFYING"
  /\ Source("UNKNOWN_START_VERIFICATION") = "UNKNOWN"
  /\ Source("UNKNOWN_SAFE_RETRY") = "UNKNOWN"
  /\ Source("UNKNOWN_ESCALATE") = "UNKNOWN"
BY DEF Source, Edge

\* Exhausted messaging recovery always leads to a human
LEMMA ExhaustedTarget ==
  ASSUME NEW s \in DOMAIN ExhaustedKind
  PROVE  Target(ExhaustedKind[s]) = "MANUAL_INTERVENTION"
BY DEF ExhaustedKind, Target, Edge

\* A kind leaves a work command or none
LEMMA CommandOfKind ==
  ASSUME NEW k
  PROVE  OutboxCommand(k) = NoCommand \/ OutboxCommand(k) \in Commands
BY DEF OutboxCommand, Commands

\* An attempt's evidence asks for one of five kinds, for a retry within the budget
LEMMA ExecutionKinds ==
  ASSUME NEW outcome \in Outcomes, NEW d, NEW number, NEW verdict,
         NEW kind, kind = ExecutionKind(outcome, d, Obligation, number, verdict)
  PROVE  /\ kind \in {"EXECUTION_UNKNOWN", "EXECUTION_REQUIRE_VERIFICATION",
                      "EXECUTION_APPLIED", "EXECUTION_NOT_APPLIED_RETRY",
                      "EXECUTION_NOT_APPLIED_FAIL"}
         /\ kind = "EXECUTION_NOT_APPLIED_RETRY" => number < Cap
BY DEF ExecutionKind, MayTryAgain, Cap, Outcomes

\* So does a verification result
LEMMA VerificationKinds ==
  ASSUME NEW result \in VerificationResults, NEW latest, NEW number, NEW count, NEW d,
         NEW kind, kind = VerificationKind(result, latest, number, count, d, Obligation)
  PROVE  /\ kind \in {"VERIFICATION_ESCALATE", "VERIFICATION_APPLIED",
                      "VERIFICATION_NOT_APPLIED_RETRY", "VERIFICATION_NOT_APPLIED_FAIL",
                      "VERIFICATION_INCONCLUSIVE"}
         /\ kind = "VERIFICATION_NOT_APPLIED_RETRY" => number < Cap
BY DEF VerificationKind, MayTryAgain, Cap, VerificationResults, Outcomes

\* An unverifiable effect is retried within the budget, or left to a human
LEMMA UnverifiableKinds ==
  ASSUME NEW latest, NEW number, NEW elapsed, NEW d,
         NEW kind, kind = UnverifiableKind(latest, number, elapsed, d, Obligation)
  PROVE  /\ kind \in {"UNKNOWN_SAFE_RETRY", "UNKNOWN_ESCALATE"}
         /\ kind = "UNKNOWN_SAFE_RETRY" => number < Cap
BY DEF UnverifiableKind, MayTryAgain, Cap

\* The transition service admits a transition only from its source, at the version
\* the command expects, and with its precondition
LEMMA AppliedMeans ==
  ASSUME NEW kind, NEW version \in Nat, NEW pre, NEW row, op.version \in Nat,
         ApplyResult(kind, version, pre, row) = "APPLIED"
  PROVE  op.version = version /\ op.state = Source(kind) /\ pre
<1>1. op.version = version
  BY DEF ApplyResult
<1>2. op.version # version + 1
  BY <1>1
<1>3. op.state = Source(kind) /\ pre
  BY <1>1, <1>2 DEF ApplyResult
<1> QED
  BY <1>1, <1>3

-----------------------------------------------------------------------------
(***************************************************************************)
(* One step of a handler                                                  *)
(***************************************************************************)

\* A handler that takes no part in a step stays sound: rows are only added, and an
\* attempt only together with a new version
LEMMA SoundKeeps ==
  ASSUME NEW r \in Handlers, NEW na \in Nat, NEW nv \in Nat, NEW version \in Nat,
         NEW na2 \in Nat, NEW nv2 \in Nat, NEW version2 \in Nat,
         Sound(r, na, nv, version),
         na <= na2, nv <= nv2, version <= version2, na2 # na => version < version2
  PROVE  Sound(r, na2, nv2, version2)
<1>1. r.ver \in Nat /\ r.num \in Nat /\ r.vid \in Nat
  BY DEF Handlers
<1> QED
  BY <1>1 DEF Sound

\* The numbers a handler is judged by
LEMMA Numbers ==
  ASSUME TypeOK
  PROVE  Len(attempts) \in Nat /\ Len(verifs) \in Nat /\ op.version \in Nat
BY LenProperties DEF TypeOK, JournalOK

\* Nothing but handlers, the broker and the provider moves: the handlers stay sound
LEMMA RowsKept ==
  ASSUME TypeOK, Progress, UNCHANGED journal
  PROVE  Grows /\ Progress' /\ JournalOK'
<1>1. UNCHANGED <<op, attempts, verifs, audit, outbox>>
  BY DEF journal
<1>2. Len(attempts) \in Nat /\ Len(verifs) \in Nat /\ op.version \in Nat
  BY Numbers
<1>3. Grows
  BY <1>1, <1>2 DEF Grows
<1>4. Progress'
  BY <1>1 DEF Progress, Cap
<1>5. JournalOK'
  BY <1>1 DEF TypeOK, JournalOK
<1> QED
  BY <1>3, <1>4, <1>5

\* What is to be shown of a step in which one handler becomes r
LEMMA HandlerStep ==
  ASSUME Inv, NEW w \in Workers, NEW r \in Handlers,
         h' = [h EXCEPT ![w] = r],
         JournalOK', Progress', Grows,
         Sound(r, Len(attempts'), Len(verifs'), op'.version),
         queue' \in Seq([tries : 0..MaxDeliveries, done : BOOLEAN]),
         Len(queue') = Len(outbox'),
         world' \in Seq(Requests),
         Len(world') = Len(attempts'),
         crashes' \in Nat
  PROVE  Inv'
<1>1. Len(attempts) \in Nat /\ Len(verifs) \in Nat /\ op.version \in Nat
  BY Numbers DEF Inv
<1>2. Len(attempts') \in Nat /\ Len(verifs') \in Nat /\ op'.version \in Nat
  BY LenProperties DEF JournalOK
<1>3. h \in [Workers -> Handlers]
  BY DEF Inv, TypeOK
<1>4. TypeOK'
  BY <1>3 DEF TypeOK
<1>5. ASSUME NEW v \in Workers
      PROVE  Sound(h'[v], Len(attempts'), Len(verifs'), op'.version)
  <2>1. CASE v = w
    BY <2>1, <1>3
  <2>2. CASE v # w
    <3>1. h'[v] = h[v] /\ h[v] \in Handlers
      BY <2>2, <1>3
    <3>2. Sound(h[v], Len(attempts), Len(verifs), op.version)
      BY DEF Inv, Handled
    <3> QED
      BY <3>1, <3>2, <1>1, <1>2, SoundKeeps DEF Grows
  <2> QED
    BY <2>1, <2>2
<1>6. Handled'
  BY <1>5 DEF Handled
<1> QED
  BY <1>4, <1>6 DEF Inv

\* A step that writes no row and sends no message
LEMMA QuietStep ==
  ASSUME Inv, NEW w \in Workers, NEW r \in Handlers,
         Become(w, r),
         UNCHANGED <<journal, queue, world>>,
         crashes' \in Nat,
         Sound(r, Len(attempts), Len(verifs), op.version)
  PROVE  Inv'
<1>1. Grows /\ Progress' /\ JournalOK'
  BY RowsKept DEF Inv
<1>2. UNCHANGED <<op, attempts, verifs, audit, outbox, queue, world>>
  BY DEF journal
<1>3. TypeOK
  BY DEF Inv
<1> QED
  BY <1>1, <1>2, <1>3, HandlerStep DEF TypeOK, Become

\* A handler that has nothing left to do
LEMMA AtIsSound ==
  ASSUME NEW w \in Workers, h \in [Workers -> Handlers],
         NEW pc \in PCs,
         pc \notin {"inspect", "call", "flight", "evidence", "apply", "cycle", "verify",
                    "record", "gather", "conclude", "weigh", "resolve"},
         NEW na, NEW nv, NEW version \in Nat
  PROVE  At(w, pc) \in Handlers /\ Sound(At(w, pc), na, nv, version)
<1>1. h[w] \in Handlers
  OBVIOUS
<1>2. h[w].ev \in Nat /\ h[w].n \in Nat
  BY <1>1 DEF Handlers
<1>3. Idle \in Handlers
  BY DEF Idle, Handlers, PCs, None
<1>4. At(w, pc) \in Handlers
  BY <1>2, <1>3 DEF At, Handlers
<1>5. At(w, pc).pc = pc /\ At(w, pc).ver = 0
  BY <1>3 DEF At, Idle, Handlers
<1>6. Sound(At(w, pc), na, nv, version)
  BY <1>5 DEF Sound
<1> QED
  BY <1>4, <1>6

\* A handler that answers, or goes on from a point where it knows nothing
LEMMA FinishStep ==
  ASSUME Inv, NEW w \in Workers, NEW pc \in PCs,
         pc \notin {"inspect", "call", "flight", "evidence", "apply", "cycle", "verify",
                    "record", "gather", "conclude", "weigh", "resolve"},
         Finish(w, pc), UNCHANGED <<journal, queue, world, crashes>>
  PROVE  Inv'
<1>1. h \in [Workers -> Handlers] /\ crashes \in Nat
  BY DEF Inv, TypeOK
<1>2. op.version \in Nat
  BY Numbers DEF Inv
<1>3. At(w, pc) \in Handlers /\ Sound(At(w, pc), Len(attempts), Len(verifs), op.version)
  BY <1>1, <1>2, AtIsSound
<1>4. Become(w, At(w, pc))
  BY DEF Finish
<1> QED
  BY <1>1, <1>3, <1>4, QuietStep

\* A handler that only answers the broker keeps the invariant
LEMMA AnswerStep ==
  ASSUME Inv, NEW w \in Workers, NEW result, Answer(w, result)
  PROVE  Inv'
<1>1. CASE result \in {"CONFLICT", "DUPLICATE"}
  BY <1>1, FinishStep DEF Answer, PCs
<1>2. CASE result \notin {"CONFLICT", "DUPLICATE"}
  BY <1>2, FinishStep DEF Answer, PCs
<1> QED
  BY <1>1, <1>2

\* The rows that an admitted transition writes
LEMMA CommitRows ==
  ASSUME Inv, NEW w \in Workers, NEW kind, Target(kind) \in OperationStates,
         NEW role \in Roles, Commit(kind, <<h[w].ev, role>>)
  PROVE  /\ op' \in [state : OperationStates, version : Nat, effect : Effects]
         /\ op'.state = Target(kind) /\ op'.version = op.version + 1
         /\ audit' \subseteq Nat \X Roles
         /\ outbox' \in Seq([cmd : Commands, version : Nat, replay : BOOLEAN])
         /\ queue' \in Seq([tries : 0..MaxDeliveries, done : BOOLEAN])
         /\ Len(queue') = Len(outbox')
         /\ Len(outbox') >= 1
<1>1. op \in [state : OperationStates, version : Nat, effect : Effects]
  BY DEF Inv, TypeOK, JournalOK
<1>2. op' = [op EXCEPT !.state = Target(kind), !.version = @ + 1]
  BY DEF Commit
<1>3. op' \in [state : OperationStates, version : Nat, effect : Effects]
  <2> DEFINE s == Target(kind)
  <2>1. s \in OperationStates /\ op' = [op EXCEPT !.state = s, !.version = @ + 1]
    BY <1>2
  <2> HIDE DEF s
  <2>2. op.version \in Nat /\ op.version + 1 \in Nat
    BY <1>1
  <2>3. op' = [op EXCEPT !.state = s, !.version = op.version + 1]
    BY <2>1
  <2>4. [op EXCEPT !.state = s] \in [state : OperationStates, version : Nat, effect : Effects]
    BY <1>1, <2>1
  <2> QED
    BY <1>1, <2>1, <2>2, <2>3, <2>4
<1>4. op'.state = Target(kind) /\ op'.version = op.version + 1
  BY <1>1, <1>2
<1>5. h[w].ev \in Nat
  BY DEF Inv, TypeOK, Handlers
<1>6. audit' \subseteq Nat \X Roles
  <2>1. audit' = audit \union {<<h[w].ev, role>>}
    BY DEF Commit
  <2>2. audit \subseteq Nat \X Roles
    BY DEF Inv, TypeOK, JournalOK
  <2> QED
    BY <1>5, <2>1, <2>2
<1>7. /\ outbox \in Seq([cmd : Commands, version : Nat, replay : BOOLEAN])
      /\ queue \in Seq([tries : 0..MaxDeliveries, done : BOOLEAN])
      /\ Len(queue) = Len(outbox)
      /\ Len(outbox) >= 1 /\ Len(outbox) \in Nat
  BY LenProperties DEF Inv, TypeOK, JournalOK, Progress
<1>8. CASE OutboxCommand(kind) = NoCommand
  <2>1. outbox' = outbox /\ queue' = queue
    BY <1>8 DEF Commit
  <2> QED
    BY <1>3, <1>4, <1>6, <1>7, <2>1
<1>9. CASE OutboxCommand(kind) # NoCommand
  <2> DEFINE row == [cmd |-> OutboxCommand(kind), version |-> op.version + 1,
                     replay |-> FALSE]
             message == [tries |-> 0, done |-> FALSE]
  <2>1. outbox' = Append(outbox, row) /\ queue' = Append(queue, message)
    BY <1>9 DEF Commit
  <2>2. row \in [cmd : Commands, version : Nat, replay : BOOLEAN]
    BY <1>1, <1>9, CommandOfKind
  <2>3. message \in [tries : 0..MaxDeliveries, done : BOOLEAN]
    BY ExecutionAssumption
  <2> HIDE DEF row, message
  <2>4. /\ outbox' \in Seq([cmd : Commands, version : Nat, replay : BOOLEAN])
        /\ Len(outbox') = Len(outbox) + 1
    BY <1>7, <2>1, <2>2, AppendProperties
  <2>5. /\ queue' \in Seq([tries : 0..MaxDeliveries, done : BOOLEAN])
        /\ Len(queue') = Len(queue) + 1
    BY <1>7, <2>1, <2>3, AppendProperties
  <2> QED
    BY <1>3, <1>4, <1>6, <1>7, <2>4, <2>5, SMTT(30)
<1> QED
  BY <1>8, <1>9

-----------------------------------------------------------------------------
(***************************************************************************)
(* The broker                                                             *)
(***************************************************************************)
LEMMA DeliverStep ==
  ASSUME Inv, NEW w \in Workers, NEW e \in DOMAIN queue, Deliver(w, e)
  PROVE  Inv'
<1> DEFINE r == [Idle EXCEPT !.pc = "load", !.ev = e, !.n = queue[e].tries + 1]
           message == [queue[e] EXCEPT !.tries = @ + 1]
<1>1. queue \in Seq([tries : 0..MaxDeliveries, done : BOOLEAN])
  BY DEF Inv, TypeOK
<1>2. e \in Nat /\ queue[e] \in [tries : 0..MaxDeliveries, done : BOOLEAN]
  <2>1. Len(queue) \in Nat /\ DOMAIN queue = 1..Len(queue)
    BY <1>1, LenProperties
  <2>2. e \in 1..Len(queue)
    BY <2>1
  <2>3. e \in Nat
    BY <2>1, <2>2
  <2> QED
    BY <1>1, <2>2, <2>3, ElementOfSeq
<1>3. message \in [tries : 0..MaxDeliveries, done : BOOLEAN]
  BY <1>2, ExecutionAssumption DEF Deliver
<1>4. queue' = [queue EXCEPT ![e] = message]
  BY DEF Deliver
<1>5. /\ queue' \in Seq([tries : 0..MaxDeliveries, done : BOOLEAN])
      /\ Len(queue') = Len(queue)
  BY <1>1, <1>3, <1>4, ExceptKeepsSeq, SMTT(30)
<1>6. Idle \in Handlers
  BY DEF Idle, Handlers, PCs, None
<1>7. r \in Handlers
  <2>1. queue[e].tries + 1 \in Nat
    BY <1>2, ExecutionAssumption
  <2>2. "load" \in PCs
    BY DEF PCs
  <2> QED
    BY <1>2, <1>6, <2>1, <2>2 DEF Handlers
<1>8. r.pc = "load" /\ r.ver = 0
  BY <1>6 DEF Idle, Handlers
<1>9. op.version \in Nat
  BY Numbers DEF Inv
<1>10. Sound(r, Len(attempts), Len(verifs), op.version)
  BY <1>8, <1>9 DEF Sound
<1>11. Grows /\ Progress' /\ JournalOK'
  BY RowsKept DEF Inv, Deliver
<1>12. UNCHANGED <<op, attempts, verifs, audit, outbox, world, crashes>>
  BY DEF Deliver, journal
<1>13. h' = [h EXCEPT ![w] = r]
  BY DEF Deliver, Become
<1>14. TypeOK
  BY DEF Inv
<1> HIDE DEF r
<1> QED
  BY <1>5, <1>7, <1>10, <1>11, <1>12, <1>13, <1>14, HandlerStep DEF TypeOK

\* A worker that lets its message go: acknowledged, given back or lost in a crash
LEMMA LetGoStep ==
  ASSUME Inv, NEW w \in Workers, Become(w, Idle),
         UNCHANGED <<journal, world>>, crashes' \in Nat,
         queue' \in Seq([tries : 0..MaxDeliveries, done : BOOLEAN]),
         Len(queue') = Len(queue)
  PROVE  Inv'
<1>1. Idle \in Handlers
  BY DEF Idle, Handlers, PCs, None
<1>2. Idle.pc = "idle" /\ Idle.ver = 0
  BY DEF Idle
<1>3. op.version \in Nat
  BY Numbers DEF Inv
<1>4. Sound(Idle, Len(attempts), Len(verifs), op.version)
  BY <1>2, <1>3 DEF Sound
<1>5. Grows /\ Progress' /\ JournalOK'
  BY RowsKept DEF Inv
<1>6. UNCHANGED <<op, attempts, verifs, audit, outbox, world>>
  BY DEF journal
<1>7. h' = [h EXCEPT ![w] = Idle]
  BY DEF Become
<1>8. TypeOK
  BY DEF Inv
<1> QED
  BY <1>1, <1>4, <1>5, <1>6, <1>7, <1>8, HandlerStep DEF TypeOK

\* A message of the queue that is acknowledged is still a message
LEMMA Settled ==
  ASSUME NEW m \in [tries : 0..MaxDeliveries, done : BOOLEAN]
  PROVE  [m EXCEPT !.done = TRUE] \in [tries : 0..MaxDeliveries, done : BOOLEAN]
OBVIOUS

\* Answers to the broker, crashes and overflows touch no row
LEMMA BrokerSteps ==
  ASSUME Inv, NEW w \in Workers, Ack(w) \/ Nak(w) \/ Crash(w) \/ Overflow(w)
  PROVE  Inv'
<1>1. queue \in Seq([tries : 0..MaxDeliveries, done : BOOLEAN]) /\ crashes \in Nat
  BY DEF Inv, TypeOK
<1> DEFINE e == h[w].ev
           settled == [queue EXCEPT ![e].done = TRUE]
<1>2. /\ settled \in Seq([tries : 0..MaxDeliveries, done : BOOLEAN])
      /\ Len(settled) = Len(queue)
  <2>1. settled = [queue EXCEPT ![e] = [queue[e] EXCEPT !.done = TRUE]]
    OBVIOUS
  <2>2. e \in DOMAIN queue
          => [queue[e] EXCEPT !.done = TRUE] \in [tries : 0..MaxDeliveries, done : BOOLEAN]
    <3>1. DOMAIN queue = 1..Len(queue)
      BY <1>1, LenProperties
    <3>2. e \in DOMAIN queue => queue[e] \in [tries : 0..MaxDeliveries, done : BOOLEAN]
      BY <1>1, <3>1, ElementOfSeq
    <3> HIDE DEF e, settled
    <3> QED
      BY <3>2, Settled
  <2> DEFINE M == [tries : 0..MaxDeliveries, done : BOOLEAN]
             m == [queue[e] EXCEPT !.done = TRUE]
  <2>3. queue \in Seq(M) /\ settled = [queue EXCEPT ![e] = m] /\ (e \in DOMAIN queue => m \in M)
    BY <1>1, <2>1, <2>2
  <2>4. SUFFICES settled \in Seq(M) /\ Len(settled) = Len(queue)
    OBVIOUS
  <2> HIDE DEF e, settled, M, m
  <2> QED
    BY <2>3, ExceptKeepsSeq
<1>3. CASE Ack(w)
  <2>1. queue' = settled
    BY <1>3 DEF Ack
  <2>2. crashes' \in Nat /\ UNCHANGED <<journal, world>> /\ Become(w, Idle)
    BY <1>1, <1>3 DEF Ack
  <2> HIDE DEF settled
  <2> QED
    BY <1>2, <2>1, <2>2, LetGoStep
<1>4. CASE Nak(w)
  BY <1>1, <1>2, <1>4, LetGoStep DEF Nak
<1>5. CASE Crash(w)
  <2>1. crashes' \in Nat /\ UNCHANGED <<journal, world, queue>> /\ Become(w, Idle)
    BY <1>1, <1>5 DEF Crash
  <2> QED
    BY <1>1, <2>1, LetGoStep
<1>6. CASE Overflow(w)
  BY <1>1, <1>6, LetGoStep DEF Overflow
<1> QED
  BY <1>3, <1>4, <1>5, <1>6

-----------------------------------------------------------------------------
(***************************************************************************)
(* Steps that read and decide, and write no row                           *)
(***************************************************************************)

\* What the reading steps use of the invariant
LEMMA Facts ==
  ASSUME Inv, NEW w \in Workers
  PROVE  /\ h \in [Workers -> Handlers] /\ h[w] \in Handlers
         /\ Sound(h[w], Len(attempts), Len(verifs), op.version)
         /\ Len(attempts) \in Nat /\ Len(verifs) \in Nat /\ op.version \in Nat
         /\ crashes \in Nat
<1>1. h \in [Workers -> Handlers] /\ crashes \in Nat
  BY DEF Inv, TypeOK
<1>2. Sound(h[w], Len(attempts), Len(verifs), op.version)
  BY DEF Inv, Handled
<1> QED
  BY <1>1, <1>2, Numbers DEF Inv

\* The fields of a handler that has forgotten what it knew
LEMMA AtFields ==
  ASSUME NEW w \in Workers, h[w] \in Handlers, NEW pc \in PCs
  PROVE  At(w, pc) \in Handlers /\ At(w, pc).pc = pc /\ At(w, pc).ver = 0
<1>1. h[w].ev \in Nat /\ h[w].n \in Nat
  BY DEF Handlers
<1>2. Idle \in Handlers
  BY DEF Idle, Handlers, PCs, None
<1>3. At(w, pc) \in Handlers
  BY <1>1, <1>2 DEF At, Handlers
<1> QED
  BY <1>2, <1>3 DEF At, Idle, Handlers

\* The numbers a handler carries are natural numbers
LEMMA HandlerNumbers ==
  ASSUME Inv, NEW w \in Workers
  PROVE  /\ h[w].exp \in Nat /\ h[w].ver \in Nat
         /\ op.version + 1 \in Nat
         /\ Len(attempts) + 1 \in Nat /\ Len(verifs) + 1 \in Nat
<1>1. h[w] \in Handlers
  BY Facts
<1>2. h[w].exp \in Nat /\ h[w].ver \in Nat
  BY <1>1 DEF Handlers
<1>3. op.version \in Nat /\ Len(attempts) \in Nat /\ Len(verifs) \in Nat
  BY Facts
<1> QED
  BY <1>2, <1>3

\* A handler record whose expected version changes keeps its other fields
LEMMA ExpectedSet ==
  ASSUME NEW q \in Handlers, NEW v \in Nat
  PROVE  /\ [q EXCEPT !.exp = v] \in Handlers
         /\ [q EXCEPT !.exp = v].pc = q.pc /\ [q EXCEPT !.exp = v].ver = q.ver
BY DEF Handlers

\* Dispatch: the handler knows nothing yet
LEMMA LoadStep ==
  ASSUME Inv, NEW w \in Workers, Load(w)
  PROVE  Inv'
<1>1. PICK pc \in {"execute", "recover", "recovery", "ack"}, v \in Nat :
        Become(w, [At(w, pc) EXCEPT !.exp = v])
  BY Facts DEF Load
<1> DEFINE r == [At(w, pc) EXCEPT !.exp = v]
<1>2. pc \in PCs
  BY DEF PCs
<1>3. At(w, pc) \in Handlers /\ At(w, pc).pc = pc /\ At(w, pc).ver = 0
  BY <1>2, AtFields, Facts
<1>4. r \in Handlers /\ r.pc = pc /\ r.ver = 0
  BY <1>3, ExpectedSet
<1> HIDE DEF r
<1>5. Sound(r, Len(attempts), Len(verifs), op.version)
  BY <1>4, Facts DEF Sound
<1>6. UNCHANGED <<journal, queue, world>> /\ crashes' \in Nat /\ Become(w, r)
  <2>1. UNCHANGED <<journal, queue, world, crashes>>
    BY DEF Load
  <2>2. crashes \in Nat
    BY Facts
  <2> QED
    BY <1>1, <2>1, <2>2, SMTT(30) DEF r
<1> QED
  BY <1>4, <1>5, <1>6, QuietStep, SMTT(30)

\* A handler that goes to look at the latest attempt of an EXECUTING operation
LEMMA ToInspect ==
  ASSUME Inv, NEW w \in Workers, NEW role \in {"execute", "recover"},
         op.state = "EXECUTING",
         Become(w, [At(w, "inspect") EXCEPT !.ver = op.version,
                      !.num = Len(attempts), !.role = role]),
         UNCHANGED <<journal, queue, world, crashes>>
  PROVE  Inv'
<1> DEFINE r == [At(w, "inspect") EXCEPT !.ver = op.version, !.num = Len(attempts),
                   !.role = role]
<1>1. At(w, "inspect") \in Handlers /\ At(w, "inspect").pc = "inspect"
  BY AtFields, Facts DEF PCs
<1>2. /\ r \in Handlers /\ r.pc = "inspect" /\ r.ver = op.version
      /\ r.num = Len(attempts) /\ r.role = role
  BY <1>1, Facts DEF Handlers
<1>3. Len(attempts) >= 1 /\ role # None
  BY DEF Inv, Progress, None
<1> HIDE DEF r
<1>4. Sound(r, Len(attempts), Len(verifs), op.version)
  BY <1>2, <1>3, Facts DEF Sound
<1>5. Become(w, r)
  BY DEF r
<1> QED
  BY <1>2, <1>4, <1>5, Facts, QuietStep

\* Entering execute_operation, for the first time or after a lost race
LEMMA ExecuteStep ==
  ASSUME Inv, NEW w \in Workers, Execute(w)
  PROVE  Inv'
<1>1. CASE op.state = "READY"
  <2>1. Become(w, [h[w] EXCEPT !.pc = "claim"])
    BY <1>1 DEF Execute, Goto
  <2> DEFINE r == [h[w] EXCEPT !.pc = "claim"]
  <2>2. r \in Handlers /\ r.pc = "claim" /\ r.ver = h[w].ver
    <3>1. h[w] \in Handlers
      BY Facts
    <3> QED
      BY <3>1 DEF Handlers, PCs
  <2> HIDE DEF r
  <2>3. Sound(r, Len(attempts), Len(verifs), op.version)
    BY <2>2, Facts DEF Sound
  <2>4. Become(w, r) /\ UNCHANGED <<journal, queue, world>> /\ crashes' \in Nat
    <3>1. UNCHANGED <<journal, queue, world, crashes>> /\ crashes \in Nat
      BY Facts, SMTT(30) DEF Execute
    <3> QED
      BY <2>1, <3>1 DEF r
  <2> QED
    BY <2>2, <2>3, <2>4, QuietStep
<1>2. CASE op.state = "EXECUTING"
  BY <1>2, ToInspect DEF Execute
<1>3. CASE op.state \notin {"READY", "EXECUTING"}
  <2>1. Finish(w, "ack") /\ UNCHANGED <<journal, queue, world, crashes>>
    BY <1>3 DEF Execute
  <2> QED
    BY <2>1, FinishStep DEF PCs
<1> QED
  BY <1>1, <1>2, <1>3

\* Entering recover_operation: an EXECUTING operation has an attempt
LEMMA RecoverStep ==
  ASSUME Inv, NEW w \in Workers, Recover(w)
  PROVE  Inv'
<1>1. CASE op.state = "EXECUTING"
  BY <1>1, ToInspect DEF Recover
<1>2. CASE op.state # "EXECUTING"
  <2>1. Finish(w, "ack") /\ UNCHANGED <<journal, queue, world, crashes>>
    BY <1>2 DEF Recover
  <2> QED
    BY <2>1, FinishStep DEF PCs
<1> QED
  BY <1>1, <1>2, SMTT(30)

\* An attempt row that is not STARTED holds an outcome
LEMMA RowOutcome ==
  ASSUME Inv, NEW i \in 1..Len(attempts)
  PROVE  attempts[i] \in AttemptStates /\ (attempts[i] # "STARTED" => attempts[i] \in Outcomes)
<1>1. attempts \in Seq(AttemptStates)
  BY DEF Inv, TypeOK, JournalOK
<1>2. attempts[i] \in AttemptStates
  BY <1>1, ElementOfSeq
<1> QED
  BY <1>2 DEF AttemptStates

\* The latest outcome is one as soon as there is an attempt
LEMMA LatestIsOutcome ==
  ASSUME Inv, Len(attempts) >= 1
  PROVE  LatestOutcome \in Outcomes
<1>1. Len(attempts) \in 1..Len(attempts)
  BY Numbers DEF Inv
<1> QED
  BY <1>1, RowOutcome DEF LatestOutcome, Outcomes

\* Reading the latest attempt: a completed one has an outcome
LEMMA InspectStep ==
  ASSUME Inv, NEW w \in Workers, Inspect(w)
  PROVE  Inv'
<1>1. h[w].num \in 1..Len(attempts) /\ h[w].ver <= op.version /\ h[w].role # None
  BY Facts DEF Sound, Inspect
<1>2. UNCHANGED <<journal, queue, world, crashes>> /\ crashes' \in Nat
  BY Facts DEF Inspect
<1>3. CASE attempts[h[w].num] = "STARTED" /\ h[w].role = "recover"
  <2> DEFINE r == [h[w] EXCEPT !.pc = "abandon"]
  <2>1. Become(w, r)
    BY <1>3 DEF Inspect, Goto
  <2>2. r \in Handlers /\ r.pc = "abandon" /\ r.ver = h[w].ver
    <3>1. h[w] \in Handlers
      BY Facts
    <3> QED
      BY <3>1 DEF Handlers, PCs
  <2> HIDE DEF r
  <2>3. Sound(r, Len(attempts), Len(verifs), op.version)
    BY <1>1, <2>2 DEF Sound
  <2> QED
    BY <1>2, <2>1, <2>2, <2>3, QuietStep
<1>4. CASE attempts[h[w].num] = "STARTED" /\ h[w].role # "recover"
  <2>1. Finish(w, "ack")
    BY <1>4 DEF Inspect
  <2> QED
    BY <1>2, <2>1, FinishStep DEF PCs
<1>5. CASE attempts[h[w].num] # "STARTED"
  <2> DEFINE o == attempts[h[w].num]
             r == [h[w] EXCEPT !.pc = "apply", !.out = o]
  <2>1. Become(w, r)
    BY <1>5 DEF Inspect
  <2>2. o \in Outcomes /\ o \in AttemptStates
    BY <1>1, <1>5, RowOutcome
  <2> HIDE DEF o
  <2>3. r \in Handlers /\ r.pc = "apply" /\ r.ver = h[w].ver /\ r.num = h[w].num
        /\ r.out = o /\ r.role = h[w].role
    <3>1. "apply" \in PCs
      BY DEF PCs
    <3>2. h[w] \in Handlers
      BY Facts
    <3> QED
      BY <2>2, <3>1, <3>2 DEF Handlers
  <2> HIDE DEF r
  <2>4. Sound(r, Len(attempts), Len(verifs), op.version)
    BY <1>1, <2>2, <2>3 DEF Sound
  <2> QED
    BY <1>2, <2>1, <2>3, <2>4, QuietStep
<1> QED
  BY <1>3, <1>4, <1>5

\* A handler that joins the cycle of the latest verification
LEMMA ToCycle ==
  ASSUME Inv, NEW w \in Workers, op.state = "VERIFYING",
         Become(w, [At(w, "cycle") EXCEPT !.ver = op.version, !.vid = Len(verifs)]),
         UNCHANGED <<journal, queue, world, crashes>>
  PROVE  Inv'
<1> DEFINE r == [At(w, "cycle") EXCEPT !.ver = op.version, !.vid = Len(verifs)]
<1>1. At(w, "cycle") \in Handlers /\ At(w, "cycle").pc = "cycle"
  BY AtFields, Facts DEF PCs
<1>2. r \in Handlers /\ r.pc = "cycle" /\ r.ver = op.version /\ r.vid = Len(verifs)
  BY <1>1, Facts DEF Handlers
<1>3. Len(verifs) >= 1 /\ Len(attempts) >= 1
  BY DEF Inv, Progress
<1> HIDE DEF r
<1>4. Sound(r, Len(attempts), Len(verifs), op.version)
  BY <1>2, <1>3, Facts DEF Sound
<1>5. Become(w, r)
  BY DEF r
<1> QED
  BY <1>2, <1>4, <1>5, Facts, QuietStep

\* Entering recover_unknown_operation
LEMMA RecoveryStep ==
  ASSUME Inv, NEW w \in Workers, Recovery(w)
  PROVE  Inv'
<1>1. UNCHANGED <<journal, queue, world, crashes>>
  BY DEF Recovery
<1>2. CASE op.state = "EXECUTING"
  <2>1. Finish(w, "recover")
    BY <1>2 DEF Recovery
  <2> QED
    BY <1>1, <2>1, FinishStep DEF PCs
<1>3. CASE op.state = "VERIFYING"
  BY <1>3, ToCycle DEF Recovery
<1>4. CASE op.state = "UNKNOWN"
  <2>1. PICK pc \in {"start", "weigh"} : Become(w, [At(w, pc) EXCEPT !.ver = op.version])
    BY <1>4 DEF Recovery
  <2> DEFINE r == [At(w, pc) EXCEPT !.ver = op.version]
  <2>2. At(w, pc) \in Handlers /\ At(w, pc).pc = pc
    BY AtFields, Facts DEF PCs
  <2>3. r \in Handlers /\ r.pc = pc /\ r.ver = op.version
    BY <2>2, Facts DEF Handlers
  <2>4. Len(attempts) >= 1
    BY <1>4 DEF Inv, Progress
  <2> HIDE DEF r
  <2>5. Sound(r, Len(attempts), Len(verifs), op.version)
    BY <2>3, <2>4, Facts DEF Sound
  <2>6. Become(w, r)
    BY <2>1 DEF r
  <2> QED
    BY <1>1, <2>3, <2>5, <2>6, Facts, QuietStep
<1>5. CASE op.state \notin {"EXECUTING", "VERIFYING", "UNKNOWN"}
  <2>1. Finish(w, "ack")
    BY <1>5 DEF Recovery
  <2> QED
    BY <1>1, <2>1, FinishStep DEF PCs
<1> QED
  BY <1>2, <1>3, <1>4, <1>5

\* Taking part in a verification that another handler has started
LEMMA RejoinStep ==
  ASSUME Inv, NEW w \in Workers, Rejoin(w)
  PROVE  Inv'
<1>1. CASE op.state = "VERIFYING"
  BY <1>1, ToCycle DEF Rejoin
<1>2. CASE op.state # "VERIFYING"
  <2>1. Finish(w, "ack") /\ UNCHANGED <<journal, queue, world, crashes>>
    BY <1>2 DEF Rejoin
  <2> QED
    BY <2>1, FinishStep DEF PCs
<1> QED
  BY <1>1, <1>2

\* A verification row that is completed holds a result
LEMMA RowResult ==
  ASSUME Inv, NEW i \in 1..Len(verifs)
  PROVE  verifs[i] \in VerificationResults \union {None}
BY ElementOfSeq DEF Inv, TypeOK, JournalOK

\* Reading the verification row of the cycle
LEMMA CycleStep ==
  ASSUME Inv, NEW w \in Workers, Cycle(w)
  PROVE  Inv'
<1>1. h[w].vid \in 1..Len(verifs) /\ Len(attempts) >= 1 /\ h[w].ver <= op.version
  BY Facts DEF Sound, Cycle
<1>2. UNCHANGED <<journal, queue, world>> /\ crashes' \in Nat
  BY Facts, SMTT(30) DEF Cycle
<1>3. PICK pc \in {"verify", "gather"}, res \in VerificationResults \union {None} :
        /\ Become(w, [h[w] EXCEPT !.pc = pc, !.res = res])
        /\ pc = "gather" => res # None
  <2>1. CASE verifs[h[w].vid] = None
    <3>1. h[w].res \in VerificationResults \union {None}
      BY Facts DEF Handlers
    <3>2. h' = [h EXCEPT ![w] = [h[w] EXCEPT !.pc = "verify"]]
      BY <2>1 DEF Cycle, Goto, Become
    <3>3. [h[w] EXCEPT !.pc = "verify"] = [h[w] EXCEPT !.pc = "verify", !.res = h[w].res]
      BY Facts DEF Handlers
    <3> QED
      BY <3>1, <3>2, <3>3 DEF Become
  <2>2. CASE verifs[h[w].vid] # None
    <3>1. verifs[h[w].vid] \in VerificationResults \union {None}
      BY <1>1, RowResult
    <3> QED
      BY <2>2, <3>1 DEF Cycle
  <2> QED
    BY <2>1, <2>2
<1> DEFINE r == [h[w] EXCEPT !.pc = pc, !.res = res]
<1>4. r \in Handlers /\ r.pc = pc /\ r.res = res /\ r.vid = h[w].vid /\ r.ver = h[w].ver
  <2>1. pc \in PCs
    BY DEF PCs
  <2>2. h[w] \in Handlers
    BY Facts
  <2> QED
    BY <2>1, <2>2 DEF Handlers
<1>5. Become(w, r)
  BY <1>3
<1> HIDE DEF r
<1>6. Sound(r, Len(attempts), Len(verifs), op.version)
  BY <1>1, <1>3, <1>4 DEF Sound
<1> QED
  BY <1>2, <1>4, <1>5, <1>6, QuietStep

\* The provider's answer to a verification is a result
LEMMA VerifyStep ==
  ASSUME Inv, NEW w \in Workers, Verify(w)
  PROVE  Inv'
<1>1. h[w].vid \in 1..Len(verifs) /\ Len(attempts) >= 1 /\ h[w].ver <= op.version
  BY Facts DEF Sound, Verify
<1>2. UNCHANGED <<journal, queue, world>> /\ crashes' \in Nat
  BY Facts DEF Verify
<1>3. PICK res \in VerificationResults : Become(w, [h[w] EXCEPT !.pc = "record", !.res = res])
  BY DEF Verify, VerificationResults, Outcomes
<1> DEFINE r == [h[w] EXCEPT !.pc = "record", !.res = res]
<1>4. /\ r \in Handlers /\ r.pc = "record"
      /\ r.res = res /\ r.vid = h[w].vid /\ r.ver = h[w].ver
  <2>1. "record" \in PCs
    BY DEF PCs
  <2>2. h[w] \in Handlers
    BY Facts
  <2> QED
    BY <2>1, <2>2 DEF Handlers
<1>5. Become(w, r)
  BY <1>3
<1> HIDE DEF r
<1>6. Sound(r, Len(attempts), Len(verifs), op.version)
  BY <1>1, <1>4 DEF Sound
<1> QED
  BY <1>2, <1>4, <1>5, <1>6, QuietStep

\* The number of completed verifications is a number
LEMMA CompletedIsNumber ==
  ASSUME Inv
  PROVE  CompletedVerifications \in Nat
<1> DEFINE completed == {i \in DOMAIN verifs : verifs[i] # None}
<1>1. DOMAIN verifs = 1..Len(verifs) /\ Len(verifs) \in Nat
  BY LenProperties DEF Inv, TypeOK, JournalOK
<1>2. IsFiniteSet(1..Len(verifs))
  BY <1>1, FS_Interval
<1>3. completed \in SUBSET (1..Len(verifs))
  BY <1>1
<1>4. IsFiniteSet(completed)
  BY <1>2, <1>3, FS_Subset
<1>5. Cardinality(completed) \in Nat
  BY <1>4, FS_CardinalityType
<1> QED
  BY <1>5 DEF CompletedVerifications

\* Reading attempts and verifications: at this version the number read is the true one
LEMMA GatherStep ==
  ASSUME Inv, NEW w \in Workers, Gather(w)
  PROVE  Inv'
<1>1. /\ h[w].vid \in 1..Len(verifs) /\ Len(attempts) >= 1 /\ h[w].ver <= op.version
      /\ h[w].res \in VerificationResults
  BY Facts DEF Sound, Gather
<1>2. UNCHANGED <<journal, queue, world>> /\ crashes' \in Nat
  BY Facts DEF Gather
<1>3. PICK o \in Outcomes, c \in Nat : o = LatestOutcome /\ c = CompletedVerifications
  BY <1>1, LatestIsOutcome, CompletedIsNumber
<1> DEFINE q == [h[w] EXCEPT !.pc = "conclude", !.num = Len(attempts), !.out = o]
           r == [q EXCEPT !.cnt = c]
<1>4. Become(w, r) /\ o \in AttemptStates
  BY <1>3 DEF Gather, AttemptStates
<1>5. /\ q \in Handlers /\ q.pc = "conclude" /\ q.num = Len(attempts) /\ q.out = o
      /\ q.res = h[w].res /\ q.vid = h[w].vid /\ q.ver = h[w].ver
  <2>1. "conclude" \in PCs
    BY DEF PCs
  <2>2. h[w] \in Handlers /\ Len(attempts) \in Nat
    BY Facts
  <2>3. o \in AttemptStates
    BY <1>4
  <2> QED
    BY <2>1, <2>2, <2>3 DEF Handlers
<1> HIDE DEF q
<1>6. /\ r \in Handlers /\ r.pc = "conclude" /\ r.num = Len(attempts) /\ r.out = o
      /\ r.res = h[w].res /\ r.vid = h[w].vid /\ r.ver = h[w].ver
  BY <1>4, <1>5 DEF Handlers
<1> HIDE DEF r
<1>7. Sound(r, Len(attempts), Len(verifs), op.version)
  BY <1>1, <1>4, <1>6 DEF Sound
<1> QED
  BY <1>2, <1>4, <1>6, <1>7, QuietStep

\* Reading the attempts of an effect that cannot be verified
LEMMA WeighStep ==
  ASSUME Inv, NEW w \in Workers, Weigh(w)
  PROVE  Inv'
<1>1. Len(attempts) >= 1 /\ h[w].ver <= op.version
  BY Facts DEF Sound, Weigh
<1>2. UNCHANGED <<journal, queue, world>> /\ crashes' \in Nat
  BY Facts DEF Weigh
<1>3. PICK o \in Outcomes : o = LatestOutcome
  BY <1>1, LatestIsOutcome
<1> DEFINE r == [h[w] EXCEPT !.pc = "resolve", !.num = Len(attempts), !.out = o]
<1>4. Become(w, r) /\ o \in AttemptStates
  BY <1>3 DEF Weigh, AttemptStates
<1>5. /\ r \in Handlers /\ r.pc = "resolve" /\ r.num = Len(attempts) /\ r.out = o
      /\ r.ver = h[w].ver
  <2>1. "resolve" \in PCs
    BY DEF PCs
  <2>2. h[w] \in Handlers /\ Len(attempts) \in Nat
    BY Facts
  <2>3. o \in AttemptStates
    BY <1>4
  <2> QED
    BY <2>1, <2>2, <2>3 DEF Handlers
<1> HIDE DEF r
<1>6. Sound(r, Len(attempts), Len(verifs), op.version)
  BY <1>1, <1>4, <1>5 DEF Sound
<1> QED
  BY <1>2, <1>4, <1>5, <1>6, QuietStep

\* The provider's evidence is an outcome
LEMMA ReturnStep ==
  ASSUME Inv, NEW w \in Workers, Return(w)
  PROVE  Inv'
<1>1. h[w].num \in 1..Len(attempts) /\ h[w].ver <= op.version /\ h[w].role # None
  BY Facts DEF Sound, Return
<1>2. UNCHANGED <<journal, queue, world>> /\ crashes' \in Nat
  BY Facts DEF Return
<1>3. world[h[w].num] \in Requests
  BY <1>1, ElementOfSeq DEF Inv, TypeOK
<1>4. Evidence(world[h[w].num]) \subseteq Outcomes
  BY <1>3 DEF Evidence, Requests, Outcomes
<1>5. PICK o \in Outcomes : Become(w, [h[w] EXCEPT !.pc = "evidence", !.out = o])
  BY <1>4 DEF Return
<1> DEFINE r == [h[w] EXCEPT !.pc = "evidence", !.out = o]
<1>6. Become(w, r)
  BY <1>5
<1>7. /\ r \in Handlers /\ r.pc = "evidence" /\ r.num = h[w].num /\ r.out = o
      /\ r.ver = h[w].ver /\ r.role = h[w].role
  <2>1. "evidence" \in PCs /\ o \in AttemptStates
    BY DEF PCs, AttemptStates
  <2>2. h[w] \in Handlers
    BY Facts
  <2> QED
    BY <2>1, <2>2 DEF Handlers
<1> HIDE DEF r
<1>8. Sound(r, Len(attempts), Len(verifs), op.version)
  BY <1>1, <1>7 DEF Sound
<1> QED
  BY <1>2, <1>6, <1>7, <1>8, QuietStep

-----------------------------------------------------------------------------
(***************************************************************************)
(* The provider, the evidence and the relay                               *)
(***************************************************************************)

\* The fate of one request changes and nothing else, but for one handler at most
LEMMA RequestMoves ==
  ASSUME Inv, NEW i, NEW fate \in Requests, world' = [world EXCEPT ![i] = fate]
  PROVE  world' \in Seq(Requests) /\ Len(world') = Len(attempts)
<1>1. world \in Seq(Requests) /\ Len(world) = Len(attempts)
  BY DEF Inv, TypeOK
<1> QED
  BY <1>1, ExceptKeepsSeq

\* The request of an attempt leaves; the journal does not change
LEMMA CallStep ==
  ASSUME Inv, NEW w \in Workers, Call(w)
  PROVE  Inv'
<1> DEFINE r == [h[w] EXCEPT !.pc = "flight"]
<1>1. h[w].num \in 1..Len(attempts) /\ h[w].ver <= op.version /\ h[w].role # None
  BY Facts DEF Sound, Call
<1>2. /\ UNCHANGED <<journal, queue, crashes>> /\ h' = [h EXCEPT ![w] = r]
      /\ world' = [world EXCEPT ![h[w].num] = "EN_ROUTE"]
  BY DEF Call, Goto, Become
<1>3. r \in Handlers /\ r.pc = "flight" /\ r.num = h[w].num /\ r.ver = h[w].ver
      /\ r.role = h[w].role
  <2>1. h[w] \in Handlers
    BY Facts
  <2> QED
    BY <2>1 DEF Handlers, PCs
<1> HIDE DEF r
<1>4. Sound(r, Len(attempts), Len(verifs), op.version)
  BY <1>1, <1>3 DEF Sound
<1>5. Grows /\ Progress' /\ JournalOK'
  BY <1>2, RowsKept DEF Inv
<1>6. UNCHANGED <<op, attempts, verifs, audit, outbox>>
  BY <1>2 DEF journal
<1>7. world' \in Seq(Requests) /\ Len(world') = Len(attempts)
  BY <1>2, RequestMoves DEF Requests
<1>8. TypeOK
  BY DEF Inv
<1> QED
  BY <1>2, <1>3, <1>4, <1>5, <1>6, <1>7, <1>8, HandlerStep DEF TypeOK

\* A step in which no handler moves
LEMMA WorldStep ==
  ASSUME Inv, UNCHANGED <<journal, h, crashes, queue>>,
         world' \in Seq(Requests), Len(world') = Len(attempts)
  PROVE  Inv'
<1>1. UNCHANGED <<op, attempts, verifs, audit, outbox>>
  BY DEF journal
<1>2. Progress' /\ JournalOK'
  BY RowsKept DEF Inv
<1>3. TypeOK'
  BY <1>1, <1>2 DEF Inv, TypeOK
<1>4. Handled'
  BY <1>1 DEF Inv, Handled, Sound
<1> QED
  BY <1>2, <1>3, <1>4 DEF Inv

\* The provider carries out or drops a request; the journal does not change
LEMMA ProviderStep ==
  ASSUME Inv, Provider
  PROVE  Inv'
<1>1. PICK i \in DOMAIN world, fate \in {"LANDED", "DROPPED"} : Settle(i, fate)
  BY DEF Provider
<1>2. world' \in Seq(Requests) /\ Len(world') = Len(attempts)
  BY <1>1, RequestMoves DEF Settle, Requests
<1> QED
  BY <1>1, <1>2, WorldStep DEF Settle

\* Results arrive in a verification row that the handler knows
LEMMA RecordStep ==
  ASSUME Inv, NEW w \in Workers, Record(w)
  PROVE  Inv'
<1> DEFINE r == [h[w] EXCEPT !.pc = "gather"]
<1>1. /\ h[w].vid \in 1..Len(verifs) /\ Len(attempts) >= 1 /\ h[w].ver <= op.version
      /\ h[w].res \in VerificationResults
  BY Facts DEF Sound, Record
<1>2. /\ r \in Handlers /\ r.pc = "gather" /\ r.res = h[w].res /\ r.vid = h[w].vid
      /\ r.ver = h[w].ver
  <2>1. h[w] \in Handlers
    BY Facts
  <2> QED
    BY <2>1 DEF Handlers, PCs
<1>3. Sound(r, Len(attempts), Len(verifs), op.version)
  BY <1>1, <1>2 DEF Sound
<1>4. CASE verifs[h[w].vid] = None
  <2>1. /\ verifs' = [verifs EXCEPT ![h[w].vid] = h[w].res]
        /\ UNCHANGED <<op, attempts, audit, outbox, queue, world, crashes>>
        /\ h' = [h EXCEPT ![w] = r]
    BY <1>4 DEF Record, Goto, Become
  <2>2. verifs \in Seq(VerificationResults \union {None})
    BY DEF Inv, TypeOK, JournalOK
  <2>3. verifs' \in Seq(VerificationResults \union {None}) /\ Len(verifs') = Len(verifs)
    BY <1>1, <2>1, <2>2, ExceptKeepsSeq
  <2> HIDE DEF r
  <2>4. JournalOK'
    BY <2>1, <2>3 DEF Inv, TypeOK, JournalOK
  <2>5. Progress' /\ Grows
    BY <2>1, <2>3, Facts DEF Inv, Progress, Grows, Cap
  <2>6. TypeOK
    BY DEF Inv
  <2> QED
    BY <1>2, <1>3, <2>1, <2>3, <2>4, <2>5, <2>6, HandlerStep DEF TypeOK
<1>5. CASE verifs[h[w].vid] # None /\ OutcomeOf(verifs[h[w].vid]) = OutcomeOf(h[w].res)
  <2>1. UNCHANGED <<journal, queue, world, crashes>> /\ Become(w, r)
    BY <1>5 DEF Record, Goto
  <2> HIDE DEF r
  <2> QED
    BY <1>2, <1>3, <2>1, Facts, QuietStep
<1>6. CASE verifs[h[w].vid] # None /\ OutcomeOf(verifs[h[w].vid]) # OutcomeOf(h[w].res)
  BY <1>6, AnswerStep DEF Record
<1> QED
  BY <1>4, <1>5, <1>6

\* So does evidence in an attempt row
LEMMA PersistStep ==
  ASSUME Inv, NEW w \in Workers, PersistEvidence(w)
  PROVE  Inv'
<1> DEFINE r == [h[w] EXCEPT !.pc = "apply"]
<1>1. /\ h[w].num \in 1..Len(attempts) /\ h[w].ver <= op.version
      /\ h[w].out \in Outcomes /\ h[w].role # None
  BY Facts DEF Sound, PersistEvidence
<1>2. /\ r \in Handlers /\ r.pc = "apply" /\ r.num = h[w].num /\ r.out = h[w].out
      /\ r.ver = h[w].ver /\ r.role = h[w].role
  <2>1. h[w] \in Handlers
    BY Facts
  <2> QED
    BY <2>1 DEF Handlers, PCs
<1>3. Sound(r, Len(attempts), Len(verifs), op.version)
  BY <1>1, <1>2 DEF Sound
<1>4. CASE attempts[h[w].num] = "STARTED"
  <2>1. /\ attempts' = [attempts EXCEPT ![h[w].num] = h[w].out]
        /\ UNCHANGED <<op, verifs, audit, outbox, queue, world, crashes>>
        /\ h' = [h EXCEPT ![w] = r]
    BY <1>4 DEF PersistEvidence, Goto, Become
  <2>2. attempts \in Seq(AttemptStates) /\ h[w].out \in AttemptStates
    BY <1>1 DEF Inv, TypeOK, JournalOK, AttemptStates
  <2>3. attempts' \in Seq(AttemptStates) /\ Len(attempts') = Len(attempts)
    <3> DEFINE i == h[w].num
               o == h[w].out
    <3>1. attempts' = [attempts EXCEPT ![i] = o] /\ o \in AttemptStates
      BY <2>1, <2>2
    <3> HIDE DEF i, o, r
    <3> QED
      BY <2>2, <3>1, ExceptKeepsSeq, SMTT(30)
  <2> HIDE DEF r
  <2>4. JournalOK'
    BY <2>1, <2>3 DEF Inv, TypeOK, JournalOK
  <2>5. Progress' /\ Grows
    BY <2>1, <2>3, Facts DEF Inv, Progress, Grows, Cap
  <2>6. TypeOK
    BY DEF Inv
  <2> QED
    BY <1>2, <1>3, <2>1, <2>3, <2>4, <2>5, <2>6, HandlerStep DEF TypeOK
<1>5. CASE attempts[h[w].num] # "STARTED"
  BY <1>5, AnswerStep DEF PersistEvidence
<1> QED
  BY <1>4, <1>5

-----------------------------------------------------------------------------
(***************************************************************************)
(* Steps that apply a transition                                          *)
(***************************************************************************)

\* What is to be shown of an admitted transition
LEMMA TransitionStep ==
  ASSUME Inv, NEW w \in Workers, NEW r \in Handlers, Become(w, r),
         NEW kind, Target(kind) \in OperationStates, NEW role \in Roles,
         Commit(kind, <<h[w].ev, role>>),
         attempts' \in Seq(AttemptStates), Len(attempts) <= Len(attempts'),
         verifs' \in Seq(VerificationResults \union {None}), Len(verifs) <= Len(verifs'),
         world' \in Seq(Requests), Len(world') = Len(attempts'),
         crashes' = crashes,
         Progress', Sound(r, Len(attempts'), Len(verifs'), op'.version)
  PROVE  Inv'
<1>1. /\ op' \in [state : OperationStates, version : Nat, effect : Effects]
      /\ op'.version = op.version + 1
      /\ audit' \subseteq Nat \X Roles
      /\ outbox' \in Seq([cmd : Commands, version : Nat, replay : BOOLEAN])
      /\ queue' \in Seq([tries : 0..MaxDeliveries, done : BOOLEAN])
      /\ Len(queue') = Len(outbox')
  BY CommitRows
<1>2. JournalOK'
  BY <1>1 DEF JournalOK
<1>3. op.version \in Nat /\ crashes' \in Nat
  BY Facts
<1>4. Grows
  BY <1>1, <1>3 DEF Grows
<1> QED
  BY <1>1, <1>2, <1>3, <1>4, HandlerStep DEF Become

\* A transition after which the handler is done
LEMMA LastStep ==
  ASSUME Inv, NEW w \in Workers, Finish(w, "ack"),
         NEW kind, Target(kind) \in OperationStates, NEW role \in Roles,
         Commit(kind, <<h[w].ev, role>>),
         attempts' \in Seq(AttemptStates), Len(attempts') = Len(attempts),
         verifs' \in Seq(VerificationResults \union {None}), Len(verifs) <= Len(verifs'),
         UNCHANGED <<world, crashes>>,
         Len(attempts) >= 1,
         Target(kind) = "VERIFYING" => Len(verifs') >= 1,
         Target(kind) = "READY" => Len(attempts) < Cap
  PROVE  Inv'
<1>1. op'.state = Target(kind) /\ op'.version = op.version + 1 /\ Len(outbox') >= 1
  BY CommitRows
<1>2. Progress'
  BY <1>1 DEF Inv, Progress, Cap
<1>3. "ack" \in PCs
  BY DEF PCs
<1>4. At(w, "ack") \in Handlers /\ At(w, "ack").pc = "ack" /\ At(w, "ack").ver = 0
  BY <1>3, AtFields, Facts
<1>5. op'.version \in Nat
  BY <1>1, Facts
<1>6. Sound(At(w, "ack"), Len(attempts'), Len(verifs'), op'.version)
  BY <1>4, <1>5 DEF Sound
<1>7. world' \in Seq(Requests) /\ Len(world') = Len(attempts')
  BY DEF Inv, TypeOK
<1>8. Become(w, At(w, "ack")) /\ Len(attempts) <= Len(attempts')
  BY Facts DEF Finish
<1> QED
  BY <1>2, <1>4, <1>6, <1>7, <1>8, TransitionStep

\* Giving a STARTED attempt up as unknown
LEMMA AbandonStep ==
  ASSUME Inv, NEW w \in Workers, Abandon(w)
  PROVE  Inv'
<1> DEFINE row == <<h[w].ev, "recover">>
           result == ApplyResult("EXECUTION_UNKNOWN", h[w].ver,
                                 attempts[Len(attempts)] = "STARTED", row)
<1>1. CASE result = "APPLIED"
  <2>1. /\ Commit("EXECUTION_UNKNOWN", row) /\ Finish(w, "ack")
        /\ UNCHANGED <<attempts, verifs, world, crashes>>
    BY <1>1 DEF Abandon
  <2>2. h[w].ver \in Nat /\ op.version \in Nat
    BY Facts DEF Handlers
  <2>3. op.state = "EXECUTING"
    BY <1>1, <2>2, AppliedMeans, Sources
  <2>4. Len(attempts) >= 1
    BY <2>3 DEF Inv, Progress
  <2>5. Target("EXECUTION_UNKNOWN") = "UNKNOWN" /\ "UNKNOWN" \in OperationStates
    BY Targets DEF OperationStates
  <2>6. /\ attempts' \in Seq(AttemptStates)
        /\ verifs' \in Seq(VerificationResults \union {None})
        /\ Len(attempts') = Len(attempts) /\ Len(verifs) <= Len(verifs')
    BY <2>1, Facts DEF Inv, TypeOK, JournalOK
  <2> QED
    BY <2>1, <2>4, <2>5, <2>6, LastStep DEF Roles
<1>2. CASE result # "APPLIED"
  <2>1. Answer(w, result)
    BY <1>2 DEF Abandon
  <2> QED
    BY <2>1, AnswerStep
<1> QED
  BY <1>1, <1>2

\* A retry without verification: a version that is still current vouches for the number
LEMMA ResolveStep ==
  ASSUME Inv, NEW w \in Workers, Resolve(w)
  PROVE  Inv'
<1>1. PICK elapsed, kind, result :
        /\ kind = UnverifiableKind(h[w].out, h[w].num, elapsed, Descriptor, Obligation)
        /\ result = ApplyResult(kind, h[w].ver,
                     kind = "UNKNOWN_SAFE_RETRY"
                       => RetryAdmitted(Descriptor, h[w].out, None), <<h[w].ev, "complete">>)
        /\ IF result = "APPLIED"
           THEN /\ Commit(kind, <<h[w].ev, "complete">>) /\ Finish(w, "ack")
                /\ UNCHANGED <<attempts, verifs, world, crashes>>
           ELSE Answer(w, result)
  BY DEF Resolve
<1>2. CASE result = "APPLIED"
  <2>1. /\ Commit(kind, <<h[w].ev, "complete">>) /\ Finish(w, "ack")
        /\ UNCHANGED <<attempts, verifs, world, crashes>>
    BY <1>1, <1>2
  <2>2. h[w].ver \in Nat /\ op.version \in Nat
    BY Facts DEF Handlers
  <2>3. op.version = h[w].ver
    BY <1>1, <1>2, <2>2, AppliedMeans
  <2>4. h[w].num = Len(attempts) /\ Len(attempts) >= 1
    BY <2>3, Facts DEF Sound, Resolve
  <2>5. /\ kind \in {"UNKNOWN_SAFE_RETRY", "UNKNOWN_ESCALATE"}
        /\ kind = "UNKNOWN_SAFE_RETRY" => h[w].num < Cap
    BY <1>1, UnverifiableKinds
  <2>6. /\ Target(kind) \in OperationStates /\ Target(kind) # "VERIFYING"
        /\ Target(kind) = "READY" => Len(attempts) < Cap
    BY <2>4, <2>5, Targets DEF OperationStates
  <2>7. /\ attempts' \in Seq(AttemptStates)
        /\ verifs' \in Seq(VerificationResults \union {None})
        /\ Len(attempts') = Len(attempts) /\ Len(verifs) <= Len(verifs')
    BY <2>1, Facts DEF Inv, TypeOK, JournalOK
  <2>8. "complete" \in Roles
    BY DEF Roles
  <2> QED
    BY <2>1, <2>4, <2>6, <2>7, <2>8, LastStep
<1>3. CASE result # "APPLIED"
  BY <1>1, <1>3, AnswerStep
<1> QED
  BY <1>2, <1>3

\* A retry after verification: a version that is still current vouches for the number
LEMMA ConcludeStep ==
  ASSUME Inv, NEW w \in Workers, Conclude(w)
  PROVE  Inv'
<1>1. PICK kind, result :
        /\ kind = VerificationKind(h[w].res, h[w].out, h[w].num, h[w].cnt,
                                   Descriptor, Obligation)
        /\ result = ApplyResult(kind, h[w].ver,
                     /\ ResultMatches(h[w].vid, h[w].res)
                     /\ kind = "VERIFICATION_NOT_APPLIED_RETRY"
                          => RetryAdmitted(Descriptor, None, "NOT_APPLIED"),
                     <<h[w].ev, "complete">>)
        /\ IF result = "APPLIED"
           THEN /\ Commit(kind, <<h[w].ev, "complete">>)
                /\ verifs' = IF verifs[h[w].vid] = None
                             THEN [verifs EXCEPT ![h[w].vid] = h[w].res] ELSE verifs
                /\ Finish(w, "ack")
                /\ UNCHANGED <<attempts, world, crashes>>
           ELSE Answer(w, result)
  BY DEF Conclude
<1>2. CASE result = "APPLIED"
  <2>1. /\ Commit(kind, <<h[w].ev, "complete">>) /\ Finish(w, "ack")
        /\ verifs' = IF verifs[h[w].vid] = None
                     THEN [verifs EXCEPT ![h[w].vid] = h[w].res] ELSE verifs
        /\ UNCHANGED <<attempts, world, crashes>>
    BY <1>1, <1>2
  <2>2. h[w].ver \in Nat /\ op.version \in Nat
    BY Facts DEF Handlers
  <2>3. op.version = h[w].ver
    BY <1>1, <1>2, <2>2, AppliedMeans
  <2>4. /\ h[w].num = Len(attempts) /\ Len(attempts) >= 1
        /\ h[w].res \in VerificationResults
    BY <2>3, Facts DEF Sound, Conclude
  <2>5. /\ kind \in {"VERIFICATION_ESCALATE", "VERIFICATION_APPLIED",
                     "VERIFICATION_NOT_APPLIED_RETRY", "VERIFICATION_NOT_APPLIED_FAIL",
                     "VERIFICATION_INCONCLUSIVE"}
        /\ kind = "VERIFICATION_NOT_APPLIED_RETRY" => h[w].num < Cap
    BY <1>1, <2>4, VerificationKinds
  <2>6. /\ Target(kind) \in OperationStates /\ Target(kind) # "VERIFYING"
        /\ Target(kind) = "READY" => Len(attempts) < Cap
    BY <2>4, <2>5, Targets DEF OperationStates
  <2>7. attempts' \in Seq(AttemptStates) /\ Len(attempts') = Len(attempts)
    BY <2>1 DEF Inv, TypeOK, JournalOK
  <2>8. /\ verifs' \in Seq(VerificationResults \union {None})
        /\ Len(verifs) <= Len(verifs')
    <3> DEFINE i == h[w].vid
               res == h[w].res
    <3>1. verifs \in Seq(VerificationResults \union {None}) /\ Len(verifs) \in Nat
      BY Facts DEF Inv, TypeOK, JournalOK
    <3>2. verifs' = [verifs EXCEPT ![i] = res] \/ verifs' = verifs
      BY <2>1
    <3>3. res \in VerificationResults \union {None}
      BY <2>4
    <3> HIDE DEF i, res
    <3> QED
      BY <3>1, <3>2, <3>3, ExceptKeepsSeq
  <2>9. "complete" \in Roles
    BY DEF Roles
  <2> QED
    BY <2>1, <2>4, <2>6, <2>7, <2>8, <2>9, LastStep
<1>3. CASE result # "APPLIED"
  BY <1>1, <1>3, AnswerStep
<1> QED
  BY <1>2, <1>3

\* The evidence of an attempt: admitted only for the latest one, whose number is
\* therefore the number of attempts
LEMMA ApplyStep ==
  ASSUME Inv, NEW w \in Workers, ApplyExecution(w)
  PROVE  Inv'
<1>1. PICK kind, verdict, role, result :
        /\ kind = ExecutionKind(h[w].out, Descriptor, Obligation, h[w].num, verdict)
        /\ role = h[w].role
        /\ result = ApplyResult(kind, h[w].ver,
                     /\ AttemptMatches(h[w].num, h[w].out)
                     /\ kind = "EXECUTION_NOT_APPLIED_RETRY"
                          => RetryAdmitted(Descriptor, "NOT_APPLIED", None),
                     <<h[w].ev, role>>)
        /\ IF result = "APPLIED"
           THEN /\ Commit(kind, <<h[w].ev, role>>)
                /\ attempts' = [attempts EXCEPT ![h[w].num] = h[w].out]
                /\ verifs' = IF kind = "EXECUTION_REQUIRE_VERIFICATION"
                             THEN Append(verifs, None) ELSE verifs
                /\ Finish(w, "ack")
                /\ UNCHANGED <<world, crashes>>
           ELSE Answer(w, result)
  BY DEF ApplyExecution
<1>2. h[w].num \in 1..Len(attempts) /\ h[w].out \in Outcomes
  BY Facts DEF Sound, ApplyExecution
<1>3. CASE result = "APPLIED"
  <2>1. /\ Commit(kind, <<h[w].ev, role>>) /\ Finish(w, "ack")
        /\ attempts' = [attempts EXCEPT ![h[w].num] = h[w].out]
        /\ verifs' = IF kind = "EXECUTION_REQUIRE_VERIFICATION"
                     THEN Append(verifs, None) ELSE verifs
        /\ UNCHANGED <<world, crashes>>
    BY <1>1, <1>3
  <2>2. h[w].ver \in Nat /\ op.version \in Nat
    BY Facts DEF Handlers
  <2>3. AttemptMatches(h[w].num, h[w].out)
    BY <1>1, <1>3, <2>2, AppliedMeans
  <2>4. h[w].num = Len(attempts) /\ Len(attempts) >= 1
    BY <1>2, <2>3, Facts DEF AttemptMatches
  <2>5. /\ kind \in {"EXECUTION_UNKNOWN", "EXECUTION_REQUIRE_VERIFICATION",
                      "EXECUTION_APPLIED", "EXECUTION_NOT_APPLIED_RETRY",
                      "EXECUTION_NOT_APPLIED_FAIL"}
        /\ kind = "EXECUTION_NOT_APPLIED_RETRY" => h[w].num < Cap
    BY <1>1, <1>2, ExecutionKinds
  <2>6. /\ Target(kind) \in OperationStates
        /\ Target(kind) = "VERIFYING" => kind = "EXECUTION_REQUIRE_VERIFICATION"
        /\ Target(kind) = "READY" => Len(attempts) < Cap
    BY <2>4, <2>5, Targets DEF OperationStates
  <2>7. attempts' \in Seq(AttemptStates) /\ Len(attempts') = Len(attempts)
    <3> DEFINE i == h[w].num
               o == h[w].out
    <3>1. attempts \in Seq(AttemptStates)
      BY DEF Inv, TypeOK, JournalOK
    <3>2. attempts' = [attempts EXCEPT ![i] = o] /\ o \in AttemptStates
      BY <1>2, <2>1 DEF AttemptStates
    <3> HIDE DEF i, o
    <3> QED
      BY <3>1, <3>2, ExceptKeepsSeq
  <2>8. /\ verifs' \in Seq(VerificationResults \union {None})
        /\ Len(verifs) <= Len(verifs')
        /\ Target(kind) = "VERIFYING" => Len(verifs') >= 1
    <3>1. verifs \in Seq(VerificationResults \union {None}) /\ Len(verifs) \in Nat
      BY Facts DEF Inv, TypeOK, JournalOK
    <3>2. /\ Append(verifs, None) \in Seq(VerificationResults \union {None})
          /\ Len(Append(verifs, None)) = Len(verifs) + 1
      BY <3>1, AppendProperties
    <3> QED
      BY <2>1, <2>6, <3>1, <3>2
  <2>9. CASE role \in Roles
    BY <2>1, <2>4, <2>6, <2>7, <2>8, <2>9, LastStep
  <2>10. CASE role = None
    <3>1. h[w].pc = "apply"
      BY DEF ApplyExecution
    <3> QED
      BY <1>1, <2>10, <3>1, Facts DEF Sound
  <2> QED
    BY <1>1, <2>9, <2>10, Facts DEF Handlers, Roles
<1>4. CASE result # "APPLIED"
  BY <1>1, <1>4, AnswerStep
<1> QED
  BY <1>3, <1>4

\* A claim checks no budget: that the operation was READY is what allows it
LEMMA ClaimStep ==
  ASSUME Inv, NEW w \in Workers, Claim(w)
  PROVE  Inv'
<1> DEFINE row == <<h[w].ev, "claim">>
           result == ApplyResult("CLAIM_EXECUTION", h[w].exp, TRUE, row)
<1>1. CASE result = "APPLIED"
  <2> DEFINE r == [At(w, "call") EXCEPT !.ver = op.version + 1,
                                        !.num = Len(attempts) + 1, !.role = "execute"]
  <2>1. /\ Commit("CLAIM_EXECUTION", row) /\ Become(w, r)
        /\ attempts' = Append(attempts, "STARTED")
        /\ world' = Append(world, "UNSENT")
        /\ UNCHANGED <<verifs, crashes>>
    BY <1>1 DEF Claim
  <2>2. h[w].exp \in Nat /\ op.version \in Nat /\ op.version + 1 \in Nat
        /\ Len(attempts) \in Nat /\ Len(attempts) + 1 \in Nat
    BY Facts, HandlerNumbers
  <2>3. op.state = "READY"
    <3>1. ApplyResult("CLAIM_EXECUTION", h[w].exp, TRUE, row) = "APPLIED"
      BY <1>1
    <3> HIDE DEF row, result
    <3>2. op.state = Source("CLAIM_EXECUTION")
      BY <2>2, <3>1, AppliedMeans
    <3> QED
      BY <3>2, Sources
  <2>4. Len(attempts) < Cap
    BY <2>3 DEF Inv, Progress
  <2>5. At(w, "call") \in Handlers /\ At(w, "call").pc = "call"
    BY AtFields, Facts DEF PCs
  <2>6. /\ r \in Handlers /\ r.pc = "call" /\ r.ver = op.version + 1
        /\ r.num = Len(attempts) + 1 /\ r.role = "execute"
    BY <2>2, <2>5 DEF Handlers
  <2> HIDE DEF r
  <2>7. attempts' \in Seq(AttemptStates) /\ Len(attempts') = Len(attempts) + 1
    <3>1. attempts \in Seq(AttemptStates) /\ "STARTED" \in AttemptStates
      BY DEF Inv, TypeOK, JournalOK, AttemptStates
    <3> QED
      BY <2>1, <3>1, AppendProperties
  <2>8. world' \in Seq(Requests) /\ Len(world') = Len(attempts')
    <3>1. world \in Seq(Requests) /\ "UNSENT" \in Requests /\ Len(world) = Len(attempts)
      BY DEF Inv, TypeOK, Requests
    <3> QED
      BY <2>1, <2>7, <3>1, AppendProperties
  <2>9. verifs' \in Seq(VerificationResults \union {None}) /\ Len(verifs) <= Len(verifs')
    BY <2>1, Facts DEF Inv, TypeOK, JournalOK
  <2>10. /\ Target("CLAIM_EXECUTION") = "EXECUTING" /\ "EXECUTING" \in OperationStates
         /\ "claim" \in Roles
    BY Targets DEF OperationStates, Roles
  <2>11. op'.state = "EXECUTING" /\ op'.version = op.version + 1 /\ Len(outbox') >= 1
    BY <2>1, <2>10, CommitRows
  <2>12. Progress'
    BY <2>2, <2>4, <2>7, <2>11, CapIsPositive DEF Progress, Cap
  <2>13. Sound(r, Len(attempts'), Len(verifs'), op'.version)
    BY <2>2, <2>6, <2>7, <2>11 DEF Sound, None
  <2>14. Len(attempts) <= Len(attempts') /\ crashes' = crashes
    BY <2>1, <2>2, <2>7
  <2> QED
    BY <2>1, <2>6, <2>7, <2>8, <2>9, <2>10, <2>12, <2>13, <2>14, TransitionStep
<1>2. CASE result \in {"CONFLICT", "ALREADY_APPLIED"}
  <2>1. PICK pc \in {"execute", "overflow"}, depth \in Nat :
          Become(w, [h[w] EXCEPT !.pc = pc, !.depth = depth])
    <3>1. h[w].depth + 1 \in Nat
      BY Facts, SMTT(30) DEF Handlers
    <3> QED
      BY <1>2, <3>1 DEF Claim
  <2>2. UNCHANGED <<journal, queue, world, crashes>> /\ crashes' \in Nat
    BY <1>2, Facts DEF Claim
  <2> DEFINE r == [h[w] EXCEPT !.pc = pc, !.depth = depth]
  <2>3. r \in Handlers /\ r.pc = pc /\ r.ver = h[w].ver
    <3> DEFINE q == [h[w] EXCEPT !.pc = pc]
    <3>1. q \in Handlers /\ q.pc = pc /\ q.ver = h[w].ver
      <4>1. h[w] \in Handlers
        BY Facts
      <4> QED
        BY <4>1 DEF Handlers, PCs
    <3>2. r = [q EXCEPT !.depth = depth]
      OBVIOUS
    <3> HIDE DEF q, r
    <3> QED
      BY <3>1, <3>2 DEF Handlers
  <2>4. Become(w, r)
    BY <2>1
  <2> HIDE DEF r
  <2>5. Sound(r, Len(attempts), Len(verifs), op.version)
    BY <2>3, Facts DEF Sound
  <2> QED
    BY <2>2, <2>3, <2>4, <2>5, QuietStep
<1>3. CASE result \in {"REJECTED", "DUPLICATE"}
  <2>1. Answer(w, result)
    BY <1>3 DEF Claim
  <2> QED
    BY <2>1, AnswerStep
<1>4. result \in {"APPLIED", "CONFLICT", "ALREADY_APPLIED", "REJECTED", "DUPLICATE"}
  <2>1. h[w].exp \in Nat /\ op.version \in Nat
    BY Facts DEF Handlers
  <2> QED
    BY <2>1 DEF ApplyResult
<1> QED
  BY <1>1, <1>2, <1>3, <1>4

\* Starting a verification adds its row and moves the version
LEMMA StartStep ==
  ASSUME Inv, NEW w \in Workers, StartVerification(w)
  PROVE  Inv'
<1> DEFINE row == <<h[w].ev, "start">>
           result == ApplyResult("UNKNOWN_START_VERIFICATION", h[w].ver, TRUE, row)
<1>1. CASE result = "APPLIED"
  <2> DEFINE r == [At(w, "cycle") EXCEPT !.ver = op.version + 1, !.vid = Len(verifs) + 1]
  <2>1. /\ Commit("UNKNOWN_START_VERIFICATION", row) /\ Become(w, r)
        /\ verifs' = Append(verifs, None)
        /\ UNCHANGED <<attempts, world, crashes>>
    BY <1>1 DEF StartVerification
  <2>2. h[w].ver \in Nat /\ op.version \in Nat /\ op.version + 1 \in Nat
        /\ Len(verifs) \in Nat /\ Len(verifs) + 1 \in Nat
    BY Facts, HandlerNumbers
  <2>3. op.state = "UNKNOWN"
    <3>1. ApplyResult("UNKNOWN_START_VERIFICATION", h[w].ver, TRUE, row) = "APPLIED"
      BY <1>1
    <3> HIDE DEF row, result
    <3>2. op.state = Source("UNKNOWN_START_VERIFICATION")
      BY <2>2, <3>1, AppliedMeans
    <3> QED
      BY <3>2, Sources
  <2>4. Len(attempts) >= 1 /\ Len(attempts) <= Cap
    BY <2>3 DEF Inv, Progress
  <2>5. At(w, "cycle") \in Handlers /\ At(w, "cycle").pc = "cycle"
    BY AtFields, Facts DEF PCs
  <2>6. /\ r \in Handlers /\ r.pc = "cycle" /\ r.ver = op.version + 1
        /\ r.vid = Len(verifs) + 1
    BY <2>2, <2>5 DEF Handlers
  <2> HIDE DEF r
  <2>7. /\ verifs' \in Seq(VerificationResults \union {None})
        /\ Len(verifs') = Len(verifs) + 1
    <3>1. verifs \in Seq(VerificationResults \union {None})
      BY DEF Inv, TypeOK, JournalOK
    <3> QED
      BY <2>1, <3>1, AppendProperties
  <2>8. /\ attempts' \in Seq(AttemptStates) /\ Len(attempts) <= Len(attempts')
        /\ world' \in Seq(Requests) /\ Len(world') = Len(attempts')
        /\ Len(verifs) <= Len(verifs') /\ crashes' = crashes
    BY <2>1, <2>2, <2>7, Facts DEF Inv, TypeOK, JournalOK
  <2>9. /\ Target("UNKNOWN_START_VERIFICATION") = "VERIFYING"
        /\ "VERIFYING" \in OperationStates /\ "start" \in Roles
    BY Targets DEF OperationStates, Roles
  <2>10. op'.state = "VERIFYING" /\ op'.version = op.version + 1 /\ Len(outbox') >= 1
    BY <2>1, <2>9, CommitRows
  <2>11. Progress'
    BY <2>1, <2>2, <2>4, <2>7, <2>10 DEF Progress, Cap
  <2>12. Sound(r, Len(attempts'), Len(verifs'), op'.version)
    BY <2>1, <2>2, <2>4, <2>6, <2>7, <2>10 DEF Sound
  <2> QED
    BY <2>1, <2>6, <2>7, <2>8, <2>9, <2>11, <2>12, TransitionStep
<1>2. CASE result = "ALREADY_APPLIED"
  <2>1. Finish(w, "rejoin") /\ UNCHANGED <<journal, queue, world, crashes>>
    BY <1>2 DEF StartVerification
  <2> QED
    BY <2>1, FinishStep DEF PCs
<1>3. CASE result \notin {"APPLIED", "ALREADY_APPLIED"}
  <2>1. Answer(w, result)
    BY <1>3 DEF StartVerification
  <2> QED
    BY <2>1, AnswerStep
<1> QED
  BY <1>1, <1>2, <1>3

-----------------------------------------------------------------------------
(***************************************************************************)
(* The relay                                                              *)
(***************************************************************************)

\* Republication adds an outbox row and touches nothing else
LEMMA RepublishStep ==
  ASSUME Inv, Republish
  PROVE  Inv'
<1> DEFINE e == Len(outbox)
           row == [cmd |-> outbox[e].cmd, version |-> op.version, replay |-> TRUE]
           message == [tries |-> 0, done |-> FALSE]
<1>1. /\ outbox' = Append(outbox, row) /\ queue' = Append(queue, message)
      /\ UNCHANGED <<op, attempts, verifs, audit, world, h, crashes>>
      /\ op.state \in CommandStates(outbox[e].cmd)
  BY DEF Republish, Stranded
<1>2. /\ outbox \in Seq([cmd : Commands, version : Nat, replay : BOOLEAN])
      /\ queue \in Seq([tries : 0..MaxDeliveries, done : BOOLEAN])
      /\ Len(queue) = Len(outbox) /\ op.version \in Nat
  BY Numbers DEF Inv, TypeOK, JournalOK
<1>3. row \in [cmd : Commands, version : Nat, replay : BOOLEAN]
  <2>1. outbox[e].cmd \in Commands
    <3>1. Len(outbox) \in 1..Len(outbox)
      BY <1>2, LenProperties DEF Inv, Progress
    <3>2. outbox[e] \in [cmd : Commands, version : Nat, replay : BOOLEAN]
      BY <1>2, <3>1, ElementOfSeq
    <3> QED
      BY <3>2
  <2> QED
    BY <1>2, <2>1
<1>4. message \in [tries : 0..MaxDeliveries, done : BOOLEAN]
  BY ExecutionAssumption
<1> HIDE DEF row, message
<1>5. /\ outbox' \in Seq([cmd : Commands, version : Nat, replay : BOOLEAN])
      /\ Len(outbox') = Len(outbox) + 1
  BY <1>1, <1>2, <1>3, AppendProperties
<1>6. /\ queue' \in Seq([tries : 0..MaxDeliveries, done : BOOLEAN])
      /\ Len(queue') = Len(queue) + 1
  BY <1>1, <1>2, <1>4, AppendProperties
<1>7. TypeOK'
  BY <1>1, <1>2, <1>5, <1>6 DEF Inv, TypeOK, JournalOK
<1>8. Len(outbox') >= 1
  BY <1>2, <1>5, LenProperties
<1>9. Progress' /\ Handled'
  BY <1>1, <1>8 DEF Inv, Progress, Handled, Sound, Cap
<1> QED
  BY <1>7, <1>9 DEF Inv

\* Messaging recovery gives up: no handler can apply anything at its old version
LEMMA ExhaustStep ==
  ASSUME Inv, Exhaust
  PROVE  Inv'
<1> DEFINE s == Target(ExhaustedKind[op.state])
<1>1. /\ op.state \in DOMAIN ExhaustedKind
      /\ op' = [op EXCEPT !.state = s, !.version = @ + 1]
      /\ UNCHANGED <<attempts, verifs, audit, outbox, queue, world, h, crashes>>
  BY DEF Exhaust
<1>2. s = "MANUAL_INTERVENTION" /\ s \in OperationStates
  BY <1>1, ExhaustedTarget DEF OperationStates
<1> HIDE DEF s
<1>3. op \in [state : OperationStates, version : Nat, effect : Effects]
  BY DEF Inv, TypeOK, JournalOK
<1>4. /\ op' \in [state : OperationStates, version : Nat, effect : Effects]
      /\ op'.state = "MANUAL_INTERVENTION" /\ op'.version = op.version + 1
  <2>1. op.version + 1 \in Nat
    BY <1>3
  <2>2. op' = [op EXCEPT !.state = s, !.version = op.version + 1]
    BY <1>1
  <2>3. [op EXCEPT !.state = s] \in [state : OperationStates, version : Nat, effect : Effects]
    BY <1>2, <1>3
  <2> QED
    BY <1>2, <1>3, <2>1, <2>2, <2>3
<1>5. TypeOK'
  BY <1>1, <1>4 DEF Inv, TypeOK, JournalOK
<1>6. Progress'
  BY <1>1, <1>4 DEF Inv, Progress, Cap
<1>7. ASSUME NEW v \in Workers
      PROVE  Sound(h'[v], Len(attempts'), Len(verifs'), op'.version)
  <2>1. /\ h[v] \in Handlers /\ Sound(h[v], Len(attempts), Len(verifs), op.version)
        /\ Len(attempts) \in Nat /\ Len(verifs) \in Nat
        /\ op.version \in Nat /\ op'.version \in Nat
    BY <1>4, Facts
  <2>2. op.version < op'.version
    BY <1>4, <2>1
  <2>3. Sound(h[v], Len(attempts), Len(verifs), op'.version)
    BY <2>1, <2>2, SoundKeeps, SMTT(30)
  <2> QED
    BY <1>1, <2>3
<1>8. Handled'
  BY <1>7 DEF Handled
<1> QED
  BY <1>5, <1>6, <1>8 DEF Inv

-----------------------------------------------------------------------------
(***************************************************************************)
(* The invariant and what it gives                                        *)
(***************************************************************************)

\* The first state: one EXECUTE message and nothing tried yet
LEMMA InitInv == Init => Inv
<1> SUFFICES ASSUME Init
             PROVE  Inv
  OBVIOUS
<1>1. attempts = <<>> /\ verifs = <<>> /\ world = <<>> /\ audit = {} /\ crashes = 0
  BY DEF Init
<1>2. /\ op \in [state : {"READY"}, version : {2}, effect : Effects]
      /\ h = [w \in Workers |-> Idle]
  BY DEF Init
<1> DEFINE row == [cmd |-> "EXECUTE", version |-> 2, replay |-> FALSE]
           message == [tries |-> 0, done |-> FALSE]
<1>3. outbox = <<row>> /\ queue = <<message>>
  BY DEF Init
<1>4. row \in [cmd : Commands, version : Nat, replay : BOOLEAN]
  BY DEF Commands
<1>5. message \in [tries : 0..MaxDeliveries, done : BOOLEAN]
  BY ExecutionAssumption
<1> HIDE DEF row, message
<1>6. /\ outbox \in Seq([cmd : Commands, version : Nat, replay : BOOLEAN])
      /\ queue \in Seq([tries : 0..MaxDeliveries, done : BOOLEAN])
      /\ Len(outbox) = 1 /\ Len(queue) = 1
  BY <1>3, <1>4, <1>5
<1>7. op \in [state : OperationStates, version : Nat, effect : Effects] /\ op.state = "READY"
      /\ op.version = 2
  BY <1>2 DEF OperationStates
<1>8. JournalOK
  BY <1>1, <1>6, <1>7 DEF JournalOK
<1>9. Idle \in Handlers /\ Idle.pc = "idle" /\ Idle.ver = 0
  BY DEF Idle, Handlers, PCs, None
<1>10. TypeOK
  BY <1>1, <1>2, <1>6, <1>8, <1>9 DEF TypeOK
<1>11. Progress
  BY <1>1, <1>6, <1>7, CapIsPositive DEF Progress
<1>12. Handled
  BY <1>2, <1>7, <1>9 DEF Handled, Sound
<1> QED
  BY <1>10, <1>11, <1>12 DEF Inv

\* Stuttering changes nothing the invariant speaks of
LEMMA StutterInv ==
  ASSUME Inv, UNCHANGED vars
  PROVE  Inv'
<1>1. UNCHANGED <<journal, h, crashes, queue>> /\ UNCHANGED world
  BY DEF vars, journal
<1>2. world' \in Seq(Requests) /\ Len(world') = Len(attempts)
  BY <1>1 DEF Inv, TypeOK
<1> QED
  BY <1>1, <1>2, WorldStep

\* Every step keeps the invariant
LEMMA NextInv == Inv /\ [Next]_vars => Inv'
<1> SUFFICES ASSUME Inv, [Next]_vars
             PROVE  Inv'
  OBVIOUS
<1>1. ASSUME NEW w \in Workers, Step(w)
      PROVE  Inv'
  <2>1. CASE Load(w)
    BY <2>1, LoadStep
  <2>2. CASE Execute(w)
    BY <2>2, ExecuteStep
  <2>3. CASE Claim(w)
    BY <2>3, ClaimStep
  <2>4. CASE Call(w)
    BY <2>4, CallStep
  <2>5. CASE Return(w)
    BY <2>5, ReturnStep
  <2>6. CASE PersistEvidence(w)
    BY <2>6, PersistStep
  <2>7. CASE ApplyExecution(w)
    BY <2>7, ApplyStep
  <2>8. CASE Recover(w)
    BY <2>8, RecoverStep
  <2>9. CASE Inspect(w)
    BY <2>9, InspectStep
  <2>10. CASE Abandon(w)
    BY <2>10, AbandonStep
  <2>11. CASE Recovery(w)
    BY <2>11, RecoveryStep
  <2>12. CASE StartVerification(w)
    BY <2>12, StartStep
  <2>13. CASE Rejoin(w)
    BY <2>13, RejoinStep
  <2>14. CASE Cycle(w)
    BY <2>14, CycleStep
  <2>15. CASE Verify(w)
    BY <2>15, VerifyStep
  <2>16. CASE Record(w)
    BY <2>16, RecordStep
  <2>17. CASE Gather(w)
    BY <2>17, GatherStep
  <2>18. CASE Conclude(w)
    BY <2>18, ConcludeStep
  <2>19. CASE Weigh(w)
    BY <2>19, WeighStep
  <2>20. CASE Resolve(w)
    BY <2>20, ResolveStep
  <2>21. CASE Ack(w) \/ Nak(w) \/ Overflow(w)
    BY <2>21, BrokerSteps
  <2> QED
    BY <1>1, <2>1, <2>2, <2>3, <2>4, <2>5, <2>6, <2>7, <2>8, <2>9, <2>10, <2>11, <2>12,
       <2>13, <2>14, <2>15, <2>16, <2>17, <2>18, <2>19, <2>20, <2>21 DEF Step
<1>2. ASSUME NEW w \in Workers, Crash(w)
      PROVE  Inv'
  BY <1>2, BrokerSteps
<1>3. ASSUME NEW w \in Workers, NEW e \in DOMAIN queue, Deliver(w, e)
      PROVE  Inv'
  BY <1>3, DeliverStep
<1>4. CASE Provider
  BY <1>4, ProviderStep
<1>5. CASE Republish
  BY <1>5, RepublishStep
<1>6. CASE Exhaust
  BY <1>6, ExhaustStep
<1>7. CASE UNCHANGED vars
  BY <1>7, StutterInv
<1> QED
  BY <1>1, <1>2, <1>3, <1>4, <1>5, <1>6, <1>7 DEF Next

\* The invariant holds in every state of every behaviour
THEOREM Invariance == Spec => []Inv
BY InitInv, NextInv, PTL DEF Spec

\* The rows, the broker's view and the handlers keep their types, an attempt row
\* and its provider request come together, and so do an outbox row and its message
THEOREM TypeCorrect == Spec => []TypeOK
<1>1. Inv => TypeOK
  BY DEF Inv
<1> QED
  BY <1>1, Invariance, PTL

\* However many workers share the messages, however often these are delivered and
\* whoever crashes, the operation is claimed no more often than policy allows
THEOREM BudgetKept == Spec => []AttemptBudget
<1>1. Inv => AttemptBudget
  BY DEF Inv, Progress, AttemptBudget, Cap
<1> QED
  BY <1>1, Invariance, PTL
=============================================================================
