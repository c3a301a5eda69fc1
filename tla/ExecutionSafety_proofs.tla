------------------------ MODULE ExecutionSafety_proofs ------------------------
(***************************************************************************)
(* Proofs about module Execution, beyond the types and the budget: the    *)
(* evidence of a row is final and true, one handler at a time calls the   *)
(* provider for an attempt, each attempt has a claiming message of its    *)
(* own, verification ends, and work in progress is covered by a command.  *)
(*                                                                         *)
(* None of these is inductive.  What makes them so is what a handler      *)
(* knows between two units of work: whoever holds an attempt's number     *)
(* before its evidence is written holds it alone, and whoever holds a     *)
(* version that is still the operation's holds the latest verification.   *)
(***************************************************************************)
EXTENDS Execution_proofs

\* Where a handler carries an attempt, where a verification, where neither
Attempting == {"call", "flight", "evidence", "apply", "resolve"}
Verifying == {"cycle", "verify", "record", "gather", "conclude"}
Resting == PCs \ (Attempting \union Verifying)

\* Only handler w takes part in the step
Alone(w) == \A v \in Workers \ {w} : h'[v] = h[v]

\* Handler w goes on without touching a row or a request
Quiet(w, pcs) ==
  /\ UNCHANGED <<op, attempts, verifs, audit, outbox, world>>
  /\ Alone(w) /\ h'[w].pc \in pcs

\* The rows of an admitted transition of this kind, with this audit row
Written(kind, row) ==
  /\ op.state = Source(kind) /\ op'.state = Target(kind)
  /\ op'.version = op.version + 1 /\ op'.effect = op.effect
  /\ row \notin audit /\ audit' = audit \union {row}
  /\ \/ OutboxCommand(kind) = NoCommand /\ outbox' = outbox
     \/ /\ OutboxCommand(kind) # NoCommand
        /\ outbox' = Append(outbox, [cmd |-> OutboxCommand(kind),
                                     version |-> op.version + 1, replay |-> FALSE])

-----------------------------------------------------------------------------
(***************************************************************************)
(* What a step does, without the forms in which the model writes it.      *)
(* Handler w moves on quietly, or in one of these ways.                   *)
(***************************************************************************)

\* A claim starts an attempt with a request of its own
Claimed(w) ==
  /\ Written("CLAIM_EXECUTION", <<h[w].ev, "claim">>)
  /\ attempts' = Append(attempts, "STARTED") /\ world' = Append(world, "UNSENT")
  /\ verifs' = verifs
  /\ h'[w].pc = "call" /\ h'[w].num = Len(attempts) + 1 /\ Alone(w)

\* The request leaves
Called(w) ==
  /\ UNCHANGED <<op, attempts, verifs, audit, outbox>>
  /\ world' = [world EXCEPT ![h[w].num] = "EN_ROUTE"]
  /\ h[w].pc = "call" /\ h'[w].pc = "flight" /\ h'[w].num = h[w].num /\ Alone(w)

\* The call returns what is true of the request, or nothing
Returned(w) ==
  /\ Quiet(w, {"evidence"}) /\ h[w].pc = "flight" /\ h'[w].num = h[w].num
  /\ h'[w].out \in Evidence(world[h[w].num])

\* The evidence becomes durable
Persisted(w) ==
  /\ UNCHANGED <<op, verifs, audit, outbox, world>>
  /\ h[w].pc = "evidence" /\ attempts[h[w].num] = "STARTED"
  /\ attempts' = [attempts EXCEPT ![h[w].num] = h[w].out]
  /\ h'[w].pc = "apply" /\ h'[w].num = h[w].num /\ h'[w].out = h[w].out /\ Alone(w)

\* The evidence of an attempt makes a transition
Applied(w) ==
  \E kind, row :
    /\ kind = ExecutionKind(h[w].out, Descriptor, Obligation, h[w].num,
                RegistryRetrySafety(Descriptor, h[w].out, None, FALSE))
    /\ row = <<h[w].ev, h[w].role>> /\ h[w].pc = "apply"
    /\ Written(kind, row) /\ op.version = h[w].ver
    /\ AttemptMatches(h[w].num, h[w].out)
    /\ attempts' = [attempts EXCEPT ![h[w].num] = h[w].out]
    /\ verifs' = IF kind = "EXECUTION_REQUIRE_VERIFICATION"
                 THEN Append(verifs, None) ELSE verifs
    /\ world' = world
    /\ h'[w].pc \in Resting /\ Alone(w)

\* Recovery finds durable evidence
Inspected(w) ==
  /\ Quiet(w, {"apply"}) /\ h'[w].num = h[w].num /\ h[w].num \in 1..Len(attempts)
  /\ attempts[h[w].num] # "STARTED" /\ h'[w].out = attempts[h[w].num]

\* Recovery gives up on an attempt without completing it
Abandoned(w) ==
  /\ Written("EXECUTION_UNKNOWN", <<h[w].ev, "recover">>)
  /\ UNCHANGED <<attempts, verifs, world>>
  /\ h'[w].pc \in Resting /\ Alone(w)

\* A handler takes part in the cycle of the latest verification
Joined(w) ==
  /\ Quiet(w, {"cycle"}) /\ op.state = "VERIFYING"
  /\ h'[w].ver = op.version /\ h'[w].vid = Len(verifs)

\* A verification is started
Started(w) ==
  /\ Written("UNKNOWN_START_VERIFICATION", <<h[w].ev, "start">>)
  /\ UNCHANGED <<attempts, world>> /\ verifs' = Append(verifs, None)
  /\ h'[w].pc = "cycle" /\ h'[w].ver = op.version + 1
  /\ h'[w].vid = Len(verifs) + 1 /\ Alone(w)

\* What a handler in the verification cycle keeps of its record
Keeps(w, pcs) ==
  /\ h'[w].pc \in pcs /\ h'[w].ver = h[w].ver /\ h'[w].vid = h[w].vid /\ Alone(w)

\* A result already in the row is taken from there, else the provider is asked
Cycled(w) ==
  /\ UNCHANGED <<op, attempts, verifs, audit, outbox, world>> /\ h[w].pc = "cycle"
  /\ \/ Keeps(w, {"verify"})
     \/ /\ Keeps(w, {"gather"})
        /\ verifs[h[w].vid] # None /\ h'[w].res = verifs[h[w].vid]

\* The provider answers what is true now, or nothing
Truth == IF \E i \in DOMAIN world : world[i] = "LANDED" THEN "APPLIED" ELSE "NOT_APPLIED"

Asked(w) ==
  /\ UNCHANGED <<op, attempts, verifs, audit, outbox, world>>
  /\ h[w].pc = "verify" /\ Keeps(w, {"record"})
  /\ h'[w].res \in {Truth, "UNKNOWN", "UNSUPPORTED"}

\* The first result stays in the row; the same outcome is accepted again
Recorded(w) ==
  /\ UNCHANGED <<op, attempts, audit, outbox, world>> /\ h[w].pc = "record"
  /\ Keeps(w, {"gather"}) /\ h'[w].res = h[w].res
  /\ \/ verifs[h[w].vid] # None /\ verifs' = verifs
     \/ /\ verifs[h[w].vid] = None
        /\ verifs' = [verifs EXCEPT ![h[w].vid] = h[w].res]

\* The rows are read before the decision
Gathered(w) ==
  /\ UNCHANGED <<op, attempts, verifs, audit, outbox, world>>
  /\ h[w].pc = "gather" /\ Keeps(w, {"conclude"}) /\ h'[w].res = h[w].res
  /\ h'[w].num = Len(attempts) /\ h'[w].out = LatestOutcome
  /\ h'[w].cnt = CompletedVerifications

\* The result of a verification makes a transition
Concluded(w) ==
  \E kind :
    /\ kind = VerificationKind(h[w].res, h[w].out, h[w].num, h[w].cnt,
                               Descriptor, Obligation)
    /\ Written(kind, <<h[w].ev, "complete">>) /\ op.version = h[w].ver
    /\ h[w].pc = "conclude" /\ ResultMatches(h[w].vid, h[w].res)
    /\ verifs' = IF verifs[h[w].vid] = None
                 THEN [verifs EXCEPT ![h[w].vid] = h[w].res] ELSE verifs
    /\ UNCHANGED <<attempts, world>>
    /\ h'[w].pc \in Resting /\ Alone(w)

\* The attempts are read before the decision on an unverifiable effect
Weighed(w) ==
  /\ Quiet(w, {"resolve"}) /\ h[w].pc = "weigh"
  /\ h'[w].num = Len(attempts) /\ h'[w].out = LatestOutcome

\* An effect that cannot be verified is retried or left to a human
Resolved(w) ==
  \E elapsed, kind :
    /\ elapsed \in BOOLEAN
    /\ kind = UnverifiableKind(h[w].out, h[w].num, elapsed, Descriptor, Obligation)
    /\ Written(kind, <<h[w].ev, "complete">>) /\ op.version = h[w].ver
    /\ h[w].pc = "resolve"
    /\ kind = "UNKNOWN_SAFE_RETRY" => RetryAdmitted(Descriptor, h[w].out, None)
    /\ UNCHANGED <<attempts, verifs, world>>
    /\ h'[w].pc \in Resting /\ Alone(w)

Effect(w) ==
  \/ Quiet(w, Resting)
  \/ Claimed(w) \/ Called(w) \/ Returned(w) \/ Persisted(w) \/ Applied(w)
  \/ Inspected(w) \/ Abandoned(w)
  \/ Joined(w) \/ Started(w) \/ Cycled(w) \/ Asked(w) \/ Recorded(w) \/ Gathered(w)
  \/ Concluded(w) \/ Weighed(w) \/ Resolved(w)

-----------------------------------------------------------------------------
(***************************************************************************)
(* Every step of a handler has one of these effects                       *)
(***************************************************************************)

\* The one handler that becomes r, and the others
LEMMA Became ==
  ASSUME Inv, NEW w \in Workers, NEW r, Become(w, r)
  PROVE  h'[w] = r /\ Alone(w)
BY DEF Inv, TypeOK, Become, Alone

\* The rows that are written together with an admitted transition
LEMMA WrittenBy ==
  ASSUME Inv, NEW w \in Workers, NEW kind, NEW version \in Nat, NEW pre, NEW row,
         ApplyResult(kind, version, pre, row) = "APPLIED", Commit(kind, row)
  PROVE  Written(kind, row) /\ op.version = version /\ pre
<1>1. op \in [state : OperationStates, version : Nat, effect : Effects]
  BY DEF Inv, TypeOK, JournalOK
<1>2. op.version = version /\ op.state = Source(kind) /\ pre
  BY <1>1, AppliedMeans
<1>3. row \notin audit
  BY <1>1, <1>2 DEF ApplyResult, Used
<1>4. /\ op'.state = Target(kind) /\ op'.version = op.version + 1
      /\ op'.effect = op.effect
  <2> DEFINE s == Target(kind)
  <2>1. op' = [op EXCEPT !.state = s, !.version = @ + 1]
    BY DEF Commit
  <2> HIDE DEF s
  <2>2. op'.state = s /\ op'.version = op.version + 1 /\ op'.effect = op.effect
    BY <1>1, <2>1
  <2> QED
    BY <2>2 DEF s
<1>5. \/ OutboxCommand(kind) = NoCommand /\ outbox' = outbox
      \/ /\ OutboxCommand(kind) # NoCommand
         /\ outbox' = Append(outbox, [cmd |-> OutboxCommand(kind),
                                      version |-> op.version + 1, replay |-> FALSE])
  BY DEF Commit
<1>6. audit' = audit \union {row}
  BY DEF Commit
<1> QED
  BY <1>2, <1>3, <1>4, <1>5, <1>6 DEF Written

\* A handler that has finished rests
LEMMA FinishIs ==
  ASSUME Inv, NEW w \in Workers, NEW pc \in PCs, Finish(w, pc)
  PROVE  h'[w].pc = pc /\ Alone(w)
<1>1. h'[w] = At(w, pc) /\ Alone(w)
  BY Became DEF Finish
<1> QED
  BY <1>1, AtFields, Facts

LEMMA AnswerIs ==
  ASSUME Inv, NEW w \in Workers, NEW result, Answer(w, result)
  PROVE  Quiet(w, {"ack", "nak"})
<1>1. PICK pc \in {"ack", "nak"} : Finish(w, pc)
  BY DEF Answer
<1>2. h'[w].pc = pc /\ Alone(w)
  BY <1>1, FinishIs DEF PCs
<1>3. UNCHANGED <<op, attempts, verifs, audit, outbox, world>>
  BY DEF Answer, journal
<1> QED
  BY <1>2, <1>3 DEF Quiet

\* Dispatch, answers to the broker, deliveries and crashes
LEMMA BrokerIs ==
  ASSUME Inv, NEW w \in Workers,
         \/ Load(w) \/ Ack(w) \/ Nak(w) \/ Overflow(w) \/ Crash(w)
         \/ \E e \in DOMAIN queue : Deliver(w, e)
  PROVE  Quiet(w, Resting)
<1> USE DEF Resting, Attempting, Verifying, PCs
<1>1. Idle.pc = "idle"
  BY DEF Idle
<1>2. CASE Load(w)
  <2>1. PICK pc \in {"execute", "recover", "recovery", "ack"}, v \in Nat :
          Become(w, [At(w, pc) EXCEPT !.exp = v])
    BY <1>2, Facts DEF Load
  <2>2. h'[w] = [At(w, pc) EXCEPT !.exp = v] /\ Alone(w)
    BY <2>1, Became
  <2>3. h'[w].pc = pc
    BY <2>2, AtFields, ExpectedSet, Facts
  <2> QED
    BY <1>2, <2>2, <2>3 DEF Load, journal, Quiet
<1>3. CASE Ack(w) \/ Nak(w) \/ Overflow(w) \/ Crash(w)
  <2>1. Become(w, Idle) /\ UNCHANGED <<journal, world>>
    BY <1>3 DEF Ack, Nak, Overflow, Crash
  <2> QED
    BY <1>1, <2>1, Became DEF journal, Quiet
<1>4. ASSUME NEW e \in DOMAIN queue, Deliver(w, e)
      PROVE  Quiet(w, Resting)
  <2> DEFINE r == [Idle EXCEPT !.pc = "load", !.ev = e, !.n = queue[e].tries + 1]
  <2>1. Become(w, r) /\ UNCHANGED <<journal, world>>
    BY <1>4 DEF Deliver
  <2>2. r.pc = "load"
    BY DEF Idle
  <2> HIDE DEF r
  <2> QED
    BY <2>1, <2>2, Became DEF journal, Quiet
<1> QED
  BY <1>2, <1>3, <1>4

\* A handler that moves on within the record it has
LEMMA GotoIs ==
  ASSUME Inv, NEW w \in Workers, NEW pc \in PCs, Goto(w, pc)
  PROVE  h'[w] = [h[w] EXCEPT !.pc = pc] /\ h'[w].pc = pc /\ Alone(w)
<1>1. h'[w] = [h[w] EXCEPT !.pc = pc] /\ Alone(w)
  BY Became DEF Goto
<1> QED
  BY <1>1, Facts DEF Handlers

\* Going to look at the latest attempt of an EXECUTING operation
LEMMA ToInspectIs ==
  ASSUME Inv, NEW w \in Workers, NEW role \in {"execute", "recover"},
         Become(w, [At(w, "inspect") EXCEPT !.ver = op.version,
                      !.num = Len(attempts), !.role = role])
  PROVE  h'[w].pc = "inspect" /\ Alone(w)
<1>1. At(w, "inspect") \in Handlers /\ At(w, "inspect").pc = "inspect"
  BY AtFields, Facts DEF PCs
<1>2. h'[w] = [At(w, "inspect") EXCEPT !.ver = op.version, !.num = Len(attempts),
                 !.role = role] /\ Alone(w)
  BY Became
<1> QED
  BY <1>1, <1>2 DEF Handlers

LEMMA ExecuteIs ==
  ASSUME Inv, NEW w \in Workers, Execute(w) \/ Recover(w)
  PROVE  Quiet(w, Resting)
<1> USE DEF Resting, Attempting, Verifying, PCs
<1>1. UNCHANGED <<op, attempts, verifs, audit, outbox, world>>
  BY DEF Execute, Recover, journal
<1>2. \/ Goto(w, "claim") \/ Finish(w, "ack")
      \/ \E role \in {"execute", "recover"} :
           Become(w, [At(w, "inspect") EXCEPT !.ver = op.version,
                        !.num = Len(attempts), !.role = role])
  BY DEF Execute, Recover
<1>3. h'[w].pc \in {"claim", "ack", "inspect"} /\ Alone(w)
  BY <1>2, GotoIs, FinishIs, ToInspectIs
<1> QED
  BY <1>1, <1>3 DEF Quiet

\* A claim starts an attempt with a request of its own, or touches no row
LEMMA ClaimIs ==
  ASSUME Inv, NEW w \in Workers, Claim(w)
  PROVE  Quiet(w, Resting) \/ Claimed(w)
<1> USE DEF Claimed
<1> DEFINE row == <<h[w].ev, "claim">>
           result == ApplyResult("CLAIM_EXECUTION", h[w].exp, TRUE, row)
<1>1. CASE result = "APPLIED"
  <2>1. /\ Commit("CLAIM_EXECUTION", row)
        /\ attempts' = Append(attempts, "STARTED") /\ world' = Append(world, "UNSENT")
        /\ Become(w, [At(w, "call") EXCEPT !.ver = op.version + 1,
                        !.num = Len(attempts) + 1, !.role = "execute"])
        /\ verifs' = verifs
    BY <1>1 DEF Claim
  <2>2. At(w, "call") \in Handlers /\ At(w, "call").pc = "call"
    BY AtFields, Facts DEF PCs
  <2> DEFINE r == [At(w, "call") EXCEPT !.ver = op.version + 1,
                     !.num = Len(attempts) + 1, !.role = "execute"]
  <2>3. r.pc = "call" /\ r.num = Len(attempts) + 1
    BY <2>2 DEF Handlers
  <2>5. h'[w].pc = "call" /\ h'[w].num = Len(attempts) + 1 /\ Alone(w)
    <3> HIDE DEF r
    <3>1. Become(w, r)
      BY <2>1 DEF r
    <3> QED
      BY <2>3, <3>1, Became
  <2>4. Written("CLAIM_EXECUTION", row)
    BY <1>1, <2>1, HandlerNumbers, WrittenBy
  <2> QED
    BY <2>1, <2>4, <2>5
<1>2. CASE result \in {"CONFLICT", "ALREADY_APPLIED"}
  <2>1. PICK pc \in {"execute", "overflow"} :
          Become(w, [h[w] EXCEPT !.pc = pc, !.depth = h[w].depth + 1])
    BY <1>2 DEF Claim
  <2>2. h'[w] = [h[w] EXCEPT !.pc = pc, !.depth = h[w].depth + 1] /\ Alone(w)
    BY <2>1, Became
  <2>4. h'[w].pc = pc
    BY <2>2, Facts DEF Handlers
  <2>3. UNCHANGED <<op, attempts, verifs, audit, outbox, world>>
    BY <1>2 DEF Claim, journal
  <2> QED
    BY <2>2, <2>3, <2>4 DEF Quiet, Resting, Attempting, Verifying, PCs
<1>3. CASE result \in {"REJECTED", "DUPLICATE"}
  <2>1. Answer(w, result)
    BY <1>3 DEF Claim
  <2> QED
    BY <2>1, AnswerIs DEF Quiet, Resting, Attempting, Verifying, PCs
<1>4. result \in {"APPLIED", "CONFLICT", "ALREADY_APPLIED", "REJECTED", "DUPLICATE"}
  BY HandlerNumbers DEF ApplyResult
<1> QED
  BY <1>1, <1>2, <1>3, <1>4

\* The request leaves, and the call returns what is true of it or nothing
LEMMA CallIs ==
  ASSUME Inv, NEW w \in Workers, Call(w)
  PROVE  Called(w)
<1> USE DEF Called
<1>1. h'[w] = [h[w] EXCEPT !.pc = "flight"] /\ h'[w].pc = "flight" /\ Alone(w)
  BY GotoIs DEF Call, PCs
<1>2. h'[w].num = h[w].num
  BY <1>1, Facts DEF Handlers
<1> QED
  BY <1>1, <1>2 DEF Call, journal

LEMMA ReturnIs ==
  ASSUME Inv, NEW w \in Workers, Return(w)
  PROVE  Returned(w)
<1> USE DEF Returned
<1>1. PICK outcome \in Evidence(world[h[w].num]) :
        Become(w, [h[w] EXCEPT !.pc = "evidence", !.out = outcome])
  BY DEF Return
<1>2. h'[w] = [h[w] EXCEPT !.pc = "evidence", !.out = outcome] /\ Alone(w)
  BY <1>1, Became
<1>3. h'[w].pc = "evidence" /\ h'[w].num = h[w].num /\ h'[w].out = outcome
  BY <1>2, Facts DEF Handlers
<1> QED
  BY <1>2, <1>3 DEF Return, Quiet, journal

LEMMA PersistIs ==
  ASSUME Inv, NEW w \in Workers, PersistEvidence(w)
  PROVE  Quiet(w, Resting) \/ Persisted(w)
<1> USE DEF Persisted
<1>1. CASE attempts[h[w].num] = "STARTED"
  <2>1. /\ attempts' = [attempts EXCEPT ![h[w].num] = h[w].out]
        /\ Goto(w, "apply")
        /\ UNCHANGED <<op, verifs, audit, outbox, world>>
    BY <1>1 DEF PersistEvidence
  <2>2. h'[w] = [h[w] EXCEPT !.pc = "apply"] /\ h'[w].pc = "apply" /\ Alone(w)
    BY <2>1, GotoIs DEF PCs
  <2>3. h'[w].num = h[w].num /\ h'[w].out = h[w].out
    BY <2>2, Facts DEF Handlers
  <2> QED
    BY <1>1, <2>1, <2>2, <2>3 DEF PersistEvidence
<1>2. CASE attempts[h[w].num] # "STARTED"
  <2>1. Answer(w, "DUPLICATE") /\ h[w].pc = "evidence"
    BY <1>2 DEF PersistEvidence
  <2> QED
    BY <2>1, AnswerIs DEF Quiet, Resting, Attempting, Verifying, PCs
<1> QED
  BY <1>1, <1>2

\* What an answer, or the transition a handler ends with, leaves it at
LEMMA EndsResting ==
  ASSUME Inv, NEW w \in Workers, NEW result, Answer(w, result)
  PROVE  Quiet(w, Resting)
BY AnswerIs DEF Quiet, Resting, Attempting, Verifying, PCs

LEMMA FinishesResting ==
  ASSUME Inv, NEW w \in Workers, Finish(w, "ack")
  PROVE  h'[w].pc \in Resting /\ Alone(w)
BY FinishIs DEF Resting, Attempting, Verifying, PCs

\* The evidence of an attempt asks for a transition
LEMMA ApplyIs ==
  ASSUME Inv, NEW w \in Workers, ApplyExecution(w)
  PROVE  Quiet(w, Resting) \/ Applied(w)
<1> USE DEF Applied
<1> DEFINE kind == ExecutionKind(h[w].out, Descriptor, Obligation, h[w].num,
                     RegistryRetrySafety(Descriptor, h[w].out, None, FALSE))
           row == <<h[w].ev, h[w].role>>
           pre == /\ AttemptMatches(h[w].num, h[w].out)
                  /\ kind = "EXECUTION_NOT_APPLIED_RETRY"
                       => RetryAdmitted(Descriptor, "NOT_APPLIED", None)
           result == ApplyResult(kind, h[w].ver, pre, row)
<1>1. /\ h[w].pc = "apply"
      /\ IF result = "APPLIED"
         THEN /\ Commit(kind, row)
              /\ attempts' = [attempts EXCEPT ![h[w].num] = h[w].out]
              /\ verifs' = IF kind = "EXECUTION_REQUIRE_VERIFICATION"
                           THEN Append(verifs, None) ELSE verifs
              /\ Finish(w, "ack")
              /\ UNCHANGED <<world, crashes>>
         ELSE Answer(w, result)
  BY DEF ApplyExecution
<1> HIDE DEF kind, row
<1>2. CASE result = "APPLIED"
  <2>1. Written(kind, row) /\ op.version = h[w].ver /\ pre
    BY <1>1, <1>2, HandlerNumbers, WrittenBy
  <2>2. h'[w].pc \in Resting /\ Alone(w)
    BY <1>1, <1>2, FinishesResting
  <2> QED
    BY <1>1, <1>2, <2>1, <2>2 DEF kind, row
<1>3. CASE result # "APPLIED"
  BY <1>1, <1>3, EndsResting
<1> QED
  BY <1>1, <1>2, <1>3

LEMMA InspectIs ==
  ASSUME Inv, NEW w \in Workers, Inspect(w)
  PROVE  Quiet(w, Resting) \/ Inspected(w)
<1> USE DEF Inspected
<1>1. UNCHANGED <<op, attempts, verifs, audit, outbox, world>>
      /\ h[w].num \in 1..Len(attempts)
  BY Facts DEF Inspect, journal, Sound
<1>2. CASE attempts[h[w].num] = "STARTED"
  <2>1. Goto(w, "abandon") \/ Finish(w, "ack")
    BY <1>2 DEF Inspect
  <2>2. h'[w].pc \in {"abandon", "ack"} /\ Alone(w)
    BY <2>1, GotoIs, FinishIs DEF PCs
  <2> QED
    BY <1>1, <2>2 DEF Quiet, Resting, Attempting, Verifying, PCs
<1>3. CASE attempts[h[w].num] # "STARTED"
  <2> DEFINE row == attempts[h[w].num]
  <2>1. Become(w, [h[w] EXCEPT !.pc = "apply", !.out = row])
    BY <1>3 DEF Inspect
  <2> HIDE DEF row
  <2>2. h'[w] = [h[w] EXCEPT !.pc = "apply", !.out = row] /\ Alone(w)
    BY <2>1, Became
  <2>3. h'[w].pc = "apply" /\ h'[w].num = h[w].num /\ h'[w].out = row
    BY <2>2, Facts DEF Handlers
  <2> QED
    BY <1>1, <1>3, <2>2, <2>3 DEF Quiet, row
<1> QED
  BY <1>2, <1>3

\* Recovery gives up on an attempt without completing it
LEMMA AbandonIs ==
  ASSUME Inv, NEW w \in Workers, Abandon(w)
  PROVE  Quiet(w, Resting) \/ Abandoned(w)
<1> USE DEF Abandoned
<1> DEFINE row == <<h[w].ev, "recover">>
           pre == attempts[Len(attempts)] = "STARTED"
           result == ApplyResult("EXECUTION_UNKNOWN", h[w].ver, pre, row)
<1>1. IF result = "APPLIED"
      THEN /\ Commit("EXECUTION_UNKNOWN", row) /\ Finish(w, "ack")
           /\ UNCHANGED <<attempts, verifs, world, crashes>>
      ELSE Answer(w, result)
  BY DEF Abandon
<1>2. CASE result = "APPLIED"
  BY <1>1, <1>2, HandlerNumbers, WrittenBy, FinishesResting
<1>3. CASE result # "APPLIED"
  BY <1>1, <1>3, EndsResting
<1> QED
  BY <1>2, <1>3


LEMMA ToCycleIs ==
  ASSUME Inv, NEW w \in Workers, NEW version \in Nat, NEW vid \in Nat,
         Become(w, [At(w, "cycle") EXCEPT !.ver = version, !.vid = vid])
  PROVE  h'[w].pc = "cycle" /\ h'[w].ver = version /\ h'[w].vid = vid /\ Alone(w)
<1>1. At(w, "cycle") \in Handlers /\ At(w, "cycle").pc = "cycle"
  BY AtFields, Facts DEF PCs
<1>2. h'[w] = [At(w, "cycle") EXCEPT !.ver = version, !.vid = vid] /\ Alone(w)
  BY Became
<1> QED
  BY <1>1, <1>2 DEF Handlers

LEMMA RecoveryIs ==
  ASSUME Inv, NEW w \in Workers, Recovery(w) \/ Rejoin(w)
  PROVE  Quiet(w, Resting) \/ Joined(w)
<1>1. UNCHANGED <<op, attempts, verifs, audit, outbox, world>>
  BY DEF Recovery, Rejoin, journal
<1>2. CASE op.state = "VERIFYING"
  <2>1. Become(w, [At(w, "cycle") EXCEPT !.ver = op.version, !.vid = Len(verifs)])
    BY <1>2 DEF Recovery, Rejoin
  <2>2. op.version \in Nat /\ Len(verifs) \in Nat
    BY Facts
  <2>3. /\ h'[w].pc = "cycle" /\ h'[w].ver = op.version /\ h'[w].vid = Len(verifs)
        /\ Alone(w)
    BY <2>1, <2>2, ToCycleIs
  <2> QED
    BY <1>1, <1>2, <2>3 DEF Joined, Quiet
<1>3. CASE op.state = "UNKNOWN" /\ Recovery(w)
  <2>1. PICK pc \in {"start", "weigh"} : Become(w, [At(w, pc) EXCEPT !.ver = op.version])
    BY <1>3 DEF Recovery
  <2>2. At(w, pc) \in Handlers /\ At(w, pc).pc = pc
    BY AtFields, Facts DEF PCs
  <2>3. h'[w] = [At(w, pc) EXCEPT !.ver = op.version] /\ Alone(w)
    BY <2>1, Became
  <2>4. h'[w].pc = pc
    BY <2>2, <2>3 DEF Handlers
  <2> QED
    BY <1>1, <2>3, <2>4 DEF Quiet, Resting, Attempting, Verifying, PCs
<1>4. CASE op.state # "VERIFYING" /\ ~(op.state = "UNKNOWN" /\ Recovery(w))
  <2>1. Finish(w, "recover") \/ Finish(w, "ack")
    BY <1>4 DEF Recovery, Rejoin
  <2>2. h'[w].pc \in {"recover", "ack"} /\ Alone(w)
    BY <2>1, FinishIs DEF PCs
  <2> QED
    BY <1>1, <2>2 DEF Quiet, Resting, Attempting, Verifying, PCs
<1> QED
  BY <1>2, <1>3, <1>4

LEMMA StartIs ==
  ASSUME Inv, NEW w \in Workers, StartVerification(w)
  PROVE  Quiet(w, Resting) \/ Started(w)
<1> USE DEF Started
<1> DEFINE row == <<h[w].ev, "start">>
           result == ApplyResult("UNKNOWN_START_VERIFICATION", h[w].ver, TRUE, row)
<1>1. CASE result = "APPLIED"
  <2>1. /\ Commit("UNKNOWN_START_VERIFICATION", row)
        /\ verifs' = Append(verifs, None) /\ UNCHANGED <<attempts, world>>
        /\ Become(w, [At(w, "cycle") EXCEPT !.ver = op.version + 1,
                                            !.vid = Len(verifs) + 1])
    BY <1>1 DEF StartVerification
  <2>2. Written("UNKNOWN_START_VERIFICATION", row)
    BY <1>1, <2>1, HandlerNumbers, WrittenBy
  <2>3. op.version + 1 \in Nat /\ Len(verifs) + 1 \in Nat
    BY HandlerNumbers
  <2>4. /\ h'[w].pc = "cycle" /\ h'[w].ver = op.version + 1
        /\ h'[w].vid = Len(verifs) + 1 /\ Alone(w)
    BY <2>1, <2>3, ToCycleIs, ZenonT(40)
  <2> QED
    BY <2>1, <2>2, <2>4
<1>2. CASE result = "ALREADY_APPLIED"
  <2>1. Finish(w, "rejoin") /\ UNCHANGED <<op, attempts, verifs, audit, outbox, world>>
    BY <1>2 DEF StartVerification, journal
  <2>2. h'[w].pc = "rejoin" /\ Alone(w)
    BY <2>1, FinishIs DEF PCs
  <2> QED
    BY <2>1, <2>2 DEF Quiet, Resting, Attempting, Verifying, PCs
<1>3. CASE result \notin {"APPLIED", "ALREADY_APPLIED"}
  <2>1. Answer(w, result)
    BY <1>3 DEF StartVerification
  <2> QED
    BY <2>1, EndsResting
<1> QED
  BY <1>1, <1>2, <1>3


\* A result already in the row is taken from there, else the provider is asked
LEMMA CycleIs ==
  ASSUME Inv, NEW w \in Workers, Cycle(w)
  PROVE  Cycled(w)
<1> USE DEF Cycled
<1>1. UNCHANGED <<op, attempts, verifs, audit, outbox, world>> /\ h[w].pc = "cycle"
  BY DEF Cycle, journal
<1>2. CASE verifs[h[w].vid] = None
  <2>1. h'[w] = [h[w] EXCEPT !.pc = "verify"] /\ h'[w].pc = "verify" /\ Alone(w)
    BY <1>2, GotoIs DEF Cycle, PCs
  <2>2. h'[w].ver = h[w].ver /\ h'[w].vid = h[w].vid
    BY <2>1, Facts DEF Handlers
  <2> QED
    BY <1>1, <2>1, <2>2 DEF Keeps
<1>3. CASE verifs[h[w].vid] # None
  <2> DEFINE row == verifs[h[w].vid]
  <2>1. Become(w, [h[w] EXCEPT !.pc = "gather", !.res = row])
    BY <1>3 DEF Cycle
  <2> HIDE DEF row
  <2>2. h'[w] = [h[w] EXCEPT !.pc = "gather", !.res = row] /\ Alone(w)
    BY <2>1, Became
  <2>3. /\ h'[w].pc = "gather" /\ h'[w].ver = h[w].ver /\ h'[w].vid = h[w].vid
        /\ h'[w].res = row
    BY <2>2, Facts DEF Handlers
  <2> QED
    BY <1>1, <1>3, <2>2, <2>3 DEF Keeps, row
<1> QED
  BY <1>2, <1>3

LEMMA VerifyIs ==
  ASSUME Inv, NEW w \in Workers, Verify(w)
  PROVE  Asked(w)
<1> USE DEF Asked
<1>1. PICK result \in {Truth, "UNKNOWN", "UNSUPPORTED"} :
        Become(w, [h[w] EXCEPT !.pc = "record", !.res = result])
  BY DEF Verify, Truth
<1>2. h'[w] = [h[w] EXCEPT !.pc = "record", !.res = result] /\ Alone(w)
  BY <1>1, Became
<1>3. /\ h'[w].pc = "record" /\ h'[w].ver = h[w].ver /\ h'[w].vid = h[w].vid
      /\ h'[w].res = result
  BY <1>2, Facts DEF Handlers
<1> QED
  BY <1>2, <1>3 DEF Verify, Keeps, journal

\* The first result stays in the row; the same outcome is accepted again
LEMMA RecordIs ==
  ASSUME Inv, NEW w \in Workers, Record(w)
  PROVE  Quiet(w, Resting) \/ Recorded(w)
<1> USE DEF Recorded
<1> DEFINE present == verifs[h[w].vid]
<1>1. CASE \/ present = None
           \/ present # None /\ OutcomeOf(present) = OutcomeOf(h[w].res)
  <2>1. Goto(w, "gather") /\ UNCHANGED <<op, attempts, audit, outbox, world>>
    BY <1>1 DEF Record, journal
  <2>2. h'[w] = [h[w] EXCEPT !.pc = "gather"] /\ h'[w].pc = "gather" /\ Alone(w)
    BY <2>1, GotoIs DEF PCs
  <2>3. h'[w].ver = h[w].ver /\ h'[w].vid = h[w].vid /\ h'[w].res = h[w].res
    BY <2>2, Facts DEF Handlers
  <2>4. IF present = None THEN verifs' = [verifs EXCEPT ![h[w].vid] = h[w].res]
        ELSE verifs' = verifs
    BY <1>1 DEF Record, journal
  <2> QED
    BY <2>1, <2>2, <2>3, <2>4 DEF Record, Keeps
<1>2. CASE present # None /\ OutcomeOf(present) # OutcomeOf(h[w].res)
  <2>1. Answer(w, "DUPLICATE") /\ h[w].pc = "record"
    BY <1>2 DEF Record
  <2> QED
    BY <2>1, EndsResting DEF Quiet
<1> QED
  BY <1>1, <1>2

\* What is read of the rows before the decision
LEMMA GatherIs ==
  ASSUME Inv, NEW w \in Workers, Gather(w)
  PROVE  Gathered(w)
<1> USE DEF Gathered
<1>1. h'[w] = [h[w] EXCEPT !.pc = "conclude", !.num = Len(attempts),
                           !.out = LatestOutcome, !.cnt = CompletedVerifications]
      /\ Alone(w)
  BY Became DEF Gather
<1>2. /\ h'[w].pc = "conclude" /\ h'[w].ver = h[w].ver /\ h'[w].vid = h[w].vid
      /\ h'[w].res = h[w].res /\ h'[w].num = Len(attempts)
      /\ h'[w].out = LatestOutcome /\ h'[w].cnt = CompletedVerifications
  BY <1>1, Facts DEF Handlers
<1> QED
  BY <1>1, <1>2 DEF Gather, Keeps, journal

LEMMA ConcludeIs ==
  ASSUME Inv, NEW w \in Workers, Conclude(w)
  PROVE  Quiet(w, Resting) \/ Concluded(w)
<1> USE DEF Concluded
<1> DEFINE kind == VerificationKind(h[w].res, h[w].out, h[w].num, h[w].cnt,
                                    Descriptor, Obligation)
           row == <<h[w].ev, "complete">>
           pre == /\ ResultMatches(h[w].vid, h[w].res)
                  /\ kind = "VERIFICATION_NOT_APPLIED_RETRY"
                       => RetryAdmitted(Descriptor, None, "NOT_APPLIED")
           result == ApplyResult(kind, h[w].ver, pre, row)
<1>1. /\ h[w].pc = "conclude"
      /\ IF result = "APPLIED"
         THEN /\ Commit(kind, row)
              /\ verifs' = IF verifs[h[w].vid] = None
                           THEN [verifs EXCEPT ![h[w].vid] = h[w].res] ELSE verifs
              /\ Finish(w, "ack")
              /\ UNCHANGED <<attempts, world, crashes>>
         ELSE Answer(w, result)
  BY DEF Conclude
<1> HIDE DEF kind
<1>2. CASE result = "APPLIED"
  <2>1. Written(kind, row) /\ op.version = h[w].ver /\ pre
    BY <1>1, <1>2, HandlerNumbers, WrittenBy
  <2>2. h'[w].pc \in Resting /\ Alone(w)
    BY <1>1, <1>2, FinishesResting
  <2> QED
    BY <1>1, <1>2, <2>1, <2>2 DEF kind
<1>3. CASE result # "APPLIED"
  BY <1>1, <1>3, EndsResting
<1> QED
  BY <1>1, <1>2, <1>3

LEMMA WeighIs ==
  ASSUME Inv, NEW w \in Workers, Weigh(w)
  PROVE  Weighed(w)
<1> USE DEF Weighed
<1>1. h'[w] = [h[w] EXCEPT !.pc = "resolve", !.num = Len(attempts),
                           !.out = LatestOutcome] /\ Alone(w)
  BY Became DEF Weigh
<1>2. /\ h'[w].pc = "resolve" /\ h'[w].num = Len(attempts)
      /\ h'[w].out = LatestOutcome
  BY <1>1, Facts DEF Handlers
<1> QED
  BY <1>1, <1>2 DEF Weigh, Quiet, journal

\* An effect that cannot be verified is retried or left to a human
LEMMA ResolveIs ==
  ASSUME Inv, NEW w \in Workers, Resolve(w)
  PROVE  Quiet(w, Resting) \/ Resolved(w)
<1> USE DEF Resolved
<1> DEFINE row == <<h[w].ev, "complete">>
           pre(kind) == kind = "UNKNOWN_SAFE_RETRY"
                          => RetryAdmitted(Descriptor, h[w].out, None)
<1>1. PICK elapsed, kind, result :
        /\ elapsed \in BOOLEAN
        /\ kind = UnverifiableKind(h[w].out, h[w].num, elapsed, Descriptor, Obligation)
        /\ result = ApplyResult(kind, h[w].ver, pre(kind), row)
        /\ IF result = "APPLIED"
           THEN /\ Commit(kind, row) /\ Finish(w, "ack")
                /\ UNCHANGED <<attempts, verifs, world, crashes>>
           ELSE Answer(w, result)
  BY DEF Resolve
<1>2. h[w].pc = "resolve"
  BY DEF Resolve
<1>3. CASE result = "APPLIED"
  <2>1. Written(kind, row) /\ op.version = h[w].ver /\ pre(kind)
    BY <1>1, <1>3, HandlerNumbers, WrittenBy
  <2>2. h'[w].pc \in Resting /\ Alone(w)
    BY <1>1, <1>3, FinishesResting
  <2> QED
    BY <1>1, <1>2, <1>3, <2>1, <2>2
<1>4. CASE result # "APPLIED"
  BY <1>1, <1>2, <1>4, EndsResting
<1> QED
  BY <1>3, <1>4

LEMMA WorkerSteps ==
  ASSUME Inv, NEW w \in Workers,
         Step(w) \/ Crash(w) \/ \E e \in DOMAIN queue : Deliver(w, e)
  PROVE  Effect(w)
<1>1. CASE \/ Load(w) \/ Ack(w) \/ Nak(w) \/ Overflow(w) \/ Crash(w)
           \/ \E e \in DOMAIN queue : Deliver(w, e)
  BY <1>1, BrokerIs DEF Effect
<1>2. CASE \/ Execute(w) \/ Recover(w) \/ Claim(w) \/ Call(w) \/ Return(w)
           \/ PersistEvidence(w) \/ ApplyExecution(w) \/ Inspect(w) \/ Abandon(w)
  BY <1>2, ExecuteIs, ClaimIs, CallIs, ReturnIs, PersistIs, ApplyIs, InspectIs, AbandonIs
     DEF Effect
<1>3. CASE \/ Recovery(w) \/ Rejoin(w) \/ StartVerification(w) \/ Cycle(w) \/ Verify(w)
           \/ Record(w) \/ Gather(w) \/ Conclude(w) \/ Weigh(w) \/ Resolve(w)
  BY <1>3, RecoveryIs, StartIs, CycleIs, VerifyIs, RecordIs, GatherIs, ConcludeIs, WeighIs,
     ResolveIs DEF Effect
<1> QED
  BY <1>1, <1>2, <1>3 DEF Step

\* The relay leaves the last command once more, or gives up
Republished ==
  /\ UNCHANGED <<op, attempts, verifs, audit, world, h>>
  /\ op.state \in CommandStates(outbox[Len(outbox)].cmd)
  /\ \E row : outbox' = Append(outbox, row) /\ row.cmd = outbox[Len(outbox)].cmd

GivenUp ==
  /\ UNCHANGED <<attempts, verifs, audit, outbox, world, h>>
  /\ op.state \in DOMAIN ExhaustedKind
  /\ op'.state = "MANUAL_INTERVENTION" /\ op'.version = op.version + 1
  /\ op'.effect = op.effect

LEMMA RelaySteps ==
  ASSUME Inv, Republish \/ Exhaust
  PROVE  Republished \/ GivenUp
<1>1. CASE Republish
  <2> DEFINE row == [cmd |-> outbox[Len(outbox)].cmd, version |-> op.version,
                     replay |-> TRUE]
  <2>1. outbox' = Append(outbox, row) /\ row.cmd = outbox[Len(outbox)].cmd
    BY <1>1 DEF Republish
  <2> QED
    BY <1>1, <2>1 DEF Republish, Stranded, Republished
<1>2. CASE Exhaust
  <2> DEFINE s == Target(ExhaustedKind[op.state])
  <2>1. /\ UNCHANGED <<attempts, verifs, audit, outbox, world, h>>
        /\ op.state \in DOMAIN ExhaustedKind
        /\ op' = [op EXCEPT !.state = s, !.version = @ + 1]
    BY <1>2 DEF Exhaust
  <2>2. s = "MANUAL_INTERVENTION"
    BY <2>1, ExhaustedTarget
  <2> HIDE DEF s
  <2>3. op \in [state : OperationStates, version : Nat, effect : Effects]
    BY DEF Inv, TypeOK, JournalOK
  <2>4. op'.state = s /\ op'.version = op.version + 1 /\ op'.effect = op.effect
    BY <2>1, <2>3
  <2> QED
    BY <2>1, <2>2, <2>4 DEF GivenUp
<1> QED
  BY <1>1, <1>2

\* A request under way is decided
Decided == 
  /\ UNCHANGED <<op, attempts, verifs, audit, outbox, h>>
  /\ \E i \in DOMAIN world, fate \in {"LANDED", "DROPPED"} :
       world[i] = "EN_ROUTE" /\ world' = [world EXCEPT ![i] = fate]

\* Every step of the system has one of these effects
LEMMA EverySteps ==
  ASSUME Inv, [Next]_vars
  PROVE  \/ \E w \in Workers : Effect(w)
         \/ Decided \/ Republished \/ GivenUp
         \/ UNCHANGED <<op, attempts, verifs, audit, outbox, world, h>>
<1>1. CASE \E w \in Workers : Step(w) \/ Crash(w) \/ \E e \in DOMAIN queue : Deliver(w, e)
  BY <1>1, WorkerSteps
<1>2. CASE Provider
  BY <1>2 DEF Provider, Settle, Decided, journal
<1>3. CASE Republish \/ Exhaust
  BY <1>3, RelaySteps
<1>4. CASE UNCHANGED vars
  BY <1>4 DEF vars
<1> QED
  BY <1>1, <1>2, <1>3, <1>4 DEF Next

-----------------------------------------------------------------------------
(***************************************************************************)
(* Evidence is final                                                      *)
(***************************************************************************)

\* A row appended to a sequence leaves the others where they were
LEMMA AppendKeeps ==
  ASSUME NEW S, NEW s \in Seq(S), NEW e
  PROVE  /\ DOMAIN s = 1..Len(s) /\ Len(s) \in Nat
         /\ Len(Append(s, e)) = Len(s) + 1
         /\ DOMAIN Append(s, e) = 1..(Len(s) + 1)
         /\ \A i \in 1..Len(s) : Append(s, e)[i] = s[i]
         /\ Append(s, e)[Len(s) + 1] = e
<1>1. s \in Seq(S \union {e}) /\ e \in S \union {e}
  BY SeqMonotonic
<1> QED
  BY <1>1, AppendProperties, LenProperties

\* The types of the sequences of rows
LEMMA RowTypes ==
  ASSUME Inv
  PROVE  /\ attempts \in Seq(AttemptStates) /\ DOMAIN attempts = 1..Len(attempts)
         /\ verifs \in Seq(VerificationResults \union {None})
         /\ DOMAIN verifs = 1..Len(verifs)
         /\ world \in Seq(Requests) /\ DOMAIN world = 1..Len(attempts)
         /\ Len(world) = Len(attempts) /\ Len(attempts) \in Nat /\ Len(verifs) \in Nat
<1>1. /\ attempts \in Seq(AttemptStates) /\ world \in Seq(Requests)
      /\ verifs \in Seq(VerificationResults \union {None})
      /\ Len(world) = Len(attempts)
  BY DEF Inv, TypeOK, JournalOK
<1> QED
  BY <1>1, LenProperties

\* What a step may do to the completed rows: nothing
RowsFinal ==
  /\ \A i \in DOMAIN attempts : attempts[i] # "STARTED" => attempts'[i] = attempts[i]
  /\ \A i \in DOMAIN verifs : verifs[i] # None => verifs'[i] = verifs[i]

LEMMA WorkerKeepsRows ==
  ASSUME Inv, NEW w \in Workers, Effect(w)
  PROVE  RowsFinal
<1> USE RowTypes DEF RowsFinal
<1>1. CASE UNCHANGED <<attempts, verifs>>
  BY <1>1
<1>2. CASE Claimed(w)
  BY <1>2, AppendKeeps DEF Claimed
<1>3. CASE Persisted(w)
  <2>1. \A i \in DOMAIN attempts : attempts[i] # "STARTED" => attempts'[i] = attempts[i]
    BY <1>3 DEF Persisted
  <2> QED
    BY <1>3, <2>1 DEF Persisted
<1>4. CASE Applied(w)
  <2>1. /\ attempts' = [attempts EXCEPT ![h[w].num] = h[w].out]
        /\ attempts[h[w].num] \in {"STARTED", h[w].out}
        /\ verifs' = verifs \/ verifs' = Append(verifs, None)
    BY <1>4 DEF Applied, AttemptMatches
  <2>2. \A i \in DOMAIN attempts : attempts[i] # "STARTED" => attempts'[i] = attempts[i]
    BY <2>1
  <2>3. \A i \in DOMAIN verifs : verifs'[i] = verifs[i]
    BY <2>1, AppendKeeps
  <2> QED
    BY <2>2, <2>3
<1>5. CASE Started(w)
  BY <1>5, AppendKeeps DEF Started
<1>6. CASE Recorded(w) \/ Concluded(w)
  <2>1. /\ attempts' = attempts
        /\ \/ verifs' = verifs
           \/ /\ verifs[h[w].vid] = None
              /\ verifs' = [verifs EXCEPT ![h[w].vid] = h[w].res]
    BY <1>6 DEF Recorded, Concluded
  <2> QED
    BY <2>1
<1> QED
  BY <1>1, <1>2, <1>3, <1>4, <1>5, <1>6
     DEF Effect, Quiet, Called, Returned, Inspected, Abandoned, Joined, Cycled, Asked,
         Gathered, Weighed, Resolved

\* A completed attempt keeps its outcome and a verification row its result, whichever
\* handler comes later with other evidence: persist_attempt_evidence refuses a row that
\* is not STARTED, and the first result of a verification stays
THEOREM EvidenceKept == Spec => EvidenceIsFinal
<1>1. Inv /\ [Next]_vars => [RowsFinal]_vars
  <2> SUFFICES ASSUME Inv, [Next]_vars
               PROVE  RowsFinal
    OBVIOUS
  <2>1. CASE \E w \in Workers : Effect(w)
    BY <2>1, WorkerKeepsRows
  <2>2. CASE UNCHANGED <<attempts, verifs>>
    BY <2>2 DEF RowsFinal
  <2> QED
    BY <2>1, <2>2, EverySteps DEF Decided, Republished, GivenUp
<1> QED
  BY <1>1, Invariance, PTL DEF Spec, EvidenceIsFinal, RowsFinal

-----------------------------------------------------------------------------
(***************************************************************************)
(* An attempt has one caller, and its evidence is true                    *)
(***************************************************************************)

\* Where a handler holds an attempt of which no evidence is durable
Calling == {"call", "flight", "evidence"}

\* What the record r of a handler says of its attempt: rows and requests are those of
\* the attempts
Informed(r, rows, requests) ==
  /\ r.pc \in {"call", "flight"} => rows[r.num] = "STARTED"
  /\ r.pc = "call" => requests[r.num] = "UNSENT"
  /\ r.pc = "apply" => rows[r.num] = r.out
  /\ r.pc \in {"evidence", "apply"} =>
       /\ r.out = "APPLIED" => requests[r.num] = "LANDED"
       /\ r.out = "NOT_APPLIED" => requests[r.num] = "DROPPED"
  /\ r.pc = "resolve" =>
       /\ r.num \in 1..Len(rows)
       /\ r.out # "UNKNOWN" => rows[r.num] = r.out

\* Two handlers before the evidence hold different attempts
OneCaller ==
  \A v, w \in Workers :
    v # w /\ h[v].pc \in Calling /\ h[w].pc \in Calling => h[v].num # h[w].num

\* What an attempt row says became of the request is so
EvidenceIsTrue ==
  \A i \in DOMAIN attempts :
    /\ attempts[i] = "APPLIED" => world[i] = "LANDED"
    /\ attempts[i] = "NOT_APPLIED" => world[i] = "DROPPED"

AttemptInv ==
  OneCaller /\ EvidenceIsTrue /\ \A w \in Workers : Informed(h[w], attempts, world)

\* What handler v knows survives a step of the others that leaves its row and the
\* request of its attempt as it knows them
LEMMA StaysInformed ==
  ASSUME NEW r, Informed(r, attempts, world), Len(attempts) <= Len(attempts'),
         Len(attempts) \in Nat, Len(attempts') \in Nat,
         r.pc \in Attempting => attempts'[r.num] = attempts[r.num],
         r.pc \in Calling \union {"apply"} => world'[r.num] = world[r.num]
  PROVE  Informed(r, attempts', world')
BY DEF Informed, Attempting, Calling

\* A step in which neither an attempt nor a request changes, and that leaves its
\* handler with nothing to know
LEMMA RestingStep ==
  ASSUME Inv, AttemptInv, NEW w \in Workers, UNCHANGED <<attempts, world>>,
         Alone(w), h'[w].pc \notin Attempting
  PROVE  AttemptInv'
<1>1. \A v \in Workers \ {w} : h'[v] = h[v]
  BY DEF Alone
<1>2. Informed(h'[w], attempts, world)
  BY DEF Informed, Attempting
<1>3. \A v \in Workers : Informed(h'[v], attempts', world')
  BY <1>1, <1>2 DEF AttemptInv
<1>4. OneCaller'
  BY <1>1 DEF AttemptInv, OneCaller, Calling, Attempting
<1>5. EvidenceIsTrue'
  BY DEF AttemptInv, EvidenceIsTrue
<1> QED
  BY <1>3, <1>4, <1>5 DEF AttemptInv

\* The numbers of the attempts that handlers hold
LEMMA Held ==
  ASSUME Inv, AttemptInv, NEW v \in Workers
  PROVE  /\ h[v] \in Handlers /\ h[v].num \in Nat
         /\ h[v].pc \in Attempting => h[v].num \in 1..Len(attempts)
<1>1. h[v] \in Handlers /\ Sound(h[v], Len(attempts), Len(verifs), op.version)
  BY Facts
<1>2. Informed(h[v], attempts, world)
  BY DEF AttemptInv
<1> QED
  BY <1>1, <1>2 DEF Handlers, Sound, Informed, Attempting

\* A new attempt is its claimer's alone
LEMMA ClaimedInformed ==
  ASSUME Inv, AttemptInv, NEW w \in Workers, Claimed(w)
  PROVE  AttemptInv'
<1> DEFINE n == Len(attempts)
<1>1. /\ attempts' = Append(attempts, "STARTED") /\ world' = Append(world, "UNSENT")
      /\ h'[w].pc = "call" /\ h'[w].num = n + 1
      /\ \A v \in Workers \ {w} : h'[v] = h[v]
  BY DEF Claimed, Alone
<1>2. /\ n \in Nat /\ Len(attempts') = n + 1 /\ Len(world) = n
      /\ DOMAIN attempts = 1..n /\ DOMAIN attempts' = 1..(n + 1)
      /\ \A i \in 1..n : attempts'[i] = attempts[i] /\ world'[i] = world[i]
      /\ attempts'[n + 1] = "STARTED" /\ world'[n + 1] = "UNSENT"
  BY <1>1, RowTypes, AppendKeeps
<1>3. ASSUME NEW v \in Workers \ {w}
      PROVE  Informed(h'[v], attempts', world')
  <2>1. h'[v] = h[v] /\ Informed(h[v], attempts, world)
    BY <1>1 DEF AttemptInv
  <2>2. h[v].pc \in Attempting => h[v].num \in 1..n
    BY Held
  <2> QED
    BY <1>2, <2>1, <2>2, StaysInformed DEF Attempting, Calling
<1>4. Informed(h'[w], attempts', world')
  BY <1>1, <1>2 DEF Informed
<1>5. OneCaller'
  <2>1. \A v \in Workers \ {w} : h[v].pc \in Calling => h[v].num # n + 1
    BY <1>2, Held DEF Attempting, Calling
  <2> QED
    BY <1>1, <2>1 DEF AttemptInv, OneCaller
<1>6. EvidenceIsTrue'
  BY <1>2 DEF AttemptInv, EvidenceIsTrue
<1> QED
  BY <1>3, <1>4, <1>5, <1>6 DEF AttemptInv

\* A request leaves: nobody else holds its attempt, and no evidence rests on it
LEMMA CalledInformed ==
  ASSUME Inv, AttemptInv, NEW w \in Workers, Called(w)
  PROVE  AttemptInv'
<1>1. /\ attempts' = attempts /\ world' = [world EXCEPT ![h[w].num] = "EN_ROUTE"]
      /\ h[w].pc = "call" /\ h'[w].pc = "flight" /\ h'[w].num = h[w].num
      /\ \A v \in Workers \ {w} : h'[v] = h[v]
  BY DEF Called, Alone
<1>2. /\ attempts[h[w].num] = "STARTED" /\ world[h[w].num] = "UNSENT"
      /\ h[w].num \in 1..Len(attempts)
  BY <1>1, Held DEF AttemptInv, Informed, Attempting
<1>3. \A i : i # h[w].num => world'[i] = world[i]
  BY <1>1, RowTypes
<1>4. ASSUME NEW v \in Workers \ {w}
      PROVE  Informed(h'[v], attempts', world')
  <2>1. h'[v] = h[v] /\ Informed(h[v], attempts, world)
    BY <1>1 DEF AttemptInv
  <2>2. h[v].pc \in Calling => h[v].num # h[w].num
    BY <1>1 DEF AttemptInv, OneCaller, Calling
  <2>3. h[v].pc = "apply" => h[v].num # h[w].num
    <3>1. h[v].pc = "apply" => h[v].out \in Outcomes
      BY Facts DEF Sound
    <3> QED
      BY <1>2, <2>1, <3>1 DEF Informed, Outcomes
  <2>4. h[v].pc \in Calling \union {"apply"} => world'[h[v].num] = world[h[v].num]
    BY <1>3, <2>2, <2>3
  <2>5. Informed(h[v], attempts', world')
    BY <1>1, <2>1, <2>4 DEF Informed, Calling
  <2> QED
    BY <2>1, <2>5
<1>5. Informed(h'[w], attempts', world')
  BY <1>1, <1>2 DEF Informed
<1>6. OneCaller'
  BY <1>1 DEF AttemptInv, OneCaller, Calling
<1>7. EvidenceIsTrue'
  BY <1>1, <1>2, <1>3 DEF AttemptInv, EvidenceIsTrue
<1> QED
  BY <1>4, <1>5, <1>6, <1>7 DEF AttemptInv

\* The evidence of a call is true of its request
LEMMA ReturnedInformed ==
  ASSUME Inv, AttemptInv, NEW w \in Workers, Returned(w)
  PROVE  AttemptInv'
<1>1. /\ UNCHANGED <<attempts, world>>
      /\ h[w].pc = "flight" /\ h'[w].pc = "evidence" /\ h'[w].num = h[w].num
      /\ h'[w].out \in Evidence(world[h[w].num])
      /\ \A v \in Workers \ {w} : h'[v] = h[v]
  BY DEF Returned, Alone, Quiet
<1>2. world[h[w].num] \in Requests
  <2>1. h[w].num \in 1..Len(world) /\ world \in Seq(Requests)
    BY <1>1, Held, RowTypes DEF Attempting
  <2> QED
    BY <2>1, ElementOfSeq
<1>3. /\ h'[w].out = "APPLIED" => world[h[w].num] = "LANDED"
      /\ h'[w].out = "NOT_APPLIED" => world[h[w].num] = "DROPPED"
  BY <1>1, <1>2 DEF Evidence, Requests
<1>4. Informed(h'[w], attempts', world')
  BY <1>1, <1>3 DEF Informed
<1>5. \A v \in Workers : Informed(h'[v], attempts', world')
  BY <1>1, <1>4 DEF AttemptInv
<1>6. OneCaller'
  BY <1>1 DEF AttemptInv, OneCaller, Calling
<1>7. EvidenceIsTrue'
  BY <1>1 DEF AttemptInv, EvidenceIsTrue
<1> QED
  BY <1>5, <1>6, <1>7 DEF AttemptInv

\* The evidence becomes durable: a STARTED row is nobody else's
LEMMA PersistedInformed ==
  ASSUME Inv, AttemptInv, NEW w \in Workers, Persisted(w)
  PROVE  AttemptInv'
<1>1. /\ world' = world /\ attempts' = [attempts EXCEPT ![h[w].num] = h[w].out]
      /\ attempts[h[w].num] = "STARTED"
      /\ h[w].pc = "evidence" /\ h'[w].pc = "apply"
      /\ h'[w].num = h[w].num /\ h'[w].out = h[w].out
      /\ \A v \in Workers \ {w} : h'[v] = h[v]
  BY DEF Persisted, Alone
<1>2. /\ h[w].num \in 1..Len(attempts) /\ h[w].out \in Outcomes
      /\ h[w].out = "APPLIED" => world[h[w].num] = "LANDED"
      /\ h[w].out = "NOT_APPLIED" => world[h[w].num] = "DROPPED"
  BY <1>1, Held, Facts DEF AttemptInv, Informed, Attempting, Sound
<1>3. /\ DOMAIN attempts' = DOMAIN attempts /\ Len(attempts') = Len(attempts)
      /\ attempts'[h[w].num] = h[w].out
      /\ \A i : i # h[w].num => attempts'[i] = attempts[i]
  BY <1>1, <1>2, RowTypes
<1>4. ASSUME NEW v \in Workers \ {w}
      PROVE  Informed(h'[v], attempts', world')
  <2>1. h'[v] = h[v] /\ Informed(h[v], attempts, world)
    BY <1>1 DEF AttemptInv
  <2>2. h[v].pc \in Calling => h[v].num # h[w].num
    BY <1>1 DEF AttemptInv, OneCaller, Calling
  <2>3. h[v].pc = "apply" => h[v].num # h[w].num
    <3>1. h[v].pc = "apply" => h[v].out \in Outcomes
      BY Facts DEF Sound
    <3> QED
      BY <1>1, <2>1, <3>1 DEF Informed, Outcomes
  <2>4. h[v].pc = "resolve" /\ h[v].out # "UNKNOWN" => h[v].num # h[w].num
    <3>1. h[v].pc = "resolve" => h[v].out \in Outcomes
      BY Facts DEF Sound
    <3> QED
      BY <1>1, <2>1, <3>1 DEF Informed, Outcomes
  <2>5. Len(attempts) \in Nat
    BY RowTypes
  <2> QED
    BY <1>1, <1>3, <2>1, <2>2, <2>3, <2>4, <2>5 DEF Informed, Calling
<1>5. Informed(h'[w], attempts', world')
  BY <1>1, <1>2, <1>3 DEF Informed
<1>6. OneCaller'
  BY <1>1 DEF AttemptInv, OneCaller, Calling
<1>7. EvidenceIsTrue'
  BY <1>1, <1>2, <1>3 DEF AttemptInv, EvidenceIsTrue
<1> QED
  BY <1>4, <1>5, <1>6, <1>7 DEF AttemptInv

\* The transition writes the evidence that its attempt has already
LEMMA AppliedKeepsAttempts ==
  ASSUME Inv, AttemptInv, NEW w \in Workers, Applied(w)
  PROVE  /\ attempts' = attempts
         /\ h[w].num = Len(attempts) /\ attempts[h[w].num] = h[w].out
         /\ h[w].out \in Outcomes
<1>1. /\ attempts' = [attempts EXCEPT ![h[w].num] = h[w].out]
      /\ h[w].pc = "apply" /\ h[w].num = Len(attempts)
  BY DEF Applied, AttemptMatches
<1>2. attempts[h[w].num] = h[w].out
  BY <1>1 DEF AttemptInv, Informed
<1>3. h[w].out \in Outcomes
  BY <1>1, Facts DEF Sound
<1>4. attempts' = attempts
  BY <1>1, <1>2, RowTypes
<1> QED
  BY <1>1, <1>2, <1>3, <1>4

\* Handlers that read the attempts know what they have read
LEMMA ReadersInformed ==
  ASSUME Inv, AttemptInv, NEW w \in Workers, Inspected(w) \/ Weighed(w)
  PROVE  AttemptInv'
<1>1. /\ UNCHANGED <<attempts, world>> /\ h'[w].pc \in {"apply", "resolve"}
      /\ \A v \in Workers \ {w} : h'[v] = h[v]
  BY DEF Inspected, Weighed, Quiet, Alone
<1>2. Informed(h'[w], attempts, world)
  <2>1. CASE Inspected(w)
    BY <2>1, RowTypes DEF Inspected, Quiet, Informed, AttemptInv, EvidenceIsTrue
  <2>2. CASE Weighed(w)
    <3>1. Len(attempts) >= 1
      BY <2>2, Facts DEF Weighed, Sound
    <3> QED
      BY <2>2, <3>1, RowTypes DEF Weighed, Quiet, Informed, LatestOutcome
  <2> QED
    BY <2>1, <2>2
<1>3. \A v \in Workers : Informed(h'[v], attempts', world')
  BY <1>1, <1>2 DEF AttemptInv
<1>4. OneCaller'
  BY <1>1 DEF AttemptInv, OneCaller, Calling
<1>5. EvidenceIsTrue'
  BY <1>1 DEF AttemptInv, EvidenceIsTrue
<1> QED
  BY <1>3, <1>4, <1>5 DEF AttemptInv

\* The fate of a request under way: no handler counts on it yet
LEMMA DecidedInformed ==
  ASSUME Inv, AttemptInv, Decided
  PROVE  AttemptInv'
<1>1. PICK i \in DOMAIN world, fate \in {"LANDED", "DROPPED"} :
        world[i] = "EN_ROUTE" /\ world' = [world EXCEPT ![i] = fate]
  BY DEF Decided
<1>2. UNCHANGED <<attempts, h>> /\ \A j : j # i => world'[j] = world[j]
  BY <1>1, RowTypes DEF Decided
<1>3. \A v \in Workers : Informed(h'[v], attempts', world')
  BY <1>1, <1>2 DEF AttemptInv, Informed
<1>4. OneCaller'
  BY <1>2 DEF AttemptInv, OneCaller
<1>5. EvidenceIsTrue'
  BY <1>1, <1>2 DEF AttemptInv, EvidenceIsTrue
<1> QED
  BY <1>3, <1>4, <1>5 DEF AttemptInv

LEMMA AttemptInvNext ==
  ASSUME Inv, AttemptInv, [Next]_vars
  PROVE  AttemptInv'
<1>1. ASSUME NEW w \in Workers, Effect(w)
      PROVE  AttemptInv'
  <2>1. CASE \/ Claimed(w) \/ Called(w) \/ Returned(w) \/ Persisted(w)
             \/ Inspected(w) \/ Weighed(w)
    BY <2>1, ClaimedInformed, CalledInformed, ReturnedInformed, PersistedInformed,
       ReadersInformed
  <2>2. CASE Applied(w)
    <3>1. UNCHANGED <<attempts, world>> /\ Alone(w) /\ h'[w].pc \in Resting
      BY <2>2, AppliedKeepsAttempts DEF Applied
    <3> QED
      BY <3>1, RestingStep DEF Resting
  <2>3. CASE \/ Quiet(w, Resting) \/ Abandoned(w) \/ Joined(w) \/ Started(w) \/ Cycled(w)
             \/ Asked(w) \/ Recorded(w) \/ Gathered(w) \/ Concluded(w) \/ Resolved(w)
    <3>1. UNCHANGED <<attempts, world>> /\ Alone(w)
      BY <2>3 DEF Quiet, Abandoned, Joined, Started, Cycled, Asked, Recorded, Gathered,
                  Concluded, Resolved, Keeps
    <3>2. h'[w].pc \in Resting \union Verifying
      BY <2>3 DEF Quiet, Abandoned, Joined, Started, Cycled, Asked, Recorded, Gathered,
                  Concluded, Resolved, Keeps, Verifying
    <3> QED
      BY <3>1, <3>2, RestingStep DEF Resting, Attempting, Verifying
  <2> QED
    BY <1>1, <2>1, <2>2, <2>3 DEF Effect
<1>2. CASE UNCHANGED <<attempts, world, h>>
  BY <1>2 DEF AttemptInv, OneCaller, Informed, EvidenceIsTrue
<1> QED
  BY <1>1, <1>2, DecidedInformed, EverySteps DEF Republished, GivenUp

\* What a handler believes of its attempt between two units of work is right: until it
\* persists evidence no other handler calls for the attempt, during the call its row is
\* STARTED, and the outcome it then carries is what became of the request
THEOREM AttemptsKnown == Spec => []AttemptInv
<1>1. Init => AttemptInv
  <2> SUFFICES ASSUME Init
               PROVE  AttemptInv
    OBVIOUS
  <2>1. attempts = <<>> /\ \A w \in Workers : h[w].pc = "idle"
    BY DEF Init, Idle
  <2> QED
    BY <2>1 DEF AttemptInv, OneCaller, Informed, EvidenceIsTrue, Calling
<1>2. Inv /\ AttemptInv /\ [Next]_vars => AttemptInv'
  BY AttemptInvNext
<1> QED
  BY <1>1, <1>2, Invariance, PTL DEF Spec

\* A handler about to call or calling the provider is the only one to do so for its
\* attempt, whose row is STARTED: the claim is admitted for one version only, and
\* recovery never calls for an attempt that it did not claim
THEOREM CallsAreAlone == Spec => []OneCallerPerAttempt
<1>1. AttemptInv => OneCallerPerAttempt
  BY DEF AttemptInv, OneCaller, Informed, OneCallerPerAttempt, Calling
<1> QED
  BY <1>1, AttemptsKnown, PTL

\* Durable evidence is true: an attempt recorded as APPLIED has reached the provider,
\* one recorded as NOT_APPLIED never does
THEOREM RecordedIsTrue == Spec => []EvidenceIsTrue
<1>1. AttemptInv => EvidenceIsTrue
  BY DEF AttemptInv
<1> QED
  BY <1>1, AttemptsKnown, PTL

-----------------------------------------------------------------------------
(***************************************************************************)
(* Work in progress is covered, and every attempt has its message         *)
(***************************************************************************)

\* The commands of the kinds that handlers apply
LEMMA CommandsOfKinds ==
  /\ \A k \in {"EXECUTION_NOT_APPLIED_RETRY", "VERIFICATION_NOT_APPLIED_RETRY",
               "UNKNOWN_SAFE_RETRY"} : OutboxCommand(k) = "EXECUTE"
  /\ \A k \in {"EXECUTION_REQUIRE_VERIFICATION", "EXECUTION_UNKNOWN",
               "UNKNOWN_START_VERIFICATION"} : OutboxCommand(k) = "VERIFY"
  /\ \A k \in {"CLAIM_EXECUTION", "EXECUTION_APPLIED", "EXECUTION_NOT_APPLIED_FAIL",
               "VERIFICATION_APPLIED", "VERIFICATION_NOT_APPLIED_FAIL",
               "VERIFICATION_INCONCLUSIVE", "VERIFICATION_ESCALATE",
               "UNKNOWN_ESCALATE"} : OutboxCommand(k) = NoCommand
BY DEF OutboxCommand, ExecuteKinds, VerifyKinds, CompensateKinds, NoCommand

HandlerKinds ==
  {"CLAIM_EXECUTION", "EXECUTION_APPLIED", "EXECUTION_REQUIRE_VERIFICATION",
   "EXECUTION_NOT_APPLIED_RETRY", "EXECUTION_NOT_APPLIED_FAIL", "EXECUTION_UNKNOWN",
   "VERIFICATION_APPLIED", "VERIFICATION_NOT_APPLIED_RETRY",
   "VERIFICATION_NOT_APPLIED_FAIL", "VERIFICATION_INCONCLUSIVE",
   "VERIFICATION_ESCALATE", "UNKNOWN_START_VERIFICATION", "UNKNOWN_SAFE_RETRY",
   "UNKNOWN_ESCALATE"}

\* A transition without a command leads from covered work to covered work, and one
\* with a command leaves work that the command covers
LEMMA KindsCover ==
  ASSUME NEW kind \in HandlerKinds, NEW c \in Commands,
         OutboxCommand(kind) = NoCommand => Source(kind) \in CommandStates(c),
         OutboxCommand(kind) # NoCommand => c = OutboxCommand(kind),
         Target(kind) \in Unresolved
  PROVE  Target(kind) \in CommandStates(c)
BY CommandsOfKinds, Targets, Sources
   DEF HandlerKinds, Commands, CommandStates, Unresolved, NoCommand

\* Every transition of a handler is written with a kind of these
LEMMA TransitionKinds ==
  ASSUME Inv, NEW w \in Workers, Effect(w), op' # op \/ outbox' # outbox \/ audit' # audit
  PROVE  \E kind \in HandlerKinds, role \in Roles :
           /\ Written(kind, <<h[w].ev, role>>)
           /\ role = "claim" => Claimed(w)
<1>1. CASE Claimed(w)
  BY <1>1 DEF Claimed, HandlerKinds, Roles
<1>2. CASE Applied(w)
  <2>1. PICK kind, row :
          /\ kind = ExecutionKind(h[w].out, Descriptor, Obligation, h[w].num,
                      RegistryRetrySafety(Descriptor, h[w].out, None, FALSE))
          /\ row = <<h[w].ev, h[w].role>> /\ h[w].pc = "apply"
          /\ Written(kind, row)
    BY <1>2 DEF Applied
  <2>2. h[w].out \in Outcomes /\ h[w].role \in {"execute", "recover"}
    BY <2>1, Facts DEF Sound, Handlers
  <2>3. kind \in HandlerKinds
    BY <2>1, <2>2, ExecutionKinds DEF HandlerKinds
  <2> QED
    BY <2>1, <2>2, <2>3 DEF Roles
<1>3. CASE Abandoned(w) \/ Started(w)
  BY <1>3 DEF Abandoned, Started, HandlerKinds, Roles
<1>4. CASE Concluded(w)
  <2>1. PICK kind :
          /\ kind = VerificationKind(h[w].res, h[w].out, h[w].num, h[w].cnt,
                                     Descriptor, Obligation)
          /\ Written(kind, <<h[w].ev, "complete">>) /\ h[w].pc = "conclude"
    BY <1>4 DEF Concluded
  <2>2. h[w].res \in VerificationResults
    BY <2>1, Facts DEF Sound
  <2>3. kind \in HandlerKinds
    BY <2>1, <2>2, VerificationKinds DEF HandlerKinds
  <2> QED
    BY <2>1, <2>3 DEF Roles
<1>5. CASE Resolved(w)
  <2>1. PICK elapsed, kind :
          /\ elapsed \in BOOLEAN
          /\ kind = UnverifiableKind(h[w].out, h[w].num, elapsed, Descriptor, Obligation)
          /\ Written(kind, <<h[w].ev, "complete">>)
    BY <1>5 DEF Resolved
  <2>2. kind \in HandlerKinds
    BY <2>1, UnverifiableKinds DEF HandlerKinds
  <2> QED
    BY <2>1, <2>2 DEF Roles
<1>6. CASE \/ Quiet(w, Resting) \/ Called(w) \/ Returned(w) \/ Persisted(w) \/ Inspected(w)
           \/ Joined(w) \/ Cycled(w) \/ Asked(w) \/ Recorded(w) \/ Gathered(w) \/ Weighed(w)
  BY <1>6 DEF Quiet, Called, Returned, Persisted, Inspected, Joined, Cycled, Asked,
              Recorded, Gathered, Weighed
<1> QED
  BY <1>1, <1>2, <1>3, <1>4, <1>5, <1>6 DEF Effect

\* The outbox holds commands, the first of them from the start
LEMMA OutboxTypes ==
  ASSUME Inv
  PROVE  /\ outbox \in Seq([cmd : Commands, version : Nat, replay : BOOLEAN])
         /\ Len(outbox) \in Nat /\ Len(outbox) >= 1
         /\ outbox[Len(outbox)].cmd \in Commands
<1>1. /\ outbox \in Seq([cmd : Commands, version : Nat, replay : BOOLEAN])
      /\ Len(outbox) >= 1 /\ Len(outbox) \in Nat
  BY LenProperties DEF Inv, TypeOK, JournalOK, Progress
<1>2. outbox[Len(outbox)] \in [cmd : Commands, version : Nat, replay : BOOLEAN]
  <2>1. Len(outbox) \in 1..Len(outbox)
    BY <1>1
  <2> QED
    BY <1>1, <2>1, ElementOfSeq
<1>3. outbox[Len(outbox)].cmd \in Commands
  BY <1>2
<1> QED
  BY <1>1, <1>3

\* The command that an appended row carries is the last of the outbox
LEMMA LastCommand ==
  ASSUME Inv, NEW row, outbox' = Append(outbox, row)
  PROVE  outbox'[Len(outbox')].cmd = row.cmd
BY OutboxTypes, AppendKeeps

LEMMA CoveredNext ==
  ASSUME Inv, CoveredWork, [Next]_vars
  PROVE  CoveredWork'
<1>1. ASSUME NEW w \in Workers, Effect(w), op' # op \/ outbox' # outbox
      PROVE  CoveredWork'
  <2>1. PICK kind \in HandlerKinds, role \in Roles : Written(kind, <<h[w].ev, role>>)
    BY <1>1, TransitionKinds
  <2>2. op.state = Source(kind) /\ op'.state = Target(kind)
    BY <2>1 DEF Written
  <2>3. Source(kind) \in Unresolved
    BY Sources DEF HandlerKinds, Unresolved
  <2> DEFINE c == outbox[Len(outbox)].cmd
             d == outbox'[Len(outbox')].cmd
  <2>4. CASE OutboxCommand(kind) = NoCommand
    <3>1. d = c /\ c \in Commands
      BY <2>1, <2>4, OutboxTypes DEF Written
    <3>2. Source(kind) \in CommandStates(c)
      BY <2>2, <2>3 DEF CoveredWork
    <3>3. Target(kind) \in Unresolved => Target(kind) \in CommandStates(c)
      BY <2>4, <3>1, <3>2, KindsCover
    <3> QED
      BY <2>2, <3>1, <3>3 DEF CoveredWork, Unresolved
  <2>5. CASE OutboxCommand(kind) # NoCommand
    <3>1. d = OutboxCommand(kind)
      <4> DEFINE row == [cmd |-> OutboxCommand(kind), version |-> op.version + 1,
                         replay |-> FALSE]
      <4>1. outbox' = Append(outbox, row) /\ row.cmd = OutboxCommand(kind)
        BY <2>1, <2>5 DEF Written
      <4> HIDE DEF row
      <4> QED
        BY <4>1, LastCommand
    <3>2. d \in Commands
      BY <2>5, <3>1, CommandOfKind
    <3>3. Target(kind) \in Unresolved => Target(kind) \in CommandStates(d)
      BY <2>5, <3>1, <3>2, KindsCover
    <3> QED
      BY <2>2, <3>3 DEF CoveredWork, Unresolved
  <2> QED
    BY <2>4, <2>5
<1>2. CASE UNCHANGED <<op, outbox>>
  BY <1>2 DEF CoveredWork, Unresolved
<1>3. CASE Republished
  <2>1. PICK row : outbox' = Append(outbox, row) /\ row.cmd = outbox[Len(outbox)].cmd
    BY <1>3 DEF Republished
  <2>2. outbox'[Len(outbox')].cmd = outbox[Len(outbox)].cmd
    BY <2>1, LastCommand
  <2> QED
    BY <1>3, <2>2 DEF Republished, CoveredWork, Unresolved
<1>4. CASE GivenUp
  BY <1>4 DEF GivenUp, CoveredWork, Unresolved
<1> QED
  BY <1>1, <1>2, <1>3, <1>4, EverySteps DEF Decided

\* While automatic work remains on the operation, the last command of its outbox is
\* one that applies to its state: every admitted transition leaves the command of its
\* kind in its own unit of work, so that the scan for stranded work finds it
THEOREM WorkIsCovered == Spec => []CoveredWork
<1>1. Init => CoveredWork
  <2> SUFFICES ASSUME Init
               PROVE  CoveredWork
    OBVIOUS
  <2> DEFINE row == [cmd |-> "EXECUTE", version |-> 2, replay |-> FALSE]
  <2>1. op.state = "READY" /\ outbox = <<row>> /\ row.cmd = "EXECUTE"
    BY DEF Init
  <2> HIDE DEF row
  <2>2. outbox[Len(outbox)].cmd = "EXECUTE"
    BY <2>1
  <2> QED
    BY <2>1, <2>2 DEF CoveredWork, CommandStates
<1>2. Inv /\ CoveredWork /\ [Next]_vars => CoveredWork'
  BY CoveredNext
<1> QED
  BY <1>1, <1>2, Invariance, PTL DEF Spec

\* Attempts are only added by a claim
LEMMA OnlyClaimsAdd ==
  ASSUME Inv, AttemptInv, NEW w \in Workers, Effect(w), ~Claimed(w)
  PROVE  Len(attempts') = Len(attempts)
<1>1. CASE Persisted(w)
  BY <1>1, RowTypes, ExceptKeepsSeq, Facts DEF Persisted, Sound, AttemptStates
<1>2. CASE Applied(w)
  BY <1>2, AppliedKeepsAttempts
<1> QED
  BY <1>1, <1>2
     DEF Effect, Quiet, Called, Returned, Inspected, Abandoned, Joined, Started, Cycled,
         Asked, Recorded, Gathered, Concluded, Weighed, Resolved

\* The audit rows of the claims, as many as there are attempts
ClaimRows == {row \in audit : row[2] = "claim"}
ClaimsInv == IsFiniteSet(ClaimRows) /\ Cardinality(ClaimRows) = Len(attempts)

LEMMA ClaimsNext ==
  ASSUME Inv, AttemptInv, ClaimsInv, [Next]_vars
  PROVE  ClaimsInv'
<1>1. ASSUME NEW w \in Workers, Claimed(w)
      PROVE  ClaimsInv'
  <2> DEFINE row == <<h[w].ev, "claim">>
  <2>1. row \notin audit /\ audit' = audit \union {row}
    BY <1>1 DEF Claimed, Written
  <2>2. ClaimRows' = ClaimRows \union {row} /\ row \notin ClaimRows
    BY <2>1 DEF ClaimRows
  <2>3. Len(attempts') = Len(attempts) + 1
    BY <1>1, RowTypes, AppendKeeps DEF Claimed
  <2> QED
    BY <2>2, <2>3, FS_AddElement DEF ClaimsInv
<1>2. ASSUME NEW w \in Workers, Effect(w), ~Claimed(w)
      PROVE  ClaimsInv'
  <2>1. ClaimRows' = ClaimRows
    <3>1. CASE audit' = audit
      BY <3>1 DEF ClaimRows
    <3>2. CASE audit' # audit
      <4>1. PICK kind \in HandlerKinds, role \in Roles :
              Written(kind, <<h[w].ev, role>>) /\ role # "claim"
        BY <1>2, <3>2, TransitionKinds
      <4>2. audit' = audit \union {<<h[w].ev, role>>}
        BY <4>1 DEF Written
      <4> QED
        BY <4>1, <4>2 DEF ClaimRows
    <3> QED
      BY <3>1, <3>2
  <2> QED
    BY <1>2, <2>1, OnlyClaimsAdd DEF ClaimsInv
<1>3. CASE UNCHANGED <<audit, attempts>>
  BY <1>3 DEF ClaimsInv, ClaimRows
<1> QED
  BY <1>1, <1>2, <1>3, EverySteps DEF Decided, Republished, GivenUp

\* Every attempt has a claiming message of its own, however often a message is
\* delivered: the audit row that a claim writes is identified by the message, so that
\* a second claim from the same message raises a duplicate key
THEOREM ClaimsAreMatched == Spec => []AttemptPerMessage
<1>1. Init => ClaimsInv
  <2> SUFFICES ASSUME Init
               PROVE  ClaimsInv
    OBVIOUS
  <2>1. ClaimRows = {} /\ Len(attempts) = 0
    BY DEF Init, ClaimRows
  <2> QED
    BY <2>1, FS_EmptySet DEF ClaimsInv
<1>2. Inv /\ AttemptInv /\ ClaimsInv /\ [Next]_vars => ClaimsInv'
  BY ClaimsNext
<1>3. ClaimsInv => AttemptPerMessage
  BY DEF ClaimsInv, ClaimRows, AttemptPerMessage
<1> QED
  BY <1>1, <1>2, <1>3, Invariance, AttemptsKnown, PTL DEF Spec

-----------------------------------------------------------------------------
(***************************************************************************)
(* Verification ends                                                      *)
(***************************************************************************)
Budget == RecoveryCap(Obligation)

\* What the record r of a handler says of the verification rows at this version
Follows(r, rows, version) ==
  /\ r.pc \in {"gather", "conclude"} => rows[r.vid] # None
  /\ r.pc \in Verifying /\ r.ver = version => r.vid = Len(rows)
  /\ r.pc = "conclude" /\ r.ver = version => r.cnt = Len(rows)

\* Only the latest verification may be without a result, and only while it runs or
\* after it was given up
RowsClosed ==
  \A i \in DOMAIN verifs :
    verifs[i] = None => i = Len(verifs) /\ op.state \notin {"READY", "EXECUTING", "UNKNOWN"}

\* A verification beyond the budget needs a further attempt
RowsBounded ==
  /\ Len(verifs) + 1 <= Budget + Len(attempts)
  /\ op.state \in {"EXECUTING", "UNKNOWN"} => Len(verifs) + 2 <= Budget + Len(attempts)

VerificationInv ==
  RowsClosed /\ RowsBounded /\ \A w \in Workers : Follows(h[w], verifs, op.version)

LEMMA BudgetIsPositive == Budget \in Nat /\ Budget >= 1
BY ExecutionAssumption DEF Budget, RecoveryCap, Obligations, DefaultRecoveries

\* A handler keeps following when rows are only completed, or added with a version
LEMMA StillFollows ==
  ASSUME Inv, NEW v \in Workers, Follows(h[v], verifs, op.version), RowsFinal,
         op'.version \in Nat, op.version <= op'.version,
         op'.version = op.version => Len(verifs') = Len(verifs)
  PROVE  Follows(h[v], verifs', op'.version)
<1>1. /\ h[v] \in Handlers /\ h[v].ver <= op.version /\ h[v].ver \in Nat
      /\ op.version \in Nat
      /\ h[v].pc \in Verifying => h[v].vid \in DOMAIN verifs
  BY Facts, RowTypes DEF Sound, Verifying, Handlers
<1>2. h[v].ver = op'.version => op'.version = op.version
  BY <1>1
<1>3. h[v].pc \in {"gather", "conclude"} => verifs'[h[v].vid] # None
  BY <1>1 DEF Follows, RowsFinal, Verifying
<1> QED
  BY <1>2, <1>3 DEF Follows

\* The versions and lengths that a handler's step leaves
LEMMA VersionsMove ==
  ASSUME Inv, NEW w \in Workers, Effect(w)
  PROVE  /\ op.version \in Nat /\ op'.version \in {op.version, op.version + 1}
         /\ op'.version = op.version => Len(verifs') = Len(verifs) /\ op' = op
<1>1. op.version \in Nat
  BY Facts
<1>2. CASE op' = op
  <2>1. CASE Recorded(w)
    BY <1>2, <2>1, <1>1, RowTypes, ExceptKeepsSeq, Facts DEF Recorded, Sound
  <2>2. CASE ~Recorded(w)
    <3>1. \A kind, row : ~Written(kind, row)
      BY <1>1, <1>2 DEF Written
    <3>2. ~(Claimed(w) \/ Applied(w) \/ Abandoned(w) \/ Started(w) \/ Concluded(w)
              \/ Resolved(w))
      BY <3>1 DEF Claimed, Applied, Abandoned, Started, Concluded, Resolved
    <3>3. verifs' = verifs
      BY <2>2, <3>2 DEF Effect, Quiet, Called, Returned, Persisted, Inspected, Joined,
                        Cycled, Asked, Gathered, Weighed
    <3> QED
      BY <1>1, <1>2, <3>3
  <2> QED
    BY <2>1, <2>2
<1>3. CASE op' # op
  <2>1. op'.version = op.version + 1
    BY <1>3, TransitionKinds DEF Written
  <2> QED
    BY <1>1, <2>1
<1> QED
  BY <1>2, <1>3

LEMMA OthersFollow ==
  ASSUME Inv, VerificationInv, NEW w \in Workers, Effect(w), NEW v \in Workers \ {w}
  PROVE  Follows(h'[v], verifs', op'.version)
<1>1. h'[v] = h[v]
  BY DEF Effect, Quiet, Claimed, Called, Returned, Persisted, Applied, Inspected,
         Abandoned, Joined, Started, Cycled, Asked, Recorded, Gathered, Concluded,
         Weighed, Resolved, Keeps, Alone
<1>2. RowsFinal
  BY WorkerKeepsRows
<1>3. op'.version \in Nat /\ op.version <= op'.version
  BY VersionsMove
<1>4. op'.version = op.version => Len(verifs') = Len(verifs)
  BY VersionsMove
<1> QED
  BY <1>1, <1>2, <1>3, <1>4, StillFollows DEF VerificationInv

\* A handler that enters the cycle, goes on in it or leaves it follows
LEMMA ActorFollows ==
  ASSUME Inv, VerificationInv, NEW w \in Workers, Effect(w)
  PROVE  Follows(h'[w], verifs', op'.version)
<1>1. /\ Follows(h[w], verifs, op.version) /\ h[w] \in Handlers
      /\ op.version \in Nat /\ Len(verifs) \in Nat
      /\ h[w].pc \in Verifying => h[w].vid \in 1..Len(verifs)
  BY Facts DEF VerificationInv, Sound, Verifying
<1>2. CASE h'[w].pc \notin Verifying
  BY <1>2 DEF Follows, Verifying
<1>3. CASE Joined(w)
  BY <1>3 DEF Joined, Quiet, Follows
<1>4. CASE Started(w)
  <2>1. /\ h'[w].pc = "cycle" /\ h'[w].ver = op.version + 1
        /\ h'[w].vid = Len(verifs) + 1 /\ verifs' = Append(verifs, None)
    BY <1>4 DEF Started
  <2> QED
    BY <2>1, RowTypes, AppendKeeps DEF Follows
<1>5. CASE Cycled(w) \/ Asked(w)
  BY <1>1, <1>5 DEF Cycled, Asked, Keeps, Follows, Verifying
<1>6. CASE Recorded(w)
  <2>1. /\ op' = op /\ Len(verifs') = Len(verifs)
        /\ h'[w].pc = "gather" /\ h'[w].ver = h[w].ver /\ h'[w].vid = h[w].vid
        /\ h[w].pc = "record"
    BY <1>6, VersionsMove DEF Recorded, Keeps
  <2>2. h[w].res \in VerificationResults /\ h[w].res # None
    BY <2>1, Facts DEF Sound, VerificationResults, Outcomes, None
  <2>3. verifs'[h[w].vid] # None
    BY <1>1, <1>6, <2>1, <2>2, RowTypes DEF Recorded, Verifying
  <2> QED
    BY <1>1, <2>1, <2>3 DEF Follows, Verifying
<1>7. CASE Gathered(w)
  <2>1. /\ UNCHANGED <<op, verifs>> /\ h[w].pc = "gather" /\ h'[w].pc = "conclude"
        /\ h'[w].ver = h[w].ver /\ h'[w].vid = h[w].vid
        /\ h'[w].cnt = CompletedVerifications
    BY <1>7 DEF Gathered, Keeps
  <2>2. ASSUME h[w].ver = op.version
        PROVE  CompletedVerifications = Len(verifs)
    <3>1. verifs[Len(verifs)] # None
      BY <1>1, <2>1, <2>2 DEF Follows, Verifying
    <3>2. \A i \in 1..Len(verifs) : verifs[i] # None
      BY <3>1, RowTypes DEF VerificationInv, RowsClosed
    <3>3. {i \in DOMAIN verifs : verifs[i] # None} = 1..Len(verifs)
      BY <3>2, RowTypes
    <3>4. Cardinality(1..Len(verifs)) = Len(verifs)
      <4>1. 1 \in Int /\ Len(verifs) \in Int
        BY <1>1
      <4>2. Cardinality(1..Len(verifs)) = IF 1 > Len(verifs) THEN 0 ELSE Len(verifs) - 1 + 1
        BY <4>1, FS_Interval
      <4>3. (IF 1 > Len(verifs) THEN 0 ELSE Len(verifs) - 1 + 1) = Len(verifs)
        BY <1>1
      <4> QED
        BY <4>2, <4>3
    <3> QED
      BY <3>3, <3>4 DEF CompletedVerifications
  <2> QED
    BY <1>1, <2>1, <2>2 DEF Follows, Verifying
<1>8. CASE \/ Quiet(w, Resting) \/ Claimed(w) \/ Called(w) \/ Returned(w) \/ Persisted(w)
           \/ Applied(w) \/ Inspected(w) \/ Abandoned(w) \/ Concluded(w) \/ Weighed(w)
           \/ Resolved(w)
  BY <1>2, <1>8
     DEF Quiet, Claimed, Called, Returned, Persisted, Applied, Inspected, Abandoned,
         Concluded, Weighed, Resolved, Resting, Verifying
<1> QED
  BY <1>3, <1>4, <1>5, <1>6, <1>7, <1>8 DEF Effect

\* What a transition does to the rows and to the states that bound them
LEMMA TransitionsBound ==
  ASSUME Inv, AttemptInv, VerificationInv, NEW w \in Workers,
         \/ Claimed(w) \/ Applied(w) \/ Abandoned(w) \/ Started(w) \/ Concluded(w)
         \/ Resolved(w)
  PROVE  RowsClosed' /\ RowsBounded'
<1> DEFINE na == Len(attempts)
           nv == Len(verifs)
<1>1. /\ na \in Nat /\ nv \in Nat /\ Budget \in Nat /\ Budget' = Budget
      /\ DOMAIN verifs = 1..nv
      /\ nv + 1 <= Budget + na
      /\ op.state \in {"EXECUTING", "UNKNOWN"} => nv + 2 <= Budget + na
  BY RowTypes, BudgetIsPositive DEF VerificationInv, RowsBounded, Budget
<1>2. op.state \in {"READY", "EXECUTING", "UNKNOWN"} => \A i \in 1..nv : verifs[i] # None
  BY <1>1 DEF VerificationInv, RowsClosed
<1>3. CASE Claimed(w)
  <2>1. op.state = "READY" /\ op'.state = "EXECUTING" /\ verifs' = verifs
    BY <1>3, Sources, Targets DEF Claimed, Written
  <2>2. Len(attempts') = na + 1
    BY <1>3, RowTypes, AppendKeeps DEF Claimed
  <2>3. RowsClosed'
    BY <1>1, <1>2, <2>1 DEF RowsClosed
  <2>4. RowsBounded'
    BY <1>1, <2>1, <2>2 DEF RowsBounded
  <2> QED
    BY <2>3, <2>4
<1>4. CASE Applied(w)
  <2>1. PICK kind :
          /\ kind = ExecutionKind(h[w].out, Descriptor, Obligation, h[w].num,
                      RegistryRetrySafety(Descriptor, h[w].out, None, FALSE))
          /\ op.state = Source(kind) /\ op'.state = Target(kind)
          /\ verifs' = IF kind = "EXECUTION_REQUIRE_VERIFICATION"
                       THEN Append(verifs, None) ELSE verifs
    BY <1>4 DEF Applied, Written
  <2>2. kind \in {"EXECUTION_UNKNOWN", "EXECUTION_REQUIRE_VERIFICATION",
                  "EXECUTION_APPLIED", "EXECUTION_NOT_APPLIED_RETRY",
                  "EXECUTION_NOT_APPLIED_FAIL"}
    BY <1>4, <2>1, AppliedKeepsAttempts, ExecutionKinds
  <2>3. op.state = "EXECUTING" /\ Len(attempts') = na
    BY <1>4, <2>1, <2>2, Sources, AppliedKeepsAttempts
  <2>4. CASE kind = "EXECUTION_REQUIRE_VERIFICATION"
    <3>1. op'.state = "VERIFYING" /\ verifs' = Append(verifs, None)
      BY <2>1, <2>4, Targets
    <3>2. /\ Len(verifs') = nv + 1 /\ DOMAIN verifs' = 1..(nv + 1)
          /\ \A i \in 1..nv : verifs'[i] = verifs[i]
      BY <3>1, RowTypes, AppendKeeps
    <3>3. RowsClosed'
      BY <1>1, <1>2, <2>3, <3>1, <3>2 DEF RowsClosed
    <3>4. RowsBounded'
      BY <1>1, <2>3, <3>1, <3>2 DEF RowsBounded
    <3> QED
      BY <3>3, <3>4
  <2>5. CASE kind # "EXECUTION_REQUIRE_VERIFICATION"
    <3>1. verifs' = verifs
      BY <2>1, <2>5
    <3> QED
      BY <1>1, <1>2, <2>3, <3>1 DEF RowsClosed, RowsBounded
  <2> QED
    BY <2>4, <2>5
<1>5. CASE Abandoned(w)
  <2>1. op.state = "EXECUTING" /\ UNCHANGED <<attempts, verifs>>
    BY <1>5, Sources DEF Abandoned, Written
  <2> QED
    BY <1>1, <1>2, <2>1 DEF RowsClosed, RowsBounded
<1>6. CASE Started(w)
  <2>1. /\ op.state = "UNKNOWN" /\ op'.state = "VERIFYING" /\ attempts' = attempts
        /\ verifs' = Append(verifs, None)
    BY <1>6, Sources, Targets DEF Started, Written
  <2>2. /\ Len(verifs') = nv + 1 /\ DOMAIN verifs' = 1..(nv + 1)
        /\ \A i \in 1..nv : verifs'[i] = verifs[i]
    BY <2>1, RowTypes, AppendKeeps
  <2>3. RowsClosed'
    BY <1>1, <1>2, <2>1, <2>2 DEF RowsClosed
  <2>4. RowsBounded'
    BY <1>1, <2>1, <2>2 DEF RowsBounded
  <2> QED
    BY <2>3, <2>4
<1>7. CASE Concluded(w)
  <2>1. PICK kind :
          /\ kind = VerificationKind(h[w].res, h[w].out, h[w].num, h[w].cnt,
                                     Descriptor, Obligation)
          /\ op.state = Source(kind) /\ op'.state = Target(kind)
          /\ op.version = h[w].ver /\ h[w].pc = "conclude"
          /\ verifs' = IF verifs[h[w].vid] = None
                       THEN [verifs EXCEPT ![h[w].vid] = h[w].res] ELSE verifs
          /\ attempts' = attempts
    BY <1>7 DEF Concluded, Written
  <2>2. Follows(h[w], verifs, op.version)
    BY DEF VerificationInv
  <2>3. verifs[nv] # None /\ verifs' = verifs /\ h[w].cnt = nv
    BY <2>1, <2>2 DEF Follows, Verifying
  <2>4. RowsClosed'
    BY <1>1, <2>3 DEF VerificationInv, RowsClosed
  <2>5. h[w].res \in VerificationResults /\ na >= 1
    BY <2>1, Facts DEF Sound
  <2>6. kind \in {"VERIFICATION_ESCALATE", "VERIFICATION_APPLIED",
                  "VERIFICATION_NOT_APPLIED_RETRY", "VERIFICATION_NOT_APPLIED_FAIL",
                  "VERIFICATION_INCONCLUSIVE"}
    BY <2>1, <2>5, VerificationKinds
  <2>7. kind = "VERIFICATION_INCONCLUSIVE" => ~(nv >= Budget)
    BY <2>1, <2>3, <2>5 DEF VerificationKind, RecoverySpent, Budget, VerificationResults,
                            Outcomes
  <2>8. op'.state \in {"EXECUTING", "UNKNOWN"} => kind = "VERIFICATION_INCONCLUSIVE"
    BY <2>1, <2>6, Targets
  <2>9. RowsBounded'
    BY <1>1, <2>1, <2>3, <2>5, <2>7, <2>8 DEF RowsBounded
  <2> QED
    BY <2>4, <2>9
<1>8. CASE Resolved(w)
  <2>1. PICK elapsed, kind :
          /\ elapsed \in BOOLEAN
          /\ kind = UnverifiableKind(h[w].out, h[w].num, elapsed, Descriptor, Obligation)
          /\ op.state = Source(kind) /\ UNCHANGED <<attempts, verifs>>
    BY <1>8 DEF Resolved, Written
  <2>2. op.state = "UNKNOWN"
    BY <2>1, UnverifiableKinds, Sources
  <2> QED
    BY <1>1, <1>2, <2>1, <2>2 DEF RowsClosed, RowsBounded
<1> QED
  BY <1>3, <1>4, <1>5, <1>6, <1>7, <1>8

LEMMA VerificationInvNext ==
  ASSUME Inv, AttemptInv, VerificationInv, [Next]_vars
  PROVE  VerificationInv'
<1>1. ASSUME NEW w \in Workers, Effect(w)
      PROVE  VerificationInv'
  <2>1. \A v \in Workers : Follows(h'[v], verifs', op'.version)
    BY <1>1, ActorFollows, OthersFollow
  <2>2. CASE \/ Claimed(w) \/ Applied(w) \/ Abandoned(w) \/ Started(w) \/ Concluded(w)
             \/ Resolved(w)
    BY <2>1, <2>2, TransitionsBound DEF VerificationInv
  <2>3. CASE Recorded(w)
    <3>1. op' = op /\ attempts' = attempts /\ Len(verifs') = Len(verifs)
      BY <1>1, <2>3, VersionsMove DEF Recorded
    <3>2. RowsFinal /\ DOMAIN verifs' = DOMAIN verifs
      BY <1>1, <2>3, WorkerKeepsRows DEF Recorded
    <3>3. RowsClosed'
      BY <3>1, <3>2 DEF VerificationInv, RowsClosed, RowsFinal
    <3>4. RowsBounded'
      BY <3>1 DEF VerificationInv, RowsBounded, Budget
    <3> QED
      BY <2>1, <3>3, <3>4 DEF VerificationInv
  <2>4. CASE \/ Quiet(w, Resting) \/ Called(w) \/ Returned(w) \/ Persisted(w)
             \/ Inspected(w) \/ Joined(w) \/ Cycled(w) \/ Asked(w) \/ Gathered(w)
             \/ Weighed(w)
    <3>1. UNCHANGED <<op, verifs>>
      BY <2>4 DEF Quiet, Called, Returned, Persisted, Inspected, Joined, Cycled, Asked,
                  Gathered, Weighed
    <3>2. Len(attempts') = Len(attempts)
      BY <1>1, <2>4, OnlyClaimsAdd
         DEF Quiet, Called, Returned, Persisted, Inspected, Joined, Cycled, Asked,
             Gathered, Weighed, Claimed, Written
    <3> QED
      BY <2>1, <3>1, <3>2 DEF VerificationInv, RowsClosed, RowsBounded, Budget
  <2> QED
    BY <1>1, <2>2, <2>3, <2>4 DEF Effect
<1>2. CASE UNCHANGED <<op, attempts, verifs, h>>
  BY <1>2 DEF VerificationInv, RowsClosed, RowsBounded, Follows, Budget
<1>3. CASE GivenUp
  <2>1. /\ UNCHANGED <<attempts, verifs, h>> /\ op'.version = op.version + 1
        /\ op'.state = "MANUAL_INTERVENTION" /\ op.version \in Nat
    BY <1>3, Numbers DEF GivenUp, Inv
  <2>2. RowsClosed' /\ RowsBounded'
    BY <2>1 DEF VerificationInv, RowsClosed, RowsBounded, Budget
  <2>3. ASSUME NEW v \in Workers
        PROVE  Follows(h'[v], verifs', op'.version)
    <3>1. RowsFinal
      BY <2>1 DEF RowsFinal
    <3>2. op'.version \in Nat /\ op.version <= op'.version /\ op'.version # op.version
      BY <2>1
    <3>3. Follows(h[v], verifs, op.version)
      BY DEF VerificationInv
    <3> QED
      BY <2>1, <3>1, <3>2, <3>3, StillFollows
  <2> QED
    BY <2>2, <2>3 DEF VerificationInv
<1> QED
  BY <1>1, <1>2, <1>3, EverySteps DEF Decided, Republished

\* Only the latest verification row may lack its result, the rows stay within a budget
\* that each further attempt extends by one, and a verifying handler whose version is
\* still the operation's has the latest row, and counts them all when it concludes
THEOREM VerificationsKnown == Spec => []VerificationInv
<1>1. Init => VerificationInv
  <2> SUFFICES ASSUME Init
               PROVE  VerificationInv
    OBVIOUS
  <2>1. /\ attempts = <<>> /\ verifs = <<>> /\ op.state = "READY"
        /\ \A w \in Workers : h[w].pc = "idle"
    BY DEF Init, Idle
  <2> QED
    BY <2>1, BudgetIsPositive
       DEF VerificationInv, RowsClosed, RowsBounded, Follows, Verifying
<1>2. Inv /\ AttemptInv /\ VerificationInv /\ [Next]_vars => VerificationInv'
  BY VerificationInvNext
<1> QED
  BY <1>1, <1>2, Invariance, AttemptsKnown, PTL DEF Spec

\* Verification does not go on for ever: a verification whose result is inconclusive is
\* followed by another only within the recovery budget, and beyond it only for a
\* further attempt, although every handler counts the completed rows it has read before
THEOREM RecoveryIsBounded == Spec => []RecoveryBudget
<1>1. Inv /\ VerificationInv => RecoveryBudget
  <2> SUFFICES ASSUME Inv, VerificationInv
               PROVE  RecoveryBudget
    OBVIOUS
  <2>1. /\ Len(verifs) + 1 <= Budget + Len(attempts) /\ Len(attempts) <= Cap
        /\ Len(verifs) \in Nat /\ Len(attempts) \in Nat
    BY RowTypes DEF VerificationInv, RowsBounded, Inv, Progress
  <2>2. Budget \in Nat /\ Cap \in Nat
    BY BudgetIsPositive, CapIsPositive
  <2> QED
    BY <2>1, <2>2 DEF RecoveryBudget, Budget, Cap
<1> QED
  BY <1>1, Invariance, VerificationsKnown, PTL

-----------------------------------------------------------------------------
(***************************************************************************)
(* A further attempt, or a failure, rests on proof                        *)
(***************************************************************************)
Proven ==
  op'.state \in {"READY", "FAILED"} /\ op.state # op'.state =>
    \/ attempts'[Len(attempts')] = "NOT_APPLIED"
    \/ op.state = "VERIFYING" /\ verifs'[Len(verifs')] = "NOT_APPLIED"

\* The precondition knows nothing of an effect that would excuse missing evidence
LEMMA AdmittedMeansProof ==
  ASSUME NEW d, NEW outcome \in Outcomes, RetryAdmitted(d, outcome, None)
  PROVE  outcome = "NOT_APPLIED"
BY DEF RetryAdmitted, EffectRetrySafety, UnknownRetrySafety, Outcomes, None

\* Which evidence the kinds rest on that make an operation READY or FAILED
LEMMA ExecutionKindProves ==
  ASSUME NEW d, NEW outcome \in Outcomes, NEW number, NEW verdict, NEW kind,
         kind = ExecutionKind(outcome, d, Obligation, number, verdict),
         kind \in {"EXECUTION_NOT_APPLIED_RETRY", "EXECUTION_NOT_APPLIED_FAIL"}
  PROVE  outcome = "NOT_APPLIED"
BY DEF ExecutionKind, Outcomes

LEMMA VerificationKindProves ==
  ASSUME NEW result \in VerificationResults, NEW latest, NEW number, NEW count, NEW d,
         NEW kind, kind = VerificationKind(result, latest, number, count, d, Obligation),
         kind \in {"VERIFICATION_NOT_APPLIED_RETRY", "VERIFICATION_NOT_APPLIED_FAIL"}
  PROVE  result = "NOT_APPLIED"
BY DEF VerificationKind, VerificationResults, Outcomes

LEMMA ProvenNext ==
  ASSUME Inv, AttemptInv, [Next]_vars
  PROVE  Proven
<1>1. ASSUME NEW w \in Workers, Applied(w)
      PROVE  Proven
  <2>1. PICK kind :
          /\ kind = ExecutionKind(h[w].out, Descriptor, Obligation, h[w].num,
                      RegistryRetrySafety(Descriptor, h[w].out, None, FALSE))
          /\ op'.state = Target(kind)
    BY <1>1 DEF Applied, Written
  <2>2. /\ attempts' = attempts /\ h[w].num = Len(attempts)
        /\ attempts[h[w].num] = h[w].out /\ h[w].out \in Outcomes
    BY <1>1, AppliedKeepsAttempts
  <2>3. kind \in {"EXECUTION_UNKNOWN", "EXECUTION_REQUIRE_VERIFICATION",
                  "EXECUTION_APPLIED", "EXECUTION_NOT_APPLIED_RETRY",
                  "EXECUTION_NOT_APPLIED_FAIL"}
    BY <2>1, <2>2, ExecutionKinds
  <2>4. op'.state \in {"READY", "FAILED"} =>
          kind \in {"EXECUTION_NOT_APPLIED_RETRY", "EXECUTION_NOT_APPLIED_FAIL"}
    BY <2>1, <2>3, Targets
  <2>5. op'.state \in {"READY", "FAILED"} => h[w].out = "NOT_APPLIED"
    <3> SUFFICES ASSUME op'.state \in {"READY", "FAILED"}
                 PROVE  h[w].out = "NOT_APPLIED"
      OBVIOUS
    <3>1. kind \in {"EXECUTION_NOT_APPLIED_RETRY", "EXECUTION_NOT_APPLIED_FAIL"}
      BY <2>4
    <3> QED
      BY <2>1, <2>2, <3>1, ExecutionKindProves
  <2> QED
    BY <2>2, <2>5 DEF Proven
<1>2. ASSUME NEW w \in Workers, Concluded(w)
      PROVE  Proven
  <2>1. PICK kind :
          /\ kind = VerificationKind(h[w].res, h[w].out, h[w].num, h[w].cnt,
                                     Descriptor, Obligation)
          /\ op.state = Source(kind) /\ op'.state = Target(kind)
          /\ h[w].pc = "conclude" /\ ResultMatches(h[w].vid, h[w].res)
          /\ verifs' = IF verifs[h[w].vid] = None
                       THEN [verifs EXCEPT ![h[w].vid] = h[w].res] ELSE verifs
    BY <1>2 DEF Concluded, Written
  <2>2. /\ h[w].res \in VerificationResults
        /\ h[w].vid \in 1..Len(verifs) /\ h[w].vid = Len(verifs)
    BY <2>1, Facts DEF Sound, ResultMatches
  <2>3. kind \in {"VERIFICATION_ESCALATE", "VERIFICATION_APPLIED",
                  "VERIFICATION_NOT_APPLIED_RETRY", "VERIFICATION_NOT_APPLIED_FAIL",
                  "VERIFICATION_INCONCLUSIVE"}
    BY <2>1, <2>2, VerificationKinds
  <2>4. op.state = "VERIFYING"
    BY <2>1, <2>3, Sources
  <2>5. op'.state \in {"READY", "FAILED"} =>
          kind \in {"VERIFICATION_NOT_APPLIED_RETRY", "VERIFICATION_NOT_APPLIED_FAIL"}
    BY <2>1, <2>3, Targets
  <2>6. op'.state \in {"READY", "FAILED"} => h[w].res = "NOT_APPLIED"
    <3> SUFFICES ASSUME op'.state \in {"READY", "FAILED"}
                 PROVE  h[w].res = "NOT_APPLIED"
      OBVIOUS
    <3>1. kind \in {"VERIFICATION_NOT_APPLIED_RETRY", "VERIFICATION_NOT_APPLIED_FAIL"}
      BY <2>5
    <3> QED
      BY <2>1, <2>2, <3>1, VerificationKindProves
  <2>7. ASSUME h[w].res = "NOT_APPLIED"
        PROVE  verifs'[Len(verifs')] = "NOT_APPLIED"
    <3>1. CASE verifs[h[w].vid] = None
      BY <2>1, <2>2, <2>7, <3>1, RowTypes
    <3>2. CASE verifs[h[w].vid] # None
      <4>1. OutcomeOf(verifs[h[w].vid]) = OutcomeOf("NOT_APPLIED")
        BY <2>1, <2>7, <3>2 DEF ResultMatches
      <4>2. verifs[h[w].vid] = "NOT_APPLIED"
        BY <4>1 DEF OutcomeOf
      <4> QED
        BY <2>1, <2>2, <3>2, <4>2
    <3> QED
      BY <3>1, <3>2
  <2> QED
    BY <2>4, <2>6, <2>7 DEF Proven
<1>3. ASSUME NEW w \in Workers, Resolved(w)
      PROVE  Proven
  <2>1. PICK elapsed, kind :
          /\ elapsed \in BOOLEAN
          /\ kind = UnverifiableKind(h[w].out, h[w].num, elapsed, Descriptor, Obligation)
          /\ op'.state = Target(kind) /\ op.version = h[w].ver
          /\ kind = "UNKNOWN_SAFE_RETRY" => RetryAdmitted(Descriptor, h[w].out, None)
          /\ attempts' = attempts /\ h[w].pc = "resolve"
    BY <1>3 DEF Resolved, Written
  <2>2. op'.state \in {"READY", "FAILED"} => kind = "UNKNOWN_SAFE_RETRY"
    BY <2>1, UnverifiableKinds, Targets
  <2>3. h[w].out \in Outcomes /\ h[w].num = Len(attempts)
    BY <2>1, Facts DEF Sound
  <2>4. op'.state \in {"READY", "FAILED"} => h[w].out = "NOT_APPLIED"
    BY <2>1, <2>2, <2>3, AdmittedMeansProof
  <2>5. h[w].out # "UNKNOWN" => attempts[h[w].num] = h[w].out
    BY <2>1 DEF AttemptInv, Informed
  <2> QED
    BY <2>1, <2>3, <2>4, <2>5 DEF Proven
<1>4. ASSUME NEW w \in Workers, Claimed(w) \/ Abandoned(w) \/ Started(w)
      PROVE  Proven
  BY <1>4, Targets DEF Claimed, Abandoned, Started, Written, Proven
<1>5. CASE UNCHANGED op
  BY <1>5 DEF Proven
<1>6. CASE GivenUp
  BY <1>6 DEF GivenUp, Proven
<1>7. ASSUME NEW w \in Workers, Effect(w)
      PROVE  Proven
  BY <1>1, <1>2, <1>3, <1>4, <1>5, <1>7
     DEF Effect, Quiet, Called, Returned, Persisted, Inspected, Joined, Cycled, Asked,
         Recorded, Gathered, Weighed
<1> QED
  BY <1>5, <1>6, <1>7, EverySteps DEF Decided, Republished

\* The operation is made READY again, or FAILED, only on durable evidence that the
\* effect is not there, for every effect and policy: a retry of an effect without
\* evidence passes the registry when the effect is idempotent, but never the
\* precondition of the transition service, which knows the mode of the effect only
THEOREM RetriesAreProven == Spec => NotAppliedIsProven
<1>1. Inv /\ AttemptInv /\ [Next]_vars => [Proven]_vars
  BY ProvenNext
<1> QED
  BY <1>1, Invariance, AttemptsKnown, PTL DEF Spec, NotAppliedIsProven, Proven
===============================================================================
