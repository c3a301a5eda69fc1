------------------------ MODULE ExecutionPromise_proofs ------------------------
(***************************************************************************)
(* Proofs that the detailed handlers of module Execution implement module *)
(* OperationPromise, and that with a single worker, and with no request   *)
(* that lands after its handler gave up, the effect is carried out at     *)
(* most once.                                                             *)
(***************************************************************************)
EXTENDS ExecutionSafety_proofs

\* The provider has carried out a request of some attempt
Landed == \E i \in DOMAIN world : world[i] = "LANDED"

\* A verification that answered APPLIED, in a row or still in a handler, is right
Witnessed ==
  /\ \A i \in DOMAIN verifs : verifs[i] = "APPLIED" => Landed
  /\ \A w \in Workers :
       h[w].pc \in {"record", "gather", "conclude"} /\ h[w].res = "APPLIED" => Landed

-----------------------------------------------------------------------------
(***************************************************************************)
(* What the steps do to the requests                                      *)
(***************************************************************************)

\* A request that has landed stays so; it lands only while it is under way
LEMMA LandedMoves ==
  ASSUME Inv, AttemptInv, [Next]_vars
  PROVE  /\ Landed => Landed'
         /\ Landed' = Landed \/ Decided
<1>1. ASSUME NEW w \in Workers, Claimed(w)
      PROVE  Landed' = Landed
  <2>1. world' = Append(world, "UNSENT")
    BY <1>1 DEF Claimed
  <2>2. /\ DOMAIN world = 1..Len(world) /\ DOMAIN world' = 1..(Len(world) + 1)
        /\ Len(world) \in Nat
        /\ \A i \in 1..Len(world) : world'[i] = world[i]
        /\ world'[Len(world) + 1] = "UNSENT"
    BY <2>1, RowTypes, AppendKeeps
  <2>3. Landed => Landed'
    BY <2>2 DEF Landed
  <2>4. Landed' => Landed
    BY <2>2 DEF Landed
  <2> QED
    BY <2>3, <2>4 DEF Landed
<1>2. ASSUME NEW w \in Workers, Called(w)
      PROVE  Landed' = Landed
  <2>1. world' = [world EXCEPT ![h[w].num] = "EN_ROUTE"] /\ world[h[w].num] = "UNSENT"
    BY <1>2 DEF Called, AttemptInv, Informed
  <2> QED
    BY <2>1 DEF Landed
<1>3. ASSUME Decided
      PROVE  Landed => Landed'
  BY <1>3 DEF Decided, Landed
<1>4. UNCHANGED world => Landed' = Landed
  BY DEF Landed
<1>5. ASSUME NEW w \in Workers, Effect(w)
      PROVE  Landed' = Landed
  <2>1. CASE \/ Quiet(w, Resting) \/ Returned(w) \/ Persisted(w) \/ Applied(w)
             \/ Inspected(w) \/ Abandoned(w) \/ Joined(w) \/ Started(w) \/ Cycled(w)
             \/ Asked(w) \/ Recorded(w) \/ Gathered(w) \/ Concluded(w) \/ Weighed(w)
             \/ Resolved(w)
    <3>1. UNCHANGED world
      BY <2>1 DEF Quiet, Returned, Persisted, Applied, Inspected, Abandoned, Joined,
                  Started, Cycled, Asked, Recorded, Gathered, Concluded, Weighed, Resolved
    <3> QED
      BY <1>4, <3>1
  <2> QED
    BY <1>1, <1>2, <1>5, <2>1 DEF Effect
<1>6. \/ \E w \in Workers : Effect(w)
      \/ Decided \/ UNCHANGED world
  BY EverySteps DEF Republished, GivenUp
<1>7. CASE \E w \in Workers : Effect(w)
  BY <1>5, <1>7
<1> QED
  BY <1>3, <1>4, <1>6, <1>7

LEMMA WitnessedNext ==
  ASSUME Inv, AttemptInv, Witnessed, [Next]_vars
  PROVE  Witnessed'
<1>1. Landed => Landed'
  BY LandedMoves
<1>2. CASE UNCHANGED <<verifs, h>>
  BY <1>1, <1>2 DEF Witnessed
<1>3. ASSUME NEW w \in Workers, Effect(w)
      PROVE  Witnessed'
  <2>1. \A v \in Workers \ {w} : h'[v] = h[v]
    BY <1>3
       DEF Effect, Quiet, Claimed, Called, Returned, Persisted, Applied, Inspected,
           Abandoned, Joined, Started, Cycled, Asked, Recorded, Gathered, Concluded,
           Weighed, Resolved, Keeps, Alone
  <2>2. h[w].pc \in Verifying => h[w].vid \in DOMAIN verifs
    BY Facts, RowTypes DEF Sound, Verifying
  <2>3. h'[w].pc \in {"record", "gather", "conclude"} /\ h'[w].res = "APPLIED" => Landed'
    <3>1. CASE Cycled(w)
      BY <1>1, <2>2, <3>1 DEF Cycled, Keeps, Witnessed, Verifying
    <3>2. CASE Asked(w)
      BY <1>1, <3>2 DEF Asked, Truth, Landed
    <3>3. CASE Recorded(w) \/ Gathered(w)
      BY <1>1, <3>3 DEF Recorded, Gathered, Witnessed
    <3>4. CASE \/ Quiet(w, Resting) \/ Claimed(w) \/ Called(w) \/ Returned(w)
               \/ Persisted(w) \/ Applied(w) \/ Inspected(w) \/ Abandoned(w) \/ Joined(w)
               \/ Started(w) \/ Concluded(w) \/ Weighed(w) \/ Resolved(w)
      <4>1. h'[w].pc \notin {"record", "gather", "conclude"}
        BY <3>4 DEF Quiet, Claimed, Called, Returned, Persisted, Applied, Inspected,
                    Abandoned, Joined, Started, Concluded, Weighed, Resolved, Resting,
                    Verifying
      <4> QED
        BY <4>1
    <3> QED
      BY <1>3, <3>1, <3>2, <3>3, <3>4 DEF Effect
  <2>4. \A i \in DOMAIN verifs' : verifs'[i] = "APPLIED" => Landed'
    <3>1. CASE UNCHANGED verifs
      BY <1>1, <3>1 DEF Witnessed
    <3>2. CASE verifs' = Append(verifs, None)
      BY <1>1, <3>2, RowTypes, AppendKeeps DEF Witnessed, None
    <3>3. CASE Recorded(w) \/ Concluded(w)
      <4>1. /\ h[w].pc \in {"record", "conclude"}
            /\ \/ verifs' = verifs
               \/ verifs' = [verifs EXCEPT ![h[w].vid] = h[w].res]
        BY <3>3 DEF Recorded, Concluded
      <4> QED
        BY <1>1, <4>1 DEF Witnessed
    <3> QED
      BY <1>3, <3>1, <3>2, <3>3
         DEF Effect, Quiet, Claimed, Called, Returned, Persisted, Applied, Inspected,
             Abandoned, Joined, Started, Cycled, Asked, Gathered, Weighed, Resolved
  <2> QED
    BY <1>1, <2>1, <2>3, <2>4 DEF Witnessed
<1> QED
  BY <1>2, <1>3, EverySteps DEF Decided, Republished, GivenUp

\* What a verification found is so: APPLIED in its row, or in a handler that has not
\* yet written it, means that a request has landed
THEOREM AppliedIsSeen == Spec => []Witnessed
<1>1. Init => Witnessed
  <2> SUFFICES ASSUME Init
               PROVE  Witnessed
    OBVIOUS
  <2>1. verifs = <<>> /\ \A w \in Workers : h[w].pc = "idle"
    BY DEF Init, Idle
  <2> QED
    BY <2>1 DEF Witnessed
<1>2. Inv /\ AttemptInv /\ Witnessed /\ [Next]_vars => Witnessed'
  BY WitnessedNext
<1> QED
  BY <1>1, <1>2, Invariance, AttemptsKnown, PTL DEF Spec

-----------------------------------------------------------------------------
(***************************************************************************)
(* Every step keeps the promise, or says nothing about it                 *)
(***************************************************************************)

\* The phases of the states that handlers lead to and from
LEMMA Phases ==
  /\ op.state = "READY" => Phase = "ready"
  /\ op.state = "EXECUTING" => Phase = "trying"
  /\ op.state \in {"VERIFYING", "UNKNOWN"} => Phase = "doubtful"
  /\ op.state = "SUCCEEDED" => Phase = "succeeded"
  /\ op.state = "FAILED" => Phase = "failed"
  /\ op.state \notin {"READY", "EXECUTING", "VERIFYING", "UNKNOWN", "SUCCEEDED", "FAILED"}
       => Phase = "manual"
BY DEF Phase

LEMMA PhasesNext ==
  /\ op'.state = "READY" => Phase' = "ready"
  /\ op'.state = "EXECUTING" => Phase' = "trying"
  /\ op'.state \in {"VERIFYING", "UNKNOWN"} => Phase' = "doubtful"
  /\ op'.state = "SUCCEEDED" => Phase' = "succeeded"
  /\ op'.state = "FAILED" => Phase' = "failed"
  /\ op'.state \notin {"READY", "EXECUTING", "VERIFYING", "UNKNOWN", "SUCCEEDED", "FAILED"}
       => Phase' = "manual"
BY DEF Phase

\* The steps of the promise, in the terms of the operation
Tries == Len(attempts)

Promised ==
  \/ Phase = "ready" /\ Tries < Cap
     /\ Phase' = "trying" /\ Tries' = Tries + 1 /\ Landed' = Landed
  \/ Tries > 0 /\ Landed' /\ Phase' = Phase /\ Tries' = Tries
  \/ /\ Tries' = Tries /\ Landed' = Landed
     /\ \/ Phase \in {"trying", "doubtful"} /\ Phase' = "doubtful"
        \/ Phase \in {"trying", "doubtful"} /\ Landed /\ Phase' = "succeeded"
        \/ Phase \in {"trying", "doubtful"} /\ Tries < Cap /\ Phase' = "ready"
        \/ Phase \in {"trying", "doubtful"} /\ Tries = Cap /\ Phase' = "failed"
        \/ Phase \in {"ready", "trying", "doubtful"} /\ Phase' = "manual"
        \/ Phase' = Phase

LEMMA PromisedIsPromise ==
  ASSUME Promised
  PROVE  [Promise!Next]_(Promise!promise)
<1> USE DEF Tries, Cap, Landed
<1>1. CASE /\ Phase = "ready" /\ Tries < Cap
           /\ Phase' = "trying" /\ Tries' = Tries + 1 /\ Landed' = Landed
  BY <1>1 DEF Promise!Next, Promise!Try
<1>2. CASE Tries > 0 /\ Landed' /\ Phase' = Phase /\ Tries' = Tries
  BY <1>2 DEF Promise!Next, Promise!Land
<1>3. CASE /\ Tries' = Tries /\ Landed' = Landed
           /\ \/ Phase \in {"trying", "doubtful"} /\ Phase' = "doubtful"
              \/ Phase \in {"trying", "doubtful"} /\ Landed /\ Phase' = "succeeded"
  BY <1>3 DEF Promise!Next, Promise!Doubt, Promise!Succeed
<1>4. CASE /\ Tries' = Tries /\ Landed' = Landed
           /\ \/ Phase \in {"trying", "doubtful"} /\ Tries < Cap /\ Phase' = "ready"
              \/ Phase \in {"trying", "doubtful"} /\ Tries = Cap /\ Phase' = "failed"
  BY <1>4 DEF Promise!Next, Promise!TryAgain, Promise!Fail
<1>5. CASE /\ Tries' = Tries /\ Landed' = Landed
           /\ Phase \in {"ready", "trying", "doubtful"} /\ Phase' = "manual"
  BY <1>5 DEF Promise!Next, Promise!AskHuman
<1>6. CASE Tries' = Tries /\ Landed' = Landed /\ Phase' = Phase
  BY <1>6 DEF Promise!promise
<1> QED
  BY <1>1, <1>2, <1>3, <1>4, <1>5, <1>6 DEF Promised

\* A step that neither writes the operation's row nor starts an attempt
LEMMA SilentStep ==
  ASSUME UNCHANGED op, Len(attempts') = Len(attempts), Landed' = Landed
  PROVE  Promised
BY DEF Promised, Tries, Phase

\* A claim is one more try, within the budget
LEMMA ClaimTries ==
  ASSUME Inv, NEW w \in Workers, Claimed(w), Landed' = Landed
  PROVE  Promised
<1>1. op.state = "READY" /\ op'.state = "EXECUTING"
  BY Sources, Targets DEF Claimed, Written
<1>2. Len(attempts) < Cap
  BY <1>1 DEF Inv, Progress
<1>3. Len(attempts') = Len(attempts) + 1
  BY RowTypes, AppendKeeps DEF Claimed
<1> QED
  BY <1>1, <1>2, <1>3, Phases, PhasesNext DEF Promised, Tries

\* The operation is READY again only while policy allows another try
LEMMA AnotherTry ==
  ASSUME Inv', op'.state = "READY", Len(attempts') = Len(attempts)
  PROVE  Len(attempts) < Cap
<1>1. Len(attempts') < Cap'
  BY DEF Inv, Progress
<1>2. Cap' = Cap
  BY DEF Cap
<1> QED
  BY <1>1, <1>2

\* A failure comes after the last try
LEMMA FailsLast ==
  /\ \A d, number : ExecutionKind("NOT_APPLIED", d, Obligation, number,
                      RegistryRetrySafety(d, "NOT_APPLIED", None, FALSE))
                      = "EXECUTION_NOT_APPLIED_FAIL" => ~MayTryAgain(number, Obligation)
  /\ \A d, number, latest, count :
       VerificationKind("NOT_APPLIED", latest, number, count, d, Obligation)
         = "VERIFICATION_NOT_APPLIED_FAIL" => ~MayTryAgain(number, Obligation)
<1>1. \A mode, elapsed, proven :
        /\ EffectRetrySafety("NOT_APPLIED", None, mode, elapsed, proven) = "SAFE"
        /\ EffectRetrySafety(None, "NOT_APPLIED", mode, elapsed, proven) = "SAFE"
  BY DEF EffectRetrySafety, None
<1>2. ASSUME NEW d, NEW number,
             ExecutionKind("NOT_APPLIED", d, Obligation, number,
               RegistryRetrySafety(d, "NOT_APPLIED", None, FALSE))
               = "EXECUTION_NOT_APPLIED_FAIL"
      PROVE  ~MayTryAgain(number, Obligation)
  BY <1>1, <1>2 DEF ExecutionKind, RegistryRetrySafety
<1>3. ASSUME NEW d, NEW number, NEW latest, NEW count,
             VerificationKind("NOT_APPLIED", latest, number, count, d, Obligation)
               = "VERIFICATION_NOT_APPLIED_FAIL"
      PROVE  ~MayTryAgain(number, Obligation)
  BY <1>1, <1>3 DEF VerificationKind
<1> QED
  BY <1>2, <1>3

LEMMA SpentTries ==
  ASSUME Inv, ~MayTryAgain(Len(attempts), Obligation)
  PROVE  Len(attempts) = Cap
<1>1. Len(attempts) <= Cap /\ Len(attempts) \in Nat /\ Cap \in Nat
  BY RowTypes, CapIsPositive DEF Inv, Progress
<1>2. ~(Len(attempts) < Cap)
  BY DEF MayTryAgain, Cap
<1> QED
  BY <1>1, <1>2

\* What the evidence of an attempt does to the promise
LEMMA AppliedPromised ==
  ASSUME Inv, Inv', AttemptInv, NEW w \in Workers, Applied(w), Landed' = Landed
  PROVE  Promised
<1>1. PICK kind :
        /\ kind = ExecutionKind(h[w].out, Descriptor, Obligation, h[w].num,
                    RegistryRetrySafety(Descriptor, h[w].out, None, FALSE))
        /\ op.state = Source(kind) /\ op'.state = Target(kind)
  BY DEF Applied, Written
<1>2. /\ attempts' = attempts /\ h[w].num = Len(attempts)
      /\ attempts[h[w].num] = h[w].out /\ h[w].out \in Outcomes
  BY AppliedKeepsAttempts
<1>3. kind \in {"EXECUTION_UNKNOWN", "EXECUTION_REQUIRE_VERIFICATION",
                "EXECUTION_APPLIED", "EXECUTION_NOT_APPLIED_RETRY",
                "EXECUTION_NOT_APPLIED_FAIL"}
  BY <1>1, <1>2, ExecutionKinds
<1>4. op.state = "EXECUTING" /\ Phase = "trying"
  BY <1>1, <1>3, Sources, Phases
<1>5. CASE kind \in {"EXECUTION_UNKNOWN", "EXECUTION_REQUIRE_VERIFICATION"}
  <2>1. Phase' = "doubtful"
    BY <1>1, <1>5, Targets, PhasesNext
  <2> QED
    BY <1>2, <1>4, <2>1 DEF Promised, Tries
<1>6. CASE kind = "EXECUTION_APPLIED"
  <2>1. h[w].out = "APPLIED"
    BY <1>1, <1>2, <1>6 DEF ExecutionKind, Outcomes
  <2>2. h[w].num \in DOMAIN attempts
    BY <1>2, <1>4, RowTypes DEF Inv, Progress
  <2>3. world[h[w].num] = "LANDED" /\ h[w].num \in DOMAIN world
    BY <1>2, <2>1, <2>2, RowTypes DEF AttemptInv, EvidenceIsTrue
  <2>4. Phase' = "succeeded" /\ Landed
    BY <1>1, <1>6, <2>3, Targets, PhasesNext DEF Landed
  <2> QED
    BY <1>2, <1>4, <2>4 DEF Promised, Tries
<1>7. CASE kind = "EXECUTION_NOT_APPLIED_RETRY"
  <2>1. op'.state = "READY" /\ Phase' = "ready"
    BY <1>1, <1>7, Targets, PhasesNext
  <2> QED
    BY <1>2, <1>4, <2>1, AnotherTry DEF Promised, Tries
<1>8. CASE kind = "EXECUTION_NOT_APPLIED_FAIL"
  <2>1. h[w].out = "NOT_APPLIED"
    BY <1>1, <1>2, <1>8, ExecutionKindProves
  <2>2. ~MayTryAgain(Len(attempts), Obligation)
    BY <1>1, <1>2, <1>8, <2>1, FailsLast
  <2>3. Len(attempts) = Cap /\ Phase' = "failed"
    BY <1>1, <1>8, <2>2, SpentTries, Targets, PhasesNext
  <2> QED
    BY <1>2, <1>4, <2>3 DEF Promised, Tries
<1> QED
  BY <1>3, <1>5, <1>6, <1>7, <1>8

\* What the result of a verification does to it
LEMMA ConcludedPromised ==
  ASSUME Inv, Inv', Witnessed, NEW w \in Workers, Concluded(w), Landed' = Landed
  PROVE  Promised
<1>1. PICK kind :
        /\ kind = VerificationKind(h[w].res, h[w].out, h[w].num, h[w].cnt,
                                   Descriptor, Obligation)
        /\ op.state = Source(kind) /\ op'.state = Target(kind)
        /\ op.version = h[w].ver /\ h[w].pc = "conclude" /\ attempts' = attempts
  BY DEF Concluded, Written
<1>2. h[w].res \in VerificationResults /\ h[w].num = Len(attempts)
  BY <1>1, Facts DEF Sound
<1>3. kind \in {"VERIFICATION_ESCALATE", "VERIFICATION_APPLIED",
                "VERIFICATION_NOT_APPLIED_RETRY", "VERIFICATION_NOT_APPLIED_FAIL",
                "VERIFICATION_INCONCLUSIVE"}
  BY <1>1, <1>2, VerificationKinds
<1>4. Phase = "doubtful"
  BY <1>1, <1>3, Sources, Phases
<1>5. CASE kind = "VERIFICATION_INCONCLUSIVE"
  <2>1. Phase' = "doubtful"
    BY <1>1, <1>5, Targets, PhasesNext
  <2> QED
    BY <1>1, <1>4, <2>1 DEF Promised, Tries
<1>6. CASE kind = "VERIFICATION_ESCALATE"
  <2>1. Phase' = "manual"
    BY <1>1, <1>6, Targets, PhasesNext
  <2> QED
    BY <1>1, <1>4, <2>1 DEF Promised, Tries
<1>7. CASE kind = "VERIFICATION_APPLIED"
  <2>1. h[w].res = "APPLIED"
    BY <1>1, <1>2, <1>7 DEF VerificationKind, VerificationResults, Outcomes
  <2>2. Landed
    BY <1>1, <2>1 DEF Witnessed
  <2>3. Phase' = "succeeded"
    BY <1>1, <1>7, Targets, PhasesNext
  <2> QED
    BY <1>1, <1>4, <2>2, <2>3 DEF Promised, Tries
<1>8. CASE kind = "VERIFICATION_NOT_APPLIED_RETRY"
  <2>1. op'.state = "READY" /\ Phase' = "ready"
    BY <1>1, <1>8, Targets, PhasesNext
  <2> QED
    BY <1>1, <1>4, <2>1, AnotherTry DEF Promised, Tries
<1>9. CASE kind = "VERIFICATION_NOT_APPLIED_FAIL"
  <2>1. h[w].res = "NOT_APPLIED"
    BY <1>1, <1>2, <1>9, VerificationKindProves
  <2>2. ~MayTryAgain(Len(attempts), Obligation)
    BY <1>1, <1>2, <1>9, <2>1, FailsLast
  <2>3. Len(attempts) = Cap /\ Phase' = "failed"
    BY <1>1, <1>9, <2>2, SpentTries, Targets, PhasesNext
  <2> QED
    BY <1>1, <1>4, <2>3 DEF Promised, Tries
<1> QED
  BY <1>3, <1>5, <1>6, <1>7, <1>8, <1>9

\* What becomes of an effect that is unknown and cannot, or shall not yet, be verified
LEMMA UnknownPromised ==
  ASSUME Inv, Inv', NEW w \in Workers, Abandoned(w) \/ Started(w) \/ Resolved(w),
         Landed' = Landed
  PROVE  Promised
<1>1. attempts' = attempts
  BY DEF Abandoned, Started, Resolved
<1>2. CASE Abandoned(w)
  <2>1. Phase = "trying" /\ Phase' = "doubtful"
    BY <1>2, Sources, Targets, Phases, PhasesNext DEF Abandoned, Written
  <2> QED
    BY <1>1, <2>1 DEF Promised, Tries
<1>3. CASE Started(w)
  <2>1. Phase = "doubtful" /\ Phase' = "doubtful"
    BY <1>3, Sources, Targets, Phases, PhasesNext DEF Started, Written
  <2> QED
    BY <1>1, <2>1 DEF Promised, Tries
<1>4. CASE Resolved(w)
  <2>1. PICK elapsed, kind :
          /\ elapsed \in BOOLEAN
          /\ kind = UnverifiableKind(h[w].out, h[w].num, elapsed, Descriptor, Obligation)
          /\ op.state = Source(kind) /\ op'.state = Target(kind)
    BY <1>4 DEF Resolved, Written
  <2>2. kind \in {"UNKNOWN_SAFE_RETRY", "UNKNOWN_ESCALATE"}
    BY <2>1, UnverifiableKinds
  <2>3. Phase = "doubtful"
    BY <2>1, <2>2, Sources, Phases
  <2>4. CASE kind = "UNKNOWN_SAFE_RETRY"
    <3>1. op'.state = "READY" /\ Phase' = "ready"
      BY <2>1, <2>4, Targets, PhasesNext
    <3> QED
      BY <1>1, <2>3, <3>1, AnotherTry DEF Promised, Tries
  <2>5. CASE kind = "UNKNOWN_ESCALATE"
    <3>1. Phase' = "manual"
      BY <2>1, <2>5, Targets, PhasesNext
    <3> QED
      BY <1>1, <2>3, <3>1 DEF Promised, Tries
  <2> QED
    BY <2>2, <2>4, <2>5
<1> QED
  BY <1>2, <1>3, <1>4

\* Giving up leads to a human, or stays with one
LEMMA GivenUpPromised ==
  ASSUME GivenUp, Landed' = Landed
  PROVE  Promised
<1>1. attempts' = attempts /\ Phase' = "manual"
  BY PhasesNext DEF GivenUp
<1>2. Phase \in {"ready", "trying", "doubtful", "manual"}
  BY Phases DEF GivenUp, ExhaustedKind
<1> QED
  BY <1>1, <1>2 DEF Promised, Tries

\* A request lands after it was tried, or is lost
LEMMA DecidedPromised ==
  ASSUME Inv, Decided
  PROVE  Promised
<1>1. PICK i \in DOMAIN world, fate \in {"LANDED", "DROPPED"} :
        world[i] = "EN_ROUTE" /\ world' = [world EXCEPT ![i] = fate]
  BY DEF Decided
<1>2. UNCHANGED <<op, attempts>> /\ Phase' = Phase
  BY DEF Decided, Phase
<1>3. CASE fate = "LANDED"
  <2>1. Len(attempts) > 0
    BY <1>1, RowTypes
  <2>2. Landed'
    BY <1>1, <1>3 DEF Landed
  <2> QED
    BY <1>2, <2>1, <2>2 DEF Promised, Tries
<1>4. CASE fate = "DROPPED"
  <2>1. Landed' = Landed
    BY <1>1, <1>4 DEF Landed
  <2> QED
    BY <1>2, <2>1, SilentStep
<1> QED
  BY <1>3, <1>4

LEMMA PromisedNext ==
  ASSUME Inv, Inv', AttemptInv, Witnessed, [Next]_vars
  PROVE  Promised
<1>1. CASE Decided
  BY <1>1, DecidedPromised
<1>2. CASE ~Decided
  <2>1. Landed' = Landed
    BY <1>2, LandedMoves
  <2>2. ASSUME NEW w \in Workers, Effect(w)
        PROVE  Promised
    <3>1. CASE Claimed(w) \/ Applied(w) \/ Concluded(w) \/ Abandoned(w) \/ Started(w)
                 \/ Resolved(w)
      BY <2>1, <3>1, ClaimTries, AppliedPromised, ConcludedPromised, UnknownPromised
    <3>2. CASE \/ Quiet(w, Resting) \/ Called(w) \/ Returned(w) \/ Persisted(w)
               \/ Inspected(w) \/ Joined(w) \/ Cycled(w) \/ Asked(w) \/ Recorded(w)
               \/ Gathered(w) \/ Weighed(w)
      <4>1. UNCHANGED op
        BY <3>2 DEF Quiet, Called, Returned, Persisted, Inspected, Joined, Cycled, Asked,
                    Recorded, Gathered, Weighed
      <4>2. attempts' = attempts \/ Persisted(w)
        BY <3>2 DEF Quiet, Called, Returned, Persisted, Inspected, Joined, Cycled, Asked,
                    Recorded, Gathered, Weighed
      <4>3. Persisted(w) => Len(attempts') = Len(attempts)
        BY RowTypes DEF Persisted
      <4> QED
        BY <2>1, <4>1, <4>2, <4>3, SilentStep
    <3> QED
      BY <2>2, <3>1, <3>2 DEF Effect
  <2>3. CASE Republished \/ UNCHANGED <<op, attempts, verifs, audit, outbox, world, h>>
    BY <2>1, <2>3, SilentStep DEF Republished
  <2>4. CASE GivenUp
    BY <2>1, <2>4, GivenUpPromised
  <2> QED
    BY <1>2, <2>2, <2>3, <2>4, EverySteps
<1> QED
  BY <1>1, <1>2

\* The handlers, messages and journal of module Execution implement the promise to the
\* submitter, in which there is none of them: success is reported only when the effect
\* is there, failure only when every try that policy allows was used, and what stays
\* in doubt ends with a human
THEOREM PromiseKept == Spec => KeepsPromise
<1>1. Init => Promise!Init
  <2> SUFFICES ASSUME Init
               PROVE  Promise!Init
    OBVIOUS
  <2>1. op.state = "READY" /\ attempts = <<>> /\ world = <<>>
    BY DEF Init
  <2>2. Phase = "ready" /\ Len(attempts) = 0 /\ Landed = FALSE
    BY <2>1, Phases DEF Landed
  <2> QED
    BY <2>2 DEF Promise!Init, Landed
<1>2. Inv /\ Inv' /\ AttemptInv /\ Witnessed /\ [Next]_vars
        => [Promise!Next]_(Promise!promise)
  BY PromisedNext, PromisedIsPromise
<1> QED
  BY <1>1, <1>2, Invariance, AttemptsKnown, AppliedIsSeen, PTL
     DEF Spec, KeepsPromise, Promise!Spec

-----------------------------------------------------------------------------
(***************************************************************************)
(* With one worker the effect is carried out at most once                 *)
(***************************************************************************)

\* One worker, whose requests are decided before it gives them up.  The conjuncts
\* below say together why a second request can not land after a first one
Serial == ~LateLanding /\ \A v, w \in Workers : v = w

\* Requests that have not reached the provider and will not
Unmade == {"UNSENT", "DROPPED"}

\* Only the request of the last attempt may have been made
OnlyLast == \A i \in DOMAIN world : i < Len(world) => world[i] \in Unmade

\* A request under way has its handler waiting for it
Watched ==
  \A i \in DOMAIN world :
    world[i] = "EN_ROUTE" => \E w \in Workers : h[w].pc = "flight" /\ h[w].num = i

\* The provider is called for the last attempt, in a state that allows no other
CallsLast ==
  \A w \in Workers :
    h[w].pc \in Calling =>
      /\ h[w].num = Len(attempts)
      /\ op.state \in {"EXECUTING", "MANUAL_INTERVENTION"}

\* Before another attempt, and after a failure, no request was made
Clear == op.state \in {"READY", "FAILED"} => \A i \in DOMAIN world : world[i] \in Unmade

\* A verification that answered NOT_APPLIED is right as long as it may be acted upon
SeenAbsent ==
  /\ op.state = "VERIFYING" /\ verifs[Len(verifs)] = "NOT_APPLIED" => ~Landed
  /\ \A w \in Workers :
       /\ h[w].pc \in Verifying /\ verifs[h[w].vid] = "NOT_APPLIED" => ~Landed
       /\ h[w].pc \in {"record", "gather", "conclude"} /\ h[w].res = "NOT_APPLIED"
            => ~Landed

SerialInv == OnlyLast /\ Watched /\ CallsLast /\ Clear /\ SeenAbsent

\* A handler waits until its request is decided: neither a timeout nor a crash comes first
LEMMA FlightStays ==
  ASSUME Inv, Serial, [Next]_vars, NEW w \in Workers,
         h[w].pc = "flight", world[h[w].num] = "EN_ROUTE"
  PROVE  h'[w] = h[w]
<1>1. \A v \in Workers : v = w
  BY DEF Serial
<1>2. CASE Step(w)
  <2>1. ~Return(w)
    BY DEF Return, Evidence, Serial
  <2>2. ~(\/ Load(w) \/ Execute(w) \/ Claim(w) \/ Call(w) \/ PersistEvidence(w)
          \/ ApplyExecution(w) \/ Recover(w) \/ Inspect(w) \/ Abandon(w))
    BY DEF Load, Execute, Claim, Call, PersistEvidence, ApplyExecution, Recover, Inspect,
           Abandon
  <2>3. ~(\/ Recovery(w) \/ StartVerification(w) \/ Rejoin(w) \/ Cycle(w) \/ Verify(w)
          \/ Record(w) \/ Gather(w) \/ Conclude(w) \/ Weigh(w) \/ Resolve(w))
    BY DEF Recovery, StartVerification, Rejoin, Cycle, Verify, Record, Gather, Conclude,
           Weigh, Resolve
  <2>4. ~(Ack(w) \/ Nak(w) \/ Overflow(w))
    BY DEF Ack, Nak, Overflow
  <2> QED
    BY <1>2, <2>1, <2>2, <2>3, <2>4 DEF Step
<1>3. CASE Crash(w)
  BY <1>3 DEF Crash, Serial
<1>4. CASE \E e \in DOMAIN queue : Deliver(w, e)
  BY <1>4 DEF Deliver
<1>5. CASE Provider \/ Republish \/ Exhaust \/ UNCHANGED vars
  BY <1>5 DEF Provider, Settle, Republish, Exhaust, vars
<1> QED
  BY <1>1, <1>2, <1>3, <1>4, <1>5 DEF Next

\* The steps that move a request
LEMMA RequestSteps ==
  ASSUME Inv, AttemptInv, [Next]_vars
  PROVE  \/ \E w \in Workers : Claimed(w) \/ Called(w)
         \/ Decided
         \/ world' = world /\ Len(attempts') = Len(attempts)
<1>1. ASSUME NEW w \in Workers, Effect(w), ~Claimed(w), ~Called(w)
      PROVE  world' = world /\ Len(attempts') = Len(attempts)
  <2>1. CASE Persisted(w) \/ Applied(w)
    <3>1. Persisted(w) => Len(attempts') = Len(attempts)
      BY RowTypes DEF Persisted
    <3>2. Applied(w) => attempts' = attempts
      BY AppliedKeepsAttempts
    <3> QED
      BY <2>1, <3>1, <3>2 DEF Persisted, Applied
  <2>2. CASE \/ Quiet(w, Resting) \/ Returned(w) \/ Inspected(w) \/ Abandoned(w)
             \/ Joined(w) \/ Started(w) \/ Cycled(w) \/ Asked(w) \/ Recorded(w)
             \/ Gathered(w) \/ Concluded(w) \/ Weighed(w) \/ Resolved(w)
    BY <2>2 DEF Quiet, Returned, Inspected, Abandoned, Joined, Started, Cycled, Asked,
                Recorded, Gathered, Concluded, Weighed, Resolved
  <2> QED
    BY <1>1, <2>1, <2>2 DEF Effect
<1>2. Republished \/ GivenUp => UNCHANGED <<world, attempts>>
  BY DEF Republished, GivenUp
<1> QED
  BY <1>1, <1>2, EverySteps

LEMMA OnlyLastNext ==
  ASSUME Inv, AttemptInv, SerialInv, [Next]_vars
  PROVE  OnlyLast'
<1>1. ASSUME NEW w \in Workers, Claimed(w)
      PROVE  OnlyLast'
  <2>1. op.state = "READY" /\ world' = Append(world, "UNSENT")
    BY <1>1, Sources DEF Claimed, Written
  <2>2. \A i \in 1..Len(world) : world[i] \in Unmade
    BY <2>1, RowTypes DEF SerialInv, Clear
  <2>3. /\ Len(world') = Len(world) + 1 /\ DOMAIN world' = 1..(Len(world) + 1)
        /\ \A i \in 1..Len(world) : world'[i] = world[i]
        /\ Len(world) \in Nat
    BY <2>1, RowTypes, AppendKeeps
  <2> QED
    BY <2>2, <2>3 DEF OnlyLast
<1>2. ASSUME NEW w \in Workers, Called(w)
      PROVE  OnlyLast'
  <2>1. world' = [world EXCEPT ![h[w].num] = "EN_ROUTE"] /\ h[w].num = Len(attempts)
    BY <1>2 DEF Called, SerialInv, CallsLast, Calling
  <2>2. Len(world') = Len(world) /\ DOMAIN world' = DOMAIN world
    BY <2>1, RowTypes
  <2> QED
    BY <2>1, <2>2, RowTypes DEF SerialInv, OnlyLast
<1>3. CASE Decided
  <2>1. PICK i \in DOMAIN world, fate \in {"LANDED", "DROPPED"} :
          world[i] = "EN_ROUTE" /\ world' = [world EXCEPT ![i] = fate]
    BY <1>3 DEF Decided
  <2>2. Len(world') = Len(world) /\ DOMAIN world' = DOMAIN world
    BY <2>1, RowTypes
  <2>3. ~(i < Len(world))
    BY <2>1 DEF SerialInv, OnlyLast, Unmade
  <2> QED
    BY <2>1, <2>2, <2>3, RowTypes DEF SerialInv, OnlyLast
<1>4. CASE world' = world
  BY <1>4 DEF SerialInv, OnlyLast
<1> QED
  BY <1>1, <1>2, <1>3, <1>4, RequestSteps

LEMMA WatchedNext ==
  ASSUME Inv, AttemptInv, Serial, SerialInv, [Next]_vars
  PROVE  Watched'
<1>1. ASSUME NEW w \in Workers, Claimed(w)
      PROVE  Watched'
  <2>1. op.state = "READY" /\ world' = Append(world, "UNSENT")
    BY <1>1, Sources DEF Claimed, Written
  <2>2. \A i \in 1..Len(world) : world[i] \in Unmade
    BY <2>1, RowTypes DEF SerialInv, Clear
  <2>3. /\ DOMAIN world' = 1..(Len(world) + 1) /\ Len(world) \in Nat
        /\ \A i \in 1..Len(world) : world'[i] = world[i]
        /\ world'[Len(world) + 1] = "UNSENT"
    BY <2>1, RowTypes, AppendKeeps
  <2> QED
    BY <2>2, <2>3 DEF Watched, Unmade
<1>2. ASSUME NEW w \in Workers, Called(w)
      PROVE  Watched'
  <2>1. /\ world' = [world EXCEPT ![h[w].num] = "EN_ROUTE"]
        /\ h[w].pc = "call" /\ h'[w].pc = "flight" /\ h'[w].num = h[w].num
    BY <1>2 DEF Called
  <2>2. \A i \in DOMAIN world : world[i] # "EN_ROUTE"
    BY <2>1 DEF SerialInv, Watched, Serial
  <2> QED
    BY <2>1, <2>2 DEF Watched
<1>3. CASE Decided
  BY <1>3 DEF Decided, SerialInv, Watched
<1>4. CASE world' = world
  BY <1>4, FlightStays DEF SerialInv, Watched
<1> QED
  BY <1>1, <1>2, <1>3, <1>4, RequestSteps

LEMMA CallsLastNext ==
  ASSUME Inv, AttemptInv, Serial, SerialInv, [Next]_vars
  PROVE  CallsLast'
<1>1. ASSUME NEW w \in Workers, Effect(w)
      PROVE  CallsLast'
  <2>1. \A v \in Workers : v = w
    BY DEF Serial
  <2>2. CASE Claimed(w)
    <3>1. /\ h'[w].num = Len(attempts) + 1 /\ attempts' = Append(attempts, "STARTED")
          /\ op'.state = "EXECUTING"
      BY <2>2, Targets DEF Claimed, Written
    <3>2. Len(attempts') = Len(attempts) + 1
      BY <3>1, RowTypes, AppendKeeps
    <3> QED
      BY <2>1, <3>1, <3>2 DEF CallsLast
  <2>3. CASE Called(w) \/ Returned(w)
    <3>1. /\ UNCHANGED <<op, attempts>> /\ h[w].pc \in Calling /\ h'[w].num = h[w].num
      BY <2>3 DEF Called, Returned, Quiet, Calling
    <3> QED
      BY <2>1, <3>1 DEF SerialInv, CallsLast
  <2>4. CASE \/ Quiet(w, Resting) \/ Persisted(w) \/ Applied(w) \/ Inspected(w)
             \/ Abandoned(w) \/ Joined(w) \/ Started(w) \/ Cycled(w) \/ Asked(w)
             \/ Recorded(w) \/ Gathered(w) \/ Concluded(w) \/ Weighed(w) \/ Resolved(w)
    <3>1. h'[w].pc \notin Calling
      BY <2>4 DEF Quiet, Persisted, Applied, Inspected, Abandoned, Joined, Started, Cycled,
                  Asked, Recorded, Gathered, Concluded, Weighed, Resolved, Keeps, Resting,
                  Attempting, Calling
    <3> QED
      BY <2>1, <3>1 DEF CallsLast
  <2> QED
    BY <1>1, <2>2, <2>3, <2>4 DEF Effect
<1>2. CASE UNCHANGED <<op, attempts, h>>
  BY <1>2 DEF SerialInv, CallsLast
<1>3. CASE GivenUp
  BY <1>3 DEF GivenUp, SerialInv, CallsLast
<1> QED
  BY <1>1, <1>2, <1>3, EverySteps DEF Decided, Republished

\* A handler that is not waiting for its request leaves none under way
LEMMA NoneUnderWay ==
  ASSUME Inv, Serial, SerialInv, NEW w \in Workers, h[w].pc # "flight", ~Landed
  PROVE  \A i \in DOMAIN world : world[i] \in Unmade
<1>1. \A i \in DOMAIN world : world[i] # "EN_ROUTE"
  BY DEF SerialInv, Watched, Serial
<1>2. \A i \in DOMAIN world : world[i] \in Requests
  BY RowTypes, ElementOfSeq
<1> QED
  BY <1>1, <1>2 DEF Landed, Requests, Unmade

\* What a verification concludes when it makes the operation READY or FAILED
LEMMA ConcludesAbsence ==
  ASSUME Inv, NEW w \in Workers, Concluded(w), op'.state \in {"READY", "FAILED"}
  PROVE  h[w].pc = "conclude" /\ h[w].res = "NOT_APPLIED"
<1>1. PICK kind :
        /\ kind = VerificationKind(h[w].res, h[w].out, h[w].num, h[w].cnt,
                                   Descriptor, Obligation)
        /\ op'.state = Target(kind) /\ h[w].pc = "conclude"
  BY DEF Concluded, Written
<1>2. h[w].res \in VerificationResults
  BY <1>1, Facts DEF Sound
<1>3. kind \in {"VERIFICATION_ESCALATE", "VERIFICATION_APPLIED",
                "VERIFICATION_NOT_APPLIED_RETRY", "VERIFICATION_NOT_APPLIED_FAIL",
                "VERIFICATION_INCONCLUSIVE"}
  BY <1>1, <1>2, VerificationKinds
<1>4. kind \in {"VERIFICATION_NOT_APPLIED_RETRY", "VERIFICATION_NOT_APPLIED_FAIL"}
  BY <1>1, <1>3, Targets
<1> QED
  BY <1>1, <1>2, <1>4, VerificationKindProves

\* An effect that cannot be verified is retried or left to a human
LEMMA ResolvedEnds ==
  ASSUME NEW w \in Workers, Resolved(w)
  PROVE  op.state = "UNKNOWN" /\ op'.state \in {"READY", "MANUAL_INTERVENTION"}
<1>1. PICK elapsed, kind :
        /\ elapsed \in BOOLEAN
        /\ kind = UnverifiableKind(h[w].out, h[w].num, elapsed, Descriptor, Obligation)
        /\ op.state = Source(kind) /\ op'.state = Target(kind)
  BY DEF Resolved, Written
<1>2. kind \in {"UNKNOWN_SAFE_RETRY", "UNKNOWN_ESCALATE"}
  BY <1>1, UnverifiableKinds
<1> QED
  BY <1>1, <1>2, Sources, Targets

\* Only the result of a verification takes a VERIFYING operation back to READY or FAILED
LEMMA LeavesVerifying ==
  ASSUME Inv, AttemptInv, [Next]_vars, op.state = "VERIFYING",
         op'.state \in {"READY", "FAILED"}
  PROVE  \E w \in Workers : Concluded(w)
<1>1. ASSUME NEW w \in Workers, Effect(w)
      PROVE  Concluded(w)
  <2>1. ~Applied(w)
    <3> SUFFICES ASSUME Applied(w)
                 PROVE  FALSE
      OBVIOUS
    <3>1. PICK kind :
            /\ kind = ExecutionKind(h[w].out, Descriptor, Obligation, h[w].num,
                        RegistryRetrySafety(Descriptor, h[w].out, None, FALSE))
            /\ op.state = Source(kind)
      BY DEF Applied, Written
    <3>2. h[w].out \in Outcomes
      BY AppliedKeepsAttempts
    <3>3. op.state = "EXECUTING"
      BY <3>1, <3>2, ExecutionKinds, Sources
    <3> QED
      BY <3>3
  <2>2. ~Resolved(w)
    BY ResolvedEnds
  <2>3. ~(Claimed(w) \/ Abandoned(w) \/ Started(w))
    BY Sources DEF Claimed, Abandoned, Started, Written
  <2>4. CASE \/ Quiet(w, Resting) \/ Called(w) \/ Returned(w) \/ Persisted(w)
             \/ Inspected(w) \/ Joined(w) \/ Cycled(w) \/ Asked(w) \/ Recorded(w)
             \/ Gathered(w) \/ Weighed(w)
    BY <2>4 DEF Quiet, Called, Returned, Persisted, Inspected, Joined, Cycled, Asked,
                Recorded, Gathered, Weighed
  <2> QED
    BY <1>1, <2>1, <2>2, <2>3, <2>4 DEF Effect
<1>2. ~GivenUp
  BY DEF GivenUp
<1> QED
  BY <1>1, <1>2, EverySteps DEF Decided, Republished

LEMMA ClearNext ==
  ASSUME Inv, Inv', AttemptInv, AttemptInv', Serial, SerialInv, OnlyLast', [Next]_vars
  PROVE  Clear'
<1> SUFFICES ASSUME op'.state \in {"READY", "FAILED"}
             PROVE  \A i \in DOMAIN world' : world'[i] \in Unmade
  BY DEF Clear
<1>1. CASE op.state = op'.state
  <2>1. \A i \in DOMAIN world : world[i] \in Unmade
    BY <1>1 DEF SerialInv, Clear
  <2>2. \A w \in Workers : ~Claimed(w)
    BY <1>1, Sources, Targets DEF Claimed, Written
  <2>3. \A w \in Workers : ~Called(w)
    BY <1>1 DEF Called, SerialInv, CallsLast, Calling
  <2>4. ~Decided
    BY <2>1 DEF Decided, Unmade
  <2> QED
    BY <2>1, <2>2, <2>3, <2>4, RequestSteps
<1>2. CASE op.state # op'.state /\ op.state = "VERIFYING"
  <2>1. PICK w \in Workers : Concluded(w)
    BY <1>2, LeavesVerifying
  <2>2. h[w].pc = "conclude" /\ h[w].res = "NOT_APPLIED" /\ world' = world
    BY <2>1, ConcludesAbsence DEF Concluded
  <2>3. ~Landed
    BY <2>2 DEF SerialInv, SeenAbsent
  <2> QED
    BY <2>2, <2>3, NoneUnderWay
<1>3. CASE op.state # op'.state /\ op.state # "VERIFYING"
  <2>1. attempts'[Len(attempts')] = "NOT_APPLIED"
    BY <1>3, ProvenNext DEF Proven
  <2>2. /\ DOMAIN attempts' = 1..Len(attempts') /\ DOMAIN world' = 1..Len(attempts')
        /\ Len(world') = Len(attempts') /\ Len(attempts') \in Nat
    <3>1. /\ attempts' \in Seq(AttemptStates) /\ world' \in Seq(Requests)
          /\ Len(world') = Len(attempts')
      BY DEF Inv, TypeOK, JournalOK
    <3> QED
      BY <3>1, LenProperties
  <2>3. Len(attempts') >= 1 => world'[Len(attempts')] = "DROPPED"
    BY <2>1, <2>2 DEF AttemptInv, EvidenceIsTrue
  <2>4. \A i \in DOMAIN world' : i < Len(world') => world'[i] \in Unmade
    BY DEF OnlyLast
  <2> QED
    BY <2>2, <2>3, <2>4 DEF Unmade
<1> QED
  BY <1>1, <1>2, <1>3

\* A request lands only while its handler waits for it, so nobody is verifying
LEMMA NothingVerified ==
  ASSUME Inv, Serial, SerialInv, Decided
  PROVE  /\ op.state # "VERIFYING"
         /\ \A w \in Workers : h[w].pc \notin Verifying
<1>1. PICK w \in Workers : h[w].pc = "flight"
  BY DEF Decided, SerialInv, Watched
<1>2. op.state # "VERIFYING"
  BY <1>1 DEF SerialInv, CallsLast, Calling
<1>3. \A v \in Workers : h[v].pc = "flight"
  BY <1>1 DEF Serial
<1> QED
  BY <1>2, <1>3 DEF Verifying

\* The results that stand in the rows and in the handler after one of its steps
LEMMA ActorSeesAbsent ==
  ASSUME Inv, Serial, SerialInv, NEW w \in Workers, Effect(w), Landed
  PROVE  /\ h'[w].pc \in Verifying => verifs'[h'[w].vid] # "NOT_APPLIED"
         /\ h'[w].pc \in {"record", "gather", "conclude"} => h'[w].res # "NOT_APPLIED"
<1>1. h[w].pc \in Verifying =>
        /\ verifs[h[w].vid] # "NOT_APPLIED" /\ h[w].vid \in DOMAIN verifs
  BY Facts, RowTypes DEF SerialInv, SeenAbsent, Sound, Verifying
<1>2. h[w].pc \in {"record", "gather", "conclude"} => h[w].res # "NOT_APPLIED"
  BY DEF SerialInv, SeenAbsent
<1>3. CASE Joined(w)
  BY <1>3 DEF Joined, Quiet, SerialInv, SeenAbsent
<1>4. CASE Started(w)
  <2>1. h'[w].pc = "cycle" /\ h'[w].vid = Len(verifs) + 1 /\ verifs' = Append(verifs, None)
    BY <1>4 DEF Started
  <2> QED
    BY <2>1, RowTypes, AppendKeeps DEF None
<1>5. CASE Cycled(w)
  BY <1>1, <1>5 DEF Cycled, Keeps, Verifying
<1>6. CASE Asked(w)
  BY <1>1, <1>6 DEF Asked, Keeps, Truth, Landed, Verifying
<1>7. CASE Recorded(w)
  BY <1>1, <1>2, <1>7 DEF Recorded, Keeps, Verifying
<1>8. CASE Gathered(w)
  BY <1>1, <1>2, <1>8 DEF Gathered, Keeps, Verifying
<1>9. CASE \/ Quiet(w, Resting) \/ Claimed(w) \/ Called(w) \/ Returned(w) \/ Persisted(w)
           \/ Applied(w) \/ Inspected(w) \/ Abandoned(w) \/ Concluded(w) \/ Weighed(w)
           \/ Resolved(w)
  <2>1. h'[w].pc \notin Verifying
    BY <1>9 DEF Quiet, Claimed, Called, Returned, Persisted, Applied, Inspected, Abandoned,
                Concluded, Weighed, Resolved, Resting, Verifying
  <2> QED
    BY <2>1 DEF Verifying
<1> QED
  BY <1>3, <1>4, <1>5, <1>6, <1>7, <1>8, <1>9 DEF Effect

\* The result of the latest verification while the operation is VERIFYING
LEMMA RowSeesAbsent ==
  ASSUME Inv, AttemptInv, Serial, SerialInv, NEW w \in Workers, Effect(w), Landed,
         op'.state = "VERIFYING"
  PROVE  verifs'[Len(verifs')] # "NOT_APPLIED"
<1>1. op.state = "VERIFYING" => verifs[Len(verifs)] # "NOT_APPLIED"
  BY DEF SerialInv, SeenAbsent
<1>2. CASE verifs' = Append(verifs, None)
  BY <1>2, RowTypes, AppendKeeps DEF None
<1>3. CASE Recorded(w)
  <2>1. /\ op' = op /\ h[w].res # "NOT_APPLIED"
        /\ verifs' = verifs \/ verifs' = [verifs EXCEPT ![h[w].vid] = h[w].res]
    BY <1>3 DEF Recorded, SerialInv, SeenAbsent
  <2>2. Len(verifs') = Len(verifs) /\ DOMAIN verifs' = DOMAIN verifs
    BY <2>1, RowTypes
  <2>3. h[w].vid \in DOMAIN verifs
    BY <1>3, Facts, RowTypes DEF Recorded, Sound
  <2> QED
    BY <1>1, <2>1, <2>2, <2>3
<1>4. CASE Applied(w)
  <2>1. PICK kind :
          /\ kind = ExecutionKind(h[w].out, Descriptor, Obligation, h[w].num,
                      RegistryRetrySafety(Descriptor, h[w].out, None, FALSE))
          /\ op'.state = Target(kind)
          /\ verifs' = IF kind = "EXECUTION_REQUIRE_VERIFICATION"
                       THEN Append(verifs, None) ELSE verifs
    BY <1>4 DEF Applied, Written
  <2>2. h[w].out \in Outcomes
    BY <1>4, AppliedKeepsAttempts
  <2>3. kind = "EXECUTION_REQUIRE_VERIFICATION"
    BY <2>1, <2>2, ExecutionKinds, Targets
  <2> QED
    BY <1>2, <2>1, <2>3
<1>5. CASE Started(w)
  BY <1>2, <1>5 DEF Started
<1>6. ~(Claimed(w) \/ Abandoned(w) \/ Resolved(w))
  BY Targets, ResolvedEnds DEF Claimed, Abandoned, Written
<1>7. ~Concluded(w)
  <2> SUFFICES ASSUME Concluded(w)
               PROVE  FALSE
    OBVIOUS
  <2>1. PICK kind :
          /\ kind = VerificationKind(h[w].res, h[w].out, h[w].num, h[w].cnt,
                                     Descriptor, Obligation)
          /\ op'.state = Target(kind) /\ h[w].pc = "conclude"
    BY DEF Concluded, Written
  <2>2. h[w].res \in VerificationResults
    BY <2>1, Facts DEF Sound
  <2> QED
    BY <2>1, <2>2, VerificationKinds, Targets
<1>8. CASE \/ Quiet(w, Resting) \/ Called(w) \/ Returned(w) \/ Persisted(w)
           \/ Inspected(w) \/ Joined(w) \/ Cycled(w) \/ Asked(w) \/ Gathered(w)
           \/ Weighed(w)
  <2>1. UNCHANGED <<op, verifs>>
    BY <1>8 DEF Quiet, Called, Returned, Persisted, Inspected, Joined, Cycled, Asked,
                Gathered, Weighed
  <2> QED
    BY <1>1, <2>1
<1> QED
  BY <1>3, <1>4, <1>5, <1>6, <1>7, <1>8 DEF Effect

LEMMA SeenAbsentNext ==
  ASSUME Inv, AttemptInv, Serial, SerialInv, [Next]_vars
  PROVE  SeenAbsent'
<1>1. CASE Decided
  <2>1. UNCHANGED <<op, verifs, h>>
    BY <1>1 DEF Decided
  <2> QED
    BY <1>1, <2>1, NothingVerified DEF SeenAbsent, Verifying
<1>2. CASE ~Decided
  <2>1. Landed' = Landed
    BY <1>2, LandedMoves
  <2>2. CASE ~Landed
    BY <2>1, <2>2 DEF SeenAbsent
  <2>3. CASE Landed
    <3>1. ASSUME NEW w \in Workers, Effect(w)
          PROVE  SeenAbsent'
      <4>1. op'.state = "VERIFYING" => verifs'[Len(verifs')] # "NOT_APPLIED"
        BY <2>3, <3>1, RowSeesAbsent
      <4>2. /\ h'[w].pc \in Verifying => verifs'[h'[w].vid] # "NOT_APPLIED"
            /\ h'[w].pc \in {"record", "gather", "conclude"} => h'[w].res # "NOT_APPLIED"
        BY <2>3, <3>1, ActorSeesAbsent
      <4>3. \A v \in Workers : v = w
        BY DEF Serial
      <4> QED
        BY <4>1, <4>2, <4>3 DEF SeenAbsent
    <3>2. CASE UNCHANGED <<op, verifs, h>>
      BY <2>1, <3>2 DEF SerialInv, SeenAbsent
    <3>3. CASE GivenUp
      BY <2>1, <3>3 DEF GivenUp, SerialInv, SeenAbsent
    <3> QED
      BY <1>2, <3>1, <3>2, <3>3, EverySteps DEF Republished
  <2> QED
    BY <2>2, <2>3
<1> QED
  BY <1>1, <1>2

\* With one worker, whose requests are decided before it gives them up, the effect is
\* carried out at most once, and not at all for a FAILED operation
THEOREM EffectOnce ==
  ASSUME Serial
  PROVE  Spec => []AtMostOnce
<1>1. Init => SerialInv
  <2> SUFFICES ASSUME Init
               PROVE  SerialInv
    OBVIOUS
  <2>1. /\ op.state = "READY" /\ world = <<>> /\ verifs = <<>>
        /\ \A w \in Workers : h[w].pc = "idle"
    BY DEF Init, Idle
  <2> QED
    BY <2>1 DEF SerialInv, OnlyLast, Watched, CallsLast, Clear, SeenAbsent, Calling,
                Verifying
<1>2. /\ Inv /\ Inv' /\ AttemptInv /\ AttemptInv' /\ SerialInv /\ [Next]_vars
      => SerialInv'
  BY OnlyLastNext, WatchedNext, CallsLastNext, ClearNext, SeenAbsentNext DEF SerialInv
<1>3. Inv /\ SerialInv => AtMostOnce
  <2> SUFFICES ASSUME Inv, SerialInv
               PROVE  AtMostOnce
    OBVIOUS
  <2> DEFINE L == {i \in DOMAIN world : world[i] = "LANDED"}
  <2>1. L \subseteq {Len(world)}
    <3>1. \A i \in DOMAIN world : i <= Len(world) /\ i \in Nat /\ Len(world) \in Nat
      BY RowTypes
    <3> QED
      BY <3>1 DEF SerialInv, OnlyLast, Unmade
  <2>2. IsFiniteSet({Len(world)}) /\ Cardinality({Len(world)}) = 1
    BY FS_Singleton
  <2>3. Cardinality(L) <= Cardinality({Len(world)})
    BY <2>1, <2>2, FS_Subset
  <2>4. op.state = "FAILED" => \A i \in DOMAIN world : world[i] # "LANDED"
    BY DEF SerialInv, Clear, Unmade
  <2> QED
    BY <2>2, <2>3, <2>4 DEF AtMostOnce
<1> QED
  BY <1>1, <1>2, <1>3, Invariance, AttemptsKnown, PTL DEF Spec
===============================================================================
