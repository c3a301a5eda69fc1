-------------------------- MODULE Compensation_proofs --------------------------
(***************************************************************************)
(* Proofs about module Compensation: its types, the agreement of its rows, *)
(* who may call the provider for an attempt, how many attempts there are   *)
(* and when another one may start, what settles a compensation, and the    *)
(* promise that the handlers keep.                                         *)
(*                                                                         *)
(* Four kinds of progress leave the version of the operation alone, so the *)
(* version a handler carries says little by itself.  What makes the        *)
(* properties inductive is what it does say: as long as the version a      *)
(* retry was decided on is still the operation's, no attempt has been      *)
(* added; and a verification of the latest attempt at the present version  *)
(* is pending, and the last one, while the operation is COMPENSATING.      *)
(***************************************************************************)
EXTENDS Compensation, SequenceTheorems, FiniteSetTheorems, WellFoundedInduction, TLAPS

Cap == ExecutionCap(Obligation)

\* States in which the outcome of the latest attempt is open, and those in which
\* handlers have work to do
Open == {"COMPENSATING", "COMPENSATION_UNKNOWN"}
Working == Open \union {"COMPENSATION_FAILED"}

OpRows == [state : OperationStates, version : Nat, effect : Effects]
CompRows == [state : CompensationStates \union {NoRow}, version : Nat]
AttemptRows == [by : Namespaces, out : AttemptStates]
VerifRows == [id : Namespaces \X {"verification", "resume"} \X Nat, attempt : Nat,
              version : Nat, result : VerificationResults \union {None}]
Lines == [cmd : Commands, version : Nat, replay : BOOLEAN]
Identities == Namespaces \X Roles \X Nat

RowTypes ==
  /\ op \in OpRows /\ comp \in CompRows
  /\ attempts \in Seq(AttemptRows)
  /\ verifs \in Seq(VerifRows)
  /\ \A i \in DOMAIN verifs : verifs[i].attempt \in DOMAIN attempts
  /\ used \subseteq Identities
  /\ outbox \in Seq(Lines)

SideTypes ==
  /\ queue \in [row : 0..Len(outbox), tries : 0..MaxDeliveries, done : BOOLEAN]
  /\ landed \in BOOLEAN
  /\ h \in [Processes -> Handlers]
  /\ actions \in 0..MaxActions /\ crashes \in 0..MaxFaults

\* Before a compensation is asked for, nothing of it exists
Begun ==
  /\ comp.state = NoRow => op.state \in DOMAIN StartKind /\ outbox = <<>>
  /\ comp.state \in {NoRow, "PENDING"} <=> attempts = <<>>

\* The latest attempt's verification at the present version is the last one and
\* pending; as long as the outcome is open no result about that attempt decides it
VerifsFit ==
  \A i \in DOMAIN verifs :
    /\ verifs[i].version <= op.version
    /\ (/\ verifs[i].version = op.version /\ verifs[i].attempt = Len(attempts)
        /\ op.state = "COMPENSATING") =>
       comp.state = "VERIFYING" /\ verifs[i].result = None /\ i = Len(verifs)
    /\ (op.state \in Open /\ verifs[i].attempt = Len(attempts)) =>
       verifs[i].result \notin {"APPLIED", "NOT_APPLIED"}
    /\ verifs[i].result = "APPLIED" => landed

\* A failed compensation has no attempt in flight; evidence that an attempt was
\* applied is true; an action key is in the journal only once it was used
AttemptsFit ==
  /\ op.state = "COMPENSATION_FAILED" => Latest.out # "STARTED"
  /\ \A i \in DOMAIN attempts :
       /\ attempts[i].out = "APPLIED" => landed
       /\ attempts[i].by[1] = "action" => attempts[i].by[2] <= actions

RowsInv ==
  /\ RowTypes /\ Begun /\ RowsAgree /\ VerifsFit /\ AttemptsFit
  /\ SettledByEvidence /\ AttemptsAreAllowed

\* Where a handler knows nothing but an old version, and where it waits to bring
\* about a transition of a COMPENSATION_UNKNOWN operation
Plain == {"idle", "execute", "again", "dispatch", "peek", "claim", "recover",
          "recovering", "leftover", "pending", "find", "rejoin", "ack", "nak"}
Deciding == {"unknown", "restart", "weigh"}

\* A handler acts under an identity of its own kind
FitsName(q, r) ==
  r.pc # "idle" =>
    /\ comp.state # NoRow /\ r.ns \in Namespaces
    /\ q \in Workers => r.ns[1] = "message"
    /\ q \in Operators => r.ns[1] = "action" /\ r.ns[2] <= actions

\* What it knows of the attempt it calls the provider for, or will claim
FitsAttempt(q, r) ==
  /\ r.pc = "call" => ~r.old
  /\ (r.pc \in {"call", "outcome"} /\ ~r.old) =>
       r.num \in DOMAIN attempts /\ attempts[r.num].by = r.ns
  /\ r.pc = "outcome" => r.out \in Outcomes /\ (r.out = "APPLIED" => landed)
  /\ (r.pc = "reclaim" /\ r.ver = op.version) =>
       op.state = "COMPENSATION_FAILED" /\ r.num = Len(attempts) + 1
  /\ (r.pc = "reclaim" /\ r.num > Cap) =>
       q \in Operators /\ \A i \in DOMAIN attempts : attempts[i].by # r.ns
  /\ r.pc \in Deciding \union {"inspect"} => attempts # <<>>
  /\ (r.pc \in Deciding /\ r.ver = op.version) => op.state = "COMPENSATION_UNKNOWN"
  /\ (r.pc \in {"restart", "weigh"} /\ r.ver = op.version) =>
       r.num = Len(attempts) + 1 /\ r.out = Latest.out
  /\ r.pc = "weigh" => ~Descriptor.verifiable /\ r.out \in AttemptStates

\* What it knows of the verification it takes part in
FitsVerification(r) ==
  /\ r.pc \in {"verify", "gather", "conclude"} => r.vid \in DOMAIN verifs
  /\ r.pc \in {"gather", "conclude"} =>
       r.res \in VerificationResults /\ (r.res = "APPLIED" => landed)
  /\ r.pc = "conclude" => r.out \in AttemptStates

Fits(q, r) ==
  /\ r.ver <= op.version
  /\ FitsName(q, r) /\ FitsAttempt(q, r) /\ FitsVerification(r)
  /\ r.pc = "escalate" => r.st \in Working

HandlersFit == \A q \in Processes : Fits(q, h[q])

\* No two actions of the operator share an action key
Distinct ==
  \A p, q \in Operators : (p # q /\ h[p].pc # "idle" /\ h[q].pc # "idle") => h[p].ns # h[q].ns

\* The inductive invariant
CompensationInv == RowsInv /\ SideTypes /\ HandlersFit /\ Distinct

-----------------------------------------------------------------------------
(***************************************************************************)
(* Sequences and sets                                                     *)
(***************************************************************************)
LEMMA SeqElement ==
  ASSUME NEW S, NEW s \in Seq(S), NEW i \in DOMAIN s
  PROVE  s[i] \in S /\ i \in Nat /\ i >= 1 /\ i <= Len(s)
<1>1. DOMAIN s = 1..Len(s) /\ Len(s) \in Nat
  BY LenProperties
<1> QED
  BY <1>1, ElementOfSeq

LEMMA SeqDomain ==
  ASSUME NEW S, NEW s \in Seq(S)
  PROVE  /\ DOMAIN s = 1..Len(s) /\ Len(s) \in Nat
         /\ s = <<>> <=> Len(s) = 0
BY LenProperties, EmptySeq

LEMMA SeqAppend ==
  ASSUME NEW S, NEW s \in Seq(S), NEW e \in S
  PROVE  /\ Append(s, e) \in Seq(S) /\ Len(Append(s, e)) = Len(s) + 1
         /\ DOMAIN Append(s, e) = 1..(Len(s) + 1) /\ Append(s, e) # <<>>
         /\ Append(s, e)[Len(s) + 1] = e
         /\ \A i \in 1..Len(s) : Append(s, e)[i] = s[i]
<1>1. Len(s) \in Nat
  BY LenProperties
<1>2. Append(s, e) \in Seq(S) /\ Len(Append(s, e)) = Len(s) + 1
  BY AppendProperties
<1>3. DOMAIN Append(s, e) = 1..(Len(s) + 1)
  BY <1>2, LenProperties
<1>4. Append(s, e)[Len(s) + 1] = e /\ \A i \in 1..Len(s) : Append(s, e)[i] = s[i]
  BY AppendProperties
<1>5. Append(s, e) # <<>>
  BY <1>1, <1>2, EmptySeq
<1> QED
  BY <1>2, <1>3, <1>4, <1>5

LEMMA SeqExcept ==
  ASSUME NEW S, NEW s \in Seq(S), NEW i \in DOMAIN s, NEW e \in S,
         NEW t, t = [s EXCEPT ![i] = e]
  PROVE  /\ t \in Seq(S) /\ Len(t) = Len(s) /\ DOMAIN t = DOMAIN s
         /\ t[i] = e /\ \A j \in DOMAIN s : j # i => t[j] = s[j]
<1>1. DOMAIN s = 1..Len(s)
  BY LenProperties
<1> QED
  BY <1>1, ExceptSeq

LEMMA LeastHit ==
  ASSUME NEW S \in SUBSET Nat, S # {}
  PROVE  \E least \in S : \A other \in S : least <= other
<1>1. IsWellFoundedOn(OpToRel(<, Nat), Nat)
  BY NatLessThanWellFounded
<1>2. PICK least \in S : \A other \in S : ~(<<other, least>> \in OpToRel(<, Nat))
  BY <1>1, WFMin
<1>3. \A other \in S : ~(other < least)
  BY <1>2 DEF OpToRel
<1> QED
  BY <1>3

LEMMA GreatestHit ==
  ASSUME NEW n \in Nat, NEW S \in SUBSET (1..n), S # {}
  PROVE  \E greatest \in S : \A other \in S : other <= greatest
<1> DEFINE Bounds == {b \in Nat : \A other \in S : other <= b}
<1>1. n \in Bounds
  OBVIOUS
<1>2. PICK least \in Bounds : \A b \in Bounds : least <= b
  <2>1. Bounds \in SUBSET Nat /\ Bounds # {}
    BY <1>1
  <2> QED
    BY <2>1, LeastHit
<1>3. CASE least \in S
  BY <1>2, <1>3
<1>4. CASE least \notin S
  <2>1. \A other \in S : other <= least - 1
    BY <1>2, <1>4
  <2>2. least - 1 \in Nat
    <3>1. PICK other : other \in S
      OBVIOUS
    <3>2. other \in 1..n /\ other <= least - 1 /\ least \in Nat
      BY <1>2, <2>1, <3>1
    <3> QED
      BY <3>2
  <2>3. least - 1 \in Bounds
    BY <2>1, <2>2
  <2> QED
    BY <1>2, <2>3
<1> QED
  BY <1>3, <1>4

-----------------------------------------------------------------------------
(***************************************************************************)
(* The tables and the decisions                                           *)
(***************************************************************************)
LEMMA CapKnown == Cap \in Nat /\ Cap >= 1
BY CompensationAssumption DEF Cap, ExecutionCap, Obligations

\* Which kinds end a verification or an attempt, and what they do
Concluding == {"COMPENSATION_APPLIED", "COMPENSATION_OUTCOME_FAILED",
               "COMPENSATION_OUTCOME_UNKNOWN", "COMPENSATION_ESCALATE"}

LEMMA CompensationEdges ==
  /\ Source("COMPENSATION_APPLIED") = "COMPENSATING"
  /\ Source("COMPENSATION_OUTCOME_FAILED") = "COMPENSATING"
  /\ Source("COMPENSATION_OUTCOME_UNKNOWN") = "COMPENSATING"
  /\ Source("COMPENSATION_ESCALATE") = "COMPENSATING"
  /\ Source("COMPENSATION_UNKNOWN_RETRY") = "COMPENSATION_UNKNOWN"
  /\ Source("COMPENSATION_UNKNOWN_ESCALATE") = "COMPENSATION_UNKNOWN"
  /\ Source("COMPENSATION_FAILED_RETRY") = "COMPENSATION_FAILED"
  /\ Source("COMPENSATION_FAILED_ESCALATE") = "COMPENSATION_FAILED"
  /\ Target("COMPENSATION_APPLIED") = "COMPENSATED"
  /\ Target("COMPENSATION_OUTCOME_FAILED") = "COMPENSATION_FAILED"
  /\ Target("COMPENSATION_OUTCOME_UNKNOWN") = "COMPENSATION_UNKNOWN"
  /\ Target("COMPENSATION_ESCALATE") = "MANUAL_INTERVENTION"
  /\ Target("COMPENSATION_UNKNOWN_RETRY") = "COMPENSATING"
  /\ Target("COMPENSATION_UNKNOWN_ESCALATE") = "MANUAL_INTERVENTION"
  /\ Target("COMPENSATION_FAILED_RETRY") = "COMPENSATING"
  /\ Target("COMPENSATION_FAILED_ESCALATE") = "MANUAL_INTERVENTION"
BY DEF Source, Target, Edge

LEMMA CompensationTargets ==
  /\ CompensationTarget["COMPENSATION_APPLIED"] = "SUCCEEDED"
  /\ CompensationTarget["COMPENSATION_OUTCOME_FAILED"] = "FAILED"
  /\ CompensationTarget["COMPENSATION_OUTCOME_UNKNOWN"] = "UNKNOWN"
  /\ "COMPENSATION_APPLIED" \in DOMAIN CompensationTarget
  /\ "COMPENSATION_OUTCOME_FAILED" \in DOMAIN CompensationTarget
  /\ "COMPENSATION_OUTCOME_UNKNOWN" \in DOMAIN CompensationTarget
  /\ "COMPENSATION_ESCALATE" \notin DOMAIN CompensationTarget
  /\ "COMPENSATION_UNKNOWN_ESCALATE" \notin DOMAIN CompensationTarget
  /\ "COMPENSATION_FAILED_ESCALATE" \notin DOMAIN CompensationTarget
BY DEF CompensationTarget

\* The row that goes with each state of the operation
LEMMA RowOfParent ==
  ASSUME RowTypes, comp.state # NoRow, ParentState[comp.state] = op.state
  PROVE  /\ op.state = "COMPENSATING" => comp.state \in {"PENDING", "EXECUTING", "VERIFYING"}
         /\ op.state = "COMPENSATION_UNKNOWN" => comp.state = "UNKNOWN"
         /\ op.state = "COMPENSATION_FAILED" => comp.state = "FAILED"
         /\ op.state = "COMPENSATED" => comp.state = "SUCCEEDED"
         /\ op.state \in Working \union {"COMPENSATED"}
<1>1. comp.state \in CompensationStates
  BY DEF RowTypes, CompRows
<1> QED
  BY <1>1 DEF ParentState, CompensationStates, Working, Open

\* Parent and row agree wherever a handler may write
LEMMA ParentOfRow ==
  /\ ParentState["PENDING"] = "COMPENSATING"
  /\ ParentState["EXECUTING"] = "COMPENSATING"
  /\ ParentState["VERIFYING"] = "COMPENSATING"
  /\ ParentState["UNKNOWN"] = "COMPENSATION_UNKNOWN"
  /\ ParentState["FAILED"] = "COMPENSATION_FAILED"
  /\ ParentState["SUCCEEDED"] = "COMPENSATED"
BY DEF ParentState

\* Exhausted messaging recovery and the operator's escalation lead to a person
LEMMA EscalationEdges ==
  ASSUME NEW state \in Working
  PROVE  /\ state \in DOMAIN ExhaustedKind
         /\ Source(ExhaustedKind[state]) = state
         /\ Target(ExhaustedKind[state]) = "MANUAL_INTERVENTION"
         /\ ExhaustedKind[state] \notin DOMAIN CompensationTarget
BY CompensationEdges, CompensationTargets DEF ExhaustedKind, Working, Open

\* The evidence of an attempt asks for one of four kinds
LEMMA OutcomeKinds ==
  ASSUME NEW outcome \in Outcomes, NEW d, NEW o,
         NEW kind, kind = CompensateKind(outcome, d, o)
  PROVE  /\ kind \in {"START_COMPENSATION_VERIFICATION", "COMPENSATION_APPLIED",
                      "COMPENSATION_OUTCOME_FAILED", "COMPENSATION_OUTCOME_UNKNOWN"}
         /\ kind = "START_COMPENSATION_VERIFICATION" => outcome = "APPLIED"
         /\ kind = "COMPENSATION_APPLIED" => outcome = "APPLIED" /\ d.immediate /\ ~o.verify
         /\ kind = "COMPENSATION_OUTCOME_FAILED" => outcome = "NOT_APPLIED"
         /\ kind = "COMPENSATION_OUTCOME_UNKNOWN" => outcome = "UNKNOWN"
BY DEF CompensateKind, Outcomes

\* A verification result asks for one of five
LEMMA ResultKinds ==
  ASSUME NEW result \in VerificationResults, NEW latest, NEW number, NEW count,
         NEW d, NEW kind,
         kind = ReconciledKind(result, latest, number, count, d, Obligation)
  PROVE  /\ kind \in Concluding \union {"RETRY_COMPENSATION_AFTER_VERIFICATION"}
         /\ kind = "COMPENSATION_APPLIED" => result = "APPLIED"
         /\ kind = "COMPENSATION_OUTCOME_FAILED" => result = "NOT_APPLIED"
         /\ kind = "RETRY_COMPENSATION_AFTER_VERIFICATION" =>
              result = "NOT_APPLIED" /\ number < Cap
         /\ kind = "COMPENSATION_OUTCOME_UNKNOWN" => result = "UNKNOWN"
<1> DEFINE seen == IF latest = "STARTED" THEN "UNKNOWN" ELSE latest
           decision == VerificationKind(result, seen, number, count, d, Obligation)
<1>1. /\ decision \in {"VERIFICATION_ESCALATE", "VERIFICATION_APPLIED",
                       "VERIFICATION_NOT_APPLIED_RETRY", "VERIFICATION_NOT_APPLIED_FAIL",
                       "VERIFICATION_INCONCLUSIVE"}
      /\ decision = "VERIFICATION_APPLIED" => result = "APPLIED"
      /\ decision = "VERIFICATION_NOT_APPLIED_FAIL" => result = "NOT_APPLIED"
      /\ decision = "VERIFICATION_NOT_APPLIED_RETRY" => result = "NOT_APPLIED" /\ number < Cap
      /\ decision = "VERIFICATION_INCONCLUSIVE" => result = "UNKNOWN"
  <2> HIDE DEF seen
  <2> QED
    BY DEF VerificationKind, MayTryAgain, Cap, VerificationResults, Outcomes
<1>2. kind = CASE decision = "VERIFICATION_APPLIED"           -> "COMPENSATION_APPLIED"
               [] decision = "VERIFICATION_NOT_APPLIED_RETRY" -> "RETRY_COMPENSATION_AFTER_VERIFICATION"
               [] decision = "VERIFICATION_NOT_APPLIED_FAIL"  -> "COMPENSATION_OUTCOME_FAILED"
               [] decision = "VERIFICATION_INCONCLUSIVE"      -> "COMPENSATION_OUTCOME_UNKNOWN"
               [] decision = "VERIFICATION_ESCALATE"          -> "COMPENSATION_ESCALATE"
  BY DEF ReconciledKind
<1> HIDE DEF decision
<1> QED
  BY <1>1, <1>2 DEF Concluding

\* Without a verification, a retry is safe after an outcome that was not applied, or
\* for an idempotent effect
LEMMA SafeWithoutVerification ==
  ASSUME NEW outcome \in Outcomes, NEW d, NEW elapsed \in BOOLEAN,
         RegistryRetrySafety(d, outcome, None, elapsed) = "SAFE"
  PROVE  outcome = "NOT_APPLIED" \/ (outcome = "UNKNOWN" /\ d.mode # "NONE")
BY DEF RegistryRetrySafety, EffectRetrySafety, UnknownRetrySafety, Outcomes, None

\* A kind leaves a work command or none
LEMMA CommandOfKind ==
  ASSUME NEW k
  PROVE  OutboxCommand(k) = NoCommand \/ OutboxCommand(k) \in Commands
BY DEF OutboxCommand, Commands

\* The transition service moves an operation only from its source, at the version the
\* handler knows, with its precondition
LEMMA AppliedMeans ==
  ASSUME NEW kind, NEW version \in Nat, NEW pre, NEW written, op.version \in Nat,
         ApplyResult(kind, version, pre, written) = "APPLIED"
  PROVE  op.version = version /\ op.state = Source(kind) /\ pre
<1>1. op.version = version
  BY DEF ApplyResult
<1>2. op.version # version + 1
  BY <1>1
<1>3. op.state = Source(kind) /\ pre
  BY <1>1, <1>2 DEF ApplyResult
<1> QED
  BY <1>1, <1>3

\* Progress is made only in COMPENSATING, at both versions the handler knows
LEMMA ProgressMeans ==
  ASSUME NEW version \in Nat, NEW cversion \in Nat, NEW already, NEW pre, NEW written,
         op.version \in Nat, comp.version \in Nat,
         NEW result, result = ProgressResult(version, cversion, already, pre, written)
  PROVE  /\ result \in {"APPLIED", "ALREADY_APPLIED"} =>
              op.version = version /\ op.state = "COMPENSATING"
         /\ result = "APPLIED" => comp.version = cversion /\ pre
         /\ result = "ALREADY_APPLIED" => already
         /\ result \in {"APPLIED", "ALREADY_APPLIED", "REJECTED", "CONFLICT", "DUPLICATE"}
<1>1. CASE op.version # version
  BY <1>1 DEF ProgressResult
<1>2. CASE op.version = version /\ op.state # "COMPENSATING"
  BY <1>2 DEF ProgressResult
<1>3. CASE op.version = version /\ op.state = "COMPENSATING"
  <2>1. CASE comp.version = cversion + 1
    BY <1>3, <2>1 DEF ProgressResult
  <2>2. CASE comp.version \notin {cversion, cversion + 1}
    BY <1>3, <2>2 DEF ProgressResult
  <2>3. CASE comp.version = cversion
    <3>1. comp.version # cversion + 1
      BY <2>3
    <3>2. result = IF ~pre THEN "REJECTED"
                   ELSE IF written \intersect used # {} THEN "DUPLICATE" ELSE "APPLIED"
      BY <1>3, <2>3, <3>1 DEF ProgressResult
    <3> QED
      BY <1>3, <2>3, <3>2
  <2> QED
    BY <2>1, <2>2, <2>3
<1> QED
  BY <1>1, <1>2, <1>3

LEMMA ApplyResults ==
  ASSUME NEW kind, NEW version \in Nat, NEW pre, NEW written, op.version \in Nat,
         NEW result, result = ApplyResult(kind, version, pre, written)
  PROVE  result \in {"APPLIED", "ALREADY_APPLIED", "REJECTED", "CONFLICT", "DUPLICATE"}
BY DEF ApplyResult

-----------------------------------------------------------------------------
(***************************************************************************)
(* What handlers know survives the steps of others                        *)
(***************************************************************************)

\* Rows are only added, and none is added under the version of an operation that is
\* not COMPENSATING; "name" is who adds an attempt
Grows(name) ==
  /\ op.version <= op'.version /\ op'.effect = op.effect
  /\ op'.version = op.version => op'.state = op.state
  /\ (op'.version = op.version /\ op.state # "COMPENSATING") => attempts' = attempts
  /\ Len(attempts) <= Len(attempts') /\ Len(verifs) <= Len(verifs')
  /\ \A i \in DOMAIN attempts : attempts'[i].by = attempts[i].by
  /\ \A i \in DOMAIN attempts' : i \notin DOMAIN attempts => attempts'[i].by = name
  /\ landed => landed'
  /\ comp.state # NoRow => comp'.state # NoRow
  /\ actions <= actions'

LEMMA Numbers ==
  ASSUME RowTypes
  PROVE  /\ op.version \in Nat /\ op.state \in OperationStates /\ op.effect \in Effects
         /\ comp.version \in Nat /\ comp.state \in CompensationStates \union {NoRow}
         /\ Len(attempts) \in Nat /\ DOMAIN attempts = 1..Len(attempts)
         /\ Len(verifs) \in Nat /\ DOMAIN verifs = 1..Len(verifs)
         /\ attempts = <<>> <=> Len(attempts) = 0
         /\ verifs = <<>> <=> Len(verifs) = 0
BY SeqDomain DEF RowTypes, OpRows, CompRows

LEMMA HandlerKnown ==
  ASSUME NEW r \in Handlers
  PROVE  /\ r.pc \in PCs /\ r.ns \in Namespaces \union {NoSpace} /\ r.n \in Nat
         /\ r.ver \in Nat /\ r.cver \in Nat /\ r.num \in Nat /\ r.vid \in Nat
         /\ r.cnt \in Nat /\ r.old \in BOOLEAN
         /\ r.out \in AttemptStates \union {None}
         /\ r.res \in VerificationResults \union {None}
         /\ r.st \in OperationStates \union {None}
BY DEF Handlers

LEMMA NameKeeps ==
  ASSUME NEW q, NEW r, SideTypes, SideTypes', NEW name, Grows(name), FitsName(q, r)
  PROVE  FitsName(q, r)'
<1>1. actions \in Int /\ actions' \in Int /\ actions <= actions'
  BY CompensationAssumption DEF SideTypes, Grows
<1>2. ASSUME r.pc # "idle", q \in Operators
      PROVE  r.ns[1] = "action" /\ r.ns[2] <= actions'
  <2>1. r.ns \in Namespaces /\ r.ns[1] = "action" /\ r.ns[2] <= actions
    BY <1>2 DEF FitsName
  <2>2. r.ns[2] \in Nat
    BY <2>1 DEF Namespaces
  <2> QED
    BY <1>1, <2>1, <2>2
<1>3. comp.state # NoRow => comp'.state # NoRow
  BY DEF Grows
<1> QED
  BY <1>2, <1>3 DEF FitsName

LEMMA AttemptKeeps ==
  ASSUME NEW q, NEW r \in Handlers, RowTypes, RowTypes', NEW name, Grows(name),
         r.ver <= op.version, FitsAttempt(q, r),
         (q \in Operators /\ r.pc = "reclaim" /\ attempts' # attempts) => r.ns # name
  PROVE  FitsAttempt(q, r)'
<1>1. r.ver \in Nat /\ r.num \in Nat
  BY HandlerKnown
<1>2. /\ op.version \in Nat /\ Len(attempts) \in Nat
      /\ DOMAIN attempts = 1..Len(attempts) /\ (attempts = <<>> <=> Len(attempts) = 0)
  BY Numbers
<1>3. /\ op'.version \in Nat /\ Len(attempts') \in Nat
      /\ DOMAIN attempts' = 1..Len(attempts') /\ (attempts' = <<>> <=> Len(attempts') = 0)
  <2>1. RowTypes'
    OBVIOUS
  <2> QED
    BY <2>1, SeqDomain DEF RowTypes, OpRows
<1>4. DOMAIN attempts \subseteq DOMAIN attempts'
  BY <1>2, <1>3 DEF Grows
<1>5. r.ver = op'.version => r.ver = op.version /\ op'.version = op.version /\ op'.state = op.state
  BY <1>1, <1>2, <1>3 DEF Grows
<1>6. (r.ver = op'.version /\ op.state # "COMPENSATING") => attempts' = attempts
  BY <1>5 DEF Grows
<1>7. ASSUME r.pc \in {"call", "outcome"}, ~r.old
      PROVE  r.num \in DOMAIN attempts' /\ attempts'[r.num].by = r.ns
  BY <1>4, <1>7 DEF FitsAttempt, Grows
<1>8. ASSUME r.pc = "outcome"
      PROVE  r.out \in Outcomes /\ (r.out = "APPLIED" => landed')
  BY <1>8 DEF FitsAttempt, Grows
<1>9. ASSUME r.pc = "reclaim", r.ver = op'.version
      PROVE  op'.state = "COMPENSATION_FAILED" /\ r.num = Len(attempts') + 1
  BY <1>5, <1>6, <1>9 DEF FitsAttempt
<1>10. ASSUME r.pc = "reclaim", r.num > Cap
       PROVE  q \in Operators /\ \A i \in DOMAIN attempts' : attempts'[i].by # r.ns
  <2>1. q \in Operators /\ \A i \in DOMAIN attempts : attempts[i].by # r.ns
    BY <1>10 DEF FitsAttempt
  <2>2. CASE attempts' = attempts
    BY <2>1, <2>2
  <2>3. CASE attempts' # attempts
    <3>1. r.ns # name
      BY <1>10, <2>1, <2>3
    <3>2. \A i \in DOMAIN attempts' : attempts'[i].by # r.ns
      BY <2>1, <3>1 DEF Grows
    <3> QED
      BY <2>1, <3>2
  <2> QED
    BY <2>2, <2>3
<1>11. ASSUME r.pc \in Deciding \union {"inspect"}
       PROVE  attempts' # <<>>
  <2>1. Len(attempts) # 0 /\ Len(attempts) <= Len(attempts')
    BY <1>2, <1>11 DEF FitsAttempt, Grows
  <2> QED
    BY <1>2, <1>3, <2>1
<1>12. ASSUME r.pc \in Deciding, r.ver = op'.version
       PROVE  op'.state = "COMPENSATION_UNKNOWN"
  BY <1>5, <1>12 DEF FitsAttempt
<1>13. ASSUME r.pc \in {"restart", "weigh"}, r.ver = op'.version
       PROVE  r.num = Len(attempts') + 1 /\ r.out = attempts'[Len(attempts')].out
  <2>1. op.state = "COMPENSATION_UNKNOWN"
    BY <1>5, <1>13 DEF FitsAttempt, Deciding
  <2>2. attempts' = attempts
    BY <1>6, <1>13, <2>1
  <2> QED
    BY <1>5, <1>13, <2>2 DEF FitsAttempt, Latest
<1>14. ASSUME r.pc = "weigh"
       PROVE  ~op'.effect.verifiable /\ r.out \in AttemptStates
  BY <1>14 DEF FitsAttempt, Grows, Descriptor
<1>15. r.pc = "call" => ~r.old
  BY DEF FitsAttempt
<1> QED
  BY <1>7, <1>8, <1>9, <1>10, <1>11, <1>12, <1>13, <1>14, <1>15
     DEF FitsAttempt, Descriptor, Latest

LEMMA VerificationKeeps ==
  ASSUME NEW r \in Handlers, RowTypes, RowTypes', NEW name, Grows(name), FitsVerification(r)
  PROVE  FitsVerification(r)'
<1>1. DOMAIN verifs = 1..Len(verifs) /\ Len(verifs) \in Nat
  BY Numbers
<1>2. DOMAIN verifs' = 1..Len(verifs') /\ Len(verifs') \in Nat
  <2>1. RowTypes'
    OBVIOUS
  <2> QED
    BY <2>1, SeqDomain DEF RowTypes
<1>3. DOMAIN verifs \subseteq DOMAIN verifs'
  BY <1>1, <1>2 DEF Grows
<1> QED
  BY <1>3 DEF FitsVerification, Grows

\* A handler that takes no part in a step knows what it knew
LEMMA FitsKeeps ==
  ASSUME NEW q, NEW r \in Handlers, RowTypes, RowTypes', SideTypes, SideTypes',
         NEW name, Grows(name), Fits(q, r),
         (q \in Operators /\ r.pc = "reclaim" /\ attempts' # attempts) => r.ns # name
  PROVE  Fits(q, r)'
<1>1. r.ver \in Nat /\ op.version \in Nat /\ r.ver <= op.version
  BY Numbers, HandlerKnown DEF Fits
<1>2. op'.version \in Nat /\ op.version <= op'.version
  BY DEF RowTypes, OpRows, Grows
<1>3. r.ver <= op'.version
  BY <1>1, <1>2
<1>4. FitsName(q, r)'
  BY NameKeeps DEF Fits
<1>5. FitsAttempt(q, r)'
  BY AttemptKeeps DEF Fits
<1>6. FitsVerification(r)'
  BY VerificationKeeps DEF Fits
<1> QED
  BY <1>3, <1>4, <1>5, <1>6 DEF Fits

\* Handlers that act for different messages or actions are told apart by their names
LEMMA NamesApart ==
  ASSUME HandlersFit, Distinct, NEW p \in Processes, NEW q \in Operators, p # q,
         h[p].pc # "idle", h[q].pc # "idle"
  PROVE  h[p].ns # h[q].ns
<1>1. q \in Processes
  BY DEF Processes
<1>2. h[q].ns[1] = "action"
  BY <1>1 DEF HandlersFit, Fits, FitsName
<1>3. CASE p \in Workers
  <2>1. h[p].ns[1] = "message"
    BY <1>3 DEF HandlersFit, Fits, FitsName
  <2> QED
    BY <1>2, <2>1
<1>4. CASE p \in Operators
  BY <1>4 DEF Distinct
<1> QED
  BY <1>3, <1>4 DEF Processes

LEMMA HandlersKept ==
  ASSUME CompensationInv, RowTypes', SideTypes', NEW p \in Processes, NEW r \in Handlers,
         h' = [h EXCEPT ![p] = r], Grows(h[p].ns), Fits(p, r)',
         attempts' # attempts => h[p].pc # "idle",
         (p \in Operators /\ r.pc # "idle") => h[p].pc # "idle" /\ r.ns = h[p].ns
  PROVE  HandlersFit' /\ Distinct'
<1>1. /\ RowTypes /\ SideTypes /\ HandlersFit /\ Distinct
      /\ h \in [Processes -> Handlers]
  BY DEF CompensationInv, RowsInv, SideTypes
<1>2. h'[p] = r /\ \A q \in Processes : q # p => h'[q] = h[q]
  BY <1>1
<1>3. ASSUME NEW q \in Processes
      PROVE  Fits(q, h[q])'
  <2>1. CASE q = p
    <3>1. h'[q] = r
      BY <1>2, <2>1
    <3>2. Fits(q, r)'
      BY <2>1
    <3> QED
      BY <3>1, <3>2 DEF Fits, FitsName, FitsAttempt, FitsVerification
  <2>2. CASE q # p
    <3>1. PICK s \in Handlers : s = h[q]
      BY <1>1
    <3>2. Fits(q, s)
      BY <1>1, <3>1 DEF HandlersFit
    <3>3. (q \in Operators /\ s.pc = "reclaim" /\ attempts' # attempts) => s.ns # h[p].ns
      BY <1>1, <2>2, <3>1, NamesApart
    <3>4. Fits(q, s)'
      BY <1>1, <3>2, <3>3, FitsKeeps
    <3>5. h'[q] = s
      BY <1>2, <2>2, <3>1
    <3> QED
      BY <3>4, <3>5 DEF Fits, FitsName, FitsAttempt, FitsVerification
  <2> QED
    BY <2>1, <2>2
<1>4. HandlersFit'
  BY <1>3 DEF HandlersFit
<1>5. ASSUME NEW a \in Operators, NEW b \in Operators, a # b,
             h'[a].pc # "idle", h'[b].pc # "idle"
      PROVE  h'[a].ns # h'[b].ns
  <2>1. a \in Processes /\ b \in Processes
    BY DEF Processes
  <2>2. CASE a = p
    <3>1. h'[a].ns = h[a].ns /\ h[a].pc # "idle"
      BY <1>2, <1>5, <2>2
    <3>2. h'[b] = h[b]
      BY <1>2, <1>5, <2>1, <2>2
    <3> QED
      BY <1>1, <1>5, <3>1, <3>2 DEF Distinct
  <2>3. CASE b = p
    <3>1. h'[b].ns = h[b].ns /\ h[b].pc # "idle"
      BY <1>2, <1>5, <2>3
    <3>2. h'[a] = h[a]
      BY <1>2, <1>5, <2>1, <2>3
    <3> QED
      BY <1>1, <1>5, <3>1, <3>2 DEF Distinct
  <2>4. CASE a # p /\ b # p
    BY <1>1, <1>2, <1>5, <2>1, <2>4 DEF Distinct
  <2> QED
    BY <2>2, <2>3, <2>4
<1>6. Distinct'
  BY <1>5 DEF Distinct
<1> QED
  BY <1>4, <1>6

\* What handler p has in hand after a step in which it wrote rows: nothing but a
\* version, the attempt it claimed, or a retry that policy allows
After(p, r) ==
  /\ r.ver <= op'.version
  /\ r.pc # "idle" => r.ns = h[p].ns
  /\ \/ r.pc \in Plain
     \/ r.pc = "call" /\ ~r.old /\ r.num \in DOMAIN attempts' /\ attempts'[r.num].by = h[p].ns
     \/ /\ r.pc = "reclaim" /\ op'.state = "COMPENSATION_FAILED"
        /\ r.num = Len(attempts') + 1 /\ r.num <= Cap

LEMMA AfterFits ==
  ASSUME CompensationInv, RowTypes', NEW p \in Processes, h[p].pc # "idle",
         NEW r \in Handlers, Grows(h[p].ns), actions' = actions, After(p, r)
  PROVE  Fits(p, r)'
<1>1. Fits(p, h[p])
  BY DEF CompensationInv, HandlersFit
<1>2. FitsName(p, r)'
  BY <1>1 DEF Fits, FitsName, Grows, After
<1>3. r.num \in Nat /\ r.ver \in Nat
  BY HandlerKnown
<1>4. Cap \in Nat
  BY CapKnown
<1>5. CASE r.pc \in Plain
  BY <1>2, <1>5 DEF Fits, FitsAttempt, FitsVerification, Plain, Deciding, After
<1>6. CASE r.pc = "call" /\ ~r.old /\ r.num \in DOMAIN attempts'
           /\ attempts'[r.num].by = h[p].ns
  BY <1>2, <1>6 DEF Fits, FitsAttempt, FitsVerification, Deciding, After
<1>7. CASE /\ r.pc = "reclaim" /\ op'.state = "COMPENSATION_FAILED"
           /\ r.num = Len(attempts') + 1 /\ r.num <= Cap
  BY <1>2, <1>3, <1>4, <1>7 DEF Fits, FitsAttempt, FitsVerification, Deciding, After
<1> QED
  BY <1>5, <1>6, <1>7 DEF After

\* A step in which handler p writes rows, once the rows are known to fit
LEMMA WriteKeeps ==
  ASSUME CompensationInv, RowsInv', NEW p \in Processes, h[p].pc # "idle",
         NEW r \in Handlers, h' = [h EXCEPT ![p] = r],
         UNCHANGED <<queue, landed, actions, crashes>>, Len(outbox) <= Len(outbox'),
         Grows(h[p].ns), After(p, r)
  PROVE  CompensationInv'
<1>1. RowTypes'
  BY DEF RowsInv
<1>2. SideTypes'
  <2>1. Len(outbox) \in Nat /\ Len(outbox') \in Nat
    BY <1>1, LenProperties DEF CompensationInv, RowsInv, RowTypes
  <2>2. 0..Len(outbox) \subseteq 0..Len(outbox')
    BY <2>1
  <2>3. h' \in [Processes -> Handlers]
    BY DEF CompensationInv, SideTypes
  <2> QED
    BY <2>2, <2>3 DEF CompensationInv, SideTypes
<1>3. Fits(p, r)'
  BY <1>1, AfterFits
<1>4. HandlersFit' /\ Distinct'
  BY <1>1, <1>2, <1>3, HandlersKept DEF After
<1> QED
  BY <1>2, <1>4 DEF CompensationInv

\* A step that leaves the rows alone, but for the provider's state and action keys
LEMMA RowsKept ==
  ASSUME CompensationInv, UNCHANGED rows, landed => landed', actions' \in Nat,
         actions <= actions', NEW name
  PROVE  RowsInv' /\ Grows(name)
<1>1. UNCHANGED <<op, comp, attempts, verifs, used, outbox>>
  BY DEF rows
<1>2. op.version \in Nat /\ Len(attempts) \in Nat /\ Len(verifs) \in Nat
  BY Numbers DEF CompensationInv, RowsInv
<1>3. Grows(name)
  BY <1>1, <1>2 DEF Grows
<1>4. RowTypes' /\ Begun' /\ RowsAgree' /\ SettledByEvidence' /\ AttemptsAreAllowed'
  BY <1>1 DEF CompensationInv, RowsInv, RowTypes, Begun, RowsAgree, SettledByEvidence,
              AttemptsAreAllowed, Latest, Descriptor
<1>5. VerifsFit'
  BY <1>1 DEF CompensationInv, RowsInv, VerifsFit
<1>6. AttemptsFit'
  <2>1. op'.state = "COMPENSATION_FAILED" => attempts'[Len(attempts')].out # "STARTED"
    BY <1>1 DEF CompensationInv, RowsInv, AttemptsFit, Latest
  <2>2. ASSUME NEW i \in DOMAIN attempts'
        PROVE  /\ attempts'[i].out = "APPLIED" => landed'
               /\ attempts'[i].by[1] = "action" => attempts'[i].by[2] <= actions'
    <3>1. i \in DOMAIN attempts /\ attempts'[i] = attempts[i]
      BY <1>1, <2>2
    <3>2. attempts[i] \in AttemptRows
      BY <3>1, SeqElement DEF CompensationInv, RowsInv, RowTypes
    <3>3. attempts[i].by[2] \in Nat
      BY <3>2 DEF AttemptRows, Namespaces
    <3>4. actions \in Nat
      BY CompensationAssumption DEF CompensationInv, SideTypes
    <3>5. /\ attempts[i].out = "APPLIED" => landed
          /\ attempts[i].by[1] = "action" => attempts[i].by[2] <= actions
      BY <3>1 DEF CompensationInv, RowsInv, AttemptsFit
    <3> QED
      BY <3>1, <3>3, <3>4, <3>5
  <2> QED
    BY <2>1, <2>2 DEF AttemptsFit, Latest
<1> QED
  BY <1>3, <1>4, <1>5, <1>6 DEF RowsInv

\* Handler p goes on as r while no row is written
LEMMA QuietKeeps ==
  ASSUME CompensationInv, UNCHANGED <<op, comp, attempts, verifs, used, outbox, actions>>,
         landed => landed', landed' \in BOOLEAN,
         queue' \in [row : 0..Len(outbox), tries : 0..MaxDeliveries, done : BOOLEAN],
         crashes' \in 0..MaxFaults,
         NEW p \in Processes, NEW r \in Handlers, h' = [h EXCEPT ![p] = r], Fits(p, r)',
         (p \in Operators /\ r.pc # "idle") => h[p].pc # "idle" /\ r.ns = h[p].ns
  PROVE  CompensationInv'
<1>1. actions' \in Nat /\ actions <= actions'
  BY CompensationAssumption DEF CompensationInv, SideTypes
<1>2. RowsInv' /\ Grows(h[p].ns)
  <2>1. UNCHANGED rows
    BY DEF rows
  <2> QED
    BY <1>1, <2>1, RowsKept
<1>3. SideTypes'
  <2>1. h' \in [Processes -> Handlers]
    BY DEF CompensationInv, SideTypes
  <2> QED
    BY <2>1 DEF CompensationInv, SideTypes
<1>4. HandlersFit' /\ Distinct'
  BY <1>2, <1>3, HandlersKept DEF RowsInv
<1> QED
  BY <1>2, <1>3, <1>4 DEF CompensationInv

-----------------------------------------------------------------------------
(***************************************************************************)
(* The three ways in which handlers write rows: an attempt is added, a    *)
(* verification is added, or the operation moves on                       *)
(***************************************************************************)

\* The verifications stay the same but for results, which are true and final
SameRequests ==
  /\ verifs' \in Seq(VerifRows) /\ Len(verifs') = Len(verifs)
  /\ \A i \in DOMAIN verifs :
       /\ verifs'[i].attempt = verifs[i].attempt /\ verifs'[i].version = verifs[i].version
       /\ verifs'[i].result = "APPLIED" => landed
       /\ verifs[i].result # None => verifs'[i] = verifs[i]

\* The attempts stay the same but for outcomes, which are true and final
SameAttempts ==
  /\ attempts' \in Seq(AttemptRows) /\ Len(attempts') = Len(attempts)
  /\ \A i \in DOMAIN attempts :
       /\ attempts'[i].by = attempts[i].by
       /\ attempts'[i].out = "APPLIED" => landed
       /\ attempts[i].out # "STARTED" => attempts'[i] = attempts[i]

\* Why another attempt may be made after the latest one
Justified ==
  \/ Latest.out = "NOT_APPLIED"
  \/ \E v \in DOMAIN verifs : /\ verifs'[v].attempt = Len(attempts)
                              /\ verifs'[v].result = "NOT_APPLIED"
  \/ ~Descriptor.verifiable /\ Descriptor.mode # "NONE"

Attempted(p) ==
  /\ op.state \in Working
  /\ op' \in OpRows /\ op'.effect = op.effect /\ op'.state = "COMPENSATING"
  /\ op' = op \/ op'.version = op.version + 1
  /\ comp.state # NoRow /\ comp' \in CompRows /\ comp'.state = "EXECUTING"
  /\ attempts' = Append(attempts, [by |-> h[p].ns, out |-> "STARTED"])
  /\ SameRequests
  /\ used' \subseteq Identities /\ outbox' \in Seq(Lines)
  /\ UNCHANGED <<landed, actions>>
  /\ Len(attempts) + 1 > Cap =>
       p \in Operators /\ \A i \in DOMAIN attempts : attempts[i].by # h[p].ns
  /\ attempts # <<>> => Justified

Requested ==
  \E row \in VerifRows :
    /\ op' \in OpRows /\ op'.effect = op.effect /\ op'.state = "COMPENSATING"
    /\ (op' = op /\ comp.state = "EXECUTING")
         \/ (op.state \in Open /\ op'.version = op.version + 1)
    /\ comp.state # NoRow /\ comp' \in CompRows /\ comp'.state = "VERIFYING"
    /\ attempts # <<>> /\ SameAttempts
    /\ verifs' = Append(verifs, row)
    /\ row.attempt = Len(attempts) /\ row.version = op'.version /\ row.result = None
    /\ used' \subseteq Identities /\ outbox' \in Seq(Lines)
    /\ UNCHANGED <<landed, actions>>

Moved ==
  /\ op.state \in Working
  /\ op' \in OpRows /\ op'.effect = op.effect /\ op'.version = op.version + 1
  /\ comp.state # NoRow /\ comp' \in CompRows /\ comp'.state # NoRow
  /\ comp'.state = "PENDING" <=> comp.state = "PENDING"
  /\ op'.state # "MANUAL_INTERVENTION" =>
       /\ ParentState[comp'.state] = op'.state /\ comp'.state # "VERIFYING"
       /\ comp'.state = "EXECUTING" => attempts'[Len(attempts)].out = "STARTED"
       /\ op.state \in Open
  /\ SameAttempts /\ SameRequests
  /\ op'.state \in Open =>
       \A i \in DOMAIN verifs : verifs'[i].result \in {"APPLIED", "NOT_APPLIED"} =>
                                  verifs'[i].result = verifs[i].result
  /\ op'.state = "COMPENSATED" => landed
  /\ op'.state = "COMPENSATION_FAILED" => attempts'[Len(attempts)].out # "STARTED"
  /\ SettledByEvidence'
  /\ used' \subseteq Identities /\ outbox' \in Seq(Lines)
  /\ UNCHANGED <<landed, actions>>

LEMMA ActionsKnown ==
  ASSUME SideTypes
  PROVE  actions \in Nat
BY CompensationAssumption DEF SideTypes

LEMMA AttemptedKeeps ==
  ASSUME CompensationInv, NEW p \in Processes, h[p].pc # "idle", Attempted(p)
  PROVE  RowsInv' /\ Grows(h[p].ns)
<1> DEFINE new == [by |-> h[p].ns, out |-> "STARTED"]
           n == Len(attempts)
<1>1. /\ RowTypes /\ Begun /\ RowsAgree /\ VerifsFit /\ AttemptsFit /\ AttemptsAreAllowed
      /\ SideTypes /\ Fits(p, h[p])
  BY DEF CompensationInv, RowsInv, HandlersFit
<1>2. /\ op.version \in Nat /\ n \in Nat /\ DOMAIN attempts = 1..n
      /\ Len(verifs) \in Nat /\ DOMAIN verifs = 1..Len(verifs)
  BY <1>1, Numbers
<1>3. h[p].ns \in Namespaces
  BY <1>1 DEF Fits, FitsName
<1>4. new \in AttemptRows
  BY <1>3 DEF AttemptRows, AttemptStates
<1>5. /\ attempts' \in Seq(AttemptRows) /\ Len(attempts') = n + 1
      /\ DOMAIN attempts' = 1..(n + 1) /\ attempts' # <<>>
      /\ attempts'[n + 1] = new /\ \A i \in 1..n : attempts'[i] = attempts[i]
  <2>1. attempts' = Append(attempts, new) /\ attempts \in Seq(AttemptRows)
    BY <1>1 DEF Attempted, RowTypes
  <2> HIDE DEF new
  <2> QED
    BY <1>4, <2>1, SeqAppend
<1>6. new.by = h[p].ns /\ new.out = "STARTED"
  OBVIOUS
<1> HIDE DEF new
<1>7. DOMAIN verifs' = DOMAIN verifs /\ Len(verifs') = Len(verifs)
  BY <1>2, SeqDomain DEF Attempted, SameRequests
<1>8. op'.version = op.version => op' = op
  BY <1>2 DEF Attempted
<1>9. op.version <= op'.version /\ op'.version \in Nat
  BY <1>2 DEF Attempted
<1>10. Grows(h[p].ns)
  <2>1. actions \in Nat /\ actions' = actions
    BY <1>1, ActionsKnown DEF Attempted
  <2>2. \A i \in DOMAIN attempts : attempts'[i].by = attempts[i].by
    BY <1>2, <1>5
  <2>3. \A i \in DOMAIN attempts' : i \notin DOMAIN attempts => attempts'[i].by = h[p].ns
    BY <1>2, <1>5, <1>6
  <2>4. /\ Len(attempts) <= Len(attempts') /\ Len(verifs) <= Len(verifs')
        /\ actions <= actions'
    BY <1>2, <1>5, <1>7, <2>1
  <2>5. op'.version = op.version => op'.state = op.state /\ op.state = "COMPENSATING"
    BY <1>8 DEF Attempted
  <2>6. op'.effect = op.effect /\ (landed => landed') /\ comp'.state # NoRow
    BY DEF Attempted, NoRow
  <2> QED
    BY <1>9, <2>2, <2>3, <2>4, <2>5, <2>6 DEF Grows
<1>11. RowTypes'
  <2>1. \A i \in DOMAIN verifs' : verifs'[i].attempt \in DOMAIN attempts'
    BY <1>1, <1>2, <1>5, <1>7 DEF Attempted, SameRequests, RowTypes
  <2> QED
    BY <1>5, <2>1 DEF RowTypes, Attempted, SameRequests
<1>12. Begun' /\ RowsAgree'
  BY <1>5, <1>6, ParentOfRow DEF Begun, RowsAgree, Attempted, Latest, NoRow
<1>13. VerifsFit'
  <2>1. ASSUME NEW i \in DOMAIN verifs'
        PROVE  /\ verifs'[i].version <= op'.version
               /\ verifs'[i].attempt # Len(attempts')
               /\ verifs'[i].result = "APPLIED" => landed'
    <3>1. i \in DOMAIN verifs /\ verifs[i] \in VerifRows
      BY <1>1, <1>7, SeqElement DEF RowTypes
    <3>2. verifs[i].version \in Nat /\ verifs[i].version <= op.version
      BY <1>1, <3>1 DEF VerifRows, VerifsFit
    <3>3. verifs[i].attempt \in 1..n
      BY <1>1, <1>2, <3>1 DEF RowTypes
    <3> QED
      BY <1>2, <1>5, <1>9, <3>1, <3>2, <3>3 DEF Attempted, SameRequests
  <2> QED
    BY <2>1 DEF VerifsFit
<1>14. AttemptsFit'
  <2>1. ASSUME NEW i \in DOMAIN attempts'
        PROVE  /\ attempts'[i].out = "APPLIED" => landed'
               /\ attempts'[i].by[1] = "action" => attempts'[i].by[2] <= actions'
    <3>1. CASE i \in 1..n
      BY <1>1, <1>2, <1>5, <3>1 DEF AttemptsFit, Attempted
    <3>2. CASE i = n + 1
      <4>1. h[p].ns[1] = "action" => h[p].ns[2] <= actions
        <5>1. p \in Workers => h[p].ns[1] = "message"
          BY <1>1 DEF Fits, FitsName
        <5>2. p \in Operators => h[p].ns[2] <= actions
          BY <1>1 DEF Fits, FitsName
        <5> QED
          BY <5>1, <5>2 DEF Processes
      <4> QED
        BY <1>5, <1>6, <3>2, <4>1 DEF Attempted
    <3> QED
      BY <1>2, <1>5, <3>1, <3>2
  <2> QED
    BY <2>1 DEF AttemptsFit, Attempted
<1>15. SettledByEvidence'
  BY DEF Attempted, SettledByEvidence
<1>16. AttemptsAreAllowed'
  <2>1. Cap \in Nat
    BY CapKnown
  <2>2. ASSUME NEW i \in DOMAIN attempts', i > Cap
        PROVE  /\ attempts'[i].by[1] = "action"
               /\ \A j \in DOMAIN attempts' : (j > Cap /\ j # i) =>
                    attempts'[j].by # attempts'[i].by
    <3>1. \A k \in DOMAIN attempts : k > Cap =>
            /\ attempts[k].by[1] = "action"
            /\ \A j \in DOMAIN attempts : (j > Cap /\ j # k) => attempts[j].by # attempts[k].by
      BY <1>1 DEF AttemptsAreAllowed, Cap
    <3>2. n + 1 > Cap => /\ p \in Operators
                         /\ \A k \in DOMAIN attempts : attempts[k].by # h[p].ns
      BY DEF Attempted
    <3>3. p \in Operators => h[p].ns[1] = "action"
      BY <1>1 DEF Fits, FitsName
    <3>4. CASE i = n + 1
      BY <1>2, <1>5, <1>6, <2>1, <2>2, <3>2, <3>3, <3>4
    <3>5. CASE i \in 1..n
      BY <1>2, <1>5, <1>6, <2>1, <2>2, <3>1, <3>2, <3>5
    <3> QED
      BY <1>2, <1>5, <3>4, <3>5
  <2> QED
    BY <2>2 DEF AttemptsAreAllowed, Cap
<1> QED
  BY <1>10, <1>11, <1>12, <1>13, <1>14, <1>15, <1>16 DEF RowsInv

\* Outcomes are written and nothing is added: what was said of the attempts stays true
LEMMA OutcomesKeep ==
  ASSUME CompensationInv, SameAttempts, UNCHANGED <<landed, actions>>,
         op'.state = "COMPENSATION_FAILED" => attempts'[Len(attempts)].out # "STARTED"
  PROVE  /\ AttemptsFit' /\ AttemptsAreAllowed'
         /\ DOMAIN attempts' = DOMAIN attempts /\ Len(attempts') = Len(attempts)
         /\ (attempts' = <<>> <=> attempts = <<>>)
<1>1. RowTypes /\ AttemptsFit /\ AttemptsAreAllowed
  BY DEF CompensationInv, RowsInv
<1>2. /\ DOMAIN attempts' = DOMAIN attempts /\ Len(attempts') = Len(attempts)
      /\ (attempts' = <<>> <=> attempts = <<>>)
  BY <1>1, SeqDomain DEF SameAttempts, RowTypes
<1>3. AttemptsFit'
  BY <1>1, <1>2 DEF AttemptsFit, SameAttempts, Latest
<1>4. AttemptsAreAllowed'
  BY <1>1, <1>2 DEF AttemptsAreAllowed, SameAttempts
<1> QED
  BY <1>2, <1>3, <1>4

LEMMA RequestedKeeps ==
  ASSUME CompensationInv, Requested, NEW name
  PROVE  RowsInv' /\ Grows(name)
<1>1. RowTypes /\ VerifsFit /\ SideTypes
  BY DEF CompensationInv, RowsInv
<1>2. PICK row \in VerifRows :
    /\ op' \in OpRows /\ op'.effect = op.effect /\ op'.state = "COMPENSATING"
    /\ (op' = op /\ comp.state = "EXECUTING")
         \/ (op.state \in Open /\ op'.version = op.version + 1)
    /\ comp.state # NoRow /\ comp' \in CompRows /\ comp'.state = "VERIFYING"
    /\ attempts # <<>> /\ SameAttempts
    /\ verifs' = Append(verifs, row)
    /\ row.attempt = Len(attempts) /\ row.version = op'.version /\ row.result = None
    /\ used' \subseteq Identities /\ outbox' \in Seq(Lines)
    /\ UNCHANGED <<landed, actions>>
  BY DEF Requested
<1>3. /\ op.version \in Nat /\ Len(attempts) \in Nat /\ DOMAIN attempts = 1..Len(attempts)
      /\ Len(verifs) \in Nat /\ DOMAIN verifs = 1..Len(verifs)
      /\ (attempts = <<>> <=> Len(attempts) = 0)
  BY <1>1, Numbers
<1>4. /\ AttemptsFit' /\ AttemptsAreAllowed'
      /\ DOMAIN attempts' = DOMAIN attempts /\ Len(attempts') = Len(attempts)
      /\ (attempts' = <<>> <=> attempts = <<>>)
  BY <1>2, OutcomesKeep
<1>5. /\ verifs' \in Seq(VerifRows) /\ Len(verifs') = Len(verifs) + 1
      /\ DOMAIN verifs' = 1..(Len(verifs) + 1)
      /\ verifs'[Len(verifs) + 1] = row /\ \A i \in 1..Len(verifs) : verifs'[i] = verifs[i]
  BY <1>1, <1>2, SeqAppend DEF RowTypes
<1>6. op.version <= op'.version /\ op'.version \in Nat
      /\ (op'.version = op.version => op' = op /\ comp.state = "EXECUTING")
  BY <1>2, <1>3
<1>7. op.state \in Open
  BY <1>2 DEF Open
<1>8. Grows(name)
  <2>1. actions \in Nat /\ actions' = actions
    BY <1>1, <1>2, ActionsKnown
  <2>2. /\ Len(attempts) <= Len(attempts') /\ Len(verifs) <= Len(verifs')
        /\ actions <= actions'
    BY <1>3, <1>4, <1>5, <2>1
  <2>3. \A i \in DOMAIN attempts : attempts'[i].by = attempts[i].by
    BY <1>2 DEF SameAttempts
  <2> QED
    BY <1>2, <1>4, <1>6, <2>2, <2>3 DEF Grows, NoRow
<1>9. RowTypes'
  <2>1. \A i \in DOMAIN verifs' : verifs'[i].attempt \in DOMAIN attempts'
    BY <1>1, <1>2, <1>3, <1>4, <1>5 DEF RowTypes
  <2> QED
    BY <1>2, <1>5, <2>1 DEF RowTypes, SameAttempts
<1>10. Begun'
  BY <1>2, <1>4 DEF Begun, NoRow
<1>11. RowsAgree'
  <2>1. ParentState["VERIFYING"] = "COMPENSATING"
    BY ParentOfRow
  <2> QED
    BY <1>2, <1>4, <1>5, <2>1 DEF RowsAgree
<1>12. VerifsFit'
  <2>1. ASSUME NEW i \in DOMAIN verifs'
        PROVE  /\ verifs'[i].version <= op'.version
               /\ (/\ verifs'[i].version = op'.version
                   /\ verifs'[i].attempt = Len(attempts')) =>
                    verifs'[i].result = None /\ i = Len(verifs')
               /\ verifs'[i].attempt = Len(attempts') =>
                    verifs'[i].result \notin {"APPLIED", "NOT_APPLIED"}
               /\ verifs'[i].result = "APPLIED" => landed'
    <3>1. CASE i = Len(verifs) + 1
      BY <1>2, <1>5, <1>6, <3>1 DEF None
    <3>2. CASE i \in 1..Len(verifs)
      <4>1. i \in DOMAIN verifs /\ verifs'[i] = verifs[i] /\ verifs[i] \in VerifRows
        BY <1>1, <1>3, <1>5, <3>2, SeqElement DEF RowTypes
      <4>2. verifs[i].version \in Nat /\ verifs[i].version <= op.version
        BY <1>1, <4>1 DEF VerifRows, VerifsFit
      <4>3. ~(verifs[i].version = op'.version /\ verifs[i].attempt = Len(attempts))
        <5>1. CASE op'.version = op.version
          <6>1. op.state = "COMPENSATING" /\ comp.state = "EXECUTING"
            BY <1>2, <1>6, <5>1
          <6> QED
            BY <1>1, <4>1, <5>1, <6>1 DEF VerifsFit
        <5>2. CASE op'.version # op.version
          BY <1>3, <1>6, <4>2, <5>2
        <5> QED
          BY <5>1, <5>2
      <4>4. verifs[i].attempt = Len(attempts) =>
              verifs[i].result \notin {"APPLIED", "NOT_APPLIED"}
        BY <1>1, <1>7, <4>1 DEF VerifsFit
      <4>5. verifs[i].result = "APPLIED" => landed'
        BY <1>1, <1>2, <4>1 DEF VerifsFit
      <4> QED
        BY <1>3, <1>4, <1>6, <4>1, <4>2, <4>3, <4>4, <4>5
    <3> QED
      BY <1>3, <1>5, <3>1, <3>2
  <2> QED
    BY <1>2, <2>1 DEF VerifsFit
<1>13. SettledByEvidence'
  BY <1>2 DEF SettledByEvidence
<1> QED
  BY <1>4, <1>8, <1>9, <1>10, <1>11, <1>12, <1>13 DEF RowsInv

LEMMA MovedKeeps ==
  ASSUME CompensationInv, Moved, NEW name
  PROVE  RowsInv' /\ Grows(name)
<1>1. RowTypes /\ Begun /\ VerifsFit /\ SideTypes
  BY DEF CompensationInv, RowsInv
<1>2. /\ op.version \in Nat /\ Len(attempts) \in Nat /\ DOMAIN attempts = 1..Len(attempts)
      /\ Len(verifs) \in Nat /\ DOMAIN verifs = 1..Len(verifs)
  BY <1>1, Numbers
<1>3. SameAttempts /\ SameRequests /\ UNCHANGED <<landed, actions>>
  BY DEF Moved
<1>4. /\ AttemptsFit' /\ AttemptsAreAllowed'
      /\ DOMAIN attempts' = DOMAIN attempts /\ Len(attempts') = Len(attempts)
      /\ (attempts' = <<>> <=> attempts = <<>>)
  <2>1. op'.state = "COMPENSATION_FAILED" => attempts'[Len(attempts)].out # "STARTED"
    BY DEF Moved
  <2> QED
    BY <1>3, <2>1, OutcomesKeep
<1>5. DOMAIN verifs' = DOMAIN verifs /\ Len(verifs') = Len(verifs)
  BY <1>2, <1>3, SeqDomain DEF SameRequests
<1>6. op'.version = op.version + 1 /\ op.version <= op'.version /\ op'.version # op.version
  BY <1>2 DEF Moved
<1>7. Grows(name)
  <2>1. actions \in Nat /\ actions' = actions
    BY <1>1, <1>3, ActionsKnown
  <2>2. /\ Len(attempts) <= Len(attempts') /\ Len(verifs) <= Len(verifs')
        /\ actions <= actions'
    BY <1>2, <1>4, <1>5, <2>1
  <2>3. op'.effect = op.effect /\ comp'.state # NoRow
    BY DEF Moved
  <2> QED
    BY <1>3, <1>4, <1>6, <2>2, <2>3 DEF Grows, SameAttempts
<1>8. RowTypes'
  <2>1. \A i \in DOMAIN verifs' : verifs'[i].attempt \in DOMAIN attempts'
    BY <1>1, <1>3, <1>4, <1>5 DEF RowTypes, SameRequests
  <2>2. op' \in OpRows /\ comp' \in CompRows /\ used' \subseteq Identities
        /\ outbox' \in Seq(Lines)
    BY DEF Moved
  <2> QED
    BY <1>3, <2>1, <2>2 DEF RowTypes, SameRequests, SameAttempts
<1>9. Begun'
  <2>1. comp.state # NoRow /\ comp'.state # NoRow
    BY DEF Moved
  <2>2. comp'.state = "PENDING" <=> comp.state = "PENDING"
    BY DEF Moved
  <2> QED
    BY <1>1, <1>4, <2>1, <2>2 DEF Begun
<1>10. RowsAgree'
  BY <1>4 DEF RowsAgree, Moved, Latest
<1>11. VerifsFit'
  <2>1. ASSUME NEW i \in DOMAIN verifs'
        PROVE  /\ verifs'[i].version <= op'.version
               /\ verifs'[i].version # op'.version
               /\ (op'.state \in Open /\ verifs'[i].attempt = Len(attempts')) =>
                    verifs'[i].result \notin {"APPLIED", "NOT_APPLIED"}
               /\ verifs'[i].result = "APPLIED" => landed'
    <3>1. i \in DOMAIN verifs /\ verifs[i] \in VerifRows
      BY <1>1, <1>5, SeqElement DEF RowTypes
    <3>2. verifs[i].version \in Nat /\ verifs[i].version <= op.version
      BY <1>1, <3>1 DEF VerifRows, VerifsFit
    <3>3. verifs'[i].version = verifs[i].version /\ verifs'[i].attempt = verifs[i].attempt
          /\ (verifs'[i].result = "APPLIED" => landed')
      BY <1>3, <3>1 DEF SameRequests
    <3>4. ASSUME op'.state \in Open, verifs[i].attempt = Len(attempts),
                 verifs'[i].result \in {"APPLIED", "NOT_APPLIED"}
          PROVE  FALSE
      <4>1. verifs'[i].result = verifs[i].result
        BY <3>1, <3>4 DEF Moved
      <4>2. op'.state # "MANUAL_INTERVENTION"
        BY <3>4 DEF Open
      <4>3. op.state \in Open
        BY <4>2 DEF Moved
      <4> QED
        BY <1>1, <3>1, <3>4, <4>1, <4>3 DEF VerifsFit
    <3> QED
      BY <1>2, <1>4, <1>6, <3>2, <3>3, <3>4
  <2> QED
    BY <2>1 DEF VerifsFit
<1>12. SettledByEvidence'
  BY DEF Moved
<1> QED
  BY <1>4, <1>7, <1>8, <1>9, <1>10, <1>11, <1>12 DEF RowsInv

-----------------------------------------------------------------------------
(***************************************************************************)
(* Quiet steps: a handler reads, calls the provider, or ends              *)
(***************************************************************************)

\* A handler with nothing in hand but a version and the name of its message
Light(p, r) ==
  /\ r \in Handlers /\ r.pc \in Plain /\ r.ver <= op.version
  /\ r.pc # "idle" => h[p].pc # "idle" /\ r.ns = h[p].ns

LEMMA LightFits ==
  ASSUME CompensationInv, NEW p \in Processes, NEW r, Light(p, r)
  PROVE  Fits(p, r)
<1>1. Fits(p, h[p])
  BY DEF CompensationInv, HandlersFit
<1>2. FitsName(p, r)
  BY <1>1 DEF Fits, FitsName, Light
<1> QED
  BY <1>2 DEF Fits, FitsAttempt, FitsVerification, Plain, Deciding, Light

\* What a handler knows does not depend on who runs
LEMMA FitsRead ==
  ASSUME UNCHANGED <<op, comp, attempts, verifs, landed, actions>>, NEW p, NEW r, Fits(p, r)
  PROVE  Fits(p, r)'
BY DEF Fits, FitsName, FitsAttempt, FitsVerification, Descriptor, Latest

\* Handler p goes on as r and nothing else happens
LEMMA StepKeeps ==
  ASSUME CompensationInv, Quiet, NEW p \in Processes, NEW r \in Handlers,
         h' = [h EXCEPT ![p] = r], Fits(p, r),
         r.pc # "idle" => h[p].pc # "idle" /\ r.ns = h[p].ns
  PROVE  CompensationInv'
<1>1. UNCHANGED <<op, comp, attempts, verifs, used, outbox, queue, landed, actions, crashes>>
  BY DEF Quiet, rows
<1>2. Fits(p, r)'
  BY <1>1, FitsRead
<1>3. /\ landed => landed'
      /\ landed' \in BOOLEAN
      /\ queue' \in [row : 0..Len(outbox), tries : 0..MaxDeliveries, done : BOOLEAN]
      /\ crashes' \in 0..MaxFaults
  BY <1>1 DEF CompensationInv, SideTypes
<1> QED
  BY <1>1, <1>2, <1>3, QuietKeeps

LEMMA IdleKnown ==
  /\ Idle \in Handlers /\ Idle.pc = "idle" /\ Idle.ver = 0 /\ Idle.cver = 0
  /\ Idle.num = 0 /\ Idle.old = FALSE /\ Idle.ns = NoSpace /\ Idle.vid = 0
BY DEF Idle, Handlers, PCs, NoSpace, None

\* A handler that begins a stage
Stage(p, pc, r) ==
  /\ r \in Handlers /\ r.pc = pc /\ r.ns = h[p].ns /\ r.ver = 0 /\ r.num = 0
  /\ r.old = FALSE /\ r.cver = 0

LEMMA StageKnown ==
  ASSUME SideTypes, NEW p \in Processes, NEW pc \in PCs, NEW r, r = At(p, pc)
  PROVE  Stage(p, pc, r)
<1>1. h[p] \in Handlers
  BY DEF SideTypes
<1>2. h[p].ns \in Namespaces \union {NoSpace} /\ h[p].n \in Nat
  BY <1>1, HandlerKnown
<1> QED
  BY <1>2 DEF Stage, At, Idle, Handlers, NoSpace, None

\* ... at a version that it has just read
AtVersion(p, pc, v) == [At(p, pc) EXCEPT !.ver = v]
Posted(p, pc, v, r) == r \in Handlers /\ r.pc = pc /\ r.ns = h[p].ns /\ r.ver = v /\ r.num = 0

LEMMA StageAtVersion ==
  ASSUME SideTypes, NEW p \in Processes, NEW pc \in PCs, NEW v \in Nat,
         NEW r, r = AtVersion(p, pc, v)
  PROVE  Posted(p, pc, v, r)
<1>1. PICK t : t = At(p, pc)
  OBVIOUS
<1>2. Stage(p, pc, t)
  BY <1>1, StageKnown
<1>3. r = [t EXCEPT !.ver = v]
  BY <1>1 DEF AtVersion
<1>4. t \in Handlers /\ t.pc = pc /\ t.ns = h[p].ns /\ t.num = 0
  BY <1>2 DEF Stage
<1> QED
  BY <1>3, <1>4 DEF Posted, Handlers

\* Finish leaves an answer for the broker, or nothing
LEMMA FinishMeans ==
  ASSUME CompensationInv, NEW p \in Processes, h[p].pc # "idle",
         NEW pc \in {"ack", "nak", "abort", "again", "rejoin"}, Finish(p, pc)
  PROVE  \E r \in Handlers : h' = [h EXCEPT ![p] = r] /\ Light(p, r) /\ r.ver = 0
<1>1. op.version \in Nat
  BY Numbers DEF CompensationInv, RowsInv
<1>2. CASE pc = "abort" \/ (p \in Operators /\ pc \in {"ack", "nak"})
  <2>1. h' = [h EXCEPT ![p] = Idle]
    BY <1>2 DEF Finish, Become
  <2>2. Light(p, Idle)
    BY <1>1, IdleKnown DEF Light, Plain
  <2> QED
    BY <2>1, <2>2, IdleKnown
<1>3. CASE ~(pc = "abort" \/ (p \in Operators /\ pc \in {"ack", "nak"}))
  <2>1. PICK r : r = At(p, pc)
    OBVIOUS
  <2>2. h' = [h EXCEPT ![p] = r]
    BY <1>3, <2>1 DEF Finish, Become
  <2>3. pc \in PCs
    BY <1>3 DEF PCs
  <2>4. Stage(p, pc, r)
    BY <2>1, <2>3, StageKnown DEF CompensationInv
  <2>5. r \in Handlers /\ r.pc = pc /\ r.ns = h[p].ns /\ r.ver = 0
    BY <2>4 DEF Stage
  <2>6. Light(p, r)
    BY <1>1, <1>3, <2>5 DEF Light, Plain
  <2> QED
    BY <2>2, <2>5, <2>6
<1> QED
  BY <1>2, <1>3

LEMMA FinishKeeps ==
  ASSUME CompensationInv, NEW p \in Processes, h[p].pc # "idle", Quiet,
         NEW pc \in {"ack", "nak", "abort", "again", "rejoin"}, Finish(p, pc)
  PROVE  CompensationInv'
<1>1. PICK r \in Handlers : h' = [h EXCEPT ![p] = r] /\ Light(p, r)
  BY FinishMeans
<1>2. Fits(p, r)
  BY <1>1, LightFits
<1> QED
  BY <1>1, <1>2, StepKeeps DEF Light

\* Every answer without a row leaves the journal as it is
LEMMA AnswerKeeps ==
  ASSUME CompensationInv, NEW p \in Processes, h[p].pc # "idle", NEW result,
         Answer(p, result)
  PROVE  CompensationInv'
<1> DEFINE pc == CASE result \in {"REJECTED", "CONFLICT"} -> "ack"
                   [] result = "DUPLICATE" -> "nak"
                   [] OTHER -> "abort"
<1>1. pc \in {"ack", "nak", "abort", "again", "rejoin"}
  OBVIOUS
<1>2. Finish(p, pc) /\ Quiet
  BY DEF Answer
<1> HIDE DEF pc
<1> QED
  BY <1>1, <1>2, FinishKeeps

\* A handler goes on to a stage where it knows no more than it did
LEMMA LightKeeps ==
  ASSUME CompensationInv, NEW p \in Processes, h[p].pc # "idle", Quiet,
         NEW r \in Handlers, h' = [h EXCEPT ![p] = r], r.pc \in Plain,
         r.ns = h[p].ns, r.ver <= op.version
  PROVE  CompensationInv'
<1>1. Light(p, r)
  BY DEF Light
<1> QED
  BY <1>1, LightFits, StepKeeps

LEMMA HandlerOf ==
  ASSUME CompensationInv, NEW p \in Processes
  PROVE  /\ RowTypes /\ SideTypes /\ h[p] \in Handlers /\ Fits(p, h[p])
         /\ h[p].ns \in Namespaces \union {NoSpace} /\ h[p].n \in Nat
         /\ h[p].ver \in Nat /\ h[p].cver \in Nat /\ h[p].num \in Nat
         /\ op.version \in Nat /\ comp.version \in Nat /\ op.state \in OperationStates
<1>1. RowTypes /\ SideTypes /\ HandlersFit
  BY DEF CompensationInv, RowsInv
<1>2. h[p] \in Handlers
  BY <1>1 DEF SideTypes
<1> QED
  BY <1>1, <1>2, HandlerKnown, Numbers DEF HandlersFit

\* A handler that is running has a compensation row
LEMMA RowExists ==
  ASSUME CompensationInv, NEW p \in Processes, h[p].pc # "idle"
  PROVE  comp.state \in CompensationStates /\ h[p].ns \in Namespaces
<1>1. Fits(p, h[p]) /\ RowTypes
  BY HandlerOf
<1> QED
  BY <1>1 DEF Fits, FitsName, RowTypes, CompRows

LEMMA ExecuteKeeps ==
  ASSUME CompensationInv, NEW p \in Processes, Execute(p)
  PROVE  CompensationInv'
<1>1. h[p].pc # "idle" /\ Quiet
  BY DEF Execute
<1>2. PICK r : r = [At(p, "dispatch") EXCEPT !.ver = op.version, !.st = op.state]
  OBVIOUS
<1>3. h' = [h EXCEPT ![p] = r] \/ Finish(p, "ack")
  BY <1>2 DEF Execute, Become
<1>4. CASE h' = [h EXCEPT ![p] = r]
  <2>1. r \in Handlers /\ r.pc = "dispatch" /\ r.ns = h[p].ns /\ r.ver = op.version
    <3>1. PICK t : t = At(p, "dispatch")
      OBVIOUS
    <3>2. Stage(p, "dispatch", t)
      <4>1. "dispatch" \in PCs
        BY DEF PCs
      <4> QED
        BY <3>1, <4>1, HandlerOf, StageKnown
    <3>3. r = [t EXCEPT !.ver = op.version, !.st = op.state]
      BY <1>2, <3>1
    <3>4. op.version \in Nat /\ op.state \in OperationStates
      BY HandlerOf
    <3>5. t \in Handlers /\ t.pc = "dispatch" /\ t.ns = h[p].ns
      BY <3>2 DEF Stage
    <3> QED
      BY <3>3, <3>4, <3>5 DEF Handlers
  <2>2. r.ver <= op.version
    BY <2>1, HandlerOf
  <2>3. r.pc \in Plain
    BY <2>1 DEF Plain
  <2> QED
    BY <1>1, <1>4, <2>1, <2>2, <2>3, LightKeeps
<1>5. CASE Finish(p, "ack")
  BY <1>1, <1>5, FinishKeeps
<1> QED
  BY <1>3, <1>4, <1>5

\* A handler keeps what it has in hand and goes on to another stage
LEMMA GotoKnown ==
  ASSUME NEW s \in Handlers, NEW pc \in PCs, NEW r, r = [s EXCEPT !.pc = pc]
  PROVE  /\ r \in Handlers /\ r.pc = pc /\ r.ns = s.ns /\ r.ver = s.ver
         /\ r.num = s.num /\ r.out = s.out /\ r.old = s.old /\ r.vid = s.vid
         /\ r.res = s.res /\ r.cver = s.cver /\ r.st = s.st
BY DEF Handlers

\* ... without any more knowledge
LEMMA GotoKeeps ==
  ASSUME CompensationInv, NEW p \in Processes, h[p].pc # "idle", Quiet,
         NEW pc \in Plain, Goto(p, pc)
  PROVE  CompensationInv'
<1>1. PICK r : r = [h[p] EXCEPT !.pc = pc]
  OBVIOUS
<1>2. h' = [h EXCEPT ![p] = r]
  BY <1>1 DEF Goto, Become
<1>3. pc \in PCs
  BY DEF Plain, PCs
<1>4. h[p] \in Handlers /\ Fits(p, h[p])
  BY HandlerOf
<1>5. r \in Handlers /\ r.pc = pc /\ r.ns = h[p].ns /\ r.ver = h[p].ver
  BY <1>1, <1>3, <1>4, GotoKnown
<1>6. r.ver <= op.version
  BY <1>4, <1>5 DEF Fits
<1> QED
  BY <1>2, <1>5, <1>6, LightKeeps

LEMMA DispatchKeeps ==
  ASSUME CompensationInv, NEW p \in Processes, Dispatch(p)
  PROVE  CompensationInv'
<1>1. h[p].pc # "idle" /\ Quiet
  BY DEF Dispatch
<1>2. comp.state \in CompensationStates
  BY <1>1, RowExists
<1>3. PICK r : r = [h[p] EXCEPT !.pc = "claim", !.cver = comp.version,
                                !.num = Len(attempts) + 1]
  OBVIOUS
<1>4. \/ Goto(p, "recover") \/ Goto(p, "peek") \/ Finish(p, "ack")
      \/ h' = [h EXCEPT ![p] = r]
  <2>1. CASE h[p].st # "COMPENSATING" \/ comp.state = "VERIFYING"
    BY <2>1 DEF Dispatch
  <2>2. CASE h[p].st = "COMPENSATING" /\ comp.state = "PENDING"
    BY <1>3, <2>2 DEF Dispatch, Become
  <2>3. CASE h[p].st = "COMPENSATING" /\ comp.state = "EXECUTING"
    BY <2>3 DEF Dispatch
  <2>4. CASE h[p].st = "COMPENSATING" /\ comp.state \in {"SUCCEEDED", "FAILED", "UNKNOWN"}
    BY <2>4 DEF Dispatch
  <2> QED
    BY <1>2, <2>1, <2>2, <2>3, <2>4 DEF CompensationStates
<1>5. CASE Goto(p, "recover") \/ Goto(p, "peek")
  BY <1>1, <1>5, GotoKeeps DEF Plain
<1>6. CASE Finish(p, "ack")
  BY <1>1, <1>6, FinishKeeps
<1>7. CASE h' = [h EXCEPT ![p] = r]
  <2>1. Len(attempts) + 1 \in Nat
    BY Numbers, HandlerOf
  <2>2. h[p] \in Handlers /\ Fits(p, h[p]) /\ comp.version \in Nat
    BY HandlerOf
  <2>3. r \in Handlers /\ r.pc = "claim" /\ r.ns = h[p].ns /\ r.ver = h[p].ver
    BY <1>3, <2>1, <2>2 DEF Handlers, PCs
  <2>4. r.ver <= op.version
    BY <2>2, <2>3 DEF Fits
  <2> QED
    BY <1>1, <1>7, <2>3, <2>4, LightKeeps DEF Plain
<1> QED
  BY <1>4, <1>5, <1>6, <1>7

LEMMA PeekKeeps ==
  ASSUME CompensationInv, NEW p \in Processes, Peek(p)
  PROVE  CompensationInv'
<1>1. h[p].pc # "idle" /\ Quiet /\ (Finish(p, "ack") \/ Goto(p, "recover"))
  BY DEF Peek
<1> QED
  BY <1>1, FinishKeeps, GotoKeeps DEF Plain

\* The provider answers what is true of the request, or that it does not know
LEMMA CallKeeps ==
  ASSUME CompensationInv, NEW p \in Processes, Call(p)
  PROVE  CompensationInv'
<1>1. PICK fate, outcome :
        /\ fate \in {"LANDED", "DROPPED"} /\ outcome \in Evidence(fate)
        /\ h[p].pc = "call"
        /\ landed' = (landed \/ fate = "LANDED")
        /\ Become(p, [h[p] EXCEPT !.pc = "outcome", !.out = outcome])
        /\ UNCHANGED <<rows, queue, actions, crashes>>
  BY DEF Call
<1>2. PICK r : r = [h[p] EXCEPT !.pc = "outcome", !.out = outcome]
  OBVIOUS
<1>3. h[p] \in Handlers /\ Fits(p, h[p]) /\ RowTypes /\ SideTypes
  BY HandlerOf
<1>4. outcome \in Outcomes /\ (outcome = "APPLIED" => fate = "LANDED")
  BY <1>1 DEF Evidence, Outcomes
<1>5. /\ r \in Handlers /\ r.pc = "outcome" /\ r.ns = h[p].ns /\ r.ver = h[p].ver
      /\ r.num = h[p].num /\ r.out = outcome /\ r.old = h[p].old
  BY <1>2, <1>3, <1>4 DEF Handlers, PCs, AttemptStates
<1>6. UNCHANGED <<op, comp, attempts, verifs, used, outbox, queue, actions, crashes>>
  BY <1>1 DEF rows
<1>7. outcome = "APPLIED" => landed'
  BY <1>1, <1>4
<1>8. Fits(p, r)'
  BY <1>1, <1>3, <1>4, <1>5, <1>6, <1>7
     DEF Fits, FitsName, FitsAttempt, FitsVerification, Deciding
<1>9. h' = [h EXCEPT ![p] = r]
  BY <1>1, <1>2 DEF Become
<1>10. landed' \in BOOLEAN /\ (landed => landed')
  BY <1>1, <1>3 DEF SideTypes
<1>11. queue' \in [row : 0..Len(outbox), tries : 0..MaxDeliveries, done : BOOLEAN]
       /\ crashes' \in 0..MaxFaults
  BY <1>3, <1>6 DEF SideTypes
<1> QED
  BY <1>1, <1>5, <1>6, <1>8, <1>9, <1>10, <1>11, QuietKeeps

LEMMA RecoverKeeps ==
  ASSUME CompensationInv, NEW p \in Processes, Recover(p)
  PROVE  CompensationInv'
<1>1. h[p].pc # "idle" /\ Quiet
  BY DEF Recover
<1>2. PICK r : r = AtVersion(p, "recovering", op.version)
  OBVIOUS
<1>3. PICK s : s = AtVersion(p, "unknown", op.version)
  OBVIOUS
<1>4. \/ h' = [h EXCEPT ![p] = r]
      \/ op.state = "COMPENSATION_UNKNOWN" /\ h' = [h EXCEPT ![p] = s]
      \/ Finish(p, "ack")
  BY <1>2, <1>3 DEF Recover, Become, AtVersion
<1>5. CASE h' = [h EXCEPT ![p] = r]
  <2>1. r \in Handlers /\ r.pc = "recovering" /\ r.ns = h[p].ns /\ r.ver = op.version
    <3>1. "recovering" \in PCs
      BY DEF PCs
    <3>2. Posted(p, "recovering", op.version, r)
      BY <1>2, <3>1, HandlerOf, StageAtVersion
    <3> QED
      BY <3>2 DEF Posted
  <2>2. r.ver <= op.version
    BY <2>1, HandlerOf
  <2>3. r.pc \in Plain
    BY <2>1 DEF Plain
  <2> QED
    BY <1>1, <1>5, <2>1, <2>2, <2>3, LightKeeps
<1>6. CASE op.state = "COMPENSATION_UNKNOWN" /\ h' = [h EXCEPT ![p] = s]
  <2>1. s \in Handlers /\ s.pc = "unknown" /\ s.ns = h[p].ns /\ s.ver = op.version
    <3>1. "unknown" \in PCs
      BY DEF PCs
    <3>2. Posted(p, "unknown", op.version, s)
      BY <1>3, <3>1, HandlerOf, StageAtVersion
    <3> QED
      BY <3>2 DEF Posted
  <2>2. attempts # <<>>
    <3>1. Begun /\ RowsAgree /\ RowTypes
      BY DEF CompensationInv, RowsInv
    <3>2. comp.state # NoRow
      BY <1>1, RowExists DEF CompensationStates, NoRow
    <3>3. ParentState[comp.state] = op.state
      BY <1>6, <3>1, <3>2 DEF RowsAgree
    <3>4. comp.state = "UNKNOWN"
      BY <1>6, <3>1, <3>2, <3>3, RowOfParent
    <3> QED
      BY <3>1, <3>2, <3>4 DEF Begun, NoRow
  <2>3. Fits(p, h[p]) /\ op.version \in Nat
    BY HandlerOf
  <2>4. FitsName(p, s)
    BY <1>1, <2>1, <2>3 DEF Fits, FitsName
  <2>5. Fits(p, s)
    BY <1>6, <2>1, <2>2, <2>3, <2>4 DEF Fits, FitsAttempt, FitsVerification, Deciding
  <2> QED
    BY <1>1, <1>6, <2>1, <2>5, StepKeeps
<1>7. CASE Finish(p, "ack")
  BY <1>1, <1>7, FinishKeeps
<1> QED
  BY <1>4, <1>5, <1>6, <1>7

LEMMA RecoveringKeeps ==
  ASSUME CompensationInv, NEW p \in Processes, Recovering(p)
  PROVE  CompensationInv'
<1>1. h[p].pc # "idle" /\ Quiet
  BY DEF Recovering
<1>2. comp.state \in CompensationStates
  BY <1>1, RowExists
<1>3. PICK r : r = [h[p] EXCEPT !.pc = "inspect", !.cver = comp.version]
  OBVIOUS
<1>4. PICK s : s = [h[p] EXCEPT !.pc = "pending", !.cver = comp.version]
  OBVIOUS
<1>5. \/ Goto(p, "execute") \/ Finish(p, "ack")
      \/ comp.state = "EXECUTING" /\ h' = [h EXCEPT ![p] = r]
      \/ h' = [h EXCEPT ![p] = s]
  <2>1. CASE comp.state = "PENDING"
    BY <2>1 DEF Recovering
  <2>2. CASE comp.state = "EXECUTING"
    BY <1>3, <2>2 DEF Recovering, Become
  <2>3. CASE comp.state = "VERIFYING"
    BY <1>4, <2>3 DEF Recovering, Become
  <2>4. CASE comp.state \in {"SUCCEEDED", "FAILED", "UNKNOWN"}
    BY <2>4 DEF Recovering
  <2> QED
    BY <1>2, <2>1, <2>2, <2>3, <2>4 DEF CompensationStates
<1>6. h[p] \in Handlers /\ Fits(p, h[p]) /\ comp.version \in Nat
  BY HandlerOf
<1>7. CASE Goto(p, "execute")
  BY <1>1, <1>7, GotoKeeps DEF Plain
<1>8. CASE Finish(p, "ack")
  BY <1>1, <1>8, FinishKeeps
<1>9. CASE comp.state = "EXECUTING" /\ h' = [h EXCEPT ![p] = r]
  <2>1. r \in Handlers /\ r.pc = "inspect" /\ r.ns = h[p].ns /\ r.ver = h[p].ver
    BY <1>3, <1>6 DEF Handlers, PCs
  <2>2. attempts # <<>>
    BY <1>9 DEF CompensationInv, RowsInv, Begun, NoRow
  <2>3. Fits(p, r)
    BY <1>1, <1>6, <2>1, <2>2
       DEF Fits, FitsName, FitsAttempt, FitsVerification, Deciding
  <2> QED
    BY <1>1, <1>9, <2>1, <2>3, StepKeeps
<1>10. CASE h' = [h EXCEPT ![p] = s]
  <2>1. s \in Handlers /\ s.pc = "pending" /\ s.ns = h[p].ns /\ s.ver = h[p].ver
    BY <1>4, <1>6 DEF Handlers, PCs
  <2>2. s.ver <= op.version
    BY <1>6, <2>1 DEF Fits
  <2>3. s.pc \in Plain
    BY <2>1 DEF Plain
  <2> QED
    BY <1>1, <1>10, <2>1, <2>2, <2>3, LightKeeps
<1> QED
  BY <1>5, <1>7, <1>8, <1>9, <1>10

\* The latest attempt, once there is one
LEMMA LatestKnown ==
  ASSUME CompensationInv, attempts # <<>>
  PROVE  /\ Len(attempts) \in DOMAIN attempts /\ Latest \in AttemptRows
         /\ Latest.out \in AttemptStates
         /\ Latest.out = "APPLIED" => landed
<1>1. RowTypes /\ AttemptsFit
  BY DEF CompensationInv, RowsInv
<1>2. Len(attempts) \in DOMAIN attempts
  BY <1>1, Numbers
<1>3. Latest \in AttemptRows
  BY <1>1, <1>2, SeqElement DEF RowTypes, Latest
<1> QED
  BY <1>1, <1>2, <1>3 DEF AttemptRows, AttemptsFit, Latest

LEMMA InspectKeeps ==
  ASSUME CompensationInv, NEW p \in Processes, Inspect(p)
  PROVE  CompensationInv'
<1>1. h[p].pc = "inspect" /\ h[p].pc # "idle" /\ Quiet
  BY DEF Inspect
<1>2. h[p] \in Handlers /\ Fits(p, h[p])
  BY HandlerOf
<1>3. attempts # <<>>
  BY <1>1, <1>2 DEF Fits, FitsAttempt
<1>4. CASE Latest.out = "STARTED"
  BY <1>1, <1>4, GotoKeeps DEF Inspect, Plain
<1>5. CASE Latest.out # "STARTED"
  <2>1. PICK r : r = [h[p] EXCEPT !.pc = "outcome", !.num = Len(attempts),
                                  !.out = Latest.out, !.old = TRUE]
    OBVIOUS
  <2>2. h' = [h EXCEPT ![p] = r]
    BY <1>5, <2>1 DEF Inspect, Become
  <2>3. Latest.out \in Outcomes /\ (Latest.out = "APPLIED" => landed)
    BY <1>3, <1>5, LatestKnown DEF AttemptStates
  <2>4. Len(attempts) \in Nat
    BY Numbers, HandlerOf
  <2>5. /\ r \in Handlers /\ r.pc = "outcome" /\ r.ns = h[p].ns /\ r.ver = h[p].ver
        /\ r.out = Latest.out /\ r.old = TRUE
    BY <1>2, <2>1, <2>3, <2>4 DEF Handlers, PCs, AttemptStates
  <2>6. Fits(p, r)
    BY <1>1, <1>2, <2>3, <2>5
       DEF Fits, FitsName, FitsAttempt, FitsVerification, Deciding
  <2> QED
    BY <1>1, <2>2, <2>5, <2>6, StepKeeps
<1> QED
  BY <1>4, <1>5

LEMMA PendingKeeps ==
  ASSUME CompensationInv, NEW p \in Processes, Pending(p)
  PROVE  CompensationInv'
<1>1. h[p].pc # "idle" /\ Quiet
  BY DEF Pending
<1>2. h[p] \in Handlers /\ Fits(p, h[p]) /\ RowTypes
  BY HandlerOf
<1>3. PICK r : r = [h[p] EXCEPT !.pc = "gather", !.vid = Len(verifs),
                                !.res = verifs[Len(verifs)].result, !.old = TRUE]
  OBVIOUS
<1>4. \/ Goto(p, "find") \/ Finish(p, "ack")
      \/ PendingVerifications = {} /\ verifs # <<>> /\ h' = [h EXCEPT ![p] = r]
  <2>1. CASE PendingVerifications # {}
    BY <2>1 DEF Pending
  <2>2. CASE PendingVerifications = {} /\ verifs # <<>>
    BY <1>3, <2>2 DEF Pending, Become
  <2>3. CASE verifs = <<>>
    <3>1. DOMAIN verifs = {}
      BY <1>2, <2>3, Numbers
    <3>2. PendingVerifications = {}
      BY <3>1 DEF PendingVerifications
    <3> QED
      BY <2>3, <3>2 DEF Pending
  <2> QED
    BY <2>1, <2>2, <2>3
<1>5. CASE Goto(p, "find")
  BY <1>1, <1>5, GotoKeeps DEF Plain
<1>6. CASE Finish(p, "ack")
  BY <1>1, <1>6, FinishKeeps
<1>7. CASE PendingVerifications = {} /\ verifs # <<>> /\ h' = [h EXCEPT ![p] = r]
  <2>1. Len(verifs) \in DOMAIN verifs /\ Len(verifs) \in Nat
    BY <1>2, <1>7, Numbers
  <2>2. verifs[Len(verifs)] \in VerifRows
    BY <1>2, <2>1, SeqElement DEF RowTypes
  <2>3. verifs[Len(verifs)].result # None
    BY <1>7, <2>1 DEF PendingVerifications
  <2>4. verifs[Len(verifs)].result \in VerificationResults
    BY <2>2, <2>3 DEF VerifRows
  <2>5. verifs[Len(verifs)].result = "APPLIED" => landed
    BY <2>1 DEF CompensationInv, RowsInv, VerifsFit
  <2>6. /\ r \in Handlers /\ r.pc = "gather" /\ r.ns = h[p].ns /\ r.ver = h[p].ver
        /\ r.vid = Len(verifs) /\ r.res = verifs[Len(verifs)].result /\ r.old = TRUE
    BY <1>2, <1>3, <2>1, <2>4 DEF Handlers, PCs
  <2>7. Fits(p, r)
    BY <1>1, <1>2, <2>1, <2>4, <2>5, <2>6
       DEF Fits, FitsName, FitsAttempt, FitsVerification, Deciding
  <2> QED
    BY <1>1, <1>7, <2>6, <2>7, StepKeeps
<1> QED
  BY <1>4, <1>5, <1>6, <1>7

LEMMA LastKnown ==
  ASSUME NEW S, \E last \in S : \A other \in S : other <= last
  PROVE  LastOf(S) \in S
<1>1. LastOf(S) = CHOOSE i \in S : \A j \in S : j <= i
  BY DEF LastOf
<1>2. \E i : i \in S /\ \A j \in S : j <= i
  OBVIOUS
<1> QED
  BY <1>1, <1>2

LEMMA FindKeeps ==
  ASSUME CompensationInv, NEW p \in Processes, Find(p)
  PROVE  CompensationInv'
<1>1. h[p].pc # "idle" /\ Quiet
  BY DEF Find
<1>2. h[p] \in Handlers /\ Fits(p, h[p]) /\ RowTypes
  BY HandlerOf
<1>3. CASE PendingVerifications = {}
  BY <1>1, <1>3, FinishKeeps DEF Find
<1>4. CASE PendingVerifications # {}
  <2>1. PICK r : r = [h[p] EXCEPT !.pc = "verify", !.vid = LastOf(PendingVerifications)]
    OBVIOUS
  <2>2. h' = [h EXCEPT ![p] = r]
    BY <1>4, <2>1 DEF Find, Become
  <2>3. DOMAIN verifs = 1..Len(verifs) /\ Len(verifs) \in Nat
    BY <1>2, Numbers
  <2>4. PendingVerifications \in SUBSET (1..Len(verifs))
    BY <2>3 DEF PendingVerifications
  <2>5. \E last \in PendingVerifications : \A other \in PendingVerifications : other <= last
    BY <1>4, <2>3, <2>4, GreatestHit
  <2>6. LastOf(PendingVerifications) \in PendingVerifications
    <3>1. PICK S : S = PendingVerifications
      OBVIOUS
    <3>2. \E last \in S : \A other \in S : other <= last
      BY <2>5, <3>1
    <3>3. LastOf(S) \in S
      BY <3>2, LastKnown
    <3>4. LastOf(S) = LastOf(PendingVerifications)
      BY <3>1
    <3> QED
      BY <3>1, <3>3, <3>4
  <2>7. PICK last : last = LastOf(PendingVerifications)
    OBVIOUS
  <2>8. /\ r \in Handlers /\ r.pc = "verify" /\ r.ns = h[p].ns /\ r.ver = h[p].ver
        /\ r.vid \in DOMAIN verifs
    <3>1. last \in 1..Len(verifs)
      <4>1. last \in PendingVerifications
        BY <2>6, <2>7
      <4> QED
        BY <2>4, <4>1
    <3>2. last \in DOMAIN verifs /\ last \in Nat
      BY <2>3, <3>1
    <3>3. r = [h[p] EXCEPT !.pc = "verify", !.vid = last]
      BY <2>1, <2>7
    <3> QED
      BY <1>2, <3>2, <3>3 DEF Handlers, PCs
  <2>9. Fits(p, r)
    BY <1>1, <1>2, <2>8
       DEF Fits, FitsName, FitsAttempt, FitsVerification, Deciding
  <2> QED
    BY <1>1, <2>2, <2>8, <2>9, StepKeeps
<1> QED
  BY <1>3, <1>4

\* The provider answers what is true now, or that it cannot tell
LEMMA VerifyKeeps ==
  ASSUME CompensationInv, NEW p \in Processes, Verify(p)
  PROVE  CompensationInv'
<1>1. h[p].pc = "verify" /\ h[p].pc # "idle" /\ Quiet
  BY DEF Verify
<1>2. h[p] \in Handlers /\ Fits(p, h[p]) /\ SideTypes
  BY HandlerOf
<1>3. PICK result \in {IF landed THEN "APPLIED" ELSE "NOT_APPLIED", "UNKNOWN", "UNSUPPORTED"} :
        h' = [h EXCEPT ![p] = [h[p] EXCEPT !.pc = "gather", !.res = result]]
  BY DEF Verify, Become
<1>4. PICK r : r = [h[p] EXCEPT !.pc = "gather", !.res = result]
  OBVIOUS
<1>5. result \in VerificationResults /\ (result = "APPLIED" => landed)
  BY <1>2 DEF VerificationResults, Outcomes, SideTypes
<1>6. /\ r \in Handlers /\ r.pc = "gather" /\ r.ns = h[p].ns /\ r.ver = h[p].ver
      /\ r.vid = h[p].vid /\ r.res = result
  BY <1>2, <1>4, <1>5 DEF Handlers, PCs
<1>7. Fits(p, r)
  BY <1>1, <1>2, <1>5, <1>6
     DEF Fits, FitsName, FitsAttempt, FitsVerification, Deciding
<1> QED
  BY <1>1, <1>3, <1>4, <1>6, <1>7, StepKeeps

\* A verification is one of an attempt, so there is one
LEMMA RequestKnown ==
  ASSUME CompensationInv, NEW i \in DOMAIN verifs
  PROVE  /\ attempts # <<>> /\ verifs[i] \in VerifRows /\ i \in Nat
         /\ verifs[i].attempt \in DOMAIN attempts
<1>1. RowTypes
  BY DEF CompensationInv, RowsInv
<1>2. verifs[i] \in VerifRows /\ i \in Nat /\ verifs[i].attempt \in DOMAIN attempts
  BY <1>1, SeqElement DEF RowTypes
<1>3. attempts # <<>>
  BY <1>1, <1>2, Numbers
<1> QED
  BY <1>2, <1>3

LEMMA GatherKeeps ==
  ASSUME CompensationInv, NEW p \in Processes, Gather(p)
  PROVE  CompensationInv'
<1> DEFINE settled == (DOMAIN verifs \ PendingVerifications) \union {h[p].vid}
<1>1. h[p].pc = "gather" /\ h[p].pc # "idle" /\ Quiet
  BY DEF Gather
<1>2. h[p] \in Handlers /\ Fits(p, h[p]) /\ RowTypes
  BY HandlerOf
<1>3. h[p].vid \in DOMAIN verifs /\ h[p].res \in VerificationResults
      /\ (h[p].res = "APPLIED" => landed)
  BY <1>1, <1>2 DEF Fits, FitsVerification
<1>4. attempts # <<>>
  BY <1>3, RequestKnown
<1>5. Latest.out \in AttemptStates
  BY <1>4, LatestKnown
<1>6. Cardinality(settled) \in Nat
  <2>1. DOMAIN verifs = 1..Len(verifs) /\ Len(verifs) \in Nat
    BY <1>2, Numbers
  <2>2. IsFiniteSet(DOMAIN verifs)
    BY <2>1, FS_Interval
  <2>3. settled \subseteq DOMAIN verifs
    BY <1>3
  <2>4. IsFiniteSet(settled)
    BY <2>2, <2>3, FS_Subset
  <2> QED
    BY <2>4, FS_CardinalityType
<1>7. PICK cnt : cnt = Cardinality(settled)
  OBVIOUS
<1>8. PICK r : r = [h[p] EXCEPT !.pc = "conclude", !.num = Len(attempts),
                                !.out = Latest.out, !.cnt = cnt]
  OBVIOUS
<1>9. h' = [h EXCEPT ![p] = r]
  BY <1>7, <1>8 DEF Gather, Become
<1>10. cnt \in Nat /\ Len(attempts) \in Nat
  BY <1>2, <1>6, <1>7, Numbers
<1>11. /\ r \in Handlers /\ r.pc = "conclude" /\ r.ns = h[p].ns /\ r.ver = h[p].ver
       /\ r.vid = h[p].vid /\ r.res = h[p].res /\ r.out = Latest.out
  BY <1>2, <1>5, <1>8, <1>10 DEF Handlers, PCs
<1>12. Fits(p, r)
  BY <1>1, <1>2, <1>3, <1>5, <1>11
     DEF Fits, FitsName, FitsAttempt, FitsVerification, Deciding
<1> QED
  BY <1>1, <1>9, <1>11, <1>12, StepKeeps

\* What a retry or another verification is decided on is read in one state
LEMMA UnknownKeeps ==
  ASSUME CompensationInv, NEW p \in Processes, Unknown(p)
  PROVE  CompensationInv'
<1>1. h[p].pc = "unknown" /\ h[p].pc # "idle" /\ Quiet
  BY DEF Unknown
<1>2. h[p] \in Handlers /\ Fits(p, h[p])
  BY HandlerOf
<1>3. attempts # <<>>
      /\ (h[p].ver = op.version => op.state = "COMPENSATION_UNKNOWN")
  BY <1>1, <1>2 DEF Fits, FitsAttempt, Deciding
<1>4. PICK pc : pc = IF Descriptor.verifiable THEN "restart" ELSE "weigh"
  OBVIOUS
<1>5. PICK r : r = [h[p] EXCEPT !.pc = pc, !.num = Len(attempts) + 1, !.out = Latest.out]
  OBVIOUS
<1>6. h' = [h EXCEPT ![p] = r]
  BY <1>4, <1>5 DEF Unknown, Become
<1>7. Len(attempts) + 1 \in Nat /\ Latest.out \in AttemptStates
  BY <1>3, Numbers, HandlerOf, LatestKnown
<1>8. pc \in {"restart", "weigh"} /\ (pc = "weigh" => ~Descriptor.verifiable)
  BY <1>4
<1>9. /\ r \in Handlers /\ r.pc = pc /\ r.ns = h[p].ns /\ r.ver = h[p].ver
      /\ r.num = Len(attempts) + 1 /\ r.out = Latest.out
  BY <1>2, <1>5, <1>7, <1>8 DEF Handlers, PCs
<1>10. FitsName(p, r)
  BY <1>1, <1>2, <1>9 DEF Fits, FitsName
<1>11. FitsAttempt(p, r)
  BY <1>3, <1>7, <1>8, <1>9 DEF FitsAttempt, Deciding
<1>12. FitsVerification(r) /\ r.pc # "escalate"
  BY <1>8, <1>9 DEF FitsVerification
<1>13. Fits(p, r)
  BY <1>2, <1>9, <1>10, <1>11, <1>12 DEF Fits
<1> QED
  BY <1>1, <1>6, <1>9, <1>13, StepKeeps

LEMMA RejoinKeeps ==
  ASSUME CompensationInv, NEW p \in Processes, Rejoin(p)
  PROVE  CompensationInv'
<1>1. h[p].pc # "idle" /\ Quiet
  BY DEF Rejoin
<1>2. PICK r : r = AtVersion(p, "recover", op.version)
  OBVIOUS
<1>3. h' = [h EXCEPT ![p] = r]
  BY <1>2 DEF Rejoin, Become, AtVersion
<1>4. "recover" \in PCs
  BY DEF PCs
<1>5. Posted(p, "recover", op.version, r)
  BY <1>2, <1>4, HandlerOf, StageAtVersion
<1>6. r \in Handlers /\ r.pc = "recover" /\ r.ns = h[p].ns /\ r.ver = op.version
  BY <1>5 DEF Posted
<1>7. r.ver <= op.version
  BY <1>6, HandlerOf
<1>8. r.pc \in Plain
  BY <1>6 DEF Plain
<1> QED
  BY <1>1, <1>3, <1>6, <1>7, <1>8, LightKeeps

-----------------------------------------------------------------------------
(***************************************************************************)
(* The broker, the ends of handlers, and what an operator asks for        *)
(***************************************************************************)
LEMMA DeliverKeeps ==
  ASSUME CompensationInv, NEW w \in Workers, NEW e \in DOMAIN outbox, Deliver(w, e)
  PROVE  CompensationInv'
<1> DEFINE tries == IF e = queue.row THEN queue.tries + 1 ELSE 1
<1>1. w \in Processes
  BY DEF Processes
<1>2. RowTypes /\ SideTypes /\ op.version \in Nat
  BY <1>1, HandlerOf
<1>3. e \in 1..Len(outbox) /\ e \in Nat /\ Len(outbox) \in Nat
  BY <1>2, SeqDomain DEF RowTypes
<1>4. tries \in 1..MaxDeliveries
  <2>1. MaxDeliveries \in Nat \ {0}
    BY CompensationAssumption
  <2>2. queue.tries \in 0..MaxDeliveries
    BY <1>2 DEF SideTypes
  <2>3. e = queue.row => queue.tries < MaxDeliveries
    BY <1>2, <1>3 DEF Deliver, SideTypes
  <2> QED
    BY <2>1, <2>2, <2>3
<1>5. PICK n : n = tries
  OBVIOUS
<1>6. queue' = [row |-> e, tries |-> n, done |-> FALSE]
  BY <1>5 DEF Deliver
<1>7. PICK r : r = [Idle EXCEPT !.ns = <<"message", e>>, !.n = n,
                                !.pc = "execute", !.ver = op.version]
  OBVIOUS
<1>8. PICK s : s = [Idle EXCEPT !.ns = <<"message", e>>, !.n = n, !.pc = "ack"]
  OBVIOUS
<1>9. h' = [h EXCEPT ![w] = r] \/ h' = [h EXCEPT ![w] = s]
  BY <1>5, <1>7, <1>8 DEF Deliver, Become
<1>10. n \in Nat /\ n \in 0..MaxDeliveries
  BY <1>4, <1>5
<1> HIDE DEF tries
<1>11. <<"message", e>> \in Namespaces
  BY <1>3 DEF Namespaces
<1>12. /\ r \in Handlers /\ r.pc = "execute" /\ r.ns = <<"message", e>> /\ r.ver = op.version
       /\ s \in Handlers /\ s.pc = "ack" /\ s.ns = <<"message", e>> /\ s.ver = 0
  BY <1>2, <1>7, <1>8, <1>10, <1>11, IdleKnown DEF Handlers, PCs
<1>13. comp.state # NoRow
  <2>1. outbox # <<>>
    BY <1>2, <1>3, SeqDomain DEF RowTypes
  <2> QED
    BY <2>1 DEF CompensationInv, RowsInv, Begun
<1>14. w \notin Operators
  BY CompensationAssumption
<1>15. ASSUME NEW k \in {r, s}
       PROVE  Fits(w, k)
  <2>1. k.pc \in Plain /\ k.ns = <<"message", e>> /\ k.ver <= op.version
    BY <1>2, <1>12 DEF Plain
  <2>2. FitsName(w, k)
    BY <1>11, <1>13, <1>14, <2>1 DEF FitsName
  <2> QED
    BY <2>1, <2>2 DEF Fits, FitsAttempt, FitsVerification, Plain, Deciding
<1>16. UNCHANGED <<op, comp, attempts, verifs, used, outbox, landed, actions, crashes>>
  BY DEF Deliver, rows
<1>17. Fits(w, r)' /\ Fits(w, s)'
  BY <1>15, <1>16, FitsRead
<1>18. queue' \in [row : 0..Len(outbox), tries : 0..MaxDeliveries, done : BOOLEAN]
  BY <1>3, <1>6, <1>10
<1>19. landed' \in BOOLEAN /\ (landed => landed') /\ crashes' \in 0..MaxFaults
  BY <1>2, <1>16 DEF SideTypes
<1>20. CASE h' = [h EXCEPT ![w] = r]
  BY <1>1, <1>12, <1>14, <1>16, <1>17, <1>18, <1>19, <1>20, QuietKeeps
<1>21. CASE h' = [h EXCEPT ![w] = s]
  BY <1>1, <1>12, <1>14, <1>16, <1>17, <1>18, <1>19, <1>21, QuietKeeps
<1> QED
  BY <1>9, <1>20, <1>21

\* A process without a handler knows nothing
LEMMA IdleFits ==
  ASSUME CompensationInv, NEW p \in Processes
  PROVE  Fits(p, Idle)
<1>1. op.version \in Nat
  BY HandlerOf
<1>2. FitsName(p, Idle)
  BY IdleKnown DEF FitsName
<1> QED
  BY <1>1, <1>2, IdleKnown DEF Fits, FitsAttempt, FitsVerification, Deciding

LEMMA EndKeeps ==
  ASSUME CompensationInv, UNCHANGED <<rows, landed, actions>>,
         queue' \in [row : 0..Len(outbox), tries : 0..MaxDeliveries, done : BOOLEAN],
         crashes' \in 0..MaxFaults, NEW p \in Processes, Become(p, Idle)
  PROVE  CompensationInv'
<1>1. UNCHANGED <<op, comp, attempts, verifs, used, outbox, landed, actions>>
  BY DEF rows
<1>2. Fits(p, Idle)
  BY IdleFits
<1>3. Fits(p, Idle)'
  <2>1. PICK r : r = Idle
    OBVIOUS
  <2>2. Fits(p, r)'
    BY <1>1, <1>2, <2>1, FitsRead
  <2> QED
    BY <2>1, <2>2
<1>4. h' = [h EXCEPT ![p] = Idle]
  BY DEF Become
<1>5. landed' \in BOOLEAN /\ (landed => landed')
  BY <1>1 DEF CompensationInv, SideTypes
<1> QED
  BY <1>1, <1>3, <1>4, <1>5, IdleKnown, QuietKeeps

LEMMA ReplyKeeps ==
  ASSUME CompensationInv, NEW w \in Workers, Reply(w)
  PROVE  CompensationInv'
<1>1. w \in Processes
  BY DEF Processes
<1>2. SideTypes
  BY DEF CompensationInv
<1>3. UNCHANGED <<rows, landed, actions, crashes>> /\ Become(w, Idle)
  BY DEF Reply
<1>4. queue' = [queue EXCEPT !.done = TRUE] \/ queue' = queue
  BY DEF Reply
<1>5. queue' \in [row : 0..Len(outbox), tries : 0..MaxDeliveries, done : BOOLEAN]
  BY <1>2, <1>4 DEF SideTypes
<1>6. crashes' \in 0..MaxFaults
  BY <1>2, <1>3 DEF SideTypes
<1> QED
  BY <1>1, <1>3, <1>5, <1>6, EndKeeps

\* Republished rows are counted by a number
LEMMA ReplaysFinite ==
  ASSUME outbox \in Seq(Lines)
  PROVE  Cardinality({e \in DOMAIN outbox : outbox[e].replay}) \in Nat
<1> DEFINE replays == {e \in DOMAIN outbox : outbox[e].replay}
<1>1. DOMAIN outbox = 1..Len(outbox) /\ Len(outbox) \in Nat
  BY SeqDomain
<1>2. IsFiniteSet(DOMAIN outbox)
  BY <1>1, FS_Interval
<1>3. replays \subseteq DOMAIN outbox
  OBVIOUS
<1>4. IsFiniteSet(replays)
  BY <1>2, <1>3, FS_Subset
<1> QED
  BY <1>4, FS_CardinalityType

LEMMA CrashKeeps ==
  ASSUME CompensationInv, NEW p \in Processes, Crash(p)
  PROVE  CompensationInv'
<1>1. RowTypes /\ SideTypes
  BY HandlerOf
<1>2. /\ Faults < MaxFaults /\ crashes' = crashes + 1
      /\ UNCHANGED <<rows, queue, landed, actions>> /\ Become(p, Idle)
  BY DEF Crash
<1>3. crashes' \in 0..MaxFaults
  <2>1. PICK c : c = Cardinality({e \in DOMAIN outbox : outbox[e].replay})
    OBVIOUS
  <2>2. c \in Nat
    BY <1>1, <2>1, ReplaysFinite DEF RowTypes
  <2>3. crashes + c < MaxFaults
    BY <1>2, <2>1 DEF Faults
  <2>4. crashes \in Nat /\ MaxFaults \in Nat
    BY <1>1, CompensationAssumption DEF SideTypes
  <2> QED
    BY <1>2, <2>2, <2>3, <2>4
<1>4. queue' \in [row : 0..Len(outbox), tries : 0..MaxDeliveries, done : BOOLEAN]
  BY <1>1, <1>2 DEF SideTypes
<1> QED
  BY <1>2, <1>3, <1>4, EndKeeps

\* An operator's action brings an action key that no other has used
LEMMA AskKeeps ==
  ASSUME CompensationInv, NEW o \in Operators, h[o].pc = "idle", actions < MaxActions,
         actions' = actions + 1,
         UNCHANGED <<op, comp, attempts, verifs, used, outbox, queue, landed, crashes>>,
         op.state \in Working,
         NEW r \in Handlers, h' = [h EXCEPT ![o] = r], r.ns = <<"action", actions + 1>>,
         r.ver = op.version,
         \/ r.pc = "reclaim" /\ op.state = "COMPENSATION_FAILED" /\ r.num = Len(attempts) + 1
         \/ r.pc = "escalate" /\ r.st \in Working
         \/ r.pc = "recover"
  PROVE  CompensationInv'
<1>1. o \in Processes
  BY DEF Processes
<1>2. RowTypes /\ SideTypes /\ op.version \in Nat /\ HandlersFit /\ Distinct /\ RowsInv
  BY <1>1, HandlerOf DEF CompensationInv
<1>3. actions \in Nat /\ actions' \in Nat /\ actions <= actions' /\ actions' \in 0..MaxActions
  BY <1>2, CompensationAssumption DEF SideTypes
<1>4. comp.state # NoRow
  BY <1>2 DEF RowsInv, Begun, Working, Open, StartKind
<1>5. o \notin Workers
  BY CompensationAssumption
<1>6. RowsInv'
  <2>1. UNCHANGED rows
    BY DEF rows
  <2> QED
    BY <1>3, <2>1, RowsKept
<1>7. SideTypes'
  <2>1. h' \in [Processes -> Handlers]
    BY <1>1, <1>2 DEF SideTypes
  <2> QED
    BY <1>2, <1>3, <2>1 DEF SideTypes
<1>8. r.ns \in Namespaces /\ r.ns[1] = "action" /\ r.ns[2] = actions + 1
  BY <1>3 DEF Namespaces
<1>9. \A i \in DOMAIN attempts : attempts[i].by # r.ns
  <2>1. SUFFICES ASSUME NEW i \in DOMAIN attempts, attempts[i].by = r.ns
                 PROVE  FALSE
    OBVIOUS
  <2>2. attempts[i].by[2] <= actions
    BY <1>2, <1>8, <2>1 DEF RowsInv, AttemptsFit
  <2> QED
    BY <1>3, <1>8, <2>1, <2>2
<1>10. FitsName(o, r)'
  BY <1>3, <1>4, <1>5, <1>8 DEF FitsName
<1>11. Fits(o, r)'
  BY <1>2, <1>9, <1>10 DEF Fits, FitsAttempt, FitsVerification, Deciding
<1>12. h'[o] = r /\ \A q \in Processes : q # o => h'[q] = h[q]
  BY <1>1, <1>2 DEF SideTypes
<1>13. \A q \in Processes : q # o => Fits(q, h[q])'
  <2>1. SUFFICES ASSUME NEW q \in Processes, q # o
                 PROVE  Fits(q, h[q])'
    OBVIOUS
  <2>2. PICK s \in Handlers : s = h[q]
    BY <1>2 DEF SideTypes
  <2>3. Fits(q, s)
    BY <1>2, <2>2 DEF HandlersFit
  <2>4. Grows(s.ns)
    <3>1. UNCHANGED rows
      BY DEF rows
    <3> QED
      BY <1>3, <3>1, RowsKept
  <2>5. Fits(q, s)'
    <3>1. RowTypes'
      BY <1>6 DEF RowsInv
    <3> QED
      BY <1>2, <1>7, <2>3, <2>4, <3>1, FitsKeeps
  <2>6. h'[q] = s
    BY <1>12, <2>1, <2>2
  <2> QED
    BY <2>5, <2>6 DEF Fits, FitsName, FitsAttempt, FitsVerification
<1>14. Fits(o, h[o])'
  BY <1>11, <1>12 DEF Fits, FitsName, FitsAttempt, FitsVerification
<1>15. HandlersFit'
  BY <1>13, <1>14 DEF HandlersFit
<1>16. \A q \in Operators : (q # o /\ h[q].pc # "idle") => h[q].ns # r.ns
  <2>1. SUFFICES ASSUME NEW q \in Operators, q # o, h[q].pc # "idle", h[q].ns = r.ns
                 PROVE  FALSE
    OBVIOUS
  <2>2. h[q].ns[2] <= actions
    BY <1>2, <2>1 DEF HandlersFit, Fits, FitsName, Processes
  <2> QED
    BY <1>3, <1>8, <2>1, <2>2
<1>17. Distinct'
  <2>1. Operators \subseteq Processes
    BY DEF Processes
  <2> QED
    BY <1>2, <1>12, <1>16, <2>1 DEF Distinct
<1> QED
  BY <1>6, <1>7, <1>15, <1>17 DEF CompensationInv

LEMMA AskRetryKeeps ==
  ASSUME CompensationInv, NEW o \in Operators, AskRetry(o)
  PROVE  CompensationInv'
<1>1. op.state = "COMPENSATION_FAILED" /\ h[o].pc = "idle" /\ actions < MaxActions
      /\ actions' = actions + 1
  BY DEF AskRetry, NextAction
<1>2. UNCHANGED <<op, comp, attempts, verifs, used, outbox, queue, landed, crashes>>
  BY DEF AskRetry, rows
<1>3. o \in Processes
  BY DEF Processes
<1>4. Len(attempts) + 1 \in Nat /\ op.version \in Nat /\ actions + 1 \in Nat
  <2>1. RowTypes /\ SideTypes
    BY <1>3, HandlerOf
  <2> QED
    BY <2>1, Numbers, ActionsKnown
<1>5. PICK t : t = [Idle EXCEPT !.pc = "reclaim", !.num = Len(attempts) + 1]
  OBVIOUS
<1>6. PICK r : r = [t EXCEPT !.ns = <<"action", actions + 1>>, !.ver = op.version]
  OBVIOUS
<1>7. h' = [h EXCEPT ![o] = r]
  BY <1>5, <1>6 DEF AskRetry, NextAction, Become
<1>8. <<"action", actions + 1>> \in Namespaces
  BY <1>4 DEF Namespaces
<1>9. t \in Handlers /\ t.pc = "reclaim" /\ t.num = Len(attempts) + 1
  BY <1>4, <1>5, IdleKnown DEF Handlers, PCs
<1>10. /\ r \in Handlers /\ r.pc = "reclaim" /\ r.num = Len(attempts) + 1
       /\ r.ns = <<"action", actions + 1>> /\ r.ver = op.version
  BY <1>4, <1>6, <1>8, <1>9 DEF Handlers
<1>11. op.state \in Working
  BY <1>1 DEF Working
<1> QED
  BY <1>1, <1>2, <1>7, <1>10, <1>11, AskKeeps

LEMMA AskEscalateKeeps ==
  ASSUME CompensationInv, NEW o \in Operators, AskEscalate(o)
  PROVE  CompensationInv'
<1>1. op.state \in Working /\ h[o].pc = "idle" /\ actions < MaxActions
      /\ actions' = actions + 1
  BY DEF AskEscalate, NextAction, Working, Open
<1>2. UNCHANGED <<op, comp, attempts, verifs, used, outbox, queue, landed, crashes>>
  BY DEF AskEscalate, rows
<1>3. o \in Processes
  BY DEF Processes
<1>4. op.state \in OperationStates /\ op.version \in Nat /\ actions + 1 \in Nat
  <2>1. RowTypes /\ SideTypes
    BY <1>3, HandlerOf
  <2> QED
    BY <2>1, Numbers, ActionsKnown
<1>5. PICK t : t = [Idle EXCEPT !.pc = "escalate", !.st = op.state]
  OBVIOUS
<1>6. PICK r : r = [t EXCEPT !.ns = <<"action", actions + 1>>, !.ver = op.version]
  OBVIOUS
<1>7. h' = [h EXCEPT ![o] = r]
  BY <1>5, <1>6 DEF AskEscalate, NextAction, Become
<1>8. <<"action", actions + 1>> \in Namespaces
  BY <1>4 DEF Namespaces
<1>9. t \in Handlers /\ t.pc = "escalate" /\ t.st = op.state
  BY <1>4, <1>5, IdleKnown DEF Handlers, PCs
<1>10. /\ r \in Handlers /\ r.pc = "escalate" /\ r.st = op.state
       /\ r.ns = <<"action", actions + 1>> /\ r.ver = op.version
  BY <1>4, <1>6, <1>8, <1>9 DEF Handlers
<1> QED
  BY <1>1, <1>2, <1>7, <1>10, AskKeeps

LEMMA AskRecoveryKeeps ==
  ASSUME CompensationInv, NEW o \in Operators, AskRecovery(o)
  PROVE  CompensationInv'
<1>1. op.state \in Working /\ h[o].pc = "idle" /\ actions < MaxActions
      /\ actions' = actions + 1
  BY DEF AskRecovery, NextAction, Working, Open
<1>2. UNCHANGED <<op, comp, attempts, verifs, used, outbox, queue, landed, crashes>>
  BY DEF AskRecovery, rows
<1>3. o \in Processes
  BY DEF Processes
<1>4. op.version \in Nat /\ actions + 1 \in Nat
  <2>1. RowTypes /\ SideTypes
    BY <1>3, HandlerOf
  <2> QED
    BY <2>1, Numbers, ActionsKnown
<1>5. PICK t : t = [Idle EXCEPT !.pc = "recover"]
  OBVIOUS
<1>6. PICK r : r = [t EXCEPT !.ns = <<"action", actions + 1>>, !.ver = op.version]
  OBVIOUS
<1>7. h' = [h EXCEPT ![o] = r]
  BY <1>5, <1>6 DEF AskRecovery, NextAction, Become
<1>8. <<"action", actions + 1>> \in Namespaces
  BY <1>4 DEF Namespaces
<1>9. t \in Handlers /\ t.pc = "recover"
  BY <1>5, IdleKnown DEF Handlers, PCs
<1>10. /\ r \in Handlers /\ r.pc = "recover"
       /\ r.ns = <<"action", actions + 1>> /\ r.ver = op.version
  BY <1>4, <1>6, <1>8, <1>9 DEF Handlers
<1> QED
  BY <1>1, <1>2, <1>7, <1>10, AskKeeps

-----------------------------------------------------------------------------
(***************************************************************************)
(* Writing rows                                                           *)
(***************************************************************************)

\* What a step does to the rows that the properties speak of
Journal ==
  \/ UNCHANGED <<op, comp, attempts, verifs, landed>>
  \/ \E p \in Processes : Attempted(p)
  \/ Requested
  \/ Moved

LEMMA QuietJournal ==
  ASSUME Quiet
  PROVE  Journal
BY DEF Quiet, rows, Journal

\* Handler p writes rows in one of the three ways
LEMMA Writes ==
  ASSUME CompensationInv, NEW p \in Processes, h[p].pc # "idle",
         Attempted(p) \/ Requested \/ Moved,
         NEW r \in Handlers, h' = [h EXCEPT ![p] = r],
         UNCHANGED <<queue, landed, actions, crashes>>, Len(outbox) <= Len(outbox'),
         After(p, r)
  PROVE  CompensationInv' /\ Journal
<1>1. RowsInv' /\ Grows(h[p].ns)
  BY AttemptedKeeps, RequestedKeeps, MovedKeeps
<1>2. CompensationInv'
  BY <1>1, WriteKeeps
<1> QED
  BY <1>2 DEF Journal

\* Handler p has written rows and is done
LEMMA WritesAndEnds ==
  ASSUME CompensationInv, NEW p \in Processes, h[p].pc # "idle", Requested \/ Moved,
         Finish(p, "ack"), UNCHANGED <<queue, landed, actions, crashes>>,
         Len(outbox) <= Len(outbox')
  PROVE  CompensationInv' /\ Journal
<1>1. PICK r \in Handlers : h' = [h EXCEPT ![p] = r] /\ Light(p, r) /\ r.ver = 0
  BY FinishMeans
<1>2. op'.version \in Nat
  BY DEF Requested, Moved, OpRows
<1>3. After(p, r)
  BY <1>1, <1>2 DEF After, Light
<1> QED
  BY <1>1, <1>3, Writes

\* Messages are added to the outbox
LEMMA EmitKnown ==
  ASSUME RowTypes, NEW commands \in Seq(Commands), NEW version \in Nat, Emit(commands, version)
  PROVE  outbox' \in Seq(Lines) /\ Len(outbox) <= Len(outbox')
<1> DEFINE added == [i \in DOMAIN commands |->
                       [cmd |-> commands[i], version |-> version, replay |-> FALSE]]
<1>1. outbox \in Seq(Lines) /\ Len(outbox) \in Nat
  BY SeqDomain DEF RowTypes
<1>2. DOMAIN commands = 1..Len(commands) /\ Len(commands) \in Nat
  BY SeqDomain
<1>3. \A i \in DOMAIN commands : commands[i] \in Commands
  BY SeqElement
<1>4. added \in [1..Len(commands) -> Lines]
  BY <1>2, <1>3 DEF Lines
<1>5. added \in Seq(Lines)
  BY <1>2, <1>4, SeqDef
<1>6. outbox' = outbox \o added
  BY DEF Emit
<1> HIDE DEF added
<1>7. outbox \o added \in Seq(Lines) /\ Len(outbox \o added) = Len(outbox) + Len(added)
  BY <1>1, <1>5, ConcatProperties
<1>8. Len(added) \in Nat
  BY <1>5, SeqDomain
<1> QED
  BY <1>1, <1>6, <1>7, <1>8

LEMMA EmitForKnown ==
  ASSUME RowTypes, NEW kind, EmitFor(kind)
  PROVE  outbox' \in Seq(Lines) /\ Len(outbox) <= Len(outbox')
<1>1. outbox \in Seq(Lines) /\ Len(outbox) \in Nat /\ op.version + 1 \in Nat
  BY SeqDomain, Numbers DEF RowTypes
<1>2. CASE OutboxCommand(kind) = NoCommand
  BY <1>1, <1>2 DEF EmitFor
<1>3. CASE OutboxCommand(kind) # NoCommand
  <2>1. PICK command : command = OutboxCommand(kind)
    OBVIOUS
  <2>2. command \in Commands
    BY <1>3, <2>1, CommandOfKind
  <2>3. <<command>> \in Seq(Commands)
    BY <2>2
  <2>4. Emit(<<command>>, op.version + 1)
    BY <1>3, <2>1 DEF EmitFor
  <2> QED
    BY <1>1, <2>3, <2>4, EmitKnown
<1> QED
  BY <1>2, <1>3

LEMMA IdKnown ==
  ASSUME CompensationInv, NEW p \in Processes, h[p].pc # "idle",
         NEW role \in Roles, NEW n \in Nat
  PROVE  Id(p, role, n) \in Identities
<1>1. h[p].ns \in Namespaces
  BY RowExists
<1> QED
  BY <1>1 DEF Id, Identities

\* Nothing is written of the attempts, or of the verifications
LEMMA AttemptsStay ==
  ASSUME CompensationInv, attempts' = attempts
  PROVE  SameAttempts
<1>1. attempts \in Seq(AttemptRows) /\ AttemptsFit
  BY DEF CompensationInv, RowsInv, RowTypes
<1> QED
  BY <1>1 DEF SameAttempts, AttemptsFit

LEMMA RequestsStay ==
  ASSUME CompensationInv, verifs' = verifs
  PROVE  SameRequests
<1>1. verifs \in Seq(VerifRows) /\ VerifsFit
  BY DEF CompensationInv, RowsInv, RowTypes
<1> QED
  BY <1>1 DEF SameRequests, VerifsFit

\* An attempt is completed with an outcome that is true, unless it has one
LEMMA CompleteKnown ==
  ASSUME CompensationInv, NEW num \in DOMAIN attempts, NEW outcome \in Outcomes,
         outcome = "APPLIED" => landed, attempts' = Complete(num, outcome)
  PROVE  /\ SameAttempts
         /\ attempts'[num].out = IF attempts[num].out = "STARTED" THEN outcome
                                 ELSE attempts[num].out
<1>1. attempts \in Seq(AttemptRows) /\ AttemptsFit
  BY DEF CompensationInv, RowsInv, RowTypes
<1>2. CASE attempts[num].out = "STARTED"
  <2>1. PICK e : e = [attempts[num] EXCEPT !.out = outcome]
    OBVIOUS
  <2>2. attempts' = [attempts EXCEPT ![num] = e]
    BY <1>2, <2>1 DEF Complete
  <2>3. attempts[num] \in AttemptRows
    BY <1>1, SeqElement
  <2>4. e \in AttemptRows /\ e.by = attempts[num].by /\ e.out = outcome
    BY <2>1, <2>3 DEF AttemptRows, AttemptStates
  <2>5. /\ attempts' \in Seq(AttemptRows) /\ Len(attempts') = Len(attempts)
        /\ attempts'[num] = e /\ \A j \in DOMAIN attempts : j # num => attempts'[j] = attempts[j]
    BY <1>1, <2>2, <2>4, SeqExcept
  <2>6. \A i \in DOMAIN attempts :
          /\ attempts'[i].by = attempts[i].by
          /\ attempts'[i].out = "APPLIED" => landed
          /\ attempts[i].out # "STARTED" => attempts'[i] = attempts[i]
    BY <1>1, <1>2, <2>4, <2>5 DEF AttemptsFit
  <2> QED
    BY <1>2, <2>4, <2>5, <2>6 DEF SameAttempts
<1>3. CASE attempts[num].out # "STARTED"
  <2>1. attempts' = attempts
    BY <1>3 DEF Complete
  <2> QED
    BY <1>3, <2>1, AttemptsStay
<1> QED
  BY <1>2, <1>3

\* A verification gets a result that is true, unless it has one
LEMMA SettleKnown ==
  ASSUME CompensationInv, NEW p \in Processes, h[p].pc = "conclude",
         verifs' = SettleVerification(p)
  PROVE  /\ SameRequests /\ h[p].vid \in DOMAIN verifs
         /\ verifs'[h[p].vid].result = IF verifs[h[p].vid].result = None THEN h[p].res
                                       ELSE verifs[h[p].vid].result
         /\ \A i \in DOMAIN verifs : i # h[p].vid => verifs'[i] = verifs[i]
<1>1. verifs \in Seq(VerifRows) /\ VerifsFit
  BY DEF CompensationInv, RowsInv, RowTypes
<1>2. PICK v : v = h[p].vid
  OBVIOUS
<1>3. PICK res : res = h[p].res
  OBVIOUS
<1>4. v \in DOMAIN verifs /\ res \in VerificationResults /\ (res = "APPLIED" => landed)
  BY <1>2, <1>3, HandlerOf DEF Fits, FitsVerification
<1>5. CASE verifs[v].result = None
  <2>1. PICK e : e = [verifs[v] EXCEPT !.result = res]
    OBVIOUS
  <2>2. verifs' = [verifs EXCEPT ![v] = e]
    BY <1>2, <1>3, <1>5, <2>1 DEF SettleVerification
  <2>3. verifs[v] \in VerifRows
    BY <1>1, <1>4, SeqElement
  <2>4. /\ e \in VerifRows /\ e.attempt = verifs[v].attempt
        /\ e.version = verifs[v].version /\ e.result = res
    BY <1>4, <2>1, <2>3 DEF VerifRows
  <2>5. /\ verifs' \in Seq(VerifRows) /\ Len(verifs') = Len(verifs)
        /\ verifs'[v] = e /\ \A j \in DOMAIN verifs : j # v => verifs'[j] = verifs[j]
    BY <1>1, <1>4, <2>2, <2>4, SeqExcept
  <2>6. \A i \in DOMAIN verifs :
          /\ verifs'[i].attempt = verifs[i].attempt /\ verifs'[i].version = verifs[i].version
          /\ verifs'[i].result = "APPLIED" => landed
          /\ verifs[i].result # None => verifs'[i] = verifs[i]
    BY <1>1, <1>4, <1>5, <2>4, <2>5 DEF VerifsFit
  <2>7. SameRequests
    BY <2>5, <2>6 DEF SameRequests
  <2> QED
    BY <1>2, <1>3, <1>4, <1>5, <2>4, <2>5, <2>7
<1>6. CASE verifs[v].result # None
  <2>1. verifs' = verifs
    BY <1>2, <1>6 DEF SettleVerification
  <2>2. SameRequests
    BY <2>1, RequestsStay
  <2> QED
    BY <1>2, <1>4, <1>6, <2>1, <2>2
<1> QED
  BY <1>5, <1>6

\* A handler that has claimed an attempt goes on to call the provider for it
Called(p, v, c, n) == [At(p, "call") EXCEPT !.ver = v, !.cver = c, !.num = n]
Calls(p, v, n, r) ==
  r \in Handlers /\ r.pc = "call" /\ r.ns = h[p].ns /\ r.ver = v /\ r.num = n /\ r.old = FALSE

LEMMA CalledKnown ==
  ASSUME CompensationInv, NEW p \in Processes, NEW v \in Nat, NEW c \in Nat, NEW n \in Nat,
         NEW r, r = Called(p, v, c, n)
  PROVE  Calls(p, v, n, r)
<1>1. PICK t : t = At(p, "call")
  OBVIOUS
<1>2. "call" \in PCs
  BY DEF PCs
<1>3. Stage(p, "call", t)
  BY <1>1, <1>2, StageKnown DEF CompensationInv
<1>4. t \in Handlers /\ t.pc = "call" /\ t.ns = h[p].ns /\ t.old = FALSE
  BY <1>3 DEF Stage
<1>5. r = [t EXCEPT !.ver = v, !.cver = c, !.num = n]
  BY <1>1 DEF Called
<1> QED
  BY <1>4, <1>5 DEF Calls, Handlers

LEMMA ClaimedAfter ==
  ASSUME CompensationInv, NEW p \in Processes, h[p].pc # "idle", attempts' = StartAttempt(p),
         NEW v \in Nat, v <= op'.version, NEW r, Calls(p, v, Len(attempts) + 1, r)
  PROVE  After(p, r)
<1>1. attempts \in Seq(AttemptRows) /\ h[p].ns \in Namespaces
  BY RowExists DEF CompensationInv, RowsInv, RowTypes
<1>2. PICK new : new = [by |-> h[p].ns, out |-> "STARTED"]
  OBVIOUS
<1>3. new \in AttemptRows /\ new.by = h[p].ns
  BY <1>1, <1>2 DEF AttemptRows, AttemptStates
<1>4. attempts' = Append(attempts, new)
  BY <1>2 DEF StartAttempt
<1>5. Len(attempts) \in Nat
  BY <1>1, SeqDomain
<1>6. DOMAIN attempts' = 1..(Len(attempts) + 1) /\ attempts'[Len(attempts) + 1] = new
  BY <1>1, <1>3, <1>4, SeqAppend
<1>7. Len(attempts) + 1 \in DOMAIN attempts'
  BY <1>5, <1>6
<1> QED
  BY <1>3, <1>6, <1>7 DEF After, Calls

-----------------------------------------------------------------------------
(***************************************************************************)
(* The handlers' units of work                                            *)
(***************************************************************************)
LEMMA ClaimKeeps ==
  ASSUME CompensationInv, NEW p \in Processes, Claim(p)
  PROVE  CompensationInv' /\ Journal
<1> DEFINE written == {Id(p, "claim", 0)}
           result == ProgressResult(h[p].ver, h[p].cver, comp.state = "EXECUTING",
                                    ClaimAdmitted(p), written)
<1>1. h[p].pc # "idle"
  BY DEF Claim
<1>2. /\ RowTypes /\ h[p].ver \in Nat /\ h[p].cver \in Nat /\ h[p].num \in Nat
      /\ op.version \in Nat /\ comp.version \in Nat
  BY HandlerOf
<1>3. /\ result \in {"APPLIED", "ALREADY_APPLIED"} =>
           op.version = h[p].ver /\ op.state = "COMPENSATING"
      /\ result = "APPLIED" => comp.version = h[p].cver /\ ClaimAdmitted(p)
      /\ result \in {"APPLIED", "ALREADY_APPLIED", "REJECTED", "CONFLICT", "DUPLICATE"}
  BY <1>2, ProgressMeans
<1>4. written \subseteq Identities
  <2>1. "claim" \in Roles
    BY DEF Roles
  <2>2. Id(p, "claim", 0) \in Identities
    BY <1>1, <2>1, IdKnown
  <2> QED
    BY <2>2
<1>5. CASE result = "APPLIED"
  <2>1. /\ Progress("EXECUTING") /\ attempts' = StartAttempt(p)
        /\ used' = used \union written
        /\ Become(p, [At(p, "call") EXCEPT !.ver = h[p].ver, !.num = h[p].num,
                                           !.cver = comp.version + 1])
        /\ UNCHANGED <<verifs, outbox, queue, landed, actions, crashes>>
    BY <1>5 DEF Claim
  <2>2. op.version = h[p].ver /\ op.state = "COMPENSATING" /\ comp.state = "PENDING"
        /\ h[p].num = Len(attempts) + 1
    BY <1>3, <1>5 DEF ClaimAdmitted
  <2>3. PICK t : t = At(p, "call")
    OBVIOUS
  <2>4. PICK v, n, c : v = h[p].ver /\ n = h[p].num /\ c = comp.version + 1
    OBVIOUS
  <2> PICK r : r = [t EXCEPT !.ver = v, !.num = n, !.cver = c]
    OBVIOUS
  <2>5. h' = [h EXCEPT ![p] = r]
    BY <2>1, <2>3, <2>4 DEF Become
  <2>6. Calls(p, h[p].ver, Len(attempts) + 1, r)
    <3>1. "call" \in PCs
      BY DEF PCs
    <3>2. Stage(p, "call", t)
      BY <2>3, <3>1, StageKnown DEF CompensationInv
    <3>3. t \in Handlers /\ t.pc = "call" /\ t.ns = h[p].ns /\ t.old = FALSE
      BY <3>2 DEF Stage
    <3>4. v \in Nat /\ n \in Nat /\ c \in Nat
      BY <1>2, <2>4
    <3>5. Calls(p, v, n, r)
      BY <3>3, <3>4 DEF Calls, Handlers
    <3> QED
      BY <2>2, <2>4, <3>5
  <2>7. op' = op /\ comp' = [state |-> "EXECUTING", version |-> comp.version + 1]
    BY <2>1 DEF Progress
  <2>8. After(p, r)
    BY <1>1, <1>2, <2>1, <2>2, <2>6, <2>7, ClaimedAfter
  <2>9. attempts = <<>> /\ Len(attempts) + 1 = 1
    BY <1>2, <2>2, Numbers DEF CompensationInv, RowsInv, Begun
  <2>10. ~(Len(attempts) + 1 > Cap)
    BY <2>9, CapKnown
  <2>11. SameRequests
    BY <2>1, RequestsStay
  <2>12. comp' \in CompRows /\ comp'.state = "EXECUTING" /\ comp.state # NoRow
    BY <1>2, <2>2, <2>7 DEF CompRows, CompensationStates, NoRow
  <2>13. used' \subseteq Identities /\ outbox' \in Seq(Lines)
         /\ Len(outbox) <= Len(outbox')
    BY <1>2, <1>4, <2>1, SeqDomain DEF RowTypes
  <2>14. op' \in OpRows /\ op.state \in Working
    BY <1>2, <2>2, <2>7 DEF RowTypes, Working, Open
  <2>15. Attempted(p)
    BY <2>1, <2>2, <2>7, <2>9, <2>10, <2>11, <2>12, <2>13, <2>14 DEF Attempted, StartAttempt
  <2>16. r \in Handlers
    BY <2>6 DEF Calls
  <2> QED
    BY <1>1, <2>1, <2>5, <2>8, <2>13, <2>15, <2>16, Writes
<1>6. CASE result = "ALREADY_APPLIED"
  <2>1. Finish(p, "again") /\ Quiet
    BY <1>6 DEF Claim
  <2> QED
    BY <1>1, <2>1, FinishKeeps, QuietJournal
<1>7. CASE result \in {"REJECTED", "CONFLICT", "DUPLICATE"}
  <2>1. Answer(p, result)
    BY <1>7 DEF Claim
  <2>2. Quiet
    BY <2>1 DEF Answer
  <2> HIDE DEF result
  <2> QED
    BY <1>1, <2>1, <2>2, AnswerKeeps, QuietJournal
<1> QED
  BY <1>3, <1>5, <1>6, <1>7

\* The journal, as it is, says why another attempt may be made
JustifiedNow ==
  \/ Latest.out = "NOT_APPLIED"
  \/ \E v \in DOMAIN verifs : /\ verifs[v].attempt = Len(attempts)
                              /\ verifs[v].result = "NOT_APPLIED"
  \/ ~Descriptor.verifiable /\ Descriptor.mode # "NONE"

RetryKinds == {"COMPENSATION_FAILED_RETRY", "COMPENSATION_UNKNOWN_RETRY"}

\* What the handler knows of the retry it asks for, if nothing has happened since
RetryFits(p, kind) ==
  (op.version = h[p].ver /\ op.state = Source(kind)) =>
    /\ h[p].num = Len(attempts) + 1
    /\ h[p].num > Cap => p \in Operators /\ \A i \in DOMAIN attempts : attempts[i].by # h[p].ns
    /\ JustifiedNow

\* A retry's transition, with its attempt or, when that is refused, without
LEMMA RetryWrites ==
  ASSUME CompensationInv, NEW p \in Processes, h[p].pc # "idle", NEW kind \in RetryKinds,
         op.version = h[p].ver, op.state = Source(kind), RetryFits(p, kind),
         NEW added \in Nat, NEW written, written \subseteq Identities,
         op' = [op EXCEPT !.state = Target(kind), !.version = @ + 1],
         comp' = [state |-> "EXECUTING", version |-> comp.version + added],
         used' = used \union written, EmitFor(kind), UNCHANGED <<verifs, landed, actions>>,
         \/ attempts' = StartAttempt(p)
         \/ attempts' = attempts /\ ~RetryClaimAdmitted(h[p].num)
  PROVE  /\ Attempted(p) \/ Moved
         /\ attempts' = StartAttempt(p) => Attempted(p)
         /\ Len(outbox) <= Len(outbox') /\ op'.version = op.version + 1
<1>1. /\ RowTypes /\ RowsAgree /\ Begun /\ AttemptsFit /\ op.version \in Nat
      /\ comp.version \in Nat
  BY HandlerOf DEF CompensationInv, RowsInv
<1>2. op.state \in {"COMPENSATION_FAILED", "COMPENSATION_UNKNOWN"}
      /\ Target(kind) = "COMPENSATING"
  BY CompensationEdges DEF RetryKinds
<1>3. comp.state # NoRow /\ comp.state \in {"FAILED", "UNKNOWN"}
  <2>1. comp.state # NoRow
    BY RowExists DEF CompensationStates, NoRow
  <2>2. ParentState[comp.state] = op.state
    BY <1>1, <1>2, <2>1 DEF RowsAgree
  <2> QED
    BY <1>1, <1>2, <2>1, <2>2, RowOfParent
<1>4. attempts # <<>>
  BY <1>1, <1>3 DEF Begun, NoRow
<1>5. op \in OpRows
  BY <1>1 DEF RowTypes
<1>6. /\ op' \in OpRows /\ op'.state = "COMPENSATING" /\ op'.effect = op.effect
      /\ op'.version = op.version + 1
  <2>1. PICK v : v = op.version + 1
    OBVIOUS
  <2>2. op' = [op EXCEPT !.state = "COMPENSATING", !.version = v]
    BY <1>2, <2>1
  <2>3. v \in Nat
    BY <1>1, <2>1
  <2> QED
    BY <1>5, <2>1, <2>2, <2>3 DEF OpRows, OperationStates
<1>7. comp' \in CompRows /\ comp'.state = "EXECUTING"
  BY <1>1 DEF CompRows, CompensationStates
<1>8. /\ used' \subseteq Identities /\ outbox' \in Seq(Lines)
      /\ Len(outbox) <= Len(outbox')
  BY <1>1, EmitForKnown DEF RowTypes
<1>9. SameRequests
  BY RequestsStay
<1>10. op.state \in Working
  BY <1>2 DEF Working, Open
<1>11. h[p].num = Len(attempts) + 1 /\ JustifiedNow
       /\ (h[p].num > Cap =>
             p \in Operators /\ \A i \in DOMAIN attempts : attempts[i].by # h[p].ns)
  BY DEF RetryFits
<1>12. CASE attempts' = StartAttempt(p)
  <2>1. Justified
    BY <1>11 DEF Justified, JustifiedNow
  <2>2. Attempted(p)
    BY <1>3, <1>6, <1>7, <1>8, <1>9, <1>10, <1>11, <1>12, <2>1 DEF Attempted, StartAttempt
  <2> QED
    BY <1>6, <1>8, <2>2
<1>13. CASE attempts' = attempts /\ attempts' # StartAttempt(p) /\ ~RetryClaimAdmitted(h[p].num)
  <2>1. Latest.out = "STARTED"
    BY <1>11, <1>13 DEF RetryClaimAdmitted
  <2>2. op.state \in Open
    BY <1>1, <1>2, <2>1 DEF AttemptsFit, Open
  <2>3. attempts'[Len(attempts)].out = "STARTED"
    BY <1>13, <2>1 DEF Latest
  <2>4. SameAttempts
    BY <1>13, AttemptsStay
  <2>5. SettledByEvidence'
    BY <1>6 DEF SettledByEvidence
  <2>6. /\ op'.state # "MANUAL_INTERVENTION" =>
             /\ ParentState[comp'.state] = op'.state /\ comp'.state # "VERIFYING"
             /\ comp'.state = "EXECUTING" => attempts'[Len(attempts)].out = "STARTED"
             /\ op.state \in Open
        /\ op'.state \in Open =>
             \A i \in DOMAIN verifs : verifs'[i].result \in {"APPLIED", "NOT_APPLIED"} =>
                                        verifs'[i].result = verifs[i].result
        /\ op'.state = "COMPENSATED" => landed
        /\ op'.state = "COMPENSATION_FAILED" => attempts'[Len(attempts)].out # "STARTED"
    BY <1>6, <1>7, <2>2, <2>3, ParentOfRow
  <2>7. comp'.state # NoRow /\ comp'.state # "PENDING" /\ comp.state # "PENDING"
    BY <1>3, <1>7 DEF NoRow
  <2>8. Moved
    BY <1>3, <1>6, <1>7, <1>8, <1>9, <1>10, <2>4, <2>5, <2>6, <2>7 DEF Moved
  <2> QED
    BY <1>6, <1>8, <1>13, <2>8
<1> QED
  BY <1>12, <1>13

LEMMA RetryKeeps ==
  ASSUME CompensationInv, NEW p \in Processes, h[p].pc # "idle", NEW kind \in RetryKinds,
         RetryFits(p, kind), RetryAndClaim(p, kind)
  PROVE  CompensationInv' /\ Journal
<1>1. PICK next : next = h[p].num
  OBVIOUS
<1> DEFINE claimable == RetryClaimAdmitted(next)
           parent == {Id(p, "parent_retry", next)}
           written == IF claimable THEN parent \union {Id(p, "attempt", next)} ELSE parent
           result == ApplyResult(kind, h[p].ver, ParentAgrees /\ RowMayFollow(kind), written)
<1>2. /\ RowTypes /\ h[p].ver \in Nat /\ next \in Nat
      /\ op.version \in Nat /\ comp.version \in Nat
  BY <1>1, HandlerOf
<1>3. written \subseteq Identities
  <2>1. "parent_retry" \in Roles /\ "attempt" \in Roles
    BY DEF Roles
  <2>2. Id(p, "parent_retry", next) \in Identities /\ Id(p, "attempt", next) \in Identities
    BY <1>2, <2>1, IdKnown
  <2> QED
    BY <2>2
<1>4. CASE result = "APPLIED"
  <2>1. op.version = h[p].ver /\ op.state = Source(kind)
    BY <1>2, <1>4, AppliedMeans
  <2>2. /\ op' = [op EXCEPT !.state = Target(kind), !.version = @ + 1]
        /\ comp' = [state |-> "EXECUTING",
                    version |-> comp.version + (IF claimable THEN 2 ELSE 1)]
        /\ used' = used \union written
        /\ EmitFor(kind)
        /\ UNCHANGED <<verifs, queue, landed, actions, crashes>>
    BY <1>1, <1>4 DEF RetryAndClaim
  <2>3. PICK added : added = IF claimable THEN 2 ELSE 1
    OBVIOUS
  <2>4. added \in Nat /\ comp' = [state |-> "EXECUTING", version |-> comp.version + added]
    BY <2>2, <2>3
  <2>5. CASE claimable
    <3>1. /\ attempts' = StartAttempt(p)
          /\ Become(p, [At(p, "call") EXCEPT !.ver = op.version + 1,
                          !.cver = comp.version + 2, !.num = next])
      BY <1>1, <1>4, <2>5 DEF RetryAndClaim
    <3>2. /\ attempts' = StartAttempt(p) => Attempted(p)
          /\ Len(outbox) <= Len(outbox') /\ op'.version = op.version + 1
      <4> HIDE DEF written, claimable
      <4> QED
        BY <1>3, <2>1, <2>2, <2>4, <3>1, RetryWrites
    <3>3. PICK v, c : v = op.version + 1 /\ c = comp.version + 2
      OBVIOUS
    <3>4. v \in Nat /\ c \in Nat /\ v <= op'.version
      BY <1>2, <3>2, <3>3
    <3>5. PICK r : r = Called(p, v, c, next)
      OBVIOUS
    <3>6. Calls(p, v, next, r)
      BY <1>2, <3>4, <3>5, CalledKnown
    <3>7. next = Len(attempts) + 1
      BY <1>1, <2>1 DEF RetryFits
    <3>8. After(p, r)
      BY <3>1, <3>4, <3>6, <3>7, ClaimedAfter
    <3>9. h' = [h EXCEPT ![p] = r]
      BY <3>1, <3>3, <3>5 DEF Become, Called
    <3>10. r \in Handlers
      BY <3>6 DEF Calls
    <3> QED
      BY <2>2, <3>1, <3>2, <3>8, <3>9, <3>10, Writes
  <2>6. CASE ~claimable
    <3>1. Finish(p, "ack") /\ UNCHANGED attempts
      BY <1>1, <1>4, <2>6 DEF RetryAndClaim
    <3>2. /\ Attempted(p) \/ Moved
          /\ Len(outbox) <= Len(outbox') /\ op'.version = op.version + 1
      <4>1. attempts' = attempts /\ ~RetryClaimAdmitted(h[p].num)
        BY <1>1, <2>6, <3>1
      <4> HIDE DEF written, claimable
      <4> QED
        BY <1>3, <2>1, <2>2, <2>4, <4>1, RetryWrites
    <3>3. PICK r \in Handlers : h' = [h EXCEPT ![p] = r] /\ Light(p, r) /\ r.ver = 0
      BY <3>1, FinishMeans
    <3>4. After(p, r)
      BY <1>2, <3>2, <3>3 DEF After, Light
    <3> QED
      BY <2>2, <3>2, <3>3, <3>4, Writes
  <2> QED
    BY <2>5, <2>6
<1>5. CASE result = "ALREADY_APPLIED" /\ kind = "COMPENSATION_UNKNOWN_RETRY"
  <2>1. Finish(p, "rejoin") /\ Quiet
    BY <1>1, <1>5 DEF RetryAndClaim
  <2> QED
    BY <2>1, FinishKeeps, QuietJournal
<1>6. CASE ~(result = "APPLIED")
            /\ ~(result = "ALREADY_APPLIED" /\ kind = "COMPENSATION_UNKNOWN_RETRY")
  <2>1. Answer(p, result)
    BY <1>1, <1>6 DEF RetryAndClaim
  <2>2. Quiet
    BY <2>1 DEF Answer
  <2> HIDE DEF result
  <2> QED
    BY <2>1, <2>2, AnswerKeeps, QuietJournal
<1> QED
  BY <1>4, <1>5, <1>6

\* After a failed attempt: within the budget, or by an operator's action
LEMMA ReclaimKeeps ==
  ASSUME CompensationInv, NEW p \in Processes, Reclaim(p)
  PROVE  CompensationInv' /\ Journal
<1> DEFINE kind == "COMPENSATION_FAILED_RETRY"
<1>1. h[p].pc = "reclaim" /\ h[p].pc # "idle" /\ RetryAndClaim(p, kind)
  BY DEF Reclaim
<1>2. Fits(p, h[p])
  BY HandlerOf
<1>3. RetryFits(p, kind)
  <2>1. SUFFICES ASSUME op.version = h[p].ver, op.state = "COMPENSATION_FAILED"
                 PROVE  /\ h[p].num = Len(attempts) + 1
                        /\ h[p].num > Cap => /\ p \in Operators
                                             /\ \A i \in DOMAIN attempts : attempts[i].by # h[p].ns
                        /\ JustifiedNow
    BY CompensationEdges DEF RetryFits
  <2>2. h[p].num = Len(attempts) + 1
    BY <1>1, <1>2, <2>1 DEF Fits, FitsAttempt
  <2>3. h[p].num > Cap => p \in Operators /\ \A i \in DOMAIN attempts : attempts[i].by # h[p].ns
    BY <1>1, <1>2 DEF Fits, FitsAttempt
  <2>4. JustifiedNow
    BY <2>1 DEF CompensationInv, RowsInv, SettledByEvidence, JustifiedNow
  <2> QED
    BY <2>2, <2>3, <2>4
<1> QED
  BY <1>1, <1>3, RetryKeeps DEF RetryKinds

\* The three kinds that settle or reopen the question, and the moves of the rows
Settling ==
  {"COMPENSATION_APPLIED", "COMPENSATION_OUTCOME_FAILED", "COMPENSATION_OUTCOME_UNKNOWN"}

LEMMA SettlingMoves ==
  ASSUME RowTypes, NEW kind \in Settling, op.state = "COMPENSATING",
         comp.state \in CompensationStates, RowMayFollow(kind), MoveRows(kind)
  PROVE  /\ op' \in OpRows /\ op'.effect = op.effect /\ op'.version = op.version + 1
         /\ op'.state = Target(kind) /\ ParentState[comp'.state] = op'.state
         /\ comp' \in CompRows /\ comp'.state \in {"SUCCEEDED", "FAILED", "UNKNOWN"}
         /\ comp.state \notin {NoRow, "PENDING"}
         /\ op'.state \in {"COMPENSATED", "COMPENSATION_FAILED", "COMPENSATION_UNKNOWN"}
<1>1. op \in OpRows /\ op.version \in Nat /\ comp.version \in Nat
  BY Numbers DEF RowTypes
<1>2. PICK target : target = Target(kind)
  OBVIOUS
<1>3. PICK row : row = CompensationTarget[kind]
  OBVIOUS
<1>4. /\ kind \in DOMAIN CompensationTarget
      /\ target \in {"COMPENSATED", "COMPENSATION_FAILED", "COMPENSATION_UNKNOWN"}
      /\ row \in {"SUCCEEDED", "FAILED", "UNKNOWN"} /\ ParentState[row] = target
  BY <1>2, <1>3, CompensationTargets, CompensationEdges, ParentOfRow DEF Settling
<1>5. PICK v : v = op.version + 1
  OBVIOUS
<1>6. op' = [op EXCEPT !.state = target, !.version = v]
  BY <1>2, <1>5 DEF MoveRows
<1>7. comp' = [state |-> row, version |-> comp.version + 1]
  BY <1>3, <1>4 DEF MoveRows
<1>8. v \in Nat /\ comp.version + 1 \in Nat
  BY <1>1, <1>5
<1>9. /\ op' \in OpRows /\ op'.effect = op.effect /\ op'.version = v /\ op'.state = target
  BY <1>1, <1>4, <1>6, <1>8 DEF OpRows, OperationStates
<1>10. comp' \in CompRows /\ comp'.state = row
  BY <1>4, <1>7, <1>8 DEF CompRows, CompensationStates
<1>11. comp.state # "PENDING"
  <2>1. row \in CompensationNext[comp.state] \union {comp.state}
    BY <1>3, <1>4 DEF RowMayFollow
  <2> QED
    BY <1>4, <2>1 DEF CompensationNext
<1>12. comp.state # NoRow
  BY DEF CompensationStates, NoRow
<1> QED
  BY <1>2, <1>4, <1>5, <1>9, <1>10, <1>11, <1>12

\* A person takes over: the compensation row is left as it is
LEMMA EscalationMoves ==
  ASSUME CompensationInv, comp.state # NoRow, op.state \in Working,
         op' = [op EXCEPT !.state = "MANUAL_INTERVENTION", !.version = @ + 1], comp' = comp,
         SameAttempts, SameRequests, UNCHANGED <<landed, actions>>,
         used' \subseteq Identities, outbox' \in Seq(Lines)
  PROVE  Moved /\ op'.version = op.version + 1 /\ op'.version \in Nat
<1>1. op \in OpRows /\ op.version \in Nat /\ comp \in CompRows
  BY Numbers DEF CompensationInv, RowsInv, RowTypes
<1>2. PICK v : v = op.version + 1
  OBVIOUS
<1>3. op' = [op EXCEPT !.state = "MANUAL_INTERVENTION", !.version = v] /\ v \in Nat
  BY <1>1, <1>2
<1>4. /\ op' \in OpRows /\ op'.effect = op.effect /\ op'.version = v
      /\ op'.state = "MANUAL_INTERVENTION"
  BY <1>1, <1>3 DEF OpRows, OperationStates
<1>5. SettledByEvidence'
  BY <1>4 DEF SettledByEvidence
<1>6. op'.state \notin Open
  BY <1>4 DEF Open
<1>7. op'.state # "COMPENSATED" /\ op'.state # "COMPENSATION_FAILED"
  BY <1>4
<1>8. Moved
  BY <1>1, <1>2, <1>4, <1>5, <1>6, <1>7 DEF Moved
<1> QED
  BY <1>2, <1>3, <1>4, <1>8

LEMMA EscalateAsKeeps ==
  ASSUME CompensationInv, NEW p \in Processes, h[p].pc # "idle", NEW kind,
         Source(kind) \in Working, Target(kind) = "MANUAL_INTERVENTION",
         kind \notin DOMAIN CompensationTarget, EscalateAs(p, kind)
  PROVE  CompensationInv' /\ Journal
<1> DEFINE written == {Id(p, "complete", 0), Id(p, "manual", 0)}
           result == ApplyResult(kind, h[p].ver, ParentAgrees, written)
<1>1. RowTypes /\ h[p].ver \in Nat /\ op.version \in Nat
  BY HandlerOf
<1>2. written \subseteq Identities
  <2>1. "complete" \in Roles /\ "manual" \in Roles
    BY DEF Roles
  <2>2. Id(p, "complete", 0) \in Identities /\ Id(p, "manual", 0) \in Identities
    BY <2>1, IdKnown
  <2> QED
    BY <2>2
<1>3. result \in {"APPLIED", "ALREADY_APPLIED", "REJECTED", "CONFLICT", "DUPLICATE"}
  BY <1>1, ApplyResults
<1>4. CASE result = "APPLIED"
  <2>1. op.state \in Working
    BY <1>1, <1>4, AppliedMeans
  <2>2. /\ MoveRows(kind) /\ used' = used \union written /\ Finish(p, "ack")
        /\ UNCHANGED <<attempts, verifs, outbox, queue, landed, actions, crashes>>
    BY <1>4 DEF EscalateAs
  <2>3. /\ op' = [op EXCEPT !.state = "MANUAL_INTERVENTION", !.version = @ + 1]
        /\ comp' = comp
    BY <2>2 DEF MoveRows
  <2>4. comp.state # NoRow
    BY RowExists DEF CompensationStates, NoRow
  <2>5. SameAttempts /\ SameRequests
    BY <2>2, AttemptsStay, RequestsStay
  <2>6. used' \subseteq Identities /\ outbox' \in Seq(Lines) /\ Len(outbox) <= Len(outbox')
    BY <1>1, <1>2, <2>2, SeqDomain DEF RowTypes
  <2>7. Moved
    BY <2>1, <2>2, <2>3, <2>4, <2>5, <2>6, EscalationMoves
  <2> QED
    BY <2>2, <2>6, <2>7, WritesAndEnds
<1>5. CASE result = "ALREADY_APPLIED"
  <2>1. Finish(p, "ack") /\ Quiet
    BY <1>5 DEF EscalateAs
  <2> QED
    BY <2>1, FinishKeeps, QuietJournal
<1>6. CASE result \in {"REJECTED", "CONFLICT", "DUPLICATE"}
  <2>1. Answer(p, result)
    BY <1>6 DEF EscalateAs
  <2>2. Quiet
    BY <2>1 DEF Answer
  <2> HIDE DEF result
  <2> QED
    BY <2>1, <2>2, AnswerKeeps, QuietJournal
<1> QED
  BY <1>3, <1>4, <1>5, <1>6

LEMMA EscalateKeeps ==
  ASSUME CompensationInv, NEW p \in Processes, Escalate(p)
  PROVE  CompensationInv' /\ Journal
<1>1. h[p].pc = "escalate" /\ h[p].pc # "idle" /\ EscalateAs(p, ExhaustedKind[h[p].st])
  BY DEF Escalate
<1>2. h[p].st \in Working
  BY <1>1, HandlerOf DEF Fits
<1>3. PICK kind : kind = ExhaustedKind[h[p].st]
  OBVIOUS
<1>4. /\ Source(kind) \in Working /\ Target(kind) = "MANUAL_INTERVENTION"
      /\ kind \notin DOMAIN CompensationTarget
  BY <1>2, <1>3, EscalationEdges
<1> QED
  BY <1>1, <1>3, <1>4, EscalateAsKeeps

LEMMA WeighKeeps ==
  ASSUME CompensationInv, NEW p \in Processes, Weigh(p)
  PROVE  CompensationInv' /\ Journal
<1> DEFINE kind == "COMPENSATION_UNKNOWN_RETRY"
           outcome == IF h[p].out = "STARTED" THEN "UNKNOWN" ELSE h[p].out
<1>1. h[p].pc = "weigh" /\ h[p].pc # "idle"
  BY DEF Weigh
<1>2. PICK elapsed \in BOOLEAN :
        \/ /\ RegistryRetrySafety(Descriptor, outcome, None, elapsed) = "SAFE"
           /\ MayTryAgain(h[p].num - 1, Obligation)
           /\ RetryAndClaim(p, kind)
        \/ EscalateAs(p, "COMPENSATION_UNKNOWN_ESCALATE")
  BY DEF Weigh
<1>3. CASE EscalateAs(p, "COMPENSATION_UNKNOWN_ESCALATE")
  BY <1>1, <1>3, EscalateAsKeeps, CompensationEdges, CompensationTargets DEF Working, Open
<1>4. CASE /\ RegistryRetrySafety(Descriptor, outcome, None, elapsed) = "SAFE"
           /\ MayTryAgain(h[p].num - 1, Obligation)
           /\ RetryAndClaim(p, kind)
  <2>1. Fits(p, h[p]) /\ h[p].num \in Nat /\ Cap \in Nat
    BY HandlerOf, CapKnown
  <2>2. ~Descriptor.verifiable /\ h[p].out \in AttemptStates
    BY <1>1, <2>1 DEF Fits, FitsAttempt
  <2>3. outcome = "NOT_APPLIED" \/ (outcome = "UNKNOWN" /\ Descriptor.mode # "NONE")
    <3>1. outcome \in Outcomes
      BY <2>2 DEF AttemptStates, Outcomes
    <3> HIDE DEF outcome
    <3> QED
      BY <1>4, <3>1, SafeWithoutVerification
  <2>4. RetryFits(p, kind)
    <3>1. SUFFICES ASSUME op.version = h[p].ver, op.state = "COMPENSATION_UNKNOWN"
                   PROVE  /\ h[p].num = Len(attempts) + 1
                          /\ ~(h[p].num > Cap)
                          /\ JustifiedNow
      BY CompensationEdges DEF RetryFits
    <3>2. h[p].num = Len(attempts) + 1 /\ h[p].out = Latest.out
      BY <1>1, <2>1, <3>1 DEF Fits, FitsAttempt
    <3>3. h[p].num - 1 < Cap
      BY <1>4 DEF MayTryAgain, Cap
    <3>4. JustifiedNow
      BY <2>2, <2>3, <3>2 DEF JustifiedNow
    <3> QED
      BY <2>1, <3>2, <3>3, <3>4
  <2> QED
    BY <1>1, <1>4, <2>4, RetryKeeps DEF RetryKinds
<1> QED
  BY <1>2, <1>3, <1>4

\* A row that may follow stands where an attempt has been made
LEMMA AttemptMade ==
  ASSUME CompensationInv, comp.state \notin {NoRow, "PENDING"}
  PROVE  attempts # <<>> /\ Len(attempts) \in DOMAIN attempts
<1>1. attempts # <<>>
  BY DEF CompensationInv, RowsInv, Begun
<1> QED
  BY <1>1, LatestKnown

\* An unknown outcome leaves the operation where its outcome is open
LEMMA UnknownMoves ==
  ASSUME CompensationInv, comp.state \in CompensationStates, op.state = "COMPENSATING",
         RowMayFollow("COMPENSATION_OUTCOME_UNKNOWN"), MoveRows("COMPENSATION_OUTCOME_UNKNOWN"),
         SameAttempts, SameRequests, UNCHANGED <<landed, actions>>,
         \A i \in DOMAIN verifs : verifs'[i].result \in {"APPLIED", "NOT_APPLIED"} =>
                                    verifs'[i].result = verifs[i].result,
         used' \subseteq Identities, outbox' \in Seq(Lines)
  PROVE  Moved /\ op'.version = op.version + 1 /\ op'.version \in Nat
<1>1. RowTypes
  BY DEF CompensationInv, RowsInv
<1>2. /\ op' \in OpRows /\ op'.effect = op.effect /\ op'.version = op.version + 1
      /\ op'.state = "COMPENSATION_UNKNOWN" /\ ParentState[comp'.state] = op'.state
      /\ comp' \in CompRows /\ comp'.state \in {"SUCCEEDED", "FAILED", "UNKNOWN"}
      /\ comp.state \notin {NoRow, "PENDING"}
  BY <1>1, SettlingMoves, CompensationEdges DEF Settling
<1>3. SettledByEvidence'
  BY <1>2 DEF SettledByEvidence
<1>4. op.state \in Open /\ op.state \in Working
  BY DEF Open, Working
<1>5. comp'.state # NoRow /\ comp'.state # "EXECUTING" /\ comp'.state # "VERIFYING"
      /\ comp'.state # "PENDING"
  BY <1>2 DEF NoRow
<1>6. op'.state # "COMPENSATED" /\ op'.state # "COMPENSATION_FAILED"
  BY <1>2
<1>7. Moved
  BY <1>2, <1>3, <1>4, <1>5, <1>6 DEF Moved
<1> QED
  BY <1>2, <1>7 DEF OpRows

LEMMA LeftoverKeeps ==
  ASSUME CompensationInv, NEW p \in Processes, Leftover(p)
  PROVE  CompensationInv' /\ Journal
<1> DEFINE kind == "COMPENSATION_OUTCOME_UNKNOWN"
           written == {Id(p, "complete", 0), Id(p, "evidence", 0)}
           result == ApplyResult(kind, h[p].ver, ParentAgrees /\ RowMayFollow(kind), written)
<1>1. h[p].pc # "idle"
  BY DEF Leftover
<1>2. RowTypes /\ h[p].ver \in Nat /\ op.version \in Nat
  BY HandlerOf
<1>3. written \subseteq Identities
  <2>1. "complete" \in Roles /\ "evidence" \in Roles
    BY DEF Roles
  <2>2. Id(p, "complete", 0) \in Identities /\ Id(p, "evidence", 0) \in Identities
    BY <1>1, <2>1, IdKnown
  <2> QED
    BY <2>2
<1>4. result \in {"APPLIED", "ALREADY_APPLIED", "REJECTED", "CONFLICT", "DUPLICATE"}
  BY <1>2, ApplyResults
<1>5. CASE result = "APPLIED"
  <2>1. op.state = "COMPENSATING" /\ RowMayFollow(kind)
    BY <1>2, <1>5, AppliedMeans, CompensationEdges
  <2>2. /\ MoveRows(kind) /\ used' = used \union written /\ EmitFor(kind) /\ Finish(p, "ack")
        /\ UNCHANGED <<attempts, verifs, queue, landed, actions, crashes>>
    BY <1>5 DEF Leftover
  <2>3. SameAttempts /\ SameRequests
    BY <2>2, AttemptsStay, RequestsStay
  <2>4. used' \subseteq Identities /\ outbox' \in Seq(Lines) /\ Len(outbox) <= Len(outbox')
    BY <1>2, <1>3, <2>2, EmitForKnown DEF RowTypes
  <2>5. comp.state \in CompensationStates
    BY <1>1, RowExists
  <2>6. Moved
    BY <2>1, <2>2, <2>3, <2>4, <2>5, UnknownMoves
  <2> QED
    BY <1>1, <2>2, <2>4, <2>6, WritesAndEnds
<1>6. CASE result = "ALREADY_APPLIED"
  <2>1. Finish(p, "ack") /\ Quiet
    BY <1>6 DEF Leftover
  <2> QED
    BY <1>1, <2>1, FinishKeeps, QuietJournal
<1>7. CASE result \in {"REJECTED", "CONFLICT", "DUPLICATE"}
  <2>1. Answer(p, result)
    BY <1>7 DEF Leftover
  <2>2. Quiet
    BY <2>1 DEF Answer
  <2> HIDE DEF result
  <2> QED
    BY <1>1, <2>1, <2>2, AnswerKeeps, QuietJournal
<1> QED
  BY <1>4, <1>5, <1>6, <1>7

\* A settled compensation moves with the evidence that settles it
SettledAs(applied) ==
  /\ op'.state = IF applied THEN "COMPENSATED" ELSE "COMPENSATION_FAILED"
  /\ attempts'[Len(attempts)].out # IF applied THEN "NOT_APPLIED" ELSE "APPLIED"
  /\ attempts'[Len(attempts)].out # "STARTED"
  /\ \A i \in DOMAIN verifs : verifs[i].attempt = Len(attempts) =>
       verifs'[i].result # IF applied THEN "NOT_APPLIED" ELSE "APPLIED"
  /\ \/ attempts'[Len(attempts)].out = "NOT_APPLIED" /\ ~applied
     \/ applied /\ Descriptor.immediate /\ ~Obligation.verify
     \/ \E i \in DOMAIN verifs : /\ verifs[i].attempt = Len(attempts)
                                 /\ verifs'[i].result = IF applied THEN "APPLIED"
                                                        ELSE "NOT_APPLIED"
  /\ applied => landed

LEMMA SettledMoves ==
  ASSUME CompensationInv, comp.state \in CompensationStates, op.state = "COMPENSATING",
         NEW applied \in BOOLEAN, SettledAs(applied),
         NEW kind \in Settling, RowMayFollow(kind), MoveRows(kind),
         SameAttempts, SameRequests, UNCHANGED <<landed, actions>>,
         used' \subseteq Identities, outbox' \in Seq(Lines)
  PROVE  Moved /\ op'.version = op.version + 1 /\ op'.version \in Nat
<1>1. RowTypes
  BY DEF CompensationInv, RowsInv
<1>2. /\ op' \in OpRows /\ op'.effect = op.effect /\ op'.version = op.version + 1
      /\ ParentState[comp'.state] = op'.state
      /\ comp' \in CompRows /\ comp'.state \in {"SUCCEEDED", "FAILED", "UNKNOWN"}
      /\ comp.state \notin {NoRow, "PENDING"}
  BY <1>1, SettlingMoves
<1>3. op'.state \in {"COMPENSATED", "COMPENSATION_FAILED"}
  BY DEF SettledAs
<1>4. Len(attempts') = Len(attempts) /\ DOMAIN verifs' = DOMAIN verifs
      /\ \A i \in DOMAIN verifs : verifs'[i].attempt = verifs[i].attempt
  BY <1>1, SeqDomain DEF SameAttempts, SameRequests, RowTypes
<1>5. SettledByEvidence'
  <2>1. CASE applied
    BY <1>2, <1>4, <2>1 DEF SettledAs, SettledByEvidence, Latest, Descriptor
  <2>2. CASE ~applied
    BY <1>2, <1>4, <2>2 DEF SettledAs, SettledByEvidence, Latest, Descriptor
  <2> QED
    BY <2>1, <2>2
<1>6. op.state \in Open /\ op.state \in Working /\ op'.state \notin Open
  BY <1>3 DEF Open, Working
<1>7. comp'.state # NoRow /\ comp'.state # "EXECUTING" /\ comp'.state # "VERIFYING"
      /\ comp'.state # "PENDING"
  BY <1>2 DEF NoRow
<1>8. op'.state = "COMPENSATED" => landed
  BY DEF SettledAs
<1>9. op'.state = "COMPENSATION_FAILED" => attempts'[Len(attempts)].out # "STARTED"
  BY DEF SettledAs
<1>10. Moved
  BY <1>2, <1>5, <1>6, <1>7, <1>8, <1>9 DEF Moved
<1> QED
  BY <1>2, <1>10 DEF OpRows

\* A handler that may retry a failed attempt goes on to claim the next
LEMMA ReclaimAfter ==
  ASSUME CompensationInv, NEW p \in Processes, h[p].pc # "idle", NEW v \in Nat,
         NEW n \in Nat, v <= op'.version, op'.state = "COMPENSATION_FAILED",
         n = Len(attempts') + 1, n <= Cap,
         Become(p, [At(p, "reclaim") EXCEPT !.ver = v, !.num = n])
  PROVE  \E r \in Handlers : h' = [h EXCEPT ![p] = r] /\ After(p, r)
<1>1. PICK t : t = At(p, "reclaim")
  OBVIOUS
<1>2. "reclaim" \in PCs
  BY DEF PCs
<1>3. Stage(p, "reclaim", t)
  BY <1>1, <1>2, StageKnown DEF CompensationInv
<1>4. t \in Handlers /\ t.pc = "reclaim" /\ t.ns = h[p].ns
  BY <1>3 DEF Stage
<1>5. PICK r : r = [t EXCEPT !.ver = v, !.num = n]
  OBVIOUS
<1>6. r \in Handlers /\ r.pc = "reclaim" /\ r.ns = h[p].ns /\ r.ver = v /\ r.num = n
  BY <1>4, <1>5 DEF Handlers
<1>7. h' = [h EXCEPT ![p] = r]
  BY <1>1, <1>5 DEF Become
<1>8. After(p, r)
  BY <1>6 DEF After
<1> QED
  BY <1>6, <1>7, <1>8

\* What the evidence of an attempt in hand is worth
LEMMA EvidenceInHand ==
  ASSUME CompensationInv, NEW p \in Processes, h[p].pc = "outcome"
  PROVE  h[p].out \in Outcomes /\ (h[p].out = "APPLIED" => landed) /\ h[p].pc # "idle"
BY HandlerOf DEF Fits, FitsAttempt

LEMMA OutcomeMoves ==
  ASSUME CompensationInv, NEW p \in Processes, h[p].pc = "outcome",
         NEW kind \in Settling, kind = CompensateKind(h[p].out, Descriptor, Obligation),
         op.state = "COMPENSATING", AttemptAdmitted(kind, h[p].num, h[p].out),
         MoveRows(kind), attempts' = Complete(h[p].num, h[p].out),
         UNCHANGED <<verifs, landed, actions>>,
         used' \subseteq Identities, outbox' \in Seq(Lines)
  PROVE  /\ Moved /\ op'.version = op.version + 1 /\ op'.version \in Nat
         /\ Len(attempts') = Len(attempts) /\ h[p].num = Len(attempts)
         /\ kind = "COMPENSATION_OUTCOME_FAILED" => op'.state = "COMPENSATION_FAILED"
<1>1. PICK outcome \in Outcomes : outcome = h[p].out
  BY EvidenceInHand
<1>2. outcome = "APPLIED" => landed
  BY <1>1, EvidenceInHand
<1>3. RowMayFollow(kind) /\ h[p].num = Len(attempts) /\ Latest.out \in {"STARTED", outcome}
  BY <1>1 DEF AttemptAdmitted
<1>4. RowTypes /\ VerifsFit /\ comp.state \in CompensationStates
  BY HandlerOf, RowExists DEF CompensationInv, RowsInv
<1>5. comp.state \notin {NoRow, "PENDING"} /\ op'.state = Target(kind)
  BY <1>3, <1>4, SettlingMoves
<1>6. Len(attempts) \in DOMAIN attempts
  BY <1>5, AttemptMade
<1>7. /\ SameAttempts
      /\ attempts'[Len(attempts)].out = IF attempts[Len(attempts)].out = "STARTED"
                                        THEN outcome ELSE attempts[Len(attempts)].out
  BY <1>1, <1>2, <1>3, <1>6, CompleteKnown
<1>8. attempts'[Len(attempts)].out = outcome
  BY <1>3, <1>7 DEF Latest
<1>9. SameRequests
  BY RequestsStay
<1>10. /\ kind = "COMPENSATION_APPLIED" =>
            outcome = "APPLIED" /\ Descriptor.immediate /\ ~Obligation.verify
       /\ kind = "COMPENSATION_OUTCOME_FAILED" => outcome = "NOT_APPLIED"
       /\ kind = "COMPENSATION_OUTCOME_UNKNOWN" => outcome = "UNKNOWN"
  BY <1>1, OutcomeKinds
<1>11. \A i \in DOMAIN verifs : verifs[i].attempt = Len(attempts) =>
         verifs'[i].result \notin {"APPLIED", "NOT_APPLIED"}
  BY <1>4 DEF VerifsFit, Open
<1>12. Moved /\ op'.version = op.version + 1 /\ op'.version \in Nat
  <2>1. CASE kind = "COMPENSATION_APPLIED"
    <3>1. SettledAs(TRUE)
      BY <1>2, <1>5, <1>8, <1>10, <1>11, <2>1, CompensationEdges DEF SettledAs
    <3> QED
      BY <1>3, <1>4, <1>7, <1>9, <3>1, SettledMoves
  <2>2. CASE kind = "COMPENSATION_OUTCOME_FAILED"
    <3>1. SettledAs(FALSE)
      BY <1>2, <1>5, <1>8, <1>10, <1>11, <2>2, CompensationEdges DEF SettledAs
    <3> QED
      BY <1>3, <1>4, <1>7, <1>9, <3>1, SettledMoves
  <2>3. CASE kind = "COMPENSATION_OUTCOME_UNKNOWN"
    BY <1>3, <1>4, <1>7, <1>9, <2>3, UnknownMoves
  <2> QED
    BY <2>1, <2>2, <2>3 DEF Settling
<1>13. Len(attempts') = Len(attempts)
  BY <1>7 DEF SameAttempts
<1> QED
  BY <1>3, <1>5, <1>12, <1>13, CompensationEdges

\* A handler goes on to look for the verification it knows to be pending
LEMMA FindPosted ==
  ASSUME CompensationInv, NEW p \in Processes, NEW v \in Nat, NEW c \in Nat,
         Become(p, [At(p, "find") EXCEPT !.ver = v, !.cver = c])
  PROVE  \E r \in Handlers : /\ h' = [h EXCEPT ![p] = r] /\ r.pc = "find"
                             /\ r.ns = h[p].ns /\ r.ver = v
<1>1. PICK t : t = At(p, "find")
  OBVIOUS
<1>2. "find" \in PCs
  BY DEF PCs
<1>3. Stage(p, "find", t)
  BY <1>1, <1>2, StageKnown DEF CompensationInv
<1>4. t \in Handlers /\ t.pc = "find" /\ t.ns = h[p].ns
  BY <1>3 DEF Stage
<1>5. PICK r : r = [t EXCEPT !.ver = v, !.cver = c]
  OBVIOUS
<1>6. r \in Handlers /\ r.pc = "find" /\ r.ns = h[p].ns /\ r.ver = v
  BY <1>4, <1>5 DEF Handlers
<1>7. h' = [h EXCEPT ![p] = r]
  BY <1>1, <1>5 DEF Become
<1> QED
  BY <1>6, <1>7

LEMMA StartVerificationKeeps ==
  ASSUME CompensationInv, NEW p \in Processes, h[p].pc = "outcome", h[p].out = "APPLIED",
         StartVerification(p)
  PROVE  CompensationInv' /\ Journal
<1>1. PICK n : n = Nth(h[p].num)
  OBVIOUS
<1> DEFINE written == {Id(p, "evidence", n), Id(p, "verification", n)}
           result == ProgressResult(h[p].ver, h[p].cver, comp.state = "VERIFYING",
                                    VerificationStartAdmitted(p), written)
<1>2. h[p].pc # "idle" /\ landed
  BY EvidenceInHand
<1>3. /\ RowTypes /\ h[p].ver \in Nat /\ h[p].cver \in Nat /\ h[p].num \in Nat
      /\ op.version \in Nat /\ comp.version \in Nat
  BY HandlerOf
<1>4. n \in Nat
  BY <1>1, <1>3 DEF Nth
<1>5. /\ result \in {"APPLIED", "ALREADY_APPLIED"} =>
           op.version = h[p].ver /\ op.state = "COMPENSATING"
      /\ result = "APPLIED" => comp.version = h[p].cver /\ VerificationStartAdmitted(p)
      /\ result \in {"APPLIED", "ALREADY_APPLIED", "REJECTED", "CONFLICT", "DUPLICATE"}
  BY <1>3, ProgressMeans
<1>6. written \subseteq Identities
  <2>1. "evidence" \in Roles /\ "verification" \in Roles
    BY DEF Roles
  <2>2. Id(p, "evidence", n) \in Identities /\ Id(p, "verification", n) \in Identities
    BY <1>2, <1>4, <2>1, IdKnown
  <2> QED
    BY <2>2
<1>7. CASE result = "APPLIED"
  <2>1. /\ Progress("VERIFYING")
        /\ attempts' = Complete(h[p].num, "APPLIED")
        /\ verifs' = Append(verifs, [id |-> Id(p, "verification", n), attempt |-> h[p].num,
                                     version |-> op.version, result |-> None])
        /\ used' = used \union written
        /\ Emit(<<"VERIFY">>, op.version)
        /\ Become(p, [At(p, "find") EXCEPT !.ver = h[p].ver, !.cver = comp.version + 1])
        /\ UNCHANGED <<queue, landed, actions, crashes>>
    BY <1>1, <1>7 DEF StartVerification
  <2>2. op.version = h[p].ver /\ op.state = "COMPENSATING" /\ comp.state = "EXECUTING"
        /\ h[p].num = Len(attempts)
    BY <1>5, <1>7 DEF VerificationStartAdmitted
  <2>3. op' = op /\ comp' = [state |-> "VERIFYING", version |-> comp.version + 1]
    BY <2>1 DEF Progress
  <2>4. comp.state \notin {NoRow, "PENDING"}
    BY <2>2 DEF NoRow
  <2>5. attempts # <<>> /\ Len(attempts) \in DOMAIN attempts
    BY <2>4, AttemptMade
  <2>6. SameAttempts
    <3>1. "APPLIED" \in Outcomes
      BY DEF Outcomes
    <3> QED
      BY <1>2, <2>1, <2>2, <2>5, <3>1, CompleteKnown
  <2>7. PICK row : row = [id |-> Id(p, "verification", n), attempt |-> h[p].num,
                          version |-> op.version, result |-> None]
    OBVIOUS
  <2>8. h[p].ns \in Namespaces
    BY <1>2, RowExists
  <2>9. /\ row \in VerifRows /\ row.attempt = Len(attempts) /\ row.version = op'.version
        /\ row.result = None
    BY <1>3, <1>4, <2>2, <2>3, <2>7, <2>8 DEF VerifRows, Id
  <2>10. outbox' \in Seq(Lines) /\ Len(outbox) <= Len(outbox')
    <3>1. <<"VERIFY">> \in Seq(Commands)
      BY DEF Commands
    <3> QED
      BY <1>3, <2>1, <3>1, EmitKnown
  <2>11. used' \subseteq Identities
    BY <1>3, <1>6, <2>1 DEF RowTypes
  <2>12. comp' \in CompRows /\ comp'.state = "VERIFYING" /\ comp.state # NoRow
    BY <1>3, <2>3, <2>4 DEF CompRows, CompensationStates
  <2>13. op' \in OpRows
    BY <1>3, <2>3 DEF RowTypes
  <2>14. Requested
    BY <2>1, <2>2, <2>3, <2>5, <2>6, <2>7, <2>9, <2>10, <2>11, <2>12, <2>13 DEF Requested
  <2>15. comp.version + 1 \in Nat
    BY <1>3
  <2>16. PICK r \in Handlers : /\ h' = [h EXCEPT ![p] = r] /\ r.pc = "find"
                               /\ r.ns = h[p].ns /\ r.ver = h[p].ver
    BY <1>3, <2>1, <2>15, FindPosted
  <2>17. After(p, r)
    BY <1>3, <2>2, <2>3, <2>16 DEF After, Plain
  <2> QED
    BY <1>2, <2>1, <2>10, <2>14, <2>16, <2>17, Writes
<1>8. CASE result = "ALREADY_APPLIED"
  <2>1. /\ Become(p, [At(p, "find") EXCEPT !.ver = h[p].ver, !.cver = comp.version])
        /\ Quiet
    BY <1>1, <1>8 DEF StartVerification
  <2>2. PICK r \in Handlers : /\ h' = [h EXCEPT ![p] = r] /\ r.pc = "find"
                              /\ r.ns = h[p].ns /\ r.ver = h[p].ver
    BY <1>3, <2>1, FindPosted
  <2>3. r.ver <= op.version
    BY <1>3, <1>5, <1>8, <2>2
  <2>4. r.pc \in Plain
    BY <2>2 DEF Plain
  <2> QED
    BY <1>2, <2>1, <2>2, <2>3, <2>4, LightKeeps, QuietJournal
<1>9. CASE result \in {"REJECTED", "CONFLICT", "DUPLICATE"}
  <2>1. Answer(p, result)
    BY <1>1, <1>9 DEF StartVerification
  <2>2. Quiet
    BY <2>1 DEF Answer
  <2> HIDE DEF result
  <2> QED
    BY <1>2, <2>1, <2>2, AnswerKeeps, QuietJournal
<1> QED
  BY <1>5, <1>7, <1>8, <1>9

LEMMA OutcomeKeeps ==
  ASSUME CompensationInv, NEW p \in Processes, Outcome(p)
  PROVE  CompensationInv' /\ Journal
<1>1. PICK n : n = Nth(h[p].num)
  OBVIOUS
<1>2. PICK kind : kind = CompensateKind(h[p].out, Descriptor, Obligation)
  OBVIOUS
<1> DEFINE written == {Id(p, "complete", n), Id(p, "evidence", n)}
           result == ApplyResult(kind, h[p].ver,
                       AttemptAdmitted(kind, h[p].num, h[p].out), written)
<1>3. h[p].pc = "outcome" /\ h[p].pc # "idle"
  BY DEF Outcome
<1>4. /\ RowTypes /\ h[p].ver \in Nat /\ h[p].num \in Nat
      /\ op.version \in Nat /\ h[p].out \in Outcomes
  BY <1>3, HandlerOf, EvidenceInHand
<1>5. n \in Nat
  BY <1>1, <1>4 DEF Nth
<1>6. /\ kind \in Settling \union {"START_COMPENSATION_VERIFICATION"}
      /\ kind = "START_COMPENSATION_VERIFICATION" => h[p].out = "APPLIED"
  BY <1>2, <1>4, OutcomeKinds DEF Settling
<1>7. written \subseteq Identities
  <2>1. "complete" \in Roles /\ "evidence" \in Roles
    BY DEF Roles
  <2>2. Id(p, "complete", n) \in Identities /\ Id(p, "evidence", n) \in Identities
    BY <1>3, <1>5, <2>1, IdKnown
  <2> QED
    BY <2>2
<1>8. CASE kind = "START_COMPENSATION_VERIFICATION"
  <2>1. StartVerification(p)
    BY <1>2, <1>8 DEF Outcome
  <2> QED
    BY <1>3, <1>6, <1>8, <2>1, StartVerificationKeeps
<1>9. CASE kind # "START_COMPENSATION_VERIFICATION" /\ result = "APPLIED"
  <2> DEFINE again == /\ kind = "COMPENSATION_OUTCOME_FAILED" /\ ~h[p].old
                      /\ RegistryRetrySafety(Descriptor, "NOT_APPLIED", None, FALSE) = "SAFE"
                      /\ MayTryAgain(h[p].num, Obligation)
  <2>1. kind \in Settling
    BY <1>6, <1>9
  <2>2. op.state = "COMPENSATING" /\ AttemptAdmitted(kind, h[p].num, h[p].out)
    <3>1. op.state = Source(kind) /\ AttemptAdmitted(kind, h[p].num, h[p].out)
      BY <1>4, <1>9, AppliedMeans
    <3> QED
      BY <2>1, <3>1, CompensationEdges DEF Settling
  <2>3. /\ MoveRows(kind) /\ attempts' = Complete(h[p].num, h[p].out)
        /\ used' = used \union written /\ EmitFor(kind)
        /\ UNCHANGED <<verifs, queue, landed, actions, crashes>>
        /\ IF again
           THEN Become(p, [At(p, "reclaim") EXCEPT !.ver = op.version + 1,
                                                   !.num = h[p].num + 1])
           ELSE Finish(p, "ack")
    BY <1>1, <1>2, <1>9 DEF Outcome
  <2>4. used' \subseteq Identities /\ outbox' \in Seq(Lines) /\ Len(outbox) <= Len(outbox')
    BY <1>4, <1>7, <2>3, EmitForKnown DEF RowTypes
  <2>5. /\ Moved /\ op'.version = op.version + 1 /\ op'.version \in Nat
        /\ Len(attempts') = Len(attempts) /\ h[p].num = Len(attempts)
        /\ kind = "COMPENSATION_OUTCOME_FAILED" => op'.state = "COMPENSATION_FAILED"
    BY <1>2, <1>3, <2>1, <2>2, <2>3, <2>4, OutcomeMoves
  <2>6. CASE again
    <3>1. h[p].num < Cap /\ Cap \in Nat
      BY <2>6, CapKnown DEF MayTryAgain, Cap
    <3>2. PICK v, next : v = op.version + 1 /\ next = h[p].num + 1
      OBVIOUS
    <3>3. v \in Nat /\ next \in Nat /\ v <= op'.version /\ next = Len(attempts') + 1
          /\ next <= Cap
      BY <1>4, <2>5, <3>1, <3>2
    <3>4. Become(p, [At(p, "reclaim") EXCEPT !.ver = v, !.num = next])
      BY <2>3, <2>6, <3>2
    <3>5. op'.state = "COMPENSATION_FAILED"
      BY <2>5, <2>6
    <3>6. PICK r \in Handlers : h' = [h EXCEPT ![p] = r] /\ After(p, r)
      BY <1>3, <3>3, <3>4, <3>5, ReclaimAfter
    <3> QED
      BY <1>3, <2>3, <2>4, <2>5, <3>6, Writes
  <2>7. CASE ~again
    <3>1. Finish(p, "ack")
      BY <2>3, <2>7
    <3> QED
      BY <1>3, <2>3, <2>4, <2>5, <3>1, WritesAndEnds
  <2> QED
    BY <2>6, <2>7
<1>10. CASE kind # "START_COMPENSATION_VERIFICATION" /\ result # "APPLIED"
  <2>1. Answer(p, result)
    BY <1>1, <1>2, <1>10 DEF Outcome
  <2>2. Quiet
    BY <2>1 DEF Answer
  <2> HIDE DEF result
  <2> QED
    BY <1>3, <2>1, <2>2, AnswerKeeps, QuietJournal
<1> QED
  BY <1>8, <1>9, <1>10

-----------------------------------------------------------------------------
(***************************************************************************)
(* A verification ends, or begins anew                                    *)
(***************************************************************************)

\* The names of the rows a conclusion writes
LEMMA ConclusionNames ==
  ASSUME CompensationInv, NEW p \in Processes, h[p].pc # "idle"
  PROVE  ResultRow(p) \in Identities /\ TransitionRow(p) \in Identities
<1>1. h[p].num \in Nat
  BY HandlerOf
<1>2. PICK n : n = WrittenNth(p)
  OBVIOUS
<1>3. n \in Nat
  <2>1. CASE Resumes(p)
    BY <1>1, <1>2, <2>1 DEF WrittenNth
  <2>2. CASE ~Resumes(p) /\ verifs[h[p].vid].id = Id(p, "verification", Nth(h[p].num))
    BY <1>1, <1>2, <2>2 DEF WrittenNth, Nth
  <2>3. CASE ~Resumes(p) /\ verifs[h[p].vid].id # Id(p, "verification", Nth(h[p].num))
    BY <1>1, <1>2, <2>3 DEF WrittenNth
  <2> QED
    BY <2>1, <2>2, <2>3
<1>4. PICK a, b : /\ a = (IF Resumes(p) THEN "resume_result" ELSE "result")
                  /\ b = (IF Resumes(p) THEN "resume_complete" ELSE "complete")
  OBVIOUS
<1>5. a \in Roles /\ b \in Roles
  BY <1>4 DEF Roles
<1>6. Id(p, a, n) \in Identities /\ Id(p, b, n) \in Identities
  BY <1>3, <1>5, IdKnown
<1> QED
  BY <1>2, <1>4, <1>6 DEF ResultRow, TransitionRow

\* The result that is written decides for the attempt it is about, and no other
\* result about that attempt does
LEMMA VerdictWritten ==
  ASSUME CompensationInv, NEW p \in Processes, h[p].pc = "conclude",
         op.state = "COMPENSATING", VerificationAdmitted(p), verifs' = SettleVerification(p)
  PROVE  /\ SameRequests /\ h[p].vid \in DOMAIN verifs
         /\ verifs[h[p].vid].attempt = Len(attempts)
         /\ verifs'[h[p].vid].result = h[p].res
         /\ \A i \in DOMAIN verifs : (i # h[p].vid /\ verifs[i].attempt = Len(attempts)) =>
              verifs'[i].result \notin {"APPLIED", "NOT_APPLIED"}
         /\ \A i \in DOMAIN verifs : i # h[p].vid => verifs'[i].result = verifs[i].result
         /\ comp.state = "VERIFYING"
<1>1. VerifsFit
  BY DEF CompensationInv, RowsInv
<1>2. /\ SameRequests /\ h[p].vid \in DOMAIN verifs
      /\ verifs'[h[p].vid].result = IF verifs[h[p].vid].result = None THEN h[p].res
                                    ELSE verifs[h[p].vid].result
      /\ \A i \in DOMAIN verifs : i # h[p].vid => verifs'[i] = verifs[i]
  BY SettleKnown
<1>3. verifs[h[p].vid].version = op.version /\ verifs[h[p].vid].attempt = Len(attempts)
  BY DEF VerificationAdmitted
<1>4. comp.state = "VERIFYING" /\ verifs[h[p].vid].result = None
  BY <1>1, <1>2, <1>3 DEF VerifsFit
<1>5. \A i \in DOMAIN verifs : verifs[i].attempt = Len(attempts) =>
        verifs[i].result \notin {"APPLIED", "NOT_APPLIED"}
  BY <1>1 DEF VerifsFit, Open
<1> QED
  BY <1>2, <1>3, <1>4, <1>5

\* A decisive result completes the attempt it is about with the outcome it expects, or
\* finds it completed without evidence to the contrary
LEMMA AttemptConcluded ==
  ASSUME CompensationInv, NEW p \in Processes, attempts # <<>>,
         NEW expected \in {"APPLIED", "NOT_APPLIED"}, expected = "APPLIED" => landed,
         CompletionAdmitted(p, expected), attempts' = Complete(Len(attempts), expected)
  PROVE  SameAttempts /\ attempts'[Len(attempts)].out \in {expected, "UNKNOWN"}
<1>1. Len(attempts) \in DOMAIN attempts
  BY LatestKnown
<1>2. expected \in Outcomes
  BY DEF Outcomes
<1>3. /\ SameAttempts
      /\ attempts'[Len(attempts)].out = IF attempts[Len(attempts)].out = "STARTED"
                                        THEN expected ELSE attempts[Len(attempts)].out
  BY <1>1, <1>2, CompleteKnown
<1>4. Latest.out = "STARTED" \/ Latest.out \in {expected, "UNKNOWN"}
  BY DEF CompletionAdmitted
<1> QED
  BY <1>3, <1>4 DEF Latest

Decisive == {"COMPENSATION_APPLIED", "COMPENSATION_OUTCOME_FAILED"}

LEMMA ConcludeMoves ==
  ASSUME CompensationInv, NEW p \in Processes, h[p].pc = "conclude",
         NEW kind \in Concluding,
         kind = ReconciledKind(h[p].res, h[p].out, h[p].num, h[p].cnt, Descriptor, Obligation),
         NEW expected, expected = (IF kind = "COMPENSATION_APPLIED" THEN "APPLIED"
                                   ELSE "NOT_APPLIED"),
         op.state = "COMPENSATING", RowMayFollow(kind), VerificationAdmitted(p),
         kind \in Decisive => CompletionAdmitted(p, expected),
         MoveRows(kind),
         attempts' = IF kind \in Decisive THEN Complete(Len(attempts), expected) ELSE attempts,
         verifs' = SettleVerification(p), UNCHANGED <<landed, actions>>,
         used' \subseteq Identities, outbox' \in Seq(Lines)
  PROVE  Moved
<1>1. PICK res \in VerificationResults : res = h[p].res
  BY HandlerOf DEF Fits, FitsVerification
<1>2. res = "APPLIED" => landed
  BY <1>1, HandlerOf DEF Fits, FitsVerification
<1>3. PICK latest, number, count :
        latest = h[p].out /\ number = h[p].num /\ count = h[p].cnt
  OBVIOUS
<1>4. /\ kind = "COMPENSATION_APPLIED" => res = "APPLIED"
      /\ kind = "COMPENSATION_OUTCOME_FAILED" => res = "NOT_APPLIED"
      /\ kind = "COMPENSATION_OUTCOME_UNKNOWN" => res = "UNKNOWN"
  BY <1>1, <1>3, ResultKinds
<1>5. /\ SameRequests /\ h[p].vid \in DOMAIN verifs
      /\ verifs[h[p].vid].attempt = Len(attempts)
      /\ verifs'[h[p].vid].result = res
      /\ \A i \in DOMAIN verifs : (i # h[p].vid /\ verifs[i].attempt = Len(attempts)) =>
           verifs'[i].result \notin {"APPLIED", "NOT_APPLIED"}
      /\ \A i \in DOMAIN verifs : i # h[p].vid => verifs'[i].result = verifs[i].result
      /\ comp.state = "VERIFYING"
  BY <1>1, VerdictWritten
<1>6. attempts # <<>> /\ comp.state \in CompensationStates /\ comp.state # NoRow
  <2>1. comp.state \notin {NoRow, "PENDING"}
    BY <1>5 DEF NoRow
  <2> QED
    BY <1>5, <2>1, AttemptMade DEF CompensationStates
<1>7. CASE kind = "COMPENSATION_APPLIED"
  <2>1. SameAttempts /\ attempts'[Len(attempts)].out \in {"APPLIED", "UNKNOWN"}
    BY <1>2, <1>4, <1>6, <1>7, AttemptConcluded DEF Decisive
  <2>2. op'.state = "COMPENSATED"
    BY <1>7, CompensationEdges DEF MoveRows
  <2>3. SettledAs(TRUE)
    BY <1>2, <1>4, <1>5, <1>7, <2>1, <2>2 DEF SettledAs
  <2> QED
    BY <1>5, <1>6, <1>7, <2>1, <2>3, SettledMoves DEF Settling
<1>8. CASE kind = "COMPENSATION_OUTCOME_FAILED"
  <2>1. SameAttempts /\ attempts'[Len(attempts)].out \in {"NOT_APPLIED", "UNKNOWN"}
    BY <1>6, <1>8, AttemptConcluded DEF Decisive
  <2>2. op'.state = "COMPENSATION_FAILED"
    BY <1>8, CompensationEdges DEF MoveRows
  <2>3. SettledAs(FALSE)
    BY <1>4, <1>5, <1>8, <2>1, <2>2 DEF SettledAs
  <2> QED
    BY <1>5, <1>6, <1>8, <2>1, <2>3, SettledMoves DEF Settling
<1>9. CASE kind = "COMPENSATION_OUTCOME_UNKNOWN"
  <2>1. SameAttempts
    BY <1>9, AttemptsStay DEF Decisive
  <2>2. \A i \in DOMAIN verifs : verifs'[i].result \in {"APPLIED", "NOT_APPLIED"} =>
                                   verifs'[i].result = verifs[i].result
    BY <1>4, <1>5, <1>9
  <2> QED
    BY <1>5, <1>6, <1>9, <2>1, <2>2, UnknownMoves
<1>10. CASE kind = "COMPENSATION_ESCALATE"
  <2>1. SameAttempts
    BY <1>10, AttemptsStay DEF Decisive
  <2>2. /\ op' = [op EXCEPT !.state = "MANUAL_INTERVENTION", !.version = @ + 1]
        /\ comp' = comp
    BY <1>10, CompensationEdges, CompensationTargets DEF MoveRows
  <2>3. op.state \in Working
    BY DEF Working, Open
  <2> QED
    BY <1>5, <1>6, <2>1, <2>2, <2>3, EscalationMoves
<1> QED
  BY <1>7, <1>8, <1>9, <1>10 DEF Concluding

LEMMA RetryAfterKeeps ==
  ASSUME CompensationInv, NEW p \in Processes, h[p].pc = "conclude",
         h[p].res = "NOT_APPLIED", h[p].num < Cap, RetryAfterVerification(p)
  PROVE  CompensationInv' /\ Journal
<1>1. PICK next : next = h[p].num + 1
  OBVIOUS
<1>2. PICK v, c : v = h[p].ver /\ c = h[p].cver + 1
  OBVIOUS
<1> DEFINE written == {ResultRow(p), Id(p, "attempt", next)}
           result == ProgressResult(h[p].ver, h[p].cver, Inserted(p, next),
                                    RetryAfterAdmitted(p, next), written)
           called == [At(p, "call") EXCEPT !.ver = v, !.cver = c, !.num = next]
<1>3. /\ RowTypes /\ h[p].ver \in Nat /\ h[p].cver \in Nat /\ h[p].num \in Nat
      /\ op.version \in Nat /\ comp.version \in Nat /\ h[p].pc # "idle"
  BY HandlerOf
<1>4. next \in Nat /\ v \in Nat /\ c \in Nat /\ next <= Cap
  BY <1>1, <1>2, <1>3, CapKnown
<1>5. /\ result \in {"APPLIED", "ALREADY_APPLIED"} =>
           op.version = h[p].ver /\ op.state = "COMPENSATING"
      /\ result = "APPLIED" => RetryAfterAdmitted(p, next)
      /\ result = "ALREADY_APPLIED" => Inserted(p, next)
      /\ result \in {"APPLIED", "ALREADY_APPLIED", "REJECTED", "CONFLICT", "DUPLICATE"}
  BY <1>3, ProgressMeans
<1>6. PICK r : r = Called(p, v, c, next)
  OBVIOUS
<1>7. Calls(p, v, next, r)
  BY <1>4, <1>6, CalledKnown
<1>8. r \in Handlers
  BY <1>7 DEF Calls
<1>9. called = r
  BY <1>6 DEF Called
<1>10. CASE result = "APPLIED"
  <2>1. /\ Progress("EXECUTING") /\ attempts' = StartAttempt(p)
        /\ verifs' = SettleVerification(p)
        /\ used' = used \union written
        /\ Emit(<<"COMPENSATE">>, op.version)
        /\ Become(p, called)
        /\ UNCHANGED <<queue, landed, actions, crashes>>
    BY <1>1, <1>2, <1>10 DEF RetryAfterVerification
  <2>2. op.version = h[p].ver /\ op.state = "COMPENSATING" /\ VerificationAdmitted(p)
        /\ next = Len(attempts) + 1
    BY <1>5, <1>10 DEF RetryAfterAdmitted
  <2>3. op' = op /\ comp' = [state |-> "EXECUTING", version |-> comp.version + 1]
    BY <2>1 DEF Progress
  <2>4. /\ SameRequests /\ h[p].vid \in DOMAIN verifs
        /\ verifs[h[p].vid].attempt = Len(attempts)
        /\ verifs'[h[p].vid].result = "NOT_APPLIED" /\ comp.state = "VERIFYING"
    BY <2>1, <2>2, VerdictWritten
  <2>5. Justified
    BY <2>4 DEF Justified, SameRequests
  <2>6. written \subseteq Identities
    <3>1. "attempt" \in Roles
      BY DEF Roles
    <3>2. Id(p, "attempt", next) \in Identities /\ ResultRow(p) \in Identities
      BY <1>3, <1>4, <3>1, IdKnown, ConclusionNames
    <3> QED
      BY <3>2
  <2>7. used' \subseteq Identities
    BY <1>3, <2>1, <2>6 DEF RowTypes
  <2>8. outbox' \in Seq(Lines) /\ Len(outbox) <= Len(outbox')
    <3>1. <<"COMPENSATE">> \in Seq(Commands)
      BY DEF Commands
    <3> QED
      BY <1>3, <2>1, <3>1, EmitKnown
  <2>9. comp' \in CompRows /\ comp'.state = "EXECUTING" /\ comp.state # NoRow
    BY <1>3, <2>3, <2>4 DEF CompRows, CompensationStates, NoRow
  <2>10. op' \in OpRows /\ op.state \in Working
    BY <1>3, <2>2, <2>3 DEF RowTypes, Working, Open
  <2>11. ~(Len(attempts) + 1 > Cap)
    BY <1>4, <2>2, CapKnown
  <2>12. Attempted(p)
    BY <2>1, <2>2, <2>3, <2>4, <2>5, <2>7, <2>8, <2>9, <2>10, <2>11
       DEF Attempted, StartAttempt
  <2>13. h' = [h EXCEPT ![p] = r]
    BY <1>9, <2>1 DEF Become
  <2>14. v <= op'.version
    BY <1>2, <1>3, <2>2, <2>3
  <2>15. After(p, r)
    BY <1>3, <1>4, <1>7, <2>1, <2>2, <2>14, ClaimedAfter
  <2> QED
    BY <1>3, <1>8, <2>1, <2>8, <2>12, <2>13, <2>15, Writes
<1>11. CASE result = "ALREADY_APPLIED"
  <2>1. Become(p, called) /\ Quiet
    BY <1>1, <1>2, <1>11 DEF RetryAfterVerification
  <2>2. h' = [h EXCEPT ![p] = r]
    BY <1>9, <2>1 DEF Become
  <2>3. op.version = h[p].ver /\ next = Len(attempts) /\ Latest.by = h[p].ns
    BY <1>5, <1>11 DEF Inserted
  <2>4. r.pc = "call" /\ r.ns = h[p].ns /\ r.ver = h[p].ver /\ r.num = next /\ r.old = FALSE
    BY <1>2, <1>7 DEF Calls
  <2>5. next \in DOMAIN attempts
    BY <1>1, <1>3, <1>4, <2>3, Numbers
  <2>6. attempts[r.num].by = r.ns
    BY <2>3, <2>4 DEF Latest
  <2>7. FitsName(p, r)
    BY <1>3, <2>4, HandlerOf DEF Fits, FitsName
  <2>8. FitsAttempt(p, r) /\ FitsVerification(r)
    BY <2>4, <2>5, <2>6 DEF FitsAttempt, FitsVerification, Deciding
  <2>9. Fits(p, r)
    BY <1>3, <2>3, <2>4, <2>7, <2>8 DEF Fits
  <2> QED
    BY <1>3, <1>8, <2>1, <2>2, <2>4, <2>9, StepKeeps, QuietJournal
<1>12. CASE result \in {"REJECTED", "CONFLICT", "DUPLICATE"}
  <2>1. Answer(p, result)
    BY <1>1, <1>12 DEF RetryAfterVerification
  <2>2. Quiet
    BY <2>1 DEF Answer
  <2> HIDE DEF result
  <2> QED
    BY <1>3, <2>1, <2>2, AnswerKeeps, QuietJournal
<1> HIDE DEF result
<1> QED
  BY <1>5, <1>10, <1>11, <1>12

LEMMA ConcludeKeeps ==
  ASSUME CompensationInv, NEW p \in Processes, Conclude(p)
  PROVE  CompensationInv' /\ Journal
<1>1. PICK kind : kind = ReconciledKind(h[p].res, h[p].out, h[p].num, h[p].cnt,
                                        Descriptor, Obligation)
  OBVIOUS
<1>2. PICK expected : expected = IF kind = "COMPENSATION_APPLIED" THEN "APPLIED"
                                 ELSE "NOT_APPLIED"
  OBVIOUS
<1> DEFINE written == {TransitionRow(p), IF kind = "COMPENSATION_ESCALATE"
                                         THEN Id(p, "manual", 0) ELSE ResultRow(p)}
           result == ApplyResult(kind, h[p].ver,
                       /\ ParentAgrees /\ RowMayFollow(kind)
                       /\ VerificationAdmitted(p)
                       /\ kind \in Decisive => CompletionAdmitted(p, expected), written)
<1>3. h[p].pc = "conclude" /\ h[p].pc # "idle"
  BY DEF Conclude
<1>4. /\ RowTypes /\ h[p].ver \in Nat /\ op.version \in Nat
      /\ h[p].res \in VerificationResults
  BY <1>3, HandlerOf DEF Fits, FitsVerification
<1>5. /\ kind \in Concluding \union {"RETRY_COMPENSATION_AFTER_VERIFICATION"}
      /\ kind = "RETRY_COMPENSATION_AFTER_VERIFICATION" =>
           h[p].res = "NOT_APPLIED" /\ h[p].num < Cap
  <2>1. PICK latest, number, count :
          latest = h[p].out /\ number = h[p].num /\ count = h[p].cnt
    OBVIOUS
  <2> QED
    BY <1>1, <1>4, <2>1, ResultKinds
<1>6. CASE kind = "RETRY_COMPENSATION_AFTER_VERIFICATION"
  <2>1. RetryAfterVerification(p)
    BY <1>1, <1>6 DEF Conclude
  <2> QED
    BY <1>3, <1>5, <1>6, <2>1, RetryAfterKeeps
<1>7. CASE kind # "RETRY_COMPENSATION_AFTER_VERIFICATION" /\ result = "APPLIED"
  <2>1. kind \in Concluding
    BY <1>5, <1>7
  <2>2. /\ op.state = "COMPENSATING" /\ RowMayFollow(kind) /\ VerificationAdmitted(p)
        /\ kind \in Decisive => CompletionAdmitted(p, expected)
    <3>1. /\ op.state = Source(kind) /\ ParentAgrees /\ RowMayFollow(kind)
          /\ VerificationAdmitted(p)
          /\ kind \in Decisive => CompletionAdmitted(p, expected)
      BY <1>4, <1>7, AppliedMeans
    <3> QED
      BY <2>1, <3>1, CompensationEdges DEF Concluding
  <2>3. /\ MoveRows(kind)
        /\ attempts' = IF kind \in Decisive THEN Complete(Len(attempts), expected) ELSE attempts
        /\ verifs' = SettleVerification(p)
        /\ used' = used \union written
        /\ EmitFor(kind) /\ Finish(p, "ack")
        /\ UNCHANGED <<queue, landed, actions, crashes>>
    BY <1>1, <1>2, <1>7 DEF Conclude, Decisive
  <2>4. written \subseteq Identities
    <3>1. "manual" \in Roles
      BY DEF Roles
    <3>2. /\ Id(p, "manual", 0) \in Identities
          /\ ResultRow(p) \in Identities /\ TransitionRow(p) \in Identities
      BY <1>3, <3>1, IdKnown, ConclusionNames
    <3> QED
      BY <3>2
  <2>5. used' \subseteq Identities /\ outbox' \in Seq(Lines) /\ Len(outbox) <= Len(outbox')
    BY <1>4, <2>3, <2>4, EmitForKnown DEF RowTypes
  <2>6. Moved
    <3> HIDE DEF written
    <3> QED
      BY <1>1, <1>2, <1>3, <2>1, <2>2, <2>3, <2>5, ConcludeMoves
  <2> QED
    BY <1>3, <2>3, <2>5, <2>6, WritesAndEnds
<1>8. CASE kind # "RETRY_COMPENSATION_AFTER_VERIFICATION" /\ result # "APPLIED"
  <2>1. Answer(p, result)
    BY <1>1, <1>2, <1>8 DEF Conclude, Decisive
  <2>2. Quiet
    BY <2>1 DEF Answer
  <2> HIDE DEF result
  <2> QED
    BY <1>3, <2>1, <2>2, AnswerKeeps, QuietJournal
<1> QED
  BY <1>6, <1>7, <1>8

LEMMA RestartKeeps ==
  ASSUME CompensationInv, NEW p \in Processes, Restart(p)
  PROVE  CompensationInv' /\ Journal
<1> DEFINE kind == "COMPENSATION_UNKNOWN_RETRY"
           written == {Id(p, "parent_retry", h[p].num), Id(p, "resume", h[p].num)}
           result == ApplyResult(kind, h[p].ver, ParentAgrees /\ RowMayFollow(kind), written)
<1>1. h[p].pc = "restart" /\ h[p].pc # "idle"
  BY DEF Restart
<1>2. /\ RowTypes /\ h[p].ver \in Nat /\ h[p].num \in Nat
      /\ op.version \in Nat /\ comp.version \in Nat /\ Fits(p, h[p])
  BY HandlerOf
<1>3. written \subseteq Identities
  <2>1. "parent_retry" \in Roles /\ "resume" \in Roles
    BY DEF Roles
  <2>2. Id(p, "parent_retry", h[p].num) \in Identities /\ Id(p, "resume", h[p].num) \in Identities
    BY <1>1, <1>2, <2>1, IdKnown
  <2> QED
    BY <2>2
<1>4. result \in {"APPLIED", "ALREADY_APPLIED", "REJECTED", "CONFLICT", "DUPLICATE"}
  BY <1>2, ApplyResults
<1>5. CASE result = "APPLIED"
  <2>1. op.version = h[p].ver /\ op.state = "COMPENSATION_UNKNOWN"
    BY <1>2, <1>5, AppliedMeans, CompensationEdges
  <2>2. /\ op' = [op EXCEPT !.state = Target(kind), !.version = @ + 1]
        /\ comp' = [state |-> "VERIFYING", version |-> comp.version + 2]
        /\ verifs' = Append(verifs, [id |-> Id(p, "resume", h[p].num),
                                     attempt |-> Verified(h[p].num),
                                     version |-> op.version + 1, result |-> None])
        /\ used' = used \union written
        /\ Emit(<<"COMPENSATE", "VERIFY">>, op.version + 1)
        /\ Become(p, [At(p, "find") EXCEPT !.ver = op.version + 1, !.cver = comp.version + 2])
        /\ UNCHANGED <<attempts, queue, landed, actions, crashes>>
    BY <1>5 DEF Restart
  <2>3. attempts # <<>> /\ h[p].num = Len(attempts) + 1
    BY <1>1, <1>2, <2>1 DEF Fits, FitsAttempt, Deciding
  <2>4. PICK v, c : v = op.version + 1 /\ c = comp.version + 2
    OBVIOUS
  <2>5. v \in Nat /\ c \in Nat
    BY <1>2, <2>4
  <2>6. /\ op' \in OpRows /\ op'.effect = op.effect /\ op'.state = "COMPENSATING"
        /\ op'.version = v
    <3>1. op \in OpRows
      BY <1>2 DEF RowTypes
    <3>2. op' = [op EXCEPT !.state = "COMPENSATING", !.version = v]
      BY <2>2, <2>4, CompensationEdges
    <3> QED
      BY <2>5, <3>1, <3>2 DEF OpRows, OperationStates
  <2>7. PICK row : row = [id |-> Id(p, "resume", h[p].num), attempt |-> Verified(h[p].num),
                          version |-> v, result |-> None]
    OBVIOUS
  <2>8. Verified(h[p].num) = Len(attempts) /\ Len(attempts) \in Nat
    BY <1>2, <2>3, Numbers DEF Verified
  <2>9. h[p].ns \in Namespaces
    BY <1>1, RowExists
  <2>10. /\ row \in VerifRows /\ row.attempt = Len(attempts) /\ row.version = op'.version
         /\ row.result = None /\ verifs' = Append(verifs, row)
    <3>1. row \in VerifRows
      BY <1>2, <2>5, <2>7, <2>8, <2>9 DEF VerifRows, Id
    <3> QED
      BY <2>2, <2>4, <2>6, <2>7, <2>8, <3>1
  <2>11. outbox' \in Seq(Lines) /\ Len(outbox) <= Len(outbox')
    <3>1. <<"COMPENSATE", "VERIFY">> \in Seq(Commands)
      BY DEF Commands
    <3>2. Emit(<<"COMPENSATE", "VERIFY">>, v)
      BY <2>2, <2>4
    <3> QED
      BY <1>2, <2>5, <3>1, <3>2, EmitKnown
  <2>12. used' \subseteq Identities
    BY <1>2, <1>3, <2>2 DEF RowTypes
  <2>13. comp.state # NoRow
    BY <1>1, RowExists DEF CompensationStates, NoRow
  <2>14. comp' \in CompRows /\ comp'.state = "VERIFYING"
    BY <2>2, <2>4, <2>5 DEF CompRows, CompensationStates
  <2>15. SameAttempts
    BY <2>2, AttemptsStay
  <2>16. op.state \in Open /\ op'.version = op.version + 1
    BY <2>1, <2>4, <2>6 DEF Open
  <2>17. Requested
    BY <2>2, <2>3, <2>6, <2>10, <2>11, <2>12, <2>13, <2>14, <2>15, <2>16 DEF Requested
  <2>18. Become(p, [At(p, "find") EXCEPT !.ver = v, !.cver = c])
    BY <2>2, <2>4
  <2>19. PICK r \in Handlers : /\ h' = [h EXCEPT ![p] = r] /\ r.pc = "find"
                               /\ r.ns = h[p].ns /\ r.ver = v
    BY <2>5, <2>18, FindPosted
  <2>20. After(p, r)
    BY <2>5, <2>6, <2>19 DEF After, Plain
  <2> QED
    BY <1>1, <2>2, <2>11, <2>17, <2>19, <2>20, Writes
<1>6. CASE result = "ALREADY_APPLIED"
  <2>1. Finish(p, "rejoin") /\ Quiet
    BY <1>6 DEF Restart
  <2> QED
    BY <1>1, <2>1, FinishKeeps, QuietJournal
<1>7. CASE result \in {"REJECTED", "CONFLICT", "DUPLICATE"}
  <2>1. Answer(p, result)
    BY <1>7 DEF Restart
  <2>2. Quiet
    BY <2>1 DEF Answer
  <2> HIDE DEF result
  <2> QED
    BY <1>1, <2>1, <2>2, AnswerKeeps, QuietJournal
<1> QED
  BY <1>4, <1>5, <1>6, <1>7

-----------------------------------------------------------------------------
(***************************************************************************)
(* Steps of no handler: a compensation is asked for, a command is         *)
(* republished, or stranded work is handed to a person                    *)
(***************************************************************************)

\* The handlers under way know what they knew
LEMMA BystandersKeep ==
  ASSUME CompensationInv, RowsInv', SideTypes', h' = h, attempts' = attempts,
         NEW name, Grows(name)
  PROVE  CompensationInv'
<1>1. /\ RowTypes /\ SideTypes /\ HandlersFit /\ Distinct /\ RowTypes'
  BY DEF CompensationInv, RowsInv
<1>2. ASSUME NEW q \in Processes
      PROVE  Fits(q, h[q])'
  <2>1. PICK s \in Handlers : s = h[q]
    BY <1>1 DEF SideTypes
  <2>2. Fits(q, s)
    BY <1>1, <2>1 DEF HandlersFit
  <2>3. Fits(q, s)'
    BY <1>1, <2>2, FitsKeeps
  <2>4. h'[q] = s
    BY <2>1
  <2> QED
    BY <2>3, <2>4 DEF Fits, FitsName, FitsAttempt, FitsVerification
<1>3. HandlersFit'
  BY <1>2 DEF HandlersFit
<1>4. Distinct'
  BY <1>1 DEF Distinct
<1> QED
  BY <1>3, <1>4 DEF CompensationInv

\* A compensation is asked for where there is none
Started ==
  /\ comp.state = NoRow /\ op.state \in DOMAIN StartKind
  /\ op' \in OpRows /\ op'.state = "COMPENSATING" /\ op'.effect = op.effect
  /\ op'.version = op.version + 1
  /\ comp' = [state |-> "PENDING", version |-> 1]
  /\ UNCHANGED <<attempts, verifs, landed>>

LEMMA StartKeeps ==
  ASSUME CompensationInv, NEW o \in Operators, Start(o)
  PROVE  CompensationInv' /\ Started
<1>1. RowTypes /\ Begun /\ SideTypes /\ op \in OpRows /\ op.version \in Nat
  BY Numbers DEF CompensationInv, RowsInv, RowTypes
<1>2. /\ actions < MaxActions /\ op.state \in DOMAIN StartKind /\ comp.state = NoRow
      /\ op' = [op EXCEPT !.state = "COMPENSATING", !.version = @ + 1]
      /\ comp' = [state |-> "PENDING", version |-> 1]
      /\ EmitFor(StartKind[op.state])
      /\ used' = used \union {<<<<"action", actions + 1>>, "start", 0>>}
      /\ actions' = actions + 1
      /\ UNCHANGED <<attempts, verifs, queue, landed, h, crashes>>
  BY DEF Start
<1>3. actions \in Nat /\ actions' \in 0..MaxActions /\ actions <= actions'
  BY <1>1, <1>2, CompensationAssumption DEF SideTypes
<1>4. PICK v : v = op.version + 1
  OBVIOUS
<1>5. /\ op' \in OpRows /\ op'.effect = op.effect /\ op'.state = "COMPENSATING"
      /\ op'.version = v
  <2>1. op' = [op EXCEPT !.state = "COMPENSATING", !.version = v] /\ v \in Nat
    BY <1>1, <1>2, <1>4
  <2> QED
    BY <1>1, <2>1 DEF OpRows, OperationStates
<1>6. Started
  BY <1>2, <1>4, <1>5 DEF Started
<1>7. outbox' \in Seq(Lines) /\ Len(outbox) <= Len(outbox')
  BY <1>1, <1>2, EmitForKnown
<1>8. used' \subseteq Identities
  <2>1. <<"action", actions + 1>> \in Namespaces
    BY <1>3 DEF Namespaces
  <2>2. "start" \in Roles
    BY DEF Roles
  <2>3. <<<<"action", actions + 1>>, "start", 0>> \in Identities
    BY <2>1, <2>2 DEF Identities
  <2> QED
    BY <1>1, <1>2, <2>3 DEF RowTypes
<1>9. attempts = <<>> /\ DOMAIN attempts = {}
  <2>1. attempts = <<>>
    BY <1>1, <1>2 DEF Begun
  <2> QED
    BY <1>1, <2>1, Numbers
<1>10. DOMAIN verifs = {}
  BY <1>1, <1>9 DEF RowTypes
<1>11. comp' \in CompRows /\ comp'.state = "PENDING" /\ comp'.state # NoRow
  BY <1>2 DEF CompRows, CompensationStates, NoRow
<1>12. RowTypes'
  BY <1>1, <1>2, <1>5, <1>7, <1>8, <1>11 DEF RowTypes
<1>13. Begun' /\ RowsAgree'
  BY <1>2, <1>5, <1>9, <1>11, ParentOfRow DEF Begun, RowsAgree
<1>14. VerifsFit' /\ AttemptsFit' /\ AttemptsAreAllowed'
  BY <1>2, <1>5, <1>9, <1>10 DEF VerifsFit, AttemptsFit, AttemptsAreAllowed
<1>15. SettledByEvidence'
  BY <1>5 DEF SettledByEvidence
<1>16. RowsInv'
  BY <1>12, <1>13, <1>14, <1>15 DEF RowsInv
<1>17. SideTypes'
  <2>1. Len(outbox) \in Nat /\ Len(outbox') \in Nat
    BY <1>1, <1>7, SeqDomain DEF RowTypes
  <2>2. 0..Len(outbox) \subseteq 0..Len(outbox')
    BY <1>7, <2>1
  <2> QED
    BY <1>1, <1>2, <1>3, <2>2 DEF SideTypes
<1>18. Grows(None)
  <2>1. Len(attempts) \in Nat /\ Len(verifs) \in Nat
    BY <1>1, Numbers
  <2>2. op.version <= op'.version /\ op'.version # op.version
    BY <1>1, <1>4, <1>5
  <2>3. Len(attempts) <= Len(attempts') /\ Len(verifs) <= Len(verifs')
    BY <1>2, <2>1
  <2> QED
    BY <1>2, <1>3, <1>5, <1>9, <1>11, <2>2, <2>3 DEF Grows
<1> QED
  BY <1>2, <1>6, <1>16, <1>17, <1>18, BystandersKeep

\* A message was written, so there is a compensation, and stranded work is work
LEMMA StrandedKnown ==
  ASSUME CompensationInv, Stranded
  PROVE  comp.state # NoRow /\ op.state \in Working /\ outbox[Len(outbox)].cmd \in Commands
<1>1. RowTypes /\ Begun /\ RowsAgree
  BY DEF CompensationInv, RowsInv
<1>2. comp.state # NoRow
  BY <1>1 DEF Stranded, Begun
<1>3. Len(outbox) \in DOMAIN outbox
  BY <1>1, SeqDomain DEF Stranded, RowTypes
<1>4. outbox[Len(outbox)] \in Lines
  BY <1>1, <1>3, SeqElement DEF RowTypes
<1>5. PICK command \in Commands : command = outbox[Len(outbox)].cmd
  BY <1>4 DEF Lines
<1>6. op.state \in CommandStates(command)
  BY <1>5 DEF Stranded
<1>7. op.state # "MANUAL_INTERVENTION" /\ op.state # "COMPENSATED"
  BY <1>6 DEF CommandStates, Commands
<1>8. op.state \in Working
  BY <1>1, <1>2, <1>7, RowOfParent DEF RowsAgree
<1> QED
  BY <1>2, <1>5, <1>8

LEMMA RepublishKeeps ==
  ASSUME CompensationInv, Republish
  PROVE  CompensationInv' /\ Journal
<1>1. /\ Stranded
      /\ outbox' = Append(outbox, [cmd |-> outbox[Len(outbox)].cmd,
                                   version |-> op.version, replay |-> TRUE])
      /\ UNCHANGED <<op, comp, attempts, verifs, used, queue, landed, h, actions, crashes>>
  BY DEF Republish
<1>2. comp.state # NoRow /\ outbox[Len(outbox)].cmd \in Commands
  BY <1>1, StrandedKnown
<1>3. RowTypes /\ SideTypes /\ op.version \in Nat /\ Len(attempts) \in Nat /\ Len(verifs) \in Nat
  BY Numbers DEF CompensationInv, RowsInv
<1>4. PICK line : line = [cmd |-> outbox[Len(outbox)].cmd, version |-> op.version,
                          replay |-> TRUE]
  OBVIOUS
<1>5. line \in Lines
  BY <1>2, <1>3, <1>4 DEF Lines
<1>6. outbox \in Seq(Lines) /\ Len(outbox) \in Nat
  BY <1>3, SeqDomain DEF RowTypes
<1>7. outbox' \in Seq(Lines) /\ Len(outbox') = Len(outbox) + 1
  BY <1>1, <1>4, <1>5, <1>6, SeqAppend
<1>8. RowTypes' /\ Begun'
  BY <1>1, <1>2, <1>3, <1>7 DEF RowTypes, Begun, CompensationInv, RowsInv
<1>9. RowsAgree' /\ SettledByEvidence' /\ AttemptsAreAllowed' /\ AttemptsFit'
  BY <1>1 DEF CompensationInv, RowsInv, RowsAgree, SettledByEvidence, AttemptsAreAllowed,
              AttemptsFit, Latest, Descriptor
<1>10. VerifsFit'
  BY <1>1 DEF CompensationInv, RowsInv, VerifsFit
<1>11. RowsInv'
  BY <1>8, <1>9, <1>10 DEF RowsInv
<1>12. SideTypes'
  <2>1. 0..Len(outbox) \subseteq 0..Len(outbox')
    BY <1>6, <1>7
  <2> QED
    BY <1>1, <1>3, <2>1 DEF SideTypes
<1>13. Grows(None)
  BY <1>1, <1>3, ActionsKnown DEF Grows
<1>14. CompensationInv'
  BY <1>1, <1>11, <1>12, <1>13, BystandersKeep
<1> QED
  BY <1>1, <1>14 DEF Journal

LEMMA ExhaustKeeps ==
  ASSUME CompensationInv, Exhaust
  PROVE  CompensationInv' /\ Journal
<1>1. /\ Stranded
      /\ op' = [op EXCEPT !.state = Target(ExhaustedKind[op.state]), !.version = @ + 1]
      /\ UNCHANGED <<comp, attempts, verifs, used, outbox, queue, landed, h, actions, crashes>>
  BY DEF Exhaust
<1>2. comp.state # NoRow /\ op.state \in Working
  BY <1>1, StrandedKnown
<1>3. op' = [op EXCEPT !.state = "MANUAL_INTERVENTION", !.version = @ + 1]
  BY <1>1, <1>2, EscalationEdges
<1>4. SameAttempts /\ SameRequests
  BY <1>1, AttemptsStay, RequestsStay
<1>5. used' \subseteq Identities /\ outbox' \in Seq(Lines)
  BY <1>1 DEF CompensationInv, RowsInv, RowTypes
<1>6. Moved
  BY <1>1, <1>2, <1>3, <1>4, <1>5, EscalationMoves
<1>7. RowsInv' /\ Grows(None)
  BY <1>6, MovedKeeps
<1>8. SideTypes'
  BY <1>1 DEF CompensationInv, SideTypes
<1>9. CompensationInv'
  BY <1>1, <1>7, <1>8, BystandersKeep
<1> QED
  BY <1>6, <1>9 DEF Journal

-----------------------------------------------------------------------------
(***************************************************************************)
(* Every step                                                             *)
(***************************************************************************)

\* A request reaches the provider
Landing == UNCHANGED <<op, comp, attempts, verifs>> /\ attempts # <<>> /\ landed'

LEMMA CallLands ==
  ASSUME CompensationInv, NEW p \in Processes, Call(p)
  PROVE  Journal \/ Landing
<1>1. h[p].pc = "call" /\ UNCHANGED rows
  BY DEF Call
<1>2. landed' = landed \/ landed' = TRUE
  <2>1. landed' = (landed \/ TRUE) \/ landed' = (landed \/ FALSE)
    BY DEF Call
  <2>2. landed \in BOOLEAN
    BY DEF CompensationInv, SideTypes
  <2> QED
    BY <2>1, <2>2
<1>3. Fits(p, h[p]) /\ RowTypes
  BY HandlerOf
<1>4. h[p].num \in DOMAIN attempts
  BY <1>1, <1>3 DEF Fits, FitsAttempt
<1>5. attempts # <<>>
  BY <1>3, <1>4, Numbers
<1> QED
  BY <1>1, <1>2, <1>5 DEF Journal, Landing, rows

LEMMA StepKept ==
  ASSUME CompensationInv, NEW p \in Processes, Step(p)
  PROVE  CompensationInv' /\ (Journal \/ Landing)
<1>1. CASE Claim(p) \/ Outcome(p) \/ Reclaim(p) \/ Leftover(p) \/ Conclude(p) \/ Restart(p)
           \/ Weigh(p) \/ Escalate(p)
  BY <1>1, ClaimKeeps, OutcomeKeeps, ReclaimKeeps, LeftoverKeeps, ConcludeKeeps,
     RestartKeeps, WeighKeeps, EscalateKeeps
<1>2. CASE Call(p)
  BY <1>2, CallKeeps, CallLands
<1>3. CASE \/ Execute(p) \/ Dispatch(p) \/ Peek(p) \/ Recover(p) \/ Recovering(p) \/ Inspect(p)
           \/ Pending(p) \/ Find(p) \/ Verify(p) \/ Gather(p) \/ Unknown(p) \/ Rejoin(p)
  <2>1. CompensationInv'
    BY <1>3, ExecuteKeeps, DispatchKeeps, PeekKeeps, RecoverKeeps, RecoveringKeeps,
       InspectKeeps, PendingKeeps, FindKeeps, VerifyKeeps, GatherKeeps, UnknownKeeps,
       RejoinKeeps
  <2>2. Quiet
    BY <1>3 DEF Execute, Dispatch, Peek, Recover, Recovering, Inspect, Pending, Find, Verify,
                Gather, Unknown, Rejoin
  <2> QED
    BY <2>1, <2>2, QuietJournal
<1> QED
  BY <1>1, <1>2, <1>3 DEF Step

LEMMA NextKept ==
  ASSUME CompensationInv, Next
  PROVE  CompensationInv' /\ (Journal \/ Landing \/ Started)
<1>1. CASE \E w \in Workers : Reply(w) \/ \E e \in DOMAIN outbox : Deliver(w, e)
  <2>1. PICK w \in Workers : Reply(w) \/ \E e \in DOMAIN outbox : Deliver(w, e)
    BY <1>1
  <2>2. CompensationInv'
    BY <2>1, ReplyKeeps, DeliverKeeps
  <2>3. Journal
    BY <2>1 DEF Reply, Deliver, rows, Journal
  <2> QED
    BY <2>2, <2>3
<1>2. CASE \E p \in Processes : Step(p) \/ Crash(p)
  <2>1. PICK p \in Processes : Step(p) \/ Crash(p)
    BY <1>2
  <2>2. CASE Step(p)
    BY <2>2, StepKept
  <2>3. CASE Crash(p)
    <3>1. Journal
      BY <2>3 DEF Crash, rows, Journal
    <3> QED
      BY <2>3, <3>1, CrashKeeps
  <2> QED
    BY <2>1, <2>2, <2>3
<1>3. CASE \E o \in Operators : Start(o) \/ AskRetry(o) \/ AskEscalate(o) \/ AskRecovery(o)
  <2>1. PICK o \in Operators : Start(o) \/ AskRetry(o) \/ AskEscalate(o) \/ AskRecovery(o)
    BY <1>3
  <2>2. CASE Start(o)
    BY <2>2, StartKeeps
  <2>3. CASE AskRetry(o) \/ AskEscalate(o) \/ AskRecovery(o)
    <3>1. CompensationInv'
      BY <2>3, AskRetryKeeps, AskEscalateKeeps, AskRecoveryKeeps
    <3>2. Journal
      BY <2>3 DEF AskRetry, AskEscalate, AskRecovery, rows, Journal
    <3> QED
      BY <3>1, <3>2
  <2> QED
    BY <2>1, <2>2, <2>3
<1>4. CASE Republish
  BY <1>4, RepublishKeeps
<1>5. CASE Exhaust
  BY <1>5, ExhaustKeeps
<1> QED
  BY <1>1, <1>2, <1>3, <1>4, <1>5 DEF Next

\* A step that changes nothing keeps everything
LEMMA StutterKept ==
  ASSUME CompensationInv, UNCHANGED vars
  PROVE  CompensationInv' /\ Journal
<1>1. UNCHANGED <<op, comp, attempts, verifs, used, outbox, queue, landed, h, actions, crashes>>
  BY DEF vars
<1>2. /\ RowTypes /\ Begun /\ RowsAgree /\ VerifsFit /\ AttemptsFit /\ SettledByEvidence
      /\ AttemptsAreAllowed /\ SideTypes /\ HandlersFit /\ Distinct
  BY DEF CompensationInv, RowsInv
<1>3. RowsInv' /\ Grows(None)
  <2>1. actions' \in Nat /\ actions <= actions'
    BY <1>1, <1>2, ActionsKnown
  <2>2. UNCHANGED rows /\ (landed => landed')
    BY <1>1 DEF rows
  <2> QED
    BY <2>1, <2>2, RowsKept
<1>4. SideTypes'
  BY <1>1, <1>2 DEF SideTypes
<1>5. CompensationInv'
  BY <1>1, <1>3, <1>4, BystandersKeep
<1> QED
  BY <1>1, <1>5 DEF Journal

-----------------------------------------------------------------------------
(***************************************************************************)
(* The invariant                                                          *)
(***************************************************************************)

LEMMA InitKeeps ==
  ASSUME Init
  PROVE  CompensationInv
<1>1. /\ op \in [state : Origins, version : {4}, effect : Effects]
      /\ comp = [state |-> NoRow, version |-> 0]
      /\ attempts = <<>> /\ verifs = <<>> /\ landed = FALSE
      /\ used = {} /\ outbox = <<>> /\ queue = [row |-> 0, tries |-> 0, done |-> TRUE]
      /\ h = [p \in Processes |-> Idle]
      /\ actions = 0 /\ crashes = 0
  BY DEF Init
<1>2. op.state \in DOMAIN StartKind /\ op \in OpRows
  <2>1. op.state \in Origins /\ Origins \subseteq DOMAIN StartKind
    BY <1>1, CompensationAssumption
  <2>2. DOMAIN StartKind = {"SUCCEEDED", "FAILED", "MANUAL_INTERVENTION"}
    BY DEF StartKind
  <2>3. DOMAIN StartKind \subseteq OperationStates
    BY <2>2 DEF OperationStates
  <2> QED
    BY <1>1, <2>1, <2>3 DEF OpRows
<1>3. op.state \in {"SUCCEEDED", "FAILED", "MANUAL_INTERVENTION"}
  BY <1>2 DEF StartKind
<1>4. /\ attempts \in Seq(AttemptRows) /\ verifs \in Seq(VerifRows) /\ outbox \in Seq(Lines)
      /\ DOMAIN attempts = {} /\ DOMAIN verifs = {} /\ Len(outbox) = 0
  BY <1>1
<1>5. RowsInv
  <2>1. RowTypes
    BY <1>1, <1>2, <1>4 DEF RowTypes, CompRows
  <2>2. Begun
    BY <1>1, <1>2 DEF Begun
  <2>3. RowsAgree /\ SettledByEvidence
    BY <1>1, <1>3 DEF RowsAgree, SettledByEvidence
  <2>4. VerifsFit /\ AttemptsFit /\ AttemptsAreAllowed
    BY <1>3, <1>4 DEF VerifsFit, AttemptsFit, AttemptsAreAllowed
  <2> QED
    BY <2>1, <2>2, <2>3, <2>4 DEF RowsInv
<1>6. SideTypes
  <2>1. queue \in [row : 0..Len(outbox), tries : 0..MaxDeliveries, done : BOOLEAN]
    BY <1>1, <1>4, CompensationAssumption
  <2>2. h \in [Processes -> Handlers]
    BY <1>1, IdleKnown
  <2>3. actions \in 0..MaxActions /\ crashes \in 0..MaxFaults
    BY <1>1, CompensationAssumption
  <2> QED
    BY <1>1, <2>1, <2>2, <2>3 DEF SideTypes
<1>7. \A q \in Processes : h[q] = Idle
  BY <1>1
<1>8. HandlersFit
  <2>1. op.version = 4
    BY <1>1
  <2>2. \A q : FitsName(q, Idle)
    BY IdleKnown DEF FitsName
  <2>3. \A q : FitsAttempt(q, Idle)
    BY IdleKnown DEF FitsAttempt, Deciding
  <2>4. FitsVerification(Idle)
    BY IdleKnown DEF FitsVerification
  <2>5. \A q : Fits(q, Idle)
    BY <2>1, <2>2, <2>3, <2>4, IdleKnown DEF Fits
  <2> QED
    BY <1>7, <2>5 DEF HandlersFit
<1>9. Distinct
  BY <1>7, IdleKnown DEF Distinct, Processes
<1> QED
  BY <1>5, <1>6, <1>8, <1>9 DEF CompensationInv

\* Nothing a process does falsifies what the properties rest on: from the states the
\* operation may be found in, every step of the workers, of the operator, of the
\* recovery and of a crash keeps the inductive invariant
THEOREM CompensationInvariance == Spec => []CompensationInv
<1>1. CompensationInv /\ [Next]_vars => CompensationInv'
  BY NextKept, StutterKept
<1> QED
  BY <1>1, InitKeeps, PTL DEF Spec

-----------------------------------------------------------------------------
(***************************************************************************)
(* The safety invariants                                                  *)
(***************************************************************************)

\* The rows, the broker's view and the handlers have their types: a verification is
\* of an attempt that exists, every identity is made for the message or the action of
\* the handler that writes it, and no version or count leaves the naturals
THEOREM TypesHold == Spec => []TypeOK
<1>1. CompensationInv => TypeOK
  <2> SUFFICES ASSUME CompensationInv
               PROVE  TypeOK
    OBVIOUS
  <2>1. RowTypes /\ SideTypes
    BY DEF CompensationInv, RowsInv
  <2> DEFINE Rows == [id : Namespaces \X {"verification", "resume"} \X Nat,
                      attempt : DOMAIN attempts, version : Nat,
                      result : VerificationResults \union {None}]
  <2>2. verifs \in Seq(Rows)
    <3>1. verifs \in Seq(VerifRows) /\ \A i \in DOMAIN verifs : verifs[i].attempt \in DOMAIN attempts
      BY <2>1 DEF RowTypes
    <3>2. \A i \in DOMAIN verifs : verifs[i] \in VerifRows
      BY <3>1, SeqElement
    <3>3. \A i \in DOMAIN verifs : verifs[i] \in Rows
      BY <3>1, <3>2 DEF VerifRows
    <3>4. Len(verifs) \in Nat /\ DOMAIN verifs = 1..Len(verifs)
          /\ verifs = [i \in 1..Len(verifs) |-> verifs[i]]
      BY <3>1, LenProperties
    <3> HIDE DEF Rows
    <3> QED
      BY <3>3, <3>4, SeqDef
  <2> QED
    BY <2>1, <2>2 DEF TypeOK, RowTypes, SideTypes, OpRows, CompRows, AttemptRows, Lines,
                      Identities
<1> QED
  BY <1>1, CompensationInvariance, PTL

\* The operation and the compensation row agree, an EXECUTING row has an attempt in
\* flight and a VERIFYING one its verification, whichever of the handlers of a message,
\* of its redelivery and of an operator wrote last, although four kinds of progress
\* change the rows under an unchanged version of the operation
THEOREM RowsStayInAgreement == Spec => []RowsAgree
<1>1. CompensationInv => RowsAgree
  BY DEF CompensationInv, RowsInv
<1> QED
  BY <1>1, CompensationInvariance, PTL

\* COMPENSATED and COMPENSATION_FAILED rest on durable evidence about the latest
\* attempt, never on that of an earlier one, and the journal does not contradict them
THEOREM SettlingRestsOnEvidence == Spec => []SettledByEvidence
<1>1. CompensationInv => SettledByEvidence
  BY DEF CompensationInv, RowsInv
<1> QED
  BY <1>1, CompensationInvariance, PTL

\* Beyond the policy's cap every attempt is an operator's, and no action of the operator
\* makes two, for any number of workers, messages, redeliveries and crashes
THEOREM AttemptsStayAllowed == Spec => []AttemptsAreAllowed
<1>1. CompensationInv => AttemptsAreAllowed
  BY DEF CompensationInv, RowsInv
<1> QED
  BY <1>1, CompensationInvariance, PTL

\* Two processes that call the provider for the same attempt handle the same message:
\* an attempt in flight has no second caller but a redelivery of its own message
THEOREM CallersOfAttempt == Spec => []CallersShareMessage
<1>1. CompensationInv => CallersShareMessage
  <2> SUFFICES ASSUME CompensationInv,
                      NEW p \in Processes, h[p].pc \in {"call", "outcome"} /\ ~h[p].old,
                      NEW q \in Processes, h[q].pc \in {"call", "outcome"} /\ ~h[q].old,
                      h[p].num = h[q].num
               PROVE  h[p].ns = h[q].ns
    BY DEF CallersShareMessage
  <2>1. FitsAttempt(p, h[p]) /\ FitsAttempt(q, h[q])
    BY DEF CompensationInv, HandlersFit, Fits
  <2> QED
    BY <2>1 DEF FitsAttempt
<1> QED
  BY <1>1, CompensationInvariance, PTL

-----------------------------------------------------------------------------
(***************************************************************************)
(* What a step may not do                                                 *)
(***************************************************************************)

\* The three ways of writing rows keep evidence that is final
LEMMA JournalFinal ==
  ASSUME RowTypes, Journal \/ Landing \/ Started
  PROVE  /\ \A i \in DOMAIN attempts :
              attempts[i].out # "STARTED" => attempts'[i] = attempts[i]
         /\ \A i \in DOMAIN verifs :
              verifs[i].result # None => verifs'[i] = verifs[i]
<1>1. CASE UNCHANGED <<attempts, verifs>>
  BY <1>1
<1>2. CASE \E p \in Processes : Attempted(p)
  <2>1. PICK p \in Processes : Attempted(p)
    BY <1>2
  <2>2. attempts' = Append(attempts, [by |-> h[p].ns, out |-> "STARTED"]) /\ SameRequests
    BY <2>1 DEF Attempted
  <2>3. attempts \in Seq(AttemptRows) /\ DOMAIN attempts = 1..Len(attempts)
    BY Numbers DEF RowTypes
  <2>4. \A i \in DOMAIN attempts : attempts'[i] = attempts[i]
    BY <2>2, <2>3
  <2> QED
    BY <2>2, <2>4 DEF SameRequests
<1>3. CASE Requested
  <2>1. PICK row \in VerifRows : SameAttempts /\ verifs' = Append(verifs, row)
    BY <1>3 DEF Requested
  <2>2. verifs \in Seq(VerifRows)
    BY DEF RowTypes
  <2>3. DOMAIN verifs = 1..Len(verifs) /\ \A i \in 1..Len(verifs) : verifs'[i] = verifs[i]
    BY <2>1, <2>2, SeqAppend, SeqDomain
  <2> QED
    BY <2>1, <2>3 DEF SameAttempts
<1>4. CASE Moved
  BY <1>4 DEF Moved, SameAttempts, SameRequests
<1> QED
  BY <1>1, <1>2, <1>3, <1>4 DEF Journal, Landing, Started

\* An outcome is never revised and a verification never answered twice, by whichever of
\* the handlers that hold the same attempt or the same verification comes last
THEOREM EvidenceStaysFinal == Spec => EvidenceIsFinal
<1>1. CompensationInv /\ [Next]_vars =>
        [/\ \A i \in DOMAIN attempts :
              attempts[i].out # "STARTED" => attempts'[i] = attempts[i]
         /\ \A i \in DOMAIN verifs :
              verifs[i].result # None => verifs'[i] = verifs[i]]_vars
  <2> SUFFICES ASSUME CompensationInv, [Next]_vars
               PROVE  /\ \A i \in DOMAIN attempts :
                           attempts[i].out # "STARTED" => attempts'[i] = attempts[i]
                      /\ \A i \in DOMAIN verifs :
                           verifs[i].result # None => verifs'[i] = verifs[i]
    OBVIOUS
  <2>1. RowTypes
    BY DEF CompensationInv, RowsInv
  <2>2. Journal \/ Landing \/ Started
    BY NextKept, StutterKept
  <2> QED
    BY <2>1, <2>2, JournalFinal
<1> QED
  BY <1>1, CompensationInvariance, PTL DEF Spec, EvidenceIsFinal

\* An attempt is added after the latest one only when that is justified
LEMMA AttemptJustified ==
  ASSUME RowTypes, NEW p \in Processes, Attempted(p),
         NEW i \in DOMAIN attempts', i \notin DOMAIN attempts, i > 1
  PROVE  \/ attempts'[i - 1].out = "NOT_APPLIED"
         \/ \E v \in DOMAIN verifs' :
              verifs'[v].attempt = i - 1 /\ verifs'[v].result = "NOT_APPLIED"
         \/ ~Descriptor.verifiable /\ Descriptor.mode # "NONE"
<1>1. /\ attempts' = Append(attempts, [by |-> h[p].ns, out |-> "STARTED"]) /\ SameRequests
      /\ attempts # <<>> => Justified
  BY DEF Attempted
<1>2. /\ attempts \in Seq(AttemptRows) /\ DOMAIN attempts = 1..Len(attempts)
      /\ Len(attempts) \in Nat /\ (attempts = <<>> <=> Len(attempts) = 0)
      /\ DOMAIN verifs = 1..Len(verifs)
  BY Numbers DEF RowTypes
<1>3. DOMAIN attempts' = 1..(Len(attempts) + 1)
  BY <1>1, <1>2
<1>4. i - 1 = Len(attempts) /\ attempts # <<>>
  BY <1>2, <1>3
<1>5. attempts'[i - 1] = Latest
  <2>1. \A j \in 1..Len(attempts) : attempts'[j] = attempts[j]
    BY <1>1, <1>2
  <2> QED
    BY <1>2, <1>4, <2>1 DEF Latest
<1>6. DOMAIN verifs' = DOMAIN verifs
  BY <1>1, <1>2, LenProperties DEF SameRequests
<1> QED
  BY <1>1, <1>4, <1>5, <1>6 DEF Justified

\* Neither a redelivery, nor a recovery, nor an operator who consults no budget makes
\* another attempt while the one before may have been applied, unless the provider
\* itself tells repeated requests apart
THEOREM NoAttemptIsBlind == Spec => NoBlindAttempt
<1> DEFINE Seen(i) ==
             \/ attempts'[i - 1].out = "NOT_APPLIED"
             \/ \E v \in DOMAIN verifs' :
                  verifs'[v].attempt = i - 1 /\ verifs'[v].result = "NOT_APPLIED"
             \/ ~Descriptor.verifiable /\ Descriptor.mode # "NONE"
           NotBlind == \A i \in DOMAIN attempts' \ DOMAIN attempts : i > 1 => Seen(i)
<1>1. CompensationInv /\ [Next]_vars => [NotBlind]_vars
  <2> SUFFICES ASSUME CompensationInv, [Next]_vars,
                      NEW i \in DOMAIN attempts', i \notin DOMAIN attempts, i > 1
               PROVE  Seen(i)
    OBVIOUS
  <2>1. RowTypes
    BY DEF CompensationInv, RowsInv
  <2>2. CASE \E p \in Processes : Attempted(p)
    BY <2>1, <2>2, AttemptJustified
  <2>3. CASE Requested \/ Moved
    <3>1. Len(attempts') = Len(attempts) /\ attempts' \in Seq(AttemptRows)
      BY <2>3 DEF Requested, Moved, SameAttempts
    <3>2. DOMAIN attempts' = DOMAIN attempts
      BY <2>1, <3>1, LenProperties DEF RowTypes
    <3> QED
      BY <3>2
  <2>4. CASE UNCHANGED attempts
    BY <2>4
  <2>5. Journal \/ Landing \/ Started
    BY NextKept, StutterKept
  <2> QED
    BY <2>2, <2>3, <2>4, <2>5 DEF Journal, Landing, Started
<1>2. ([][NotBlind]_vars) => NoBlindAttempt
  BY DEF NoBlindAttempt
<1> HIDE DEF NotBlind
<1> QED
  BY <1>1, <1>2, CompensationInvariance, PTL DEF Spec

-----------------------------------------------------------------------------
(***************************************************************************)
(* The promise                                                            *)
(***************************************************************************)

\* The phases of the states that handlers lead to and from
LEMMA Phases ==
  /\ (comp.state = NoRow /\ op.state \in DOMAIN StartKind) => Phase = "absent"
  /\ (comp.state # NoRow /\ op.state \in Open) => Phase = "open"
  /\ (comp.state # NoRow /\ op.state = "COMPENSATED") => Phase = "compensated"
  /\ (comp.state # NoRow /\ op.state = "COMPENSATION_FAILED") => Phase = "failed"
  /\ (comp.state # NoRow /\ op.state = "MANUAL_INTERVENTION") => Phase = "manual"
BY DEF Phase, Open, StartKind

LEMMA PhasesNext ==
  /\ (comp'.state # NoRow /\ op'.state \in Open) => Phase' = "open"
  /\ (comp'.state # NoRow /\ op'.state = "COMPENSATED") => Phase' = "compensated"
  /\ (comp'.state # NoRow /\ op'.state = "COMPENSATION_FAILED") => Phase' = "failed"
  /\ (comp'.state # NoRow /\ op'.state = "MANUAL_INTERVENTION") => Phase' = "manual"
BY DEF Phase, Open

\* The operation moves on: to a conclusion, to a person, or to another open state
LEMMA MovedIsPromised ==
  ASSUME CompensationInv, CompensationInv', Moved
  PROVE  [Promise!Next]_<<Phase, Len(attempts), landed>>
<1>1. /\ op.state \in Working /\ comp.state # NoRow /\ comp'.state # NoRow
      /\ op'.state # "MANUAL_INTERVENTION" =>
           ParentState[comp'.state] = op'.state /\ op.state \in Open
      /\ (comp'.state = "PENDING" <=> comp.state = "PENDING")
      /\ op'.state = "COMPENSATED" => landed
      /\ landed' = landed /\ comp' \in CompRows
  BY DEF Moved
<1>2. Len(attempts') = Len(attempts)
  BY DEF Moved, SameAttempts
<1>3. Phase \in {"open", "failed"}
  BY <1>1, Phases DEF Working
<1>4. CASE op'.state = "MANUAL_INTERVENTION"
  <2>1. Phase' = "manual"
    BY <1>1, <1>4, PhasesNext
  <2> QED
    BY <1>1, <1>2, <1>3, <2>1 DEF Promise!Next, Promise!HandOver
<1>5. CASE op'.state # "MANUAL_INTERVENTION"
  <2>1. Phase = "open"
    BY <1>1, <1>5, Phases
  <2>2. CASE op'.state \in Open
    <3>1. Phase' = "open"
      BY <1>1, <2>2, PhasesNext
    <3> QED
      BY <1>1, <1>2, <2>1, <3>1
  <2>3. CASE op'.state \notin Open
    <3>1. comp'.state \in CompensationStates /\ ParentState[comp'.state] = op'.state
      BY <1>1, <1>5 DEF CompRows
    <3>2. /\ op'.state \in {"COMPENSATED", "COMPENSATION_FAILED"}
          /\ comp'.state # "PENDING"
      BY <2>3, <3>1 DEF ParentState, CompensationStates, Open
    <3>3. Len(attempts) > 0
      <4>1. RowTypes /\ Begun
        BY DEF CompensationInv, RowsInv
      <4>2. attempts # <<>>
        BY <1>1, <3>2, <4>1 DEF Begun
      <4> QED
        BY <4>1, <4>2, Numbers
    <3>4. CASE op'.state = "COMPENSATED"
      <4>1. Phase' = "compensated" /\ landed
        BY <1>1, <3>4, PhasesNext
      <4> QED
        BY <1>1, <1>2, <2>1, <3>3, <4>1 DEF Promise!Next, Promise!Conclude
    <3>5. CASE op'.state = "COMPENSATION_FAILED"
      <4>1. Phase' = "failed"
        BY <1>1, <3>5, PhasesNext
      <4> QED
        BY <1>1, <1>2, <2>1, <3>3, <4>1 DEF Promise!Next, Promise!Conclude
    <3> QED
      BY <3>2, <3>4, <3>5
  <2> QED
    BY <2>2, <2>3
<1> QED
  BY <1>4, <1>5

\* Every step is one of the promise, or is not seen in it
LEMMA StepIsPromised ==
  ASSUME CompensationInv, CompensationInv', Journal \/ Landing \/ Started
  PROVE  [Promise!Next]_<<Phase, Len(attempts), landed>>
<1>1. RowTypes /\ Begun /\ SideTypes
  BY DEF CompensationInv, RowsInv
<1>2. CASE UNCHANGED <<op, comp, attempts, verifs, landed>>
  BY <1>2 DEF Phase
<1>3. CASE \E p \in Processes : Attempted(p)
  <2>1. PICK p \in Processes : Attempted(p)
    BY <1>3
  <2>2. /\ op.state \in Working /\ op'.state = "COMPENSATING" /\ comp.state # NoRow
        /\ comp'.state = "EXECUTING" /\ landed' = landed
        /\ attempts' = Append(attempts, [by |-> h[p].ns, out |-> "STARTED"])
    BY <2>1 DEF Attempted
  <2>3. Phase \in {"open", "failed"}
    BY <2>2, Phases DEF Working
  <2>4. Phase' = "open"
    BY <2>2, PhasesNext DEF Open, NoRow
  <2>5. Len(attempts') = Len(attempts) + 1
    BY <1>1, <2>2 DEF RowTypes
  <2> QED
    BY <2>2, <2>3, <2>4, <2>5 DEF Promise!Next, Promise!Try
<1>4. CASE Requested
  <2>1. /\ comp.state # NoRow /\ comp'.state = "VERIFYING" /\ landed' = landed
        /\ op'.state = "COMPENSATING" /\ Len(attempts') = Len(attempts)
        /\ op' = op \/ op.state \in Open
    BY <1>4 DEF Requested, SameAttempts
  <2>2. op.state \in Open
    BY <2>1 DEF Open
  <2>3. Phase = "open" /\ Phase' = "open"
    BY <2>1, <2>2, Phases, PhasesNext DEF Open, NoRow
  <2> QED
    BY <2>1, <2>3
<1>5. CASE Moved
  BY <1>5, MovedIsPromised
<1>6. CASE Landing
  <2>1. /\ UNCHANGED <<op, comp, attempts>> /\ attempts # <<>> /\ landed'
    BY <1>6 DEF Landing
  <2>2. landed' = TRUE
    BY <2>1 DEF CompensationInv, SideTypes
  <2>3. Phase' = Phase /\ Len(attempts') = Len(attempts)
    BY <2>1 DEF Phase
  <2>4. Len(attempts) > 0
    BY <1>1, <2>1, Numbers
  <2> QED
    BY <2>2, <2>3, <2>4 DEF Promise!Next, Promise!Land
<1>7. CASE Started
  <2>1. /\ comp.state = NoRow /\ op.state \in DOMAIN StartKind /\ op'.state = "COMPENSATING"
        /\ comp'.state = "PENDING" /\ UNCHANGED <<attempts, landed>>
    BY <1>7 DEF Started
  <2>2. Phase = "absent" /\ Phase' = "open"
    BY <2>1, Phases, PhasesNext DEF Open, NoRow
  <2> QED
    BY <2>1, <2>2 DEF Promise!Next, Promise!Ask
<1> QED
  BY <1>2, <1>3, <1>4, <1>5, <1>6, <1>7 DEF Journal

\* The handlers keep the promise: a compensation is asked for once, it is COMPENSATED
\* only when its effect reached the provider, no attempt is made once it is compensated
\* or in the hands of a person, and only another attempt opens a failed one again
THEOREM CompensationKeepsPromise == Spec => KeepsPromise
<1>1. Init => Promise!Init
  <2> SUFFICES ASSUME Init
               PROVE  Promise!Init
    OBVIOUS
  <2>1. RowTypes /\ Begun
    BY InitKeeps DEF CompensationInv, RowsInv
  <2>2. comp.state = NoRow /\ attempts = <<>> /\ landed = FALSE
    BY DEF Init
  <2>3. Phase = "absent"
    BY <2>1, <2>2, Phases DEF Begun
  <2> QED
    BY <2>2, <2>3 DEF Promise!Init
<1>2. CompensationInv /\ CompensationInv' /\ [Next]_vars
        => [Promise!Next]_<<Phase, Len(attempts), landed>>
  BY NextKept, StutterKept, StepIsPromised
<1> QED
  BY <1>1, <1>2, CompensationInvariance, PTL DEF Spec, KeepsPromise, Promise!Spec
===============================================================================
