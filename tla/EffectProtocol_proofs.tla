------------------------- MODULE EffectProtocol_proofs -------------------------
(***************************************************************************)
(* Proofs about module EffectProtocol: what the evidence of the adapters  *)
(* is worth.  First what an attempt, a verification and a compensation    *)
(* may answer, given what the provider holds; then the invariant in which *)
(* these answers and the decisions made of them meet.                     *)
(***************************************************************************)
EXTENDS EffectProtocol, TLAPS

Held == [made : Nat, closed : BOOLEAN, seen : BOOLEAN, flying : Nat, late : BOOLEAN,
         moved : BOOLEAN, foreign : BOOLEAN]
Identities == {"target", "object"}

Operations == [state : OperationStates, number : Nat, latest : Outcomes,
               ids : SUBSET Identities, known : SUBSET Identities, count : Nat,
               undo : {"none", "done", "failed", "unknown"}, undos : Nat]

ProtocolTypes ==
  /\ effect \in GitHubEffects \union ReferenceEffects
  /\ world \in Held /\ op \in Operations

-----------------------------------------------------------------------------
(***************************************************************************)
(* The evidence of the GitHub adapter                                     *)
(***************************************************************************)

\* What the adapter makes of an answer, effect by effect
LEMMA GitHubExecutes ==
  ASSUME NEW reply, reply # Lost
  PROVE  /\ GitHubExecute("create_issue", TRUE, reply) = ExecuteCreateIssue(reply)
         /\ GitHubExecute("create_issue_comment", TRUE, reply) = ExecuteComment(reply)
         /\ GitHubExecute("add_label", TRUE, reply) = ExecuteAddLabel(reply)
         /\ GitHubExecute("create_pull_request", TRUE, reply) = ExecuteCreatePull(reply)
         /\ GitHubExecute("merge_pull_request", TRUE, reply) = ExecuteMerge(reply)
BY DEF GitHubExecute

LEMMA MergeExecutes ==
  ASSUME NEW reply
  PROVE  /\ reply.status \in {405, 409} => ExecuteMerge(reply)
              = GiveEvidence("NOT_APPLIED", GitHubTargets("merge_pull_request"))
         /\ reply.status \notin {405, 409, 200} => ExecuteMerge(reply)
              = ExecutionHttpError("merge_pull_request", reply.status)
         /\ reply.status = 200 /\ reply.body = "good" => ExecuteMerge(reply)
              = GiveEvidence("APPLIED", GitHubTargets("merge_pull_request"))
         /\ reply.status = 200 /\ reply.body = "other" => ExecuteMerge(reply)
              = GiveEvidence("NOT_APPLIED", GitHubTargets("merge_pull_request"))
         /\ reply.status = 200 /\ reply.body = "malformed" => ExecuteMerge(reply)
              = Ambiguous("merge_pull_request")
BY DEF ExecuteMerge

\* A refusal is evidence that nothing was done
LEMMA RefusalIsNotApplied ==
  ASSUME NEW e \in GitHubEffects, NEW s \in Refusals(e), NEW reply,
         reply = [status |-> s, body |-> "malformed"]
  PROVE  GitHubExecute(e, TRUE, reply) = GiveEvidence("NOT_APPLIED", GitHubTargets(e))
<1>1. /\ reply.status = s /\ reply.body = "malformed"
      /\ s \in {400, 401, 403, 404, 410, 422, 429, 405, 409}
      /\ s \in {405, 409} => e = "merge_pull_request"
  BY DEF Refusals, RefusalStatuses
<1>2. reply # Lost
  BY <1>1 DEF Lost
<1>3. KnownRefusal(s) \/ s \in {405, 409}
  BY <1>1 DEF KnownRefusal
<1>4. \A x : s \notin {405, 409} =>
          ExecutionHttpError(x, reply.status) = GiveEvidence("NOT_APPLIED", GitHubTargets(x))
  BY <1>1, <1>3 DEF ExecutionHttpError
<1>10. /\ reply.status # 200 /\ reply.status # 201
       /\ e # "merge_pull_request" => s \notin {405, 409}
  BY <1>1
<1>5. CASE e = "create_issue"
  <2>1. GitHubExecute(e, TRUE, reply) = ExecuteCreateIssue(reply)
    BY <1>2, <1>5, GitHubExecutes
  <2> QED
    BY <1>4, <1>5, <1>10, <2>1 DEF ExecuteCreateIssue
<1>6. CASE e = "create_issue_comment"
  <2>1. GitHubExecute(e, TRUE, reply) = ExecuteComment(reply)
    BY <1>2, <1>6, GitHubExecutes
  <2> QED
    BY <1>4, <1>6, <1>10, <2>1 DEF ExecuteComment
<1>7. CASE e = "add_label"
  <2>1. GitHubExecute(e, TRUE, reply) = ExecuteAddLabel(reply)
    BY <1>2, <1>7, GitHubExecutes
  <2> QED
    BY <1>4, <1>7, <1>10, <2>1 DEF ExecuteAddLabel
<1>8. CASE e = "create_pull_request"
  <2>1. GitHubExecute(e, TRUE, reply) = ExecuteCreatePull(reply)
    BY <1>2, <1>8, GitHubExecutes
  <2> QED
    BY <1>4, <1>8, <1>10, <2>1 DEF ExecuteCreatePull
<1>9. CASE e = "merge_pull_request"
  <2>1. GitHubExecute(e, TRUE, reply) = ExecuteMerge(reply)
    BY <1>2, <1>9, GitHubExecutes
  <2> QED
    <3>1. CASE s \in {405, 409}
      BY <1>1, <1>9, <2>1, <3>1, MergeExecutes, ZenonT(40)
    <3>2. CASE s \notin {405, 409}
      <4>1. ExecuteMerge(reply) = ExecutionHttpError("merge_pull_request", reply.status)
        BY <1>1, <1>10, <3>2, MergeExecutes
      <4> QED
        BY <1>4, <1>9, <2>1, <3>2, <4>1
    <3> QED
      BY <3>1, <3>2
<1> QED
  BY <1>5, <1>6, <1>7, <1>8, <1>9 DEF GitHubEffects, Created

\* An answer that says nothing, or that nobody can read, is no evidence
LEMMA SilenceIsUnknown ==
  ASSUME NEW e \in GitHubEffects, NEW s \in OtherStatuses \union {0, SuccessStatus(e)},
         NEW reply, reply = [status |-> s, body |-> "malformed"]
  PROVE  GitHubExecute(e, TRUE, reply) = GiveEvidence("UNKNOWN", GitHubTargets(e))
<1>1. /\ reply.status = s /\ reply.body = "malformed"
      /\ s \in {302, 500, 0, 200, 201}
  BY DEF OtherStatuses, SuccessStatus
<1>2. ~KnownRefusal(s) /\ s \notin {405, 409}
  BY <1>1 DEF KnownRefusal
<1>3. \A x : /\ ExecutionHttpError(x, reply.status) = GiveEvidence("UNKNOWN", GitHubTargets(x))
             /\ Ambiguous(x) = GiveEvidence("UNKNOWN", GitHubTargets(x))
  BY <1>1, <1>2 DEF ExecutionHttpError, Ambiguous
<1>4. ~Identified(reply.body) /\ ~MatchesIntent(reply.body)
  BY <1>1 DEF Identified, MatchesIntent
<1>5. CASE reply = Lost
  BY <1>3, <1>5 DEF GitHubExecute
<1>6. CASE reply # Lost
  <2>1. CASE e = "create_issue"
    BY <1>1, <1>3, <1>4, <1>6, <2>1, GitHubExecutes DEF ExecuteCreateIssue
  <2>2. CASE e = "create_issue_comment"
    BY <1>1, <1>3, <1>4, <1>6, <2>2, GitHubExecutes DEF ExecuteComment
  <2>3. CASE e = "add_label"
    BY <1>1, <1>3, <1>4, <1>6, <2>3, GitHubExecutes DEF ExecuteAddLabel
  <2>4. CASE e = "create_pull_request"
    BY <1>1, <1>3, <1>4, <1>6, <2>4, GitHubExecutes DEF ExecuteCreatePull
  <2>5. CASE e = "merge_pull_request"
    <3>1. GitHubExecute(e, TRUE, reply) = ExecuteMerge(reply)
      BY <1>6, <2>5, GitHubExecutes
    <3> QED
      <4>1. CASE s = 200
        <5>1. ExecuteMerge(reply) = Ambiguous("merge_pull_request")
          BY <1>1, <4>1, MergeExecutes
        <5> QED
          BY <1>3, <2>5, <3>1, <5>1
      <4>2. CASE s # 200
        <5>1. ExecuteMerge(reply) = ExecutionHttpError("merge_pull_request", reply.status)
          BY <1>1, <1>2, <4>2, MergeExecutes
        <5> QED
          BY <1>3, <2>5, <3>1, <5>1
      <4> QED
        BY <4>1, <4>2
  <2> QED
    BY <2>1, <2>2, <2>3, <2>4, <2>5 DEF GitHubEffects, Created
<1> QED
  BY <1>5, <1>6

\* A readable answer of success is evidence of the effect
LEMMA SuccessIsApplied ==
  ASSUME NEW e \in GitHubEffects, NEW reply,
         reply = [status |-> SuccessStatus(e), body |-> "good"]
  PROVE  \E ids \in SUBSET Identities :
           GitHubExecute(e, TRUE, reply) = GiveEvidence("APPLIED", ids)
<1>1. /\ reply.status = (IF e \in Created THEN 201 ELSE 200) /\ reply.body = "good"
  BY DEF SuccessStatus
<1>2. /\ reply # Lost
      /\ Identified(reply.body) /\ MatchesIntent(reply.body)
  BY <1>1 DEF Lost, Identified, MatchesIntent
<1>3. CASE e = "create_issue"
  <2>1. GitHubExecute(e, TRUE, reply) = GiveEvidence("APPLIED", {"object"})
    BY <1>1, <1>2, <1>3, GitHubExecutes DEF ExecuteCreateIssue, Created
  <2> QED
    BY <2>1 DEF Identities
<1>4. CASE e = "create_issue_comment"
  <2>1. GitHubExecute(e, TRUE, reply) = GiveEvidence("APPLIED", {"target", "object"})
    BY <1>1, <1>2, <1>4, GitHubExecutes DEF ExecuteComment, Created
  <2> QED
    BY <2>1 DEF Identities
<1>5. CASE e = "add_label"
  <2>1. GitHubExecute(e, TRUE, reply) = GiveEvidence("APPLIED", {"target"})
    BY <1>1, <1>2, <1>5, GitHubExecutes DEF ExecuteAddLabel, Created
  <2> QED
    BY <2>1 DEF Identities
<1>6. CASE e = "create_pull_request"
  <2>1. GitHubExecute(e, TRUE, reply) = GiveEvidence("APPLIED", {"target", "object"})
    BY <1>1, <1>2, <1>6, GitHubExecutes DEF ExecuteCreatePull, Created
  <2> QED
    BY <2>1 DEF Identities
<1>7. CASE e = "merge_pull_request"
  <2>1. GitHubExecute(e, TRUE, reply) = ExecuteMerge(reply)
    BY <1>2, <1>7, GitHubExecutes
  <2>2. reply.status = 200 /\ reply.body = "good"
    BY <1>1, <1>7 DEF Created
  <2>3. GitHubExecute(e, TRUE, reply) = GiveEvidence("APPLIED", GitHubTargets(e))
    BY <1>7, <2>1, <2>2, MergeExecutes
  <2> QED
    BY <2>3, <1>7 DEF Identities, GitHubTargets
<1> QED
  BY <1>3, <1>4, <1>5, <1>6, <1>7 DEF GitHubEffects, Created

\* An answer about something else is no evidence, unless it says that nothing was merged
LEMMA OtherIsNotApplied ==
  ASSUME NEW e \in GitHubEffects \ {"create_issue", "create_issue_comment"}, NEW reply,
         reply = [status |-> SuccessStatus(e), body |-> "other"]
  PROVE  \E v \in {"UNKNOWN", "NOT_APPLIED"} :
           GitHubExecute(e, TRUE, reply) = GiveEvidence(v, GitHubTargets(e))
<1>1. /\ reply.status = (IF e \in Created THEN 201 ELSE 200) /\ reply.body = "other"
  BY DEF SuccessStatus
<1>2. reply # Lost /\ ~MatchesIntent(reply.body)
  BY <1>1 DEF Lost, MatchesIntent
<1>3. CASE e = "add_label"
  BY <1>1, <1>2, <1>3, GitHubExecutes DEF ExecuteAddLabel, Created, Ambiguous
<1>4. CASE e = "create_pull_request"
  BY <1>1, <1>2, <1>4, GitHubExecutes DEF ExecuteCreatePull, Created, Ambiguous
<1>5. CASE e = "merge_pull_request"
  <2>1. GitHubExecute(e, TRUE, reply) = ExecuteMerge(reply)
    BY <1>2, <1>5, GitHubExecutes
  <2>2. reply.status = 200 /\ reply.body = "other"
    BY <1>1, <1>5 DEF Created
  <2> QED
    BY <1>5, <2>1, <2>2, MergeExecutes
<1> QED
  BY <1>3, <1>4, <1>5 DEF GitHubEffects, Created

-----------------------------------------------------------------------------
(***************************************************************************)
(* What the providers hold                                                *)
(***************************************************************************)

\* The fields of what is held
LEMMA Rests ==
  ASSUME NEW h \in Held
  PROVE  /\ h.made \in Nat /\ h.flying \in Nat /\ h.seen \in BOOLEAN
         /\ h.closed \in BOOLEAN /\ h.late \in BOOLEAN
BY DEF Held

\* A request that GitHub carries out
LEMMA CarriedOutMeans ==
  ASSUME NEW f \in GitHubEffects, NEW h \in Held, NEW c, c = CarriedOut(f, h)
  PROVE  /\ c \in Held
         /\ c.closed = h.closed /\ c.flying = h.flying /\ c.late = h.late
         /\ f \in Created => c.made = h.made + 1 /\ c.seen = TRUE
         /\ f = "add_label" => c.made = 1 /\ c.seen = TRUE
         /\ f = "merge_pull_request" /\ ~h.moved => c.made = 1 /\ c.seen = TRUE
         /\ f = "merge_pull_request" /\ h.moved => c = h
<1>1. CASE f \in Created
  <2>1. c = [h EXCEPT !.made = h.made + 1, !.seen = TRUE]
    BY <1>1 DEF CarriedOut, Created
  <2>2. c \in Held
    <3>1. c = [made |-> h.made + 1, closed |-> h.closed, seen |-> TRUE, flying |-> h.flying,
            late |-> h.late, moved |-> h.moved, foreign |-> h.foreign]
      BY <2>1 DEF Held
    <3> QED
      BY <3>1 DEF Held
  <2>3. c.made = h.made + 1 /\ c.seen = TRUE
    BY <2>1 DEF Held
  <2>4. c.closed = h.closed /\ c.flying = h.flying /\ c.late = h.late
    BY <2>1 DEF Held
  <2>5. f # "add_label" /\ f # "merge_pull_request"
    BY <1>1 DEF Created
  <2> QED
    BY <2>2, <2>3, <2>4, <2>5
<1>2. f \in {"add_label", "merge_pull_request"} => f \notin Created
  BY DEF Created
<1>3. CASE f = "add_label" \/ (f = "merge_pull_request" /\ ~h.moved)
  <2>1. c = [h EXCEPT !.made = 1, !.seen = TRUE]
    BY <1>2, <1>3 DEF CarriedOut
  <2>2. c \in Held
    <3>1. c = [made |-> 1, closed |-> h.closed, seen |-> TRUE, flying |-> h.flying,
            late |-> h.late, moved |-> h.moved, foreign |-> h.foreign]
      BY <2>1 DEF Held
    <3> QED
      BY <3>1 DEF Held
  <2>3. c.made = 1 /\ c.seen = TRUE
    BY <2>1 DEF Held
  <2>4. c.closed = h.closed /\ c.flying = h.flying /\ c.late = h.late
    BY <2>1 DEF Held
  <2> QED
    BY <1>2, <1>3, <2>2, <2>3, <2>4
<1>4. CASE f = "merge_pull_request" /\ h.moved
  <2>1. c = h
    BY <1>2, <1>4 DEF CarriedOut
  <2> QED
    BY <1>2, <1>4, <2>1
<1> QED
  BY <1>1, <1>3, <1>4 DEF GitHubEffects

\* A request still under way
LEMMA StillFlyingMeans ==
  ASSUME NEW h \in Held, NEW c, c = StillFlying(h)
  PROVE  /\ c \in Held /\ c.flying = h.flying + 1
         /\ c.made = h.made /\ c.seen = h.seen /\ c.closed = h.closed /\ c.late = h.late
<1>1. c = [h EXCEPT !.flying = h.flying + 1]
  BY DEF StillFlying
<1>2. c \in Held
  BY <1>1 DEF Held
<1>3. c.flying = h.flying + 1
  BY <1>1 DEF Held
<1>4. c.made = h.made /\ c.seen = h.seen /\ c.closed = h.closed /\ c.late = h.late
  BY <1>1 DEF Held
<1> QED
  BY <1>2, <1>3, <1>4

\* A row put into the reference store
LEMMA PutMeans ==
  ASSUME NEW h \in Held, NEW c, c = Put(h)
  PROVE  /\ c \in Held /\ c.made = h.made + 1 /\ c.seen = TRUE
         /\ c.closed = h.closed /\ c.flying = h.flying /\ c.late = h.late
<1>1. c = [h EXCEPT !.made = h.made + 1, !.seen = TRUE]
  BY DEF Put
<1>2. c \in Held
  <2>1. c = [made |-> h.made + 1, closed |-> h.closed, seen |-> TRUE, flying |-> h.flying,
            late |-> h.late, moved |-> h.moved, foreign |-> h.foreign]
    BY <1>1 DEF Held
  <2> QED
    BY <2>1 DEF Held
<1>3. c.made = h.made + 1 /\ c.seen = TRUE
  BY <1>1 DEF Held
<1>4. c.closed = h.closed /\ c.flying = h.flying /\ c.late = h.late
  BY <1>1 DEF Held
<1> QED
  BY <1>2, <1>3, <1>4

\* What is seen, and what is closed
LEMMA MarksMean ==
  ASSUME NEW h \in Held
  PROVE  /\ [h EXCEPT !.seen = TRUE] \in Held
         /\ [h EXCEPT !.seen = TRUE].seen = TRUE
         /\ [h EXCEPT !.seen = TRUE].made = h.made
         /\ [h EXCEPT !.seen = TRUE].closed = h.closed
         /\ [h EXCEPT !.seen = TRUE].flying = h.flying
         /\ [h EXCEPT !.seen = TRUE].late = h.late
         /\ [h EXCEPT !.closed = TRUE] \in Held
         /\ [h EXCEPT !.closed = TRUE].closed = TRUE
         /\ [h EXCEPT !.closed = TRUE].made = h.made
         /\ [h EXCEPT !.closed = TRUE].seen = h.seen
         /\ [h EXCEPT !.closed = TRUE].flying = h.flying
         /\ [h EXCEPT !.closed = TRUE].late = h.late
<1>1. /\ [h EXCEPT !.seen = TRUE] \in Held
      /\ [h EXCEPT !.closed = TRUE] \in Held
  BY DEF Held
<1>2. /\ [h EXCEPT !.seen = TRUE].seen = TRUE
      /\ [h EXCEPT !.seen = TRUE].made = h.made
      /\ [h EXCEPT !.seen = TRUE].closed = h.closed
      /\ [h EXCEPT !.seen = TRUE].flying = h.flying
      /\ [h EXCEPT !.seen = TRUE].late = h.late
  BY DEF Held
<1>3. /\ [h EXCEPT !.closed = TRUE].closed = TRUE
      /\ [h EXCEPT !.closed = TRUE].made = h.made
      /\ [h EXCEPT !.closed = TRUE].seen = h.seen
      /\ [h EXCEPT !.closed = TRUE].flying = h.flying
      /\ [h EXCEPT !.closed = TRUE].late = h.late
  BY DEF Held
<1> QED
  BY <1>1, <1>2, <1>3

-----------------------------------------------------------------------------
(***************************************************************************)
(* What comes of an attempt                                               *)
(***************************************************************************)
Given(x) == GitHubExecute(effect, TRUE, x.reply)

Evident(t) == t.outcome \in Outcomes /\ t.ids \subseteq Identities /\ t.w \in Held

LEMMA GivenFields ==
  ASSUME NEW v \in Outcomes, NEW ids \in SUBSET Identities, NEW g, g = GiveEvidence(v, ids)
  PROVE  g.outcome = v /\ g.ids = ids
BY DEF GiveEvidence

\* GitHub: without the effect there is no evidence of it, and with evidence that it was
\* not carried out GitHub holds what it held
LEMMA GitHubAttempted ==
  ASSUME ProtocolTypes, OnGitHub, NEW t \in Attempts
  PROVE  /\ Evident(t)
         /\ t.w \in {world, CarriedOut(effect, world), StillFlying(world)}
         /\ t.outcome = "NOT_APPLIED" => t.w = world
         /\ t.outcome = "APPLIED" => t.w.seen = TRUE
<1> DEFINE targets == GitHubTargets(effect)
<1>1. effect \in GitHubEffects /\ world \in Held
  BY DEF ProtocolTypes, OnGitHub
<1>2. /\ targets \in SUBSET Identities
      /\ {"NOT_APPLIED", "APPLIED", "UNKNOWN"} \subseteq Outcomes
  BY DEF GitHubTargets, Identities, Outcomes
<1> HIDE DEF targets
<1>3. /\ CarriedOut(effect, world) \in Held /\ StillFlying(world) \in Held
      /\ CarriedOut(effect, world) # world \/ ~world.moved => CarriedOut(effect, world).seen = TRUE
  <2>1. CarriedOut(effect, world) \in Held /\ StillFlying(world) \in Held
    BY <1>1, CarriedOutMeans, StillFlyingMeans
  <2>2. effect # "merge_pull_request" => CarriedOut(effect, world).seen = TRUE
    BY <1>1, CarriedOutMeans DEF GitHubEffects
  <2>3. /\ effect = "merge_pull_request" /\ ~world.moved => CarriedOut(effect, world).seen = TRUE
        /\ effect = "merge_pull_request" /\ world.moved => CarriedOut(effect, world) = world
    BY <1>1, CarriedOutMeans
  <2> QED
    BY <2>1, <2>2, <2>3
<1>4. \/ t = [outcome |-> NotSent.outcome, ids |-> NotSent.ids, w |-> world, raised |-> FALSE]
      \/ \E x \in GitHubAnswers(effect, world) :
           t = [outcome |-> Given(x).outcome, ids |-> Given(x).ids,
                w |-> x.w, raised |-> FALSE]
  <2>1. Attempts =
          {[outcome |-> GitHubExecute(effect, TRUE, a.reply).outcome,
            ids |-> GitHubExecute(effect, TRUE, a.reply).ids,
            w |-> a.w, raised |-> FALSE] : a \in GitHubAnswers(effect, world)}
            \union {[outcome |-> NotSent.outcome, ids |-> NotSent.ids, w |-> world,
                     raised |-> FALSE]}
    BY DEF Attempts
  <2> QED
    BY <2>1 DEF Given
<1>5. CASE t = [outcome |-> NotSent.outcome, ids |-> NotSent.ids, w |-> world, raised |-> FALSE]
  <2>1. NotSent.outcome = "NOT_APPLIED" /\ NotSent.ids = {}
    BY DEF NotSent, GiveEvidence
  <2> QED
    BY <1>1, <1>2, <1>5, <2>1 DEF Evident
<1>6. CASE \E x \in GitHubAnswers(effect, world) :
             t = [outcome |-> Given(x).outcome, ids |-> Given(x).ids,
                  w |-> x.w, raised |-> FALSE]
  <2>1. PICK x \in GitHubAnswers(effect, world) :
          t.outcome = Given(x).outcome /\ t.ids = Given(x).ids /\ t.w = x.w
    BY <1>6
  <2>2. CASE \E code \in Refusals(effect) : x = Answer(code, "malformed", world)
    <3>1. PICK code \in Refusals(effect) : x = Answer(code, "malformed", world)
      BY <2>2
    <3>2. x.reply = [status |-> code, body |-> "malformed"] /\ x.w = world
      BY <3>1 DEF Answer
    <3>3. Given(x) = GiveEvidence("NOT_APPLIED", targets)
      BY <1>1, <3>2, RefusalIsNotApplied DEF Given, targets
    <3>4. t.outcome = "NOT_APPLIED" /\ t.ids = targets
      BY <1>2, <2>1, <3>3, GivenFields
    <3> QED
      BY <1>1, <1>2, <2>1, <3>2, <3>4 DEF Evident
  <2>3. CASE \E code \in OtherStatuses \union {0, SuccessStatus(effect)},
                held \in {world, CarriedOut(effect, world), StillFlying(world)} :
               x = Answer(code, "malformed", held)
    <3>1. PICK code \in OtherStatuses \union {0, SuccessStatus(effect)},
               held \in {world, CarriedOut(effect, world), StillFlying(world)} :
               x = Answer(code, "malformed", held)
      BY <2>3
    <3>2. x.reply = [status |-> code, body |-> "malformed"] /\ x.w = held
      BY <3>1 DEF Answer
    <3>3. Given(x) = GiveEvidence("UNKNOWN", targets)
      BY <1>1, <3>2, SilenceIsUnknown DEF Given, targets
    <3>4. t.outcome = "UNKNOWN" /\ t.ids = targets
      BY <1>2, <2>1, <3>3, GivenFields
    <3>5. t.w \in {world, CarriedOut(effect, world), StillFlying(world)}
      BY <2>1, <3>2
    <3> QED
      BY <1>1, <1>2, <1>3, <3>4, <3>5 DEF Evident
  <2>4. CASE \E held \in {CarriedOut(effect, world)} \ (IF world.moved THEN {world} ELSE {}) :
               x = Answer(SuccessStatus(effect), "good", held)
    <3>1. x = Answer(SuccessStatus(effect), "good", CarriedOut(effect, world))
      BY <2>4
    <3>2. CarriedOut(effect, world) # world \/ ~world.moved
      BY <2>4
    <3>3. /\ x.reply = [status |-> SuccessStatus(effect), body |-> "good"]
          /\ x.w = CarriedOut(effect, world)
      BY <3>1 DEF Answer
    <3>4. PICK ids \in SUBSET Identities : Given(x) = GiveEvidence("APPLIED", ids)
      BY <1>1, <3>3, SuccessIsApplied DEF Given
    <3>5. t.outcome = "APPLIED" /\ t.ids = ids
      BY <1>2, <2>1, <3>4, GivenFields
    <3> QED
      BY <1>2, <1>3, <2>1, <3>2, <3>3, <3>5 DEF Evident
  <2>5. CASE \E y \in {effect} \ {"create_issue", "create_issue_comment"} :
               x = Answer(SuccessStatus(effect), "other", world)
    <3>1. /\ effect \in GitHubEffects \ {"create_issue", "create_issue_comment"}
          /\ x = Answer(SuccessStatus(effect), "other", world)
      BY <1>1, <2>5
    <3>2. x.reply = [status |-> SuccessStatus(effect), body |-> "other"] /\ x.w = world
      BY <3>1 DEF Answer
    <3>3. PICK v \in {"UNKNOWN", "NOT_APPLIED"} : Given(x) = GiveEvidence(v, targets)
      BY <3>1, <3>2, OtherIsNotApplied DEF Given, targets
    <3>4. t.outcome = v /\ t.ids = targets
      BY <1>2, <2>1, <3>3, GivenFields
    <3> QED
      BY <1>1, <1>2, <2>1, <3>2, <3>3, <3>4 DEF Evident
  <2>6. \/ \E code \in Refusals(effect) : x = Answer(code, "malformed", world)
        \/ \E code \in OtherStatuses \union {0, SuccessStatus(effect)},
              held \in {world, CarriedOut(effect, world), StillFlying(world)} :
             x = Answer(code, "malformed", held)
        \/ \E held \in {CarriedOut(effect, world)} \ (IF world.moved THEN {world} ELSE {}) :
             x = Answer(SuccessStatus(effect), "good", held)
        \/ \E y \in {effect} \ {"create_issue", "create_issue_comment"} :
             x = Answer(SuccessStatus(effect), "other", world)
    BY DEF GitHubAnswers
  <2> QED
    BY Zenon, <2>2, <2>3, <2>4, <2>5, <2>6
<1> QED
  BY <1>4, <1>5, <1>6

\* The reference provider: evidence of an effect, and an identity, come with a row; a row
\* is put where there is none of the operation, unless the effect has no identity at all
LEMMA ReferenceAttempted ==
  ASSUME ProtocolTypes, ~OnGitHub, NEW t \in Attempts
  PROVE  /\ Evident(t)
         /\ \/ t.w \in {world, [world EXCEPT !.seen = TRUE]}
            \/ /\ t.w = Put(world)
               /\ effect # "read_resource"
               /\ effect = "mutate_none" \/ world.made = 0
         /\ t.outcome = "NOT_APPLIED" => t.w = world
         /\ t.outcome = "APPLIED" \/ "object" \in t.ids => t.w.seen = TRUE
<1>1. /\ effect \in ReferenceEffects /\ world \in Held
      /\ effect \in {"mutate_provider_key", "mutate_eventual", "mutate_mitigating",
                     "mutate_natural", "mutate_none", "read_resource"}
  BY DEF ProtocolTypes, OnGitHub, ReferenceEffects, Keyed
<1>2. /\ Put(world) \in Held /\ Put(world).seen = TRUE
      /\ [world EXCEPT !.seen = TRUE] \in Held
      /\ [world EXCEPT !.seen = TRUE].seen = TRUE
  BY <1>1, PutMeans, MarksMean
<1>3. PICK sent \in BOOLEAN, answer \in ExecuteScripts :
        t = ReferenceExecute(effect, sent, world, answer)
  BY DEF Attempts
<1>4. answer \in Outcomes /\ answer \in {"APPLIED", "NOT_APPLIED", "UNKNOWN"}
  BY DEF ExecuteScripts, Outcomes
<1>5. \A v, i, h : /\ Returned(v, i, h).outcome = v /\ Returned(v, i, h).ids = i
                   /\ Returned(v, i, h).w = h
                   /\ Raised(h).outcome = "UNKNOWN" /\ Raised(h).ids = {}
                   /\ Raised(h).w = h
  BY DEF Returned, Raised
<1>6. CASE t = Returned("NOT_APPLIED", {}, world)
  BY <1>1, <1>5, <1>6 DEF Evident, Outcomes
<1>7. CASE t = AppliedFromRow(world)
  <2>1. t.outcome = "APPLIED" /\ t.ids = {"object"} /\ t.w = [world EXCEPT !.seen = TRUE]
    BY <1>5, <1>7 DEF AppliedFromRow
  <2> QED
    BY <1>2, <2>1 DEF Evident, Outcomes, Identities
<1>8. CASE t = Read(world, answer)
  <2>1. t.outcome \in {"NOT_APPLIED", "UNKNOWN"} /\ t.ids = {} /\ t.w = world
    BY <1>5, <1>8 DEF Read
  <2> QED
    BY <1>1, <2>1 DEF Evident, Outcomes
<1>9. CASE /\ t = Mutation(effect, world, answer) /\ Mutates(answer)
           /\ effect # "read_resource"
  <2>1. answer \in {"APPLIED", "UNKNOWN"}
    BY <1>9 DEF Mutates
  <2>2. CASE effect # "mutate_none" /\ (world.foreign \/ world.made > 0)
    <3>1. t.outcome = "UNKNOWN" /\ t.ids = {} /\ t.w = world
      BY <1>5, <1>9, <2>2 DEF Mutation
    <3> QED
      BY <1>1, <3>1 DEF Evident, Outcomes
  <2>3. CASE ~(effect # "mutate_none" /\ (world.foreign \/ world.made > 0))
    <3>1. /\ t.outcome = answer /\ t.ids \subseteq {"object"} /\ t.w = Put(world)
          /\ effect = "mutate_none" \/ world.made = 0
      <4>1. t = Returned(answer, IF answer = "APPLIED" THEN {"object"} ELSE {}, Put(world))
        BY <1>9, <2>3 DEF Mutation
      <4>2. effect = "mutate_none" \/ world.made = 0
        BY <1>1, <2>3, Rests
      <4> QED
        BY <1>5, <4>1, <4>2
    <3> QED
      BY <1>2, <1>4, <1>9, <2>1, <3>1 DEF Evident, Identities
  <2> QED
    BY <2>2, <2>3
<1>10. \/ t = Returned("NOT_APPLIED", {}, world)
       \/ t = AppliedFromRow(world)
       \/ t = Read(world, answer)
       \/ /\ t = Mutation(effect, world, answer) /\ Mutates(answer)
          /\ effect # "read_resource"
  BY <1>3 DEF ReferenceExecute
<1> QED
  BY <1>6, <1>7, <1>8, <1>9, <1>10

-----------------------------------------------------------------------------
(***************************************************************************)
(* What a verification finds                                              *)
(***************************************************************************)

\* GitHub: an effect is found where it is, and its absence is taken for granted only
\* where the resource itself says so
LEMMA GitHubFinds ==
  ASSUME ProtocolTypes, OnGitHub, NEW known \in SUBSET Identities, NEW hasKey,
         NEW found \in Findings("ORIGINAL_EFFECT", known, hasKey)
  PROVE  /\ found = "APPLIED" => world.made > 0
         /\ found = "NOT_APPLIED" => effect \notin Created /\ world.made = 0
         /\ found \in VerificationResults
<1>1. /\ effect \in {"create_issue", "create_issue_comment", "create_pull_request",
                     "add_label", "merge_pull_request"}
      /\ world.made \in Nat
  BY Rests DEF ProtocolTypes, OnGitHub, GitHubEffects, Created
<1>2. PICK granted \in BOOLEAN, read \in GitHubReads, unseen \in BOOLEAN :
        found = GitHubVerify(effect, granted, "ORIGINAL_EFFECT", known, world, read, unseen)
  BY DEF Findings
<1>3. CASE ~granted
  BY <1>2, <1>3 DEF GitHubVerify, VerificationResults, Outcomes
<1>4. CASE granted
  <2>1. CASE effect = "create_issue"
    <3>1. found = VerifyCreateIssue("ORIGINAL_EFFECT", known, world, read, unseen)
      BY <1>2, <1>4, <2>1 DEF GitHubVerify
    <3> QED
      BY <2>1, <3>1 DEF VerifyCreateIssue, FindMarked, Marked, NotObserved,
                        VerificationResults, Outcomes
  <2>2. CASE effect = "create_issue_comment"
    <3>1. found = VerifyComment("ORIGINAL_EFFECT", known, world, read, unseen)
      BY <1>2, <1>4, <2>2 DEF GitHubVerify
    <3> QED
      BY <2>2, <3>1 DEF VerifyComment, FindMarked, NotObserved,
                        VerificationResults, Outcomes
  <2>3. CASE effect = "create_pull_request"
    <3>1. found = VerifyPull("ORIGINAL_EFFECT", known, world, read, unseen)
      BY <1>2, <1>4, <2>3 DEF GitHubVerify
    <3> QED
      BY <2>3, <3>1 DEF VerifyPull, FindMarked, Marked, NotObserved,
                        VerificationResults, Outcomes
  <2>4. CASE effect = "add_label"
    <3>1. found = VerifyLabel("ORIGINAL_EFFECT", known, world, read, unseen)
      BY <1>2, <1>4, <2>4 DEF GitHubVerify
    <3> QED
      BY <1>1, <2>4, <3>1 DEF VerifyLabel, Created, VerificationResults, Outcomes
  <2>5. CASE effect = "merge_pull_request"
    <3>1. found = VerifyMerge("ORIGINAL_EFFECT", known, world, read, unseen)
      BY <1>2, <1>4, <2>5 DEF GitHubVerify
    <3> QED
      BY <1>1, <2>5, <3>1 DEF VerifyMerge, Created, VerificationResults, Outcomes
  <2> QED
    BY <1>1, <2>1, <2>2, <2>3, <2>4, <2>5
<1> QED
  BY <1>3, <1>4

\* What there is to find in the reference provider
LEMMA ReferenceFindings ==
  ASSUME ~OnGitHub, NEW what, NEW known, NEW hasKey, NEW found \in Findings(what, known, hasKey)
  PROVE  \E answer \in HonestScripts, old \in BOOLEAN :
           found = ReferenceVerify(effect, what, known, hasKey, world, answer, old)
BY DEF Findings

\* The reference provider finds a row by its identity, or by a key of the operation's own
LEMMA ReferenceFinds ==
  ASSUME ProtocolTypes, ~OnGitHub, NEW known \in SUBSET Identities,
         NEW hasKey, hasKey = TRUE,
         NEW found \in Findings("ORIGINAL_EFFECT", known, hasKey)
  PROVE  /\ found = "APPLIED" => world.made > 0 \/ "object" \in known
         /\ found = "NOT_APPLIED" =>
              /\ effect # "mutate_none"
              /\ effect \in Keyed => world.made = 0
         /\ found \in VerificationResults
<1>1. world.made \in Nat
  BY Rests DEF ProtocolTypes
<1>2. PICK answer \in HonestScripts, old \in BOOLEAN :
        found = ReferenceVerify(effect, "ORIGINAL_EFFECT", known, hasKey, world, answer, old)
  BY ReferenceFindings
<1>3. answer \in {"STORE", "UNKNOWN", "UNSUPPORTED"}
  BY DEF HonestScripts, VerifyScripts
<1> DEFINE row == LookupVerifyRow(effect, known, hasKey, world)
<1>4. CASE effect = "mutate_none" \/ answer # "STORE"
  <2>1. found \in {"UNKNOWN", "UNSUPPORTED"}
    BY <1>2, <1>3, <1>4 DEF ReferenceVerify
  <2> QED
    BY <2>1 DEF VerificationResults, Outcomes
<1>5. CASE effect # "mutate_none" /\ answer = "STORE"
  <2>1. found = VerifyOriginalTarget(effect, row, old)
    BY <1>2, <1>5 DEF ReferenceVerify
  <2>2. /\ found = "APPLIED" => row
        /\ found = "NOT_APPLIED" => ~row
        /\ found \in VerificationResults
    BY <2>1 DEF VerifyOriginalTarget, VerificationResults, Outcomes
  <2>3. /\ row => world.made > 0 \/ "object" \in known
        /\ ~row => (effect \in Keyed => world.made = 0)
    BY <1>1 DEF LookupVerifyRow
  <2> QED
    BY <1>5, <2>2, <2>3
<1> QED
  BY <1>4, <1>5

-----------------------------------------------------------------------------
(***************************************************************************)
(* What comes of a compensation                                           *)
(***************************************************************************)

\* A compensation changes nothing but whether the object is closed, and is evidence that
\* it has been closed only where it is
LEMMA UndoMeans ==
  ASSUME ProtocolTypes, NEW t \in Undos
  PROVE  /\ t.w \in {world, [world EXCEPT !.closed = TRUE]}
         /\ t.outcome = "APPLIED" => t.w.closed = TRUE
<1>1. world \in Held
  BY DEF ProtocolTypes
<1>2. [world EXCEPT !.closed = TRUE].closed = TRUE
  BY <1>1, MarksMean
<1>3. CASE OnGitHub
  <2>1. PICK granted \in BOOLEAN, given \in GitHubCloses(world) :
          /\ t.outcome = GitHubCompensate(granted, op.known, given.reply).outcome
          /\ t.w = IF granted /\ CanClose(op.known) THEN given.w ELSE world
    BY <1>3 DEF Undos
  <2>2. given.w \in {world, [world EXCEPT !.closed = TRUE]}
    BY DEF GitHubCloses, Answer
  <2>3. t.outcome = "APPLIED" =>
          /\ granted /\ CanClose(op.known)
          /\ ClosedBy(given.reply) = "APPLIED"
    <3>1. \A v, i : GiveEvidence(v, i).outcome = v
      BY DEF GiveEvidence
    <3> QED
      BY <2>1, <3>1 DEF GitHubCompensate
  <2>4. ClosedBy(given.reply) = "APPLIED" => given.reply.body = "good"
    BY DEF ClosedBy
  <2>5. given.reply.body = "good" => given.w = [world EXCEPT !.closed = TRUE]
    <3>1. \/ \E code, held : given = Answer(code, "malformed", held)
          \/ given = Answer(200, "good", [world EXCEPT !.closed = TRUE])
      BY DEF GitHubCloses
    <3>2. \A code, body, held : /\ Answer(code, body, held).reply.body = body
                                /\ Answer(code, body, held).w = held
      BY DEF Answer
    <3> QED
      BY <3>1, <3>2
  <2> QED
    BY <1>2, <2>1, <2>2, <2>3, <2>4, <2>5
<1>4. CASE ~OnGitHub
  <2>1. PICK answer \in CompensateScripts :
          /\ t.outcome = ReferenceCompensate(effect, world, answer).outcome
          /\ t.w = ReferenceCompensate(effect, world, answer).w
    BY <1>4 DEF Undos
  <2>2. \A v, i, h : Returned(v, i, h).outcome = v /\ Returned(v, i, h).w = h
    BY DEF Returned
  <2>3. \/ /\ effect \in Keyed /\ world.closed
           /\ ReferenceCompensate(effect, world, answer) = Returned("APPLIED", {"object"}, world)
        \/ ReferenceCompensate(effect, world, answer) = Returned("NOT_APPLIED", {}, world)
        \/ ReferenceCompensate(effect, world, answer)
             = Returned(answer, IF answer = "APPLIED" THEN {"object"} ELSE {},
                        MarkCompensated(world))
    BY DEF ReferenceCompensate
  <2>4. MarkCompensated(world) = [world EXCEPT !.closed = TRUE]
    BY DEF MarkCompensated
  <2>5. world.closed \in BOOLEAN
    BY <1>1, Rests
  <2>6. t.w \in {world, MarkCompensated(world)}
    BY <2>1, <2>2, <2>3
  <2>7. t.outcome = "APPLIED" => t.w = MarkCompensated(world) \/ (t.w = world /\ world.closed)
    <3>1. CASE /\ effect \in Keyed /\ world.closed
               /\ ReferenceCompensate(effect, world, answer)
                    = Returned("APPLIED", {"object"}, world)
      <4>1. t.w = world
        BY <2>1, <2>2, <3>1
      <4> QED
        BY <3>1, <4>1
    <3>2. CASE ReferenceCompensate(effect, world, answer) = Returned("NOT_APPLIED", {}, world)
      <4>1. t.outcome = "NOT_APPLIED"
        BY <2>1, <2>2, <3>2
      <4> QED
        BY <4>1
    <3>3. CASE ReferenceCompensate(effect, world, answer)
                 = Returned(answer, IF answer = "APPLIED" THEN {"object"} ELSE {},
                            MarkCompensated(world))
      BY <2>1, <2>2, <3>3
    <3> QED
      BY <2>3, <3>1, <3>2, <3>3
  <2> QED
    BY <1>2, <2>4, <2>5, <2>6, <2>7
<1> QED
  BY <1>3, <1>4

\* What has been opened is found closed only where it is closed
LEMMA UndoFinds ==
  ASSUME ProtocolTypes, Undoable, NEW hasKey, NEW none \in SUBSET Identities,
         NEW found \in Findings("COMPENSATION", none, hasKey), found = "APPLIED"
  PROVE  world.closed
<1>1. CASE OnGitHub
  <2>1. effect \in {"create_issue", "create_pull_request"}
    BY <1>1 DEF Undoable, OnGitHub, GitHubEffects, GitHubUndoable, ReferenceUndoable, Keyed,
                Created
  <2>2. PICK granted \in BOOLEAN, read \in GitHubReads, unseen \in BOOLEAN :
          found = GitHubVerify(effect, granted, "COMPENSATION", none, world, read, unseen)
    BY <1>1 DEF Findings
  <2>3. CASE effect = "create_issue"
    <3>1. found = VerifyCreateIssue("COMPENSATION", none, world, read, unseen)
      BY <2>2, <2>3 DEF GitHubVerify
    <3> QED
      BY <3>1 DEF VerifyCreateIssue, Marked, NotObserved
  <2>4. CASE effect = "create_pull_request"
    <3>1. found = VerifyPull("COMPENSATION", none, world, read, unseen)
      BY <2>2, <2>4 DEF GitHubVerify
    <3> QED
      BY <3>1 DEF VerifyPull, Marked, NotObserved
  <2> QED
    BY <2>1, <2>3, <2>4
<1>2. CASE ~OnGitHub
  <2>1. PICK answer \in HonestScripts, old \in BOOLEAN :
          found = ReferenceVerify(effect, "COMPENSATION", none, hasKey, world, answer, old)
    BY <1>2, ReferenceFindings
  <2>2. answer # "APPLIED"
    BY DEF HonestScripts, VerifyScripts
  <2> DEFINE row == LookupVerifyRow(effect, none, hasKey, world)
  <2>3. found = VerifyCompensationTarget(effect, row, world)
    BY <2>1, <2>2 DEF ReferenceVerify
  <2> QED
    BY <2>3 DEF VerifyCompensationTarget
<1> QED
  BY <1>1, <1>2

-----------------------------------------------------------------------------
(***************************************************************************)
(* Where the decisions lead                                               *)
(***************************************************************************)
LEMMA AttemptLeads ==
  ASSUME NEW latest \in Outcomes, NEW number, NEW descriptor, NEW duties, NEW verdict,
         NEW kind, kind = ExecutionKind(latest, descriptor, duties, number, verdict)
  PROVE  /\ Target(kind) \in OperationStates
         /\ Target(kind) = "SUCCEEDED" => latest = "APPLIED"
         /\ Target(kind) \in {"READY", "FAILED"} <=> latest = "NOT_APPLIED"
<1>1. \/ latest = "UNKNOWN" /\ kind = "EXECUTION_UNKNOWN"
      \/ /\ latest = "APPLIED"
         /\ kind \in {"EXECUTION_REQUIRE_VERIFICATION", "EXECUTION_APPLIED"}
      \/ /\ latest = "NOT_APPLIED"
         /\ kind \in {"EXECUTION_NOT_APPLIED_RETRY", "EXECUTION_NOT_APPLIED_FAIL"}
  BY DEF ExecutionKind, Outcomes
<1> QED
  BY <1>1 DEF Target, Edge, OperationStates

LEMMA VerificationLeads ==
  ASSUME NEW result \in VerificationResults, NEW latest, NEW number, NEW count,
         NEW descriptor, NEW duties, NEW kind,
         kind = VerificationKind(result, latest, number, count, descriptor, duties)
  PROVE  /\ Target(kind) \in OperationStates
         /\ Target(kind) = "SUCCEEDED" => result = "APPLIED"
         /\ Target(kind) \in {"READY", "FAILED"} => result = "NOT_APPLIED"
<1>1. \/ kind \in {"VERIFICATION_ESCALATE", "VERIFICATION_INCONCLUSIVE"}
      \/ result = "APPLIED" /\ kind = "VERIFICATION_APPLIED"
      \/ /\ result = "NOT_APPLIED"
         /\ kind \in {"VERIFICATION_NOT_APPLIED_RETRY", "VERIFICATION_NOT_APPLIED_FAIL"}
  BY DEF VerificationKind, VerificationResults, Outcomes
<1> QED
  BY <1>1 DEF Target, Edge, OperationStates

\* Without a verification only evidence against an effect without identity allows a retry
LEMMA UnverifiableLeads ==
  ASSUME NEW latest \in Outcomes, NEW number, NEW descriptor, NEW duties,
         descriptor.mode = "NONE", NEW elapsed,
         NEW kind, kind = UnverifiableKind(latest, number, elapsed, descriptor, duties)
  PROVE  /\ Target(kind) \in {"READY", "MANUAL_INTERVENTION"}
         /\ Target(kind) = "READY" => latest = "NOT_APPLIED"
<1>1. \/ kind = "UNKNOWN_ESCALATE"
      \/ /\ kind = "UNKNOWN_SAFE_RETRY"
         /\ RegistryRetrySafety(descriptor, latest, None, elapsed) = "SAFE"
  BY DEF UnverifiableKind
<1>2. RegistryRetrySafety(descriptor, latest, None, elapsed) = "SAFE" => latest = "NOT_APPLIED"
  BY DEF RegistryRetrySafety, EffectRetrySafety, UnknownRetrySafety, Outcomes, None
<1>3. /\ Target("UNKNOWN_ESCALATE") = "MANUAL_INTERVENTION"
      /\ Target("UNKNOWN_SAFE_RETRY") = "READY"
  BY DEF Target, Edge
<1> QED
  BY <1>1, <1>2, <1>3

-----------------------------------------------------------------------------
(***************************************************************************)
(* The invariant                                                          *)
(***************************************************************************)

\* What is made has been seen, and so has what a row's identity stands for; the reference
\* provider leaves no request under way
Traced ==
  /\ world.made > 0 => world.seen
  /\ effect \in ReferenceEffects =>
       /\ world.flying = 0
       /\ "object" \in op.ids => world.seen

\* An effect that can be made twice is attempted only while none is made or under way
Single ==
  /\ world.made <= 1
  /\ effect \in Created => world.made + world.flying <= 1
  /\ op.state = "READY" /\ effect \in Created => world.made = 0 /\ world.flying = 0
  /\ op.state = "READY" /\ effect = "mutate_none" => world.made = 0
  /\ effect = "read_resource" => world.made = 0

\* Evidence against an effect that nobody can verify is acted upon at once
Blind ==
  effect = "mutate_none" /\ op.state \in {"UNKNOWN", "VERIFYING"}
    => op.latest # "NOT_APPLIED"

\* An operation that is tried again, like one that has failed, has not had its effect,
\* or only from a request that arrived after a verification had looked
Looked ==
  op.state \in {"READY", "FAILED"} =>
    /\ op.count = 0 => world.flying = 0
    /\ effect # "mutate_natural" => world.made = 0 \/ world.late

Undone ==
  /\ op.undo # "none" => Undoable
  /\ op.undo = "done" => world.closed

ProtocolInv ==
  /\ ProtocolTypes
  /\ Traced /\ Single /\ Blind /\ Looked /\ SuccessIsReal /\ Undone

-----------------------------------------------------------------------------
\* The two providers have no effect in common
LEMMA TwoProviders ==
  ASSUME ProtocolTypes
  PROVE  /\ OnGitHub => effect \in GitHubEffects /\ effect \notin ReferenceEffects
         /\ ~OnGitHub => effect \in ReferenceEffects /\ effect \notin Created
         /\ OnGitHub => \/ effect \in Created
                        \/ effect = "add_label" \/ effect = "merge_pull_request"
BY DEF ProtocolTypes, OnGitHub, GitHubEffects, ReferenceEffects, Created, Keyed

\* What the provider holds after an attempt of a READY operation
LEMMA AttemptMakes ==
  ASSUME ProtocolInv, op.state = "READY", NEW t \in Attempts
  PROVE  /\ Evident(t)
         /\ t.w.made > 0 => t.w.seen
         /\ effect \in ReferenceEffects => t.w.flying = 0 /\ ("object" \in t.ids => t.w.seen)
         /\ t.w.made <= 1
         /\ effect \in Created => t.w.made + t.w.flying <= 1
         /\ effect = "read_resource" => t.w.made = 0
         /\ t.w.closed = world.closed
         /\ t.outcome = "NOT_APPLIED" => t.w = world
         /\ t.outcome = "APPLIED" => t.w.seen
<1>1. /\ ProtocolTypes /\ Traced /\ Single /\ world \in Held
      /\ world.made \in Nat /\ world.flying \in Nat /\ world.seen \in BOOLEAN
  BY Rests DEF ProtocolInv, ProtocolTypes
<1>2. /\ world.made > 0 => world.seen = TRUE
      /\ effect \in ReferenceEffects => world.flying = 0
      /\ world.made <= 1
      /\ effect \in Created => world.made = 0 /\ world.flying = 0
      /\ effect = "mutate_none" => world.made = 0
      /\ effect = "read_resource" => world.made = 0
  BY <1>1 DEF Traced, Single
<1>3. CASE OnGitHub
  <2>1. /\ Evident(t)
        /\ t.w \in {world, CarriedOut(effect, world), StillFlying(world)}
        /\ t.outcome = "NOT_APPLIED" => t.w = world
        /\ t.outcome = "APPLIED" => t.w.seen = TRUE
    BY <1>1, <1>3, GitHubAttempted
  <2>2. effect \in GitHubEffects /\ effect \notin ReferenceEffects /\ effect # "read_resource"
    BY <1>1, <1>3, TwoProviders DEF ReferenceEffects
  <2>3. CASE t.w = world
    BY <1>1, <1>2, <2>1, <2>2, <2>3
  <2>4. CASE t.w = CarriedOut(effect, world)
    <3>1. /\ t.w.closed = world.closed /\ t.w.flying = world.flying
          /\ effect \in Created => t.w.made = world.made + 1 /\ t.w.seen = TRUE
          /\ effect = "add_label" => t.w.made = 1 /\ t.w.seen = TRUE
          /\ effect = "merge_pull_request" /\ ~world.moved => t.w.made = 1 /\ t.w.seen = TRUE
          /\ effect = "merge_pull_request" /\ world.moved => t.w = world
      <4> DEFINE carried == CarriedOut(effect, world)
      <4>6. effect \in GitHubEffects /\ world \in Held
        BY <1>1, <2>2
      <4>1. carried.closed = world.closed /\ carried.flying = world.flying
        BY <4>6, CarriedOutMeans, ZenonT(40)
      <4>4. effect \in Created => carried.made = world.made + 1 /\ carried.seen = TRUE
        BY <1>1, <2>2, CarriedOutMeans
      <4>5. effect = "add_label" => carried.made = 1 /\ carried.seen = TRUE
        BY <1>1, <2>2, CarriedOutMeans
      <4>2. /\ effect = "merge_pull_request" /\ ~world.moved
                 => carried.made = 1 /\ carried.seen = TRUE
            /\ effect = "merge_pull_request" /\ world.moved => carried = world
        BY <1>1, <2>2, CarriedOutMeans
      <4>3. t.w = carried
        BY <2>4
      <4> QED
        BY <4>1, <4>2, <4>3, <4>4, <4>5
    <3>2. effect \in {"add_label", "merge_pull_request"} => effect \notin Created
      BY DEF Created
    <3>3. CASE effect \in Created
      BY <1>1, <1>2, <2>1, <2>2, <3>1, <3>3
    <3>4. CASE effect = "add_label" \/ (effect = "merge_pull_request" /\ ~world.moved)
      BY <1>1, <1>2, <2>1, <2>2, <3>1, <3>2, <3>4
    <3>5. CASE effect = "merge_pull_request" /\ world.moved
      BY <1>1, <1>2, <2>1, <2>2, <3>1, <3>2, <3>5
    <3>6. effect \in Created \/ effect = "add_label" \/ effect = "merge_pull_request"
      BY <1>1, <1>3, TwoProviders
    <3> QED
      BY <3>3, <3>4, <3>5, <3>6
  <2>5. CASE t.w = StillFlying(world)
    <3>1. /\ t.w.flying = world.flying + 1 /\ t.w.made = world.made
          /\ t.w.seen = world.seen /\ t.w.closed = world.closed
      BY <1>1, <2>5, StillFlyingMeans
    <3> QED
      BY <1>1, <1>2, <2>1, <2>2, <3>1
  <2> QED
    BY <2>1, <2>3, <2>4, <2>5
<1>4. CASE ~OnGitHub
  <2>1. /\ Evident(t)
        /\ \/ t.w \in {world, [world EXCEPT !.seen = TRUE]}
           \/ /\ t.w = Put(world)
              /\ effect # "read_resource"
              /\ effect = "mutate_none" \/ world.made = 0
        /\ t.outcome = "NOT_APPLIED" => t.w = world
        /\ t.outcome = "APPLIED" \/ "object" \in t.ids => t.w.seen = TRUE
    BY <1>1, <1>4, ReferenceAttempted
  <2>2. effect \in ReferenceEffects /\ effect \notin Created
    BY <1>1, <1>4, TwoProviders
  <2>3. CASE t.w = world
    BY <1>1, <1>2, <2>1, <2>2, <2>3
  <2>4. CASE t.w = [world EXCEPT !.seen = TRUE]
    <3>1. /\ t.w.seen = TRUE /\ t.w.made = world.made /\ t.w.flying = world.flying
          /\ t.w.closed = world.closed
      BY <1>1, <2>4, MarksMean
    <3> QED
      BY <1>1, <1>2, <2>1, <2>2, <3>1
  <2>5. CASE /\ t.w = Put(world)
             /\ effect # "read_resource"
             /\ effect = "mutate_none" \/ world.made = 0
    <3>1. /\ t.w.seen = TRUE /\ t.w.made = world.made + 1 /\ t.w.flying = world.flying
          /\ t.w.closed = world.closed
      BY <1>1, <2>5, PutMeans
    <3> QED
      BY <1>1, <1>2, <2>1, <2>2, <2>5, <3>1
  <2> QED
    BY <2>1, <2>3, <2>4, <2>5
<1> QED
  BY <1>3, <1>4

\* The fields of the operation
LEMMA OperationFields ==
  ASSUME ProtocolTypes
  PROVE  /\ op.state \in OperationStates /\ op.number \in Nat /\ op.latest \in Outcomes
         /\ op.ids \in SUBSET Identities /\ op.known \in SUBSET Identities
         /\ op.count \in Nat /\ op.undo \in {"none", "done", "failed", "unknown"}
         /\ op.undos \in Nat
BY DEF ProtocolTypes, Operations

\* Nothing is held of an operation that nobody has attempted
LEMMA InitProtocol ==
  ASSUME ProtocolInit PROVE ProtocolInv
<1>1. PICK someone \in BOOLEAN :
        world = [made |-> 0, closed |-> FALSE, seen |-> FALSE, flying |-> 0,
                 late |-> FALSE, moved |-> FALSE, foreign |-> someone]
  BY DEF ProtocolInit
<1>2. /\ effect \in GitHubEffects \union ReferenceEffects
      /\ op = [state |-> "READY", number |-> 0, latest |-> "UNKNOWN", ids |-> {},
               known |-> {}, count |-> 0, undo |-> "none", undos |-> 0]
  BY DEF ProtocolInit
<1>3. world \in Held /\ world.made = 0 /\ world.flying = 0
  BY <1>1 DEF Held
<1>4. /\ op.state = "READY" /\ op.ids = {} /\ op.undo = "none"
      /\ op \in Operations
  BY <1>2 DEF Operations, OperationStates, Outcomes
<1>5. ProtocolTypes
  BY <1>2, <1>3, <1>4 DEF ProtocolTypes
<1>6. Traced /\ Single /\ Blind /\ Looked /\ SuccessIsReal /\ Undone
  BY <1>3, <1>4 DEF Traced, Single, Blind, Looked, SuccessIsReal, Undone
<1> QED
  BY <1>5, <1>6 DEF ProtocolInv

-----------------------------------------------------------------------------
\* Evidence of an attempt
LEMMA AttemptKeeps ==
  ASSUME ProtocolInv, Attempt PROVE ProtocolInv'
<1>1. PICK t \in Attempts :
        /\ world' = t.w
        /\ op' = [op EXCEPT
                    !.state = Target(ExecutionKind(t.outcome, d, o, op.number + 1,
                                       RegistryRetrySafety(d, t.outcome, None, FALSE))),
                    !.number = @ + 1, !.latest = t.outcome, !.ids = Targets \union t.ids,
                    !.known = @ \union t.ids]
  BY DEF Attempt
<1>2. op.state = "READY" /\ effect' = effect
  BY DEF Attempt
<1> DEFINE kind == ExecutionKind(t.outcome, d, o, op.number + 1,
                     RegistryRetrySafety(d, t.outcome, None, FALSE))
<1>3. /\ ProtocolTypes /\ Evident(t)
      /\ t.w.made > 0 => t.w.seen
      /\ effect \in ReferenceEffects => t.w.flying = 0 /\ ("object" \in t.ids => t.w.seen)
      /\ t.w.made <= 1
      /\ effect \in Created => t.w.made + t.w.flying <= 1
      /\ effect = "read_resource" => t.w.made = 0
      /\ t.w.closed = world.closed
      /\ t.outcome = "NOT_APPLIED" => t.w = world
      /\ t.outcome = "APPLIED" => t.w.seen
  BY <1>2, AttemptMakes DEF ProtocolInv
<1>4. t.outcome \in Outcomes /\ t.ids \subseteq Identities /\ t.w \in Held
  BY <1>3 DEF Evident
<1>5. /\ Target(kind) \in OperationStates
      /\ Target(kind) = "SUCCEEDED" => t.outcome = "APPLIED"
      /\ Target(kind) \in {"READY", "FAILED"} <=> t.outcome = "NOT_APPLIED"
  BY <1>4, AttemptLeads
<1>6. /\ Targets \subseteq Identities
      /\ effect \in ReferenceEffects => Targets = {}
  <2>1. ~OnGitHub => Targets = {}
    BY DEF Targets
  <2>2. effect \in ReferenceEffects => ~OnGitHub
    BY <1>3, TwoProviders
  <2>3. Targets \subseteq {"target"}
    BY DEF Targets, GitHubTargets
  <2> QED
    BY <2>1, <2>2, <2>3 DEF Identities
<1> HIDE DEF kind
<1>7. /\ op'.state = Target(kind) /\ op'.latest = t.outcome
      /\ op'.ids = Targets \union t.ids /\ op'.known = op.known \union t.ids
      /\ op'.number = op.number + 1
      /\ op'.count = op.count /\ op'.undo = op.undo /\ op'.undos = op.undos
      /\ op' \in Operations
  <2>1. op' = [op EXCEPT !.state = Target(kind), !.number = op.number + 1,
                         !.latest = t.outcome, !.ids = Targets \union t.ids,
                         !.known = op.known \union t.ids]
    BY <1>1 DEF kind
  <2>2. op \in Operations
    BY <1>3 DEF ProtocolTypes
  <2>3. op' = [state |-> Target(kind), number |-> op.number + 1, latest |-> t.outcome,
               ids |-> Targets \union t.ids, known |-> op.known \union t.ids,
               count |-> op.count, undo |-> op.undo, undos |-> op.undos]
    BY <2>1, <2>2 DEF Operations
  <2>4. /\ op.number + 1 \in Nat /\ op.known \union t.ids \in SUBSET Identities
        /\ op.count \in Nat /\ op.undo \in {"none", "done", "failed", "unknown"}
        /\ op.undos \in Nat /\ Targets \union t.ids \in SUBSET Identities
    BY <1>3, <1>4, <1>6, OperationFields
  <2>5. op' \in Operations
    BY <1>4, <1>5, <2>3, <2>4 DEF Operations
  <2> QED
    BY <2>3, <2>5
<1>8. ProtocolTypes'
  BY <1>1, <1>2, <1>3, <1>4, <1>7 DEF ProtocolTypes
<1>9. Traced'
  BY <1>1, <1>2, <1>3, <1>6, <1>7 DEF Traced
<1>10. Single'
  <2>1. op'.state = "READY" => world' = world
    BY <1>1, <1>3, <1>5, <1>7
  <2> QED
    BY <1>1, <1>2, <1>3, <1>7, <2>1 DEF Single, ProtocolInv
<1>11. Blind'
  BY <1>5, <1>7 DEF Blind
<1>12. Looked'
  <2>1. op'.state \in {"READY", "FAILED"} => world' = world
    BY <1>1, <1>3, <1>5, <1>7
  <2> QED
    BY <1>2, <1>7, <2>1 DEF Looked, ProtocolInv
<1>13. SuccessIsReal'
  BY <1>1, <1>3, <1>5, <1>7 DEF SuccessIsReal
<1>14. Undone'
  BY <1>1, <1>2, <1>3, <1>7 DEF Undone, ProtocolInv, Undoable
<1> QED
  BY <1>8, <1>9, <1>10, <1>11, <1>12, <1>13, <1>14 DEF ProtocolInv

\* An attempt whose evidence is lost
LEMMA InterruptedKeeps ==
  ASSUME ProtocolInv, Interrupted PROVE ProtocolInv'
<1>1. PICK t \in Attempts : world' = t.w
  BY DEF Interrupted
<1>2. /\ op.state = "READY" /\ effect' = effect
      /\ op' = [op EXCEPT !.state = Target("EXECUTION_UNKNOWN"), !.number = @ + 1,
                          !.latest = "UNKNOWN", !.ids = Targets]
  BY DEF Interrupted
<1>3. /\ ProtocolTypes /\ Evident(t)
      /\ t.w.made > 0 => t.w.seen
      /\ effect \in ReferenceEffects => t.w.flying = 0
      /\ t.w.made <= 1
      /\ effect \in Created => t.w.made + t.w.flying <= 1
      /\ effect = "read_resource" => t.w.made = 0
      /\ t.w.closed = world.closed
  BY <1>2, AttemptMakes DEF ProtocolInv
<1>4. t.w \in Held
  BY <1>3 DEF Evident
<1>5. Target("EXECUTION_UNKNOWN") = "UNKNOWN"
  BY DEF Target, Edge
<1>6. Targets \subseteq {"target"}
  BY DEF Targets, GitHubTargets
<1>7. /\ op'.state = "UNKNOWN" /\ op'.latest = "UNKNOWN" /\ "object" \notin op'.ids
      /\ op'.undo = op.undo
      /\ op' \in Operations
  <2>1. op \in Operations
    BY <1>3 DEF ProtocolTypes
  <2>2. op' = [state |-> "UNKNOWN", number |-> op.number + 1, latest |-> "UNKNOWN",
               ids |-> Targets, known |-> op.known,
               count |-> op.count, undo |-> op.undo, undos |-> op.undos]
    BY <1>2, <1>5, <2>1 DEF Operations
  <2>3. /\ op.number + 1 \in Nat /\ op.known \in SUBSET Identities
        /\ op.count \in Nat /\ op.undo \in {"none", "done", "failed", "unknown"}
        /\ op.undos \in Nat
    BY <1>3, OperationFields
  <2>4. Targets \in SUBSET Identities /\ "UNKNOWN" \in OperationStates /\ "UNKNOWN" \in Outcomes
    BY <1>6 DEF Identities, OperationStates, Outcomes
  <2>5. op' \in Operations
    BY <2>2, <2>3, <2>4 DEF Operations
  <2> QED
    BY <1>6, <2>2, <2>5
<1>8. ProtocolTypes'
  BY <1>1, <1>2, <1>3, <1>4, <1>7 DEF ProtocolTypes
<1>9. Traced' /\ Single'
  BY <1>1, <1>2, <1>3, <1>7 DEF Traced, Single
<1>10. Blind' /\ Looked' /\ SuccessIsReal'
  BY <1>7 DEF Blind, Looked, SuccessIsReal
<1>11. Undone'
  BY <1>1, <1>2, <1>3, <1>7 DEF Undone, ProtocolInv, Undoable
<1> QED
  BY <1>8, <1>9, <1>10, <1>11 DEF ProtocolInv

\* Where a verification, or a decision without one, may take the operation
LEMMA MovesKeep ==
  ASSUME ProtocolInv, UNCHANGED <<effect, o, world>>, op' \in Operations,
         op'.ids = op.ids, op'.latest = op.latest, op'.undo = op.undo,
         op'.state = "SUCCEEDED" => world.seen,
         op'.state \in {"READY", "FAILED"} =>
           /\ op'.count = 0 => world.flying = 0
           /\ effect \notin Created
           /\ effect # "mutate_natural" => world.made = 0,
         effect = "mutate_none" => op'.state \notin {"UNKNOWN", "VERIFYING"}
  PROVE  ProtocolInv'
<1>1. ProtocolTypes'
  BY DEF ProtocolTypes, ProtocolInv
<1>2. Traced'
  BY DEF Traced, ProtocolInv
<1>3. Single'
  <2>1. op'.state = "READY" /\ effect = "mutate_none" => world.made = 0
    OBVIOUS
  <2> QED
    BY <2>1 DEF Single, ProtocolInv
<1>4. Blind' /\ Looked' /\ SuccessIsReal'
  BY DEF Blind, Looked, SuccessIsReal
<1>5. Undone'
  BY DEF Undone, Undoable, ProtocolInv
<1> QED
  BY <1>1, <1>2, <1>3, <1>4, <1>5 DEF ProtocolInv

LEMMA VerifyKeeps ==
  ASSUME ProtocolInv, Verify PROVE ProtocolInv'
<1>1. /\ ProtocolTypes /\ Traced /\ Single
      /\ op.state \in {"UNKNOWN", "VERIFYING"} /\ d.verifiable
      /\ UNCHANGED <<effect, o, world>>
  BY DEF Verify, ProtocolInv
<1>2. PICK result \in Findings("ORIGINAL_EFFECT", op.ids, TRUE) :
        op' = [op EXCEPT
                 !.state = Target(VerificationKind(result, op.latest, op.number,
                                                   op.count + 1, d, o)),
                 !.count = @ + 1]
  BY DEF Verify
<1> DEFINE kind == VerificationKind(result, op.latest, op.number, op.count + 1, d, o)
<1>3. op.ids \in SUBSET Identities /\ op.count \in Nat /\ world.made \in Nat
  BY <1>1, OperationFields, Rests DEF ProtocolTypes
<1>4. /\ result \in VerificationResults
      /\ result = "APPLIED" => world.seen
      /\ result = "NOT_APPLIED" =>
           /\ effect \notin Created
           /\ effect # "mutate_natural" => world.made = 0
      /\ effect # "mutate_none"
  <2>1. CASE OnGitHub
    <3>1. /\ result = "APPLIED" => world.made > 0
          /\ result = "NOT_APPLIED" => effect \notin Created /\ world.made = 0
          /\ result \in VerificationResults
      BY <1>1, <1>3, <2>1, GitHubFinds
    <3>2. effect # "mutate_none"
      BY <2>1 DEF OnGitHub, GitHubEffects, Created
    <3> QED
      BY <1>1, <3>1, <3>2 DEF Traced
  <2>2. CASE ~OnGitHub
    <3>1. /\ result = "APPLIED" => world.made > 0 \/ "object" \in op.ids
          /\ result = "NOT_APPLIED" => (effect \in Keyed => world.made = 0)
          /\ result \in VerificationResults
      BY <1>1, <1>3, <2>2, ReferenceFinds
    <3>2. effect \in ReferenceEffects /\ effect \notin Created
      BY <1>1, <2>2, TwoProviders
    <3>3. effect # "mutate_none"
      BY <1>1, <2>2 DEF d, ReferenceDescriptor
    <3>4. effect # "mutate_natural" => effect \in Keyed \/ effect = "read_resource"
      BY <3>2, <3>3 DEF ReferenceEffects
    <3>5. effect = "read_resource" => world.made = 0
      BY <1>1 DEF Single
    <3>6. result = "APPLIED" => world.seen
      BY <1>1, <3>1, <3>2 DEF Traced
    <3> QED
      BY <3>1, <3>2, <3>3, <3>4, <3>5, <3>6
  <2> QED
    BY <2>1, <2>2
<1>5. /\ Target(kind) \in OperationStates
      /\ Target(kind) = "SUCCEEDED" => result = "APPLIED"
      /\ Target(kind) \in {"READY", "FAILED"} => result = "NOT_APPLIED"
  BY <1>4, VerificationLeads
<1> HIDE DEF kind
<1>6. op' = [op EXCEPT !.state = Target(kind), !.count = op.count + 1]
  BY <1>2 DEF kind
<1>7. op \in Operations
  BY <1>1 DEF ProtocolTypes
<1>8. op' = [state |-> Target(kind), number |-> op.number, latest |-> op.latest,
             ids |-> op.ids, known |-> op.known, count |-> op.count + 1,
             undo |-> op.undo, undos |-> op.undos]
  BY <1>6, <1>7 DEF Operations
<1>9. op' \in Operations
  <2>1. /\ op.number \in Nat /\ op.latest \in Outcomes /\ op.ids \in SUBSET Identities
        /\ op.known \in SUBSET Identities /\ op.count + 1 \in Nat
        /\ op.undo \in {"none", "done", "failed", "unknown"} /\ op.undos \in Nat
    BY <1>1, OperationFields
  <2> QED
    BY <1>5, <1>8, <2>1 DEF Operations
<1>10. /\ op'.state = Target(kind) /\ op'.count = op.count + 1
       /\ op'.ids = op.ids /\ op'.latest = op.latest /\ op'.undo = op.undo
  BY <1>8
<1>11. op'.state \in {"READY", "FAILED"} =>
         /\ op'.count = 0 => world.flying = 0
         /\ effect \notin Created
         /\ effect # "mutate_natural" => world.made = 0
  BY <1>3, <1>4, <1>5, <1>10
<1> QED
  BY <1>1, <1>4, <1>5, <1>9, <1>10, <1>11, MovesKeep

LEMMA DecideUnverifiedKeeps ==
  ASSUME ProtocolInv, DecideUnverified PROVE ProtocolInv'
<1>1. /\ ProtocolTypes /\ Single /\ Blind /\ Traced
      /\ op.state \in {"UNKNOWN", "VERIFYING"} /\ ~d.verifiable
      /\ UNCHANGED <<effect, o, world>>
      /\ op' = [op EXCEPT !.state = Target(UnverifiableKind(op.latest, op.number, FALSE, d, o))]
  BY DEF DecideUnverified, ProtocolInv
<1> DEFINE elapsed == FALSE
           kind == UnverifiableKind(op.latest, op.number, elapsed, d, o)
<1> HIDE DEF elapsed
<1>2. effect = "mutate_none" /\ d.mode = "NONE"
  <2>1. ~OnGitHub
    BY <1>1 DEF d, GitHubDescriptor
  <2>2. effect = "mutate_none"
    BY <1>1, <2>1 DEF d, ReferenceDescriptor
  <2> QED
    BY <2>1, <2>2 DEF d, ReferenceDescriptor, Keyed
<1>3. op.latest \in Outcomes /\ op.latest # "NOT_APPLIED"
  BY <1>1, <1>2, OperationFields DEF Blind
<1>4. Target(kind) = "MANUAL_INTERVENTION"
  <2>1. /\ Target(kind) \in {"READY", "MANUAL_INTERVENTION"}
        /\ Target(kind) = "READY" => op.latest = "NOT_APPLIED"
    BY <1>2, <1>3, UnverifiableLeads
  <2> QED
    BY <1>3, <2>1
<1> HIDE DEF kind
<1>5. op' = [op EXCEPT !.state = "MANUAL_INTERVENTION"]
  BY <1>1, <1>4 DEF kind, elapsed
<1>6. op \in Operations /\ "MANUAL_INTERVENTION" \in OperationStates
  BY <1>1 DEF ProtocolTypes, OperationStates
<1>7. op' \in Operations
  BY <1>5, <1>6 DEF Operations
<1>8. /\ op'.state = "MANUAL_INTERVENTION"
      /\ op'.ids = op.ids /\ op'.latest = op.latest /\ op'.undo = op.undo
  BY <1>5, <1>6 DEF Operations
<1> QED
  BY <1>1, <1>7, <1>8, MovesKeep

\* What a compensation, or its verification, may leave
LEMMA UndoMoves ==
  ASSUME ProtocolInv, Undoable, UNCHANGED <<effect, o>>, op' \in Operations,
         op'.ids = op.ids, op'.latest = op.latest, op'.state = op.state,
         op'.count = op.count,
         world' \in {world, [world EXCEPT !.closed = TRUE]},
         op'.undo = "done" => world'.closed
  PROVE  ProtocolInv'
<1>1. /\ ProtocolTypes /\ Traced /\ Single /\ Blind /\ Looked /\ SuccessIsReal
      /\ world \in Held
  BY DEF ProtocolInv, ProtocolTypes
<1>2. /\ world' \in Held
      /\ world'.made = world.made /\ world'.seen = world.seen
      /\ world'.flying = world.flying /\ world'.late = world.late
  <2>1. CASE world' = world
    BY <1>1, <2>1
  <2>2. CASE world' = [world EXCEPT !.closed = TRUE]
    BY <1>1, <2>2, MarksMean
  <2> QED
    BY <2>1, <2>2
<1>3. ProtocolTypes'
  BY <1>1, <1>2 DEF ProtocolTypes
<1>4. Traced' /\ Single'
  BY <1>1, <1>2 DEF Traced, Single
<1>5. Blind' /\ Looked' /\ SuccessIsReal'
  BY <1>1, <1>2 DEF Blind, Looked, SuccessIsReal
<1>6. Undone'
  BY DEF Undone, Undoable
<1> QED
  BY <1>3, <1>4, <1>5, <1>6 DEF ProtocolInv

LEMMA UndoAfterMeans ==
  ASSUME NEW outcome
  PROVE  /\ UndoAfter(outcome) \in {"done", "failed", "unknown"}
         /\ UndoAfter(outcome) = "done" => outcome = "APPLIED"
BY DEF UndoAfter

LEMMA UndoKeeps ==
  ASSUME ProtocolInv, Undo PROVE ProtocolInv'
<1>1. PICK t \in Undos :
        /\ world' = t.w
        /\ op' = [op EXCEPT !.undo = UndoAfter(t.outcome), !.undos = @ + 1]
  BY DEF Undo
<1>2. Undoable /\ UNCHANGED <<effect, o>>
  BY DEF Undo
<1>3. ProtocolTypes /\ op \in Operations
  BY DEF ProtocolInv, ProtocolTypes
<1>4. /\ world' \in {world, [world EXCEPT !.closed = TRUE]}
      /\ t.outcome = "APPLIED" => world'.closed
  BY <1>1, <1>3, UndoMeans
<1>5. /\ UndoAfter(t.outcome) \in {"done", "failed", "unknown"}
      /\ UndoAfter(t.outcome) = "done" => t.outcome = "APPLIED"
  BY UndoAfterMeans
<1>6. op' = [state |-> op.state, number |-> op.number, latest |-> op.latest, ids |-> op.ids,
             known |-> op.known, count |-> op.count, undo |-> UndoAfter(t.outcome),
             undos |-> op.undos + 1]
  BY <1>1, <1>3 DEF Operations
<1>7. op' \in Operations
  <2>1. op.undos + 1 \in Nat
    BY <1>3, OperationFields
  <2> QED
    BY <1>3, <1>5, <1>6, <2>1 DEF Operations
<1>8. /\ op'.ids = op.ids /\ op'.latest = op.latest /\ op'.state = op.state
      /\ op'.count = op.count /\ op'.undo = UndoAfter(t.outcome)
  BY <1>6
<1> QED
  BY <1>2, <1>4, <1>5, <1>7, <1>8, UndoMoves

LEMMA VerifyUndoKeeps ==
  ASSUME ProtocolInv, VerifyUndo PROVE ProtocolInv'
<1> DEFINE keyed == FALSE
           none == {}
<1> HIDE DEF keyed, none
<1>1. PICK result \in Findings("COMPENSATION", none, keyed) :
        op' = [op EXCEPT !.undo = UndoAfter(result)]
  BY DEF VerifyUndo, keyed, none
<1>2. op.undo = "unknown" /\ UNCHANGED <<effect, o, world>>
  BY DEF VerifyUndo
<1>3. Undoable
  BY <1>2 DEF ProtocolInv, Undone
<1>4. ProtocolTypes /\ op \in Operations
  BY DEF ProtocolInv, ProtocolTypes
<1>5. none \in SUBSET Identities
  BY DEF none
<1>6. result = "APPLIED" => world.closed
  BY <1>3, <1>4, <1>5, UndoFinds
<1>7. /\ UndoAfter(result) \in {"done", "failed", "unknown"}
      /\ UndoAfter(result) = "done" => result = "APPLIED"
  BY UndoAfterMeans
<1>8. op' \in Operations
  BY <1>1, <1>4, <1>7 DEF Operations
<1>9. /\ op'.ids = op.ids /\ op'.latest = op.latest /\ op'.state = op.state
      /\ op'.count = op.count /\ op'.undo = UndoAfter(result)
  BY <1>1, <1>4 DEF Operations
<1> QED
  BY <1>2, <1>3, <1>6, <1>7, <1>8, <1>9, UndoMoves

-----------------------------------------------------------------------------
\* A request that arrives after its answer was given up
LEMMA LandKeeps ==
  ASSUME ProtocolInv, Land PROVE ProtocolInv'
<1>1. /\ ProtocolTypes /\ Traced /\ Single /\ Blind /\ Looked /\ SuccessIsReal /\ Undone
      /\ world \in Held
      /\ world.made \in Nat /\ world.flying \in Nat /\ world.late \in BOOLEAN
      /\ world.seen \in BOOLEAN
  BY Rests DEF ProtocolInv, ProtocolTypes
<1> DEFINE carried == CarriedOut(effect, world)
<1>2. /\ world.flying > 0 /\ UNCHANGED <<effect, o, op>>
      /\ world' = [carried EXCEPT !.flying = carried.flying - 1,
                                  !.late = carried.late \/ op.count > 0]
  BY DEF Land
<1>3. effect \in GitHubEffects /\ effect \notin ReferenceEffects
  <2>1. effect \in GitHubEffects
    BY <1>1, <1>2 DEF Traced, ProtocolTypes
  <2>2. OnGitHub
    BY <2>1 DEF OnGitHub
  <2> QED
    BY <1>1, <2>1, <2>2, TwoProviders
<1>4. /\ carried \in Held
      /\ carried.closed = world.closed /\ carried.flying = world.flying
      /\ carried.late = world.late
  <2>1. effect \in GitHubEffects /\ world \in Held
    BY <1>1, <1>3
  <2> QED
    BY <2>1, CarriedOutMeans, ZenonT(40)
<1>5. /\ carried.made = world.made + 1 \/ carried.made = 1 \/ carried = world
      /\ effect \in Created => carried.made = world.made + 1
      /\ effect \notin Created => carried.made = 1 \/ carried = world
      /\ carried.seen = TRUE \/ carried = world
  <2>1. effect \in {"add_label", "merge_pull_request"} => effect \notin Created
    BY DEF Created
  <2>2. effect \in Created => carried.made = world.made + 1 /\ carried.seen = TRUE
    BY <1>1, <1>3, CarriedOutMeans
  <2>3. effect = "add_label" => carried.made = 1 /\ carried.seen = TRUE
    BY <1>1, <1>3, CarriedOutMeans
  <2>4. effect = "merge_pull_request" =>
          (carried.made = 1 /\ carried.seen = TRUE) \/ carried = world
    <3>1. effect = "merge_pull_request" /\ ~world.moved => carried.made = 1 /\ carried.seen = TRUE
      BY <1>1, <1>3, CarriedOutMeans
    <3>2. effect = "merge_pull_request" /\ world.moved => carried = world
      BY <1>1, <1>3, CarriedOutMeans
    <3> QED
      BY <3>1, <3>2
  <2>5. effect \in Created \/ effect = "add_label" \/ effect = "merge_pull_request"
    BY <1>3 DEF GitHubEffects
  <2> QED
    BY <2>1, <2>2, <2>3, <2>4, <2>5
<1> HIDE DEF carried
<1>6. /\ world'.made = carried.made /\ world'.seen = carried.seen
      /\ world'.closed = carried.closed
      /\ world'.flying = world.flying - 1
      /\ op.count > 0 => world'.late
  <2> DEFINE late == carried.late \/ op.count > 0
  <2>1. world' = [carried EXCEPT !.flying = carried.flying - 1, !.late = late]
    BY <1>2
  <2>2. op.count > 0 => late = TRUE
    OBVIOUS
  <2> HIDE DEF late
  <2>3. world'.late = late /\ world'.flying = carried.flying - 1
    BY <1>4, <2>1 DEF Held
  <2>4. /\ world'.made = carried.made /\ world'.seen = carried.seen
        /\ world'.closed = carried.closed
    BY <1>4, <2>1 DEF Held
  <2> QED
    BY <1>4, <2>2, <2>3, <2>4
<1>7. world' \in Held
  <2>1. world.flying - 1 \in Nat
    BY <1>1, <1>2
  <2>2. (carried.late \/ op.count > 0) \in BOOLEAN
    OBVIOUS
  <2>3. world' = [made |-> carried.made, closed |-> carried.closed, seen |-> carried.seen,
                  flying |-> world.flying - 1, late |-> (carried.late \/ op.count > 0),
                  moved |-> carried.moved, foreign |-> carried.foreign]
    BY <1>2, <1>4 DEF Held
  <2> QED
    BY <1>4, <2>1, <2>2, <2>3 DEF Held
<1>8. ProtocolTypes'
  BY <1>1, <1>2, <1>7 DEF ProtocolTypes
<1>9. Traced'
  BY <1>1, <1>2, <1>3, <1>5, <1>6 DEF Traced
<1>10. Single'
  <2>1. effect # "read_resource" /\ effect # "mutate_none"
    BY <1>3 DEF ReferenceEffects
  <2>2. op.state = "READY" => effect \notin Created
    BY <1>1, <1>2 DEF Single
  <2>3. world.made <= 1 /\ (effect \in Created => world.made + world.flying <= 1)
    BY <1>1 DEF Single
  <2>4. effect \in Created => world'.made + world'.flying <= 1 /\ world'.made <= 1
    BY <1>1, <1>2, <1>5, <1>6, <2>3
  <2>5. effect \notin Created => world'.made <= 1
    BY <1>1, <1>5, <1>6, <2>3
  <2> QED
    BY <1>2, <2>1, <2>2, <2>4, <2>5 DEF Single
<1>11. Blind' /\ Undone'
  BY <1>1, <1>2, <1>4, <1>6 DEF Blind, Undone, Undoable
<1>12. Looked'
  <2>1. op.count \in Nat
    BY <1>1, OperationFields
  <2>2. op.state \in {"READY", "FAILED"} => op.count > 0
    BY <1>1, <1>2, <2>1 DEF Looked
  <2>3. op.count > 0 => world'.late
    BY <1>6
  <2> QED
    BY <1>2, <2>1, <2>2, <2>3 DEF Looked
<1>13. SuccessIsReal'
  BY <1>1, <1>2, <1>5, <1>6 DEF SuccessIsReal
<1> QED
  BY <1>8, <1>9, <1>10, <1>11, <1>12, <1>13 DEF ProtocolInv

\* Other people
LEMMA MeddleKeeps ==
  ASSUME ProtocolInv, Meddle PROVE ProtocolInv'
<1>1. /\ ProtocolTypes /\ Traced /\ Single /\ Blind /\ Looked /\ SuccessIsReal /\ Undone
      /\ world \in Held
  BY DEF ProtocolInv, ProtocolTypes
<1>2. /\ UNCHANGED <<effect, o, op>>
      /\ \/ world' = [world EXCEPT !.moved = TRUE]
         \/ world' = [world EXCEPT !.closed = TRUE]
  BY DEF Meddle
<1>3. /\ world' \in Held
      /\ world'.made = world.made /\ world'.seen = world.seen
      /\ world'.flying = world.flying /\ world'.late = world.late
      /\ world.closed => world'.closed
  <2>1. CASE world' = [world EXCEPT !.moved = TRUE]
    <3>1. world' \in Held
      BY <1>1, <2>1 DEF Held
    <3>2. /\ world'.made = world.made /\ world'.seen = world.seen
          /\ world'.flying = world.flying /\ world'.late = world.late
          /\ world'.closed = world.closed
      BY <1>1, <2>1 DEF Held
    <3> QED
      BY <3>1, <3>2
  <2>2. CASE world' = [world EXCEPT !.closed = TRUE]
    <3>1. /\ world' \in Held
          /\ world'.made = world.made /\ world'.seen = world.seen
          /\ world'.flying = world.flying /\ world'.late = world.late
          /\ world'.closed = TRUE
      BY <1>1, <2>2, MarksMean
    <3> QED
      BY <3>1
  <2> QED
    BY <1>2, <2>1, <2>2
<1>4. ProtocolTypes'
  BY <1>1, <1>2, <1>3 DEF ProtocolTypes
<1>5. Traced' /\ Single'
  BY <1>1, <1>2, <1>3 DEF Traced, Single
<1>6. Blind' /\ Looked' /\ SuccessIsReal'
  BY <1>1, <1>2, <1>3 DEF Blind, Looked, SuccessIsReal
<1>7. Undone'
  BY <1>1, <1>2, <1>3 DEF Undone, Undoable
<1> QED
  BY <1>4, <1>5, <1>6, <1>7 DEF ProtocolInv

LEMMA NothingKeeps ==
  ASSUME ProtocolInv, UNCHANGED protocolVars PROVE ProtocolInv'
<1>1. UNCHANGED <<effect, o, world, op>>
  BY DEF protocolVars
<1>2. ProtocolTypes' /\ Traced' /\ Single'
  BY <1>1 DEF ProtocolInv, ProtocolTypes, Traced, Single
<1>3. Blind' /\ Looked' /\ SuccessIsReal' /\ Undone'
  BY <1>1 DEF ProtocolInv, Blind, Looked, SuccessIsReal, Undone, Undoable
<1> QED
  BY <1>2, <1>3 DEF ProtocolInv

-----------------------------------------------------------------------------
\* What is held, what is said and what may still arrive agree, at every step of every
\* operation through either adapter, for every policy's caps: the invariant that the
\* properties of EffectProtocol rest on
THEOREM ProtocolInvariance == ProtocolSpec => []ProtocolInv
<1>1. ProtocolInit => ProtocolInv
  BY InitProtocol
<1>2. ProtocolInv /\ [ProtocolNext]_protocolVars => ProtocolInv'
  BY AttemptKeeps, InterruptedKeeps, VerifyKeeps, DecideUnverifiedKeeps, UndoKeeps,
     VerifyUndoKeeps, LandKeeps, MeddleKeeps, NothingKeeps
     DEF ProtocolNext
<1> QED
  BY <1>1, <1>2, PTL DEF ProtocolSpec

\* However often an operation is attempted, whatever is lost, late or interrupted, its
\* provider never comes to hold two effects of it (EffectIsSingle)
THEOREM SingleEffect == ProtocolSpec => []EffectIsSingle
<1>1. ProtocolInv => EffectIsSingle
  BY DEF ProtocolInv, Single, EffectIsSingle
<1> QED
  BY <1>1, ProtocolInvariance, PTL

\* An operation that is said to have succeeded has had its effect (SuccessIsReal)
THEOREM RealSuccess == ProtocolSpec => []SuccessIsReal
<1>1. ProtocolInv => SuccessIsReal
  BY DEF ProtocolInv
<1> QED
  BY <1>1, ProtocolInvariance, PTL

\* An operation that is said to have failed has not had its effect, unless a request
\* arrived after a verification had looked, or the effect has no identity to look for
\* (FailureIsReal)
THEOREM RealFailure == ProtocolSpec => []FailureIsReal
<1>1. ProtocolInv => FailureIsReal
  BY DEF ProtocolInv, Looked, FailureIsReal
<1> QED
  BY <1>1, ProtocolInvariance, PTL

\* A compensation that is said to be done has closed what it was to close (UndoIsReal)
THEOREM RealUndo == ProtocolSpec => []UndoIsReal
<1>1. ProtocolInv => UndoIsReal
  BY DEF ProtocolInv, Undone, UndoIsReal
<1> QED
  BY <1>1, ProtocolInvariance, PTL
===============================================================================
