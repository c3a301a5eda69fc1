---------------------------- MODULE EffectProtocol ----------------------------
(***************************************************************************)
(* One operation between the decisions and the providers: attempts,       *)
(* verifications and compensations through the adapters of GitHub and of  *)
(* the reference provider, and what the decisions make of their evidence. *)
(* The lifecycle around it (claims, messages, crashes of workers) is that *)
(* of Execution and Compensation; here an attempt is one step, and what   *)
(* matters is what the provider holds in the end.                         *)
(***************************************************************************)
EXTENDS GitHubAdapter, ReferenceAdapter

CONSTANTS
  AttemptCaps,     \* caps of attempts and of recoveries a policy may state
  MaxUndos         \* bound: compensation attempts

ASSUME ProtocolAssumption == AttemptCaps \subseteq Nat /\ MaxUndos \in Nat

VARIABLES
  effect,          \* the effect asked for
  o,               \* PolicyObligations
  world,           \* what the provider holds of it
  op               \* the operation

protocolVars == <<effect, o, world, op>>

OnGitHub == effect \in GitHubEffects
d == IF OnGitHub THEN GitHubDescriptor(effect) ELSE ReferenceDescriptor(effect)

Targets == IF OnGitHub THEN GitHubTargets(effect) ELSE {}

ProtocolInit ==
  /\ effect \in GitHubEffects \union ReferenceEffects
  /\ o \in Obligations(AttemptCaps)
  /\ \E foreign \in BOOLEAN :
       /\ effect \in GitHubEffects => ~foreign
       /\ world = [made |-> 0, closed |-> FALSE, seen |-> FALSE, flying |-> 0,
                   late |-> FALSE, moved |-> FALSE, foreign |-> foreign]
  /\ op = [state |-> "READY", number |-> 0, latest |-> "UNKNOWN", ids |-> {},
           known |-> {}, count |-> 0, undo |-> "none", undos |-> 0]

-----------------------------------------------------------------------------
\* What may come of an attempt: the evidence, what the provider then holds, and
\* whether the adapter let an exception out
Attempts ==
  IF OnGitHub
  THEN {[outcome |-> GitHubExecute(effect, TRUE, a.reply).outcome,
         ids |-> GitHubExecute(effect, TRUE, a.reply).ids,
         w |-> a.w, raised |-> FALSE] : a \in GitHubAnswers(effect, world)}
       \union {[outcome |-> NotSent.outcome, ids |-> NotSent.ids, w |-> world, raised |-> FALSE]}
  ELSE {ReferenceExecute(effect, sendable, world, script) :
          sendable \in BOOLEAN, script \in ExecuteScripts}

\* A claimed attempt, the call and the transition its evidence asks for
\* (execute_operation, decide_execution_kind)
Attempt ==
  /\ op.state = "READY"
  /\ \E a \in Attempts :
       /\ ~a.raised
       /\ world' = a.w
       /\ LET verdict == RegistryRetrySafety(d, a.outcome, None, FALSE)
              kind == ExecutionKind(a.outcome, d, o, op.number + 1, verdict)
          IN op' = [op EXCEPT !.state = Target(kind), !.number = @ + 1,
                              !.latest = a.outcome, !.ids = Targets \union a.ids,
                              !.known = @ \union a.ids]
  /\ UNCHANGED <<effect, o>>

\* The process ends before the evidence is kept, or because the adapter lets an exception
\* out: the attempt stays STARTED until recovery moves the operation to UNKNOWN
Interrupted ==
  /\ op.state = "READY"
  /\ \E a \in Attempts : world' = a.w
  /\ op' = [op EXCEPT !.state = Target("EXECUTION_UNKNOWN"), !.number = @ + 1,
                      !.latest = "UNKNOWN", !.ids = Targets]
  /\ UNCHANGED <<effect, o>>

\* What a verification may find
Findings(target, ids, key) ==
  IF OnGitHub
  THEN {GitHubVerify(effect, credential, target, ids, world, reply, hidden) :
          credential \in BOOLEAN, reply \in GitHubReads, hidden \in BOOLEAN}
  ELSE {ReferenceVerify(effect, target, ids, key, world, script, aged) :
          script \in HonestScripts, aged \in BOOLEAN}

\* A verification of the original effect and the transition its result asks for
\* (recover_operation, reconcile)
Verify ==
  /\ op.state \in {"UNKNOWN", "VERIFYING"} /\ d.verifiable
  /\ \E result \in Findings("ORIGINAL_EFFECT", op.ids, TRUE) :
       LET kind == VerificationKind(result, op.latest, op.number, op.count + 1, d, o)
       IN op' = [op EXCEPT !.state = Target(kind), !.count = @ + 1]
  /\ UNCHANGED <<effect, o, world>>

\* _unknown_without_verify
DecideUnverified ==
  /\ op.state \in {"UNKNOWN", "VERIFYING"} /\ ~d.verifiable
  /\ op' = [op EXCEPT !.state = Target(UnverifiableKind(op.latest, op.number, FALSE, d, o))]
  /\ UNCHANGED <<effect, o, world>>

-----------------------------------------------------------------------------
Undoable == effect \in GitHubUndoable \union ReferenceUndoable

Undos ==
  IF OnGitHub
  THEN {[outcome |-> GitHubCompensate(credential, op.known, a.reply).outcome,
         w |-> IF credential /\ CanClose(op.known) THEN a.w ELSE world] :
          credential \in BOOLEAN, a \in GitHubCloses(world)}
  ELSE LET Returns == {ReferenceCompensate(effect, world, script) : script \in CompensateScripts}
       IN {[outcome |-> r.outcome, w |-> r.w] : r \in Returns}

UndoAfter(outcome) ==
  CASE outcome = "APPLIED"     -> "done"
    [] outcome = "NOT_APPLIED" -> "failed"
    [] OTHER                   -> "unknown"

\* A compensation attempt of an operation that has succeeded; an attempt known to have
\* failed may be repeated
Undo ==
  /\ op.state = "SUCCEEDED" /\ Undoable
  /\ op.undo \in {"none", "failed"} /\ op.undos < MaxUndos
  /\ \E u \in Undos :
       /\ world' = u.w
       /\ op' = [op EXCEPT !.undo = UndoAfter(u.outcome), !.undos = @ + 1]
  /\ UNCHANGED <<effect, o>>

\* A verification of a compensation without evidence: its request carries no identity
\* and no provider key (build_compensation_verification_request)
VerifyUndo ==
  /\ op.undo = "unknown"
  /\ \E result \in Findings("COMPENSATION", {}, FALSE) :
       op' = [op EXCEPT !.undo = UndoAfter(result)]
  /\ UNCHANGED <<effect, o, world>>

-----------------------------------------------------------------------------
\* A request that was still under way arrives; too late for a verification already made
Land ==
  /\ world.flying > 0
  /\ world' = [CarriedOut(effect, world) EXCEPT !.flying = @ - 1,
                                                !.late = @ \/ op.count > 0]
  /\ UNCHANGED <<effect, o, op>>

\* Other people push to the branch before it is merged, or close what was opened
Meddle ==
  /\ \/ /\ effect = "merge_pull_request" /\ world.made = 0 /\ ~world.moved
        /\ world' = [world EXCEPT !.moved = TRUE]
     \/ /\ effect \in GitHubUndoable /\ world.made > 0 /\ ~world.closed
        /\ world' = [world EXCEPT !.closed = TRUE]
  /\ UNCHANGED <<effect, o, op>>

ProtocolNext ==
  \/ Attempt \/ Interrupted
  \/ Verify \/ DecideUnverified
  \/ Undo \/ VerifyUndo
  \/ Land \/ Meddle

ProtocolSpec == ProtocolInit /\ [][ProtocolNext]_protocolVars

-----------------------------------------------------------------------------
\* However often an operation is attempted, whatever is lost, late or interrupted, its
\* provider never comes to hold two effects of it: two issues, comments, pull requests
\* or rows (runtime/outcome.py and recovery/reconcile.py on the adapters' evidence)
EffectIsSingle == world.made <= 1

\* An operation that is said to have succeeded has had its effect
SuccessIsReal == op.state = "SUCCEEDED" => world.seen

\* An operation that is said to have failed has not had its effect, unless a request
\* arrived after a verification had looked; the reference provider's natural effect is
\* excepted, whose rows a verification cannot find without the identity of a response
FailureIsReal ==
  op.state = "FAILED" /\ effect # "mutate_natural" => world.made = 0 \/ world.late

\* A compensation that is said to be done has closed what it was to close
UndoIsReal == op.undo = "done" => world.closed
=============================================================================
