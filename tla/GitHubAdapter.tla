---------------------------- MODULE GitHubAdapter ----------------------------
(***************************************************************************)
(* The GitHub adapter (providers/github): which evidence it makes of an   *)
(* answer to a mutating request, of a read-back, and of a request that    *)
(* closes what an operation had created.                                  *)
(*                                                                         *)
(* Evidence is an outcome and the identities it carries: "target" is what *)
(* the request itself names (the issue of a comment, the head and base of *)
(* a pull request), "object" is the identity GitHub gave to what it made. *)
(* An answer is Lost (the transport raised), or a status and a body; a    *)
(* body is "good", "malformed", or "other": it identifies something that  *)
(* is not what was asked for.                                             *)
(*                                                                         *)
(* What GitHub holds of one operation is w: how many objects w.made bear  *)
(* its marker (for a label or a merge, whether it is there), whether they *)
(* are closed, and whether the head of the pull request has moved on.     *)
(***************************************************************************)
EXTENDS Decisions

Created == {"create_issue", "create_issue_comment", "create_pull_request"}
GitHubEffects == Created \union {"add_label", "merge_pull_request"}

GitHubDescriptor(e) ==
  [mode |-> IF e = "add_label" THEN "NATURAL" ELSE "NONE",
   verifiable |-> TRUE, immediate |-> TRUE]

\* compensation_kind is not NONE: the issue or the pull request can be closed
GitHubUndoable == {"create_issue", "create_pull_request"}

GiveEvidence(outcome, ids) == [outcome |-> outcome, ids |-> ids]

\* verification_resource_ids, kept with the attempt before the call
GitHubTargets(e) == IF e = "create_issue" THEN {} ELSE {"target"}

-----------------------------------------------------------------------------
Lost == [status |-> 0, body |-> "malformed"]

\* issue_identity, comment_identity, pull_identity: ids, URLs and repository agree
Identified(body) == body # "malformed"

\* pull_matches_intent
MatchesIntent(body) == body = "good"

RefusesServerErrors(status) ==                      \* mutant: a 5xx taken for a refusal
  status \in {400, 401, 403, 404, 410, 422, 429, 500}

\* classify_http, its last component: GitHub has certainly not acted
KnownRefusal(status) == status \in {400, 401, 403, 404, 410, 422, 429}

\* _execution_http_error
ExecutionHttpError(e, status) ==
  GiveEvidence(IF KnownRefusal(status) THEN "NOT_APPLIED" ELSE "UNKNOWN", GitHubTargets(e))

\* _unknown_transport, _unknown_malformed and _unknown_inconsistent
Ambiguous(e) == GiveEvidence("UNKNOWN", GitHubTargets(e))

ExecuteCreateIssue(reply) ==
  IF reply.status # 201 THEN ExecutionHttpError("create_issue", reply.status)
  ELSE IF Identified(reply.body) THEN GiveEvidence("APPLIED", {"object"})
  ELSE Ambiguous("create_issue")

ExecuteComment(reply) ==
  IF reply.status # 201 THEN ExecutionHttpError("create_issue_comment", reply.status)
  ELSE IF Identified(reply.body) THEN GiveEvidence("APPLIED", {"target", "object"})
  ELSE Ambiguous("create_issue_comment")

\* The answer lists the labels of the issue
ExecuteAddLabel(reply) ==
  IF reply.status # 200 THEN ExecutionHttpError("add_label", reply.status)
  ELSE IF reply.body = "good" THEN GiveEvidence("APPLIED", {"target"})
  ELSE Ambiguous("add_label")

ExecuteCreatePull(reply) ==
  IF reply.status # 201 THEN ExecutionHttpError("create_pull_request", reply.status)
  ELSE IF Identified(reply.body) /\ MatchesIntent(reply.body)
       THEN GiveEvidence("APPLIED", {"target", "object"})
  ELSE Ambiguous("create_pull_request")

\* 405: not mergeable, 409: the head is not the expected one; the body "other" says
\* that GitHub has not merged
ExecuteMerge(reply) ==
  LET e == "merge_pull_request"
  IN IF reply.status \in {405, 409} THEN GiveEvidence("NOT_APPLIED", GitHubTargets(e))
     ELSE IF reply.status # 200 THEN ExecutionHttpError(e, reply.status)
     ELSE CASE reply.body = "good"      -> GiveEvidence("APPLIED", GitHubTargets(e))
            [] reply.body = "other"     -> GiveEvidence("NOT_APPLIED", GitHubTargets(e))
            [] reply.body = "malformed" -> Ambiguous(e)

\* Rejected before anything is sent: no credential, bad arguments (_validation_rejected)
\* or a deadline already over (_timeout, _known_error)
NotSent == GiveEvidence("NOT_APPLIED", {})

\* execute; "sendable" says that validation passed and that time is left
GitHubExecute(e, sendable, reply) ==
  CASE ~sendable                                   -> NotSent
    [] sendable /\ reply = Lost                    -> Ambiguous(e)
    [] sendable /\ reply # Lost ->
         CASE e = "create_issue"         -> ExecuteCreateIssue(reply)
           [] e = "create_issue_comment" -> ExecuteComment(reply)
           [] e = "add_label"            -> ExecuteAddLabel(reply)
           [] e = "create_pull_request"  -> ExecuteCreatePull(reply)
           [] e = "merge_pull_request"   -> ExecuteMerge(reply)

-----------------------------------------------------------------------------
(***************************************************************************)
(* A read-back is told what to look for: the effect, the target of the    *)
(* verification (the original effect or its compensation), the identities *)
(* at hand, what GitHub holds and how it answers.  An object is "hidden"  *)
(* while lists and the search do not show it, or not on their first page, *)
(* and when somebody has edited the marker away.                          *)
(***************************************************************************)
\* _inconclusive_absence, _verification_error: an object that is not found, and one that
\* contradicts what was asked for (PROVIDER_INCONSISTENT under a code of GitHub's own, so
\* that reconciliation does not take it for the end), leave the outcome unknown
NotObserved == "UNKNOWN"

\* What an object found with the operation's marker proves
MarkedAnyState(target, w) == "APPLIED"           \* mutant: open or closed, all the same

Marked(target, w) ==
  IF target = "COMPENSATION" /\ ~w.closed THEN "NOT_APPLIED" ELSE "APPLIED"

\* find_marked_issue, and the loops over comments and pull requests: an object that is
\* well identified and bears the operation's marker
FindMarked(w, reply, hidden) == Identified(reply.body) /\ w.made > 0 /\ ~hidden

VerifyCreateIssue(target, ids, w, reply, hidden) ==
  IF reply.status = 200 /\ FindMarked(w, reply, hidden) THEN Marked(target, w)
  ELSE NotObserved

VerifyCommentTrustingList(target, ids, w, reply, hidden) ==     \* mutant
  IF "target" \notin ids \/ reply.status # 200 THEN "UNKNOWN"
  ELSE IF FindMarked(w, reply, hidden) THEN "APPLIED"
  ELSE "NOT_APPLIED"

\* Without the identity of the comment, the first hundred comments of the issue
VerifyComment(target, ids, w, reply, hidden) ==
  IF "target" \notin ids \/ reply.status # 200 THEN "UNKNOWN"
  ELSE IF FindMarked(w, reply, hidden) THEN "APPLIED"
  ELSE NotObserved

\* The labels of the issue are read as they are
VerifyLabel(target, ids, w, reply, hidden) ==
  IF "target" \notin ids \/ reply.status # 200 \/ ~Identified(reply.body) THEN "UNKNOWN"
  ELSE IF w.made > 0 THEN "APPLIED"
  ELSE "NOT_APPLIED"

\* By number where it is known, else among the pull requests of this head and base.
\* The head and base to compare with ("target") come with the attempt that opened it
VerifyPull(target, ids, w, reply, hidden) ==
  IF "target" \notin ids \/ reply.status # 200 THEN "UNKNOWN"
  ELSE IF FindMarked(w, reply, hidden) /\ MatchesIntent(reply.body) THEN Marked(target, w)
  ELSE NotObserved

VerifyMergeByHead(target, ids, w, reply, hidden) ==     \* mutant: "merged" is not read
  IF \/ "target" \notin ids
     \/ reply.status # 200 \/ ~Identified(reply.body)
     \/ w.moved
  THEN "UNKNOWN"
  ELSE "APPLIED"

VerifyMerge(target, ids, w, reply, hidden) ==
  IF \/ "target" \notin ids
     \/ reply.status # 200 \/ ~Identified(reply.body)
     \/ w.moved
  THEN "UNKNOWN"
  ELSE IF w.made > 0 THEN "APPLIED"
  ELSE "NOT_APPLIED"

\* verify; without a credential nothing is read
GitHubVerify(e, credential, target, ids, w, reply, hidden) ==
  CASE ~credential -> "UNKNOWN"
    [] OTHER ->
         CASE e = "create_issue"         -> VerifyCreateIssue(target, ids, w, reply, hidden)
           [] e = "create_issue_comment" -> VerifyComment(target, ids, w, reply, hidden)
           [] e = "add_label"            -> VerifyLabel(target, ids, w, reply, hidden)
           [] e = "create_pull_request"  -> VerifyPull(target, ids, w, reply, hidden)
           [] e = "merge_pull_request"   -> VerifyMerge(target, ids, w, reply, hidden)

-----------------------------------------------------------------------------
\* Only an execution's own evidence can name the object to close
CanClose(ids) == "object" \in ids

\* _compensation_http_error, or the closed object as GitHub describes it
ClosedBy(reply) ==
  IF reply.status # 200
  THEN IF KnownRefusal(reply.status) THEN "NOT_APPLIED" ELSE "UNKNOWN"
  ELSE IF reply.body = "good" THEN "APPLIED" ELSE "UNKNOWN"

\* compensate, _close_pull_request: the evidence never carries an identity unless the
\* object has been closed
GitHubCompensate(credential, ids, reply) ==
  IF ~credential \/ ~CanClose(ids) THEN GiveEvidence("NOT_APPLIED", {})
  ELSE IF reply = Lost THEN GiveEvidence("UNKNOWN", {})
  ELSE IF ClosedBy(reply) = "APPLIED" THEN GiveEvidence("APPLIED", {"object"})
  ELSE GiveEvidence(ClosedBy(reply), {})

-----------------------------------------------------------------------------
(***************************************************************************)
(* GitHub itself, as the adapter relies on it: a refusal of the listed    *)
(* statuses is one, a 2xx answer with a readable body tells the truth, and *)
(* of everything else the request may or may not have been carried out.   *)
(***************************************************************************)
RefusalStatuses == {400, 401, 403, 404, 410, 422, 429}
OtherStatuses == {302, 500}

CarriedOut(e, w) ==
  CASE e \in Created              -> [w EXCEPT !.made = @ + 1, !.seen = TRUE]
    [] e = "add_label"            -> [w EXCEPT !.made = 1, !.seen = TRUE]
    [] e = "merge_pull_request"   -> IF w.moved THEN w
                                     ELSE [w EXCEPT !.made = 1, !.seen = TRUE]

SuccessStatus(e) == IF e \in Created THEN 201 ELSE 200

\* Still under way when the adapter stopped waiting for the answer
StillFlying(w) == [w EXCEPT !.flying = @ + 1]

Refusals(e) == RefusalStatuses \union (IF e = "merge_pull_request" THEN {405, 409} ELSE {})

Answer(status, body, after) == [reply |-> [status |-> status, body |-> body], w |-> after]

\* What may come of a mutating request: the answer and what GitHub then holds
GitHubAnswers(e, w) ==
  {Answer(s, "malformed", w) : s \in Refusals(e)}
  \union
  {Answer(s, "malformed", after) : s \in OtherStatuses \union {0, SuccessStatus(e)},
                                   after \in {w, CarriedOut(e, w), StillFlying(w)}}
  \union
  {Answer(SuccessStatus(e), "good", after) :
     after \in {CarriedOut(e, w)} \ (IF w.moved THEN {w} ELSE {})}
  \union
  {Answer(SuccessStatus(e), "other", w) : x \in {e} \ {"create_issue", "create_issue_comment"}}

\* What may come of a read
GitHubReads ==
  {Lost} \union [status : {404, 500, 200}, body : {"good", "other", "malformed"}]

\* What may come of the request to close: an answer of any kind, closed or not
GitHubCloses(w) ==
  {Answer(s, "malformed", w) : s \in RefusalStatuses}
  \union
  {Answer(s, "malformed", after) : s \in OtherStatuses \union {0, 200},
                                   after \in {w, [w EXCEPT !.closed = TRUE]}}
  \union
  {Answer(200, "good", [w EXCEPT !.closed = TRUE])}
=============================================================================
