--------------------------- MODULE ReferenceAdapter ---------------------------
(***************************************************************************)
(* The in-process reference provider (providers/reference): its store and *)
(* the adapter over it, which scripts make answer late, wrongly or not at *)
(* all.                                                                   *)
(*                                                                         *)
(* The store, of one operation and the resource it names, is w: w.made    *)
(* rows of the operation's own, w.foreign whether another operation has   *)
(* put a row for the same resource, w.closed whether the row that stands  *)
(* for the resource is marked compensated or mitigated.  Rows are never   *)
(* deleted.  An effect is identified by the action alone.                 *)
(***************************************************************************)
EXTENDS Decisions

Keyed == {"mutate_provider_key", "mutate_eventual", "mutate_mitigating"}
ReferenceEffects == Keyed \union {"mutate_natural", "mutate_none", "read_resource"}

ReferenceDescriptor(e) ==
  [mode |-> CASE e \in Keyed -> "PROVIDER_KEY"
              [] e = "mutate_none" -> "NONE"
              [] OTHER -> "NATURAL",
   verifiable |-> e # "mutate_none",
   immediate |-> e # "read_resource"]

ReferenceUndoable == Keyed \union {"mutate_natural"}

\* ReferenceExecuteScript, by what _EXECUTE_SPECS says of each: a script that rejects
\* changes nothing, an ambiguous one and a lost response have changed the store
ExecuteScripts == {"APPLIED", "NOT_APPLIED", "UNKNOWN"}

Mutates(script) == script \in {"APPLIED", "UNKNOWN"}

\* "raised" says that the adapter lets a ContractValidationError out
Returned(outcome, ids, w) == [outcome |-> outcome, ids |-> ids, w |-> w, raised |-> FALSE]
Raised(w) == [outcome |-> "UNKNOWN", ids |-> {}, w |-> w, raised |-> TRUE]

\* ReferenceStore.put refuses an existing resource_id
Put(w) == [w EXCEPT !.made = @ + 1, !.seen = TRUE]

-----------------------------------------------------------------------------
\* _applied_from_row: the row that is already there is the effect
AppliedFromRow(w) == Returned("APPLIED", {"object"}, [w EXCEPT !.seen = TRUE])

\* _put_mutation and _execution_from_spec.  A mutate_none whose resource exists is put
\* under a name of its own; every other effect is refused by the store
Mutation(e, w, script) ==
  IF e # "mutate_none" /\ (w.foreign \/ w.made > 0) THEN Raised(w)
  ELSE Returned(script, IF script = "APPLIED" THEN {"object"} ELSE {}, Put(w))

\* _execute_read, _read_success: what a read has seen is not an effect
Read(w, script) ==
  Returned(IF script = "UNKNOWN" THEN "UNKNOWN" ELSE "NOT_APPLIED", {}, w)

\* _execute_body: the provider key finds the operation's own row, a natural effect any
\* row of the resource
ReferenceExecute(e, sendable, w, script) ==
  IF ~sendable THEN Returned("NOT_APPLIED", {}, w)
  ELSE IF e \in Keyed /\ w.made > 0 THEN AppliedFromRow(w)
  ELSE IF e = "mutate_natural" /\ (w.foreign \/ w.made > 0) THEN AppliedFromRow(w)
  ELSE IF e = "read_resource" THEN Read(w, script)
  ELSE IF Mutates(script) THEN Mutation(e, w, script)
  ELSE Returned("NOT_APPLIED", {}, w)

-----------------------------------------------------------------------------
\* ReferenceVerifyScript; the scripts that force an outcome answer without a look at
\* the store, and UNKNOWN_INCONSISTENT gives the one code that ends recovery at once
VerifyScripts == {"STORE", "APPLIED", "NOT_APPLIED", "UNKNOWN", "UNSUPPORTED"}
HonestScripts == VerifyScripts \ {"APPLIED", "NOT_APPLIED"}

\* _lookup_verify_row: by the identity of the result, or by the provider key
LookupVerifyRow(e, ids, key, w) ==
  "object" \in ids \/ (key /\ e \in Keyed /\ w.made > 0)

\* _verify_original_target; "aged": the row is older than the visibility delay
VerifyOriginalTarget(e, found, aged) ==
  IF found /\ (e # "mutate_eventual" \/ aged) THEN "APPLIED"
  ELSE IF e = "mutate_eventual" THEN "UNKNOWN"
  ELSE "NOT_APPLIED"

\* _verify_compensation_target
VerifyCompensationTarget(e, found, w) ==
  IF found /\ w.closed THEN "APPLIED"
  ELSE IF ~found /\ e = "mutate_eventual" THEN "UNKNOWN"
  ELSE "NOT_APPLIED"

\* verify, _verify_body, _forced_verification
ReferenceVerify(e, target, ids, key, w, script, aged) ==
  LET found == LookupVerifyRow(e, ids, key, w)
  IN IF e = "mutate_none" THEN "UNSUPPORTED"
     ELSE IF script # "STORE" THEN script
     ELSE IF target = "COMPENSATION" THEN VerifyCompensationTarget(e, found, w)
     ELSE VerifyOriginalTarget(e, found, aged)

-----------------------------------------------------------------------------
CompensateScripts == {"APPLIED", "NOT_APPLIED", "UNKNOWN"}

\* _mark_compensated
MarkCompensated(w) == [w EXCEPT !.closed = TRUE]

\* _compensate_body: a key that has undone its row replays the result; else the row is
\* found by the original evidence or by the resource named, whoever has put it
ReferenceCompensate(e, w, script) ==
  IF e \in Keyed /\ w.closed THEN Returned("APPLIED", {"object"}, w)
  ELSE IF ~(w.foreign \/ w.made > 0) THEN Returned("NOT_APPLIED", {}, w)
  ELSE IF e \notin ReferenceUndoable \/ script = "NOT_APPLIED"
       THEN Returned("NOT_APPLIED", {}, w)
  ELSE Returned(script, IF script = "APPLIED" THEN {"object"} ELSE {}, MarkCompensated(w))
=============================================================================
