--------------------------- MODULE OperationPromise ---------------------------
(***************************************************************************)
(* What the execution of an operation promises to whoever submitted it,   *)
(* without messages, handlers or journals: the effect is tried a bounded  *)
(* number of times, one try after the other was given up; success is      *)
(* reported only when the effect is there; failure only when every try    *)
(* the policy allows was used; anything else ends with a human.           *)
(***************************************************************************)
EXTENDS Naturals

CONSTANT Budget        \* tries that policy allows

VARIABLES phase, tries, landed

promise == <<phase, tries, landed>>

Init == phase = "ready" /\ tries = 0 /\ landed = FALSE

\* The operation is claimed for one more try
Try ==
  /\ phase = "ready" /\ tries < Budget
  /\ phase' = "trying" /\ tries' = tries + 1
  /\ UNCHANGED landed

\* The provider carries out a request of some try, at once or much later
Land ==
  /\ tries > 0
  /\ landed' = TRUE
  /\ UNCHANGED <<phase, tries>>

\* What the try did is not known, or is to be confirmed
Doubt ==
  /\ phase \in {"trying", "doubtful"}
  /\ phase' = "doubtful"
  /\ UNCHANGED <<tries, landed>>

Succeed ==
  /\ phase \in {"trying", "doubtful"} /\ landed
  /\ phase' = "succeeded"
  /\ UNCHANGED <<tries, landed>>

TryAgain ==
  /\ phase \in {"trying", "doubtful"} /\ tries < Budget
  /\ phase' = "ready"
  /\ UNCHANGED <<tries, landed>>

Fail ==
  /\ phase \in {"trying", "doubtful"} /\ tries = Budget
  /\ phase' = "failed"
  /\ UNCHANGED <<tries, landed>>

AskHuman ==
  /\ phase \in {"ready", "trying", "doubtful"}
  /\ phase' = "manual"
  /\ UNCHANGED <<tries, landed>>

Next == Try \/ Land \/ Doubt \/ Succeed \/ TryAgain \/ Fail \/ AskHuman

Spec == Init /\ [][Next]_promise
=============================================================================
