------------------------ MODULE CompensationPromise ------------------------
(***************************************************************************)
(* What a compensation promises to whoever asks for it, without workers,  *)
(* messages and rows: it is asked for once, it says COMPENSATED only of   *)
(* an effect that reached the provider, it makes no attempt once it is    *)
(* compensated or in the hands of a person, and only a failed one is      *)
(* opened again, with another attempt.                                    *)
(***************************************************************************)
EXTENDS Naturals

VARIABLES
  phase,     \* what the operation's state says of the compensation
  tries,     \* attempts made so far
  landed     \* whether the compensating effect has reached the provider

Init == phase = "absent" /\ tries = 0 /\ landed = FALSE

Ask == phase = "absent" /\ phase' = "open" /\ UNCHANGED <<tries, landed>>

\* An attempt; a failed compensation is opened again by it
Try ==
  /\ phase \in {"open", "failed"}
  /\ phase' = "open" /\ tries' = tries + 1
  /\ UNCHANGED landed

\* A request may reach the provider long after its attempt
Land == tries > 0 /\ landed' = TRUE /\ UNCHANGED <<phase, tries>>

Conclude ==
  /\ phase = "open" /\ tries > 0
  /\ \/ phase' = "compensated" /\ landed
     \/ phase' = "failed"
  /\ UNCHANGED <<tries, landed>>

HandOver ==
  /\ phase \in {"open", "failed"}
  /\ phase' = "manual"
  /\ UNCHANGED <<tries, landed>>

Next == Ask \/ Try \/ Land \/ Conclude \/ HandOver

Spec == Init /\ [][Next]_<<phase, tries, landed>>
=============================================================================
