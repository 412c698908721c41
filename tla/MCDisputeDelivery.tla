-------------------------- MODULE MCDisputeDelivery --------------------------
(***************************************************************************)
(* What the worker's queues chase: the delivery of approved disputes, and  *)
(* the reminders of unpaid claims.  They share no state, so a behaviour    *)
(* works at one desk and leaves the other alone.                           *)
(***************************************************************************)
EXTENDS DisputeDelivery, ClaimAging

VARIABLE desk

deskVars == <<vars, ageVars, desk>>

DeskInit == Init /\ AgeInit /\ desk \in {"delivery", "aging"}

DeskNext ==
    \/ desk = "delivery" /\ Next /\ UNCHANGED <<ageVars, desk>>
    \/ desk = "aging" /\ AgeNext /\ UNCHANGED <<vars, desk>>

DeskSpec == DeskInit /\ [][DeskNext]_deskVars /\ (desk = "aging" => AgeFairness)
=============================================================================
