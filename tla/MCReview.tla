------------------------------- MODULE MCReview -------------------------------
(***************************************************************************)
(* Review: disputes, the review of a contract's extraction, and the gates  *)
(* every request passes.  They share no state here, so a behaviour works   *)
(* at one of these desks and leaves the others alone.                      *)
(***************************************************************************)
EXTENDS Disputes, ContractReview, RequestGate, TLC

CONSTANTS r1, f1, f2, n1, n2, y1, y2

VARIABLE reviewDesk

SameCarrier == [f \in Finding |-> "c1"]
UnitAmount == [f \in Finding |-> 1]
MCConfidence == [r \in {r1} |-> [f \in {f1, f2} |-> IF f = f1 THEN 2 ELSE 0]]
MCRowAccount == [r \in {y1, y2} |-> IF r = y1 THEN n1 ELSE n2]

(* Disputes are looked at twice: two findings, accepted once and without   *)
(* claims, for the locks; one finding, accepted and claimed repeatedly,    *)
(* for the claims.                                                         *)
LockBound ==
    /\ \A f \in Finding : accepts'[f] <= 1
    /\ \A t \in Tx : tx'[t].op # "claim"
ClaimBound ==
    \A t \in Tx : /\ tx'[t].op = "status" => tx'[t].f = 1
                  /\ tx'[t].op = "dispute" => tx'[t].wants = {1}

(* A desk nobody works at starts in one of its initial states.             *)
ReviewInit ==
    /\ reviewDesk \in {"locks", "claims", "contracts", "gate"}
    /\ Init /\ ctInit /\ gtInit
    /\ reviewDesk # "gate" => ~gtInternal /\ gtMember = NoMembership /\ gtOpen = {}

ReviewNext ==
    \/ reviewDesk = "locks" /\ Next /\ LockBound /\ UNCHANGED <<ctVars, gtVars, reviewDesk>>
    \/ reviewDesk = "claims" /\ Next /\ ClaimBound /\ UNCHANGED <<ctVars, gtVars, reviewDesk>>
    \/ reviewDesk = "contracts" /\ ctNext /\ UNCHANGED <<vars, gtVars, reviewDesk>>
    \/ reviewDesk = "gate" /\ gtNext /\ UNCHANGED <<vars, ctVars, reviewDesk>>

ReviewSpec == ReviewInit /\ [][ReviewNext]_<<vars, ctVars, gtVars, reviewDesk>>
===============================================================================
