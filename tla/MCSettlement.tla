----------------------------- MODULE MCSettlement -----------------------------
(***************************************************************************)
(* Money after the audit: the books of a claim, the reports on claims, the *)
(* payment decisions, the exports and the workflow instances share no      *)
(* state, so a behaviour works at one of these desks and leaves the others *)
(* alone.                                                                  *)
(***************************************************************************)
EXTENDS ClaimLedger, ClaimReports, PaymentGate, ExportRecord, WorkflowInstance, TLC

CONSTANTS z1, z2, z3

VARIABLE desk

MCCarrierOf == [c \in RpClaim |-> IF c = z1 THEN "k1" ELSE "k2"]
MCAccountOf == [c \in RpClaim |-> IF c = z3 THEN "a2" ELSE "a1"]
MCCurrencyOf == [c \in RpClaim |-> IF c = z2 THEN "EUR" ELSE "USD"]
MCClaimedOf == [c \in RpClaim |-> IF c = z1 THEN 2 ELSE 1]

MCVariance == [f \in Overcharge |-> IF f = "f1" THEN 1 ELSE 2]
MCAllowed == [draft |-> {"open"}, open |-> {"draft", "closed"}]

deskVars == <<vars, rpVars, payVars, exVars, wfVars, desk>>

DeskInit ==
    /\ Init /\ RpInit /\ PayInit /\ ExInit /\ WfInit
    /\ desk \in {"claim", "report", "payment", "export", "workflow"}

DeskNext ==
    \/ desk = "claim" /\ Next /\ UNCHANGED <<rpVars, payVars, exVars, wfVars, desk>>
    \/ desk = "report" /\ RpNext /\ UNCHANGED <<vars, payVars, exVars, wfVars, desk>>
    \/ desk = "payment" /\ PayNext /\ UNCHANGED <<vars, rpVars, exVars, wfVars, desk>>
    \/ desk = "export" /\ ExNext /\ UNCHANGED <<vars, rpVars, payVars, wfVars, desk>>
    \/ desk = "workflow" /\ WfNext /\ UNCHANGED <<vars, rpVars, payVars, exVars, desk>>

DeskSpec == DeskInit /\ [][DeskNext]_deskVars
Symm == Permutations(Tx)
===============================================================================
