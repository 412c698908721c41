--------------------------- MODULE DeliveryContract ---------------------------
(***************************************************************************)
(* What approving a dispute promises about telling the carrier, with no    *)
(* queue, job or worker in it: the delivery is decided at most once and    *)
(* only for an approved dispute, the carrier sees at most one effect and   *)
(* only after the decision is on record, and a delivery is acknowledged    *)
(* only after the effect.                                                  *)
(***************************************************************************)
CONSTANTS
    Dispute,
    Message,   \* ids a delivery decision can have
    Key        \* idempotency keys a carrier-facing provider can see

VARIABLES
    approved,      \* disputes an analyst approved
    decided,       \* decisions on record, by dispute
    effects,       \* keys under which the carrier was contacted, by dispute
    acknowledged   \* disputes whose delivery is recorded as delivered

contractVars == <<approved, decided, effects, acknowledged>>

Init ==
    /\ approved = {}
    /\ decided = [d \in Dispute |-> {}]
    /\ effects = [d \in Dispute |-> {}]
    /\ acknowledged = {}

Approve(d) ==
    /\ d \notin approved
    /\ approved' = approved \cup {d}
    /\ UNCHANGED <<decided, effects, acknowledged>>

Decide(d) ==
    /\ d \in approved
    /\ decided[d] = {}
    /\ \E m \in Message : decided' = [decided EXCEPT ![d] = {m}]
    /\ UNCHANGED <<approved, effects, acknowledged>>

Effect(d) ==
    /\ decided[d] # {}
    /\ effects[d] = {}
    /\ \E k \in Key : effects' = [effects EXCEPT ![d] = {k}]
    /\ UNCHANGED <<approved, decided, acknowledged>>

Acknowledge(d) ==
    /\ effects[d] # {}
    /\ d \notin acknowledged
    /\ acknowledged' = acknowledged \cup {d}
    /\ UNCHANGED <<approved, decided, effects>>

Next == \E d \in Dispute : Approve(d) \/ Decide(d) \/ Effect(d) \/ Acknowledge(d)

Spec == Init /\ [][Next]_contractVars
=============================================================================
