---------------------------- MODULE MCClaimQueue ----------------------------
(***************************************************************************)
(* The queue seen twice: one row whose jobs are retried, for a tenant that *)
(* comes and goes, or several rows that compete for the scan's LIMIT, each *)
(* job tried once.  Which rows are inserted and when an account is         *)
(* switched off is the environment's, so leaving either out takes nothing  *)
(* from what the worker does with the rest.                                *)
(***************************************************************************)
EXTENDS ClaimQueue

VARIABLE alone

OnceTried == INSTANCE ClaimQueue WITH MaxTries <- 1

QueueInit == Init /\ alone \in BOOLEAN

QueueNext ==
    /\ \/ alone /\ Next /\ Cardinality({r \in Row : row'[r].status # "none"}) <= 1
       \/ ~alone /\ OnceTried!Next /\ active'
    /\ UNCHANGED alone

(* Expire is enabled whatever the tries, so its fairness is OnceTried's    *)
(* too.                                                                    *)
QueueSpec ==
    QueueInit /\ [][QueueNext]_<<vars, alone>> /\ RedeployFairness
=============================================================================
