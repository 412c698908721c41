--------------------------- MODULE MCAdministration ---------------------------
(***************************************************************************)
(* The desks around the audit: tenants and their members on the server,    *)
(* the console's users page, its rates page, the pages over the in-memory  *)
(* store, and the deployment of the app.  They share no state here, so a   *)
(* behaviour works at one of these desks and leaves the others alone.      *)
(***************************************************************************)
EXTENDS TenantAdmin, UserDirectory, RateDesk, ScopedStore, Deployment, TLC

CONSTANTS b1, b2, k1, k2

VARIABLE office

MCStamp == <<2, 1, 1>>
MCVersionOwner == [v \in ContractVersion |-> IF v = k1 THEN b1 ELSE b2]

(* At most one commit of the line is broken.                               *)
MaxBroken == IF office = "deployment" THEN 1 ELSE 0

(* A desk nobody works at starts in one of its initial states.             *)
OfficeInit ==
    /\ office \in {"tenants", "users", "rates", "clients", "deployment"}
    /\ TaInit /\ dirInit /\ rdInit /\ StInit /\ DpInit
    /\ dirLoad[CHOOSE l \in Load : TRUE].phase = "paging"
    /\ office # "users" => DOMAIN dirRow = {}
    /\ office # "rates" => DOMAIN rdRate = {}
    /\ Cardinality({c \in DpCommit : dpNature[c] # "good"}) <= MaxBroken

OfficeNext ==
    \/ office = "tenants" /\ TaNext /\ UNCHANGED <<dirVars, rdVars, stVars, dpVars, office>>
    \/ office = "users" /\ dirNext /\ UNCHANGED <<taVars, rdVars, stVars, dpVars, office>>
    \/ office = "rates" /\ rdNext /\ UNCHANGED <<taVars, dirVars, stVars, dpVars, office>>
    \/ office = "clients" /\ StNext /\ UNCHANGED <<taVars, dirVars, rdVars, dpVars, office>>
    \/ office = "deployment" /\ DpNext /\ UNCHANGED <<taVars, dirVars, rdVars, stVars, office>>

OfficeSpec == OfficeInit /\ [][OfficeNext]_<<taVars, dirVars, rdVars, stVars, dpVars, office>>

Symm == UNION {Permutations(S) : S \in {Account, Member, Slot}}
===============================================================================
