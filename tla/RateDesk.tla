------------------------------- MODULE RateDesk -------------------------------
(***************************************************************************)
(* The Rates tab of the console: the rates of the active client, which the *)
(* tenant picker changes at any moment.  A switch loads the new client's   *)
(* rates and contract versions but neither cancels the load of the old one *)
(* nor clears what is shown, selected or being edited, while every request *)
(* goes out under the client active when it is sent.  The table hides its  *)
(* rows while isLoading; a load may end before another begun earlier, so   *)
(* here a row can be acted on whenever it is in the list.  Categories and  *)
(* currencies are left out.                                                *)
(***************************************************************************)
EXTENDS Integers, FiniteSets

CONSTANTS
    RateClient,        \* tenants the picker offers
    ContractVersion,
    VersionOwner,  \* the tenant of each contract version
    Rate,          \* contract_rate ids
    Amount,
    RateLoad,      \* runs of the tab's load()
    MaxRateEdits,  \* bound on creations, edits and deletions
    Nothing

ASSUME RateDeskAssumption ==
    /\ VersionOwner \in [ContractVersion -> RateClient]
    /\ MaxRateEdits \in Nat
    /\ Nothing \notin RateClient \cup Rate \cup ContractVersion

VARIABLES
    rdRate,      \* contract_rate rows: tenant, version and amount
    rdClient,    \* activeClient of the picker
    rdLoad,      \* load() runs: the tenant asked for and what came back
    rdShown,     \* rates in the table
    rdVersions,  \* contract versions the create dialog offers
    rdEditing,   \* the rate the edit dialog holds
    rdEdits,
    rdWritten    \* <<client the request went to, rate>> of every change made
                 \* to a rate (history only)

rdVars == <<rdRate, rdClient, rdLoad, rdShown, rdVersions, rdEditing, rdEdits, rdWritten>>

NoLoad == [phase |-> "idle", client |-> Nothing, rates |-> {}, versions |-> {}]
Stored == DOMAIN rdRate

(* contract_rate and contract_version, by the tenant in the path.          *)
listContractRates(t) == {r \in Stored : rdRate[r].tenant = t}
listContractVersionsForTenant(t) == {v \in ContractVersion : VersionOwner[v] = t}

(* Mutant: the version is taken as the request has it.                     *)
createContractRateUnchecked(t, r, v, a) ==
    rdRate' = [x \in Stored \cup {r} |->
                 IF x = r THEN [tenant |-> t, version |-> v, amount |-> a] ELSE rdRate[x]]

createContractRate(t, r, v, a) ==
    /\ VersionOwner[v] = t
    /\ rdRate' = [x \in Stored \cup {r} |->
                    IF x = r THEN [tenant |-> t, version |-> v, amount |-> a] ELSE rdRate[x]]

(* UPDATE and DELETE name the rate and the tenant; neither row, a 404.     *)
ownRate(t, r) == r \in listContractRates(t)

updateContractRate(t, r, a) ==
    /\ ownRate(t, r)
    /\ rdRate' = [rdRate EXCEPT ![r].amount = a]

deleteContractRate(t, r) ==
    /\ ownRate(t, r)
    /\ rdRate' = [x \in Stored \ {r} |-> rdRate[x]]

-----------------------------------------------------------------------------
beginRateLoad(l, t) ==
    /\ rdLoad[l].phase = "idle"
    /\ rdLoad' = [rdLoad EXCEPT ![l] = [NoLoad EXCEPT !.phase = "asked", !.client = t]]

(* The picker: the effect on activeClient.id loads, and no more.           *)
switchClient(t, l) ==
    /\ t # rdClient
    /\ rdClient' = t
    /\ beginRateLoad(l, t)
    /\ UNCHANGED <<rdRate, rdShown, rdVersions, rdEditing, rdEdits, rdWritten>>

(* Both lists are read; a request that fails yields an empty one.          *)
fetchContractRates(l) ==
    /\ rdLoad[l].phase = "asked"
    /\ \E rates \in {{}, listContractRates(rdLoad[l].client)},
          versions \in {{}, listContractVersionsForTenant(rdLoad[l].client)} :
         rdLoad' = [rdLoad EXCEPT ![l].phase = "answered", ![l].rates = rates,
                                  ![l].versions = versions]
    /\ UNCHANGED <<rdRate, rdClient, rdShown, rdVersions, rdEditing, rdEdits, rdWritten>>

showRates(l) ==
    /\ rdLoad[l].phase = "answered"
    /\ rdShown' = rdLoad[l].rates
    /\ rdVersions' = rdLoad[l].versions
    /\ rdLoad' = [rdLoad EXCEPT ![l] = NoLoad]
    /\ UNCHANGED <<rdRate, rdClient, rdEditing, rdEdits, rdWritten>>

countRateEdit(r) ==
    /\ rdEdits < MaxRateEdits
    /\ rdEdits' = rdEdits + 1
    /\ rdWritten' = rdWritten \cup {<<rdClient, r>>}

(* CreateRateDialog, for a version the list offers.                        *)
createRate(r, v, a, l) ==
    /\ rdClient # Nothing
    /\ r \notin Stored /\ \A w \in rdWritten : w[2] # r
    /\ v \in rdVersions
    /\ countRateEdit(r)
    /\ createContractRate(rdClient, r, v, a)
    /\ beginRateLoad(l, rdClient)
    /\ UNCHANGED <<rdClient, rdShown, rdVersions, rdEditing>>

(* The edit dialog keeps its rate until it is saved or dismissed.          *)
editRate(r) ==
    /\ rdClient # Nothing /\ r \in rdShown
    /\ rdEditing = Nothing
    /\ rdEditing' = r
    /\ UNCHANGED <<rdRate, rdClient, rdLoad, rdShown, rdVersions, rdEdits, rdWritten>>

dismissRate ==
    /\ rdEditing # Nothing
    /\ rdEditing' = Nothing
    /\ UNCHANGED <<rdRate, rdClient, rdLoad, rdShown, rdVersions, rdEdits, rdWritten>>

saveRate(a, l) ==
    /\ rdEditing # Nothing
    /\ countRateEdit(rdEditing)
    /\ updateContractRate(rdClient, rdEditing, a)
    /\ rdEditing' = Nothing
    /\ beginRateLoad(l, rdClient)
    /\ UNCHANGED <<rdClient, rdShown, rdVersions>>

(* The row goes from the table without a load.                             *)
handleDelete(r) ==
    /\ rdClient # Nothing /\ r \in rdShown
    /\ countRateEdit(r)
    /\ deleteContractRate(rdClient, r)
    /\ rdShown' = rdShown \ {r}
    /\ UNCHANGED <<rdClient, rdLoad, rdVersions, rdEditing>>

-----------------------------------------------------------------------------
rdInit ==
    /\ \E some \in SUBSET Rate, v \in ContractVersion, a \in Amount :
         rdRate = [r \in some |-> [tenant |-> VersionOwner[v], version |-> v, amount |-> a]]
    /\ rdClient = Nothing
    /\ rdLoad = [l \in RateLoad |-> NoLoad]
    /\ rdShown = {}
    /\ rdVersions = {}
    /\ rdEditing = Nothing
    /\ rdEdits = 0
    /\ rdWritten = {}

rdNext ==
    \/ \E t \in RateClient, l \in RateLoad : switchClient(t, l)
    \/ \E l \in RateLoad : fetchContractRates(l) \/ showRates(l)
    \/ \E r \in Rate, v \in ContractVersion, a \in Amount, l \in RateLoad : createRate(r, v, a, l)
    \/ \E r \in Rate : editRate(r) \/ handleDelete(r)
    \/ dismissRate
    \/ \E a \in Amount, l \in RateLoad : saveRate(a, l)

rdSpec == rdInit /\ [][rdNext]_rdVars

-----------------------------------------------------------------------------
(* Whatever the page shows while answers for another client come in late,  *)
(* a rate stays with the tenant of its contract version, and every change  *)
(* to a rate went out under that tenant.                                   *)
RatesStayWithTheirTenant ==
    \A r \in Stored :
        /\ VersionOwner[rdRate[r].version] = rdRate[r].tenant
        /\ \A w \in rdWritten : w[2] = r => w[1] = rdRate[r].tenant
===============================================================================
