----------------------------- MODULE ClaimReports -----------------------------
(***************************************************************************)
(* What is reported about claims.  A report is two or three statements of  *)
(* one READ COMMITTED transaction: first the claims, then the rows that    *)
(* hang off them.  Recoveries and resolutions commit in between.  Here a   *)
(* writer is one step (ClaimLedger has the races of writers); the races    *)
(* are those of a reader with the writers.                                 *)
(*                                                                         *)
(* Every claim and every recovery has a currency: createClaimFromDispute   *)
(* and validateRecoveryAmountAndCurrency refuse a row without one, and a   *)
(* recovery in another currency than its claim's.                          *)
(***************************************************************************)
EXTENDS Integers, Sequences, FiniteSets, Functions

CONSTANTS
    RpClaim,     \* claims
    CarrierOf,   \* dispute.carrier_id of each claim
    AccountOf,   \* claim.account_id
    CurrencyOf,  \* claim.currency
    ClaimedOf    \* claim.amount_claimed

ASSUME ClaimReportsAssumption ==
    /\ IsFiniteSet(RpClaim)
    /\ ClaimedOf \in [RpClaim -> Nat \ {0}]
    /\ DOMAIN CarrierOf = RpClaim /\ DOMAIN AccountOf = RpClaim /\ DOMAIN CurrencyOf = RpClaim

ClaimTerminalStatus == {"recovered", "denied", "written_off"}

VARIABLES
    rpStatus,     \* claim.status
    rpRecovered,  \* SUM(recovery_event.amount_recovered) of each claim
    rpTerminal,   \* terminal audit_events of each claim, as they were recorded
    rpReader,     \* the statement the reader is at
    rpSeen,       \* what the reader's statements returned
    rpDirty       \* did a writer commit between two of its statements? (history only)

dataVars == <<rpStatus, rpRecovered, rpTerminal>>
rpVars == <<dataVars, rpReader, rpSeen, rpDirty>>

NothingSeen == [status |-> [c \in {} |-> "open"], recovered |-> [c \in {} |-> 0], terminal |-> <<>>]

RpInit ==
    /\ rpStatus = [c \in RpClaim |-> "open"]
    /\ rpRecovered = [c \in RpClaim |-> 0]
    /\ rpTerminal = [c \in RpClaim |-> <<>>]
    /\ rpReader = "idle"
    /\ rpSeen = NothingSeen
    /\ rpDirty = FALSE

-----------------------------------------------------------------------------
(* Writers.                                                                *)
commit == rpDirty' = (rpReader \notin {"idle", "done"} \/ rpDirty) /\ UNCHANGED <<rpReader, rpSeen>>

postRecovery(c) ==
    /\ \E a \in 1..ClaimedOf[c] :
         /\ rpRecovered[c] + a <= ClaimedOf[c]
         /\ rpRecovered' = [rpRecovered EXCEPT ![c] = @ + a]
    /\ commit
    /\ UNCHANGED <<rpStatus, rpTerminal>>

resolveTo(c, new) ==
    /\ rpStatus[c] \notin ClaimTerminalStatus
    /\ \E a \in 0..ClaimedOf[c] :
         /\ \/ new = "recovered" /\ a # 0 /\ rpRecovered[c] + a = ClaimedOf[c]
            \/ new = "denied" /\ a = 0
            \/ new = "written_off" /\ (a = 0 \/ rpRecovered[c] + a < ClaimedOf[c])
         /\ rpRecovered' = [rpRecovered EXCEPT ![c] = @ + a]
    /\ rpStatus' = [rpStatus EXCEPT ![c] = new]
    /\ rpTerminal' = [rpTerminal EXCEPT ![c] = Append(@, new)]
    /\ commit

-----------------------------------------------------------------------------
(* The claims each report asks for.                                        *)
getCarrierRecoveryReport(carrier) == {c \in RpClaim : CarrierOf[c] = carrier}
getPortfolioReconciliation(account) == {c \in RpClaim : AccountOf[c] = account}
getCrossAccountPortfolio == RpClaim

reportClaims(S, status) ==
    /\ S # {}
    /\ rpSeen' = [NothingSeen EXCEPT !.status = [c \in S |-> status[c]]]

(* First statement of a report: its claims.                                *)
readClaims ==
    /\ rpReader = "idle"
    /\ \/ \E c \in RpClaim : reportClaims(getCarrierRecoveryReport(CarrierOf[c]), rpStatus)
       \/ \E c \in RpClaim : reportClaims(getPortfolioReconciliation(AccountOf[c]), rpStatus)
       \/ reportClaims(getCrossAccountPortfolio, rpStatus)
    /\ rpReader' = "events"
    /\ rpDirty' = FALSE
    /\ UNCHANGED dataVars

(* Second statement: the recovery events of these claims.                  *)
readEvents ==
    /\ rpReader = "events"
    /\ rpSeen' = [rpSeen EXCEPT !.recovered = [c \in DOMAIN rpSeen.status |-> rpRecovered[c]]]
    /\ rpReader' = "done"
    /\ UNCHANGED <<dataVars, rpDirty>>

(* getDerivedClaimStatus: the claim, its terminal events, its recoveries.  *)
readStoredStatus(c) ==
    /\ rpReader = "idle"
    /\ rpSeen' = [NothingSeen EXCEPT !.status = [d \in {c} |-> rpStatus[d]]]
    /\ rpReader' = "terminal"
    /\ rpDirty' = FALSE
    /\ UNCHANGED dataVars

readTerminalEvents(c) ==
    /\ rpReader = "terminal" /\ DOMAIN rpSeen.status = {c}
    /\ rpSeen' = [rpSeen EXCEPT !.terminal = <<rpTerminal[c]>>]
    /\ rpReader' = "events"
    /\ UNCHANGED <<dataVars, rpDirty>>

reportShown ==
    /\ rpReader = "done"
    /\ rpReader' = "idle" /\ rpSeen' = NothingSeen /\ rpDirty' = FALSE
    /\ UNCHANGED dataVars

RpNext ==
    \/ \E c \in RpClaim : postRecovery(c) \/ readStoredStatus(c) \/ readTerminalEvents(c)
    \/ \E c \in RpClaim, new \in ClaimTerminalStatus : resolveTo(c, new)
    \/ readClaims \/ readEvents \/ reportShown

RpSpec == RpInit /\ [][RpNext]_rpVars

-----------------------------------------------------------------------------
(* reconcilePortfolioTotals, aggregateCarrierRecovery and                  *)
(* aggregateCrossAccountPortfolio group the claims by currency alone or    *)
(* with the carrier or the account.                                        *)
reconcilePortfolioTotals == CurrencyOf
aggregateCarrierRecovery == [c \in RpClaim |-> <<CarrierOf[c], CurrencyOf[c]>>]
aggregateCrossAccountPortfolio == [c \in RpClaim |-> <<AccountOf[c], CurrencyOf[c]>>]

RestOf(seen, S) ==
    SumFunctionOnSet([c \in RpClaim |-> ClaimedOf[c]], S)
        - SumFunctionOnSet(seen.recovered, S)

(* Mutant: a denied claim falls through to the open ones.                  *)
accumulateClaimReconciliationOpen(seen, S) ==
    LET of(statuses) == {c \in S : seen.status[c] \in statuses} IN
    [claimed |-> SumFunctionOnSet(ClaimedOf, S),
     recovered |-> SumFunctionOnSet(seen.recovered, S),
     outstanding |-> RestOf(seen, of({"open", "denied"})),
     writtenOff |-> RestOf(seen, of({"written_off"})),
     denied |-> RestOf(seen, of({"denied"}))]

(* The bucket of the claims S: a recovered claim adds no remainder, the    *)
(* others put theirs where their status says.                              *)
accumulateClaimReconciliation(seen, S) ==
    LET of(statuses) == {c \in S : seen.status[c] \in statuses} IN
    [claimed |-> SumFunctionOnSet(ClaimedOf, S),
     recovered |-> SumFunctionOnSet(seen.recovered, S),
     outstanding |-> RestOf(seen, of({"open"})),
     writtenOff |-> RestOf(seen, of({"written_off"})),
     denied |-> RestOf(seen, of({"denied"}))]

claimReconciliationReconciles(b) == b.claimed = b.recovered + b.outstanding + b.writtenOff + b.denied

Buckets(key) ==
    LET shown == DOMAIN rpSeen.status IN
    {accumulateClaimReconciliation(rpSeen, {c \in shown : key[c] = k}) : k \in {key[c] : c \in shown}}

(* The latest terminal event decides; without one the claim is open.       *)
deriveClaimStatus(seen, c) ==
    LET events == seen.terminal[1] IN
    IF events = <<>> THEN "open" ELSE events[Len(events)]

-----------------------------------------------------------------------------
(* "Invariant every bucket satisfies: claimed == recovered + outstanding + *)
(* writtenOff + denied", and no part of it is negative, even when money    *)
(* came in between the statements of the report: the claims are read       *)
(* first, and what a recovered claim may still receive is nothing.  And    *)
(* getDerivedClaimStatus reports a mismatch only when the claim was        *)
(* resolved while it was being read, and then shows it as still open.      *)
ReportReconciles ==
    rpReader = "done" =>
        /\ \A key \in {reconcilePortfolioTotals, aggregateCarrierRecovery, aggregateCrossAccountPortfolio} :
             \A b \in Buckets(key) :
                /\ claimReconciliationReconciles(b)
                /\ b.outstanding >= 0 /\ b.writtenOff >= 0 /\ b.denied >= 0
        /\ rpSeen.terminal # <<>> =>
             \A c \in DOMAIN rpSeen.status :
                deriveClaimStatus(rpSeen, c) # rpSeen.status[c] => rpDirty /\ rpSeen.status[c] = "open"
===============================================================================
