------------------------------ MODULE ClaimLedger ------------------------------
(***************************************************************************)
(* One claim and the money recovered against it.  recordPartialRecovery    *)
(* and resolveClaim each run in a READ COMMITTED transaction of their own: *)
(* they read the claim row, then the SUM of its recovery_event rows, both  *)
(* without a lock, validate what they read, and only then write.  Each     *)
(* statement sees what was committed when it started, so a transaction is  *)
(* three steps and other transactions commit between them.                 *)
(*                                                                         *)
(* Amounts are whole numbers; the SUM is kept as a running total, with the *)
(* number of recovery_event rows each operation wrote.  Inputs that        *)
(* validation rejects for their form alone (currency, zero amounts) throw  *)
(* before anything is written and are left out.                            *)
(***************************************************************************)
EXTENDS Integers

CONSTANTS
    Tx,        \* transactions that may be open at the same time
    Claimed,   \* claim.amount_claimed
    MaxExports \* bound on export jobs counted

ASSUME ClaimLedgerAssumption == Claimed \in Nat \ {0} /\ MaxExports \in Nat

Resolutions == {"FULL_RECOVERY", "DENIAL", "WRITE_OFF"}
Operations == Resolutions \cup {"PARTIAL"}
Terminal == {"recovered", "denied", "written_off"}

(* amountRecovered = null.                                                 *)
NoAmount == 0

newStatus == [k \in Resolutions |->
    CASE k = "FULL_RECOVERY" -> "recovered"
      [] k = "DENIAL" -> "denied"
      [] k = "WRITE_OFF" -> "written_off"]

VARIABLES
    status,     \* claim.status
    recovered,  \* SUM(recovery_event.amount_recovered)
    posted,     \* how many recovery_event rows each operation wrote
    ledger,     \* terminal audit_events: the detail recorded under each id
    finding,    \* status of the variance_finding a resolution may name
    exports,    \* EXPORT_RECORD_V1 jobs enqueued
    tx,         \* open transactions
    overlapped  \* have two transactions ever been open together? (history only)

vars == <<status, recovered, posted, ledger, finding, exports, tx, overlapped>>

(* A request as it arrives, and what its transaction has read so far.      *)
Idle == [step |-> "idle", op |-> "PARTIAL", amount |-> NoAmount, names |-> FALSE,
         sawStatus |-> "open", sawTotal |-> 0]

TxState ==
    [step : {"idle", "total", "write"}, op : Operations, amount : 0..Claimed, names : BOOLEAN,
     sawStatus : Terminal \cup {"open"}, sawTotal : Nat]

(* audit_event.detail of a terminal event: what was recovered and, when    *)
(* money was posted, by which row.  Only whether two details are equal     *)
(* matters: those without a row are, those with one never are.             *)
NoEvent == "none"
WithoutRow == "no recovery event"
WithRow == "own recovery event"

Init ==
    /\ status = "open"
    /\ recovered = 0
    /\ posted = [o \in Operations |-> 0]
    /\ ledger = [s \in Terminal |-> NoEvent]
    /\ finding = "disputed"
    /\ exports = 0
    /\ tx = [t \in Tx |-> Idle]
    /\ overlapped = FALSE

-----------------------------------------------------------------------------
(* First statement: SELECT the claim row.                                  *)
readClaim(t) ==
    /\ tx[t].step = "idle"
    /\ \E o \in Operations, a \in 0..Claimed, n \in BOOLEAN :
         /\ o = "PARTIAL" => a # NoAmount /\ ~n
         /\ tx' = [tx EXCEPT ![t] =
              [Idle EXCEPT !.step = "total", !.op = o, !.amount = a, !.names = n, !.sawStatus = status]]
    /\ overlapped' = (overlapped \/ \E u \in Tx : tx[u].step # "idle")
    /\ UNCHANGED <<status, recovered, posted, ledger, finding, exports>>

(* Second statement: SELECT SUM(amount_recovered).                         *)
readTotal(t) ==
    /\ tx[t].step = "total"
    /\ tx' = [tx EXCEPT ![t].step = "write", ![t].sawTotal = recovered]
    /\ UNCHANGED <<status, recovered, posted, ledger, finding, exports, overlapped>>

validatePartialRecovery(x) == x.sawTotal + x.amount <= Claimed

(* Mutant: a full recovery forgets what was recovered before it.           *)
validateClaimResolutionAlone(x) ==
    /\ x.sawStatus \notin Terminal
    /\ CASE x.op = "DENIAL" -> x.amount = NoAmount
         [] x.op = "WRITE_OFF" -> x.amount = NoAmount \/ x.sawTotal + x.amount < Claimed
         [] x.op = "FULL_RECOVERY" -> x.amount = Claimed

validateClaimResolution(x) ==
    /\ x.sawStatus \notin Terminal
    /\ CASE x.op = "DENIAL" -> x.amount = NoAmount
         [] x.op = "WRITE_OFF" -> x.amount = NoAmount \/ x.sawTotal + x.amount < Claimed
         [] x.op = "FULL_RECOVERY" -> x.amount # NoAmount /\ x.sawTotal + x.amount = Claimed

Close(t) == tx' = [tx EXCEPT ![t] = Idle]

(* Insert the recovery_event row.                                          *)
PostRecovery(x) ==
    /\ recovered' = recovered + x.amount
    /\ posted' = IF x.amount = NoAmount THEN posted ELSE [posted EXCEPT ![x.op] = @ + 1]

(* Mutant: the last partial recovery closes the claim by itself.           *)
recordPartialRecoveryCloses(t) ==
    /\ tx[t].step = "write" /\ tx[t].op = "PARTIAL"
    /\ validatePartialRecovery(tx[t])
    /\ PostRecovery(tx[t])
    /\ exports' \in {exports, IF exports < MaxExports THEN exports + 1 ELSE exports}
    /\ status' = IF recovered' >= Claimed THEN "recovered" ELSE status
    /\ Close(t)
    /\ UNCHANGED <<ledger, finding, overlapped>>

(* recordPartialRecovery's writes.  The export is enqueued under a         *)
(* savepoint: when that fails the recovery commits without it.             *)
recordPartialRecovery(t) ==
    /\ tx[t].step = "write" /\ tx[t].op = "PARTIAL"
    /\ validatePartialRecovery(tx[t])
    /\ PostRecovery(tx[t])
    /\ exports' \in {exports, IF exports < MaxExports THEN exports + 1 ELSE exports}
    /\ Close(t)
    /\ UNCHANGED <<status, ledger, finding, overlapped>>

(* writeAuditEvent under an id made of claim and status: an equal event is *)
(* a retry, a different one is a conflict that aborts the transaction.     *)
Detail(x) == IF x.amount = NoAmount THEN WithoutRow ELSE WithRow

(* Mutant: an existing event of the same id is always taken for a retry.   *)
AuditAcceptsAny(x) == TRUE

AuditAccepts(x) ==
    LET old == ledger[newStatus[x.op]] IN
    old = NoEvent \/ (old = WithoutRow /\ Detail(x) = WithoutRow)

resolveClaim(t) ==
    LET x == tx[t]
        new == newStatus[x.op] IN
    /\ x.step = "write" /\ x.op \in Resolutions
    /\ validateClaimResolution(x)
    /\ AuditAccepts(x)
    /\ PostRecovery(x)
    /\ status' = new
    /\ finding' = IF x.names /\ new \in {"recovered", "written_off"} THEN new ELSE finding
    /\ ledger' = [ledger EXCEPT ![new] = Detail(x)]
    /\ Close(t)
    /\ UNCHANGED <<exports, overlapped>>

(* Validation throws, the ledger refuses, or the connection is lost: the   *)
(* transaction rolls back and leaves nothing.                              *)
Rollback(t) ==
    /\ tx[t].step # "idle"
    /\ Close(t)
    /\ UNCHANGED <<status, recovered, posted, ledger, finding, exports, overlapped>>

Next ==
    \E t \in Tx :
        \/ readClaim(t) \/ readTotal(t)
        \/ recordPartialRecovery(t) \/ resolveClaim(t)
        \/ Rollback(t)

Spec == Init /\ [][Next]_vars

-----------------------------------------------------------------------------
(* The claim, its events and the open transactions have their types.       *)
TypeOK ==
    /\ status \in Terminal \cup {"open"}
    /\ recovered \in Nat
    /\ posted \in [Operations -> Nat]
    /\ ledger \in [Terminal -> {NoEvent, WithoutRow, WithRow}]
    /\ finding \in {"disputed", "recovered", "written_off"}
    /\ exports \in 0..MaxExports
    /\ tx \in [Tx -> TxState]
    /\ overlapped \in BOOLEAN

(* The stored status and the append-only ledger agree on whether the claim *)
(* is resolved: a terminal status has its event, an open claim has none    *)
(* (what deriveClaimStatus reconciles).                                    *)
StatusHasEvent ==
    /\ status \in Terminal => ledger[status] # NoEvent
    /\ status = "open" => \A s \in Terminal : ledger[s] = NoEvent

(* A resolved claim stays as it was resolved: recordPartialRecovery never  *)
(* looks at the status and still books money on a denied or written-off    *)
(* claim, yet as long as no two transactions overlap nothing reopens it or *)
(* turns it into another outcome.                                          *)
OutcomeIsFinal == [][~overlapped' /\ status \in Terminal => status' = status]_vars

(* However resolutions race, the money of a full recovery is posted once:  *)
(* the second transaction's terminal audit event has the first one's id    *)
(* and a different recovery event in its detail, and is refused.           *)
FullRecoveryPostedOnce == posted["FULL_RECOVERY"] <= 1 /\ posted["WRITE_OFF"] <= 1

(* "recovering more than was claimed is a data error this platform refuses *)
(* to record": the total recovered never exceeds amount_claimed.           *)
NeverOverRecovered == recovered <= Claimed

(* A claim reaches one terminal outcome: "2+ terminal audit_event rows for *)
(* one claim is unreachable through any production path".                  *)
SingleOutcome == \A s, u \in Terminal : ledger[s] # NoEvent /\ ledger[u] # NoEvent => s = u

(* As long as no two transactions overlap the validations keep the books:  *)
(* never more than the claimed amount, one outcome, a recovered claim's    *)
(* money adding up to the claimed amount, and the named finding mirroring  *)
(* the outcome.  What goes wrong under concurrency goes wrong only there.  *)
SerialBooksBalance ==
    ~overlapped =>
        /\ NeverOverRecovered
        /\ SingleOutcome
        /\ status = "recovered" => recovered = Claimed
        /\ finding # "disputed" => finding = status
=============================================================================
