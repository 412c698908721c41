----------------------------- MODULE InvoiceIntake -----------------------------
(***************************************************************************)
(* How an invoice becomes an audit run: EDI ingestion (ingestInvoice) and  *)
(* the PDF path, where a draft is extracted, reviewed, and confirmed or    *)
(* rejected.  Each request is one READ COMMITTED transaction:              *)
(*   - a confirmation or a rejection reads the draft without locking it,   *)
(*     and its final UPDATE does not look at the status again;             *)
(*   - detectDuplicateInvoice takes an advisory lock on the business key   *)
(*     (transaction set, number) that is held until the transaction ends.  *)
(* An audit_event's id is a function of (draft, event name), so the ledger *)
(* refuses a second confirmation, whose detail names another audit run.    *)
(*                                                                         *)
(* An invoice number stands for its class under the trimming and case      *)
(* folding that the lock and the query both apply.  Requests refused for   *)
(* their form (bad ids, unparseable EDI, unreadable PDF) write nothing and *)
(* are left out, and so is what persistAuditRun writes beyond the invoice  *)
(* and its run.                                                            *)
(***************************************************************************)
EXTENDS Integers, FiniteSets

CONSTANTS
    Tx,       \* transactions that may be open at the same time
    Draft,    \* ids for invoice_draft rows
    RunId,    \* ids for audit_run rows; their number bounds the committed runs
    Number,   \* invoice numbers, after normalisation
    None      \* no value: an unstated number, a null column, a free lock

ASSUME InvoiceIntakeAssumption == None \notin Tx \cup Draft \cup RunId \cup Number

TransactionSets == {"EDI", "PDF"}
Keys == TransactionSets \X Number
Open == {"extracted", "needs_carrier_review"}
DraftStatus == Open \cup {"absent", "confirmed", "rejected"}

VARIABLES
    draft,      \* invoice_draft rows
    run,        \* committed audit_run rows with their invoice
    ledger,     \* invoice_draft.confirmed events: the auditRunId in their detail
    keyLock,    \* holder of the advisory lock on each business key
    tx,         \* open transactions
    overlapped  \* drafts two transactions were finalising at once (history only)

vars == <<draft, run, ledger, keyLock, tx, overlapped>>

NoDraft == [status |-> "absent", carrier |-> FALSE, run |-> None]
NoRun == [set |-> "none", number |-> None, duplicate |-> "unknown", draft |-> None,
          carrier |-> FALSE]
Idle == [step |-> "idle", op |-> "none", draft |-> None, number |-> None,
         carrier |-> FALSE, duplicate |-> "unknown"]

Init ==
    /\ draft = [d \in Draft |-> NoDraft]
    /\ run = [r \in RunId |-> NoRun]
    /\ ledger = [d \in Draft |-> None]
    /\ keyLock = [k \in Keys |-> None]
    /\ tx = [t \in Tx |-> Idle]
    /\ overlapped = {}

Committed == {r \in RunId : run[r].set # "none"}
setOf(t) == IF tx[t].op = "ingest" THEN "EDI" ELSE "PDF"
keyOf(t) == <<setOf(t), tx[t].number>>

(* COMMIT and ROLLBACK both give back what the transaction locked.         *)
EndTx(t) ==
    /\ tx' = [tx EXCEPT ![t] = Idle]
    /\ keyLock' = [k \in Keys |-> IF keyLock[k] = t THEN None ELSE keyLock[k]]

-----------------------------------------------------------------------------
(* PDF drafts: extraction.                                                 *)

(* A single exact match wins; several are all offered; with none, a single *)
(* substring match wins.  Anything else is for the analyst to settle.      *)
matchCarrierName(exact, fuzzy) ==
    IF exact = 1 \/ (exact = 0 /\ fuzzy = 1)
    THEN [resolved |-> TRUE, candidates |-> 0]
    ELSE [resolved |-> FALSE, candidates |-> IF exact > 1 THEN exact ELSE fuzzy]

createInvoiceDraft(d) ==
    /\ draft[d].status = "absent"
    /\ \E exact, fuzzy \in 0..2 :
         LET match == matchCarrierName(exact, fuzzy) IN
         draft' = [draft EXCEPT ![d] =
             [status |-> IF ~match.resolved /\ match.candidates # 1
                         THEN "needs_carrier_review" ELSE "extracted",
              carrier |-> match.resolved, run |-> None]]
    /\ UNCHANGED <<run, ledger, keyLock, tx, overlapped>>

-----------------------------------------------------------------------------
(* Requests arrive.                                                        *)

Begin(t, d, request) ==
    /\ tx[t].step = "idle"
    /\ tx' = [tx EXCEPT ![t] = request]
    /\ overlapped' = IF \E u \in Tx : tx[u].draft = d /\ d # None
                     THEN overlapped \cup {d} ELSE overlapped
    /\ UNCHANGED <<draft, run, ledger, keyLock>>

(* confirmInvoiceDraft loads the draft and checks it; the analyst may have *)
(* corrected the number and may name a carrier.                            *)
loadForConfirm(t) ==
    \E d \in Draft, named \in BOOLEAN, n \in Number \cup {None} :
        /\ draft[d].status \in Open
        /\ draft[d].status = "needs_carrier_review" => named
        /\ Begin(t, d, [step |-> "key", op |-> "confirm", draft |-> d, number |-> n,
                        carrier |-> named \/ draft[d].carrier, duplicate |-> "unknown"])

loadForReject(t) ==
    \E d \in Draft :
        /\ draft[d].status \in Open
        /\ Begin(t, d, [Idle EXCEPT !.step = "commit", !.op = "reject", !.draft = d])

(* ingestInvoice stores the document and parses it, up to the evaluation.  *)
receiveEdi(t) ==
    \E n \in Number \cup {None} :
        Begin(t, None, [Idle EXCEPT !.step = "key", !.op = "ingest", !.number = n])

-----------------------------------------------------------------------------
(* resolveAndEvaluate, shared by both paths.                               *)

KeyFree(k) == keyLock[k] = None

(* Mutant: no lock is taken.                                               *)
lockKeyNever(t) ==
    /\ tx[t].step = "key"
    /\ tx' = [tx EXCEPT ![t].step = "detect"]
    /\ UNCHANGED <<draft, run, ledger, keyLock, overlapped>>

(* pg_advisory_xact_lock; an invoice without a number takes none.          *)
lockKey(t) ==
    /\ tx[t].step = "key"
    /\ IF tx[t].number = None THEN UNCHANGED keyLock
       ELSE /\ KeyFree(keyOf(t))
            /\ keyLock' = [keyLock EXCEPT ![keyOf(t)] = t]
    /\ tx' = [tx EXCEPT ![t].step = "detect"]
    /\ UNCHANGED <<draft, run, ledger, overlapped>>

(* The duplicate_invoice fact: unknown without a number, else whether an   *)
(* invoice with that key is on record, whatever its audit's outcome.       *)
detectDuplicateInvoice(t) ==
    /\ tx[t].step = "detect"
    /\ tx' = [tx EXCEPT ![t].step = "commit",
                        ![t].duplicate =
            IF tx[t].number = None THEN "unknown"
            ELSE IF \E r \in Committed : <<run[r].set, run[r].number>> = keyOf(t)
            THEN "yes" ELSE "no"]
    /\ UNCHANGED <<draft, run, ledger, keyLock, overlapped>>

(* The invoice and audit_run rows persistAuditRun inserts.                 *)
newRun(t) ==
    [set |-> setOf(t), number |-> tx[t].number, duplicate |-> tx[t].duplicate,
     draft |-> tx[t].draft, carrier |-> tx[t].carrier]

-----------------------------------------------------------------------------
(* Transactions end.                                                       *)

commitIngest(t) ==
    /\ tx[t].step = "commit" /\ tx[t].op = "ingest"
    /\ \E r \in RunId \ Committed : run' = [run EXCEPT ![r] = newRun(t)]
    /\ EndTx(t)
    /\ UNCHANGED <<draft, ledger, overlapped>>

(* Mutant: the event's id is not derived from the draft.                   *)
EventIsNewAlways(d) == TRUE

(* Is there no invoice_draft.confirmed event yet?  A later one would name  *)
(* another audit run, and writeAuditEvent throws.                          *)
EventIsNew(d) == ledger[d] = None

(* The UPDATE waits for the draft's row, then overwrites the status it     *)
(* finds there; event and COMMIT follow.                                   *)
commitConfirm(t) ==
    LET d == tx[t].draft IN
    /\ tx[t].step = "commit" /\ tx[t].op = "confirm"
    /\ EventIsNew(d)
    /\ \E r \in RunId \ Committed :
         /\ run' = [run EXCEPT ![r] = newRun(t)]
         /\ draft' = [draft EXCEPT ![d].status = "confirmed", ![d].run = r]
         /\ ledger' = [ledger EXCEPT ![d] = r]
    /\ EndTx(t)
    /\ UNCHANGED overlapped

commitReject(t) ==
    /\ tx[t].step = "commit" /\ tx[t].op = "reject"
    /\ draft' = [draft EXCEPT ![tx[t].draft].status = "rejected"]
    /\ EndTx(t)
    /\ UNCHANGED <<run, ledger, overlapped>>

(* Any throw undoes the transaction: AuditEventConflictError, for a draft  *)
(* already confirmed or for bytes first ingested under another content     *)
(* type; a criterion without its seed rows; a database error.              *)
Rollback(t) ==
    /\ tx[t].step # "idle"
    /\ EndTx(t)
    /\ UNCHANGED <<draft, run, ledger, overlapped>>

Arrive(t) == loadForConfirm(t) \/ loadForReject(t) \/ receiveEdi(t)

Proceed(t) ==
    \/ lockKey(t) \/ detectDuplicateInvoice(t)
    \/ commitIngest(t) \/ commitConfirm(t) \/ commitReject(t) \/ Rollback(t)

Next ==
    \/ \E d \in Draft : createInvoiceDraft(d)
    \/ \E t \in Tx : Arrive(t) \/ Proceed(t)

Spec == Init /\ [][Next]_vars

-----------------------------------------------------------------------------
TypeOK ==
    /\ draft \in [Draft -> [status : DraftStatus, carrier : BOOLEAN, run : RunId \cup {None}]]
    /\ run \in [RunId -> [set : TransactionSets \cup {"none"}, number : Number \cup {None},
                          duplicate : {"yes", "no", "unknown"}, draft : Draft \cup {None},
                          carrier : BOOLEAN]]
    /\ ledger \in [Draft -> RunId \cup {None}]
    /\ keyLock \in [Keys -> Tx \cup {None}]
    /\ tx \in [Tx -> [step : {"idle", "key", "detect", "commit"},
                      op : {"confirm", "reject", "ingest", "none"},
                      draft : Draft \cup {None}, number : Number \cup {None},
                      carrier : BOOLEAN, duplicate : {"yes", "no", "unknown"}]]
    /\ overlapped \subseteq Draft

(* Of the audit runs of one business key at most one took the invoice for  *)
(* a first billing, however the requests interleave: every other carries   *)
(* the duplicate fact into its evaluation (detectDuplicateInvoice's lock). *)
OneFirstBilling ==
    \A r, s \in Committed :
        /\ run[r].number # None
        /\ <<run[r].set, run[r].number>> = <<run[s].set, run[s].number>>
        /\ run[r].duplicate = "no" /\ run[s].duplicate = "no"
        => r = s

(* A draft becomes at most one audit run, although two confirmations may   *)
(* both load it as open and both persist (confirmInvoiceDraft).            *)
DraftConfirmedOnce ==
    \A r, s \in Committed : run[r].draft # None /\ run[r].draft = run[s].draft => r = s

(* An invoice confirmed from a draft is never persisted without a carrier: *)
(* what extraction left open, the confirmation had to name.                *)
DraftRunHasCarrier == \A r \in Committed : run[r].draft # None => run[r].carrier

(* A rejected draft was discarded without confirming: no audit run is      *)
(* recorded for it, unless a confirmation and a rejection of it ran at the *)
(* same time.  (loadDraft's status checks suffice serially.)               *)
RejectedWithoutRunSerially ==
    \A d \in Draft \ overlapped : draft[d].status = "rejected" => draft[d].run = None
===============================================================================
