------------------------------ MODULE ExportRecord ------------------------------
(***************************************************************************)
(* The export of a recovery to the client's system: a pg-boss job whose    *)
(* handler calls the adapter and records its answer, all inside one        *)
(* database transaction that the worker opened.  The adapter's effect      *)
(* survives a rollback, the rows do not.  A job that outlives its expiry   *)
(* is handed out again while the first handler is still at work.           *)
(***************************************************************************)
EXTENDS Integers

CONSTANTS
    Export,        \* exports, each with its idempotencyKey
    Registered,    \* those whose systemCode has an adapter
    ExWorker,      \* handlers that may run at the same time
    ExRetryLimit   \* retryLimit of EXPORT_RECORD_V1

ASSUME ExportRecordAssumption == Registered \subseteq Export /\ ExRetryLimit \in Nat

VARIABLES
    exJob,      \* state of the job of an export
    exTries,    \* how often it was handed out
    exRun,      \* what each handler is doing
    exEffect,   \* exports the client's system has taken in
    ackRows,    \* committed ACKNOWLEDGED rows
    ackEvents,  \* committed export_acknowledgement.recorded events of those
    failedRows, \* committed FAILED rows
    exFailures  \* FAILED answers handled (history only)

exVars == <<exJob, exTries, exRun, exEffect, ackRows, ackEvents, failedRows, exFailures>>

(* wrote is the row inserted in the handler's open transaction.            *)
NoExport == [step |-> "idle", answer |-> "none", wrote |-> "none"]

ExInit ==
    /\ exJob = [e \in Export |-> "none"]
    /\ exTries = [e \in Export |-> 0]
    /\ exRun = [e \in Export |-> [w \in ExWorker |-> NoExport]]
    /\ exEffect = {}
    /\ ackRows = [e \in Export |-> 0]
    /\ ackEvents = [e \in Export |-> 0]
    /\ failedRows = [e \in Export |-> 0]
    /\ exFailures = [e \in Export |-> 0]

Rows == <<ackRows, ackEvents, failedRows>>
Step(e, w) == exRun[e][w].step
Become(e, w, step, answer, wrote) ==
    exRun' = [exRun EXCEPT ![e][w] = [step |-> step, answer |-> answer, wrote |-> wrote]]

-----------------------------------------------------------------------------
(* The id of the job is a function of the recovery event: an export is     *)
(* enqueued once.                                                          *)
enqueueReconciliationExport(e) ==
    /\ exJob[e] = "none"
    /\ exJob' = [exJob EXCEPT ![e] = "queued"]
    /\ UNCHANGED <<exTries, exRun, exEffect, Rows, exFailures>>

handleExportRecordJob(e, w) ==
    /\ exJob[e] = "queued" /\ exRun[e][w] = NoExport
    /\ exJob' = [exJob EXCEPT ![e] = "active"]
    /\ exTries' = [exTries EXCEPT ![e] = @ + 1]
    /\ Become(e, w, "call", "none", "none")
    /\ UNCHANGED <<exEffect, Rows, exFailures>>

(* ExportAdapterRegistry.export.  An adapter answers a dedupeKey it has    *)
(* acknowledged with the same acknowledgement; it may fail before its      *)
(* system took the record in, or after, when the answer is lost.           *)
callAdapter(e, w) ==
    /\ Step(e, w) = "call"
    /\ \E answer \in {"ACKNOWLEDGED", "FAILED", "NOT_CONFIGURED"} :
         /\ answer = "NOT_CONFIGURED" <=> e \notin Registered
         /\ \E taken \in (IF answer = "NOT_CONFIGURED" THEN {{}}
                          ELSE IF answer = "FAILED" THEN {{}, {e}} ELSE {{e}}) :
              exEffect' = exEffect \cup taken
         /\ Become(e, w, "answered", answer, "none")
         /\ exFailures' = [exFailures EXCEPT ![e] = IF answer = "FAILED" THEN 1 ELSE @]
    /\ UNCHANGED <<exJob, exTries, Rows>>

Inserting(e) == {w \in ExWorker : exRun[e][w].wrote = "ACKNOWLEDGED"}

(* Mutant: no conflict target, so nothing waits and nothing is skipped.    *)
recordExportAcknowledgementTwice(e, w) ==
    /\ Step(e, w) \in {"answered", "waiting"} /\ exRun[e][w].answer = "ACKNOWLEDGED"
    /\ Become(e, w, "written", "ACKNOWLEDGED", "ACKNOWLEDGED")
    /\ UNCHANGED <<exJob, exTries, exEffect, Rows, exFailures>>

(* INSERT ... ON CONFLICT DO NOTHING: waits for an insert of the same key  *)
(* that is not committed; finds nothing to do if one was committed before  *)
(* the statement began; and if one was committed while it waited, neither  *)
(* the insert nor the statement's snapshot has a row, and the handler      *)
(* throws.                                                                 *)
recordExportAcknowledgement(e, w) ==
    /\ Step(e, w) \in {"answered", "waiting"} /\ exRun[e][w].answer = "ACKNOWLEDGED"
    /\ \/ /\ Inserting(e) # {} /\ Step(e, w) = "answered"
          /\ Become(e, w, "waiting", "ACKNOWLEDGED", "none")
       \/ /\ Inserting(e) = {} /\ ackRows[e] = 0
          /\ Become(e, w, "written", "ACKNOWLEDGED", "ACKNOWLEDGED")
       \/ /\ Inserting(e) = {} /\ ackRows[e] > 0
          /\ Become(e, w, IF Step(e, w) = "waiting" THEN "thrown" ELSE "written",
                    "ACKNOWLEDGED", "none")
    /\ UNCHANGED <<exJob, exTries, exEffect, Rows, exFailures>>

(* The FAILED row is inserted, then ExportRecordFailedError is thrown.     *)
recordFailure(e, w) ==
    /\ Step(e, w) = "answered" /\ exRun[e][w].answer = "FAILED"
    /\ Become(e, w, "thrown", "FAILED", "FAILED")
    /\ UNCHANGED <<exJob, exTries, exEffect, Rows, exFailures>>

(* withTenantTx: COMMIT when the handler returned.                         *)
commitExport(e, w) ==
    /\ \/ Step(e, w) = "written"
       \/ Step(e, w) = "answered" /\ exRun[e][w].answer = "NOT_CONFIGURED"
    /\ LET acked == IF exRun[e][w].wrote = "ACKNOWLEDGED" THEN 1 ELSE 0 IN
         /\ ackRows' = [ackRows EXCEPT ![e] = @ + acked]
         /\ ackEvents' = [ackEvents EXCEPT ![e] = @ + acked]
    /\ Become(e, w, "done", exRun[e][w].answer, "none")
    /\ UNCHANGED <<exJob, exTries, exEffect, failedRows, exFailures>>

Retried(e) == IF exTries[e] <= ExRetryLimit THEN "queued" ELSE "failed"

(* ROLLBACK when it threw, whatever it had inserted; pg-boss tries again.  *)
rollbackExport(e, w) ==
    /\ Step(e, w) = "thrown"
    /\ exJob' = [exJob EXCEPT ![e] = IF @ = "active" THEN Retried(e) ELSE @]
    /\ exRun' = [exRun EXCEPT ![e][w] = NoExport]
    /\ UNCHANGED <<exTries, exEffect, Rows, exFailures>>

completeExport(e, w) ==
    /\ Step(e, w) = "done"
    /\ exJob' = [exJob EXCEPT ![e] = IF @ = "active" THEN "completed" ELSE @]
    /\ exRun' = [exRun EXCEPT ![e][w] = NoExport]
    /\ UNCHANGED <<exTries, exEffect, Rows, exFailures>>

(* A job active for too long; and a worker that dies, its transaction with *)
(* it, leaving the job to expire.                                          *)
expireExport(e) ==
    /\ exJob[e] = "active"
    /\ exJob' = [exJob EXCEPT ![e] = Retried(e)]
    /\ UNCHANGED <<exTries, exRun, exEffect, Rows, exFailures>>

crashExport(e, w) ==
    /\ Step(e, w) # "idle"
    /\ exRun' = [exRun EXCEPT ![e][w] = NoExport]
    /\ UNCHANGED <<exJob, exTries, exEffect, Rows, exFailures>>

ExNext ==
    \E e \in Export :
        \/ enqueueReconciliationExport(e) \/ expireExport(e)
        \/ \E w \in ExWorker :
             \/ handleExportRecordJob(e, w) \/ callAdapter(e, w)
             \/ recordExportAcknowledgement(e, w) \/ recordFailure(e, w)
             \/ commitExport(e, w) \/ rollbackExport(e, w)
             \/ completeExport(e, w) \/ crashExport(e, w)

ExSpec == ExInit /\ [][ExNext]_exVars

-----------------------------------------------------------------------------
(* However often a job is retried, expired under a handler or cut off by a *)
(* crash, an export has at most one acknowledgement, with its event, of a  *)
(* record the client's system really took in; and a job that completed for *)
(* a registered system has one (recordExportAcknowledgement).              *)
AcknowledgedOnce ==
    \A e \in Export :
        /\ ackRows[e] <= 1 /\ ackEvents[e] = ackRows[e]
        /\ ackRows[e] = 1 => e \in exEffect
        /\ exJob[e] = "completed" /\ e \in Registered => ackRows[e] = 1

(* What the handler's comment promises: a failed attempt leaves a FAILED   *)
(* row behind.  It does not: the throw that asks for the retry rolls the   *)
(* row back (export-record-handler.ts).                                    *)
FailureIsOnRecord ==
    \A e \in Export : exJob[e] = "failed" /\ exFailures[e] = 1 => failedRows[e] > 0
===============================================================================
