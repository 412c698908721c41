------------------------------ MODULE ClaimQueue ------------------------------
(***************************************************************************)
(* The claimed-row queue that workflow_command and workflow_outbox_message *)
(* both are: a table of rows whose status goes pending -> claimed -> done  *)
(* ("delivered" for the outbox) or failed, a per-minute scan that reclaims *)
(* stale claims, claims due rows and enqueues one pg-boss job per claim,   *)
(* and a worker that executes those jobs in transactions of their own.     *)
(*                                                                         *)
(* TIME.  The scan reads one clock only: payload.requestedAt, the instant  *)
(* registerJobConsumers stored with the cron schedule when the worker      *)
(* booted (boss.ts).  Every instant is therefore kept relative to it:      *)
(*   uptime       real now - requestedAt, saturating at MaxUptime;         *)
(*   row[r].wait  run_after (created_at) - requestedAt, 0 once not after;  *)
(*   row[r].age   requestedAt - claimed_at, saturating at StaleAfter.      *)
(* A restart of the worker moves requestedAt to the real now.              *)
(*                                                                         *)
(* TRANSACTIONS.  A scan is one transaction and an execution is one        *)
(* transaction; row locks and SKIP LOCKED make their effects on one row    *)
(* serial, so each takes effect in one step, at its commit.  A transaction *)
(* that fails leaves the tables alone.                                     *)
(***************************************************************************)
EXTENDS Integers, FiniteSets

CONSTANTS
    Row,          \* row ids that may ever be inserted
    MaxAttempts,  \* reclaimStaleClaims' maxAttempts (5)
    StaleAfter,   \* reclaimStaleClaims' staleAfterMinutes (30), in ticks
    ScanLimit,    \* LIMIT of the claiming and reclaiming queries (20)
    MaxTries,     \* executions pg-boss grants one job: retryLimit + 1 (6)
    MaxUptime,    \* saturation of uptime: larger values behave the same
    CallsOut      \* do executions call an external service (outbox senders)?

ASSUME ClaimQueueAssumption ==
    /\ MaxAttempts \in Nat \ {0}
    /\ StaleAfter \in Nat \ {0}
    /\ ScanLimit \in Nat \ {0}
    /\ MaxTries \in Nat \ {0}
    /\ MaxUptime \in Nat \ {0}
    /\ CallsOut \in BOOLEAN

VARIABLES
    row,      \* the table
    job,      \* pg-boss jobs, by job id
    exec,     \* executions of jobs in flight in the worker process
    audited,  \* rows with a committed command_run / outbox_message_sent event
    active,   \* account.is_active of the tenant that owns the rows
    uptime    \* real time since the worker booted

vars == <<row, job, exec, audited, active, uptime>>

-----------------------------------------------------------------------------
Statuses == {"none", "pending", "claimed", "done", "failed"}
Settled == {"done", "failed"}

RowState == [status : Statuses, attempts : Nat, wait : Nat, age : Nat]

(* A job id is deterministicJobId of the row and the claim's attempts.     *)
JobId == Row \X (1..MaxAttempts)
JobState == [state : {"none", "queued", "active", "completed", "failed"}, tries : 0..MaxTries]

(* One execution: the job, which of its tries, and how far it has come:    *)
(* its handler runs, it has called out, or its transaction has committed.  *)
Execution == [id : JobId, try : 1..MaxTries, phase : {"running", "sent", "committed"}]

NoRow == [status |-> "none", attempts |-> 0, wait |-> 0, age |-> 0]
NoJob == [state |-> "none", tries |-> 0]

AtMost(n, bound) == IF n > bound THEN bound ELSE n

Init ==
    /\ row = [r \in Row |-> NoRow]
    /\ job = [k \in JobId |-> NoJob]
    /\ exec = {}
    /\ audited = {}
    /\ active = TRUE
    /\ uptime = 0

-----------------------------------------------------------------------------
(* Writers of the table.                                                   *)

(* Insert a row that is due from now on (run_after or created_at = now).   *)
InsertRow(r) == row' = [row EXCEPT ![r] = [NoRow EXCEPT !.status = "pending", !.wait = uptime]]

Insert(r) ==
    /\ row[r].status = "none"
    /\ InsertRow(r)
    /\ UNCHANGED <<job, exec, audited, active, uptime>>

(* What a scan may take of a set: as much as LIMIT allows.  Which rows go  *)
(* first (ORDER BY) is left open.                                          *)
Batch(S) == {B \in SUBSET S : Cardinality(B) = AtMost(Cardinality(S), ScanLimit)}

Stale == {r \in Row : row[r].status = "claimed" /\ row[r].age >= StaleAfter}

Exhausted(r) == row[r].attempts >= MaxAttempts

(* Mutant: a reclaim gives the attempt back to a row it does not give up.  *)
reclaimStaleClaimsRefunded(B) ==
    [r \in Row |->
        IF r \in B
        THEN [row[r] EXCEPT !.status = IF Exhausted(r) THEN "failed" ELSE "pending",
                            !.attempts = IF Exhausted(r) THEN @ ELSE @ - 1, !.age = 0]
        ELSE row[r]]

reclaimStaleClaims(B) ==
    [r \in Row |->
        IF r \in B
        THEN [row[r] EXCEPT !.status = IF Exhausted(r) THEN "failed" ELSE "pending", !.age = 0]
        ELSE row[r]]

Due(table) == {r \in Row : table[r].status = "pending" /\ table[r].wait = 0}

(* Mutant: the claim does not count itself.                                *)
claimDueUncounted(table, B) ==
    [r \in Row |->
        IF r \in B
        THEN [table[r] EXCEPT !.status = "claimed", !.age = 0]
        ELSE table[r]]

claimDue(table, B) ==
    [r \in Row |->
        IF r \in B
        THEN [table[r] EXCEPT !.status = "claimed", !.attempts = @ + 1, !.age = 0]
        ELSE table[r]]

(* Mutant: the job id is derived from the row alone.                       *)
JobKeyOfRow(r, attempts) == <<r, 1>>

JobKey(r, attempts) == <<r, attempts>>

(* boss.send with an explicit id: a no-op when a job has that id already.  *)
enqueue(table, B) ==
    [k \in JobId |->
        IF job[k].state = "none" /\ \E r \in B : k = JobKey(r, table[r].attempts)
        THEN [state |-> "queued", tries |-> 0]
        ELSE job[k]]

(* The scan tick: reclaim, then claim, then enqueue, in one transaction.   *)
Scan ==
    /\ active
    /\ \E R \in Batch(Stale) :
         LET reclaimed == reclaimStaleClaims(R) IN
         \E C \in Batch(Due(reclaimed)) :
            /\ row' = claimDue(reclaimed, C)
            /\ job' = enqueue(row', C)
    /\ UNCHANGED <<exec, audited, active, uptime>>

-----------------------------------------------------------------------------
(* pg-boss and the worker.                                                 *)

(* The worker fetches a job and starts an execution of it.                 *)
Fetch(k) ==
    /\ job[k].state = "queued"
    /\ job' = [job EXCEPT ![k] = [state |-> "active", tries |-> @.tries + 1]]
    /\ exec' = exec \cup {[id |-> k, try |-> job[k].tries + 1, phase |-> "running"]}
    /\ UNCHANGED <<row, audited, active, uptime>>

(* A try that ended badly: retried until the tries are used up.            *)
Retried(j) == [j EXCEPT !.state = IF j.tries < MaxTries THEN "queued" ELSE "failed"]

(* pg-boss expires a job whose execution is too slow or died with the      *)
(* worker.  An execution that is merely slow keeps running.                *)
Expire(k) ==
    /\ job[k].state = "active"
    /\ job' = [job EXCEPT ![k] = Retried(@)]
    /\ UNCHANGED <<row, exec, audited, active, uptime>>

(* pg-boss listens to an execution only while that try has not expired.    *)
Awaited(e) == job[e.id].state = "active" /\ job[e.id].tries = e.try

(* The handler throws: no handler registered for the type, or its own      *)
(* error.  The transaction rolls back and pg-boss sees a failed try.       *)
Throw(e) ==
    /\ e.phase \in {"running", "sent"}
    /\ exec' = exec \ {e}
    /\ job' = IF Awaited(e) THEN [job EXCEPT ![e.id] = Retried(@)] ELSE job
    /\ UNCHANGED <<row, audited, active, uptime>>

(* The handler calls an external service (outbox senders only).            *)
CallOut(e) ==
    /\ CallsOut
    /\ e.phase = "running"
    /\ exec' = (exec \ {e}) \cup {[e EXCEPT !.phase = "sent"]}
    /\ UNCHANGED <<row, job, audited, active, uptime>>

(* Mutant: the UPDATE has no WHERE status = 'claimed'.                     *)
completeUnguarded(r) == [row EXCEPT ![r].status = "done"]

(* completeWorkflowCommand / completeOutboxMessage.                        *)
complete(r) ==
    IF row[r].status \in {"claimed", "done"} THEN [row EXCEPT ![r].status = "done"] ELSE row

(* The dispatcher's transaction commits: handler, complete, audit event.   *)
(* What complete found is not looked at.                                   *)
Commit(e) ==
    /\ e.phase = IF CallsOut THEN "sent" ELSE "running"
    /\ row' = complete(e.id[1])
    /\ audited' = audited \cup {e.id[1]}
    /\ exec' = (exec \ {e}) \cup {[e EXCEPT !.phase = "committed"]}
    /\ UNCHANGED <<job, active, uptime>>

(* The work callback returns and pg-boss completes the job.                *)
Finish(e) ==
    /\ e.phase = "committed"
    /\ exec' = exec \ {e}
    /\ job' = IF Awaited(e) THEN [job EXCEPT ![e.id].state = "completed"] ELSE job
    /\ UNCHANGED <<row, audited, active, uptime>>

-----------------------------------------------------------------------------
(* Environment.                                                            *)

(* A minute passes.                                                        *)
Tick ==
    /\ uptime' = AtMost(uptime + 1, MaxUptime)
    /\ UNCHANGED <<row, job, exec, audited, active>>

(* Mutant: a boot leaves an existing schedule as it is.                    *)
RestartKeepsSchedule ==
    /\ exec' = {}
    /\ UNCHANGED <<row, job, audited, active, uptime>>

(* The worker dies (or is redeployed) and boots: executions in flight roll *)
(* back, and the schedules are stored again with the boot's requestedAt.   *)
Restart ==
    /\ exec' = {}
    /\ row' = [r \in Row |->
                 [row[r] EXCEPT !.wait = IF @ > uptime THEN @ - uptime ELSE 0,
                                !.age = IF row[r].status = "claimed"
                                        THEN AtMost(@ + uptime, StaleAfter) ELSE 0]]
    /\ uptime' = 0
    /\ UNCHANGED <<job, audited, active>>

(* updateAccount toggles is_active.                                        *)
SetActive ==
    /\ active' = ~active
    /\ UNCHANGED <<row, job, exec, audited, uptime>>

-----------------------------------------------------------------------------
Next ==
    \/ \E r \in Row : Insert(r)
    \/ Scan
    \/ \E k \in JobId : Fetch(k) \/ Expire(k)
    \/ \E e \in exec : Throw(e) \/ CallOut(e) \/ Commit(e) \/ Finish(e)
    \/ Tick
    \/ Restart
    \/ SetActive

Spec == Init /\ [][Next]_vars

(* Cron fires the scan every minute, workers poll every queue, pg-boss'    *)
(* supervisor expires overdue jobs, an execution ends one way or another,  *)
(* and time passes.  Nothing promises that an execution succeeds.          *)
WorkerFairness ==
    /\ WF_vars(Scan)
    /\ \A k \in JobId : WF_vars(Fetch(k)) /\ WF_vars(Expire(k))
    /\ WF_vars(\E e \in exec : Finish(e))
    /\ WF_vars(Tick)

(* The worker as the code runs it: nothing obliges it to restart.          *)
FairSpec == Spec /\ WorkerFairness

(* A platform that redeploys the worker again and again.                   *)
RedeployFairness == WorkerFairness /\ WF_vars(Restart)

-----------------------------------------------------------------------------
(* The tables, pg-boss' jobs and the worker's executions have their types. *)
TypeOK ==
    /\ row \in [Row -> RowState]
    /\ job \in [JobId -> JobState]
    /\ exec \subseteq Execution
    /\ audited \subseteq Row
    /\ active \in BOOLEAN
    /\ uptime \in 0..MaxUptime

(* Claims are bounded: no row is claimed more than MaxAttempts times, and  *)
(* a row is given up exactly when a reclaim finds its attempts used up     *)
(* (reclaimStaleClaims' CASE and claimDue's attempts + 1 agree).           *)
AttemptsBounded ==
    \A r \in Row :
        /\ row[r].attempts <= MaxAttempts
        /\ row[r].status = "pending" => row[r].attempts < MaxAttempts
        /\ row[r].status = "failed" => row[r].attempts = MaxAttempts

(* Every claim of a row has a pg-boss job of its own: none is swallowed by *)
(* the id of an earlier claim's job, and no job exists without a claim.    *)
OneJobPerClaim ==
    \A r \in Row : \A a \in 1..MaxAttempts :
        (job[<<r, a>>].state # "none") <=> (a <= row[r].attempts)

(* An open claim still has its work before it.  The job of the claim that  *)
(* stands (scheduleWorkflowCommandJobs keys it by attempts) waits, runs or *)
(* has used up its tries: it has not completed, and none of its executions *)
(* has committed, for the dispatcher would have closed the row with it.    *)
(* Work already on the ledger was an earlier claim's, cut off by a         *)
(* reclaim.  A claimed row that pg-boss takes for done would only be freed *)
(* by the next reclaim, after its command was carried out, and be carried  *)
(* out again.                                                              *)
OpenClaimHasWork ==
    \A r \in Row : row[r].status = "claimed" =>
        LET own == <<r, row[r].attempts>> IN
        /\ job[own].state \in {"queued", "active", "failed"}
        /\ \A e \in exec : e.id = own => e.phase # "committed"
        /\ r \in audited => row[r].attempts > 1

(* done and failed are final, whatever late executions and scans do.       *)
SettledIsFinal ==
    [][\A r \in Row : row[r].status \in Settled => row'[r].status = row[r].status]_vars

(* A due row of an active tenant does not stay pending.                    *)
DueFires ==
    (<>[]active) => \A r \in Row : row[r].status = "pending" ~> row[r].status # "pending"

(* A row of an active tenant ends done or failed: it is neither lost in    *)
(* claimed by a crash nor reclaimed for ever.                              *)
EventuallySettled ==
    (<>[]active) => \A r \in Row : row[r].status = "pending" ~> row[r].status \in Settled
=============================================================================
