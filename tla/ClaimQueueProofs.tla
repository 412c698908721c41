--------------------------- MODULE ClaimQueueProofs ---------------------------
(***************************************************************************)
(* Theorems about ClaimQueue, for every set of rows and every value of its *)
(* limits.  The safety invariants are proved together: the type of an      *)
(* execution's try needs JobBudget, the bound on attempts needs the exact  *)
(* value at which a reclaim gives up, the existence of jobs needs that a   *)
(* row which was never inserted was never claimed, and that an open claim  *)
(* has its work before it needs that nothing runs, and nothing reaches the *)
(* ledger, before a claim's job exists.                                    *)
(***************************************************************************)
EXTENDS ClaimQueue, TLAPS

(* pg-boss never starts a job whose tries are used up.                     *)
JobBudget == \A k \in JobId : job[k].state = "queued" => job[k].tries < MaxTries

(* A row that was never inserted was never claimed.                        *)
AbsentUnclaimed == \A r \in Row : row[r].status = "none" => row[r].attempts = 0

(* A row that is claimed has counted its claim.                            *)
ClaimCounted == \A r \in Row : row[r].status = "claimed" => row[r].attempts \in 1..MaxAttempts

(* An execution runs a job that was enqueued.                              *)
Dispatched == \A e \in exec : job[e.id].state # "none"

(* Work on the ledger was done for a claim.                                *)
AuditedWasClaimed == \A r \in audited : row[r].attempts >= 1

(* Is k the job of a claim that stands?                                    *)
Open(k) == row[k[1]].status = "claimed" /\ k[2] = row[k[1]].attempts

IndInv ==
    /\ TypeOK
    /\ AttemptsBounded
    /\ OneJobPerClaim
    /\ OpenClaimHasWork
    /\ JobBudget
    /\ AbsentUnclaimed
    /\ ClaimCounted
    /\ Dispatched
    /\ AuditedWasClaimed

-----------------------------------------------------------------------------
(* Saturation stays below its bound and never goes below a natural number. *)
LEMMA AtMostType ==
    ASSUME NEW n \in Nat, NEW b \in Nat
    PROVE  AtMost(n, b) \in 0..b
  BY DEF AtMost

(* A batch is made of rows the query selected.                             *)
LEMMA BatchSubset ==
    ASSUME NEW S, NEW B \in Batch(S)
    PROVE  B \subseteq S
  BY DEF Batch

(* A retried job keeps its type and its budget.                            *)
LEMMA RetriedType ==
    ASSUME NEW j \in JobState
    PROVE  /\ Retried(j) \in JobState
           /\ Retried(j).state \in {"queued", "failed"}
           /\ Retried(j).tries = j.tries
           /\ Retried(j).state = "queued" => Retried(j).tries < MaxTries
  BY ClaimQueueAssumption DEF Retried, JobState

(* Reclaiming changes no attempts, keeps the types and the attempts        *)
(* budget, and touches claimed rows only.                                  *)
LEMMA ReclaimFacts ==
    ASSUME IndInv, NEW B \in SUBSET Stale
    PROVE  LET t == reclaimStaleClaims(B) IN
           /\ t \in [Row -> RowState]
           /\ \A r \in Row :
                /\ t[r].attempts = row[r].attempts
                /\ t[r].status = "pending" => t[r].attempts < MaxAttempts
                /\ t[r].status = "failed" => t[r].attempts = MaxAttempts
                /\ t[r].status \in {"none", "claimed", "done"} => t[r].status = row[r].status
                /\ row[r].status \in Settled => t[r].status = row[r].status
<1> DEFINE t == reclaimStaleClaims(B)
<1>1. row \in [Row -> RowState]
  BY DEF IndInv, TypeOK
<1>2. \A r \in Row :
        t[r] = IF r \in B
               THEN [row[r] EXCEPT !.status = IF Exhausted(r) THEN "failed" ELSE "pending", !.age = 0]
               ELSE row[r]
  BY DEF reclaimStaleClaims
<1>3. t \in [Row -> RowState]
  BY <1>1 DEF reclaimStaleClaims, RowState, Statuses
<1>4. ASSUME NEW r \in Row
      PROVE  /\ t[r].attempts = row[r].attempts
             /\ t[r].status = "pending" => t[r].attempts < MaxAttempts
             /\ t[r].status = "failed" => t[r].attempts = MaxAttempts
             /\ t[r].status \in {"none", "claimed", "done"} => t[r].status = row[r].status
             /\ row[r].status \in Settled => t[r].status = row[r].status
  <2>1. /\ row[r] \in RowState
        /\ row[r].attempts <= MaxAttempts
        /\ row[r].status = "pending" => row[r].attempts < MaxAttempts
        /\ row[r].status = "failed" => row[r].attempts = MaxAttempts
    BY <1>1 DEF IndInv, AttemptsBounded
  <2>2. CASE r \in B
    <3>1. row[r].status = "claimed"
      BY <2>2 DEF Stale
    <3>2. /\ t[r].attempts = row[r].attempts
          /\ t[r].status = IF row[r].attempts >= MaxAttempts THEN "failed" ELSE "pending"
      BY <1>2, <2>1, <2>2 DEF RowState, Exhausted
    <3> QED
      BY <2>1, <3>1, <3>2, ClaimQueueAssumption DEF RowState, Settled
  <2>3. CASE r \notin B
    BY <1>2, <2>1, <2>3
  <2> QED
    BY <2>2, <2>3
<1> QED
  BY <1>3, <1>4

(* Claiming raises the attempts of exactly the claimed rows by one and     *)
(* leaves every other row as it was.                                       *)
LEMMA ClaimFacts ==
    ASSUME NEW t \in [Row -> RowState], NEW B \in SUBSET Due(t)
    PROVE  LET u == claimDue(t, B) IN
           /\ u \in [Row -> RowState]
           /\ \A r \in B : /\ t[r].status = "pending"
                           /\ u[r].status = "claimed"
                           /\ u[r].attempts = t[r].attempts + 1
           /\ \A r \in Row \ B : u[r] = t[r]
<1> DEFINE u == claimDue(t, B)
<1>1. \A r \in Row :
        u[r] = IF r \in B
               THEN [t[r] EXCEPT !.status = "claimed", !.attempts = @ + 1, !.age = 0]
               ELSE t[r]
  BY DEF claimDue
<1>2. \A r \in B : r \in Row /\ t[r].status = "pending"
  BY DEF Due
<1>3. u \in [Row -> RowState]
  <2>1. ASSUME NEW r \in Row, r \in B
        PROVE  u[r] \in RowState
    <3> DEFINE n == t[r].attempts + 1
    <3>1. n \in Nat /\ t[r].wait \in Nat
      BY <2>1 DEF RowState
    <3>2. u[r] = [t[r] EXCEPT !.status = "claimed", !.attempts = n, !.age = 0]
      BY <1>1, <2>1
    <3>3. u[r] = [status |-> "claimed", attempts |-> n, wait |-> t[r].wait, age |-> 0]
      BY <3>2 DEF RowState
    <3> HIDE DEF n, u
    <3> QED
      BY <3>1, <3>3 DEF RowState, Statuses
  <2>2. \A r \in Row \ B : u[r] \in RowState
    BY <1>1
  <2> QED
    BY <2>1, <2>2 DEF claimDue
<1>4. \A r \in B : u[r].status = "claimed" /\ u[r].attempts = t[r].attempts + 1
  BY <1>1, <1>2 DEF RowState
<1>5. \A r \in Row \ B : u[r] = t[r]
  BY <1>1
<1> QED
  BY <1>2, <1>3, <1>4, <1>5

(* A job id is a row and the number of one of its claims.                  *)
LEMMA JobIdPair ==
    ASSUME NEW k \in JobId
    PROVE  k = <<k[1], k[2]>> /\ k[1] \in Row /\ k[2] \in 1..MaxAttempts
  BY DEF JobId

(* An execution in flight belongs to a job id.                             *)
LEMMA ExecutionType ==
    ASSUME IndInv, NEW e \in exec
    PROVE  /\ e \in Execution /\ e.id \in JobId /\ e.id[1] \in Row
           /\ job[e.id] \in JobState
           /\ \A p \in {"running", "sent", "committed"} : [e EXCEPT !.phase = p] \in Execution
  BY DEF IndInv, TypeOK, Execution, JobId

-----------------------------------------------------------------------------
(* The initial state satisfies the inductive invariant.                    *)
LEMMA InitIndInv ==
    ASSUME Init
    PROVE  IndInv
  BY ClaimQueueAssumption DEF Init, IndInv, TypeOK, AttemptsBounded, OneJobPerClaim, OpenClaimHasWork, JobBudget,
         AbsentUnclaimed, ClaimCounted, Dispatched, AuditedWasClaimed, NoRow, NoJob, RowState, JobState, JobId, Statuses

(* A scan preserves it.                                                    *)
LEMMA ScanIndInv ==
    ASSUME IndInv, Scan
    PROVE  IndInv'
<1>1. PICK R \in Batch(Stale) :
        \E C \in Batch(Due(reclaimStaleClaims(R))) :
           /\ row' = claimDue(reclaimStaleClaims(R), C)
           /\ job' = enqueue(row', C)
  BY DEF Scan
<1> DEFINE t == reclaimStaleClaims(R)
<1>2. PICK C \in Batch(Due(t)) : row' = claimDue(t, C) /\ job' = enqueue(row', C)
  BY <1>1
<1>3. R \subseteq Stale /\ C \subseteq Due(t)
  BY BatchSubset
<1>4. /\ t \in [Row -> RowState]
      /\ \A r \in Row :
           /\ t[r].attempts = row[r].attempts
           /\ t[r].status = "pending" => t[r].attempts < MaxAttempts
           /\ t[r].status = "failed" => t[r].attempts = MaxAttempts
           /\ t[r].status \in {"none", "claimed", "done"} => t[r].status = row[r].status
  BY <1>3, ReclaimFacts
<1> HIDE DEF t
<1>5. /\ row' \in [Row -> RowState]
      /\ \A r \in C : /\ t[r].status = "pending"
                      /\ row'[r].status = "claimed"
                      /\ row'[r].attempts = t[r].attempts + 1
      /\ \A r \in Row \ C : row'[r] = t[r]
  BY <1>2, <1>3, <1>4, ClaimFacts
<1>6. C \subseteq Row
  BY <1>3 DEF Due
<1>7. UNCHANGED <<exec, audited, active, uptime>>
  BY DEF Scan
<1>8. job' = [k \in JobId |->
                IF job[k].state = "none" /\ \E r \in C : k = <<r, row'[r].attempts>>
                THEN [state |-> "queued", tries |-> 0] ELSE job[k]]
  BY <1>2 DEF enqueue, JobKey
<1>9. TypeOK'
  <2>1. job' \in [JobId -> JobState]
    BY <1>8, ClaimQueueAssumption DEF IndInv, TypeOK, JobState
  <2> QED
    BY <1>5, <1>7, <2>1 DEF IndInv, TypeOK
<1>10. AttemptsBounded'
  BY <1>4, <1>5, <1>6, ClaimQueueAssumption DEF IndInv, AttemptsBounded, TypeOK, RowState
<1>11. OneJobPerClaim'
  <2> SUFFICES ASSUME NEW r \in Row, NEW a \in 1..MaxAttempts
               PROVE  (job'[<<r, a>>].state # "none") <=> (a <= row'[r].attempts)
    BY DEF OneJobPerClaim
  <2>1. <<r, a>> \in JobId /\ row[r].attempts \in Nat
    BY DEF JobId, IndInv, TypeOK, RowState
  <2>2. (job[<<r, a>>].state # "none") <=> (a <= row[r].attempts)
    BY DEF IndInv, OneJobPerClaim
  <2>3. CASE r \in C
    <3>1. row'[r].attempts = row[r].attempts + 1
      BY <1>4, <1>5, <2>3
    <3>2. (\E q \in C : <<r, a>> = <<q, row'[q].attempts>>) <=> a = row'[r].attempts
      BY <2>3
    <3> QED
      BY <1>8, <2>1, <2>2, <3>1, <3>2
  <2>4. CASE r \notin C
    <3>1. row'[r].attempts = row[r].attempts
      BY <1>4, <1>5, <2>4
    <3>2. ~ \E q \in C : <<r, a>> = <<q, row'[q].attempts>>
      BY <2>4
    <3> QED
      BY <1>8, <2>1, <2>2, <3>1, <3>2
  <2> QED
    BY <2>3, <2>4
<1>12. \A k \in JobId : job[k].state # "none" => job'[k] = job[k]
  BY <1>8
<1>13. Dispatched'
  BY <1>7, <1>12, ExecutionType DEF IndInv, Dispatched
<1>14. ClaimCounted'
  BY <1>4, <1>5, <1>6, ClaimQueueAssumption DEF IndInv, ClaimCounted, TypeOK, RowState
<1>15. AuditedWasClaimed'
  BY <1>4, <1>5, <1>6, <1>7 DEF IndInv, AuditedWasClaimed, TypeOK, RowState
<1>16. OpenClaimHasWork'
  <2> SUFFICES ASSUME NEW r \in Row, row'[r].status = "claimed"
               PROVE  /\ job'[<<r, row'[r].attempts>>].state \in {"queued", "active", "failed"}
                      /\ \A e \in exec' : e.id = <<r, row'[r].attempts>> => e.phase # "committed"
                      /\ r \in audited' => row'[r].attempts > 1
    BY DEF OpenClaimHasWork
  <2> DEFINE own == <<r, row'[r].attempts>>
  <2>1. row'[r].attempts \in 1..MaxAttempts /\ own \in JobId
    BY <1>14 DEF ClaimCounted, JobId
  <2>2. CASE r \in C
    <3>1. row'[r].attempts = row[r].attempts + 1 /\ row[r].attempts \in Nat
      BY <1>4, <1>5, <2>2 DEF IndInv, TypeOK, RowState
    <3>2. job[own].state = "none"
      BY <2>1, <3>1 DEF IndInv, OneJobPerClaim
    <3>3. job'[own].state = "queued"
      BY <1>8, <2>1, <2>2, <3>2
    <3>4. \A e \in exec' : e.id # own
      BY <1>7, <3>2 DEF IndInv, Dispatched
    <3>5. r \in audited' => row[r].attempts >= 1
      BY <1>7 DEF IndInv, AuditedWasClaimed
    <3> QED
      BY <3>1, <3>3, <3>4, <3>5
  <2>3. CASE r \notin C
    <3>1. row[r].status = "claimed" /\ row'[r].attempts = row[r].attempts
      BY <1>4, <1>5, <2>3
    <3>2. /\ job[own].state \in {"queued", "active", "failed"}
          /\ \A e \in exec : e.id = own => e.phase # "committed"
          /\ r \in audited => row[r].attempts > 1
      BY <3>1 DEF IndInv, OpenClaimHasWork
    <3> QED
      BY <1>7, <1>12, <2>1, <3>1, <3>2
  <2> QED
    BY <2>2, <2>3
<1>17. JobBudget'
  BY <1>8, ClaimQueueAssumption DEF IndInv, JobBudget
<1>18. AbsentUnclaimed'
  BY <1>4, <1>5, <1>6 DEF IndInv, AbsentUnclaimed
<1> QED
  BY <1>9, <1>10, <1>11, <1>13, <1>14, <1>15, <1>16, <1>17, <1>18 DEF IndInv

(* Scheduling a command or recording a message preserves it.               *)
LEMMA InsertIndInv ==
    ASSUME IndInv, NEW r \in Row, Insert(r)
    PROVE  IndInv'
<1>1. /\ row' = [row EXCEPT ![r] = [NoRow EXCEPT !.status = "pending", !.wait = uptime]]
      /\ row[r].status = "none" /\ row[r].attempts = 0
      /\ UNCHANGED <<job, exec, audited, active, uptime>>
  BY DEF Insert, InsertRow, IndInv, AbsentUnclaimed
<1>2. row \in [Row -> RowState] /\ uptime \in Nat
  BY ClaimQueueAssumption DEF IndInv, TypeOK
<1>3. /\ row' \in [Row -> RowState]
      /\ row'[r].status = "pending" /\ row'[r].attempts = row[r].attempts
      /\ \A q \in Row \ {r} : row'[q] = row[q]
  BY <1>1, <1>2 DEF RowState, Statuses, NoRow
<1>4. TypeOK'
  BY <1>1, <1>3 DEF IndInv, TypeOK
<1>5. AttemptsBounded' /\ AbsentUnclaimed' /\ ClaimCounted' /\ Dispatched'
  BY <1>1, <1>3, ClaimQueueAssumption DEF IndInv, AttemptsBounded, AbsentUnclaimed, ClaimCounted, Dispatched
<1>6. OpenClaimHasWork' /\ AuditedWasClaimed'
  BY <1>1, <1>3 DEF IndInv, OpenClaimHasWork, AuditedWasClaimed, TypeOK
<1>7. OneJobPerClaim'
  BY <1>1, <1>3 DEF IndInv, OneJobPerClaim
<1>8. JobBudget'
  BY <1>1 DEF IndInv, JobBudget
<1> QED
  BY <1>4, <1>5, <1>6, <1>7, <1>8 DEF IndInv

(* Steps of pg-boss and of an execution that leave the table alone change  *)
(* one job that exists, which goes on existing within its budget and       *)
(* completes only once its claim no longer stands; no execution commits.   *)
LEMMA JobStepIndInv ==
    ASSUME IndInv, NEW k \in JobId, NEW j \in JobState,
           j.state # "none", job[k].state # "none",
           j.state = "queued" => j.tries < MaxTries,
           j.state = "completed" => ~Open(k),
           job' = [job EXCEPT ![k] = j],
           exec' \subseteq Execution,
           \A f \in exec' : job[f.id].state # "none" /\ (f.phase = "committed" => f \in exec),
           UNCHANGED <<row, audited, active, uptime>>
    PROVE  IndInv'
<1>1. TypeOK'
  BY DEF IndInv, TypeOK
<1>2. AttemptsBounded' /\ AbsentUnclaimed' /\ ClaimCounted' /\ AuditedWasClaimed'
  BY DEF IndInv, AttemptsBounded, AbsentUnclaimed, ClaimCounted, AuditedWasClaimed
<1>3. job \in [JobId -> JobState]
  BY DEF IndInv, TypeOK
<1>4. Dispatched'
  <2> SUFFICES ASSUME NEW f \in exec'
               PROVE  job'[f.id].state # "none"
    BY DEF Dispatched
  <2>1. f.id \in JobId
    BY DEF Execution
  <2> QED
    BY <1>3, <2>1
<1>5. OpenClaimHasWork'
  <2> SUFFICES ASSUME NEW r \in Row, row[r].status = "claimed"
               PROVE  /\ job'[<<r, row[r].attempts>>].state \in {"queued", "active", "failed"}
                      /\ \A e \in exec' : e.id = <<r, row[r].attempts>> => e.phase # "committed"
                      /\ r \in audited => row[r].attempts > 1
    BY DEF OpenClaimHasWork
  <2> DEFINE own == <<r, row[r].attempts>>
  <2>1. own \in JobId
    BY DEF IndInv, ClaimCounted, JobId
  <2>2. /\ job[own].state \in {"queued", "active", "failed"}
        /\ \A e \in exec : e.id = own => e.phase # "committed"
        /\ r \in audited => row[r].attempts > 1
    BY DEF IndInv, OpenClaimHasWork
  <2>3. own = k => j.state # "completed"
    BY DEF Open
  <2>4. job'[own] = IF own = k THEN j ELSE job[own]
    BY <1>3, <2>1
  <2>5. job'[own].state \in {"queued", "active", "failed"}
    BY <2>2, <2>3, <2>4 DEF JobState
  <2> QED
    BY <2>2, <2>5
<1>6. OneJobPerClaim'
  <2> SUFFICES ASSUME NEW r \in Row, NEW a \in 1..MaxAttempts
               PROVE  (job'[<<r, a>>].state # "none") <=> (a <= row'[r].attempts)
    BY DEF OneJobPerClaim
  <2>1. <<r, a>> \in JobId
    BY DEF JobId
  <2>2. (job[<<r, a>>].state # "none") <=> (a <= row[r].attempts)
    BY DEF IndInv, OneJobPerClaim
  <2>3. (job'[<<r, a>>].state # "none") <=> (job[<<r, a>>].state # "none")
    BY <2>1 DEF IndInv, TypeOK
  <2> QED
    BY <2>2, <2>3
<1>7. JobBudget'
  BY DEF IndInv, TypeOK, JobBudget
<1> QED
  BY <1>1, <1>2, <1>4, <1>5, <1>6, <1>7 DEF IndInv

(* Steps that only change which executions are in flight, the tenant's     *)
(* flag or the clock preserve it, when no execution commits.               *)
LEMMA QuietStepIndInv ==
    ASSUME IndInv, exec' \subseteq Execution, active' \in BOOLEAN, uptime' \in 0..MaxUptime,
           \A f \in exec' : job[f.id].state # "none" /\ (f.phase = "committed" => f \in exec),
           UNCHANGED <<row, job, audited>>
    PROVE  IndInv'
<1>1. TypeOK' /\ AttemptsBounded' /\ OneJobPerClaim' /\ JobBudget'
  BY DEF IndInv, TypeOK, AttemptsBounded, OneJobPerClaim, JobBudget
<1>2. AbsentUnclaimed' /\ ClaimCounted' /\ Dispatched' /\ AuditedWasClaimed'
  BY DEF IndInv, AbsentUnclaimed, ClaimCounted, Dispatched, AuditedWasClaimed
<1>3. OpenClaimHasWork'
  BY DEF IndInv, OpenClaimHasWork
<1> QED
  BY <1>1, <1>2, <1>3 DEF IndInv

(* Fetching a job, the start of one of its tries, preserves it.            *)
LEMMA FetchIndInv ==
    ASSUME IndInv, NEW k \in JobId, Fetch(k)
    PROVE  IndInv'
<1> DEFINE j == [state |-> "active", tries |-> job[k].tries + 1]
<1>1. job[k] \in JobState /\ job[k].tries < MaxTries
  BY DEF Fetch, IndInv, TypeOK, JobBudget
<1>2. j \in JobState /\ j.state = "active"
  BY <1>1, ClaimQueueAssumption DEF JobState
<1>3. [id |-> k, try |-> job[k].tries + 1, phase |-> "running"] \in Execution
  BY <1>1, ClaimQueueAssumption DEF Execution, JobState
<1>4. exec' \subseteq Execution
  BY <1>3 DEF Fetch, IndInv, TypeOK
<1>5. job' = [job EXCEPT ![k] = j] /\ job[k].state # "none" /\ UNCHANGED <<row, audited, active, uptime>>
  BY DEF Fetch
<1>6. \A f \in exec' : job[f.id].state # "none" /\ (f.phase = "committed" => f \in exec)
  BY <1>5 DEF Fetch, IndInv, Dispatched
<1> HIDE DEF j
<1> QED
  BY <1>2, <1>4, <1>5, <1>6, JobStepIndInv

(* pg-boss expiring an active job preserves it.                            *)
LEMMA ExpireIndInv ==
    ASSUME IndInv, NEW k \in JobId, Expire(k)
    PROVE  IndInv'
<1>1. job[k] \in JobState /\ exec' \subseteq Execution
  BY DEF Expire, IndInv, TypeOK
<1>2. job' = [job EXCEPT ![k] = Retried(job[k])] /\ job[k].state # "none" /\ UNCHANGED <<row, audited, active, uptime>>
  BY DEF Expire
<1>3. \A f \in exec' : job[f.id].state # "none" /\ (f.phase = "committed" => f \in exec)
  BY DEF Expire, IndInv, Dispatched
<1> QED
  BY <1>1, <1>2, <1>3, RetriedType, JobStepIndInv

(* A handler that throws, awaited or not, preserves it.                    *)
LEMMA ThrowIndInv ==
    ASSUME IndInv, NEW e \in exec, Throw(e)
    PROVE  IndInv'
<1>1. exec' \subseteq Execution /\ UNCHANGED <<row, audited, active, uptime>>
  BY DEF Throw, IndInv, TypeOK
<1>2. \A f \in exec' : job[f.id].state # "none" /\ (f.phase = "committed" => f \in exec)
  BY DEF Throw, IndInv, Dispatched
<1>3. CASE Awaited(e)
  <2>1. job' = [job EXCEPT ![e.id] = Retried(job[e.id])] /\ job[e.id].state # "none"
    BY <1>3 DEF Throw, Awaited
  <2> QED
    BY <1>1, <1>2, <2>1, ExecutionType, RetriedType, JobStepIndInv
<1>4. CASE ~Awaited(e)
  BY <1>1, <1>2, <1>4, QuietStepIndInv DEF Throw, IndInv, TypeOK
<1> QED
  BY <1>3, <1>4

(* A work callback that returns, awaited or not, preserves it: the claim   *)
(* of a job that completes stands no longer.                               *)
LEMMA FinishIndInv ==
    ASSUME IndInv, NEW e \in exec, Finish(e)
    PROVE  IndInv'
<1>1. exec' \subseteq Execution /\ UNCHANGED <<row, audited, active, uptime>>
  BY DEF Finish, IndInv, TypeOK
<1>2. \A f \in exec' : job[f.id].state # "none" /\ (f.phase = "committed" => f \in exec)
  BY DEF Finish, IndInv, Dispatched
<1>3. ~Open(e.id)
  <2> SUFFICES ASSUME Open(e.id)
               PROVE  FALSE
    OBVIOUS
  <2>1. e.id \in JobId
    BY ExecutionType
  <2>2. e.id = <<e.id[1], e.id[2]>> /\ e.id[1] \in Row
    BY <2>1, JobIdPair
  <2>3. \A f \in exec : f.id = <<e.id[1], row[e.id[1]].attempts>> => f.phase # "committed"
    BY <2>2 DEF IndInv, OpenClaimHasWork, Open
  <2> QED
    BY <2>2, <2>3 DEF Open, Finish
<1>4. CASE Awaited(e)
  <2> DEFINE j == [job[e.id] EXCEPT !.state = "completed"]
  <2>1. job' = [job EXCEPT ![e.id] = j] /\ job[e.id].state # "none"
    BY <1>4 DEF Finish, Awaited
  <2>2. j \in JobState /\ j.state = "completed"
    BY ExecutionType DEF JobState
  <2> HIDE DEF j
  <2> QED
    BY <1>1, <1>2, <1>3, <2>1, <2>2, ExecutionType, JobStepIndInv
<1>5. CASE ~Awaited(e)
  BY <1>1, <1>2, <1>5, QuietStepIndInv DEF Finish, IndInv, TypeOK
<1> QED
  BY <1>4, <1>5

(* A call to the sender preserves it.                                      *)
LEMMA CallOutIndInv ==
    ASSUME IndInv, NEW e \in exec, CallOut(e)
    PROVE  IndInv'
<1>1. exec' \subseteq Execution
  BY ExecutionType DEF CallOut, IndInv, TypeOK
<1>2. [e EXCEPT !.phase = "sent"].id = e.id /\ [e EXCEPT !.phase = "sent"].phase = "sent"
  BY ExecutionType DEF Execution
<1>3. \A f \in exec' : job[f.id].state # "none" /\ (f.phase = "committed" => f \in exec)
  BY <1>2 DEF CallOut, IndInv, Dispatched
<1> QED
  BY <1>1, <1>3, QuietStepIndInv DEF CallOut, IndInv, TypeOK

(* A commit closes its row's claim, whichever claim that is, and leaves    *)
(* every other row's claim and executions alone.                           *)
LEMMA CommitIndInv ==
    ASSUME IndInv, NEW e \in exec, Commit(e)
    PROVE  IndInv'
<1> DEFINE r == e.id[1]
<1>1. /\ r \in Row
      /\ row' = IF row[r].status \in {"claimed", "done"} THEN [row EXCEPT ![r].status = "done"] ELSE row
      /\ audited' = audited \cup {r}
      /\ UNCHANGED <<job, active, uptime>>
  BY ExecutionType DEF Commit, complete
<1>2. exec' \subseteq Execution
  BY ExecutionType DEF Commit, IndInv, TypeOK
<1> HIDE DEF r
<1>3. row \in [Row -> RowState]
  BY DEF IndInv, TypeOK
<1>4. /\ row' \in [Row -> RowState]
      /\ \A q \in Row : row'[q].attempts = row[q].attempts
      /\ \A q \in Row : row'[q].status = row[q].status \/ (q = r /\ row'[q].status = "done")
  BY <1>1, <1>3 DEF RowState, Statuses
<1>5. TypeOK'
  BY <1>1, <1>2, <1>4 DEF IndInv, TypeOK
<1>6. AttemptsBounded' /\ AbsentUnclaimed' /\ ClaimCounted'
  BY <1>1, <1>4 DEF IndInv, AttemptsBounded, AbsentUnclaimed, ClaimCounted
<1>7. OneJobPerClaim' /\ JobBudget'
  BY <1>1, <1>4 DEF IndInv, OneJobPerClaim, JobBudget
<1>8. \A f \in exec' : f \in exec \/ f.id = e.id
  BY ExecutionType DEF Commit, Execution
<1>9. Dispatched'
  BY <1>1, <1>8 DEF IndInv, Dispatched
<1>10. AuditedWasClaimed'
  <2>1. e.id \in JobId
    BY ExecutionType
  <2>2. e.id = <<r, e.id[2]>> /\ e.id[2] \in 1..MaxAttempts
    BY <2>1, JobIdPair DEF r
  <2>3. e.id[2] <= row[r].attempts
    BY <1>1, <2>2 DEF IndInv, OneJobPerClaim, Dispatched
  <2>4. row[r].attempts >= 1
    BY <1>1, <1>3, <2>2, <2>3, ClaimQueueAssumption DEF RowState
  <2> QED
    BY <1>1, <1>4, <2>4 DEF IndInv, AuditedWasClaimed, TypeOK
<1>11. OpenClaimHasWork'
  <2> SUFFICES ASSUME NEW q \in Row, row'[q].status = "claimed"
               PROVE  /\ job'[<<q, row'[q].attempts>>].state \in {"queued", "active", "failed"}
                      /\ \A f \in exec' : f.id = <<q, row'[q].attempts>> => f.phase # "committed"
                      /\ q \in audited' => row'[q].attempts > 1
    BY DEF OpenClaimHasWork
  <2>1. q # r
    BY <1>1, <1>3 DEF RowState
  <2>2. row[q].status = "claimed" /\ row'[q].attempts = row[q].attempts
    BY <1>4, <2>1
  <2>3. \A f \in exec' : f.id = <<q, row[q].attempts>> => f \in exec
    BY <1>8, <2>1 DEF r
  <2> QED
    BY <1>1, <2>1, <2>2, <2>3 DEF IndInv, OpenClaimHasWork
<1> QED
  BY <1>5, <1>6, <1>7, <1>9, <1>10, <1>11 DEF IndInv

(* Time and restarts move relative instants only: status and attempts of   *)
(* every row stay.                                                         *)
LEMMA ClockStepIndInv ==
    ASSUME IndInv, row' \in [Row -> RowState], exec' \subseteq exec, uptime' \in 0..MaxUptime,
           \A r \in Row : row'[r].status = row[r].status /\ row'[r].attempts = row[r].attempts,
           UNCHANGED <<job, audited, active>>
    PROVE  IndInv'
<1>1. TypeOK' /\ AttemptsBounded' /\ OneJobPerClaim' /\ JobBudget'
  BY DEF IndInv, TypeOK, AttemptsBounded, OneJobPerClaim, JobBudget
<1>2. AbsentUnclaimed' /\ ClaimCounted' /\ Dispatched' /\ AuditedWasClaimed'
  BY DEF IndInv, TypeOK, AbsentUnclaimed, ClaimCounted, Dispatched, AuditedWasClaimed
<1>3. OpenClaimHasWork'
  BY DEF IndInv, OpenClaimHasWork
<1> QED
  BY <1>1, <1>2, <1>3 DEF IndInv

(* A minute passing preserves it.                                          *)
LEMMA TickIndInv ==
    ASSUME IndInv, Tick
    PROVE  IndInv'
<1>1. uptime \in Nat /\ MaxUptime \in Nat
  BY ClaimQueueAssumption DEF IndInv, TypeOK
<1>2. uptime' \in 0..MaxUptime
  BY <1>1, AtMostType DEF Tick
<1> QED
  BY <1>2, ClockStepIndInv DEF Tick, IndInv, TypeOK

(* A crash and the boot after it preserve it.                              *)
LEMMA RestartIndInv ==
    ASSUME IndInv, Restart
    PROVE  IndInv'
<1>1. row \in [Row -> RowState] /\ uptime \in Nat /\ MaxUptime \in Nat /\ StaleAfter \in Nat
  BY ClaimQueueAssumption DEF IndInv, TypeOK
<1>2. uptime' \in 0..MaxUptime
  <2>1. uptime' = 0
    BY DEF Restart
  <2> QED
    BY <1>1, <2>1
<1>3. exec' \subseteq exec
  BY DEF Restart
<1>4. ASSUME NEW r \in Row
      PROVE  row'[r] \in RowState /\ row'[r].status = row[r].status /\ row'[r].attempts = row[r].attempts
  <2> DEFINE wait == IF row[r].wait > uptime THEN row[r].wait - uptime ELSE 0
             age == IF row[r].status = "claimed" THEN AtMost(row[r].age + uptime, StaleAfter) ELSE 0
  <2>1. row[r] \in RowState
    BY <1>1
  <2>2. wait \in Nat /\ age \in Nat
    BY <1>1, <2>1 DEF RowState, AtMost
  <2>3. row'[r] = [row[r] EXCEPT !.wait = wait, !.age = age]
    BY DEF Restart
  <2> HIDE DEF wait, age
  <2> QED
    BY <2>1, <2>2, <2>3 DEF RowState
<1>5. row' \in [Row -> RowState]
  BY <1>4 DEF Restart
<1> QED
  BY <1>2, <1>3, <1>4, <1>5, ClockStepIndInv DEF Restart

(* Every step, stuttering included, preserves the inductive invariant.     *)
LEMMA NextIndInv ==
    ASSUME IndInv, [Next]_vars
    PROVE  IndInv'
<1>1. ASSUME NEW r \in Row, Insert(r) PROVE IndInv'
  BY <1>1, InsertIndInv
<1>2. CASE Scan
  BY <1>2, ScanIndInv
<1>3. ASSUME NEW k \in JobId, Fetch(k) PROVE IndInv'
  BY <1>3, FetchIndInv
<1>4. ASSUME NEW k \in JobId, Expire(k) PROVE IndInv'
  BY <1>4, ExpireIndInv
<1>5. ASSUME NEW e \in exec, Throw(e) PROVE IndInv'
  BY <1>5, ThrowIndInv
<1>6. ASSUME NEW e \in exec, CallOut(e) PROVE IndInv'
  BY <1>6, CallOutIndInv
<1>7. ASSUME NEW e \in exec, Commit(e) PROVE IndInv'
  BY <1>7, CommitIndInv
<1>8. ASSUME NEW e \in exec, Finish(e) PROVE IndInv'
  BY <1>8, FinishIndInv
<1>9. CASE Tick
  BY <1>9, TickIndInv
<1>10. CASE Restart
  BY <1>10, RestartIndInv
<1>11. CASE SetActive
  <2>1. active' \in BOOLEAN
    BY <1>11 DEF SetActive
  <2> QED
    BY <1>11, <2>1, QuietStepIndInv DEF SetActive, IndInv, TypeOK, Dispatched
<1>12. CASE UNCHANGED vars
  BY <1>12, QuietStepIndInv DEF vars, IndInv, TypeOK, Dispatched
<1> QED
  BY <1>1, <1>2, <1>3, <1>4, <1>5, <1>6, <1>7, <1>8, <1>9, <1>10, <1>11, <1>12 DEF Next

-----------------------------------------------------------------------------
(* The inductive invariant holds in every reachable state.                 *)
THEOREM QueueInvariant == Spec => []IndInv
<1>1. Init => IndInv
  BY InitIndInv
<1>2. IndInv /\ [Next]_vars => IndInv'
  BY NextIndInv
<1> QED
  BY <1>1, <1>2, PTL DEF Spec

(* Type correctness of the tables, jobs and executions of any queue.       *)
THEOREM TypeCorrect == Spec => []TypeOK
<1>1. IndInv => TypeOK
  BY DEF IndInv
<1> QED
  BY <1>1, QueueInvariant, PTL

(* However scans, reclaims, crashes and late executions interleave, a row  *)
(* is claimed at most MaxAttempts times and given up exactly then.         *)
THEOREM BoundedAttempts == Spec => []AttemptsBounded
<1>1. IndInv => AttemptsBounded
  BY DEF IndInv
<1> QED
  BY <1>1, QueueInvariant, PTL

(* Each claim enqueues a job of its own; the deterministic job ids never   *)
(* swallow the re-enqueue of a reclaimed row.                              *)
THEOREM JobForEveryClaim == Spec => []OneJobPerClaim
<1>1. IndInv => OneJobPerClaim
  BY DEF IndInv
<1> QED
  BY <1>1, QueueInvariant, PTL

(* However reclaims, expiries, late executions and crashes interleave, the *)
(* job of the claim that stands has not completed, none of its executions  *)
(* has committed, and work already done was an earlier claim's.            *)
THEOREM NoOpenClaimIsOrphaned == Spec => []OpenClaimHasWork
<1>1. IndInv => OpenClaimHasWork
  BY DEF IndInv
<1> QED
  BY <1>1, QueueInvariant, PTL

-----------------------------------------------------------------------------
(* The statuses a step leaves alone: every action but Scan and Commit      *)
(* keeps every settled row, and those two read the status first.           *)
SettledKept == \A r \in Row : row[r].status \in Settled => row'[r].status = row[r].status

(* Every step keeps the status of the rows that are done or failed.        *)
LEMMA NextSettled ==
    ASSUME IndInv, [Next]_vars
    PROVE  SettledKept
<1>1. ASSUME NEW r \in Row, Insert(r) PROVE SettledKept
  BY <1>1 DEF Insert, InsertRow, SettledKept, Settled, IndInv, TypeOK
<1>2. CASE Scan
  <2>1. PICK R \in Batch(Stale) :
          \E C \in Batch(Due(reclaimStaleClaims(R))) : row' = claimDue(reclaimStaleClaims(R), C)
    BY <1>2 DEF Scan
  <2> DEFINE t == reclaimStaleClaims(R)
  <2>2. PICK C \in Batch(Due(t)) : row' = claimDue(t, C)
    BY <2>1
  <2>3. R \subseteq Stale /\ C \subseteq Due(t)
    BY BatchSubset
  <2>4. t \in [Row -> RowState] /\ \A r \in Row : row[r].status \in Settled => t[r].status = row[r].status
    BY <2>3, ReclaimFacts
  <2> HIDE DEF t
  <2>5. (\A r \in C : t[r].status = "pending") /\ (\A r \in Row \ C : row'[r] = t[r])
    BY <2>2, <2>3, <2>4, ClaimFacts
  <2> QED
    BY <2>4, <2>5 DEF SettledKept, Settled
<1>3. ASSUME NEW e \in exec, Commit(e) PROVE SettledKept
  <2>1. row' = complete(e.id[1]) /\ row \in [Row -> RowState]
    BY <1>3 DEF Commit, IndInv, TypeOK
  <2> QED
    BY <2>1 DEF complete, SettledKept, Settled, RowState
<1>4. CASE UNCHANGED row
  BY <1>4 DEF SettledKept
<1>5. CASE Tick
  <2>1. ASSUME NEW r \in Row, row[r].status \in Settled PROVE row'[r] = row[r]
    BY <1>5, <2>1 DEF Tick, Settled
  <2> QED
    BY <2>1 DEF SettledKept
<1>6. CASE Restart
  <2>1. ASSUME NEW r \in Row PROVE row'[r].status = row[r].status
    BY <1>6 DEF Restart, IndInv, TypeOK, RowState
  <2> QED
    BY <2>1 DEF SettledKept
<1>7. (\E k \in JobId : Fetch(k) \/ Expire(k)) \/ (\E e \in exec : Throw(e) \/ CallOut(e) \/ Finish(e))
        \/ SetActive \/ UNCHANGED vars => UNCHANGED row
  BY DEF Fetch, Expire, Throw, CallOut, Finish, SetActive, vars
<1> QED
  BY <1>1, <1>2, <1>3, <1>4, <1>5, <1>6, <1>7 DEF Next

(* done, delivered and failed are final: neither a reclaim, a late         *)
(* execution nor a restart takes a row out of them.                        *)
THEOREM FinalityOfSettledRows == Spec => SettledIsFinal
<1>1. IndInv /\ [Next]_vars => [SettledKept]_vars
  BY NextSettled
<1>2. [][SettledKept]_vars <=> SettledIsFinal
  BY DEF SettledKept, SettledIsFinal
<1> QED
  BY <1>1, <1>2, QueueInvariant, PTL DEF Spec
=============================================================================
