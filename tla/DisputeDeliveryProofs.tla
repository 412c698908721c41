----------------------- MODULE DisputeDeliveryProofs ------------------------
(***************************************************************************)
(* What the worker's queues chase, for any number of disputes and claims   *)
(* and any bounds: the delivery of approved disputes and the reminders of  *)
(* unpaid claims.                                                          *)
(***************************************************************************)
EXTENDS DisputeDelivery, ClaimAging, TLAPS

(***************************************************************************)
(* The delivery of disputes. The two queues and the carrier are tied       *)
(* together by one inductive invariant: jobs and executions exist only for *)
(* rows that exist, rows exist only for approved disputes and only with    *)
(* the first id, and whatever is past the sender (an execution, a          *)
(* delivered message) left the message's key with the carrier.             *)
(***************************************************************************)

JobStates == [state : {"none", "queued", "active", "completed", "failed"}, tries : Int]
Executions(jobs) == [id : jobs, try : Int, phase : {"running", "sent", "committed"}]

CommandTypes ==
    /\ cmd \in [RowId -> Command!RowState]
    /\ cmdJob \in [Command!JobId -> JobStates]
    /\ cmdExec \subseteq Executions(Command!JobId)
    /\ uptime \in Nat

CommandJobsHaveRows ==
    /\ \A k \in Command!JobId : cmdJob[k].state # "none" => cmd[k[1]].status # "none"
    /\ \A e \in cmdExec : cmd[e.id[1]].status # "none"

OutboxTypes ==
    /\ msg \in [RowId -> Outbox!RowState]
    /\ msgJob \in [Outbox!JobId -> JobStates]
    /\ msgExec \subseteq Executions(Outbox!JobId)
    /\ uptime \in Nat

OutboxJobsHaveRows ==
    /\ \A k \in Outbox!JobId : msgJob[k].state # "none" => msg[k[1]].status # "none"
    /\ \A e \in msgExec : msg[e.id[1]].status # "none"

SentToCarrier ==
    /\ \A e \in msgExec : e.phase # "running" => disputeDeliveryDedupeKey(e.id[1][1]) \in carrier
    /\ \A r \in RowId : msg[r].status = "done" => disputeDeliveryDedupeKey(r[1]) \in carrier

CarrierKeys ==
    \A k \in carrier : \E d \in Dispute :
        k = disputeDeliveryDedupeKey(d) /\ msg[<<d, 1>>].status # "none"

DisputeStates == dispute \in [Dispute -> {"draft", "sent"}]

RowsFollowApproval ==
    /\ \A r \in RowId : cmd[r].status # "none" <=> (r[2] = 1 /\ dispute[r[1]] # "draft")
    /\ \A r \in RowId : msg[r].status # "none" => (r[2] = 1 /\ dispute[r[1]] # "draft")

DeliveryInvariant ==
    /\ DisputeStates
    /\ CommandTypes /\ CommandJobsHaveRows
    /\ OutboxTypes /\ OutboxJobsHaveRows
    /\ SentToCarrier /\ CarrierKeys
    /\ RowsFollowApproval

(* What a step of a queue leaves alone: which rows exist, and which are    *)
(* done.                                                                   *)
SameRows(before, after) ==
    \A r \in RowId : /\ after[r].status = "none" <=> before[r].status = "none"
                     /\ after[r].status = "done" <=> before[r].status = "done"

-----------------------------------------------------------------------------
(* The scan of the command table (reclaimStaleClaims, claimDue, enqueue)   *)
(* neither makes nor unmakes a row, and enqueues only for rows.            *)
LEMMA CommandScan ==
    ASSUME CommandTypes, CommandJobsHaveRows, Command!Scan
    PROVE  CommandTypes' /\ CommandJobsHaveRows' /\ SameRows(cmd, cmd')
<1>1. PICK R \in Command!Batch(Command!Stale) :
        \E C \in Command!Batch(Command!Due(Command!reclaimStaleClaims(R))) :
            /\ cmd' = Command!claimDue(Command!reclaimStaleClaims(R), C)
            /\ cmdJob' = Command!enqueue(cmd', C)
  BY DEF Command!Scan
<1>2. PICK mid : mid = Command!reclaimStaleClaims(R)
  OBVIOUS
<1>3. PICK C \in Command!Batch(Command!Due(mid)) :
            /\ cmd' = Command!claimDue(mid, C)
            /\ cmdJob' = Command!enqueue(cmd', C)
  BY <1>1, <1>2
<1>4. R \subseteq RowId /\ \A r \in R : cmd[r].status = "claimed"
  BY <1>1 DEF Command!Batch, Command!Stale
<1>5. C \subseteq RowId /\ \A r \in C : mid[r].status = "pending"
  BY <1>3 DEF Command!Batch, Command!Due
<1>6. mid \in [RowId -> Command!RowState] /\ SameRows(cmd, mid)
  <2>1. ASSUME NEW r \in RowId
        PROVE /\ mid[r] \in Command!RowState
              /\ mid[r].status = "none" <=> cmd[r].status = "none"
              /\ mid[r].status = "done" <=> cmd[r].status = "done"
    <3>1. cmd[r] \in Command!RowState
      BY DEF CommandTypes
    <3>2. CASE r \in R
      <4>1. PICK s \in {"failed", "pending"} : mid[r] = [cmd[r] EXCEPT !.status = s, !.age = 0]
        BY <1>2, <3>2, <1>4 DEF Command!reclaimStaleClaims
      <4>2. s \in Command!Statuses
        BY DEF Command!Statuses
      <4>3. mid[r] \in Command!RowState /\ mid[r].status = s
        <5>1. PICK x \in Command!RowState : x = cmd[r]
          BY <3>1
        <5>2. PICK y : y = [x EXCEPT !.status = s, !.age = 0]
          OBVIOUS
        <5>3. y \in Command!RowState /\ y.status = s
          BY <5>2, <4>2 DEF Command!RowState
        <5> QED BY <5>1, <5>2, <5>3, <4>1
      <4> QED BY <4>3, <1>4, <3>2
    <3>3. CASE r \notin R
      <4>1. mid[r] = cmd[r]
        BY <1>2, <3>3 DEF Command!reclaimStaleClaims
      <4> QED BY <4>1, <3>1
    <3> QED BY <3>2, <3>3
  <2>2. mid = [r \in RowId |-> mid[r]]
    BY <1>2 DEF Command!reclaimStaleClaims
  <2> QED BY <2>1, <2>2 DEF SameRows
<1>7. cmd' \in [RowId -> Command!RowState] /\ SameRows(mid, cmd')
      /\ \A r \in C : cmd'[r].status = "claimed"
  <2>1. ASSUME NEW r \in RowId
        PROVE /\ cmd'[r] \in Command!RowState
              /\ cmd'[r].status = "none" <=> mid[r].status = "none"
              /\ cmd'[r].status = "done" <=> mid[r].status = "done"
              /\ r \in C => cmd'[r].status = "claimed"
    <3>1. mid[r] \in Command!RowState
      BY <1>6
    <3>2. CASE r \in C
      <4>1. PICK n \in Nat : n = mid[r].attempts + 1
        BY <3>1 DEF Command!RowState
      <4>2. cmd'[r] = [mid[r] EXCEPT !.status = "claimed", !.attempts = n, !.age = 0]
        BY <1>3, <3>2, <4>1 DEF Command!claimDue
      <4>3. "claimed" \in Command!Statuses
        BY DEF Command!Statuses
      <4>4. cmd'[r] \in Command!RowState /\ cmd'[r].status = "claimed"
        <5>1. PICK x \in Command!RowState : x = mid[r]
          BY <3>1
        <5>2. PICK y : y = [x EXCEPT !.status = "claimed", !.attempts = n, !.age = 0]
          OBVIOUS
        <5>3. y \in Command!RowState /\ y.status = "claimed"
          BY <5>2, <4>3 DEF Command!RowState
        <5> QED BY <5>1, <5>2, <5>3, <4>2
      <4> QED BY <4>4, <1>5, <3>2
    <3>3. CASE r \notin C
      <4>1. cmd'[r] = mid[r]
        BY <1>3, <3>3 DEF Command!claimDue
      <4> QED BY <4>1, <3>1, <3>3
    <3> QED BY <3>2, <3>3
  <2>2. cmd' = [r \in RowId |-> cmd'[r]]
    BY <1>3 DEF Command!claimDue
  <2> QED BY <2>1, <2>2, <1>5 DEF SameRows
<1>8. SameRows(cmd, cmd')
  BY <1>6, <1>7 DEF SameRows
<1>9. cmdJob' \in [Command!JobId -> JobStates]
      /\ \A k \in Command!JobId : cmdJob'[k].state # "none" => cmd'[k[1]].status # "none"
  <2>1. ASSUME NEW k \in Command!JobId
        PROVE  cmdJob'[k] \in JobStates /\ (cmdJob'[k].state # "none" => cmd'[k[1]].status # "none")
    <3>1. k[1] \in RowId
      BY DEF Command!JobId
    <3>2. CASE \E r \in C : k = Command!JobKey(r, cmd'[r].attempts)
      <4>1. k[1] \in C
        BY <3>2 DEF Command!JobKey
      <4>2. cmd'[k[1]].status # "none"
        BY <4>1, <1>7
      <4>3. cmdJob'[k] \in JobStates
        BY <1>3 DEF Command!enqueue, JobStates, CommandTypes
      <4> QED BY <4>2, <4>3
    <3>3. CASE ~\E r \in C : k = Command!JobKey(r, cmd'[r].attempts)
      <4>1. cmdJob'[k] = cmdJob[k]
        BY <1>3, <3>3 DEF Command!enqueue
      <4> QED BY <4>1, <3>1, <1>8 DEF CommandTypes, CommandJobsHaveRows, SameRows
    <3> QED BY <3>2, <3>3
  <2>2. cmdJob' = [k \in Command!JobId |-> cmdJob'[k]]
    BY <1>3 DEF Command!enqueue
  <2> QED BY <2>1, <2>2
<1>10. UNCHANGED <<cmdExec, uptime>>
  BY DEF Command!Scan
<1>11. \A e \in cmdExec' : e.id[1] \in RowId
  BY <1>10 DEF CommandTypes, Executions, Command!JobId
<1> QED BY <1>7, <1>8, <1>9, <1>10, <1>11 DEF CommandTypes, CommandJobsHaveRows, SameRows

(* pg-boss and the worker (Fetch, Expire, Throw, Finish) leave the command *)
(* table alone and hold only jobs of rows.                                 *)
LEMMA CommandJobSteps ==
    ASSUME CommandTypes, CommandJobsHaveRows,
           \/ \E k \in Command!JobId : Command!Fetch(k) \/ Command!Expire(k)
           \/ \E e \in cmdExec : Command!Throw(e) \/ Command!Finish(e)
    PROVE  CommandTypes' /\ CommandJobsHaveRows' /\ cmd' = cmd
<1>1. ASSUME NEW k \in Command!JobId, Command!Fetch(k)
      PROVE  CommandTypes' /\ CommandJobsHaveRows' /\ cmd' = cmd
  <2>1. cmdJob[k] \in JobStates
    BY DEF CommandTypes
  <2>2. PICK t \in Int : t = cmdJob[k].tries + 1
    BY <2>1 DEF JobStates
  <2>3. PICK j \in JobStates : j = [state |-> "active", tries |-> t]
    BY DEF JobStates
  <2>4. PICK x \in Executions(Command!JobId) : x = [id |-> k, try |-> t, phase |-> "running"]
    BY DEF Executions
  <2>5. /\ cmdJob' = [cmdJob EXCEPT ![k] = j]
        /\ cmdExec' = cmdExec \cup {x}
        /\ cmd' = cmd /\ uptime' = uptime
    BY <1>1, <2>2, <2>3, <2>4 DEF Command!Fetch
  <2>6. cmd[k[1]].status # "none"
    BY <1>1 DEF Command!Fetch, CommandJobsHaveRows
  <2>7. x.id = k
    BY <2>4
  <2> QED BY <2>5, <2>6, <2>7 DEF CommandTypes, CommandJobsHaveRows
<1>2. ASSUME NEW k \in Command!JobId, NEW j \in JobStates,
             cmdJob' = [cmdJob EXCEPT ![k] = j], cmdExec' \subseteq cmdExec,
             cmdJob[k].state # "none", UNCHANGED <<cmd, uptime>>
      PROVE  CommandTypes' /\ CommandJobsHaveRows' /\ cmd' = cmd
  BY <1>2 DEF CommandTypes, CommandJobsHaveRows
<1>3. ASSUME NEW j \in JobStates
      PROVE  Command!Retried(j) \in JobStates /\ [j EXCEPT !.state = "completed"] \in JobStates
  BY DEF JobStates, Command!Retried
<1>4. ASSUME NEW k \in Command!JobId, Command!Expire(k)
      PROVE  CommandTypes' /\ CommandJobsHaveRows' /\ cmd' = cmd
  <2>1. PICK j \in JobStates : j = Command!Retried(cmdJob[k])
    BY <1>3 DEF CommandTypes
  <2>2. /\ cmdJob' = [cmdJob EXCEPT ![k] = j]
        /\ cmdJob[k].state # "none" /\ cmdExec' = cmdExec
        /\ UNCHANGED <<cmd, uptime>>
    BY <1>4, <2>1 DEF Command!Expire
  <2> QED BY <2>2, <1>2
<1>5. ASSUME NEW e \in cmdExec, Command!Throw(e) \/ Command!Finish(e)
      PROVE  CommandTypes' /\ CommandJobsHaveRows' /\ cmd' = cmd
  <2>1. e.id \in Command!JobId
    BY DEF CommandTypes, Executions
  <2>2. cmdExec' \subseteq cmdExec /\ UNCHANGED <<cmd, uptime>>
    BY <1>5 DEF Command!Throw, Command!Finish
  <2>3. CASE Command!Awaited(e)
    <3>1. cmdJob[e.id] \in JobStates /\ cmdJob[e.id].state # "none"
      BY <2>1, <2>3 DEF CommandTypes, Command!Awaited
    <3>2. PICK j \in JobStates : cmdJob' = [cmdJob EXCEPT ![e.id] = j]
      <4>1. CASE Command!Throw(e)
        BY <4>1, <2>3, <3>1, <1>3 DEF Command!Throw
      <4>2. CASE Command!Finish(e)
        BY <4>2, <2>3, <3>1, <1>3 DEF Command!Finish
      <4> QED BY <4>1, <4>2, <1>5
    <3> QED BY <3>1, <3>2, <2>1, <2>2, <1>2
  <2>4. CASE ~Command!Awaited(e)
    <3>1. cmdJob' = cmdJob
      BY <1>5, <2>4 DEF Command!Throw, Command!Finish
    <3> QED BY <3>1, <2>2 DEF CommandTypes, CommandJobsHaveRows
  <2> QED BY <2>3, <2>4
<1> QED BY <1>1, <1>4, <1>5

(* A commit may complete its row (completeWorkflowCommand), and changes    *)
(* nothing else of the command table.                                      *)
LEMMA CommandCommit ==
    ASSUME CommandTypes, CommandJobsHaveRows, NEW e \in cmdExec, Command!Commit(e)
    PROVE  /\ CommandTypes' /\ CommandJobsHaveRows'
           /\ \A r \in RowId : cmd'[r].status = "none" <=> cmd[r].status = "none"
           /\ \A r \in RowId : r # e.id[1] => cmd'[r] = cmd[r]
<1>1. e \in Executions(Command!JobId) /\ e.id \in Command!JobId /\ e.id[1] \in RowId /\ cmd[e.id[1]].status # "none"
  BY DEF CommandTypes, CommandJobsHaveRows, Executions, Command!JobId
<1>2. PICK x : x = [e EXCEPT !.phase = "committed"]
  OBVIOUS
<1>2a. x \in Executions(Command!JobId) /\ x.id = e.id
  BY <1>1, <1>2 DEF Executions
<1>3. /\ cmdExec' = (cmdExec \ {e}) \cup {x}
      /\ cmd' = Command!complete(e.id[1])
      /\ UNCHANGED <<cmdJob, uptime>>
  BY <1>2 DEF Command!Commit
<1>4. PICK r0 \in RowId : r0 = e.id[1]
  BY <1>1
<1>5. PICK y \in Command!RowState : y = cmd[r0]
  BY DEF CommandTypes
<1>6. PICK z : z = [y EXCEPT !.status = "done"]
  OBVIOUS
<1>6a. z \in Command!RowState /\ z.status = "done"
  BY <1>6 DEF Command!RowState, Command!Statuses
<1>7. cmd' = cmd \/ cmd' = [cmd EXCEPT ![r0] = z]
  BY <1>3, <1>4, <1>5, <1>6 DEF Command!complete, CommandTypes
<1>8. cmd' \in [RowId -> Command!RowState]
  BY <1>6a, <1>7 DEF CommandTypes
<1>9. /\ \A r \in RowId : cmd'[r].status = "none" <=> cmd[r].status = "none"
      /\ \A r \in RowId : r # e.id[1] => cmd'[r] = cmd[r]
  BY <1>1, <1>4, <1>6a, <1>7 DEF CommandTypes
<1>10. \A k \in Command!JobId : k[1] \in RowId
  BY DEF Command!JobId
<1>11. \A f \in cmdExec : f.id[1] \in RowId
  BY <1>10 DEF CommandTypes, Executions
<1> QED BY <1>1, <1>2a, <1>3, <1>8, <1>9, <1>10, <1>11 DEF CommandTypes, CommandJobsHaveRows

(* Time, a restart of the worker and the tenant's activity change no row's *)
(* status.                                                                 *)
LEMMA CommandWorkerSteps ==
    ASSUME CommandTypes, CommandJobsHaveRows,
           Command!Tick \/ Command!Restart \/ Command!SetActive
    PROVE  CommandTypes' /\ CommandJobsHaveRows' /\ SameRows(cmd, cmd')
<1>1. CASE Command!Tick
  <2>1. uptime' \in Nat
    BY <1>1, DisputeDeliveryAssumption DEF Command!Tick, Command!AtMost, CommandTypes
  <2> QED BY <1>1, <2>1 DEF Command!Tick, CommandTypes, CommandJobsHaveRows, SameRows
<1>2. CASE Command!Restart
  <2>1. ASSUME NEW r \in RowId
        PROVE  cmd'[r] \in Command!RowState /\ cmd'[r].status = cmd[r].status
    <3>1. PICK x \in Command!RowState : x = cmd[r]
      BY DEF CommandTypes
    <3>2. x.wait \in Nat /\ x.age \in Nat
      BY DEF Command!RowState
    <3>3. PICK w \in Nat : w = IF x.wait > uptime THEN x.wait - uptime ELSE 0
      BY <3>2 DEF CommandTypes
    <3>4. PICK n \in Nat : n = IF x.status = "claimed" THEN Command!AtMost(x.age + uptime, StaleAfter) ELSE 0
      BY <3>2, DisputeDeliveryAssumption DEF CommandTypes, Command!AtMost
    <3>5. PICK y : y = [x EXCEPT !.wait = w, !.age = n]
      OBVIOUS
    <3>6. y \in Command!RowState /\ y.status = x.status
      BY <3>5 DEF Command!RowState
    <3>7. cmd'[r] = [x EXCEPT !.wait = IF @ > uptime THEN @ - uptime ELSE 0,
                              !.age = IF x.status = "claimed"
                                      THEN Command!AtMost(@ + uptime, StaleAfter) ELSE 0]
      BY <1>2, <3>1 DEF Command!Restart
    <3>8. cmd'[r] = y
      BY <3>7, <3>5, <3>3, <3>4 DEF Command!RowState
    <3> QED BY <3>1, <3>6, <3>8
  <2>2. cmd' = [r \in RowId |-> cmd'[r]]
    BY <1>2 DEF Command!Restart
  <2>3. cmdExec' = {} /\ uptime' = 0 /\ cmdJob' = cmdJob
    BY <1>2 DEF Command!Restart
  <2>4. \A k \in Command!JobId : k[1] \in RowId
    BY DEF Command!JobId
  <2> QED BY <2>1, <2>2, <2>3, <2>4 DEF CommandTypes, CommandJobsHaveRows, SameRows
<1>3. CASE Command!SetActive
  BY <1>3 DEF Command!SetActive, CommandTypes, CommandJobsHaveRows, SameRows
<1> QED BY <1>1, <1>2, <1>3

-----------------------------------------------------------------------------
(* The scan of the outbox table (reclaimStaleClaims, claimDue, enqueue)    *)
(* neither makes nor unmakes a row, and enqueues only for rows.            *)
LEMMA OutboxScan ==
    ASSUME OutboxTypes, OutboxJobsHaveRows, Outbox!Scan
    PROVE  OutboxTypes' /\ OutboxJobsHaveRows' /\ SameRows(msg, msg')
<1>1. PICK R \in Outbox!Batch(Outbox!Stale) :
        \E C \in Outbox!Batch(Outbox!Due(Outbox!reclaimStaleClaims(R))) :
            /\ msg' = Outbox!claimDue(Outbox!reclaimStaleClaims(R), C)
            /\ msgJob' = Outbox!enqueue(msg', C)
  BY DEF Outbox!Scan
<1>2. PICK mid : mid = Outbox!reclaimStaleClaims(R)
  OBVIOUS
<1>3. PICK C \in Outbox!Batch(Outbox!Due(mid)) :
            /\ msg' = Outbox!claimDue(mid, C)
            /\ msgJob' = Outbox!enqueue(msg', C)
  BY <1>1, <1>2
<1>4. R \subseteq RowId /\ \A r \in R : msg[r].status = "claimed"
  BY <1>1 DEF Outbox!Batch, Outbox!Stale
<1>5. C \subseteq RowId /\ \A r \in C : mid[r].status = "pending"
  BY <1>3 DEF Outbox!Batch, Outbox!Due
<1>6. mid \in [RowId -> Outbox!RowState] /\ SameRows(msg, mid)
  <2>1. ASSUME NEW r \in RowId
        PROVE /\ mid[r] \in Outbox!RowState
              /\ mid[r].status = "none" <=> msg[r].status = "none"
              /\ mid[r].status = "done" <=> msg[r].status = "done"
    <3>1. msg[r] \in Outbox!RowState
      BY DEF OutboxTypes
    <3>2. CASE r \in R
      <4>1. PICK s \in {"failed", "pending"} : mid[r] = [msg[r] EXCEPT !.status = s, !.age = 0]
        BY <1>2, <3>2, <1>4 DEF Outbox!reclaimStaleClaims
      <4>2. s \in Outbox!Statuses
        BY DEF Outbox!Statuses
      <4>3. mid[r] \in Outbox!RowState /\ mid[r].status = s
        <5>1. PICK x \in Outbox!RowState : x = msg[r]
          BY <3>1
        <5>2. PICK y : y = [x EXCEPT !.status = s, !.age = 0]
          OBVIOUS
        <5>3. y \in Outbox!RowState /\ y.status = s
          BY <5>2, <4>2 DEF Outbox!RowState
        <5> QED BY <5>1, <5>2, <5>3, <4>1
      <4> QED BY <4>3, <1>4, <3>2
    <3>3. CASE r \notin R
      <4>1. mid[r] = msg[r]
        BY <1>2, <3>3 DEF Outbox!reclaimStaleClaims
      <4> QED BY <4>1, <3>1
    <3> QED BY <3>2, <3>3
  <2>2. mid = [r \in RowId |-> mid[r]]
    BY <1>2 DEF Outbox!reclaimStaleClaims
  <2> QED BY <2>1, <2>2 DEF SameRows
<1>7. msg' \in [RowId -> Outbox!RowState] /\ SameRows(mid, msg')
      /\ \A r \in C : msg'[r].status = "claimed"
  <2>1. ASSUME NEW r \in RowId
        PROVE /\ msg'[r] \in Outbox!RowState
              /\ msg'[r].status = "none" <=> mid[r].status = "none"
              /\ msg'[r].status = "done" <=> mid[r].status = "done"
              /\ r \in C => msg'[r].status = "claimed"
    <3>1. mid[r] \in Outbox!RowState
      BY <1>6
    <3>2. CASE r \in C
      <4>1. PICK n \in Nat : n = mid[r].attempts + 1
        BY <3>1 DEF Outbox!RowState
      <4>2. msg'[r] = [mid[r] EXCEPT !.status = "claimed", !.attempts = n, !.age = 0]
        BY <1>3, <3>2, <4>1 DEF Outbox!claimDue
      <4>3. "claimed" \in Outbox!Statuses
        BY DEF Outbox!Statuses
      <4>4. msg'[r] \in Outbox!RowState /\ msg'[r].status = "claimed"
        <5>1. PICK x \in Outbox!RowState : x = mid[r]
          BY <3>1
        <5>2. PICK y : y = [x EXCEPT !.status = "claimed", !.attempts = n, !.age = 0]
          OBVIOUS
        <5>3. y \in Outbox!RowState /\ y.status = "claimed"
          BY <5>2, <4>3 DEF Outbox!RowState
        <5> QED BY <5>1, <5>2, <5>3, <4>2
      <4> QED BY <4>4, <1>5, <3>2
    <3>3. CASE r \notin C
      <4>1. msg'[r] = mid[r]
        BY <1>3, <3>3 DEF Outbox!claimDue
      <4> QED BY <4>1, <3>1, <3>3
    <3> QED BY <3>2, <3>3
  <2>2. msg' = [r \in RowId |-> msg'[r]]
    BY <1>3 DEF Outbox!claimDue
  <2> QED BY <2>1, <2>2, <1>5 DEF SameRows
<1>8. SameRows(msg, msg')
  BY <1>6, <1>7 DEF SameRows
<1>9. msgJob' \in [Outbox!JobId -> JobStates]
      /\ \A k \in Outbox!JobId : msgJob'[k].state # "none" => msg'[k[1]].status # "none"
  <2>1. ASSUME NEW k \in Outbox!JobId
        PROVE  msgJob'[k] \in JobStates /\ (msgJob'[k].state # "none" => msg'[k[1]].status # "none")
    <3>1. k[1] \in RowId
      BY DEF Outbox!JobId
    <3>2. CASE \E r \in C : k = Outbox!JobKey(r, msg'[r].attempts)
      <4>1. k[1] \in C
        BY <3>2 DEF Outbox!JobKey
      <4>2. msg'[k[1]].status # "none"
        BY <4>1, <1>7
      <4>3. msgJob'[k] \in JobStates
        BY <1>3 DEF Outbox!enqueue, JobStates, OutboxTypes
      <4> QED BY <4>2, <4>3
    <3>3. CASE ~\E r \in C : k = Outbox!JobKey(r, msg'[r].attempts)
      <4>1. msgJob'[k] = msgJob[k]
        BY <1>3, <3>3 DEF Outbox!enqueue
      <4> QED BY <4>1, <3>1, <1>8 DEF OutboxTypes, OutboxJobsHaveRows, SameRows
    <3> QED BY <3>2, <3>3
  <2>2. msgJob' = [k \in Outbox!JobId |-> msgJob'[k]]
    BY <1>3 DEF Outbox!enqueue
  <2> QED BY <2>1, <2>2
<1>10. UNCHANGED <<msgExec, uptime>>
  BY DEF Outbox!Scan
<1>11. \A e \in msgExec' : e.id[1] \in RowId
  BY <1>10 DEF OutboxTypes, Executions, Outbox!JobId
<1> QED BY <1>7, <1>8, <1>9, <1>10, <1>11 DEF OutboxTypes, OutboxJobsHaveRows, SameRows

(* pg-boss and the worker (Fetch, Expire, Throw, Finish) leave the command *)
(* table alone and hold only jobs of rows.                                 *)
LEMMA OutboxJobSteps ==
    ASSUME OutboxTypes, OutboxJobsHaveRows,
           \/ \E k \in Outbox!JobId : Outbox!Fetch(k) \/ Outbox!Expire(k)
           \/ \E e \in msgExec : Outbox!Throw(e) \/ Outbox!Finish(e)
    PROVE  OutboxTypes' /\ OutboxJobsHaveRows' /\ msg' = msg
<1>1. ASSUME NEW k \in Outbox!JobId, Outbox!Fetch(k)
      PROVE  OutboxTypes' /\ OutboxJobsHaveRows' /\ msg' = msg
  <2>1. msgJob[k] \in JobStates
    BY DEF OutboxTypes
  <2>2. PICK t \in Int : t = msgJob[k].tries + 1
    BY <2>1 DEF JobStates
  <2>3. PICK j \in JobStates : j = [state |-> "active", tries |-> t]
    BY DEF JobStates
  <2>4. PICK x \in Executions(Outbox!JobId) : x = [id |-> k, try |-> t, phase |-> "running"]
    BY DEF Executions
  <2>5. /\ msgJob' = [msgJob EXCEPT ![k] = j]
        /\ msgExec' = msgExec \cup {x}
        /\ msg' = msg /\ uptime' = uptime
    BY <1>1, <2>2, <2>3, <2>4 DEF Outbox!Fetch
  <2>6. msg[k[1]].status # "none"
    BY <1>1 DEF Outbox!Fetch, OutboxJobsHaveRows
  <2>7. x.id = k
    BY <2>4
  <2> QED BY <2>5, <2>6, <2>7 DEF OutboxTypes, OutboxJobsHaveRows
<1>2. ASSUME NEW k \in Outbox!JobId, NEW j \in JobStates,
             msgJob' = [msgJob EXCEPT ![k] = j], msgExec' \subseteq msgExec,
             msgJob[k].state # "none", UNCHANGED <<msg, uptime>>
      PROVE  OutboxTypes' /\ OutboxJobsHaveRows' /\ msg' = msg
  BY <1>2 DEF OutboxTypes, OutboxJobsHaveRows
<1>3. ASSUME NEW j \in JobStates
      PROVE  Outbox!Retried(j) \in JobStates /\ [j EXCEPT !.state = "completed"] \in JobStates
  BY DEF JobStates, Outbox!Retried
<1>4. ASSUME NEW k \in Outbox!JobId, Outbox!Expire(k)
      PROVE  OutboxTypes' /\ OutboxJobsHaveRows' /\ msg' = msg
  <2>1. PICK j \in JobStates : j = Outbox!Retried(msgJob[k])
    BY <1>3 DEF OutboxTypes
  <2>2. /\ msgJob' = [msgJob EXCEPT ![k] = j]
        /\ msgJob[k].state # "none" /\ msgExec' = msgExec
        /\ UNCHANGED <<msg, uptime>>
    BY <1>4, <2>1 DEF Outbox!Expire
  <2> QED BY <2>2, <1>2
<1>5. ASSUME NEW e \in msgExec, Outbox!Throw(e) \/ Outbox!Finish(e)
      PROVE  OutboxTypes' /\ OutboxJobsHaveRows' /\ msg' = msg
  <2>1. e.id \in Outbox!JobId
    BY DEF OutboxTypes, Executions
  <2>2. msgExec' \subseteq msgExec /\ UNCHANGED <<msg, uptime>>
    BY <1>5 DEF Outbox!Throw, Outbox!Finish
  <2>3. CASE Outbox!Awaited(e)
    <3>1. msgJob[e.id] \in JobStates /\ msgJob[e.id].state # "none"
      BY <2>1, <2>3 DEF OutboxTypes, Outbox!Awaited
    <3>2. PICK j \in JobStates : msgJob' = [msgJob EXCEPT ![e.id] = j]
      <4>1. CASE Outbox!Throw(e)
        BY <4>1, <2>3, <3>1, <1>3 DEF Outbox!Throw
      <4>2. CASE Outbox!Finish(e)
        BY <4>2, <2>3, <3>1, <1>3 DEF Outbox!Finish
      <4> QED BY <4>1, <4>2, <1>5
    <3> QED BY <3>1, <3>2, <2>1, <2>2, <1>2
  <2>4. CASE ~Outbox!Awaited(e)
    <3>1. msgJob' = msgJob
      BY <1>5, <2>4 DEF Outbox!Throw, Outbox!Finish
    <3> QED BY <3>1, <2>2 DEF OutboxTypes, OutboxJobsHaveRows
  <2> QED BY <2>3, <2>4
<1> QED BY <1>1, <1>4, <1>5

(* A commit may complete its row (completeOutboxMessage), and changes      *)
(* nothing else of the outbox table.                                       *)
LEMMA OutboxCommit ==
    ASSUME OutboxTypes, OutboxJobsHaveRows, NEW e \in msgExec, Outbox!Commit(e)
    PROVE  /\ OutboxTypes' /\ OutboxJobsHaveRows'
           /\ \A r \in RowId : msg'[r].status = "none" <=> msg[r].status = "none"
           /\ \A r \in RowId : r # e.id[1] => msg'[r] = msg[r]
<1>1. e \in Executions(Outbox!JobId) /\ e.id \in Outbox!JobId /\ e.id[1] \in RowId /\ msg[e.id[1]].status # "none"
  BY DEF OutboxTypes, OutboxJobsHaveRows, Executions, Outbox!JobId
<1>2. PICK x : x = [e EXCEPT !.phase = "committed"]
  OBVIOUS
<1>2a. x \in Executions(Outbox!JobId) /\ x.id = e.id
  BY <1>1, <1>2 DEF Executions
<1>3. /\ msgExec' = (msgExec \ {e}) \cup {x}
      /\ msg' = Outbox!complete(e.id[1])
      /\ UNCHANGED <<msgJob, uptime>>
  BY <1>2 DEF Outbox!Commit
<1>4. PICK r0 \in RowId : r0 = e.id[1]
  BY <1>1
<1>5. PICK y \in Outbox!RowState : y = msg[r0]
  BY DEF OutboxTypes
<1>6. PICK z : z = [y EXCEPT !.status = "done"]
  OBVIOUS
<1>6a. z \in Outbox!RowState /\ z.status = "done"
  BY <1>6 DEF Outbox!RowState, Outbox!Statuses
<1>7. msg' = msg \/ msg' = [msg EXCEPT ![r0] = z]
  BY <1>3, <1>4, <1>5, <1>6 DEF Outbox!complete, OutboxTypes
<1>8. msg' \in [RowId -> Outbox!RowState]
  BY <1>6a, <1>7 DEF OutboxTypes
<1>9. /\ \A r \in RowId : msg'[r].status = "none" <=> msg[r].status = "none"
      /\ \A r \in RowId : r # e.id[1] => msg'[r] = msg[r]
  BY <1>1, <1>4, <1>6a, <1>7 DEF OutboxTypes
<1>10. \A k \in Outbox!JobId : k[1] \in RowId
  BY DEF Outbox!JobId
<1>11. \A f \in msgExec : f.id[1] \in RowId
  BY <1>10 DEF OutboxTypes, Executions
<1> QED BY <1>1, <1>2a, <1>3, <1>8, <1>9, <1>10, <1>11 DEF OutboxTypes, OutboxJobsHaveRows

(* Time, a restart of the worker and the tenant's activity change no row's *)
(* status.                                                                 *)
LEMMA OutboxWorkerSteps ==
    ASSUME OutboxTypes, OutboxJobsHaveRows,
           Outbox!Tick \/ Outbox!Restart \/ Outbox!SetActive
    PROVE  OutboxTypes' /\ OutboxJobsHaveRows' /\ SameRows(msg, msg')
<1>1. CASE Outbox!Tick
  <2>1. uptime' \in Nat
    BY <1>1, DisputeDeliveryAssumption DEF Outbox!Tick, Outbox!AtMost, OutboxTypes
  <2> QED BY <1>1, <2>1 DEF Outbox!Tick, OutboxTypes, OutboxJobsHaveRows, SameRows
<1>2. CASE Outbox!Restart
  <2>1. ASSUME NEW r \in RowId
        PROVE  msg'[r] \in Outbox!RowState /\ msg'[r].status = msg[r].status
    <3>1. PICK x \in Outbox!RowState : x = msg[r]
      BY DEF OutboxTypes
    <3>2. x.wait \in Nat /\ x.age \in Nat
      BY DEF Outbox!RowState
    <3>3. PICK w \in Nat : w = IF x.wait > uptime THEN x.wait - uptime ELSE 0
      BY <3>2 DEF OutboxTypes
    <3>4. PICK n \in Nat : n = IF x.status = "claimed" THEN Outbox!AtMost(x.age + uptime, StaleAfter) ELSE 0
      BY <3>2, DisputeDeliveryAssumption DEF OutboxTypes, Outbox!AtMost
    <3>5. PICK y : y = [x EXCEPT !.wait = w, !.age = n]
      OBVIOUS
    <3>6. y \in Outbox!RowState /\ y.status = x.status
      BY <3>5 DEF Outbox!RowState
    <3>7. msg'[r] = [x EXCEPT !.wait = IF @ > uptime THEN @ - uptime ELSE 0,
                              !.age = IF x.status = "claimed"
                                      THEN Outbox!AtMost(@ + uptime, StaleAfter) ELSE 0]
      BY <1>2, <3>1 DEF Outbox!Restart
    <3>8. msg'[r] = y
      BY <3>7, <3>5, <3>3, <3>4 DEF Outbox!RowState
    <3> QED BY <3>1, <3>6, <3>8
  <2>2. msg' = [r \in RowId |-> msg'[r]]
    BY <1>2 DEF Outbox!Restart
  <2>3. msgExec' = {} /\ uptime' = 0 /\ msgJob' = msgJob
    BY <1>2 DEF Outbox!Restart
  <2>4. \A k \in Outbox!JobId : k[1] \in RowId
    BY DEF Outbox!JobId
  <2> QED BY <2>1, <2>2, <2>3, <2>4 DEF OutboxTypes, OutboxJobsHaveRows, SameRows
<1>3. CASE Outbox!SetActive
  BY <1>3 DEF Outbox!SetActive, OutboxTypes, OutboxJobsHaveRows, SameRows
<1> QED BY <1>1, <1>2, <1>3

-----------------------------------------------------------------------------
(* What the contract sees.                                                 *)
Approved == {d \in Dispute : dispute[d] # "draft"}
Decided == [d \in Dispute |-> Existing(msg, d)]
Effects == [d \in Dispute |-> {k \in carrier : k[2] = d}]
Acknowledged == {d \in Dispute : \E m \in RowsOf(d) : msg[m].status = "done"}

(* The first row of a dispute is a row, and a row belongs to a dispute.    *)
LEMMA RowsOfDisputes ==
    /\ \A d \in Dispute : <<d, 1>> \in RowId /\ <<d, 1>> \in RowsOf(d)
    /\ \A r \in RowId : r[1] \in Dispute /\ r = <<r[1], r[2]>> /\ r[2] \in 1..MaxRows
    /\ \A d \in Dispute : \A r \in RowsOf(d) : r \in RowId /\ r[1] = d
BY DisputeDeliveryAssumption DEF RowId, RowsOf

(* The invariant holds before anything is approved.                        *)
LEMMA DeliveryInitial == Init => DeliveryInvariant
<1> SUFFICES ASSUME Init PROVE DeliveryInvariant
  OBVIOUS
<1>1. Command!NoRow \in Command!RowState /\ Command!NoRow.status = "none"
  BY DEF Command!NoRow, Command!RowState, Command!Statuses
<1>2. Outbox!NoRow \in Outbox!RowState /\ Outbox!NoRow.status = "none"
  BY DEF Outbox!NoRow, Outbox!RowState, Outbox!Statuses
<1>3. /\ Command!NoJob \in JobStates /\ Command!NoJob.state = "none"
      /\ Outbox!NoJob \in JobStates /\ Outbox!NoJob.state = "none"
  BY DEF Command!NoJob, Outbox!NoJob, JobStates
<1>4. /\ cmd = [r \in RowId |-> Command!NoRow]
      /\ msg = [r \in RowId |-> Outbox!NoRow]
      /\ cmdJob = [k \in Command!JobId |-> Command!NoJob]
      /\ msgJob = [k \in Outbox!JobId |-> Outbox!NoJob]
      /\ cmdExec = {} /\ msgExec = {} /\ uptime = 0
      /\ carrier = {} /\ dispute = [d \in Dispute |-> "draft"]
  BY DEF Init, Command!Init, Outbox!Init
<1>5. CommandTypes /\ CommandJobsHaveRows
  BY <1>1, <1>3, <1>4 DEF CommandTypes, CommandJobsHaveRows
<1>6. OutboxTypes /\ OutboxJobsHaveRows
  BY <1>2, <1>3, <1>4 DEF OutboxTypes, OutboxJobsHaveRows
<1>7. SentToCarrier /\ CarrierKeys /\ DisputeStates
  BY <1>2, <1>4 DEF SentToCarrier, CarrierKeys, DisputeStates
<1>8. RowsFollowApproval
  BY <1>1, <1>2, <1>4, RowsOfDisputes DEF RowsFollowApproval
<1> QED BY <1>5, <1>6, <1>7, <1>8 DEF DeliveryInvariant

(* A step that makes no row, completes none and sends nothing keeps the    *)
(* invariant, and the contract does not see it.                            *)
LEMMA QuietSteps ==
    ASSUME DeliveryInvariant,
           CommandTypes', CommandJobsHaveRows', OutboxTypes', OutboxJobsHaveRows',
           \A r \in RowId : cmd'[r].status = "none" <=> cmd[r].status = "none",
           SameRows(msg, msg'), UNCHANGED <<dispute, carrier>>,
           \A e \in msgExec' : e \in msgExec \/ e.phase = "running"
    PROVE  DeliveryInvariant' /\ UNCHANGED <<Approved, Decided, Effects, Acknowledged>>
<1>1. SentToCarrier'
  BY DEF DeliveryInvariant, SentToCarrier, SameRows
<1>2. CarrierKeys'
  BY RowsOfDisputes DEF DeliveryInvariant, CarrierKeys, SameRows
<1>3. RowsFollowApproval' /\ DisputeStates'
  BY DEF DeliveryInvariant, RowsFollowApproval, SameRows, DisputeStates
<1>4. UNCHANGED <<Approved, Effects>>
  BY DEF Approved, Effects
<1>5. Decided' = Decided
  <2>1. \A d \in Dispute : Existing(msg', d) = Existing(msg, d)
    BY RowsOfDisputes DEF Existing, SameRows
  <2> QED BY <2>1 DEF Decided
<1>6. Acknowledged' = Acknowledged
  BY RowsOfDisputes DEF Acknowledged, SameRows
<1> QED BY <1>1, <1>2, <1>3, <1>4, <1>5, <1>6 DEF DeliveryInvariant

(* The command queue's own steps are quiet.                                *)
LEMMA CommandQueueQuiet ==
    ASSUME DeliveryInvariant, CommandQueueStep
    PROVE  DeliveryInvariant' /\ UNCHANGED <<Approved, Decided, Effects, Acknowledged>>
<1>1. UNCHANGED <<dispute, msg, msgJob, msgExec, carrier, uptime>>
  BY DEF CommandQueueStep, msgVars, Command!Scan, Command!Fetch, Command!Expire, Command!Throw,
         Command!Finish
<1>2. /\ CommandTypes' /\ CommandJobsHaveRows'
      /\ \A r \in RowId : cmd'[r].status = "none" <=> cmd[r].status = "none"
  <2>1. CASE Command!Scan
    BY <2>1, CommandScan DEF DeliveryInvariant, SameRows
  <2>2. CASE ~Command!Scan
    BY <2>2, CommandJobSteps DEF DeliveryInvariant, CommandQueueStep
  <2> QED BY <2>1, <2>2
<1>3. OutboxTypes' /\ OutboxJobsHaveRows' /\ SameRows(msg, msg')
  BY <1>1 DEF DeliveryInvariant, OutboxTypes, OutboxJobsHaveRows, SameRows
<1> QED BY <1>1, <1>2, <1>3, QuietSteps

(* So are the worker's.                                                    *)
LEMMA WorkerQuiet ==
    ASSUME DeliveryInvariant, WorkerStep
    PROVE  DeliveryInvariant' /\ UNCHANGED <<Approved, Decided, Effects, Acknowledged>>
<1>1. UNCHANGED <<dispute, carrier>> /\ msgExec' \subseteq msgExec
  BY DEF WorkerStep, Outbox!Tick, Outbox!Restart, Outbox!SetActive
<1>2. CommandTypes' /\ CommandJobsHaveRows' /\ SameRows(cmd, cmd')
  BY CommandWorkerSteps DEF WorkerStep, DeliveryInvariant
<1>3. OutboxTypes' /\ OutboxJobsHaveRows' /\ SameRows(msg, msg')
  BY OutboxWorkerSteps DEF WorkerStep, DeliveryInvariant
<1>4. /\ \A r \in RowId : cmd'[r].status = "none" <=> cmd[r].status = "none"
      /\ \A e \in msgExec' : e \in msgExec \/ e.phase = "running"
  BY <1>1, <1>2 DEF SameRows
<1> QED BY <1>1, <1>2, <1>3, <1>4, QuietSteps

(* A commit of the outbox acknowledges a delivery the carrier has seen,    *)
(* once.                                                                   *)
LEMMA OutboxCommitAcknowledges ==
    ASSUME DeliveryInvariant, NEW e \in msgExec, Outbox!Commit(e),
           UNCHANGED <<dispute, cmdVars, comm, carrier>>
    PROVE  /\ DeliveryInvariant'
           /\ UNCHANGED <<Approved, Decided, Effects>>
           /\ e.id[1][1] \in Dispute /\ Effects[e.id[1][1]] # {}
           /\ Acknowledged' \in {Acknowledged, Acknowledged \cup {e.id[1][1]}}
<1>0. OutboxTypes /\ OutboxJobsHaveRows
  BY DEF DeliveryInvariant
<1>1. /\ OutboxTypes' /\ OutboxJobsHaveRows'
      /\ \A r \in RowId : msg'[r].status = "none" <=> msg[r].status = "none"
      /\ \A r \in RowId : r # e.id[1] => msg'[r] = msg[r]
  BY <1>0, OutboxCommit
<1>2. PICK r0 \in RowId : r0 = e.id[1]
  BY <1>0 DEF OutboxTypes, Executions, Outbox!JobId
<1>3. PICK d0 \in Dispute : d0 = r0[1]
  BY RowsOfDisputes
<1>4. disputeDeliveryDedupeKey(d0) \in carrier /\ e.phase = "sent"
  BY <1>2, <1>3 DEF DeliveryInvariant, SentToCarrier, Outbox!Commit
<1>5. PICK x : x = [e EXCEPT !.phase = "committed"]
  OBVIOUS
<1>6. x.id = e.id /\ msgExec' = (msgExec \ {e}) \cup {x}
  <2>1. e \in Executions(Outbox!JobId)
    BY <1>0 DEF OutboxTypes
  <2>2. x.id = e.id
    BY <1>5, <2>1 DEF Executions
  <2> QED BY <2>2, <1>5 DEF Outbox!Commit
<1>7. SentToCarrier'
  <2>1. \A f \in msgExec' : f.phase # "running" => disputeDeliveryDedupeKey(f.id[1][1]) \in carrier'
    BY <1>2, <1>3, <1>4, <1>6 DEF DeliveryInvariant, SentToCarrier
  <2>2. \A r \in RowId : msg'[r].status = "done" => disputeDeliveryDedupeKey(r[1]) \in carrier'
    BY <1>1, <1>2, <1>3, <1>4 DEF DeliveryInvariant, SentToCarrier
  <2> QED BY <2>1, <2>2 DEF SentToCarrier
<1>8. CarrierKeys'
  BY <1>1, RowsOfDisputes DEF DeliveryInvariant, CarrierKeys
<1>9. UNCHANGED <<cmd, cmdJob, cmdExec, uptime>>
  BY DEF Outbox!Commit, cmdVars
<1>10. RowsFollowApproval' /\ DisputeStates' /\ CommandTypes' /\ CommandJobsHaveRows'
  BY <1>1, <1>9 DEF DeliveryInvariant, RowsFollowApproval, DisputeStates, CommandTypes,
                    CommandJobsHaveRows
<1>11. DeliveryInvariant'
  BY <1>1, <1>7, <1>8, <1>10 DEF DeliveryInvariant
<1>12. UNCHANGED <<Approved, Effects>>
  BY DEF Approved, Effects
<1>13. Decided' = Decided
  <2>1. \A d \in Dispute : Existing(msg', d) = Existing(msg, d)
    BY <1>1, RowsOfDisputes DEF Existing
  <2> QED BY <2>1 DEF Decided
<1>14. disputeDeliveryDedupeKey(d0) \in Effects[d0]
  BY <1>4 DEF Effects, disputeDeliveryDedupeKey
<1>15. Acknowledged' \in {Acknowledged, Acknowledged \cup {d0}}
  <2>1. ASSUME NEW d \in Dispute, d # d0
        PROVE  d \in Acknowledged' <=> d \in Acknowledged
    BY <2>1, <1>1, <1>2, <1>3, RowsOfDisputes DEF Acknowledged
  <2>2. d0 \in Acknowledged => d0 \in Acknowledged'
    <3> SUFFICES ASSUME d0 \in Acknowledged PROVE d0 \in Acknowledged'
      OBVIOUS
    <3>1. PICK m \in RowsOf(d0) : msg[m].status = "done"
      BY DEF Acknowledged
    <3>2. msg'[m].status = "done"
      <4>1. CASE m = r0
        BY <3>1, <4>1, <1>0, <1>2 DEF Outbox!Commit, Outbox!complete, OutboxTypes, Outbox!RowState
      <4>2. CASE m # r0
        BY <3>1, <4>2, <1>1, <1>2, RowsOfDisputes
      <4> QED BY <4>1, <4>2
    <3> QED BY <3>2 DEF Acknowledged
  <2>3. Acknowledged \subseteq Dispute /\ Acknowledged' \subseteq Dispute
    BY DEF Acknowledged
  <2> QED BY <2>1, <2>2, <2>3
<1> QED BY <1>2, <1>3, <1>11, <1>12, <1>13, <1>14, <1>15

(* Without a commit the outbox's own steps are quiet.                      *)
LEMMA OutboxQueueQuiet ==
    ASSUME DeliveryInvariant, OutboxQueueStep, ~\E e \in msgExec : Outbox!Commit(e)
    PROVE  DeliveryInvariant' /\ UNCHANGED <<Approved, Decided, Effects, Acknowledged>>
<1>1. UNCHANGED <<dispute, cmd, cmdJob, cmdExec, carrier, uptime>>
  BY DEF OutboxQueueStep, cmdVars, Outbox!Scan, Outbox!Fetch, Outbox!Expire, Outbox!Throw,
         Outbox!Finish
<1>2. OutboxTypes' /\ OutboxJobsHaveRows' /\ SameRows(msg, msg')
  <2>1. CASE Outbox!Scan
    BY <2>1, OutboxScan DEF DeliveryInvariant
  <2>2. CASE ~Outbox!Scan
    <3>1. OutboxTypes' /\ OutboxJobsHaveRows' /\ msg' = msg
      BY <2>2, OutboxJobSteps DEF DeliveryInvariant, OutboxQueueStep
    <3> QED BY <3>1 DEF SameRows
  <2> QED BY <2>1, <2>2
<1>3. \A e \in msgExec' : e \in msgExec \/ e.phase = "running"
  <2>1. CASE \E k \in Outbox!JobId : Outbox!Fetch(k)
    <3>1. PICK k \in Outbox!JobId : Outbox!Fetch(k)
      BY <2>1
    <3>2. PICK x : x = [id |-> k, try |-> msgJob[k].tries + 1, phase |-> "running"]
      OBVIOUS
    <3>3. x.phase = "running" /\ msgExec' = msgExec \cup {x}
      BY <3>1, <3>2 DEF Outbox!Fetch
    <3> QED BY <3>3
  <2>2. CASE ~\E k \in Outbox!JobId : Outbox!Fetch(k)
    <3>1. msgExec' \subseteq msgExec
      BY <2>2 DEF OutboxQueueStep, Outbox!Scan, Outbox!Expire, Outbox!Throw, Outbox!Finish
    <3> QED BY <3>1
  <2> QED BY <2>1, <2>2
<1>4. /\ CommandTypes' /\ CommandJobsHaveRows'
      /\ \A r \in RowId : cmd'[r].status = "none" <=> cmd[r].status = "none"
  BY <1>1 DEF DeliveryInvariant, CommandTypes, CommandJobsHaveRows
<1> QED BY <1>1, <1>2, <1>3, <1>4, QuietSteps

(* A sender call contacts the carrier under the dispute's one key, after   *)
(* the decision to deliver is on record.                                   *)
LEMMA SenderContactsOnce ==
    ASSUME DeliveryInvariant, NEW e \in msgExec, callSender(e)
    PROVE  /\ DeliveryInvariant'
           /\ UNCHANGED <<Approved, Decided, Acknowledged>>
           /\ e.id[1][1] \in Dispute /\ Decided[e.id[1][1]] # {}
           /\ \/ Effects' = Effects
              \/ /\ Effects[e.id[1][1]] = {}
                 /\ Effects' = [Effects EXCEPT ![e.id[1][1]] = {disputeDeliveryDedupeKey(e.id[1][1])}]
<1>0. OutboxTypes /\ OutboxJobsHaveRows
  BY DEF DeliveryInvariant
<1>1. PICK r0 \in RowId : r0 = e.id[1]
  BY <1>0 DEF OutboxTypes, Executions, Outbox!JobId
<1>2. PICK d0 \in Dispute : d0 = r0[1]
  BY RowsOfDisputes
<1>3. PICK key : key = disputeDeliveryDedupeKey(d0)
  OBVIOUS
<1>4. PICK x : x = [e EXCEPT !.phase = "sent"]
  OBVIOUS
<1>5. x \in Executions(Outbox!JobId) /\ x.id = e.id
  <2>1. e \in Executions(Outbox!JobId)
    BY <1>0 DEF OutboxTypes
  <2> QED BY <1>4, <2>1 DEF Executions
<1>6. /\ msgExec' = (msgExec \ {e}) \cup {x}
      /\ carrier' = carrier \cup {key}
      /\ UNCHANGED <<dispute, cmd, cmdJob, cmdExec, msg, msgJob, uptime>>
  BY <1>1, <1>2, <1>3, <1>4 DEF callSender, Outbox!CallOut, SenderKey, cmdVars
<1>7. msg[r0].status # "none" /\ r0 = <<d0, 1>>
  <2>1. msg[r0].status # "none"
    BY <1>0, <1>1 DEF OutboxJobsHaveRows
  <2>2. r0[2] = 1
    BY <2>1 DEF DeliveryInvariant, RowsFollowApproval
  <2> QED BY <2>1, <2>2, <1>2, RowsOfDisputes
<1>8. OutboxTypes' /\ OutboxJobsHaveRows'
  BY <1>0, <1>1, <1>5, <1>6, <1>7 DEF OutboxTypes, OutboxJobsHaveRows
<1>9. SentToCarrier'
  BY <1>1, <1>2, <1>3, <1>5, <1>6 DEF DeliveryInvariant, SentToCarrier
<1>10. CarrierKeys'
  BY <1>3, <1>6, <1>7 DEF DeliveryInvariant, CarrierKeys
<1>11. DeliveryInvariant'
  BY <1>6, <1>8, <1>9, <1>10 DEF DeliveryInvariant, DisputeStates, CommandTypes,
                                 CommandJobsHaveRows, RowsFollowApproval
<1>12. UNCHANGED <<Approved, Decided, Acknowledged>>
  BY <1>6 DEF Approved, Decided, Acknowledged, Existing
<1>13. r0 \in Decided[d0]
  BY <1>2, <1>7, RowsOfDisputes DEF Decided, Existing
<1>14. CASE key \in carrier
  <2>1. Effects' = Effects
    BY <1>14, <1>6 DEF Effects
  <2> QED BY <2>1, <1>1, <1>2, <1>11, <1>12, <1>13
<1>15. CASE key \notin carrier
  <2>1. \A k \in carrier : k[2] # d0
    <3> SUFFICES ASSUME NEW k \in carrier, k[2] = d0 PROVE FALSE
      OBVIOUS
    <3>1. PICK d \in Dispute : k = disputeDeliveryDedupeKey(d)
      BY DEF DeliveryInvariant, CarrierKeys
    <3>2. k[2] = d
      BY <3>1 DEF disputeDeliveryDedupeKey
    <3> QED BY <3>1, <3>2, <1>3, <1>15
  <2>2. key[2] = d0
    BY <1>3 DEF disputeDeliveryDedupeKey
  <2>3. Effects[d0] = {}
    BY <2>1 DEF Effects
  <2>4. ASSUME NEW d \in Dispute
        PROVE {k \in carrier' : k[2] = d} = IF d = d0 THEN {key} ELSE {k \in carrier : k[2] = d}
    <3>1. CASE d = d0
      BY <3>1, <1>6, <2>1, <2>2
    <3>2. CASE d # d0
      BY <3>2, <1>6, <2>2
    <3> QED BY <3>1, <3>2
  <2>5. Effects' = [Effects EXCEPT ![d0] = {key}]
    BY <2>4 DEF Effects
  <2> QED BY <2>3, <2>5, <1>1, <1>2, <1>3, <1>11, <1>12, <1>13
<1> QED BY <1>14, <1>15

(* The row an INSERT makes: pending, due from now.                         *)
LEMMA InsertedRows ==
    ASSUME DeliveryInvariant, NEW r \in RowId
    PROVE  /\ Command!InsertRow(r) => \E x \in Command!RowState :
                x.status = "pending" /\ cmd' = [cmd EXCEPT ![r] = x]
           /\ Outbox!InsertRow(r) => \E x \in Outbox!RowState :
                x.status = "pending" /\ msg' = [msg EXCEPT ![r] = x]
<1>1. uptime \in Nat
  BY DEF DeliveryInvariant, CommandTypes
<1>2. PICK x : x = [Command!NoRow EXCEPT !.status = "pending", !.wait = uptime]
  OBVIOUS
<1>3. x \in Command!RowState /\ x.status = "pending"
  BY <1>1, <1>2 DEF Command!NoRow, Command!RowState, Command!Statuses
<1>4. PICK y : y = [Outbox!NoRow EXCEPT !.status = "pending", !.wait = uptime]
  OBVIOUS
<1>5. y \in Outbox!RowState /\ y.status = "pending"
  BY <1>1, <1>4 DEF Outbox!NoRow, Outbox!RowState, Outbox!Statuses
<1> QED BY <1>2, <1>3, <1>4, <1>5 DEF Command!InsertRow, Outbox!InsertRow

(* The first row of a dispute that has none gets the first id.             *)
LEMMA FirstId ==
    ASSUME NEW table, NEW d \in Dispute, NEW r \in RowsOf(d), IsFresh(table, r),
           \A y \in RowsOf(d) : table[y].status = "none"
    PROVE  r = <<d, 1>>
<1>1. r \in RowId /\ r[1] = d /\ <<d, 1>> \in RowsOf(d) /\ r = <<r[1], r[2]>> /\ r[2] \in 1..MaxRows
  BY RowsOfDisputes
<1>2. ~(1 < r[2])
  BY <1>1 DEF IsFresh
<1>3. r[2] = 1
  BY <1>1, <1>2, DisputeDeliveryAssumption
<1> QED BY <1>1, <1>3

(* An approval makes the dispute's one command and is what the contract    *)
(* calls Approve.                                                          *)
LEMMA ApprovalStep ==
    ASSUME DeliveryInvariant, NEW d \in Dispute, approveDispute(d)
    PROVE  /\ DeliveryInvariant'
           /\ d \notin Approved /\ Approved' = Approved \cup {d}
           /\ UNCHANGED <<Decided, Effects, Acknowledged>>
<1>1. /\ dispute[d] = "draft" /\ dispute' = [dispute EXCEPT ![d] = "sent"]
      /\ UNCHANGED <<cmdJob, cmdExec, msg, msgJob, msgExec, carrier, uptime>>
  BY DEF approveDispute, msgVars
<1>2. DisputeStates /\ DisputeStates'
  BY <1>1 DEF DeliveryInvariant, DisputeStates
<1>3. PICK r \in RowsOf(d) : IsFresh(cmd, r) /\ Command!InsertRow(r)
  BY DEF approveDispute
<1>4. r \in RowId /\ \A y \in RowsOf(d) : cmd[y].status = "none"
  BY <1>1, RowsOfDisputes DEF DeliveryInvariant, RowsFollowApproval
<1>5. r = <<d, 1>>
  BY <1>3, <1>4, FirstId
<1>6. PICK x \in Command!RowState : x.status = "pending" /\ cmd' = [cmd EXCEPT ![r] = x]
  BY <1>3, <1>4, InsertedRows
<1>7. CommandTypes'
  BY <1>1, <1>4, <1>6 DEF DeliveryInvariant, CommandTypes
<1>8. CommandJobsHaveRows'
  <2>1. \A y \in RowId : cmd[y].status # "none" => cmd'[y].status # "none"
    BY <1>4, <1>6 DEF DeliveryInvariant, CommandTypes
  <2>2. \A k \in Command!JobId : k[1] \in RowId
    BY DEF Command!JobId
  <2>3. \A f \in cmdExec : f.id[1] \in RowId
    BY <2>2 DEF DeliveryInvariant, CommandTypes, Executions
  <2> QED BY <1>1, <2>1, <2>2, <2>3 DEF DeliveryInvariant, CommandJobsHaveRows
<1>9. \A y \in RowId : y # r => cmd'[y] = cmd[y]
  BY <1>6 DEF DeliveryInvariant, CommandTypes
<1>10. cmd'[r] = x
  BY <1>4, <1>6 DEF DeliveryInvariant, CommandTypes
<1>11. dispute'[d] = "sent" /\ \A c \in Dispute : c # d => dispute'[c] = dispute[c]
  BY <1>1, <1>2 DEF DisputeStates
<1>12. RowsFollowApproval'
  <2>1. ASSUME NEW y \in RowId
        PROVE  cmd'[y].status # "none" <=> (y[2] = 1 /\ dispute'[y[1]] # "draft")
    <3>1. y[1] \in Dispute /\ y = <<y[1], y[2]>>
      BY RowsOfDisputes
    <3>2. CASE y = r
      BY <3>2, <1>5, <1>6, <1>10, <1>11
    <3>3. CASE y # r /\ y[1] = d
      <4>1. y[2] # 1
        BY <3>1, <3>3, <1>5
      <4>2. cmd[y].status = "none"
        BY <4>1 DEF DeliveryInvariant, RowsFollowApproval
      <4> QED BY <4>1, <4>2, <3>3, <1>9
    <3>4. CASE y # r /\ y[1] # d
      BY <3>1, <3>4, <1>9, <1>11 DEF DeliveryInvariant, RowsFollowApproval
    <3> QED BY <3>2, <3>3, <3>4
  <2>2. ASSUME NEW y \in RowId, msg'[y].status # "none"
        PROVE  y[2] = 1 /\ dispute'[y[1]] # "draft"
    BY <2>2, <1>1, <1>11, RowsOfDisputes DEF DeliveryInvariant, RowsFollowApproval
  <2> QED BY <2>1, <2>2 DEF RowsFollowApproval
<1>13. OutboxTypes' /\ OutboxJobsHaveRows' /\ SentToCarrier' /\ CarrierKeys'
  BY <1>1 DEF DeliveryInvariant, OutboxTypes, OutboxJobsHaveRows, SentToCarrier, CarrierKeys
<1>14. UNCHANGED <<Decided, Effects, Acknowledged>>
  BY <1>1 DEF Decided, Effects, Acknowledged, Existing
<1>15. d \notin Approved /\ Approved' = Approved \cup {d}
  BY <1>1, <1>11 DEF Approved
<1> QED BY <1>2, <1>7, <1>8, <1>12, <1>13, <1>14, <1>15 DEF DeliveryInvariant

(* An execution of the command decides the delivery of an approved dispute *)
(* once; ON CONFLICT makes every further execution invisible.              *)
LEMMA ExecutionDecidesOnce ==
    ASSUME DeliveryInvariant, NEW e \in cmdExec, handleDeliverDisputeCommand(e)
    PROVE  /\ DeliveryInvariant'
           /\ e.id[1][1] \in Approved
           /\ UNCHANGED <<Approved, Effects, Acknowledged>>
           /\ \/ Decided' = Decided
              \/ /\ Decided[e.id[1][1]] = {}
                 /\ \E m \in RowId : Decided' = [Decided EXCEPT ![e.id[1][1]] = {m}]
<1>0. CommandTypes /\ CommandJobsHaveRows
  BY DEF DeliveryInvariant
<1>1. /\ CommandTypes' /\ CommandJobsHaveRows'
      /\ \A r \in RowId : cmd'[r].status = "none" <=> cmd[r].status = "none"
  BY <1>0, CommandCommit DEF handleDeliverDisputeCommand
<1>2. PICK r0 \in RowId : r0 = e.id[1] /\ cmd[r0].status # "none"
  BY <1>0 DEF CommandTypes, CommandJobsHaveRows, Executions, Command!JobId
<1>3. PICK d \in Dispute : d = r0[1] /\ dispute[d] # "draft"
  BY <1>2, RowsOfDisputes DEF DeliveryInvariant, RowsFollowApproval
<1>4. recordOutboxMessage(d) /\ UNCHANGED <<dispute, msgJob, msgExec, carrier, uptime>>
  BY <1>2, <1>3 DEF handleDeliverDisputeCommand, Command!Commit
<1>5. d \in Approved /\ UNCHANGED <<Approved, Effects>> /\ DisputeStates'
  BY <1>3, <1>4 DEF Approved, Effects, DeliveryInvariant, DisputeStates
<1>6. CASE Existing(msg, d) # {}
  <2>1. msg' = msg
    BY <1>4, <1>6 DEF recordOutboxMessage
  <2>2. OutboxTypes' /\ OutboxJobsHaveRows' /\ SameRows(msg, msg')
    BY <1>4, <2>1 DEF DeliveryInvariant, OutboxTypes, OutboxJobsHaveRows, SameRows
  <2>3. DeliveryInvariant' /\ UNCHANGED <<Approved, Decided, Effects, Acknowledged>>
    BY <1>1, <1>4, <2>2, QuietSteps
  <2> QED BY <2>3, <1>2, <1>3, <1>5
<1>7. CASE Existing(msg, d) = {}
  <2>1. PICK m \in RowsOf(d) : IsFresh(msg, m) /\ Outbox!InsertRow(m)
    BY <1>4, <1>7 DEF recordOutboxMessage
  <2>2. \A y \in RowsOf(d) : msg[y].status = "none"
    BY <1>7 DEF Existing
  <2>3. m = <<d, 1>> /\ m \in RowId
    BY <2>1, <2>2, FirstId, RowsOfDisputes
  <2>4. PICK x \in Outbox!RowState : x.status = "pending" /\ msg' = [msg EXCEPT ![m] = x]
    BY <2>1, <2>3, InsertedRows
  <2>5. msg'[m] = x /\ \A y \in RowId : y # m => msg'[y] = msg[y]
    BY <2>3, <2>4 DEF DeliveryInvariant, OutboxTypes
  <2>6. OutboxTypes'
    BY <1>4, <2>3, <2>4 DEF DeliveryInvariant, OutboxTypes
  <2>7. /\ \A y \in RowId : msg[y].status # "none" => msg'[y].status # "none"
        /\ \A y \in RowId : msg'[y].status = "done" <=> msg[y].status = "done"
    BY <2>1, <2>2, <2>4, <2>5
  <2>8. OutboxJobsHaveRows'
    <3>1. \A k \in Outbox!JobId : k[1] \in RowId
      BY DEF Outbox!JobId
    <3>2. \A f \in msgExec : f.id[1] \in RowId
      BY <3>1 DEF DeliveryInvariant, OutboxTypes, Executions
    <3> QED BY <1>4, <2>7, <3>1, <3>2 DEF DeliveryInvariant, OutboxJobsHaveRows
  <2>9. SentToCarrier'
    BY <1>4, <2>7 DEF DeliveryInvariant, SentToCarrier
  <2>10. CarrierKeys'
    BY <1>4, <2>7, RowsOfDisputes DEF DeliveryInvariant, CarrierKeys
  <2>11. RowsFollowApproval'
    <3>1. \A y \in RowId : cmd'[y].status # "none" <=> (y[2] = 1 /\ dispute'[y[1]] # "draft")
      BY <1>1, <1>4 DEF DeliveryInvariant, RowsFollowApproval
    <3>2. \A y \in RowId : msg'[y].status # "none" => (y[2] = 1 /\ dispute'[y[1]] # "draft")
      BY <1>3, <1>4, <2>3, <2>5 DEF DeliveryInvariant, RowsFollowApproval
    <3> QED BY <3>1, <3>2 DEF RowsFollowApproval
  <2>12. DeliveryInvariant'
    BY <1>1, <1>5, <2>6, <2>8, <2>9, <2>10, <2>11 DEF DeliveryInvariant
  <2>13. Acknowledged' = Acknowledged
    BY <2>7, RowsOfDisputes DEF Acknowledged
  <2>14. ASSUME NEW c \in Dispute
         PROVE  Existing(msg', c) = IF c = d THEN {m} ELSE Existing(msg, c)
    <3>1. CASE c = d
      BY <3>1, <2>1, <2>2, <2>4, <2>5, RowsOfDisputes DEF Existing
    <3>2. CASE c # d
      BY <3>2, <2>1, <2>5, RowsOfDisputes DEF Existing
    <3> QED BY <3>1, <3>2
  <2>15. Decided' = [Decided EXCEPT ![d] = {m}]
    BY <2>14 DEF Decided
  <2>16. Decided[d] = {}
    BY <1>7 DEF Decided
  <2> QED BY <1>2, <1>3, <1>5, <2>3, <2>12, <2>13, <2>15, <2>16
<1> QED BY <1>6, <1>7

-----------------------------------------------------------------------------
(* Every step keeps the invariant and is a step of the contract, or none   *)
(* it can see.                                                             *)
LEMMA DeliverySteps ==
    ASSUME DeliveryInvariant, [Next]_vars
    PROVE  /\ DeliveryInvariant'
           /\ Contract!Next \/ UNCHANGED <<Approved, Decided, Effects, Acknowledged>>
<1>1. CASE \E d \in Dispute : approveDispute(d)
  <2>1. PICK d \in Dispute : approveDispute(d)
    BY <1>1
  <2>2. /\ DeliveryInvariant'
        /\ d \notin Approved /\ Approved' = Approved \cup {d}
        /\ UNCHANGED <<Decided, Effects, Acknowledged>>
    BY <2>1, ApprovalStep
  <2>3. Contract!Approve(d)
    BY <2>2 DEF Contract!Approve, Approved, Decided, Effects, Acknowledged
  <2> QED BY <2>2, <2>3 DEF Contract!Next
<1>2. CASE \E e \in cmdExec : handleDeliverDisputeCommand(e)
  <2>1. PICK e \in cmdExec : handleDeliverDisputeCommand(e)
    BY <1>2
  <2>2. PICK d : d = e.id[1][1]
    OBVIOUS
  <2>3. /\ DeliveryInvariant'
        /\ d \in Approved
        /\ UNCHANGED <<Approved, Effects, Acknowledged>>
        /\ \/ Decided' = Decided
           \/ /\ Decided[d] = {}
              /\ \E m \in RowId : Decided' = [Decided EXCEPT ![d] = {m}]
    BY <2>1, <2>2, ExecutionDecidesOnce
  <2>4. CASE Decided' = Decided
    BY <2>3, <2>4
  <2>5. CASE Decided' # Decided
    <3>1. Contract!Decide(d)
      BY <2>3, <2>5 DEF Contract!Decide, Approved, Decided, Effects, Acknowledged
    <3>2. d \in Dispute
      BY <2>3 DEF Approved
    <3> QED BY <2>3, <3>1, <3>2 DEF Contract!Next
  <2> QED BY <2>4, <2>5
<1>3. CASE \E e \in msgExec : callSender(e)
  <2>1. PICK e \in msgExec : callSender(e)
    BY <1>3
  <2>2. PICK d : d = e.id[1][1]
    OBVIOUS
  <2>3. /\ DeliveryInvariant'
        /\ UNCHANGED <<Approved, Decided, Acknowledged>>
        /\ d \in Dispute /\ Decided[d] # {}
        /\ \/ Effects' = Effects
           \/ /\ Effects[d] = {}
              /\ Effects' = [Effects EXCEPT ![d] = {disputeDeliveryDedupeKey(d)}]
    BY <2>1, <2>2, SenderContactsOnce
  <2>4. CASE Effects' = Effects
    BY <2>3, <2>4
  <2>5. CASE Effects' # Effects
    <3>1. Contract!Effect(d)
      BY <2>3, <2>5 DEF Contract!Effect, Approved, Decided, Effects, Acknowledged
    <3> QED BY <2>3, <3>1 DEF Contract!Next
  <2> QED BY <2>4, <2>5
<1>4. CASE CommandQueueStep
  BY <1>4, CommandQueueQuiet
<1>5. CASE OutboxQueueStep /\ \E e \in msgExec : Outbox!Commit(e)
  <2>1. PICK e \in msgExec : Outbox!Commit(e)
    BY <1>5
  <2>2. PICK d : d = e.id[1][1]
    OBVIOUS
  <2>3. UNCHANGED <<dispute, cmdVars, comm, carrier>>
    BY <1>5 DEF OutboxQueueStep
  <2>4. /\ DeliveryInvariant'
        /\ UNCHANGED <<Approved, Decided, Effects>>
        /\ d \in Dispute /\ Effects[d] # {}
        /\ Acknowledged' \in {Acknowledged, Acknowledged \cup {d}}
    BY <2>1, <2>2, <2>3, OutboxCommitAcknowledges
  <2>5. CASE Acknowledged' = Acknowledged
    BY <2>4, <2>5
  <2>6. CASE Acknowledged' # Acknowledged
    <3>1. d \notin Acknowledged /\ Acknowledged' = Acknowledged \cup {d}
      BY <2>4, <2>6
    <3>2. Contract!Acknowledge(d)
      BY <2>4, <3>1 DEF Contract!Acknowledge, Approved, Decided, Effects, Acknowledged
    <3> QED BY <2>4, <3>2 DEF Contract!Next
  <2> QED BY <2>5, <2>6
<1>6. CASE OutboxQueueStep /\ ~\E e \in msgExec : Outbox!Commit(e)
  BY <1>6, OutboxQueueQuiet
<1>7. CASE WorkerStep
  BY <1>7, WorkerQuiet
<1>8. CASE UNCHANGED vars
  <2>1. UNCHANGED <<dispute, cmd, cmdJob, cmdExec, msg, msgJob, msgExec, carrier, uptime>>
    BY <1>8 DEF vars, cmdVars, msgVars
  <2>2. /\ CommandTypes' /\ CommandJobsHaveRows' /\ OutboxTypes' /\ OutboxJobsHaveRows'
        /\ SameRows(msg, msg')
    BY <2>1 DEF DeliveryInvariant, CommandTypes, CommandJobsHaveRows, OutboxTypes,
                OutboxJobsHaveRows, SameRows
  <2> QED BY <2>1, <2>2, QuietSteps
<1> QED BY <1>1, <1>2, <1>3, <1>4, <1>5, <1>6, <1>7, <1>8 DEF Next

(* The delivery invariant holds in every reachable state.                  *)
THEOREM DeliveryInvariantHolds == Spec => []DeliveryInvariant
<1>1. Init => DeliveryInvariant
  BY DeliveryInitial
<1>2. DeliveryInvariant /\ [Next]_vars => DeliveryInvariant'
  BY DeliverySteps
<1> QED BY <1>1, <1>2, PTL DEF Spec

(* An approved dispute has exactly one deliver_dispute command and a draft *)
(* none, whatever the queue, its retries and its crashes do                *)
(* (approveDispute's guarded UPDATE and INSERT in one transaction).        *)
THEOREM ApprovalsHaveOneCommand == Spec => []OneCommandPerApproval
<1>1. DeliveryInvariant => OneCommandPerApproval
  <2> SUFFICES ASSUME DeliveryInvariant, NEW d \in Dispute
               PROVE  Existing(cmd, d) = IF dispute[d] = "draft" THEN {} ELSE {<<d, 1>>}
    BY DEF OneCommandPerApproval
  <2>1. CASE dispute[d] = "draft"
    BY <2>1, RowsOfDisputes DEF Existing, DeliveryInvariant, RowsFollowApproval
  <2>2. CASE dispute[d] # "draft"
    <3>1. <<d, 1>> \in Existing(cmd, d)
      BY <2>2, RowsOfDisputes DEF Existing, DeliveryInvariant, RowsFollowApproval
    <3>2. \A r \in Existing(cmd, d) : r = <<d, 1>>
      <4> SUFFICES ASSUME NEW r \in RowsOf(d), cmd[r].status # "none" PROVE r = <<d, 1>>
        BY DEF Existing
      <4>1. r \in RowId /\ r[1] = d
        BY RowsOfDisputes
      <4>2. r[2] = 1
        BY <4>1 DEF DeliveryInvariant, RowsFollowApproval
      <4> QED BY <4>1, <4>2, RowsOfDisputes
    <3> QED BY <2>2, <3>1, <3>2
  <2> QED BY <2>1, <2>2
<1> QED BY <1>1, DeliveryInvariantHolds, PTL

(* The two queues, their jobs, retries, crashes, reclaims and late         *)
(* executions implement the delivery contract: the carrier is contacted    *)
(* under one key per dispute, only after a recorded decision for an        *)
(* approved dispute, and a delivery is acknowledged only after the         *)
(* contact.                                                                *)
THEOREM DeliveryImplementsContract == Spec => ContractHolds
<1>1. Init => Contract!Init
  <2> SUFFICES ASSUME Init PROVE Contract!Init
    OBVIOUS
  <2>1. /\ \A r \in RowId : msg[r].status = "none"
        /\ carrier = {} /\ dispute = [d \in Dispute |-> "draft"]
    BY DEF Init, Outbox!Init, Outbox!NoRow
  <2>2. \A d \in Dispute : Existing(msg, d) = {}
    BY <2>1, RowsOfDisputes DEF Existing
  <2>3. Acknowledged = {}
    BY <2>1, RowsOfDisputes DEF Acknowledged
  <2>4. Effects = [d \in Dispute |-> {}]
    BY <2>1 DEF Effects
  <2> QED BY <2>1, <2>2, <2>3, <2>4 DEF Contract!Init, Acknowledged, Effects
<1>2. DeliveryInvariant /\ [Next]_vars => [Contract!Next]_(Contract!contractVars)
  BY DeliverySteps DEF Contract!contractVars, Approved, Decided, Effects, Acknowledged
<1> QED BY <1>1, <1>2, DeliveryInvariantHolds, PTL DEF Spec, ContractHolds, Contract!Spec

-----------------------------------------------------------------------------
(***************************************************************************)
(* The reminders of an unpaid claim. The order of the reminders needs what *)
(* a handler that is under way has read, and the deadline the follow-up    *)
(* was sent for.                                                           *)
(***************************************************************************)

AgeTypeOK ==
    /\ closedOn \in [AgedClaim -> Int] /\ deadline \in [AgedClaim -> Int]
    /\ sent \in [AgedClaim -> [Reminders -> Int]]
    /\ basis \in [AgedClaim -> Int]
    /\ handling \in [AgedClaim -> [Reminders -> Int]]
    /\ calendar \in Nat

(* No event is dated after today.                                          *)
AgeDated ==
    \A c \in AgedClaim : closedOn[c] <= calendar /\ \A k \in Reminders : sent[c][k] <= calendar

(* What a handler read is still so, unless the claim was closed today:     *)
(* a deadline that has passed, a follow-up a grace period old.             *)
HandlerWarranted(c, k) ==
    handling[c][k] # Unset =>
        /\ Opened(c) \/ closedOn[c] = calendar
        /\ k = "followUp" => handling[c][k] <= calendar
        /\ k = "escalation" =>
             sent[c]["followUp"] # Unset /\ sent[c]["followUp"] + AgingGrace <= calendar

HandlersWarranted == \A c \in AgedClaim, k \in Reminders : HandlerWarranted(c, k)

AgeInv == AgeTypeOK /\ AgeDated /\ HandlersWarranted /\ RemindersInOrder

(* Nothing was sent.                                                       *)
LEMMA AgeInitial == AgeInit => AgeInv
<1> SUFFICES ASSUME AgeInit PROVE AgeInv
  OBVIOUS
<1> USE ClaimAgingAssumption DEF Unset
<1>1. AgeTypeOK
  BY DEF AgeInit, AgeTypeOK
<1>2. \A c \in AgedClaim, k \in Reminders : sent[c][k] = Unset /\ handling[c][k] = Unset
  BY DEF AgeInit
<1>3. \A c \in AgedClaim : closedOn[c] = Unset
  BY DEF AgeInit
<1>4. "followUp" \in Reminders /\ "escalation" \in Reminders /\ calendar = 0
  BY DEF Reminders, AgeInit
<1>5. AgeDated
  <2>1. ASSUME NEW c \in AgedClaim PROVE closedOn[c] <= calendar
    BY <1>3, <1>4
  <2>2. ASSUME NEW c \in AgedClaim, NEW k \in Reminders PROVE sent[c][k] <= calendar
    BY <1>2, <1>4
  <2> QED
    BY <2>1, <2>2 DEF AgeDated
<1>6. HandlersWarranted
  BY <1>2 DEF HandlersWarranted, HandlerWarranted
<1>7. RemindersInOrder
  BY <1>2, <1>4 DEF RemindersInOrder
<1> QED
  BY <1>1, <1>5, <1>6, <1>7 DEF AgeInv

(* A deadline is set, jobs are scheduled, fail or are purged, a worker     *)
(* boots: no event, and no handler that was not at work before.            *)
LEMMA QuietKeepsAge ==
  ASSUME AgeInv, UNCHANGED <<closedOn, sent, basis, calendar>>,
         deadline' \in [AgedClaim -> Int], handling' \in [AgedClaim -> [Reminders -> Int]],
         \A c \in AgedClaim, k \in Reminders : handling'[c][k] \in {Unset, handling[c][k]}
  PROVE  AgeInv'
<1>1. AgeTypeOK'
  BY DEF AgeInv, AgeTypeOK
<1>2. AgeDated' /\ RemindersInOrder'
  BY DEF AgeInv, AgeDated, RemindersInOrder, Opened
<1>3. HandlersWarranted'
  <2> SUFFICES ASSUME NEW c \in AgedClaim, NEW k \in Reminders PROVE HandlerWarranted(c, k)'
    BY DEF HandlersWarranted
  <2>1. HandlerWarranted(c, k) /\ handling'[c][k] \in {Unset, handling[c][k]}
    BY DEF AgeInv, HandlersWarranted
  <2> QED
    BY <2>1 DEF HandlerWarranted, Opened
<1> QED
  BY <1>1, <1>2, <1>3 DEF AgeInv

(* The steps that send nothing.                                            *)
LEMMA BookkeepingKeepsAge ==
  ASSUME AgeInv,
         \/ \E c \in AgedClaim : setClaimAgingDeadline(c)
         \/ scheduleClaimAgingJobs
         \/ \E c \in AgedClaim, k \in Reminders : failReminder(c, k) \/ purgeJobs(c, k)
         \/ AgeRestart
  PROVE  AgeInv'
<1> USE ClaimAgingAssumption DEF Unset
<1>1. UNCHANGED <<closedOn, sent, basis, calendar>>
  BY DEF setClaimAgingDeadline, scheduleClaimAgingJobs, failReminder, purgeJobs, AgeRestart
<1>2. deadline' \in [AgedClaim -> Int]
  <2>1. ASSUME NEW c \in AgedClaim, setClaimAgingDeadline(c) PROVE deadline' \in [AgedClaim -> Int]
    BY <2>1 DEF setClaimAgingDeadline, AgeInv, AgeTypeOK
  <2>2. CASE UNCHANGED deadline
    BY <2>2 DEF AgeInv, AgeTypeOK
  <2> QED
    BY <2>1, <2>2 DEF scheduleClaimAgingJobs, failReminder, purgeJobs, AgeRestart
<1>3. /\ handling' \in [AgedClaim -> [Reminders -> Int]]
      /\ \A c \in AgedClaim, k \in Reminders : handling'[c][k] \in {Unset, handling[c][k]}
  <2>0. handling \in [AgedClaim -> [Reminders -> Int]]
    BY DEF AgeInv, AgeTypeOK
  <2>1. ASSUME NEW c \in AgedClaim, NEW k \in Reminders, failReminder(c, k) PROVE <1>3
    <3>1. handling' = [handling EXCEPT ![c][k] = Unset]
      BY <2>1 DEF failReminder
    <3> QED
      BY <3>1, <2>0
  <2>2. CASE AgeRestart
    BY <2>2 DEF AgeRestart
  <2>3. CASE UNCHANGED handling
    BY <2>0, <2>3
  <2> QED
    BY <2>1, <2>2, <2>3 DEF setClaimAgingDeadline, scheduleClaimAgingJobs, purgeJobs
<1> QED
  BY <1>1, <1>2, <1>3, QuietKeepsAge

(* A claim is closed today: nothing was sent later.                        *)
LEMMA CloseKeepsAge ==
  ASSUME AgeInv, NEW c \in AgedClaim, closeClaim(c) PROVE AgeInv'
<1> USE ClaimAgingAssumption DEF Unset
<1>1. /\ closedOn' = [closedOn EXCEPT ![c] = calendar]
      /\ UNCHANGED <<deadline, sent, basis, ageJob, handling, bootDay, calendar>>
  BY DEF closeClaim
<1>2. /\ AgeTypeOK'
      /\ \A x \in AgedClaim : closedOn'[x] = IF x = c THEN calendar ELSE closedOn[x]
  BY <1>1 DEF AgeInv, AgeTypeOK
<1>3. calendar \in Nat /\ \A x \in AgedClaim, k \in Reminders : sent[x][k] <= calendar
  BY DEF AgeInv, AgeTypeOK, AgeDated
<1>4. AgeDated'
  BY <1>1, <1>2, <1>3 DEF AgeInv, AgeDated
<1>5. HandlersWarranted'
  <2> SUFFICES ASSUME NEW x \in AgedClaim, NEW k \in Reminders PROVE HandlerWarranted(x, k)'
    BY DEF HandlersWarranted
  <2>1. HandlerWarranted(x, k)
    BY DEF AgeInv, HandlersWarranted
  <2> QED
    BY <2>1, <1>1, <1>2 DEF HandlerWarranted, Opened
<1>6. RemindersInOrder'
  <2> SUFFICES ASSUME NEW x \in AgedClaim
               PROVE  /\ \A k \in Reminders : sent[x][k] # Unset /\ closedOn'[x] # Unset
                           => sent[x][k] <= closedOn'[x]
                      /\ sent[x]["followUp"] # Unset => basis[x] <= sent[x]["followUp"]
                      /\ sent[x]["escalation"] # Unset =>
                            /\ sent[x]["followUp"] # Unset
                            /\ sent[x]["escalation"] >= sent[x]["followUp"] + AgingGrace
    BY <1>1 DEF RemindersInOrder, Opened
  <2> QED
    BY <1>2, <1>3 DEF AgeInv, RemindersInOrder, Opened
<1> QED
  BY <1>2, <1>4, <1>5, <1>6 DEF AgeInv

(* A handler starts: the claim is open and its reminder is due today.      *)
LEMMA ReadKeepsAge ==
  ASSUME AgeInv, NEW c \in AgedClaim, NEW k \in Reminders, readClaimForReminder(c, k)
  PROVE  AgeInv'
<1> USE ClaimAgingAssumption
<1>1. /\ Allowed(c, k) /\ handling' = [handling EXCEPT ![c][k] = deadline[c]]
      /\ UNCHANGED <<closedOn, deadline, sent, basis, ageJob, bootDay, calendar>>
  BY DEF readClaimForReminder
<1>2. /\ AgeTypeOK'
      /\ \A x \in AgedClaim, j \in Reminders :
           handling'[x][j] = IF x = c /\ j = k THEN deadline[c] ELSE handling[x][j]
  BY <1>1 DEF AgeInv, AgeTypeOK
<1>3. AgeDated' /\ RemindersInOrder'
  BY <1>1 DEF AgeInv, AgeDated, RemindersInOrder, Opened
<1>4. HandlersWarranted'
  <2> SUFFICES ASSUME NEW x \in AgedClaim, NEW j \in Reminders PROVE HandlerWarranted(x, j)'
    BY DEF HandlersWarranted
  <2>1. CASE x = c /\ j = k
    <3>1. handling'[x][j] = deadline[c]
      BY <2>1, <1>2
    <3> QED
      BY <3>1, <2>1, <1>1 DEF HandlerWarranted, Opened, Allowed, FollowUpAllowed, EscalationAllowed
  <2>2. CASE ~(x = c /\ j = k)
    <3>1. HandlerWarranted(x, j) /\ handling'[x][j] = handling[x][j]
      BY <2>2, <1>2 DEF AgeInv, HandlersWarranted
    <3> QED
      BY <3>1, <1>1 DEF HandlerWarranted, Opened
  <2> QED
    BY <2>1, <2>2
<1> QED
  BY <1>2, <1>3, <1>4 DEF AgeInv

(* A reminder goes out today, or is a replay of one that did.              *)
LEMMA SendKeepsAge ==
  ASSUME AgeInv, NEW c \in AgedClaim, NEW k \in Reminders, sendReminder(c, k)
  PROVE  AgeInv'
<1> USE ClaimAgingAssumption DEF Unset
<1>1. /\ handling[c][k] # Unset
      /\ sent[c][k] # Unset => (k = "escalation" \/ basis[c] = handling[c][k])
      /\ sent' = [sent EXCEPT ![c][k] = IF @ = Unset THEN calendar ELSE @]
      /\ basis' = IF k = "followUp" THEN [basis EXCEPT ![c] = handling[c][k]] ELSE basis
      /\ handling' = [handling EXCEPT ![c][k] = Unset]
      /\ UNCHANGED <<closedOn, deadline, bootDay, calendar>>
  BY DEF sendReminder
<1>2. /\ "followUp" \in Reminders /\ "escalation" \in Reminders /\ "followUp" # "escalation"
      /\ k = "followUp" \/ k = "escalation"
  BY DEF Reminders
<1>3. /\ sent \in [AgedClaim -> [Reminders -> Int]] /\ handling \in [AgedClaim -> [Reminders -> Int]]
      /\ basis \in [AgedClaim -> Int] /\ calendar \in Nat /\ closedOn \in [AgedClaim -> Int]
  BY DEF AgeInv, AgeTypeOK
<1>4. /\ sent' \in [AgedClaim -> [Reminders -> Int]]
      /\ \A x \in AgedClaim, j \in Reminders :
           sent'[x][j] = IF x = c /\ j = k /\ sent[c][k] = Unset THEN calendar ELSE sent[x][j]
  BY <1>1, <1>3
<1>5. /\ handling' \in [AgedClaim -> [Reminders -> Int]]
      /\ \A x \in AgedClaim, j \in Reminders :
           handling'[x][j] = IF x = c /\ j = k THEN Unset ELSE handling[x][j]
  BY <1>1, <1>3
<1>6. /\ basis' \in [AgedClaim -> Int]
      /\ \A x \in AgedClaim : basis'[x] = IF x = c /\ k = "followUp" THEN handling[c][k] ELSE basis[x]
  BY <1>1, <1>3
<1>7. AgeTypeOK'
  BY <1>1, <1>3, <1>4, <1>5, <1>6 DEF AgeInv, AgeTypeOK
<1>8. AgeDated'
  BY <1>1, <1>3, <1>4 DEF AgeInv, AgeDated
<1>9. HandlerWarranted(c, k)
  BY DEF AgeInv, HandlersWarranted
<1>10. HandlersWarranted'
  <2> SUFFICES ASSUME NEW x \in AgedClaim, NEW j \in Reminders PROVE HandlerWarranted(x, j)'
    BY DEF HandlersWarranted
  <2>1. HandlerWarranted(x, j)
    BY DEF AgeInv, HandlersWarranted
  <2>2. sent[x]["followUp"] # Unset => sent'[x]["followUp"] = sent[x]["followUp"]
    BY <1>2, <1>4
  <2> QED
    BY <2>1, <2>2, <1>1, <1>5 DEF HandlerWarranted, Opened
<1>11. RemindersInOrder'
  <2> SUFFICES ASSUME NEW x \in AgedClaim
               PROVE  /\ \A j \in Reminders : sent'[x][j] # Unset /\ closedOn[x] # Unset
                           => sent'[x][j] <= closedOn[x]
                      /\ sent'[x]["followUp"] # Unset => basis'[x] <= sent'[x]["followUp"]
                      /\ sent'[x]["escalation"] # Unset =>
                            /\ sent'[x]["followUp"] # Unset
                            /\ sent'[x]["escalation"] >= sent'[x]["followUp"] + AgingGrace
    BY <1>1 DEF RemindersInOrder, Opened
  <2>1. /\ \A j \in Reminders : sent[x][j] # Unset /\ closedOn[x] # Unset => sent[x][j] <= closedOn[x]
        /\ sent[x]["followUp"] # Unset => basis[x] <= sent[x]["followUp"]
        /\ sent[x]["escalation"] # Unset =>
              /\ sent[x]["followUp"] # Unset
              /\ sent[x]["escalation"] >= sent[x]["followUp"] + AgingGrace
    BY DEF AgeInv, RemindersInOrder, Opened
  <2>2. CASE x # c
    <3>1. basis'[x] = basis[x] /\ \A j \in Reminders : sent'[x][j] = sent[x][j]
      BY <2>2, <1>4, <1>6
    <3> QED
      BY <2>1, <3>1, <1>2
  <2>3. CASE x = c
    <3>1. closedOn[c] # Unset => closedOn[c] = calendar
      BY <1>1, <1>9 DEF HandlerWarranted, Opened
    <3>2. \A j \in Reminders : sent'[c][j] # Unset /\ closedOn[c] # Unset => sent'[c][j] <= closedOn[c]
      BY <3>1, <2>1, <2>3, <1>3, <1>4
    <3>3. CASE k = "followUp"
      <4>1. /\ basis'[c] = handling[c][k] /\ handling[c][k] <= calendar
            /\ sent'[c]["escalation"] = sent[c]["escalation"]
        BY <3>3, <1>1, <1>2, <1>4, <1>6, <1>9 DEF HandlerWarranted
      <4>2. CASE sent[c]["followUp"] = Unset
        <5>1. sent[c]["escalation"] = Unset
          BY <4>2, <2>1, <2>3
        <5>2. sent'[c]["followUp"] = calendar
          BY <4>2, <3>3, <1>2, <1>4
        <5> QED
          BY <5>1, <5>2, <4>1, <3>2, <2>3
      <4>3. CASE sent[c]["followUp"] # Unset
        <5>1. sent'[c]["followUp"] = sent[c]["followUp"] /\ basis[c] = handling[c][k]
          BY <4>3, <3>3, <1>1, <1>2, <1>4
        <5> QED
          BY <5>1, <4>1, <4>3, <3>2, <2>1, <2>3
      <4> QED
        BY <4>2, <4>3
    <3>4. CASE k = "escalation"
      <4>1. /\ basis'[c] = basis[c] /\ sent'[c]["followUp"] = sent[c]["followUp"]
            /\ sent[c]["followUp"] # Unset /\ sent[c]["followUp"] + AgingGrace <= calendar
        BY <3>4, <1>1, <1>2, <1>4, <1>6, <1>9 DEF HandlerWarranted
      <4>2. sent'[c]["escalation"] = IF sent[c]["escalation"] = Unset THEN calendar ELSE sent[c]["escalation"]
        BY <3>4, <1>2, <1>4
      <4> QED
        BY <4>1, <4>2, <3>2, <2>1, <2>3, <1>3
    <3> QED
      BY <3>3, <3>4, <1>2
  <2> QED
    BY <2>2, <2>3
<1> QED
  BY <1>7, <1>8, <1>10, <1>11 DEF AgeInv

(* Midnight: no handler is at work.                                        *)
LEMMA TickKeepsAge == ASSUME AgeInv, AgeTick PROVE AgeInv'
<1>1. /\ \A c \in AgedClaim, k \in Reminders : handling[c][k] = Unset
      /\ calendar' = calendar + 1
      /\ UNCHANGED <<closedOn, deadline, sent, basis, ageJob, handling, bootDay>>
  BY DEF AgeTick
<1>2. AgeTypeOK'
  BY <1>1 DEF AgeInv, AgeTypeOK
<1>3. AgeDated'
  BY <1>1 DEF AgeInv, AgeTypeOK, AgeDated
<1>4. HandlersWarranted'
  BY <1>1 DEF HandlersWarranted, HandlerWarranted
<1>5. RemindersInOrder'
  BY <1>1 DEF AgeInv, RemindersInOrder, Opened
<1> QED
  BY <1>2, <1>3, <1>4, <1>5 DEF AgeInv

(* No step breaks the invariant.                                           *)
LEMMA AgeStep == AgeInv /\ [AgeNext]_ageVars => AgeInv'
<1> SUFFICES ASSUME AgeInv, [AgeNext]_ageVars PROVE AgeInv'
  OBVIOUS
<1>1. CASE UNCHANGED ageVars
  BY <1>1 DEF ageVars, AgeInv, AgeTypeOK, AgeDated, HandlersWarranted, HandlerWarranted,
              RemindersInOrder, Opened
<1>2. CASE AgeNext
  BY <1>2, BookkeepingKeepsAge, CloseKeepsAge, ReadKeepsAge, SendKeepsAge, TickKeepsAge DEF AgeNext
<1> QED
  BY <1>1, <1>2

(* No reminder is dated after the day the claim was closed, a follow-up    *)
(* not before the deadline it names, an escalation not before the grace    *)
(* period of its follow-up, for any number of claims and any schedule of   *)
(* scans, retries and restarts (generateClaimFollowUp,                     *)
(* generateClaimEscalation).                                               *)
THEOREM RemindersComeInOrder == AgeSpec => []RemindersInOrder
<1>1. AgeSpec => []AgeInv
  BY AgeInitial, AgeStep, PTL DEF AgeSpec
<1>2. AgeInv => RemindersInOrder
  BY DEF AgeInv
<1> QED
  BY <1>1, <1>2, PTL
=============================================================================
