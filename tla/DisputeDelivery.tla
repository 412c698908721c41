--------------------------- MODULE DisputeDelivery ---------------------------
(***************************************************************************)
(* From the analyst's approval of a dispute to the carrier: approveDispute *)
(* schedules a workflow_command, an execution of that command records a    *)
(* workflow_outbox_message and a dispute_comm row, and an execution of the *)
(* message calls the carrier-facing sender.  Both tables are ClaimQueues   *)
(* served by one worker process.                                           *)
(***************************************************************************)
EXTENDS Integers, FiniteSets

CONSTANTS
    Dispute,
    MaxRows,      \* rows of each table one dispute may own; the code's guards keep it at 1
    MaxAttempts, StaleAfter, ScanLimit, MaxTries, MaxUptime   \* see ClaimQueue

ASSUME DisputeDeliveryAssumption ==
    /\ MaxRows \in Nat \ {0}
    /\ MaxAttempts \in Nat \ {0}
    /\ StaleAfter \in Nat \ {0}
    /\ ScanLimit \in Nat \ {0}
    /\ MaxTries \in Nat \ {0}
    /\ MaxUptime \in Nat \ {0}

VARIABLES
    dispute,                              \* dispute.status
    cmd, cmdJob, cmdExec, cmdAudited,     \* workflow_command
    msg, msgJob, msgExec, msgAudited,     \* workflow_outbox_message
    comm,                                 \* dispute_comm: outbound entries, by dedupe key
    carrier,                              \* idempotency keys the sender has used
    active, uptime

cmdVars == <<cmd, cmdJob, cmdExec, cmdAudited>>
msgVars == <<msg, msgJob, msgExec, msgAudited>>
vars == <<dispute, cmdVars, msgVars, comm, carrier, active, uptime>>

(* The rows dispute d can own in one table.                                *)
RowsOf(d) == {d} \X (1..MaxRows)
RowId == Dispute \X (1..MaxRows)

Command == INSTANCE ClaimQueue WITH
    Row <- RowId, CallsOut <- FALSE,
    row <- cmd, job <- cmdJob, exec <- cmdExec, audited <- cmdAudited

Outbox == INSTANCE ClaimQueue WITH
    Row <- RowId, CallsOut <- TRUE,
    row <- msg, job <- msgJob, exec <- msgExec, audited <- msgAudited

Existing(table, d) == {x \in RowsOf(d) : table[x].status # "none"}

(* The id the next row of d gets.                                          *)
IsFresh(table, x) ==
    /\ table[x].status = "none"
    /\ \A y \in RowsOf(x[1]) : y[2] < x[2] => table[y].status # "none"

Init ==
    /\ dispute = [d \in Dispute |-> "draft"]
    /\ Command!Init
    /\ Outbox!Init
    /\ comm = {}
    /\ carrier = {}

-----------------------------------------------------------------------------
(* Mutant: the UPDATE has no WHERE status = 'draft'.                       *)
approveDisputeUnguarded(d) ==
    /\ dispute' = [dispute EXCEPT ![d] = "sent"]
    /\ \E c \in RowsOf(d) : IsFresh(cmd, c) /\ Command!InsertRow(c)
    /\ UNCHANGED <<cmdJob, cmdExec, cmdAudited, msgVars, comm, carrier, active, uptime>>

(* approveDispute: the guarded UPDATE, the workflow instance and its       *)
(* deliver_dispute command, due now, in the route's transaction.           *)
approveDispute(d) ==
    /\ dispute[d] = "draft"
    /\ dispute' = [dispute EXCEPT ![d] = "sent"]
    /\ \E c \in RowsOf(d) : IsFresh(cmd, c) /\ Command!InsertRow(c)
    /\ UNCHANGED <<cmdJob, cmdExec, cmdAudited, msgVars, comm, carrier, active, uptime>>

disputeDeliveryDedupeKey(d) == <<"dispute-delivery", d>>

disputeCommOutboundDedupeKey(d) == <<"dispute-comm-outbound", d>>

(* INSERT ... ON CONFLICT (account_id, dedupe_key) DO NOTHING: a dispute's *)
(* messages all have the dispute's key.                                    *)
recordOutboxMessage(d) ==
    IF Existing(msg, d) = {}
    THEN \E m \in RowsOf(d) : IsFresh(msg, m) /\ Outbox!InsertRow(m)
    ELSE UNCHANGED msg

(* A deliver_dispute execution commits.                                    *)
handleDeliverDisputeCommand(e) ==
    LET d == e.id[1][1] IN
    /\ Command!Commit(e)
    /\ recordOutboxMessage(d)
    /\ comm' = comm \cup {disputeCommOutboundDedupeKey(d)}
    /\ UNCHANGED <<dispute, msgJob, msgExec, msgAudited, carrier>>

(* Mutant: the idempotency key follows the claim, not the message.         *)
SenderKeyOfClaim(e) == <<"dispute-delivery", e.id[1][1], e.id[2]>>

(* What the sender of a message's execution is handed as idempotencyKey.   *)
SenderKey(e) == disputeDeliveryDedupeKey(e.id[1][1])

(* A dispute_delivery execution calls its sender.  With no sender          *)
(* registered every execution throws instead.                              *)
callSender(e) ==
    /\ Outbox!CallOut(e)
    /\ carrier' = carrier \cup {SenderKey(e)}
    /\ UNCHANGED <<dispute, cmdVars, comm>>

-----------------------------------------------------------------------------
CommandQueueStep ==
    /\ \/ Command!Scan
       \/ \E k \in Command!JobId : Command!Fetch(k) \/ Command!Expire(k)
       \/ \E e \in cmdExec : Command!Throw(e) \/ Command!Finish(e)
    /\ UNCHANGED <<dispute, msgVars, comm, carrier>>

OutboxQueueStep ==
    /\ \/ Outbox!Scan
       \/ \E k \in Outbox!JobId : Outbox!Fetch(k) \/ Outbox!Expire(k)
       \/ \E e \in msgExec : Outbox!Throw(e) \/ Outbox!Commit(e) \/ Outbox!Finish(e)
    /\ UNCHANGED <<dispute, cmdVars, comm, carrier>>

(* Both queues share the worker process, its clock and the tenant.         *)
WorkerStep ==
    /\ \/ Command!Tick /\ Outbox!Tick
       \/ Command!Restart /\ Outbox!Restart
       \/ Command!SetActive /\ Outbox!SetActive
    /\ UNCHANGED <<dispute, comm, carrier>>

Next ==
    \/ \E d \in Dispute : approveDispute(d)
    \/ \E e \in cmdExec : handleDeliverDisputeCommand(e)
    \/ \E e \in msgExec : callSender(e)
    \/ CommandQueueStep
    \/ OutboxQueueStep
    \/ WorkerStep

Spec == Init /\ [][Next]_vars

-----------------------------------------------------------------------------
(* Approval and its command are one: an approved dispute has exactly one   *)
(* deliver_dispute command, a draft has none, however often it is approved *)
(* and whatever rolls back.                                                *)
OneCommandPerApproval ==
    \A d \in Dispute :
        Existing(cmd, d) = IF dispute[d] = "draft" THEN {} ELSE {<<d, 1>>}

-----------------------------------------------------------------------------
(* The delivery of disputes as the contract sees it.                       *)
Contract == INSTANCE DeliveryContract WITH
    Message <- RowId,
    Key <- {disputeDeliveryDedupeKey(d) : d \in Dispute},
    approved <- {d \in Dispute : dispute[d] # "draft"},
    decided <- [d \in Dispute |-> Existing(msg, d)],
    effects <- [d \in Dispute |-> {k \in carrier : k[2] = d}],
    acknowledged <- {d \in Dispute : \E m \in RowsOf(d) : msg[m].status = "done"}

(* The queues, their jobs, crashes, expiries, reclaims and late executions *)
(* implement the contract: every step is one of its steps or changes       *)
(* nothing it can see.                                                     *)
ContractHolds == Contract!Spec
=============================================================================
