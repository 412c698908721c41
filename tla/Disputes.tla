------------------------------- MODULE Disputes -------------------------------
(***************************************************************************)
(* From variance findings to disputes to claims.  Every operation runs in  *)
(* a READ COMMITTED transaction; those that read before they write, or     *)
(* that wait for row locks, are split at the points where another          *)
(* transaction can commit in between:                                      *)
(*   createDisputeFromFindings  locks its findings one by one, in id       *)
(*                              order, then validates and writes;          *)
(*   updateFindingStatus        is one statement, whose `old` CTE reads    *)
(*                              the statement's snapshot and whose UPDATE  *)
(*                              then waits for the row;                    *)
(*   createClaimFromDispute     reads the dispute, then the claims and     *)
(*                              shared findings, then inserts.             *)
(* The dispute transitions are guarded UPDATEs and take one step.          *)
(***************************************************************************)
EXTENDS Integers, FiniteSets, FiniteSetsExt

CONSTANTS
    Tx,           \* transactions that may be open at the same time
    ClaimTx,      \* those of them that may create claims
    Finding,      \* finding ids: naturals, in the order ORDER BY vf.id gives
    DisputeId,    \* ids for dispute rows: naturals, handed out in order
    Undercharge,  \* findings with direction = UNDERCHARGE
    Carrier,      \* invoice carrier of each finding
    Amount,       \* variance_amount of each finding
    MaxAccepts    \* bound on how often one finding is accepted

ASSUME DisputesAssumption ==
    /\ Finding \subseteq Nat /\ DisputeId \subseteq Nat
    /\ ClaimTx \subseteq Tx /\ "free" \notin Tx
    /\ Amount \in [Finding -> Nat]
    /\ DOMAIN Carrier = Finding
    /\ MaxAccepts \in Nat

(* "open" stands for every status but the two the operations ask about.    *)
FindingStatus == {"open", "accepted", "queued_for_dispute"}
Outcomes == {"accepted", "rejected", "partial"}
RespondableStatuses == {"sent", "in_progress"}

VARIABLES
    finding,   \* variance_finding.status
    event,     \* latest finding_status_event of each finding
    accepts,   \* how many of its events say accepted
    lock,      \* holder of each finding's row lock
    dispute,   \* dispute rows with their lines
    outcome,   \* response events on the ledger, by dispute
    claims,    \* number of claim rows, by dispute
    tx,        \* open transactions
    raced      \* have two claim creations ever been open together? (history only)

vars == <<finding, event, accepts, lock, dispute, outcome, claims, tx, raced>>

Free == "free"
NoDispute == [status |-> "none", lines |-> {}, accepted |-> 0]
Idle == [op |-> "none"]

Init ==
    /\ finding = [f \in Finding |-> "open"]
    /\ event = [f \in Finding |-> [from |-> "open", to |-> "open"]]
    /\ accepts = [f \in Finding |-> 0]
    /\ lock = [f \in Finding |-> Free]
    /\ dispute = [d \in DisputeId |-> NoDispute]
    /\ outcome = [d \in DisputeId |-> {}]
    /\ claims = [d \in DisputeId |-> 0]
    /\ tx = [t \in Tx |-> Idle]
    /\ raced = FALSE

amountClaimed(F) == MapThenSumSet(LAMBDA f : Amount[f], F)

-----------------------------------------------------------------------------
(* updateFindingStatus, from PATCH /status and the accept action.          *)

(* The statement starts: its snapshot fixes what `old` will read.          *)
beginStatusUpdate(t) ==
    /\ tx[t].op = "none"
    /\ \E f \in Finding, to \in FindingStatus :
         /\ to = "accepted" => accepts[f] < MaxAccepts
         /\ tx' = [tx EXCEPT ![t] = [op |-> "status", f |-> f, to |-> to, saw |-> finding[f]]]
    /\ UNCHANGED <<finding, event, accepts, lock, dispute, outcome, claims, raced>>

(* The UPDATE gets the row, the event is logged, the transaction commits.  *)
updateFindingStatus(t) ==
    LET x == tx[t] IN
    /\ x.op = "status"
    /\ lock[x.f] = Free
    /\ x.to = "accepted" => accepts[x.f] < MaxAccepts
    /\ finding' = [finding EXCEPT ![x.f] = x.to]
    /\ event' = [event EXCEPT ![x.f] = [from |-> x.saw, to |-> x.to]]
    /\ accepts' = [accepts EXCEPT ![x.f] = @ + (IF x.to = "accepted" THEN 1 ELSE 0)]
    /\ tx' = [tx EXCEPT ![t] = Idle]
    /\ UNCHANGED <<lock, dispute, outcome, claims, raced>>

-----------------------------------------------------------------------------
(* createDisputeFromFindings.                                              *)
beginDispute(t) ==
    /\ tx[t].op = "none"
    /\ \E F \in SUBSET Finding \ {{}} : tx' = [tx EXCEPT ![t] = [op |-> "dispute", wants |-> F]]
    /\ UNCHANGED <<finding, event, accepts, lock, dispute, outcome, claims, raced>>

Missing(t) == {f \in tx[t].wants : lock[f] # t}

(* Mutant: the locking read has no ORDER BY.                               *)
NextToLockUnordered(t) == Missing(t)

(* Which row the locking read asks for next: ORDER BY vf.id FOR UPDATE.    *)
NextToLock(t) == {f \in Missing(t) : \A g \in Missing(t) : f <= g}

MayLock(f) == lock[f] = Free

lockFinding(t) ==
    /\ tx[t].op = "dispute"
    /\ \E f \in NextToLock(t) : MayLock(f) /\ lock' = [lock EXCEPT ![f] = t]
    /\ UNCHANGED <<finding, event, accepts, dispute, outcome, claims, tx, raced>>

Unlocked(t) == [f \in Finding |-> IF lock[f] = t THEN Free ELSE lock[f]]

Claimable(F) == F \ Undercharge

validateDisputableFindings(F) ==
    /\ Claimable(F) # {}
    /\ \A f \in Claimable(F) : finding[f] = "accepted"
    /\ \A f, g \in Claimable(F) : Carrier[f] = Carrier[g]

FreshDispute == {d \in DisputeId : dispute[d].status = "none" /\ \A e \in DisputeId : e < d => dispute[e].status # "none"}

createDisputeFromFindings(t) ==
    /\ tx[t].op = "dispute" /\ Missing(t) = {}
    /\ LET L == Claimable(tx[t].wants) IN
         /\ validateDisputableFindings(tx[t].wants)
         /\ \E d \in FreshDispute :
              dispute' = [dispute EXCEPT ![d] = [NoDispute EXCEPT !.status = "draft", !.lines = L]]
         /\ finding' = [f \in Finding |-> IF f \in L THEN "queued_for_dispute" ELSE finding[f]]
         /\ event' = [f \in Finding |->
                        IF f \in L THEN [from |-> finding[f], to |-> "queued_for_dispute"] ELSE event[f]]
    /\ lock' = Unlocked(t)
    /\ tx' = [tx EXCEPT ![t] = Idle]
    /\ UNCHANGED <<accepts, outcome, claims, raced>>

-----------------------------------------------------------------------------
(* approveDispute and the carrier's responses.                             *)
approveDispute(d) ==
    /\ dispute[d].status = "draft"
    /\ dispute' = [dispute EXCEPT ![d].status = "sent"]
    /\ UNCHANGED <<finding, event, accepts, lock, outcome, claims, tx, raced>>

Respond(d, response, amount) ==
    /\ dispute[d].status \in RespondableStatuses
    /\ dispute' = [dispute EXCEPT ![d].status = response, ![d].accepted = amount]
    /\ outcome' = [outcome EXCEPT ![d] = @ \cup {response}]
    /\ UNCHANGED <<finding, event, accepts, lock, claims, tx, raced>>

acceptDispute(d) == Respond(d, "accepted", 0)

rejectDispute(d) == Respond(d, "rejected", 0)

partiallyAcceptDispute(d, amount) ==
    /\ amount <= amountClaimed(dispute[d].lines)
    /\ Respond(d, "partial", amount)

closeDispute(d) ==
    /\ dispute[d].status \in Outcomes
    /\ dispute' = [dispute EXCEPT ![d].status = "closed"]
    /\ UNCHANGED <<finding, event, accepts, lock, outcome, claims, tx, raced>>

-----------------------------------------------------------------------------
(* createClaimFromDispute.                                                 *)
readDispute(t) ==
    /\ t \in ClaimTx /\ tx[t].op = "none"
    /\ \E d \in DisputeId :
         /\ dispute[d].status # "none"
         /\ tx' = [tx EXCEPT ![t] = [op |-> "claim", d |-> d, status |-> dispute[d].status, checked |-> FALSE]]
    /\ raced' = (raced \/ \E u \in Tx : tx[u].op = "claim")
    /\ UNCHANGED <<finding, event, accepts, lock, dispute, outcome, claims>>

(* Mutant: nobody looks for claims made through other disputes.            *)
SharesClaimedFindingNever(d) == FALSE

SharesClaimedFinding(d) ==
    \E o \in DisputeId \ {d} : claims[o] > 0 /\ dispute[o].lines \cap dispute[d].lines # {}

(* No claim yet, the dispute claimable as it was read, and no finding of   *)
(* it claimed through another dispute.                                     *)
detectDuplicateClaimedFinding(t) ==
    LET x == tx[t] IN
    /\ x.op = "claim" /\ ~x.checked
    /\ claims[x.d] = 0
    /\ x.status = "accepted"
    /\ ~SharesClaimedFinding(x.d)
    /\ tx' = [tx EXCEPT ![t].checked = TRUE]
    /\ UNCHANGED <<finding, event, accepts, lock, dispute, outcome, claims, raced>>

(* Mutant: no conflict on (account_id, dispute_id).                        *)
InsertClaimTwice(d) == [claims EXCEPT ![d] = @ + 1]

(* INSERT ... ON CONFLICT (account_id, dispute_id) DO NOTHING.             *)
InsertClaim(d) == IF claims[d] > 0 THEN claims ELSE [claims EXCEPT ![d] = @ + 1]

createClaimFromDispute(t) ==
    LET x == tx[t] IN
    /\ x.op = "claim" /\ x.checked
    /\ claims' = InsertClaim(x.d)
    /\ tx' = [tx EXCEPT ![t] = Idle]
    /\ UNCHANGED <<finding, event, accepts, lock, dispute, outcome, raced>>

(* A transaction that throws, finds nothing to do or loses its connection. *)
Rollback(t) ==
    /\ tx[t].op # "none"
    /\ lock' = Unlocked(t)
    /\ tx' = [tx EXCEPT ![t] = Idle]
    /\ UNCHANGED <<finding, event, accepts, dispute, outcome, claims, raced>>

-----------------------------------------------------------------------------
Next ==
    \/ \E t \in Tx :
         \/ beginStatusUpdate(t) \/ updateFindingStatus(t)
         \/ beginDispute(t) \/ lockFinding(t) \/ createDisputeFromFindings(t)
         \/ readDispute(t) \/ detectDuplicateClaimedFinding(t) \/ createClaimFromDispute(t)
         \/ Rollback(t)
    \/ \E d \in DisputeId :
         \/ approveDispute(d) \/ acceptDispute(d) \/ rejectDispute(d) \/ closeDispute(d)
         \/ \E a \in 1..(amountClaimed(Finding) + 1) : partiallyAcceptDispute(d, a)

Spec == Init /\ [][Next]_vars

-----------------------------------------------------------------------------
(* Locking in id order: two creations over overlapping findings never wait *)
(* for each other.                                                         *)
NoLockCycle ==
    \A t, u \in Tx :
        t # u /\ tx[t].op = "dispute" /\ tx[u].op = "dispute"
        => ~(\E f \in NextToLock(t), g \in NextToLock(u) : lock[f] = u /\ lock[g] = t)

(* A claim stands on a dispute the carrier accepted in full, and there is  *)
(* one claim per dispute, however many requests race to create it.         *)
ClaimRestsOnAcceptance ==
    \A d \in DisputeId : claims[d] <= 1 /\ (claims[d] = 1 => outcome[d] = {"accepted"})

(* A finding is not claimed through two disputes, as long as claim         *)
(* creations do not overlap: the query-time check holds however often      *)
(* findings are accepted again and whatever happens to the disputes in     *)
(* between.  (detectDuplicateClaimedFinding.)                              *)
FindingClaimedOnceSerially ==
    ~raced =>
        \A d, e \in DisputeId :
            d # e /\ claims[d] > 0 /\ claims[e] > 0 => dispute[d].lines \cap dispute[e].lines = {}
=============================================================================
