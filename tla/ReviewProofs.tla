---------------------------- MODULE ReviewProofs ----------------------------
(***************************************************************************)
(* Review: disputes and the claims made of them, the review of contract    *)
(* versions, and the gate every request passes. They share no state; each  *)
(* has an invariant of its own.                                            *)
(***************************************************************************)
EXTENDS Disputes, ContractReview, RequestGate, WellFoundedInduction, TLAPS

(***************************************************************************)
(* Disputes, for any number of findings, disputes and concurrent           *)
(* transactions. The lock order, the acceptance a claim rests on and the   *)
(* disjointness of claims made one at a time are proved from one           *)
(* invariant.                                                              *)
(***************************************************************************)

DisputeStatus == {"none", "draft", "closed"} \cup RespondableStatuses \cup Outcomes

DisputeRow == [status : DisputeStatus, lines : SUBSET Finding, accepted : Int]

OpenTx ==
    {Idle} \cup [op : {"status"}, f : Finding, to : FindingStatus, saw : FindingStatus]
           \cup [op : {"dispute"}, wants : SUBSET Finding]
           \cup [op : {"claim"}, d : DisputeId, status : DisputeStatus, checked : BOOLEAN]

DisputesTypeOK ==
    /\ finding \in [Finding -> FindingStatus]
    /\ lock \in [Finding -> Tx \cup {Free}]
    /\ dispute \in [DisputeId -> DisputeRow]
    /\ outcome \in [DisputeId -> SUBSET Outcomes]
    /\ claims \in [DisputeId -> Nat]
    /\ tx \in [Tx -> OpenTx]
    /\ raced \in BOOLEAN

(* A creation holds findings it wants, and every one it still waits for    *)
(* comes after them in id order; no other transaction holds any.           *)
LocksInOrder(t) ==
    \A f \in Finding :
        lock[f] = t => /\ tx[t].op = "dispute" /\ f \in tx[t].wants
                       /\ \A g \in Missing(t) : f < g

(* The ledger knows no response before there is one, and a dispute that is *)
(* accepted was never anything else.                                       *)
ResponseOnLedger(d) ==
    /\ dispute[d].status \in {"none", "draft"} \cup RespondableStatuses => outcome[d] = {}
    /\ dispute[d].status = "accepted" => outcome[d] = {"accepted"}

Stands(d) == dispute[d].status \in {"accepted", "closed"} /\ outcome[d] = {"accepted"}

ClaimStands(d) == claims[d] <= 1 /\ (claims[d] > 0 => Stands(d))

(* What a claim creation read still holds when it inserts.                 *)
ReadStands(t) ==
    tx[t].op = "claim" =>
        /\ dispute[tx[t].d].status # "none"
        /\ tx[t].checked => tx[t].status = "accepted"
        /\ tx[t].status = "accepted" => Stands(tx[t].d)

(* Serially, there is one creation, and what it checked is still so.       *)
SerialCheckStands ==
    /\ \A t, u \in Tx : tx[t].op = "claim" /\ tx[u].op = "claim" => t = u
    /\ \A t \in Tx : tx[t].op = "claim" /\ tx[t].checked => ~SharesClaimedFinding(tx[t].d)

DisputesInv ==
    /\ DisputesTypeOK
    /\ \A t \in Tx : LocksInOrder(t) /\ ReadStands(t)
    /\ \A d \in DisputeId : ResponseOnLedger(d) /\ ClaimStands(d)
    /\ ~raced => SerialCheckStands
    /\ FindingClaimedOnceSerially

-----------------------------------------------------------------------------
(* The operations of a transaction read its own record.                    *)
LEMMA OpenTxFields ==
  ASSUME NEW x \in OpenTx
  PROVE  /\ x.op \in {"none", "status", "dispute", "claim"}
         /\ x.op = "status" => x.f \in Finding /\ x.to \in FindingStatus
         /\ x.op = "dispute" => x.wants \in SUBSET Finding
         /\ x.op = "claim" =>
              /\ x.d \in DisputeId /\ x.status \in DisputeStatus /\ x.checked \in BOOLEAN
              /\ x \in [op : {"claim"}, d : DisputeId, status : DisputeStatus, checked : BOOLEAN]
BY DEF OpenTx, Idle

(* Nothing is disputed, locked or claimed.                                 *)
LEMMA DisputesInitial == Init => DisputesInv
<1> SUFFICES ASSUME Init PROVE DisputesInv
  OBVIOUS
<1>1. DisputesTypeOK
  <2>1. NoDispute \in DisputeRow /\ Idle \in OpenTx
    BY DEF NoDispute, DisputeRow, DisputeStatus, OpenTx
  <2> QED
    BY <2>1 DEF Init, DisputesTypeOK, FindingStatus
<1>2. ASSUME NEW t \in Tx PROVE LocksInOrder(t) /\ ReadStands(t)
  BY DisputesAssumption DEF Init, LocksInOrder, ReadStands, Free, Idle
<1>3. \A d \in DisputeId : ResponseOnLedger(d) /\ ClaimStands(d)
  BY DEF Init, ResponseOnLedger, ClaimStands, NoDispute
<1>4. SerialCheckStands
  BY DEF Init, SerialCheckStands, Idle
<1>5. FindingClaimedOnceSerially
  BY DEF Init, FindingClaimedOnceSerially
<1> QED
  BY <1>1, <1>2, <1>3, <1>4, <1>5 DEF DisputesInv

(* Steps that leave locks, disputes and claims alone, and replace one      *)
(* transaction that holds no lock.                                         *)
LEMMA OpeningStep ==
  ASSUME DisputesInv, NEW t \in Tx, NEW x \in OpenTx, tx' = [tx EXCEPT ![t] = x],
         tx[t].op # "dispute", raced' \in BOOLEAN, raced => raced',
         finding' \in [Finding -> FindingStatus],
         UNCHANGED <<lock, dispute, outcome, claims>>,
         x.op = "claim" => /\ dispute[x.d].status # "none"
                           /\ x.checked => x.status = "accepted"
                           /\ x.status = "accepted" => Stands(x.d),
         ~raced' => SerialCheckStands'
  PROVE  DisputesInv'
<1>1. DisputesTypeOK'
  BY DEF DisputesInv, DisputesTypeOK
<1>2. tx \in [Tx -> OpenTx] /\ tx'[t] = x /\ \A u \in Tx : u # t => tx'[u] = tx[u]
  BY DEF DisputesInv, DisputesTypeOK
<1>3. ASSUME NEW u \in Tx PROVE LocksInOrder(u)'
  BY <1>2 DEF DisputesInv, LocksInOrder, Missing
<1>4. ASSUME NEW u \in Tx PROVE ReadStands(u)'
  BY <1>2 DEF DisputesInv, ReadStands, Stands
<1>5. ASSUME NEW d \in DisputeId PROVE ResponseOnLedger(d)' /\ ClaimStands(d)'
  BY DEF DisputesInv, ResponseOnLedger, ClaimStands, Stands
<1>6. FindingClaimedOnceSerially'
  BY DEF DisputesInv, FindingClaimedOnceSerially
<1> QED
  BY <1>1, <1>3, <1>4, <1>5, <1>6 DEF DisputesInv

(* A status update starts, or gets its row.                                *)
LEMMA StatusUpdateKeeps ==
  ASSUME DisputesInv, NEW t \in Tx, beginStatusUpdate(t) \/ updateFindingStatus(t)
  PROVE  DisputesInv'
<1>0. tx \in [Tx -> OpenTx] /\ finding \in [Finding -> FindingStatus] /\ raced \in BOOLEAN
  BY DEF DisputesInv, DisputesTypeOK
<1>1. /\ UNCHANGED <<lock, dispute, outcome, claims, raced>>
      /\ tx[t].op \in {"none", "status"}
  BY DEF beginStatusUpdate, updateFindingStatus
<1>2. PICK x \in OpenTx : tx' = [tx EXCEPT ![t] = x] /\ x.op \in {"none", "status"}
  <2>1. CASE beginStatusUpdate(t)
    <3>1. PICK f \in Finding, to \in FindingStatus :
             tx' = [tx EXCEPT ![t] = [op |-> "status", f |-> f, to |-> to, saw |-> finding[f]]]
      BY <2>1 DEF beginStatusUpdate
    <3>2. [op |-> "status", f |-> f, to |-> to, saw |-> finding[f]] \in OpenTx
      BY <1>0 DEF OpenTx
    <3> QED
      BY <3>1, <3>2
  <2>2. CASE updateFindingStatus(t)
    <3>1. Idle \in OpenTx /\ Idle.op = "none" /\ tx' = [tx EXCEPT ![t] = Idle]
      BY <2>2 DEF updateFindingStatus, OpenTx, Idle
    <3> QED
      BY <3>1
  <2> QED
    BY <2>1, <2>2
<1>3. finding' \in [Finding -> FindingStatus]
  BY <1>0, OpenTxFields DEF beginStatusUpdate, updateFindingStatus
<1>4. ASSUME ~raced PROVE SerialCheckStands'
  <2>1. tx'[t] = x /\ \A u \in Tx : u # t => tx'[u] = tx[u]
    BY <1>0, <1>2
  <2> QED
    BY <1>1, <1>2, <1>4, <2>1 DEF DisputesInv, SerialCheckStands, SharesClaimedFinding
<1> QED
  BY <1>0, <1>1, <1>2, <1>3, <1>4, OpeningStep

(* A creation starts with no lock.                                         *)
LEMMA BeginDisputeKeeps ==
  ASSUME DisputesInv, NEW t \in Tx, beginDispute(t)
  PROVE  DisputesInv'
<1>0. tx \in [Tx -> OpenTx] /\ finding \in [Finding -> FindingStatus] /\ raced \in BOOLEAN
  BY DEF DisputesInv, DisputesTypeOK
<1>1. PICK F \in SUBSET Finding \ {{}} : tx' = [tx EXCEPT ![t] = [op |-> "dispute", wants |-> F]]
  BY DEF beginDispute
<1> DEFINE x == [op |-> "dispute", wants |-> F]
<1>2. x \in OpenTx /\ x.op = "dispute" /\ tx' = [tx EXCEPT ![t] = x]
  BY <1>1 DEF OpenTx
<1> HIDE DEF x
<1>3. tx[t].op = "none" /\ UNCHANGED <<finding, event, accepts, lock, dispute, outcome, claims, raced>>
  BY DEF beginDispute
<1>4. ASSUME ~raced PROVE SerialCheckStands'
  <2>1. tx'[t] = x /\ \A u \in Tx : u # t => tx'[u] = tx[u]
    BY <1>0, <1>2
  <2> QED
    BY <1>2, <1>3, <1>4, <2>1 DEF DisputesInv, SerialCheckStands, SharesClaimedFinding
<1> QED
  BY <1>0, <1>2, <1>3, <1>4, OpeningStep

(* A claim creation reads the dispute, then looks for other claims.        *)
LEMMA ReadDisputeKeeps ==
  ASSUME DisputesInv, NEW t \in Tx, readDispute(t)
  PROVE  DisputesInv'
<1>0. /\ tx \in [Tx -> OpenTx] /\ finding \in [Finding -> FindingStatus] /\ raced \in BOOLEAN
      /\ dispute \in [DisputeId -> DisputeRow]
  BY DEF DisputesInv, DisputesTypeOK
<1>1. PICK d \in DisputeId :
        /\ dispute[d].status # "none"
        /\ tx' = [tx EXCEPT ![t] = [op |-> "claim", d |-> d, status |-> dispute[d].status, checked |-> FALSE]]
  BY DEF readDispute
<1> DEFINE x == [op |-> "claim", d |-> d, status |-> dispute[d].status, checked |-> FALSE]
<1>2. /\ x \in OpenTx /\ x.op = "claim" /\ ~x.checked /\ x.d = d /\ x.status = dispute[d].status
      /\ tx' = [tx EXCEPT ![t] = x]
  <2>1. dispute[d].status \in DisputeStatus
    BY <1>0 DEF DisputeRow
  <2> QED
    BY <1>1, <2>1 DEF OpenTx
<1> HIDE DEF x
<1>3. /\ tx[t].op = "none" /\ UNCHANGED <<finding, event, accepts, lock, dispute, outcome, claims>>
      /\ raced' = (raced \/ \E u \in Tx : tx[u].op = "claim")
  BY DEF readDispute
<1>4. raced' \in BOOLEAN
  BY <1>3, Zenon
<1>5. ASSUME ~raced' PROVE SerialCheckStands'
  <2>1. tx'[t] = x /\ \A u \in Tx : u # t => tx'[u] = tx[u] /\ tx'[u].op # "claim"
    BY <1>0, <1>2, <1>3, <1>5
  <2> QED
    BY <1>2, <2>1 DEF SerialCheckStands
<1>6. x.status = "accepted" => Stands(x.d)
  BY <1>2 DEF DisputesInv, ResponseOnLedger, Stands
<1> QED
  BY <1>0, <1>1, <1>2, <1>3, <1>4, <1>5, <1>6, OpeningStep

(* The check holds of the state it is made in.                             *)
LEMMA DetectKeeps ==
  ASSUME DisputesInv, NEW t \in Tx, detectDuplicateClaimedFinding(t)
  PROVE  DisputesInv'
<1>0. /\ tx \in [Tx -> OpenTx] /\ finding \in [Finding -> FindingStatus] /\ raced \in BOOLEAN
  BY DEF DisputesInv, DisputesTypeOK
<1> DEFINE old == tx[t]
           x == [old EXCEPT !.checked = TRUE]
<1>1. /\ old.op = "claim" /\ old.status = "accepted" /\ ~SharesClaimedFinding(old.d)
      /\ UNCHANGED <<finding, event, accepts, lock, dispute, outcome, claims, raced>>
  BY DEF detectDuplicateClaimedFinding
<1>2. tx' = [tx EXCEPT ![t] = x]
  BY DEF detectDuplicateClaimedFinding
<1>3. old \in [op : {"claim"}, d : DisputeId, status : DisputeStatus, checked : BOOLEAN]
  BY <1>0, <1>1, OpenTxFields
<1> HIDE DEF old
<1>4. x \in OpenTx /\ x.op = "claim" /\ x.d = old.d /\ x.status = "accepted"
  BY <1>1, <1>3 DEF OpenTx
<1> HIDE DEF x
<1>5. dispute[x.d].status # "none" /\ Stands(x.d)
  BY <1>1, <1>4 DEF DisputesInv, ReadStands, old
<1>6. ASSUME ~raced PROVE SerialCheckStands'
  <2>1. tx'[t] = x /\ \A u \in Tx : u # t => tx'[u] = tx[u]
    BY <1>0, <1>2
  <2>2. SerialCheckStands
    BY <1>6 DEF DisputesInv
  <2>3. \A u \in Tx : u # t => tx'[u].op # "claim"
    BY <2>1, <2>2, <1>1 DEF SerialCheckStands, old
  <2>4. ~\E o \in DisputeId \ {x.d} : claims'[o] > 0 /\ dispute'[o].lines \cap dispute'[x.d].lines # {}
    BY <1>1, <1>4 DEF SharesClaimedFinding
  <2> QED
    BY <2>1, <2>3, <2>4 DEF SerialCheckStands, SharesClaimedFinding
<1> QED
  BY <1>0, <1>1, <1>2, <1>4, <1>5, <1>6, OpeningStep DEF old

(* The next finding in id order is free and becomes the last one held.     *)
LEMMA LockFindingKeeps ==
  ASSUME DisputesInv, NEW t \in Tx, lockFinding(t)
  PROVE  DisputesInv'
<1>0. lock \in [Finding -> Tx \cup {Free}] /\ tx \in [Tx -> OpenTx]
  BY DEF DisputesInv, DisputesTypeOK
<1>1. PICK f \in NextToLock(t) : lock[f] = Free /\ lock' = [lock EXCEPT ![f] = t]
  BY DEF lockFinding, MayLock
<1>2. /\ tx[t].op = "dispute"
      /\ UNCHANGED <<finding, event, accepts, dispute, outcome, claims, tx, raced>>
  BY DEF lockFinding
<1>3. tx[t].wants \in SUBSET Finding
  BY <1>0, <1>2, OpenTxFields
<1>4. f \in Missing(t) /\ f \in Finding /\ f \in tx[t].wants /\ \A g \in Missing(t) : f <= g
  BY <1>3 DEF NextToLock, Missing
<1>5. DisputesTypeOK'
  BY <1>1, <1>2, <1>4 DEF DisputesInv, DisputesTypeOK
<1>6. lock'[f] = t /\ \A g \in Finding : g # f => lock'[g] = lock[g]
  BY <1>0, <1>1, <1>4
<1>7. Missing(t)' = Missing(t) \ {f}
  BY <1>2, <1>3, <1>4, <1>6 DEF Missing
<1>8. LocksInOrder(t)'
  <2> SUFFICES ASSUME NEW h \in Finding, lock'[h] = t, NEW g \in Missing(t) \ {f}
               PROVE  h \in tx[t].wants /\ h < g
    BY <1>2, <1>3, <1>4, <1>6, <1>7 DEF LocksInOrder, DisputesInv
  <2>1. g \in Nat /\ f \in Nat /\ h \in Nat /\ f <= g /\ f # g
    BY <1>3, <1>4, DisputesAssumption DEF Missing
  <2>2. CASE h = f
    BY <2>1, <2>2, <1>4
  <2>3. CASE h # f
    BY <2>3, <1>6 DEF DisputesInv, LocksInOrder
  <2> QED
    BY <2>2, <2>3
<1>9. ASSUME NEW u \in Tx, u # t PROVE LocksInOrder(u)'
  <2>1. ASSUME NEW h \in Finding PROVE lock'[h] = u <=> lock[h] = u
    BY <1>1, <1>6, <1>9, DisputesAssumption DEF Free
  <2>2. ASSUME tx[u].op = "dispute" PROVE Missing(u)' = Missing(u)
    <3>1. tx[u].wants \subseteq Finding
      BY <2>2, <1>0, OpenTxFields
    <3> QED
      BY <3>1, <2>1, <1>2 DEF Missing
  <2>3. LocksInOrder(u)
    BY DEF DisputesInv
  <2> SUFFICES ASSUME NEW h \in Finding, lock'[h] = u
               PROVE  tx[u].op = "dispute" /\ h \in tx[u].wants /\ \A g \in Missing(u)' : h < g
    BY <1>2 DEF LocksInOrder
  <2> QED
    BY <2>1, <2>2, <2>3 DEF LocksInOrder
<1>10. \A u \in Tx : LocksInOrder(u)' /\ ReadStands(u)'
  BY <1>2, <1>8, <1>9 DEF DisputesInv, ReadStands, Stands
<1>11. \A d \in DisputeId : ResponseOnLedger(d)' /\ ClaimStands(d)'
  BY <1>2 DEF DisputesInv, ResponseOnLedger, ClaimStands, Stands
<1>12. (~raced => SerialCheckStands)' /\ FindingClaimedOnceSerially'
  BY <1>2 DEF DisputesInv, SerialCheckStands, SharesClaimedFinding, FindingClaimedOnceSerially
<1> QED
  BY <1>5, <1>10, <1>11, <1>12 DEF DisputesInv

(* A transaction that ends gives back its locks and nobody else's.         *)
LEMMA EndingReleases ==
  ASSUME DisputesInv, NEW t \in Tx, lock' = Unlocked(t), tx' = [tx EXCEPT ![t] = Idle]
  PROVE  /\ lock' \in [Finding -> Tx \cup {Free}] /\ tx' \in [Tx -> OpenTx]
         /\ \A u \in Tx : LocksInOrder(u)'
         /\ tx'[t] = Idle /\ \A u \in Tx : u # t => tx'[u] = tx[u]
<1>0. lock \in [Finding -> Tx \cup {Free}] /\ tx \in [Tx -> OpenTx] /\ Idle \in OpenTx
  BY DEF DisputesInv, DisputesTypeOK, OpenTx
<1>1. lock' \in [Finding -> Tx \cup {Free}] /\ tx' \in [Tx -> OpenTx]
  BY <1>0 DEF Unlocked
<1>2. tx'[t] = Idle /\ \A u \in Tx : u # t => tx'[u] = tx[u]
  BY <1>0
<1>3. \A f \in Finding, u \in Tx : lock'[f] = u <=> u # t /\ lock[f] = u
  BY <1>0, DisputesAssumption DEF Unlocked, Free
<1>4. ASSUME NEW u \in Tx PROVE LocksInOrder(u)'
  <2>1. CASE u = t
    BY <1>3, <2>1 DEF LocksInOrder
  <2>2. CASE u # t
    <3>1. tx'[u] = tx[u] /\ LocksInOrder(u)
      BY <1>2, <2>2 DEF DisputesInv
    <3>2. ASSUME tx[u].op = "dispute" PROVE Missing(u)' = Missing(u)
      <4>1. tx[u].wants \subseteq Finding
        BY <3>2, <1>0, OpenTxFields
      <4> QED
        BY <4>1, <3>1, <1>3, <2>2 DEF Missing
    <3> QED
      BY <1>3, <3>1, <3>2 DEF LocksInOrder
  <2> QED
    BY <2>1, <2>2
<1> QED
  BY <1>1, <1>2, <1>4

(* The creation commits: the new dispute is a fresh row no claim is on.    *)
LEMMA CreateDisputeKeeps ==
  ASSUME DisputesInv, NEW t \in Tx, createDisputeFromFindings(t)
  PROVE  DisputesInv'
<1>0. /\ tx \in [Tx -> OpenTx] /\ dispute \in [DisputeId -> DisputeRow]
      /\ finding \in [Finding -> FindingStatus] /\ claims \in [DisputeId -> Nat]
  BY DEF DisputesInv, DisputesTypeOK
<1> DEFINE L == Claimable(tx[t].wants)
<1>1. /\ tx[t].op = "dispute" /\ lock' = Unlocked(t) /\ tx' = [tx EXCEPT ![t] = Idle]
      /\ finding' = [f \in Finding |-> IF f \in L THEN "queued_for_dispute" ELSE finding[f]]
      /\ UNCHANGED <<accepts, outcome, claims, raced>>
  BY DEF createDisputeFromFindings
<1>2. L \subseteq Finding
  BY <1>0, <1>1, OpenTxFields DEF Claimable
<1>3. PICK row \in DisputeRow, d \in FreshDispute :
        dispute' = [dispute EXCEPT ![d] = row] /\ row.status = "draft"
  <2>1. PICK d \in FreshDispute :
          dispute' = [dispute EXCEPT ![d] = [NoDispute EXCEPT !.status = "draft", !.lines = L]]
    BY DEF createDisputeFromFindings
  <2> DEFINE row == [NoDispute EXCEPT !.status = "draft", !.lines = L]
  <2> HIDE DEF L
  <2>2. row \in DisputeRow /\ row.status = "draft"
    <3>1. NoDispute \in DisputeRow
      BY DEF DisputeRow, NoDispute, DisputeStatus
    <3> QED
      BY <3>1, <1>2 DEF DisputeRow, DisputeStatus
  <2> QED
    BY <2>1, <2>2
<1> HIDE DEF L
<1>4. d \in DisputeId /\ dispute[d].status = "none"
  BY <1>3 DEF FreshDispute
<1>5. dispute'[d] = row /\ \A e \in DisputeId : e # d => dispute'[e] = dispute[e]
  BY <1>0, <1>3, <1>4
<1>6. outcome[d] = {} /\ claims[d] = 0
  BY <1>0, <1>4 DEF DisputesInv, ResponseOnLedger, ClaimStands, Stands
<1>7. /\ lock' \in [Finding -> Tx \cup {Free}] /\ tx' \in [Tx -> OpenTx]
      /\ \A u \in Tx : LocksInOrder(u)'
      /\ tx'[t] = Idle /\ \A u \in Tx : u # t => tx'[u] = tx[u]
  BY <1>1, EndingReleases
<1>8. DisputesTypeOK'
  <2>1. finding' \in [Finding -> FindingStatus]
    BY <1>0, <1>1 DEF FindingStatus
  <2>2. dispute' \in [DisputeId -> DisputeRow]
    BY <1>0, <1>3, <1>4
  <2> QED
    BY <1>1, <1>7, <2>1, <2>2 DEF DisputesInv, DisputesTypeOK
<1>9. ASSUME NEW u \in Tx, tx'[u].op = "claim"
      PROVE  /\ tx'[u] = tx[u] /\ tx[u].op = "claim" /\ tx[u].d \in DisputeId /\ tx[u].d # d
             /\ dispute'[tx[u].d] = dispute[tx[u].d]
  <2>1. tx'[u] = tx[u] /\ tx[u].op = "claim"
    BY <1>7, <1>9 DEF Idle
  <2>2. tx[u].d \in DisputeId /\ dispute[tx[u].d].status # "none"
    BY <1>0, <2>1, OpenTxFields DEF DisputesInv, ReadStands
  <2> QED
    BY <2>1, <2>2, <1>4, <1>5
<1>10. ASSUME NEW u \in Tx PROVE ReadStands(u)'
  BY <1>1, <1>9 DEF DisputesInv, ReadStands, Stands
<1>11. ASSUME NEW e \in DisputeId PROVE ResponseOnLedger(e)' /\ ClaimStands(e)'
  BY <1>1, <1>3, <1>5, <1>6 DEF DisputesInv, ResponseOnLedger, ClaimStands, Stands
<1>12. ASSUME ~raced' PROVE SerialCheckStands'
  <2>1. SerialCheckStands
    BY <1>1, <1>12 DEF DisputesInv
  <2>2. ASSUME NEW u \in Tx, tx'[u].op = "claim", tx'[u].checked
        PROVE  ~\E o \in DisputeId \ {tx[u].d} :
                  claims'[o] > 0 /\ dispute'[o].lines \cap dispute'[tx[u].d].lines # {}
    <3>1. ~SharesClaimedFinding(tx[u].d)
      BY <2>1, <2>2, <1>9 DEF SerialCheckStands
    <3> QED
      BY <3>1, <2>2, <1>1, <1>5, <1>6, <1>9 DEF SharesClaimedFinding
  <2> QED
    BY <2>1, <2>2, <1>9 DEF SerialCheckStands, SharesClaimedFinding
<1>13. FindingClaimedOnceSerially'
  BY <1>1, <1>5, <1>6 DEF DisputesInv, FindingClaimedOnceSerially
<1> QED
  BY <1>7, <1>8, <1>10, <1>11, <1>12, <1>13 DEF DisputesInv

(* A dispute changes status and keeps its lines: what stood still stands.  *)
LEMMA TransitionStep ==
  ASSUME DisputesInv, NEW d \in DisputeId, NEW row \in DisputeRow, NEW o \in SUBSET Outcomes,
         dispute' = [dispute EXCEPT ![d] = row], outcome' = [outcome EXCEPT ![d] = o],
         UNCHANGED <<finding, lock, claims, tx, raced>>,
         row.lines = dispute[d].lines, row.status # "none",
         Stands(d) => row.status \in {"accepted", "closed"} /\ o = {"accepted"},
         row.status \in {"draft"} \cup RespondableStatuses => o = {},
         row.status = "accepted" => o = {"accepted"}
  PROVE  DisputesInv'
<1>0. dispute \in [DisputeId -> DisputeRow] /\ outcome \in [DisputeId -> SUBSET Outcomes]
      /\ tx \in [Tx -> OpenTx]
  BY DEF DisputesInv, DisputesTypeOK
<1>1. DisputesTypeOK'
  BY DEF DisputesInv, DisputesTypeOK
<1>2. /\ dispute'[d] = row /\ \A e \in DisputeId : e # d => dispute'[e] = dispute[e]
      /\ outcome'[d] = o /\ \A e \in DisputeId : e # d => outcome'[e] = outcome[e]
      /\ \A e \in DisputeId : dispute'[e].lines = dispute[e].lines
  BY <1>0
<1>3. ASSUME NEW e \in DisputeId, Stands(e) PROVE Stands(e)'
  BY <1>2, <1>3 DEF Stands
<1>4. ASSUME NEW u \in Tx PROVE LocksInOrder(u)'
  BY DEF DisputesInv, LocksInOrder, Missing
<1>5. ASSUME NEW u \in Tx PROVE ReadStands(u)'
  <2>1. ReadStands(u) /\ tx'[u] = tx[u] /\ (tx[u].op = "claim" => tx[u].d \in DisputeId)
    BY <1>0, OpenTxFields DEF DisputesInv
  <2> SUFFICES ASSUME tx[u].op = "claim"
               PROVE  /\ dispute'[tx[u].d].status # "none"
                      /\ tx[u].checked => tx[u].status = "accepted"
                      /\ tx[u].status = "accepted" => Stands(tx[u].d)'
    BY <2>1 DEF ReadStands
  <2>2. ASSUME tx[u].status = "accepted" PROVE Stands(tx[u].d)'
    BY <2>1, <2>2, <1>2 DEF ReadStands, Stands
  <2> QED
    BY <2>1, <2>2, <1>2 DEF ReadStands
<1>6. ASSUME NEW e \in DisputeId PROVE ResponseOnLedger(e)'
  BY <1>2 DEF DisputesInv, ResponseOnLedger
<1>7. ASSUME NEW e \in DisputeId PROVE ClaimStands(e)'
  BY <1>3 DEF DisputesInv, ClaimStands
<1>8. ASSUME ~raced' PROVE SerialCheckStands'
  <2>1. SerialCheckStands
    BY <1>8 DEF DisputesInv
  <2>2. ASSUME NEW u \in Tx, tx[u].op = "claim", tx[u].checked
        PROVE  ~\E p \in DisputeId \ {tx[u].d} :
                  claims'[p] > 0 /\ dispute'[p].lines \cap dispute'[tx[u].d].lines # {}
    <3>1. ~SharesClaimedFinding(tx[u].d) /\ tx[u].d \in DisputeId
      BY <1>0, <2>1, <2>2, OpenTxFields DEF SerialCheckStands
    <3> QED
      BY <3>1, <1>2 DEF SharesClaimedFinding
  <2> QED
    BY <2>1, <2>2 DEF SerialCheckStands, SharesClaimedFinding
<1>9. FindingClaimedOnceSerially'
  BY <1>2 DEF DisputesInv, FindingClaimedOnceSerially
<1> QED
  BY <1>1, <1>4, <1>5, <1>6, <1>7, <1>8, <1>9 DEF DisputesInv

(* The approval, the carrier's three answers and the closing.              *)
LEMMA TransitionsKeep ==
  ASSUME DisputesInv, NEW d \in DisputeId,
         \/ approveDispute(d) \/ acceptDispute(d) \/ rejectDispute(d) \/ closeDispute(d)
         \/ \E a \in 1..(amountClaimed(Finding) + 1) : partiallyAcceptDispute(d, a)
  PROVE  DisputesInv'
<1>0. dispute \in [DisputeId -> DisputeRow] /\ outcome \in [DisputeId -> SUBSET Outcomes]
  BY DEF DisputesInv, DisputesTypeOK
<1>1. dispute[d] \in DisputeRow /\ ResponseOnLedger(d) /\ outcome[d] \in SUBSET Outcomes
  BY <1>0 DEF DisputesInv
<1> DEFINE Row(s) == [dispute[d] EXCEPT !.status = s]
<1>2. ASSUME NEW s \in DisputeStatus
      PROVE  Row(s) \in DisputeRow /\ Row(s).status = s /\ Row(s).lines = dispute[d].lines
  BY <1>1 DEF DisputeRow
<1> HIDE DEF Row
<1>3. CASE approveDispute(d)
  <2>1. /\ dispute[d].status = "draft" /\ dispute' = [dispute EXCEPT ![d] = Row("sent")]
        /\ UNCHANGED <<finding, event, accepts, lock, outcome, claims, tx, raced>>
    BY <1>3 DEF approveDispute, Row
  <2>2. outcome' = [outcome EXCEPT ![d] = {}] /\ ~Stands(d)
    BY <2>1, <1>0, <1>1 DEF ResponseOnLedger, Stands
  <2>3. "sent" \in DisputeStatus
    BY DEF DisputeStatus, RespondableStatuses
  <2> QED
    BY <2>1, <2>2, <2>3, <1>2, TransitionStep
<1>4. CASE closeDispute(d)
  <2>1. /\ dispute[d].status \in Outcomes /\ dispute' = [dispute EXCEPT ![d] = Row("closed")]
        /\ UNCHANGED <<finding, event, accepts, lock, outcome, claims, tx, raced>>
    BY <1>4 DEF closeDispute, Row
  <2>2. outcome' = [outcome EXCEPT ![d] = outcome[d]] /\ (Stands(d) => outcome[d] = {"accepted"})
    BY <2>1, <1>0, <1>1 DEF Stands
  <2>3. "closed" \in DisputeStatus /\ "closed" \notin {"draft"} \cup RespondableStatuses
    BY DEF DisputeStatus, RespondableStatuses
  <2> QED
    BY <2>1, <2>2, <2>3, <1>1, <1>2, TransitionStep
<1>5. ASSUME NEW s \in Outcomes, NEW a \in Int, Respond(d, s, a) PROVE DisputesInv'
  <2> DEFINE row == [[dispute[d] EXCEPT !.status = s] EXCEPT !.accepted = a]
  <2>1. /\ dispute[d].status \in RespondableStatuses
        /\ dispute' = [dispute EXCEPT ![d] = row]
        /\ outcome' = [outcome EXCEPT ![d] = outcome[d] \cup {s}]
        /\ UNCHANGED <<finding, event, accepts, lock, claims, tx, raced>>
    BY <1>5 DEF Respond
  <2>2. row \in DisputeRow /\ row.status = s /\ row.lines = dispute[d].lines
    BY <1>1, <1>5 DEF DisputeRow, DisputeStatus
  <2> HIDE DEF row
  <2>3. outcome[d] = {} /\ ~Stands(d)
    BY <2>1, <1>1 DEF ResponseOnLedger, Stands, RespondableStatuses
  <2>4. outcome' = [outcome EXCEPT ![d] = {s}] /\ {s} \in SUBSET Outcomes
    BY <2>1, <2>3
  <2>5. s \notin {"none", "draft"} \cup RespondableStatuses
    BY DEF Outcomes, RespondableStatuses
  <2> QED
    BY <2>1, <2>2, <2>3, <2>4, <2>5, TransitionStep
<1> QED
  BY <1>3, <1>4, <1>5 DEF acceptDispute, rejectDispute, partiallyAcceptDispute, Outcomes

(* The insert: the dispute it read stands, and nothing is shared.          *)
LEMMA CreateClaimKeeps ==
  ASSUME DisputesInv, NEW t \in Tx, createClaimFromDispute(t)
  PROVE  DisputesInv'
<1>0. tx \in [Tx -> OpenTx] /\ claims \in [DisputeId -> Nat] /\ Idle \in OpenTx
  BY DEF DisputesInv, DisputesTypeOK, OpenTx
<1>1. /\ tx[t].op = "claim" /\ tx[t].checked /\ tx' = [tx EXCEPT ![t] = Idle]
      /\ claims' = InsertClaim(tx[t].d)
      /\ UNCHANGED <<finding, event, accepts, lock, dispute, outcome, raced>>
  BY DEF createClaimFromDispute
<1>2. PICK d \in DisputeId : d = tx[t].d
  BY <1>0, <1>1, OpenTxFields
<1>3. Stands(d)
  BY <1>1, <1>2 DEF DisputesInv, ReadStands
<1>4. /\ claims' \in [DisputeId -> Nat] /\ claims'[d] = 1
      /\ \A e \in DisputeId : e # d => claims'[e] = claims[e]
  BY <1>0, <1>1, <1>2 DEF InsertClaim, DisputesInv, ClaimStands
<1>5. tx' \in [Tx -> OpenTx] /\ tx'[t] = Idle /\ \A u \in Tx : u # t => tx'[u] = tx[u]
  BY <1>0, <1>1
<1>6. DisputesTypeOK'
  BY <1>1, <1>4, <1>5 DEF DisputesInv, DisputesTypeOK
<1>7. ASSUME NEW u \in Tx PROVE LocksInOrder(u)' /\ ReadStands(u)'
  BY <1>1, <1>5 DEF DisputesInv, LocksInOrder, Missing, ReadStands, Stands, Idle
<1>8. ASSUME NEW e \in DisputeId PROVE ResponseOnLedger(e)' /\ ClaimStands(e)'
  BY <1>1, <1>3, <1>4 DEF DisputesInv, ResponseOnLedger, ClaimStands, Stands
<1>9. ASSUME ~raced' PROVE SerialCheckStands' /\ FindingClaimedOnceSerially'
  <2>1. SerialCheckStands /\ ~raced
    BY <1>1, <1>9 DEF DisputesInv
  <2>2. \A u \in Tx : tx'[u].op # "claim"
    BY <2>1, <1>1, <1>5 DEF SerialCheckStands, Idle
  <2>3. ASSUME NEW e \in DisputeId, e # d, claims[e] > 0 PROVE dispute[e].lines \cap dispute[d].lines = {}
    BY <2>1, <2>3, <1>1, <1>2 DEF SerialCheckStands, SharesClaimedFinding
  <2>4. FindingClaimedOnceSerially'
    <3> SUFFICES ASSUME NEW p \in DisputeId, NEW q \in DisputeId, p # q, claims'[p] > 0, claims'[q] > 0
                 PROVE  dispute[p].lines \cap dispute[q].lines = {}
      BY <1>1 DEF FindingClaimedOnceSerially
    <3>1. CASE p = d
      BY <3>1, <2>3, <1>4
    <3>2. CASE q = d
      BY <3>2, <2>3, <1>4
    <3>3. CASE p # d /\ q # d
      BY <3>3, <2>1, <1>4 DEF DisputesInv, FindingClaimedOnceSerially
    <3> QED
      BY <3>1, <3>2, <3>3
  <2> QED
    BY <2>2, <2>4 DEF SerialCheckStands
<1> QED
  BY <1>6, <1>7, <1>8, <1>9 DEF DisputesInv, FindingClaimedOnceSerially

(* A transaction ends with nothing done.                                   *)
LEMMA RollbackKeeps ==
  ASSUME DisputesInv, NEW t \in Tx, Rollback(t)
  PROVE  DisputesInv'
<1>1. /\ lock' = Unlocked(t) /\ tx' = [tx EXCEPT ![t] = Idle]
      /\ UNCHANGED <<finding, event, accepts, dispute, outcome, claims, raced>>
  BY DEF Rollback
<1>2. /\ lock' \in [Finding -> Tx \cup {Free}] /\ tx' \in [Tx -> OpenTx]
      /\ \A u \in Tx : LocksInOrder(u)'
      /\ tx'[t] = Idle /\ \A u \in Tx : u # t => tx'[u] = tx[u]
  BY <1>1, EndingReleases
<1>3. DisputesTypeOK'
  BY <1>1, <1>2 DEF DisputesInv, DisputesTypeOK
<1>4. ASSUME NEW u \in Tx PROVE ReadStands(u)'
  BY <1>1, <1>2 DEF DisputesInv, ReadStands, Stands, Idle
<1>5. ASSUME NEW e \in DisputeId PROVE ResponseOnLedger(e)' /\ ClaimStands(e)'
  BY <1>1 DEF DisputesInv, ResponseOnLedger, ClaimStands, Stands
<1>6. ASSUME ~raced' PROVE SerialCheckStands'
  BY <1>1, <1>2, <1>6 DEF DisputesInv, SerialCheckStands, SharesClaimedFinding, Idle
<1>7. FindingClaimedOnceSerially'
  BY <1>1 DEF DisputesInv, FindingClaimedOnceSerially
<1> QED
  BY <1>2, <1>3, <1>4, <1>5, <1>6, <1>7 DEF DisputesInv

(* No step breaks the invariant.                                           *)
LEMMA DisputesStep == DisputesInv /\ [Next]_vars => DisputesInv'
<1> SUFFICES ASSUME DisputesInv, [Next]_vars PROVE DisputesInv'
  OBVIOUS
<1>1. CASE UNCHANGED vars
  <2>1. UNCHANGED <<finding, lock, dispute, outcome, claims, tx, raced>>
    BY <1>1 DEF vars
  <2> QED
    BY <2>1 DEF DisputesInv, DisputesTypeOK, LocksInOrder, Missing, ReadStands, Stands, ResponseOnLedger,
                ClaimStands, SerialCheckStands, SharesClaimedFinding, FindingClaimedOnceSerially
<1>2. ASSUME NEW t \in Tx,
             \/ beginStatusUpdate(t) \/ updateFindingStatus(t)
             \/ beginDispute(t) \/ lockFinding(t) \/ createDisputeFromFindings(t)
             \/ readDispute(t) \/ detectDuplicateClaimedFinding(t) \/ createClaimFromDispute(t)
             \/ Rollback(t)
      PROVE  DisputesInv'
  BY <1>2, StatusUpdateKeeps, BeginDisputeKeeps, LockFindingKeeps, CreateDisputeKeeps,
     ReadDisputeKeeps, DetectKeeps, CreateClaimKeeps, RollbackKeeps
<1> QED
  BY <1>1, <1>2, TransitionsKeep DEF Next

(* Every reachable state satisfies the invariant, for any findings,        *)
(* disputes and transactions.                                              *)
THEOREM DisputesInvariant == Spec => []DisputesInv
BY DisputesInitial, DisputesStep, PTL DEF Spec

(* Two creations over overlapping findings never wait for each other:      *)
(* each holds only findings that come before those it waits for (the       *)
(* locking read's ORDER BY in createDisputeFromFindings).                  *)
THEOREM CreationsNeverDeadlock == Spec => []NoLockCycle
<1>1. DisputesInv => NoLockCycle
  <2> SUFFICES ASSUME DisputesInv, NEW t \in Tx, NEW u \in Tx, t # u,
                      tx[t].op = "dispute", tx[u].op = "dispute",
                      NEW f \in NextToLock(t), NEW g \in NextToLock(u), lock[f] = u, lock[g] = t
               PROVE  FALSE
    BY DEF NoLockCycle
  <2>1. tx[t].wants \subseteq Finding /\ tx[u].wants \subseteq Finding
    BY OpenTxFields DEF DisputesInv, DisputesTypeOK
  <2>2. f \in Missing(t) /\ g \in Missing(u) /\ f \in Finding /\ g \in Finding
    BY <2>1 DEF NextToLock, Missing
  <2>3. f < g /\ g < f
    BY <2>2 DEF DisputesInv, LocksInOrder
  <2> QED
    BY <2>2, <2>3, DisputesAssumption
<1> QED
  BY <1>1, DisputesInvariant, PTL

(* One claim per dispute, and only on a dispute the carrier accepted in    *)
(* full, however many requests race (createClaimFromDispute).              *)
THEOREM ClaimsRestOnAcceptance == Spec => []ClaimRestsOnAcceptance
<1>1. DisputesInv => ClaimRestsOnAcceptance
  BY DEF DisputesInv, ClaimRestsOnAcceptance, ClaimStands, Stands
<1> QED
  BY <1>1, DisputesInvariant, PTL

(* As long as claim creations do not overlap, no finding is claimed        *)
(* through two disputes (detectDuplicateClaimedFinding).                   *)
THEOREM SerialClaimsAreDisjoint == Spec => []FindingClaimedOnceSerially
<1>1. DisputesInv => FindingClaimedOnceSerially
  BY DEF DisputesInv
<1> QED
  BY <1>1, DisputesInvariant, PTL

-----------------------------------------------------------------------------
(***************************************************************************)
(* The review of contract versions, for any number of sources, fields,     *)
(* answers, corrections and concurrent finalizations.                      *)
(***************************************************************************)

FinalizerOf(X) == [step : {"idle", "fields", "insert"}, source : Source \cup {Unset},
                   by : Reader \cup {Unset}, fields : X, disturbed : BOOLEAN]

CtTypeOK ==
    /\ ctAsked \in [Source -> [asked : BOOLEAN, fields : SUBSET Field]]
    /\ ctAnswer \in [Source -> [Field -> Value \cup {Unset}]]
    /\ ctCorrection \in [Source -> [Field -> Seq([value : Value, by : Reader])]]
    /\ \E X : ctFinalizer \in [Finalizer -> FinalizerOf(X)]
    /\ \E Y : ctVerified \in [Source -> Y]

(* What a finalization read of x is what an analyst would read now.        *)
Current(x, fields, step) ==
    /\ \A f \in Fields(x[2]) : fields[f] = effectiveValue(x, f)
    /\ step = "insert" => ~unanswered(x)

(* It stays so, unless the finalization was disturbed.                     *)
ReadIsCurrent(q) ==
    ctFinalizer[q].step # "idle" =>
        /\ ctFinalizer[q].source \in Source
        /\ ~ctFinalizer[q].disturbed =>
             Current(ctFinalizer[q].source, ctFinalizer[q].fields, ctFinalizer[q].step)

CtInv == CtTypeOK /\ \A q \in Finalizer : ReadIsCurrent(q)

(* A finalization that does not run is one.                                *)
LEMMA NoFinalizerTyped == NoFinalizer \in FinalizerOf({<<>>}) /\ NoFinalizer.step = "idle"
BY DEF NoFinalizer, FinalizerOf

(* Nothing is asked, corrected or finalized.                               *)
LEMMA CtInitial == ctInit => CtInv
<1> SUFFICES ASSUME ctInit PROVE CtInv
  OBVIOUS
<1>1. ctFinalizer \in [Finalizer -> FinalizerOf({<<>>})]
  BY NoFinalizerTyped DEF ctInit
<1>2. ctVerified \in [Source -> {NotVerified}]
  BY DEF ctInit
<1>3. ctAsked \in [Source -> [asked : BOOLEAN, fields : SUBSET Field]]
  BY DEF ctInit, NotAsked
<1>4. ctAnswer \in [Source -> [Field -> Value \cup {Unset}]]
  BY DEF ctInit
<1>5. ctCorrection \in [Source -> [Field -> Seq([value : Value, by : Reader])]]
  <2>1. <<>> \in Seq([value : Value, by : Reader])
    OBVIOUS
  <2> QED
    BY <2>1 DEF ctInit
<1>6. CtTypeOK
  BY <1>1, <1>2, <1>3, <1>4, <1>5 DEF CtTypeOK
<1>7. ASSUME NEW q \in Finalizer PROVE ReadIsCurrent(q)
  BY NoFinalizerTyped DEF ctInit, ReadIsCurrent
<1> QED
  BY <1>6, <1>7 DEF CtInv

(* What is current of a source stays so while its corrections and          *)
(* questions are as they were and no answer is taken back.                 *)
LEMMA CurrentStays ==
  ASSUME NEW x \in Source, NEW F, NEW s, Current(x, F, s), CtTypeOK,
         ctCorrection'[x] = ctCorrection[x], ctAsked'[x] = ctAsked[x],
         \A f \in Field : ctAnswer[x][f] # Unset => ctAnswer'[x][f] # Unset
  PROVE  Current(x, F, s)'
<1>1. \A f : effectiveValue(x, f)' = effectiveValue(x, f)
  BY DEF effectiveValue
<1>2. ASSUME ~unanswered(x) PROVE ~unanswered(x)'
  <2>1. ctAsked[x].fields \subseteq Field
    BY DEF CtTypeOK
  <2> QED
    BY <1>2, <2>1 DEF unanswered
<1> QED
  BY <1>1, <1>2 DEF Current, Fields

(* A step of the review: it reaches one source, and marks every            *)
(* finalization of it that it disturbs.                                    *)
LEMMA ReviewStep ==
  ASSUME CtInv, CtTypeOK', NEW x \in Source,
         \A q \in Finalizer :
            /\ ctFinalizer'[q].step = ctFinalizer[q].step /\ ctFinalizer'[q].source = ctFinalizer[q].source
            /\ ctFinalizer'[q].fields = ctFinalizer[q].fields
            /\ ctFinalizer[q].disturbed => ctFinalizer'[q].disturbed
            /\ ctFinalizer[q].source = x =>
                 ctFinalizer'[q].disturbed \/ (ctCorrection'[x] = ctCorrection[x] /\ ctAsked'[x] = ctAsked[x]),
         \A y \in Source \ {x} : ctCorrection'[y] = ctCorrection[y] /\ ctAsked'[y] = ctAsked[y],
         \A y \in Source, f \in Field : ctAnswer[y][f] # Unset => ctAnswer'[y][f] # Unset
  PROVE  CtInv'
<1>1. ASSUME NEW q \in Finalizer PROVE ReadIsCurrent(q)'
  <2> SUFFICES ASSUME ctFinalizer[q].step # "idle"
               PROVE  /\ ctFinalizer[q].source \in Source
                      /\ ~ctFinalizer'[q].disturbed =>
                           Current(ctFinalizer[q].source, ctFinalizer[q].fields, ctFinalizer[q].step)'
    BY DEF ReadIsCurrent
  <2>1. PICK y, F, s :
          y \in Source /\ y = ctFinalizer[q].source /\ F = ctFinalizer[q].fields /\ s = ctFinalizer[q].step
    BY DEF CtInv, ReadIsCurrent
  <2>2. y = ctFinalizer'[q].source /\ F = ctFinalizer'[q].fields /\ s = ctFinalizer'[q].step
    BY <2>1
  <2>3. ASSUME ~ctFinalizer'[q].disturbed PROVE Current(y, F, s)'
    <3>1. Current(y, F, s)
      BY <2>1, <2>3 DEF CtInv, ReadIsCurrent
    <3>2. ctCorrection'[y] = ctCorrection[y] /\ ctAsked'[y] = ctAsked[y]
      BY <2>1, <2>3
    <3> QED
      BY <2>1, <3>1, <3>2, CurrentStays DEF CtInv
  <2> QED
    BY <2>1, <2>2, <2>3
<1> QED
  BY <1>1 DEF CtInv

(* Uploads and extractions say nothing about a review.                     *)
LEMMA UploadsKeepCt ==
  ASSUME CtInv, UNCHANGED <<ctAsked, ctAnswer, ctCorrection, ctFinalizer, ctVerified>>
  PROVE  CtInv'
BY DEF CtInv, CtTypeOK, ReadIsCurrent, Current, effectiveValue, unanswered, Fields

(* A question or a correction marks the finalizations of its source.       *)
LEMMA MarkedFinalizers ==
  ASSUME CtTypeOK, NEW x,
         ctFinalizer' = [q \in Finalizer |->
           [ctFinalizer[q] EXCEPT !.disturbed = @ \/ ctFinalizer[q].source = x]]
  PROVE  /\ \E X : ctFinalizer' \in [Finalizer -> FinalizerOf(X)]
         /\ \A q \in Finalizer :
              /\ ctFinalizer'[q].step = ctFinalizer[q].step /\ ctFinalizer'[q].source = ctFinalizer[q].source
              /\ ctFinalizer'[q].fields = ctFinalizer[q].fields
              /\ ctFinalizer[q].disturbed => ctFinalizer'[q].disturbed
              /\ ctFinalizer[q].source = x => ctFinalizer'[q].disturbed
<1>1. PICK X : ctFinalizer \in [Finalizer -> FinalizerOf(X)]
  BY DEF CtTypeOK
<1>2. ASSUME NEW q \in Finalizer
      PROVE  /\ ctFinalizer'[q] \in FinalizerOf(X)
             /\ ctFinalizer'[q].step = ctFinalizer[q].step /\ ctFinalizer'[q].source = ctFinalizer[q].source
             /\ ctFinalizer'[q].fields = ctFinalizer[q].fields
             /\ ctFinalizer'[q].disturbed = (ctFinalizer[q].disturbed \/ ctFinalizer[q].source = x)
  <2> DEFINE old == ctFinalizer[q]
             d == old.disturbed \/ old.source = x
  <2>1. old \in FinalizerOf(X) /\ d \in BOOLEAN
    BY <1>1
  <2>2. ctFinalizer'[q] = [old EXCEPT !.disturbed = d]
    OBVIOUS
  <2> HIDE DEF old, d
  <2>3. /\ ctFinalizer'[q] \in FinalizerOf(X) /\ ctFinalizer'[q].step = old.step
        /\ ctFinalizer'[q].source = old.source /\ ctFinalizer'[q].fields = old.fields
        /\ ctFinalizer'[q].disturbed = d
    BY <2>1, <2>2 DEF FinalizerOf
  <2> QED
    BY <2>3 DEF old, d
<1>3. ctFinalizer' \in [Finalizer -> FinalizerOf(X)]
  BY <1>2
<1> QED
  BY <1>2, <1>3

(* The questions are generated.                                            *)
LEMMA QuestionsKeepCt ==
  ASSUME CtInv, NEW d \in Doc, NEW r \in Response, NEW c \in 1..3, persistClarifyingQuestions(d, r, c)
  PROVE  CtInv'
<1> DEFINE x == <<d, r>>
           new == [asked |-> TRUE, fields |-> generateClarifyingQuestions(r, c)]
<1>1. /\ ctAsked' = [ctAsked EXCEPT ![x] = new]
      /\ ctFinalizer' = [q \in Finalizer |->
           [ctFinalizer[q] EXCEPT !.disturbed = @ \/ ctFinalizer[q].source = x]]
      /\ UNCHANGED <<ctExtracted, ctAnswer, ctAnswered, ctCorrection, ctVerified>>
  BY DEF persistClarifyingQuestions
<1>2. x \in Source
  BY DEF Source
<1>3. new \in [asked : BOOLEAN, fields : SUBSET Field]
  BY ContractReviewAssumption DEF generateClarifyingQuestions, applyContractExtractionAbstention, Fields
<1> HIDE DEF x, new
<1>4. /\ \E X : ctFinalizer' \in [Finalizer -> FinalizerOf(X)]
      /\ \A q \in Finalizer :
           /\ ctFinalizer'[q].step = ctFinalizer[q].step /\ ctFinalizer'[q].source = ctFinalizer[q].source
           /\ ctFinalizer'[q].fields = ctFinalizer[q].fields
           /\ ctFinalizer[q].disturbed => ctFinalizer'[q].disturbed
           /\ ctFinalizer[q].source = x => ctFinalizer'[q].disturbed
  BY <1>1, MarkedFinalizers DEF CtInv
<1>5. CtTypeOK'
  BY <1>1, <1>2, <1>3, <1>4 DEF CtInv, CtTypeOK
<1>6. \A y \in Source \ {x} : ctCorrection'[y] = ctCorrection[y] /\ ctAsked'[y] = ctAsked[y]
  BY <1>1, <1>2 DEF CtInv, CtTypeOK
<1> QED
  BY <1>1, <1>2, <1>4, <1>5, <1>6, ReviewStep

(* A question is answered.                                                 *)
LEMMA AnswerKeepsCt ==
  ASSUME CtInv, NEW x \in Source, NEW f \in Field, NEW v \in Value, answerClarifyingQuestion(x, f, v)
  PROVE  CtInv'
<1>1. /\ ctAnswer' = [ctAnswer EXCEPT ![x][f] = v]
      /\ UNCHANGED <<ctAsked, ctCorrection, ctVerified, ctFinalizer>>
  BY DEF answerClarifyingQuestion
<1>2. ctAnswer \in [Source -> [Field -> Value \cup {Unset}]]
  BY DEF CtInv, CtTypeOK
<1>3. CtTypeOK'
  BY <1>1, <1>2 DEF CtInv, CtTypeOK
<1>4. \A y \in Source, g \in Field : ctAnswer[y][g] # Unset => ctAnswer'[y][g] # Unset
  BY <1>1, <1>2, ContractReviewAssumption
<1> QED
  BY <1>1, <1>3, <1>4, ReviewStep

(* A field is corrected.                                                   *)
LEMMA CorrectionKeepsCt ==
  ASSUME CtInv, NEW a \in Reader, NEW x \in Source, NEW f \in Field, NEW v \in Value,
         persistExtractionFieldCorrection(a, x, f, v)
  PROVE  CtInv'
<1> DEFINE R == [value : Value, by : Reader]
           s == ctCorrection[x][f]
<1>1. /\ ctCorrection' = [ctCorrection EXCEPT ![x][f] = Append(s, [value |-> v, by |-> a])]
      /\ ctFinalizer' = [q \in Finalizer |->
           [ctFinalizer[q] EXCEPT !.disturbed = @ \/ ctFinalizer[q].source = x]]
      /\ UNCHANGED <<ctAsked, ctAnswer, ctVerified>>
  BY DEF persistExtractionFieldCorrection
<1>2. ctCorrection \in [Source -> [Field -> Seq(R)]]
  BY DEF CtInv, CtTypeOK
<1>3. Append(s, [value |-> v, by |-> a]) \in Seq(R)
  <2>1. s \in Seq(R) /\ [value |-> v, by |-> a] \in R
    BY <1>2
  <2> HIDE DEF s, R
  <2> QED
    BY <2>1
<1> HIDE DEF s
<1>4. ctCorrection' \in [Source -> [Field -> Seq(R)]] /\ \A y \in Source \ {x} : ctCorrection'[y] = ctCorrection[y]
  BY <1>1, <1>2, <1>3
<1>5. /\ \E X : ctFinalizer' \in [Finalizer -> FinalizerOf(X)]
      /\ \A q \in Finalizer :
           /\ ctFinalizer'[q].step = ctFinalizer[q].step /\ ctFinalizer'[q].source = ctFinalizer[q].source
           /\ ctFinalizer'[q].fields = ctFinalizer[q].fields
           /\ ctFinalizer[q].disturbed => ctFinalizer'[q].disturbed
           /\ ctFinalizer[q].source = x => ctFinalizer'[q].disturbed
  BY <1>1, MarkedFinalizers DEF CtInv
<1>6. CtTypeOK'
  BY <1>1, <1>4, <1>5 DEF CtInv, CtTypeOK
<1>7. ctAsked' = ctAsked /\ ctAnswer' = ctAnswer
  BY <1>1
<1> QED
  BY <1>4, <1>5, <1>6, <1>7, ReviewStep

(* One finalization moves, and what it holds is current.                   *)
LEMMA FinalizerStep ==
  ASSUME CtInv, NEW q \in Finalizer, NEW X, NEW new \in FinalizerOf(X),
         ctFinalizer' = [ctFinalizer EXCEPT ![q] = new],
         UNCHANGED <<ctAsked, ctAnswer, ctCorrection>>,
         \E Y : ctVerified' \in [Source -> Y],
         new.step # "idle" =>
           new.source \in Source /\ (~new.disturbed => Current(new.source, new.fields, new.step))
  PROVE  CtInv'
<1>1. PICK Z : ctFinalizer \in [Finalizer -> FinalizerOf(Z)]
  BY DEF CtInv, CtTypeOK
<1>2. ctFinalizer'[q] = new /\ \A p \in Finalizer : p # q => ctFinalizer'[p] = ctFinalizer[p]
  BY <1>1
<1>3. ctFinalizer' \in [Finalizer -> FinalizerOf(X \cup Z)]
  <2>1. FinalizerOf(X) \subseteq FinalizerOf(X \cup Z) /\ FinalizerOf(Z) \subseteq FinalizerOf(X \cup Z)
    BY DEF FinalizerOf
  <2> QED
    BY <1>1, <2>1
<1>4. CtTypeOK'
  BY <1>3 DEF CtInv, CtTypeOK
<1>5. \A x, F, s : Current(x, F, s)' = Current(x, F, s)
  BY DEF Current, effectiveValue, unanswered, Fields
<1>6. ASSUME NEW p \in Finalizer PROVE ReadIsCurrent(p)'
  <2>1. PICK y, F, s : y = ctFinalizer'[p].source /\ F = ctFinalizer'[p].fields /\ s = ctFinalizer'[p].step
    OBVIOUS
  <2>2. s # "idle" => y \in Source /\ (~ctFinalizer'[p].disturbed => Current(y, F, s))
    BY <1>2, <2>1 DEF CtInv, ReadIsCurrent
  <2> QED
    BY <2>1, <2>2, <1>5 DEF ReadIsCurrent
<1> QED
  BY <1>4, <1>6 DEF CtInv
(* A finalization reads the fields: they are current.                      *)
LEMMA ReadFieldsKeepsCt ==
  ASSUME CtInv, NEW q \in Finalizer, NEW a \in Reader, NEW x \in Source, readFields(q, a, x)
  PROVE  CtInv'
<1> DEFINE F == [f \in Fields(x[2]) |-> effectiveValue(x, f)]
           new == [step |-> "fields", source |-> x, by |-> a, disturbed |-> FALSE, fields |-> F]
<1>1. /\ ctFinalizer' = [ctFinalizer EXCEPT ![q] = new]
      /\ UNCHANGED <<ctAsked, ctAnswer, ctCorrection, ctVerified>>
  BY DEF readFields, ctReview
<1>2. Current(x, F, "fields")
  BY DEF Current
<1> HIDE DEF F
<1>3. new \in FinalizerOf({F}) /\ new.step = "fields" /\ new.source = x /\ new.fields = F
  BY DEF FinalizerOf
<1>4. \E Y : ctVerified' \in [Source -> Y]
  BY <1>1 DEF CtInv, CtTypeOK
<1> HIDE DEF new
<1> QED
  BY <1>1, <1>2, <1>3, <1>4, FinalizerStep

(* It reads the questions: it goes on only when none is open.              *)
LEMMA ReadQuestionsKeepsCt ==
  ASSUME CtInv, NEW q \in Finalizer, readQuestions(q)
  PROVE  CtInv'
<1> DEFINE old == ctFinalizer[q]
           new == [old EXCEPT !.step = "insert"]
<1>1. /\ old.step = "fields"
      /\ ctFinalizer' = [ctFinalizer EXCEPT ![q] = IF unanswered(old.source) THEN NoFinalizer ELSE new]
      /\ UNCHANGED <<ctAsked, ctAnswer, ctCorrection, ctVerified>>
  BY DEF readQuestions, ctReview
<1>2. PICK X : old \in FinalizerOf(X)
  BY DEF CtInv, CtTypeOK
<1>3. \E Y : ctVerified' \in [Source -> Y]
  BY <1>1 DEF CtInv, CtTypeOK
<1>4. old.source \in Source /\ (~old.disturbed => Current(old.source, old.fields, old.step))
  BY <1>1 DEF CtInv, ReadIsCurrent
<1> HIDE DEF old
<1>5. CASE unanswered(old.source)
  BY <1>1, <1>3, <1>5, NoFinalizerTyped, FinalizerStep
<1>6. CASE ~unanswered(old.source)
  <2>1. /\ new \in FinalizerOf(X) /\ new.step = "insert" /\ new.source = old.source
        /\ new.fields = old.fields /\ new.disturbed = old.disturbed
    BY <1>2 DEF FinalizerOf
  <2> HIDE DEF new
  <2>2. ~new.disturbed => Current(new.source, new.fields, new.step)
    BY <1>4, <1>6, <2>1 DEF Current
  <2>3. ctFinalizer' = [ctFinalizer EXCEPT ![q] = new] /\ new.source \in Source
    BY <1>1, <1>4, <1>6, <2>1
  <2>4. UNCHANGED <<ctAsked, ctAnswer, ctCorrection>>
    BY <1>1
  <2> QED
    BY <1>3, <2>1, <2>2, <2>3, <2>4, FinalizerStep
<1> QED
  BY <1>5, <1>6

(* It inserts the verified version.                                        *)
LEMMA FinalizeKeepsCt ==
  ASSUME CtInv, NEW q \in Finalizer, finalizeContractVersion(q)
  PROVE  CtInv'
<1>1. /\ ctFinalizer' = [ctFinalizer EXCEPT ![q] = NoFinalizer]
      /\ UNCHANGED <<ctAsked, ctAnswer, ctCorrection>>
  BY DEF finalizeContractVersion, ctReview
<1>2. \E Y : ctVerified' \in [Source -> Y]
  <2>1. PICK Y : ctVerified \in [Source -> Y]
    BY DEF CtInv, CtTypeOK
  <2>2. PICK row : ctVerified' = ctVerified \/ ctVerified' = [ctVerified EXCEPT ![ctFinalizer[q].source] = row]
    BY DEF finalizeContractVersion
  <2>3. ctVerified' \in [Source -> Y \cup {row}]
    BY <2>1, <2>2
  <2> QED
    BY <2>3
<1> QED
  BY <1>1, <1>2, NoFinalizerTyped, FinalizerStep

(* No step breaks the invariant.                                           *)
LEMMA CtStep == CtInv /\ [ctNext]_ctVars => CtInv'
<1> SUFFICES ASSUME CtInv, [ctNext]_ctVars PROVE CtInv'
  OBVIOUS
<1>1. ASSUME NEW t \in Tenant, NEW d \in Doc, NEW k \in Contract,
             uploadContractDocument(t, d, k) \/ uploadContractVersionDocument(t, d, k)
      PROVE  CtInv'
  BY <1>1, UploadsKeepCt DEF uploadContractDocument, uploadContractVersionDocument, ctReview
<1>2. ASSUME NEW d \in Doc, NEW r \in Response, persistContractExtraction(d, r)
      PROVE  CtInv'
  BY <1>2, UploadsKeepCt DEF persistContractExtraction
<1>3. CASE UNCHANGED ctVars
  BY <1>3, UploadsKeepCt DEF ctVars
<1> QED
  BY <1>1, <1>2, <1>3, QuestionsKeepCt, AnswerKeepsCt, CorrectionKeepsCt, ReadFieldsKeepsCt,
     ReadQuestionsKeepsCt, FinalizeKeepsCt DEF ctNext

(* Every reachable state satisfies the invariant.                          *)
THEOREM ContractReviewInvariant == ctSpec => []CtInv
BY CtInitial, CtStep, PTL DEF ctSpec

(* The step that verifies a version writes what was reviewed.              *)
LEMMA VerifyingStep ==
  ASSUME CtInv, [ctNext]_ctVars, NEW x \in Source, ctVerified'[x] # ctVerified[x]
  PROVE  /\ ctVerified[x] = NotVerified
         /\ \E q \in Finalizer :
              /\ ctFinalizer[q].source = x /\ ctFinalizer'[q] = NoFinalizer
              /\ ~ctFinalizer[q].disturbed =>
                   /\ \A f \in ctAsked[x].fields : ctAnswer[x][f] # Unset
                   /\ \A f \in Fields(x[2]) :
                        ctVerified'[x].fields[f] =
                          IF ctCorrection[x][f] = <<>> THEN Unset
                          ELSE ctCorrection[x][f][Len(ctCorrection[x][f])].value
<1>1. PICK q \in Finalizer : finalizeContractVersion(q)
  BY DEF ctNext, ctVars, uploadContractDocument, uploadContractVersionDocument, persistContractExtraction,
         persistClarifyingQuestions, answerClarifyingQuestion, persistExtractionFieldCorrection,
         readFields, readQuestions
<1> DEFINE old == ctFinalizer[q]
           row == [by |-> old.by, fields |-> old.fields]
<1>2. /\ old.step = "insert"
      /\ ctVerified' = IF ctVerified[old.source] = NotVerified
                       THEN [ctVerified EXCEPT ![old.source] = row] ELSE ctVerified
      /\ ctFinalizer' = [ctFinalizer EXCEPT ![q] = NoFinalizer]
  BY <1>1 DEF finalizeContractVersion
<1>3. /\ old.source \in Source
      /\ ~old.disturbed => Current(old.source, old.fields, old.step)
  BY <1>2 DEF CtInv, ReadIsCurrent
<1>4. ctFinalizer'[q] = NoFinalizer
  BY <1>2 DEF CtInv, CtTypeOK
<1>5. row.fields = old.fields
  OBVIOUS
<1> HIDE DEF old, row
<1>6. x = old.source /\ ctVerified[x] = NotVerified /\ ctVerified'[x] = row
  BY <1>2, <1>3 DEF CtInv, CtTypeOK
<1>7. ASSUME ~old.disturbed
      PROVE  /\ \A f \in ctAsked[x].fields : ctAnswer[x][f] # Unset
             /\ \A f \in Fields(x[2]) : ctVerified'[x].fields[f] = effectiveValue(x, f)
  BY <1>2, <1>3, <1>5, <1>6, <1>7 DEF Current, unanswered
<1> QED
  BY <1>4, <1>6, <1>7 DEF old, effectiveValue, Last

(* A version is verified once and never rewritten, and, unless disturbed   *)
(* while it ran, the finalization freezes what an analyst would read with  *)
(* no question open (finalizeContractVersion).                             *)
THEOREM VersionsAreVerifiedAsReviewed == ctSpec => VerifiedAsReviewed
<1>1. CtInv /\ [ctNext]_ctVars =>
        [\A x \in Source : ctVerified'[x] # ctVerified[x] =>
         /\ ctVerified[x] = NotVerified
         /\ \E q \in Finalizer :
              /\ ctFinalizer[q].source = x /\ ctFinalizer'[q] = NoFinalizer
              /\ ~ctFinalizer[q].disturbed =>
                   /\ \A f \in ctAsked[x].fields : ctAnswer[x][f] # Unset
                   /\ \A f \in Fields(x[2]) :
                        ctVerified'[x].fields[f] =
                          IF ctCorrection[x][f] = <<>> THEN Unset
                          ELSE ctCorrection[x][f][Len(ctCorrection[x][f])].value]_ctVars
  BY VerifyingStep
<1> QED
  BY <1>1, ContractReviewInvariant, PTL DEF ctSpec, VerifiedAsReviewed

-----------------------------------------------------------------------------
(***************************************************************************)
(* The request gate, for any accounts, rows, roles and memberships. The    *)
(* route table is the code's own: every route's checks name what the       *)
(* handler may touch.                                                      *)
(***************************************************************************)

Gates == {"tenant", "analyst", "viewer", "admin", "member", "staff", "internal", "public"}

(* What a route must be for its gate and its checks to protect it: a page  *)
(* open to every member of the portal is a list, and a handler looks at a  *)
(* row's state only after it has found the row.                            *)
WellFormed(route) ==
    /\ route.gate \in Gates /\ route.how \in {"read", "write", "list", "create"}
    /\ route.gate = "member" => route.how = "list"
    /\ DOMAIN route.checks \subseteq Nat
    /\ \A j \in DOMAIN route.checks :
         route.checks[j].on = "state" =>
            \E k \in DOMAIN route.checks : k < j /\ route.checks[k].on = "row"

(* Every route the server registers is well formed.                        *)
LEMMA RoutesAreWellFormed == \A route \in Routes : WellFormed(route)
<1> DEFINE Fine(R) == \A route \in R : WellFormed(route)
<1> USE DEF WellFormed, Gates, Route, Bad, Who, NoSuchRow, Refused, Clash, isUuid, body, query,
            actor, client, found, parseLimitOffset, decodeCursor
<1>1. Fine({getFindings, getFindingsSummary, getGateFailures, patchFindingStatus, postFindingAction,
        patchFindingAssign})
  BY DEF getFindings, getFindingsSummary, getGateFailures, patchFindingStatus, postFindingAction,
         patchFindingAssign
<1>2. Fine({postFindingReverse, getProvenance, getRubricConflicts, getRubricSnapshotOf,
        getConflictsOf, getReplayManifestOf})
  BY DEF postFindingReverse, getProvenance, getRubricConflicts, getRubricSnapshotOf, getConflictsOf,
         getReplayManifestOf
<1>3. Fine({getScorecardOf, postAuditRun, postReplay, getInvoices, getDisputeQueues, getDispute})
  BY DEF getScorecardOf, postAuditRun, postReplay, getInvoices, getDisputeQueues, getDispute
<1>4. Fine({postDisputeApprove, postDisputeAccept, postDisputeReject, postDisputePartialAccept,
        postDisputeClose, getDisputeCommunications})
  BY DEF postDisputeApprove, postDisputeAccept, postDisputeReject, postDisputePartialAccept,
         postDisputeClose, getDisputeCommunications
<1>5. Fine({postDisputeCommunication, postDisputeClaim, getClaims, getClaim, getPendingPayments,
        postPaymentAuthorization})
  BY DEF postDisputeCommunication, postDisputeClaim, getClaims, getClaim, getPendingPayments,
         postPaymentAuthorization
<1>6. Fine({putPaymentPolicy, getRecoveryReport, getCrossAccountRecovery, postContract,
        postContractVersion, postFinalize})
  BY DEF putPaymentPolicy, getRecoveryReport, getCrossAccountRecovery, postContract,
         postContractVersion, postFinalize
<1>7. Fine({getClarifyingQuestions, putAnswer, postCorrection, getProposals, getProposalPreviews,
        postProposalAccept})
  BY DEF getClarifyingQuestions, putAnswer, postCorrection, getProposals, getProposalPreviews,
         postProposalAccept
<1>8. Fine({postAcceptanceRatify, postRuleRatify, postRuleActivate, getRules, getRule,
        postRuleDeprecate})
  BY DEF postAcceptanceRatify, postRuleRatify, postRuleActivate, getRules, getRule,
         postRuleDeprecate
<1>9. Fine({postRuleQuarantine, postDraft, postDraftConfirm, postDraftReject, postPortalDraft,
        postPortalDraftConfirm})
  BY DEF postRuleQuarantine, postDraft, postDraftConfirm, postDraftReject, postPortalDraft,
         postPortalDraftConfirm
<1>10. Fine({postPortalDraftReject, postPortalContract, getPortalInvoices, getPortalScorecard,
        getPortalFindings, getPortalEvidence})
  BY DEF postPortalDraftReject, postPortalContract, getPortalInvoices, getPortalScorecard,
         getPortalFindings, getPortalEvidence
<1>11. Fine({getPortalDispute, getPortalCommunications, getPortalClaim, getPortalClaimDocuments,
        getPortalAuditLog, getPortalMembers})
  BY DEF getPortalDispute, getPortalCommunications, getPortalClaim, getPortalClaimDocuments,
         getPortalAuditLog, getPortalMembers
<1>12. Fine({patchPortalMember, getAuditLog, staffPostTenant, staffGetTenants, staffGetTenant,
        staffPatchTenant})
  BY DEF patchPortalMember, getAuditLog, staffPostTenant, staffGetTenants, staffGetTenant,
         staffPatchTenant
<1>13. Fine({staffPostBranding, staffPatchBranding, staffGetMembersOf, staffPostMember,
        staffPatchMember, staffDeleteMember})
  BY DEF staffPostBranding, staffPatchBranding, staffGetMembersOf, staffPostMember,
         staffPatchMember, staffDeleteMember
<1>14. Fine({staffPostClient, staffGetClients, staffPatchClient, staffPostClientMember,
        staffPostVendor, staffGetVendors})
  BY DEF staffPostClient, staffGetClients, staffPatchClient, staffPostClientMember, staffPostVendor,
         staffGetVendors
<1>15. Fine({staffPatchVendor, staffPostVendorMember, staffGetContractVersions, staffGetRates,
        staffPostRate, staffPatchRate})
  BY DEF staffPatchVendor, staffPostVendorMember, staffGetContractVersions, staffGetRates,
         staffPostRate, staffPatchRate
<1>16. Fine({staffDeleteRate, staffGetMembers, patchInternalBranding, getBranding, patchProfile})
  BY DEF staffDeleteRate, staffGetMembers, patchInternalBranding, getBranding, patchProfile
<1> HIDE DEF WellFormed
<1> QED
  BY <1>1, <1>2, <1>3, <1>4, <1>5, <1>6, <1>7, <1>8, <1>9, <1>10, <1>11, <1>12, <1>13, <1>14, <1>15,
     <1>16 DEF Routes

(* A nonempty set of naturals has a least element, and Min is it.          *)
LEMMA MinOfNats ==
  ASSUME NEW S, S \subseteq Nat, S # {}
  PROVE  Min(S) \in S /\ \A n \in S : Min(S) <= n
<1>1. \E x \in S : \A y \in S : ~(<<y, x>> \in OpToRel(<, Nat))
  BY NatLessThanWellFounded, WFMin
<1>2. \A x, y \in S : <<y, x>> \in OpToRel(<, Nat) <=> y < x
  BY DEF OpToRel
<1>3. \E x \in S : \A y \in S : ~(y < x)
  BY <1>1, <1>2, Zenon
<1>4. \E x \in S : \A y \in S : x <= y
  BY <1>3
<1> QED
  BY <1>4 DEF Min

-----------------------------------------------------------------------------
(* A request as the server keeps it; X holds its flaw and its answer.      *)
RequestOf(X) ==
    [phase : {"idle", "admitted", "answered"}, route : Routes, account : GtAccount \cup {NoOne},
     row : GtRow \cup {NoOne}, flaw : X, code : X,
     context : [account : GtAccount \cup {NoOne}, internal : BOOLEAN],
     held : Memberships, open : SUBSET GtAccount, touched : SUBSET GtAccount]

(* What the gate saw when it let a request in.                             *)
Granted(route, context, held, open) ==
    \/ route.gate = "public"
    \/ context.internal /\ gtInternal
    \/ /\ ~context.internal
       /\ context.account = held.account /\ held.account \in open
       /\ route.gate \in {"tenant", "analyst"} => held.active
       /\ route.gate = "analyst" => held.role \in {"analyst", "lead"}
       /\ route.gate \in {"viewer", "admin", "member"} =>
            /\ held.role \in {"account_viewer", "account_admin"}
            /\ route.how \in {"write", "create"} => held.role = "account_admin"

GateInv ==
    /\ gtMember \in Memberships /\ gtOpen \in SUBSET GtAccount
    /\ \E X : gtReq \in RequestOf(X)
    /\ gtReq.phase = "admitted" \/ gtReq.touched # {} =>
         Granted(gtReq.route, gtReq.context, gtReq.held, gtReq.open)
    /\ gtReq.phase = "admitted" => gtReq.touched = {}
    /\ gtReq.touched \subseteq {gtReq.context.account} \/ gtReq.context.internal

(* Whoever a gate lets in holds, at that moment, what the gate is for.     *)
LEMMA GatesGrant ==
  ASSUME NEW route \in Routes, NEW signedIn \in BOOLEAN, NEW a \in GtAccount,
         preHandler(route, signedIn, a).code = 0
  PROVE  /\ preHandler(route, signedIn, a).context \in [account : GtAccount \cup {NoOne}, internal : BOOLEAN]
         /\ Granted(route, preHandler(route, signedIn, a).context, gtMember, gtOpen)
<1> USE DEF Granted, Admit, Refuse, Context
<1> DEFINE gate == preHandler(route, signedIn, a)
<1>0. WellFormed(route)
  BY RoutesAreWellFormed
<1>1. CASE route.gate = "tenant"
  <2>1. gate = tenantAuth(signedIn, a)
    BY <1>1 DEF preHandler
  <2> QED
    BY <2>1, <1>1 DEF tenantAuth, lookupActiveRole
<1>2. CASE route.gate = "analyst"
  <2>1. gate = analystOnly(signedIn, a)
    BY <1>2 DEF preHandler
  <2> QED
    BY <2>1, <1>2 DEF analystOnly, tenantAuth, lookupActiveRole
<1>3. CASE route.gate = "viewer"
  <2>1. gate = accountViewerAuth(signedIn, a, route.how)
    BY <1>3 DEF preHandler
  <2> QED
    BY <2>1, <1>3, <1>0, RequestGateAssumption DEF accountViewerAuth, lookupPortalRole, WellFormed
<1>4. CASE route.gate = "admin"
  <2>1. gate = accountAdminAuth(signedIn, a)
    BY <1>4 DEF preHandler
  <2> QED
    BY <2>1, <1>4, RequestGateAssumption DEF accountAdminAuth, lookupPortalRole
<1>5. CASE route.gate = "member"
  <2>1. gate = portalMemberAuth(signedIn, a) /\ route.how = "list"
    BY <1>5, <1>0 DEF preHandler, WellFormed
  <2> QED
    BY <2>1, <1>5, RequestGateAssumption
       DEF portalMemberAuth, accountAdminAuth, accountViewerAuth, lookupPortalRole
<1>6. CASE route.gate = "staff"
  <2>1. gate = tenantAdminAuth(signedIn)
    BY <1>6 DEF preHandler
  <2> QED
    BY <2>1 DEF tenantAdminAuth
<1>7. CASE route.gate = "internal"
  <2>1. gate = internalAnalystAuth(signedIn)
    BY <1>7 DEF preHandler
  <2> QED
    BY <2>1 DEF internalAnalystAuth
<1>8. CASE route.gate = "public"
  <2>1. gate = Admit(Context(NoOne, TRUE))
    BY <1>8 DEF preHandler
  <2> QED
    BY <2>1, <1>8
<1> QED
  BY <1>0, <1>1, <1>2, <1>3, <1>4, <1>5, <1>6, <1>7, <1>8 DEF WellFormed, Gates

(* No request is under way.                                                *)
LEMMA NoRequestTyped == NoRequest \in RequestOf({0, NoFlaw}) /\ NoRequest.touched = {} /\ NoRequest.phase = "idle"
<1>1. getFindings \in Routes
  BY DEF Routes
<1>2. NoMembership \in Memberships
  BY DEF Memberships
<1> QED
  BY <1>1, <1>2 DEF NoRequest, RequestOf, Context

(* No request is under way at first.                                      *)
LEMMA GateInitial == gtInit => GateInv
BY NoRequestTyped DEF gtInit, GateInv

(* A request comes in: the gate lets it wait, or it is over.               *)
LEMMA ReceiveKeeps ==
  ASSUME GateInv, NEW route \in Routes, NEW signedIn \in BOOLEAN, NEW a \in GtAccount,
         NEW row \in Named(route), NEW flaw \in Flaws(route), receive(route, signedIn, a, row, flaw)
  PROVE  GateInv'
<1> DEFINE gate == preHandler(route, signedIn, a)
<1>1. UNCHANGED <<gtInternal, gtMember, gtOpen>>
  BY DEF receive
<1>2. gtMember \in Memberships /\ gtOpen \in SUBSET GtAccount /\ row \in GtRow \cup {NoOne}
  BY DEF GateInv, Named
<1>3. CASE gate.code = 0
  <2>1. PICK ctx \in [account : GtAccount \cup {NoOne}, internal : BOOLEAN] :
          ctx = gate.context /\ Granted(route, ctx, gtMember, gtOpen)
    BY <1>3, GatesGrant
  <2>2. gtReq' = [NoRequest EXCEPT !.phase = "admitted", !.route = route, !.account = a,
                                   !.row = row, !.flaw = flaw, !.context = ctx,
                                   !.held = gtMember, !.open = gtOpen]
    BY <1>3, <2>1 DEF receive
  <2> HIDE DEF gate
  <2>3. /\ gtReq' \in RequestOf({0, NoFlaw, flaw}) /\ gtReq'.phase = "admitted" /\ gtReq'.touched = {}
        /\ gtReq'.route = route /\ gtReq'.context = ctx
        /\ gtReq'.held = gtMember /\ gtReq'.open = gtOpen
    BY <2>1, <2>2, <1>2, NoRequestTyped DEF RequestOf
  <2>4. Granted(gtReq.route, gtReq.context, gtReq.held, gtReq.open)'
    BY <2>1, <2>3, <1>1 DEF Granted
  <2>5. \E X : gtReq' \in RequestOf(X)
    BY <2>3
  <2> QED
    BY <1>1, <1>2, <2>3, <2>4, <2>5 DEF GateInv
<1>4. CASE gate.code # 0
  <2>1. gtReq' = [NoRequest EXCEPT !.phase = "answered", !.code = gate.code]
    BY <1>4 DEF receive
  <2> HIDE DEF gate
  <2>2. gtReq' \in RequestOf({0, NoFlaw, gate.code}) /\ gtReq'.phase = "answered" /\ gtReq'.touched = {}
    BY <2>1, NoRequestTyped DEF RequestOf
  <2> QED
    BY <1>1, <1>2, <2>2 DEF GateInv
<1> QED
  BY <1>3, <1>4

(* The handler answers: what it touches lies in its transaction's scope.   *)
LEMMA HandleKeeps ==
  ASSUME GateInv, handle
  PROVE  GateInv'
<1>1. gtReq.phase = "admitted" /\ UNCHANGED <<gtInternal, gtMember, gtOpen>>
  BY DEF handle
<1>2. PICK X : gtReq \in RequestOf(X)
  BY DEF GateInv
<1> DEFINE effect == touched(gtReq.route, gtReq.context, gtReq.row)
<1>3. PICK code, T : /\ gtReq' = [gtReq EXCEPT !.phase = "answered", !.code = code, !.touched = T]
                     /\ T = {} \/ T = effect
  <2> DEFINE given == answer(gtReq.route, gtReq.context, gtReq.row, gtReq.flaw)
             done == IF given = 200 THEN effect ELSE {}
  <2>1. gtReq' = [gtReq EXCEPT !.phase = "answered", !.code = given, !.touched = done]
    BY DEF handle
  <2>2. done = {} \/ done = effect
    OBVIOUS
  <2> HIDE DEF given, done, effect
  <2> QED
    BY <2>1, <2>2
<1>4. Granted(gtReq.route, gtReq.context, gtReq.held, gtReq.open)
  BY <1>1 DEF GateInv
<1>5. /\ gtReq.route \in Routes /\ gtReq.row \in GtRow \cup {NoOne}
      /\ gtReq.context \in [account : GtAccount \cup {NoOne}, internal : BOOLEAN]
  BY <1>2 DEF RequestOf
<1>6. gtReq.route.how \in {"read", "write", "list", "create"}
  BY <1>5, RoutesAreWellFormed DEF WellFormed
<1>7. effect \in SUBSET GtAccount /\ (gtReq.context.internal \/ effect \subseteq {gtReq.context.account})
  <2>1. \A r \in txScope(gtReq.context) :
          /\ RowAccount[r] \in GtAccount
          /\ gtReq.context.internal \/ RowAccount[r] = gtReq.context.account
    BY RequestGateAssumption DEF txScope
  <2>2. CASE gtReq.route.how \in {"read", "write"}
    BY <2>1, <2>2 DEF touched
  <2>3. CASE gtReq.route.how = "list"
    BY <2>1, <2>3 DEF touched
  <2>4. CASE gtReq.route.how = "create"
    BY <2>4, <1>5 DEF touched
  <2> QED
    BY <2>2, <2>3, <2>4, <1>6
<1>8. T \in SUBSET GtAccount /\ (gtReq.context.internal \/ T \subseteq {gtReq.context.account})
  BY <1>3, <1>7
<1> HIDE DEF effect
<1>9. /\ gtReq' \in RequestOf(X \cup {code}) /\ gtReq'.phase = "answered" /\ gtReq'.touched = T
      /\ gtReq'.route = gtReq.route /\ gtReq'.context = gtReq.context
      /\ gtReq'.held = gtReq.held /\ gtReq'.open = gtReq.open
  BY <1>2, <1>3, <1>8 DEF RequestOf
<1>10. Granted(gtReq.route, gtReq.context, gtReq.held, gtReq.open)'
  BY <1>1, <1>4, <1>9 DEF Granted
<1>11. \E Y : gtReq' \in RequestOf(Y)
  BY <1>9
<1> QED
  BY <1>1, <1>8, <1>9, <1>10, <1>11 DEF GateInv

(* No step breaks the invariant.                                           *)
LEMMA GateStep == GateInv /\ [gtNext]_gtVars => GateInv'
<1> SUFFICES ASSUME GateInv, [gtNext]_gtVars PROVE GateInv'
  OBVIOUS
<1>1. ASSUME NEW route \in Routes, NEW signedIn \in BOOLEAN, NEW a \in GtAccount,
             NEW row \in Named(route), NEW flaw \in Flaws(route), receive(route, signedIn, a, row, flaw)
      PROVE  GateInv'
  BY <1>1, ReceiveKeeps
<1>2. CASE handle
  BY <1>2, HandleKeeps
<1>3. CASE nextRequest
  BY <1>3, NoRequestTyped DEF nextRequest, GateInv
<1>4. CASE gtReq' = gtReq /\ gtInternal' = gtInternal /\ gtMember' \in Memberships /\ gtOpen' \in SUBSET GtAccount
  BY <1>4 DEF GateInv, Granted
<1>5. CASE changeMembership
  <2>1. NoMembership \in Memberships /\ gtOpen' \in SUBSET GtAccount
    BY <1>5 DEF changeMembership, Memberships, GateInv
  <2> QED
    BY <2>1, <1>4, <1>5 DEF changeMembership
<1>6. CASE changeAccount
  BY <1>4, <1>6 DEF changeAccount, GateInv
<1>7. CASE UNCHANGED gtVars
  BY <1>4, <1>7 DEF gtVars, GateInv
<1> QED
  BY <1>1, <1>2, <1>3, <1>5, <1>6, <1>7 DEF gtNext

(* Every reachable state satisfies the invariant.                          *)
THEOREM RequestGateInvariant == gtSpec => []GateInv
BY GateInitial, GateStep, PTL DEF gtSpec

(* Whatever happens to the membership while a request waits, the rows it   *)
(* reads or writes belong to the account the gate admitted it to, for any  *)
(* accounts, rows and roles (the preHandler hooks and the handlers'        *)
(* transactions).                                                          *)
THEOREM RequestsActWithinTheirGrant == gtSpec => []EffectsAreAuthorized
<1>1. GateInv => EffectsAreAuthorized
  BY DEF GateInv, EffectsAreAuthorized, Granted
<1> QED
  BY <1>1, RequestGateInvariant, PTL

-----------------------------------------------------------------------------
(* To a handler that checks the row before its state, a row out of scope   *)
(* is as good as none.                                                     *)
LEMMA OutOfScopeAnswersAlike ==
  ASSUME NEW route \in Routes, NEW context, NEW flaw, NEW row \in GtRow, row \notin txScope(context)
  PROVE  answer(route, context, row, flaw) = answer(route, context, NoOne, flaw)
<1> DEFINE c == route.checks
           F(r) == {i \in DOMAIN c : Fails(c[i], context, r, flaw)}
<1>0. WellFormed(route)
  BY RoutesAreWellFormed
<1>1. NoOne \notin txScope(context)
  BY RequestGateAssumption DEF txScope
<1>2. F(row) \subseteq Nat /\ F(NoOne) \subseteq Nat /\ DOMAIN c \subseteq Nat
  BY <1>0 DEF WellFormed
<1>3. ASSUME NEW i \in DOMAIN c PROVE (i \in F(NoOne) => i \in F(row)) /\ (c[i].on # "state" /\ i \in F(row) => i \in F(NoOne))
                                      /\ (c[i].on = "row" => i \in F(NoOne))
  BY <1>1 DEF Fails
<1>4. ASSUME NEW i \in F(row), i \notin F(NoOne) PROVE \E k \in F(NoOne) : k < i
  <2>1. c[i].on = "state" /\ i \in DOMAIN c
    BY <1>3, <1>4
  <2>2. PICK k \in DOMAIN c : k < i /\ c[k].on = "row"
    BY <2>1, <1>0 DEF WellFormed
  <2> QED
    BY <2>2, <1>3
<1>5. /\ answer(route, context, row, flaw) = IF F(row) = {} THEN 200 ELSE c[Min(F(row))].code
      /\ answer(route, context, NoOne, flaw) = IF F(NoOne) = {} THEN 200 ELSE c[Min(F(NoOne))].code
  BY DEF answer
<1>6. F(NoOne) \subseteq F(row) /\ (F(NoOne) = {} => F(row) = {})
  BY <1>3, <1>4
<1> HIDE DEF F
<1>7. ASSUME F(NoOne) # {} PROVE Min(F(row)) = Min(F(NoOne))
  <2>1. /\ Min(F(row)) \in F(row) /\ \A n \in F(row) : Min(F(row)) <= n
        /\ Min(F(NoOne)) \in F(NoOne) /\ \A n \in F(NoOne) : Min(F(NoOne)) <= n
    BY <1>2, <1>6, <1>7, MinOfNats
  <2> DEFINE m == Min(F(row))
             n == Min(F(NoOne))
  <2>2. m \in Nat /\ n \in Nat /\ m <= n
    BY <2>1, <1>2, <1>6
  <2>3. m \in F(NoOne)
    <3> SUFFICES ASSUME m \notin F(NoOne) PROVE FALSE
      OBVIOUS
    <3>1. PICK k \in F(NoOne) : k < m
      BY <2>1, <1>4
    <3> QED
      BY <3>1, <2>1, <2>2, <1>2, <1>6
  <2> QED
    BY <2>1, <2>2, <2>3
<1> QED
  BY <1>5, <1>6, <1>7

(* The answer to a request that names another account's row is the answer  *)
(* it would get if there were no such row (the order in which the handlers *)
(* of every registered route make their checks).                           *)
THEOREM ForeignRowsLookMissing == gtSpec => []ForeignLooksMissing
<1>1. GateInv => ForeignLooksMissing
  <2> SUFFICES ASSUME GateInv, gtReq.row # NoOne, ~gtReq.context.internal,
                      RowAccount[gtReq.row] # gtReq.context.account
               PROVE  answer(gtReq.route, gtReq.context, gtReq.row, gtReq.flaw)
                        = answer(gtReq.route, gtReq.context, NoOne, gtReq.flaw)
    BY DEF ForeignLooksMissing
  <2>1. gtReq.route \in Routes /\ gtReq.row \in GtRow
    BY DEF GateInv, RequestOf
  <2>2. gtReq.row \notin txScope(gtReq.context)
    BY DEF txScope
  <2> QED
    BY <2>1, <2>2, OutOfScopeAnswersAlike
<1> QED
  BY <1>1, RequestGateInvariant, PTL
=============================================================================
