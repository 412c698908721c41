-------------------------- MODULE InvoiceIntakeProofs --------------------------
(***************************************************************************)
(* What invoice intake keeps true for any number of concurrent requests,   *)
(* drafts and invoice numbers.                                             *)
(***************************************************************************)
EXTENDS InvoiceIntake, TLAPS

RunType == [set : TransactionSets \cup {"none"}, number : Number \cup {None},
            duplicate : {"yes", "no", "unknown"}, draft : Draft \cup {None},
            carrier : BOOLEAN]
DraftType == [status : DraftStatus, carrier : BOOLEAN, run : RunId \cup {None}]
TxType == [step : {"idle", "key", "detect", "commit"},
           op : {"confirm", "reject", "ingest", "none"},
           draft : Draft \cup {None}, number : Number \cup {None},
           carrier : BOOLEAN, duplicate : {"yes", "no", "unknown"}]

(* Only an open transaction names a draft, and only the two operations on  *)
(* drafts do.                                                              *)
TxShape ==
    \A t \in Tx :
        /\ tx[t].step = "idle" <=> tx[t].op = "none"
        /\ tx[t].op \in {"confirm", "reject"} <=> tx[t].draft # None
        /\ tx[t].op = "reject" => tx[t].step = "commit" /\ tx[t].number = None

(* Past pg_advisory_xact_lock, a transaction with a number holds its key.  *)
HoldsKey ==
    \A t \in Tx :
        tx[t].step \in {"detect", "commit"} /\ tx[t].number # None => keyLock[keyOf(t)] = t

(* The answer "no duplicate" is still true when it is acted on.            *)
StillFirst ==
    \A t \in Tx :
        tx[t].duplicate = "no" =>
            /\ tx[t].step = "commit" /\ tx[t].number # None
            /\ \A r \in Committed : <<run[r].set, run[r].number>> # keyOf(t)

(* The audit run of a draft is the one on the ledger.                      *)
RunOnLedger == \A r \in Committed : run[r].draft # None => ledger[run[r].draft] = r

(* A draft that extraction took to have a carrier has one, and so has every *)
(* confirmation under way.                                                 *)
CarrierKnown ==
    /\ \A d \in Draft : draft[d].status = "extracted" => draft[d].carrier
    /\ \A t \in Tx : tx[t].op = "confirm" => tx[t].carrier

(* A draft nobody has finalised has no audit run; while nothing overlaps,  *)
(* the one transaction on a draft still finds it that way.                 *)
ReadsAreCurrent ==
    /\ \A d \in Draft : draft[d].status \in Open \cup {"absent"} => draft[d].run = None
    /\ \A d \in Draft \ overlapped, t \in Tx :
         tx[t].draft = d =>
            /\ draft[d].run = None
            /\ \A u \in Tx : tx[u].draft = d => u = t

IntakeInv ==
    /\ TypeOK
    /\ TxShape
    /\ HoldsKey
    /\ StillFirst
    /\ OneFirstBilling
    /\ RunOnLedger
    /\ CarrierKnown
    /\ DraftRunHasCarrier
    /\ ReadsAreCurrent
    /\ RejectedWithoutRunSerially

-----------------------------------------------------------------------------
(* An empty database satisfies the invariant.                              *)
LEMMA InitIntakeInv ==
  ASSUME Init
  PROVE  IntakeInv
<1>1. /\ \A d \in Draft : draft[d] = NoDraft
      /\ \A r \in RunId : run[r] = NoRun
      /\ \A t \in Tx : tx[t] = Idle
      /\ Committed = {}
  BY DEF Init, Committed, NoRun
<1>2. TypeOK
  BY DEF Init, TypeOK, NoDraft, NoRun, Idle, DraftStatus, Open
<1>3. TxShape /\ HoldsKey /\ StillFirst
  BY <1>1 DEF TxShape, HoldsKey, StillFirst, Idle
<1>4. OneFirstBilling /\ RunOnLedger /\ DraftRunHasCarrier
  BY <1>1 DEF OneFirstBilling, RunOnLedger, DraftRunHasCarrier
<1>5. CarrierKnown /\ ReadsAreCurrent /\ RejectedWithoutRunSerially
  BY <1>1, InvoiceIntakeAssumption DEF CarrierKnown, ReadsAreCurrent, RejectedWithoutRunSerially,
     NoDraft, Idle
<1> QED
  BY <1>2, <1>3, <1>4, <1>5 DEF IntakeInv

(* Extraction leaves a draft without a carrier only for review.            *)
LEMMA MatchedOrReviewed ==
  ASSUME NEW exact \in 0..2, NEW fuzzy \in 0..2
  PROVE  /\ matchCarrierName(exact, fuzzy).resolved \in BOOLEAN
         /\ matchCarrierName(exact, fuzzy).candidates = 1
              => matchCarrierName(exact, fuzzy).resolved
  BY DEF matchCarrierName

(* A new draft is open and has no audit run.                               *)
LEMMA createInvoiceDraftInv ==
  ASSUME IntakeInv, NEW d \in Draft, createInvoiceDraft(d)
  PROVE  IntakeInv'
<1>1. PICK c \in BOOLEAN, s \in Open :
        /\ draft' = [draft EXCEPT ![d] = [status |-> s, carrier |-> c, run |-> None]]
        /\ s = "extracted" => c
  BY MatchedOrReviewed DEF createInvoiceDraft, Open
<1>2. UNCHANGED <<run, ledger, keyLock, tx, overlapped>> /\ draft[d].status = "absent"
  BY DEF createInvoiceDraft
<1>3. draft \in [Draft -> DraftType]
  BY DEF IntakeInv, TypeOK, DraftType
<1>4. draft' \in [Draft -> DraftType]
  BY <1>1, <1>3 DEF DraftType, DraftStatus, Open
<1>5. TypeOK'
  BY <1>2, <1>4 DEF IntakeInv, TypeOK, DraftType
<1>6. TxShape' /\ HoldsKey' /\ StillFirst' /\ OneFirstBilling' /\ RunOnLedger' /\ DraftRunHasCarrier'
  BY <1>2 DEF IntakeInv, TxShape, HoldsKey, StillFirst, OneFirstBilling, RunOnLedger,
     DraftRunHasCarrier, Committed, keyOf, setOf
<1>7. CarrierKnown'
  BY <1>1, <1>2, <1>3 DEF IntakeInv, CarrierKnown
<1>8. ReadsAreCurrent'
  BY <1>1, <1>2, <1>3 DEF IntakeInv, ReadsAreCurrent, Open
<1>9. RejectedWithoutRunSerially'
  BY <1>1, <1>2, <1>3 DEF IntakeInv, RejectedWithoutRunSerially, Open
<1> QED
  BY <1>5, <1>6, <1>7, <1>8, <1>9 DEF IntakeInv

-----------------------------------------------------------------------------
(* A request that loads an open draft, or none, and has asked nothing yet, *)
(* preserves the invariant: a second one on the same draft is recorded.    *)
LEMMA BeginInv ==
  ASSUME IntakeInv, NEW t \in Tx, NEW d \in Draft \cup {None}, NEW q \in TxType,
         Begin(t, d, q),
         q.draft = d, q.step \in {"key", "commit"}, q.op # "none", q.duplicate = "unknown",
         q.op \in {"confirm", "reject"} <=> d # None,
         q.step = "commit" => q.op = "reject",
         q.op = "reject" => q.step = "commit" /\ q.number = None,
         q.op = "confirm" => q.carrier,
         d # None => draft[d].status \in Open
  PROVE  IntakeInv'
<1>1. tx[t].step = "idle" /\ tx' = [tx EXCEPT ![t] = q]
      /\ UNCHANGED <<draft, run, ledger, keyLock>>
  BY DEF Begin
<1>2. tx \in [Tx -> TxType] /\ overlapped \subseteq Draft
  BY DEF IntakeInv, TypeOK, TxType
<1>3. tx' \in [Tx -> TxType] /\ tx'[t] = q /\ \A u \in Tx \ {t} : tx'[u] = tx[u]
  BY <1>1, <1>2
<1>4. overlapped' \subseteq Draft /\ overlapped \subseteq overlapped'
      /\ (d # None /\ (\E u \in Tx : tx[u].draft = d) => d \in overlapped')
  BY <1>2 DEF Begin
<1>5. tx[t].draft = None
  BY <1>1 DEF IntakeInv, TxShape
<1>6. TypeOK'
  BY <1>1, <1>3, <1>4 DEF IntakeInv, TypeOK, TxType
<1>7. TxShape'
  BY <1>3 DEF IntakeInv, TxShape
<1>8. Committed' = Committed /\ \A u \in Tx \ {t} : keyOf(u)' = keyOf(u)
  BY <1>1, <1>3 DEF Committed, keyOf, setOf
<1>9. HoldsKey' /\ StillFirst'
  BY <1>1, <1>3, <1>8 DEF IntakeInv, HoldsKey, StillFirst
<1>10. OneFirstBilling' /\ RunOnLedger' /\ DraftRunHasCarrier'
  BY <1>1, <1>8 DEF IntakeInv, OneFirstBilling, RunOnLedger, DraftRunHasCarrier
<1>11. CarrierKnown'
  BY <1>1, <1>3 DEF IntakeInv, CarrierKnown
<1>12. ReadsAreCurrent'
  <2>1. \A e \in Draft : draft'[e].status \in Open \cup {"absent"} => draft'[e].run = None
    BY <1>1 DEF IntakeInv, ReadsAreCurrent
  <2>2. ASSUME NEW e \in Draft \ overlapped', NEW u \in Tx, tx'[u].draft = e
        PROVE  draft'[e].run = None /\ \A v \in Tx : tx'[v].draft = e => v = u
    <3>1. e # None
      BY InvoiceIntakeAssumption
    <3>2. CASE e = d
      <4>1. \A v \in Tx : tx[v].draft # d
        BY <1>4, <3>1, <3>2, <2>2
      <4>2. draft[d].run = None
        BY <3>1, <3>2 DEF IntakeInv, ReadsAreCurrent
      <4> QED
        BY <1>1, <1>3, <2>2, <3>2, <4>1, <4>2
    <3>3. CASE e # d
      <4>1. e \in Draft \ overlapped /\ u # t /\ tx[u].draft = e
        BY <1>3, <1>4, <2>2, <3>3
      <4>2. draft[e].run = None /\ \A v \in Tx : tx[v].draft = e => v = u
        BY <4>1 DEF IntakeInv, ReadsAreCurrent
      <4> QED
        BY <1>1, <1>3, <3>3, <4>2
    <3> QED
      BY <3>2, <3>3
  <2> QED
    BY <2>1, <2>2 DEF ReadsAreCurrent
<1>13. RejectedWithoutRunSerially'
  BY <1>1, <1>4 DEF IntakeInv, RejectedWithoutRunSerially
<1> QED
  BY <1>6, <1>7, <1>9, <1>10, <1>11, <1>12, <1>13 DEF IntakeInv

(* The three requests are such requests.                                   *)
LEMMA ArriveInv ==
  ASSUME IntakeInv, NEW t \in Tx, Arrive(t)
  PROVE  IntakeInv'
<1>0. None \notin Draft
  BY InvoiceIntakeAssumption
<1>1. CASE loadForConfirm(t)
  <2>1. PICK d \in Draft, named \in BOOLEAN, n \in Number \cup {None} :
          /\ draft[d].status \in Open
          /\ draft[d].status = "needs_carrier_review" => named
          /\ Begin(t, d, [step |-> "key", op |-> "confirm", draft |-> d, number |-> n,
                          carrier |-> named \/ draft[d].carrier, duplicate |-> "unknown"])
    BY <1>1 DEF loadForConfirm
  <2>2. named \/ draft[d].carrier
    BY <2>1 DEF IntakeInv, CarrierKnown, Open
  <2> DEFINE q == [step |-> "key", op |-> "confirm", draft |-> d, number |-> n,
                   carrier |-> named \/ draft[d].carrier, duplicate |-> "unknown"]
  <2>3. q \in TxType
    BY <2>2 DEF TxType
  <2>4. /\ q.draft = d /\ q.step = "key" /\ q.op = "confirm" /\ q.duplicate = "unknown"
        /\ q.carrier
    BY <2>2
  <2> HIDE DEF q
  <2>5. Begin(t, d, q)
    BY <2>1 DEF q
  <2> QED
    BY <1>0, <2>1, <2>3, <2>4, <2>5, BeginInv
<1>2. CASE loadForReject(t)
  <2>1. PICK d \in Draft :
          /\ draft[d].status \in Open
          /\ Begin(t, d, [Idle EXCEPT !.step = "commit", !.op = "reject", !.draft = d])
    BY <1>2 DEF loadForReject
  <2> DEFINE q == [Idle EXCEPT !.step = "commit", !.op = "reject", !.draft = d]
  <2>2. /\ q \in TxType /\ q.draft = d /\ q.step = "commit" /\ q.op = "reject"
        /\ q.duplicate = "unknown" /\ q.number = None
    BY DEF TxType, Idle
  <2> HIDE DEF q
  <2>3. Begin(t, d, q)
    BY <2>1 DEF q
  <2> QED
    BY <1>0, <2>1, <2>2, <2>3, BeginInv
<1>3. CASE receiveEdi(t)
  <2>1. PICK n \in Number \cup {None} :
          Begin(t, None, [Idle EXCEPT !.step = "key", !.op = "ingest", !.number = n])
    BY <1>3 DEF receiveEdi
  <2> DEFINE q == [Idle EXCEPT !.step = "key", !.op = "ingest", !.number = n]
  <2>2. /\ q \in TxType /\ q.draft = None /\ q.step = "key" /\ q.op = "ingest"
        /\ q.duplicate = "unknown"
    BY DEF TxType, Idle
  <2> HIDE DEF q
  <2>3. Begin(t, None, q)
    BY <2>1 DEF q
  <2> QED
    BY <2>2, <2>3, BeginInv
<1> QED
  BY <1>1, <1>2, <1>3 DEF Arrive

(* Taking the key: nobody else holds it.                                   *)
LEMMA lockKeyInv ==
  ASSUME IntakeInv, NEW t \in Tx, lockKey(t)
  PROVE  IntakeInv'
<1>1. /\ tx[t].step = "key" /\ tx' = [tx EXCEPT ![t].step = "detect"]
      /\ UNCHANGED <<draft, run, ledger, overlapped>>
  BY DEF lockKey
<1>2. tx \in [Tx -> TxType] /\ keyLock \in [Keys -> Tx \cup {None}]
  BY DEF IntakeInv, TypeOK, TxType
<1>3. /\ tx' \in [Tx -> TxType] /\ \A u \in Tx \ {t} : tx'[u] = tx[u]
      /\ tx'[t].step = "detect" /\ tx'[t].op = tx[t].op /\ tx'[t].draft = tx[t].draft
      /\ tx'[t].number = tx[t].number /\ tx'[t].carrier = tx[t].carrier
      /\ tx'[t].duplicate = tx[t].duplicate
  BY <1>1, <1>2 DEF TxType
<1>4. Committed' = Committed /\ \A u \in Tx : keyOf(u)' = keyOf(u)
  BY <1>1, <1>3 DEF Committed, keyOf, setOf
<1>5. \A u \in Tx : tx[u].number # None => keyOf(u) \in Keys
  BY <1>2 DEF keyOf, setOf, Keys, TxType, TransactionSets
<1>6. /\ keyLock' \in [Keys -> Tx \cup {None}]
      /\ tx[t].number # None => keyLock[keyOf(t)] = None /\ keyLock'[keyOf(t)] = t
      /\ \A k \in Keys : keyLock[k] # None => keyLock'[k] = keyLock[k]
  BY <1>2, <1>5 DEF lockKey, KeyFree
<1>7. TypeOK'
  BY <1>1, <1>3, <1>6 DEF IntakeInv, TypeOK, TxType
<1>8. TxShape'
  BY <1>1, <1>3 DEF IntakeInv, TxShape
<1>9. HoldsKey'
  BY <1>3, <1>4, <1>5, <1>6, InvoiceIntakeAssumption DEF IntakeInv, HoldsKey
<1>10. StillFirst'
  BY <1>1, <1>3, <1>4 DEF IntakeInv, StillFirst
<1>11. OneFirstBilling' /\ RunOnLedger' /\ DraftRunHasCarrier'
  BY <1>1, <1>4 DEF IntakeInv, OneFirstBilling, RunOnLedger, DraftRunHasCarrier
<1>12. CarrierKnown' /\ RejectedWithoutRunSerially'
  BY <1>1, <1>3 DEF IntakeInv, CarrierKnown, RejectedWithoutRunSerially
<1>13. ReadsAreCurrent'
  <2>1. \A u \in Tx : tx'[u].draft = tx[u].draft
    BY <1>3
  <2> QED
    BY <1>1, <2>1 DEF IntakeInv, ReadsAreCurrent
<1> QED
  BY <1>7, <1>8, <1>9, <1>10, <1>11, <1>12, <1>13 DEF IntakeInv

(* The duplicate fact is read under the key's lock.                        *)
LEMMA detectDuplicateInvoiceInv ==
  ASSUME IntakeInv, NEW t \in Tx, detectDuplicateInvoice(t)
  PROVE  IntakeInv'
<1>1. tx[t].step = "detect" /\ UNCHANGED <<draft, run, ledger, keyLock, overlapped>>
  BY DEF detectDuplicateInvoice
<1>2. PICK a \in {"yes", "no", "unknown"} :
        /\ tx' = [tx EXCEPT ![t].step = "commit", ![t].duplicate = a]
        /\ a = "no" => /\ tx[t].number # None
                       /\ \A r \in Committed : <<run[r].set, run[r].number>> # keyOf(t)
  BY DEF detectDuplicateInvoice
<1>3. tx \in [Tx -> TxType]
  BY DEF IntakeInv, TypeOK, TxType
<1>4. /\ tx' \in [Tx -> TxType] /\ \A u \in Tx \ {t} : tx'[u] = tx[u]
      /\ tx'[t].step = "commit" /\ tx'[t].op = tx[t].op /\ tx'[t].draft = tx[t].draft
      /\ tx'[t].number = tx[t].number /\ tx'[t].carrier = tx[t].carrier
      /\ tx'[t].duplicate = a
  BY <1>2, <1>3 DEF TxType
<1>5. Committed' = Committed /\ \A u \in Tx : keyOf(u)' = keyOf(u)
  BY <1>1, <1>4 DEF Committed, keyOf, setOf
<1>6. TypeOK'
  BY <1>1, <1>4 DEF IntakeInv, TypeOK, TxType
<1>7. TxShape'
  BY <1>1, <1>4 DEF IntakeInv, TxShape
<1>8. HoldsKey'
  BY <1>1, <1>4, <1>5 DEF IntakeInv, HoldsKey
<1>9. StillFirst'
  BY <1>1, <1>2, <1>4, <1>5 DEF IntakeInv, StillFirst
<1>10. OneFirstBilling' /\ RunOnLedger' /\ DraftRunHasCarrier'
  BY <1>1, <1>5 DEF IntakeInv, OneFirstBilling, RunOnLedger, DraftRunHasCarrier
<1>11. CarrierKnown' /\ RejectedWithoutRunSerially'
  BY <1>1, <1>4 DEF IntakeInv, CarrierKnown, RejectedWithoutRunSerially
<1>12. ReadsAreCurrent'
  <2>1. \A u \in Tx : tx'[u].draft = tx[u].draft
    BY <1>4
  <2> QED
    BY <1>1, <2>1 DEF IntakeInv, ReadsAreCurrent
<1> QED
  BY <1>6, <1>7, <1>8, <1>9, <1>10, <1>11, <1>12 DEF IntakeInv

-----------------------------------------------------------------------------
(* A transaction that ends gives back its own locks and no other's.        *)
LEMMA EndTxFacts ==
  ASSUME IntakeInv, NEW t \in Tx, EndTx(t)
  PROVE  /\ tx' \in [Tx -> TxType] /\ tx'[t] = Idle /\ \A u \in Tx \ {t} : tx'[u] = tx[u]
         /\ Idle \in TxType /\ Idle.step = "idle" /\ Idle.op = "none" /\ Idle.draft = None
         /\ Idle.number = None /\ Idle.duplicate = "unknown"
         /\ keyLock' \in [Keys -> Tx \cup {None}]
         /\ \A u \in Tx \ {t} : keyOf(u)' = keyOf(u)
         /\ TxShape' /\ HoldsKey' /\ \A u \in Tx : tx'[u].op = "confirm" => tx'[u].carrier
<1>1. tx \in [Tx -> TxType] /\ keyLock \in [Keys -> Tx \cup {None}]
  BY DEF IntakeInv, TypeOK, TxType
<1>2. /\ Idle \in TxType /\ Idle.step = "idle" /\ Idle.op = "none" /\ Idle.draft = None
      /\ Idle.number = None /\ Idle.duplicate = "unknown"
  BY DEF Idle, TxType
<1>3. tx' \in [Tx -> TxType] /\ tx'[t] = Idle /\ \A u \in Tx \ {t} : tx'[u] = tx[u]
  BY <1>1, <1>2 DEF EndTx
<1>4. keyLock' \in [Keys -> Tx \cup {None}]
      /\ \A k \in Keys, u \in Tx \ {t} : keyLock[k] = u => keyLock'[k] = u
  BY <1>1 DEF EndTx
<1>5. \A u \in Tx \ {t} : keyOf(u)' = keyOf(u)
  BY <1>3 DEF keyOf, setOf
<1>6. \A u \in Tx : tx[u].number # None => keyOf(u) \in Keys
  BY <1>1 DEF keyOf, setOf, Keys, TxType, TransactionSets
<1>7. TxShape'
  BY <1>2, <1>3 DEF IntakeInv, TxShape
<1>8. HoldsKey'
  BY <1>2, <1>3, <1>4, <1>5, <1>6 DEF IntakeInv, HoldsKey
<1>9. \A u \in Tx : tx'[u].op = "confirm" => tx'[u].carrier
  BY <1>2, <1>3 DEF IntakeInv, CarrierKnown
<1> QED
  BY <1>2, <1>3, <1>4, <1>5, <1>7, <1>8, <1>9

(* A rollback leaves the tables as they were.                              *)
LEMMA RollbackInv ==
  ASSUME IntakeInv, NEW t \in Tx, Rollback(t)
  PROVE  IntakeInv'
<1>1. EndTx(t) /\ UNCHANGED <<draft, run, ledger, overlapped>>
  BY DEF Rollback
<1>2. Committed' = Committed
  BY <1>1 DEF Committed
<1>3. TypeOK'
  BY <1>1, EndTxFacts DEF IntakeInv, TypeOK, TxType
<1>4. StillFirst'
  BY <1>1, <1>2, EndTxFacts DEF IntakeInv, StillFirst
<1>5. OneFirstBilling' /\ RunOnLedger' /\ DraftRunHasCarrier'
  BY <1>1, <1>2 DEF IntakeInv, OneFirstBilling, RunOnLedger, DraftRunHasCarrier
<1>6. CarrierKnown' /\ RejectedWithoutRunSerially'
  BY <1>1, EndTxFacts DEF IntakeInv, CarrierKnown, RejectedWithoutRunSerially
<1>7. ReadsAreCurrent'
  <2>1. \A u \in Tx : tx'[u].draft # None => tx'[u].draft = tx[u].draft
    BY <1>1, EndTxFacts
  <2> QED
    BY <1>1, <2>1, InvoiceIntakeAssumption DEF IntakeInv, ReadsAreCurrent
<1> QED
  BY <1>1, <1>3, <1>4, <1>5, <1>6, <1>7, EndTxFacts DEF IntakeInv

(* A rejection of a draft nobody else is finalising finds it without run.  *)
LEMMA commitRejectInv ==
  ASSUME IntakeInv, NEW t \in Tx, commitReject(t)
  PROVE  IntakeInv'
<1> DEFINE d == tx[t].draft
<1>1. /\ EndTx(t) /\ UNCHANGED <<run, ledger, overlapped>>
      /\ draft' = [draft EXCEPT ![d].status = "rejected"] /\ tx[t].op = "reject"
  BY DEF commitReject
<1>2. draft \in [Draft -> DraftType] /\ tx \in [Tx -> TxType]
  BY DEF IntakeInv, TypeOK, TxType, DraftType
<1>3. d \in Draft
  BY <1>1, <1>2 DEF IntakeInv, TxShape, TxType
<1>4. /\ draft' \in [Draft -> DraftType] /\ \A e \in Draft \ {d} : draft'[e] = draft[e]
      /\ draft'[d].status = "rejected" /\ draft'[d].run = draft[d].run
  BY <1>1, <1>2, <1>3 DEF DraftType, DraftStatus
<1>5. Committed' = Committed
  BY <1>1 DEF Committed
<1>6. TypeOK'
  BY <1>1, <1>4, EndTxFacts DEF IntakeInv, TypeOK, TxType, DraftType
<1>7. StillFirst'
  BY <1>1, <1>5, EndTxFacts DEF IntakeInv, StillFirst
<1>8. OneFirstBilling' /\ RunOnLedger' /\ DraftRunHasCarrier'
  BY <1>1, <1>5 DEF IntakeInv, OneFirstBilling, RunOnLedger, DraftRunHasCarrier
<1>9. CarrierKnown'
  BY <1>1, <1>4, EndTxFacts DEF IntakeInv, CarrierKnown
<1>10. RejectedWithoutRunSerially'
  <2>1. d \notin overlapped => draft[d].run = None
    BY <1>3 DEF IntakeInv, ReadsAreCurrent
  <2> QED
    BY <1>1, <1>4, <2>1 DEF IntakeInv, RejectedWithoutRunSerially
<1>11. ReadsAreCurrent'
  <2>1. \A u \in Tx : tx'[u].draft # None => tx'[u].draft = tx[u].draft
    BY <1>1, EndTxFacts
  <2>2. \A e \in Draft : draft'[e].run = draft[e].run
    BY <1>4
  <2>3. \A e \in Draft : draft'[e].status \in Open \cup {"absent"} => draft'[e].run = None
    BY <1>4 DEF IntakeInv, ReadsAreCurrent, Open
  <2> QED
    BY <1>1, <2>1, <2>2, <2>3, InvoiceIntakeAssumption DEF IntakeInv, ReadsAreCurrent
<1> QED
  BY <1>1, <1>6, <1>7, <1>8, <1>9, <1>10, <1>11, EndTxFacts DEF IntakeInv

-----------------------------------------------------------------------------
(* The run a transaction inserts, and what it does to the business keys:   *)
(* the key it used was its own, so no other "no duplicate" is contradicted. *)
LEMMA NewRunFacts ==
  ASSUME IntakeInv, NEW t \in Tx, EndTx(t), NEW r \in RunId \ Committed,
         tx[t].step = "commit", tx[t].op \in {"ingest", "confirm"},
         run' = [run EXCEPT ![r] = newRun(t)]
  PROVE  /\ run' \in [RunId -> RunType]
         /\ Committed' = Committed \cup {r}
         /\ \A s \in Committed : run'[s] = run[s]
         /\ run'[r] = newRun(t) /\ newRun(t).draft = tx[t].draft
         /\ newRun(t).carrier = tx[t].carrier
         /\ StillFirst' /\ OneFirstBilling'
<1>1. tx \in [Tx -> TxType] /\ run \in [RunId -> RunType]
  BY DEF IntakeInv, TypeOK, TxType, RunType
<1>2. /\ newRun(t) \in RunType /\ newRun(t).set = setOf(t) /\ setOf(t) # "none"
      /\ newRun(t).number = tx[t].number /\ newRun(t).duplicate = tx[t].duplicate
      /\ newRun(t).draft = tx[t].draft /\ newRun(t).carrier = tx[t].carrier
  BY <1>1 DEF newRun, setOf, RunType, TxType, TransactionSets
<1>3. run' \in [RunId -> RunType] /\ run'[r] = newRun(t) /\ \A s \in RunId \ {r} : run'[s] = run[s]
  BY <1>1, <1>2
<1>4. Committed' = Committed \cup {r} /\ \A s \in Committed : run'[s] = run[s]
  BY <1>2, <1>3 DEF Committed
<1>5. <<run'[r].set, run'[r].number>> = keyOf(t)
  BY <1>2, <1>3 DEF keyOf
<1>6. StillFirst'
  <2>1. SUFFICES ASSUME NEW u \in Tx, tx'[u].duplicate = "no"
                 PROVE  /\ tx'[u].step = "commit" /\ tx'[u].number # None
                        /\ \A s \in Committed' : <<run'[s].set, run'[s].number>> # keyOf(u)'
    BY DEF StillFirst
  <2>2. u # t /\ tx'[u] = tx[u] /\ keyOf(u)' = keyOf(u)
    BY <2>1, EndTxFacts
  <2>3. /\ tx[u].step = "commit" /\ tx[u].number # None
        /\ \A s \in Committed : <<run[s].set, run[s].number>> # keyOf(u)
    BY <2>1, <2>2 DEF IntakeInv, StillFirst
  <2>4. keyOf(u) # keyOf(t)
    <3>1. SUFFICES ASSUME keyOf(u) = keyOf(t) PROVE FALSE
      OBVIOUS
    <3>2. tx[t].number # None
      BY <2>3, <3>1 DEF keyOf
    <3>3. keyLock[keyOf(t)] = t /\ keyLock[keyOf(u)] = u
      BY <2>3, <3>2 DEF IntakeInv, HoldsKey
    <3> QED
      BY <2>2, <3>1, <3>3
  <2> QED
    BY <1>4, <1>5, <2>2, <2>3, <2>4
<1>7. OneFirstBilling'
  <2>1. SUFFICES ASSUME NEW a \in Committed', NEW b \in Committed',
                        run'[a].number # None,
                        <<run'[a].set, run'[a].number>> = <<run'[b].set, run'[b].number>>,
                        run'[a].duplicate = "no", run'[b].duplicate = "no"
                 PROVE  a = b
    BY DEF OneFirstBilling
  <2>2. CASE a \in Committed /\ b \in Committed
    BY <1>4, <2>1, <2>2 DEF IntakeInv, OneFirstBilling
  <2>3. ASSUME NEW s \in Committed, run'[r].duplicate = "no",
               <<run'[s].set, run'[s].number>> = <<run'[r].set, run'[r].number>>
        PROVE  FALSE
    <3>1. tx[t].duplicate = "no"
      BY <1>2, <1>3, <2>3
    <3>2. <<run[s].set, run[s].number>> # keyOf(t)
      BY <3>1 DEF IntakeInv, StillFirst
    <3> QED
      BY <1>4, <1>5, <2>3, <3>2
  <2> QED
    BY <1>4, <2>1, <2>2, <2>3
<1> QED
  BY <1>2, <1>3, <1>4, <1>6, <1>7

(* An EDI invoice is on record.                                            *)
LEMMA commitIngestInv ==
  ASSUME IntakeInv, NEW t \in Tx, commitIngest(t)
  PROVE  IntakeInv'
<1>1. /\ EndTx(t) /\ UNCHANGED <<draft, ledger, overlapped>>
      /\ tx[t].step = "commit" /\ tx[t].op = "ingest"
  BY DEF commitIngest
<1>2. PICK r \in RunId \ Committed : run' = [run EXCEPT ![r] = newRun(t)]
  BY DEF commitIngest
<1>3. /\ run' \in [RunId -> RunType] /\ Committed' = Committed \cup {r}
      /\ \A s \in Committed : run'[s] = run[s]
      /\ run'[r].draft = tx[t].draft /\ StillFirst' /\ OneFirstBilling'
  BY <1>1, <1>2, NewRunFacts
<1>4. tx[t].draft = None
  BY <1>1 DEF IntakeInv, TxShape
<1>5. TypeOK'
  BY <1>1, <1>3, EndTxFacts DEF IntakeInv, TypeOK, TxType, RunType
<1>6. RunOnLedger' /\ DraftRunHasCarrier'
  BY <1>1, <1>3, <1>4 DEF IntakeInv, RunOnLedger, DraftRunHasCarrier
<1>7. CarrierKnown' /\ RejectedWithoutRunSerially'
  BY <1>1, EndTxFacts DEF IntakeInv, CarrierKnown, RejectedWithoutRunSerially
<1>8. ReadsAreCurrent'
  <2>1. \A u \in Tx : tx'[u].draft # None => tx'[u].draft = tx[u].draft
    BY <1>1, EndTxFacts
  <2> QED
    BY <1>1, <2>1, InvoiceIntakeAssumption DEF IntakeInv, ReadsAreCurrent
<1> QED
  BY <1>1, <1>3, <1>5, <1>6, <1>7, <1>8, EndTxFacts DEF IntakeInv

(* A draft is confirmed: no earlier run can be its, for the ledger would   *)
(* have an event.                                                          *)
LEMMA commitConfirmInv ==
  ASSUME IntakeInv, NEW t \in Tx, commitConfirm(t)
  PROVE  IntakeInv'
<1> DEFINE d == tx[t].draft
<1>1. /\ EndTx(t) /\ UNCHANGED overlapped /\ tx[t].step = "commit" /\ tx[t].op = "confirm"
      /\ ledger[d] = None
  BY DEF commitConfirm, EventIsNew
<1>2. PICK r \in RunId \ Committed :
        /\ run' = [run EXCEPT ![r] = newRun(t)]
        /\ draft' = [draft EXCEPT ![d].status = "confirmed", ![d].run = r]
        /\ ledger' = [ledger EXCEPT ![d] = r]
  BY DEF commitConfirm
<1>3. /\ run' \in [RunId -> RunType] /\ Committed' = Committed \cup {r}
      /\ \A s \in Committed : run'[s] = run[s]
      /\ run'[r].draft = d /\ run'[r].carrier = tx[t].carrier /\ StillFirst' /\ OneFirstBilling'
  BY <1>1, <1>2, NewRunFacts
<1>4. /\ draft \in [Draft -> DraftType] /\ tx \in [Tx -> TxType]
      /\ ledger \in [Draft -> RunId \cup {None}]
  BY DEF IntakeInv, TypeOK, TxType, DraftType
<1>5. d \in Draft /\ None \notin RunId
  BY <1>1, <1>4, InvoiceIntakeAssumption DEF IntakeInv, TxShape, TxType
<1>6. /\ draft' \in [Draft -> DraftType] /\ \A e \in Draft \ {d} : draft'[e] = draft[e]
      /\ draft'[d].status = "confirmed" /\ draft'[d].run = r
      /\ ledger' \in [Draft -> RunId \cup {None}] /\ ledger'[d] = r
      /\ \A e \in Draft \ {d} : ledger'[e] = ledger[e]
  BY <1>2, <1>4, <1>5 DEF DraftType, DraftStatus
<1>7. TypeOK'
  BY <1>1, <1>3, <1>6, EndTxFacts DEF IntakeInv, TypeOK, TxType, RunType, DraftType
<1>8. RunOnLedger'
  <2>1. SUFFICES ASSUME NEW s \in Committed', run'[s].draft # None
                 PROVE  ledger'[run'[s].draft] = s
    BY DEF RunOnLedger
  <2>2. CASE s = r
    BY <1>3, <1>6, <2>2
  <2>3. CASE s \in Committed
    <3>1. run[s].draft # None /\ run'[s].draft = run[s].draft /\ s \in RunId
      BY <1>3, <2>1, <2>3 DEF Committed
    <3>2. ledger[run[s].draft] = s
      BY <2>3, <3>1 DEF IntakeInv, RunOnLedger
    <3>3. run[s].draft \in Draft
      BY <3>1 DEF IntakeInv, TypeOK
    <3>4. run[s].draft # d
      BY <1>1, <1>5, <3>1, <3>2
    <3> QED
      BY <1>6, <3>1, <3>2, <3>3, <3>4
  <2> QED
    BY <1>3, <2>1, <2>2, <2>3
<1>9. DraftRunHasCarrier'
  BY <1>1, <1>3 DEF IntakeInv, DraftRunHasCarrier, CarrierKnown
<1>10. CarrierKnown' /\ RejectedWithoutRunSerially'
  BY <1>1, <1>6, EndTxFacts DEF IntakeInv, CarrierKnown, RejectedWithoutRunSerially
<1>11. ReadsAreCurrent'
  <2>1. \A u \in Tx : tx'[u].draft # None => u # t /\ tx'[u].draft = tx[u].draft
    BY <1>1, EndTxFacts
  <2>2. \A u \in Tx : d \notin overlapped => tx'[u].draft # d
    BY <1>5, <2>1, InvoiceIntakeAssumption DEF IntakeInv, ReadsAreCurrent
  <2>3. \A e \in Draft : draft'[e].status \in Open \cup {"absent"} => draft'[e].run = None
    BY <1>6 DEF IntakeInv, ReadsAreCurrent, Open
  <2> QED
    BY <1>1, <1>6, <2>1, <2>2, <2>3, InvoiceIntakeAssumption DEF IntakeInv, ReadsAreCurrent
<1> QED
  BY <1>1, <1>3, <1>7, <1>8, <1>9, <1>10, <1>11, EndTxFacts DEF IntakeInv

-----------------------------------------------------------------------------
(* The invariant holds in every reachable state of invoice intake, one     *)
(* step per request, statement or commit.                                  *)
THEOREM IntakeInvariant == Spec => []IntakeInv
<1>1. Init => IntakeInv
  BY InitIntakeInv
<1>2. ASSUME IntakeInv, [Next]_vars
      PROVE  IntakeInv'
  <2>1. CASE \E d \in Draft : createInvoiceDraft(d)
    BY <1>2, <2>1, createInvoiceDraftInv
  <2>2. ASSUME NEW t \in Tx, Arrive(t) PROVE IntakeInv'
    BY <1>2, <2>2, ArriveInv
  <2>3. ASSUME NEW t \in Tx, Proceed(t) PROVE IntakeInv'
    BY <1>2, <2>3, lockKeyInv, detectDuplicateInvoiceInv, commitIngestInv, commitConfirmInv,
       commitRejectInv, RollbackInv DEF Proceed
  <2>4. CASE UNCHANGED vars
    BY <1>2, <2>4 DEF vars, IntakeInv, TypeOK, TxShape, HoldsKey, StillFirst, OneFirstBilling,
       RunOnLedger, CarrierKnown, DraftRunHasCarrier, ReadsAreCurrent,
       RejectedWithoutRunSerially, Committed, keyOf, setOf
  <2> QED
    BY <1>2, <2>1, <2>2, <2>3, <2>4 DEF Next
<1> QED
  BY <1>1, <1>2, PTL DEF Spec

(* Whatever requests race, one audit run at most treats a business key as  *)
(* billed for the first time: detectDuplicateInvoice's advisory lock.      *)
THEOREM FirstBillingIsUnique == Spec => []OneFirstBilling
<1>1. IntakeInv => OneFirstBilling
  BY DEF IntakeInv
<1> QED
  BY <1>1, IntakeInvariant, PTL

(* confirmInvoiceDraft turns a draft into one audit run at most: the       *)
(* ledger's event id is what stops the second.                             *)
THEOREM DraftBecomesOneRun == Spec => []DraftConfirmedOnce
<1>1. IntakeInv => DraftConfirmedOnce
  BY DEF IntakeInv, RunOnLedger, DraftConfirmedOnce
<1> QED
  BY <1>1, IntakeInvariant, PTL

(* No invoice of a draft is persisted without a carrier.                   *)
THEOREM DraftRunsHaveCarriers == Spec => []DraftRunHasCarrier
<1>1. IntakeInv => DraftRunHasCarrier
  BY DEF IntakeInv
<1> QED
  BY <1>1, IntakeInvariant, PTL

(* Confirmations and rejections that do not overlap respect each other.    *)
THEOREM SerialFinalisationIsSound == Spec => []RejectedWithoutRunSerially
<1>1. IntakeInv => RejectedWithoutRunSerially
  BY DEF IntakeInv
<1> QED
  BY <1>1, IntakeInvariant, PTL
===============================================================================
