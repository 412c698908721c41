-------------------------- MODULE SettlementProofs --------------------------
(***************************************************************************)
(* Settlement: workflow instances, the payment gate, the exports, the      *)
(* reports on claims and the claim's ledger. They share no state; each has *)
(* an invariant of its own.                                                *)
(***************************************************************************)
EXTENDS WorkflowInstance, PaymentGate, ExportRecord, ClaimReports, ClaimLedger,
        FiniteSetTheorems, WellFoundedInduction, TLAPS

(***************************************************************************)
(* What workflow instances keep true for any transition map and any number *)
(* of subjects and concurrent transactions.                                *)
(***************************************************************************)

(* Nothing is known of a subject without an instance.                      *)
AbsentIsBlank == \A x \in WfSubject : wfState[x] = Absent => wfCreated[x] = <<>> /\ wfLog[x] = <<>>

(* A transaction about to write holds the row's lock, and what it read     *)
(* under the lock is still so.                                             *)
WriterHoldsLock ==
    \A t \in WfTx :
        /\ wfTx[t].step # "idle" => wfTx[t].subject \in WfSubject /\ wfTx[t].to \in WfState
        /\ wfTx[t].step = "write" =>
             /\ wfLock[wfTx[t].subject] = t
             /\ wfState[wfTx[t].subject] = wfTx[t].saw /\ wfTx[t].saw # Absent

WfInv == WfTypeOK /\ AbsentIsBlank /\ WriterHoldsLock /\ LogExplainsState

(* The part of LogExplainsState about one subject.                         *)
Explained(state, created, log) ==
    LET at(i) == IF i = 0 THEN created[1] ELSE log[i][2] IN
    /\ Len(created) = 1
    /\ \A i \in 1..Len(log) : log[i][1] = at(i - 1) /\ validateWorkflowTransition(log[i][1], log[i][2])
    /\ state = at(Len(log))

(* LogExplainsState, one subject at a time.                                *)
LEMMA LogBySubject ==
  LogExplainsState <=>
    \A x \in WfSubject : wfState[x] # Absent => Explained(wfState[x], wfCreated[x], wfLog[x])
BY DEF LogExplainsState, Explained

(* The same of the next state.                                             *)
LEMMA LogBySubjectNext ==
  LogExplainsState' <=>
    \A x \in WfSubject : wfState'[x] # Absent => Explained(wfState'[x], wfCreated'[x], wfLog'[x])
BY DEF LogExplainsState, Explained, validateWorkflowTransition

(* A new instance: created in its state, with an empty log.                *)
LEMMA FreshIsExplained ==
  ASSUME NEW s PROVE Explained(s, Append(<<>>, s), <<>>)
BY DEF Explained

(* A logged move from the current state explains the next one.             *)
LEMMA AppendIsExplained ==
  ASSUME NEW s \in WfState, NEW from \in WfState, NEW created, NEW log \in Seq(WfState \X WfState),
         Explained(from, created, log), validateWorkflowTransition(from, s)
  PROVE  Explained(s, created, Append(log, <<from, s>>))
<1> DEFINE new == Append(log, <<from, s>>)
           at(i) == IF i = 0 THEN created[1] ELSE log[i][2]
           at2(i) == IF i = 0 THEN created[1] ELSE new[i][2]
<1>1. /\ Len(new) = Len(log) + 1 /\ Len(log) \in Nat
      /\ \A i \in 1..Len(log) : new[i] = log[i]
      /\ new[Len(log) + 1] = <<from, s>>
  OBVIOUS
<1>2. \A i \in 0..Len(log) : at2(i) = at(i)
  BY <1>1
<1>3. \A i \in 1..Len(log) : log[i][1] = at(i - 1) /\ validateWorkflowTransition(log[i][1], log[i][2])
  BY DEF Explained
<1>4. from = at(Len(log)) /\ Len(created) = 1
  BY DEF Explained
<1> HIDE DEF new, at
<1>5. ASSUME NEW i \in 1..Len(new)
      PROVE  new[i][1] = at2(i - 1) /\ validateWorkflowTransition(new[i][1], new[i][2])
  <2>1. CASE i \in 1..Len(log)
    <3>1. i - 1 \in 0..Len(log) /\ new[i] = log[i]
      BY <2>1, <1>1
    <3>2. at2(i - 1) = at(i - 1)
      BY <3>1, <1>2
    <3> HIDE DEF at2
    <3> QED
      BY <2>1, <3>1, <3>2, <1>3
  <2>2. CASE i = Len(log) + 1
    <3>1. i - 1 \in 0..Len(log) /\ i - 1 = Len(log)
      BY <2>2, <1>1
    <3>2. at2(i - 1) = from
      BY <3>1, <1>2, <1>4
    <3> QED
      BY <3>2, <2>2, <1>1
  <2> QED
    BY <2>1, <2>2, <1>1
<1>6. s = at2(Len(new))
  BY <1>1
<1> QED
  BY <1>4, <1>5, <1>6 DEF Explained, new

(* Nothing exists, nothing is open.                                        *)
LEMMA WfInitial == WfInit => WfInv
<1> SUFFICES ASSUME WfInit PROVE WfInv
  OBVIOUS
<1>1. WfTypeOK
  BY DEF WfInit, WfTypeOK, NoWf
<1> QED
  BY <1>1 DEF WfInit, WfInv, AbsentIsBlank, WriterHoldsLock, LogExplainsState, NoWf

(* Looking for an instance, or locking it, writes nothing.                 *)
LEMMA ReadKeepsInv ==
  ASSUME WfInv, NEW t \in WfTx, findInstance(t) \/ lockInstance(t)
  PROVE  WfInv'
<1> USE WorkflowInstanceAssumption
<1>1. UNCHANGED <<wfState, wfCreated, wfLog>>
  BY DEF findInstance, lockInstance
<1>2. PICK x \in WfSubject, s \in WfState :
        \/ /\ wfTx' = [wfTx EXCEPT ![t] = [step |-> "insert", subject |-> x, to |-> s, saw |-> Absent]]
           /\ UNCHANGED wfLock
        \/ /\ wfState[x] # Absent /\ wfLock[x] = Unlocked
           /\ wfTx' = [wfTx EXCEPT ![t] = [step |-> "write", subject |-> x, to |-> s, saw |-> wfState[x]]]
           /\ wfLock' = [wfLock EXCEPT ![x] = t]
  BY DEF findInstance, lockInstance
<1>3. wfTx[t] = NoWf
  BY DEF findInstance, lockInstance
<1>4. PICK y : y \in [step : {"insert", "write"}, subject : WfSubject, to : WfState,
                       saw : WfState \cup {Absent}]
                /\ wfTx' = [wfTx EXCEPT ![t] = y]
                /\ \/ y.step = "insert" /\ wfLock' = wfLock
                   \/ /\ y.step = "write" /\ y.saw = wfState[y.subject] /\ y.saw # Absent
                      /\ wfLock[y.subject] = Unlocked /\ wfLock' = [wfLock EXCEPT ![y.subject] = t]
  <2> DEFINE look == [step |-> "insert", subject |-> x, to |-> s, saw |-> Absent]
             hold == [step |-> "write", subject |-> x, to |-> s, saw |-> wfState[x]]
  <2>1. wfState[x] \in WfState \cup {Absent}
    BY DEF WfInv, WfTypeOK
  <2>2. CASE wfTx' = [wfTx EXCEPT ![t] = look] /\ UNCHANGED wfLock
    <3>1. /\ look \in [step : {"insert", "write"}, subject : WfSubject, to : WfState,
                       saw : WfState \cup {Absent}]
          /\ look.step = "insert"
      OBVIOUS
    <3> HIDE DEF look
    <3> QED
      BY <2>2, <3>1
  <2>3. CASE /\ wfState[x] # Absent /\ wfLock[x] = Unlocked
             /\ wfTx' = [wfTx EXCEPT ![t] = hold]
             /\ wfLock' = [wfLock EXCEPT ![x] = t]
    <3>1. /\ hold \in [step : {"insert", "write"}, subject : WfSubject, to : WfState,
                       saw : WfState \cup {Absent}]
          /\ hold.step = "write" /\ hold.subject = x /\ hold.saw = wfState[x]
      BY <2>1
    <3> HIDE DEF hold
    <3> QED
      BY <2>3, <3>1
  <2> QED
    BY <1>2, <2>2, <2>3
<1>5. WfTypeOK'
  <2>1. wfTx' \in [WfTx -> [step : {"idle", "insert", "write"}, subject : WfSubject \cup {"none"},
                            to : WfState \cup {"none"}, saw : WfState \cup {Absent}]]
    BY <1>4 DEF WfInv, WfTypeOK
  <2>2. wfLock' \in [WfSubject -> WfTx \cup {Unlocked}]
    BY <1>4 DEF WfInv, WfTypeOK
  <2> QED
    BY <1>1, <2>1, <2>2 DEF WfInv, WfTypeOK
<1>7. WriterHoldsLock'
  <2> SUFFICES ASSUME NEW u \in WfTx
               PROVE  /\ wfTx'[u].step # "idle" => wfTx'[u].subject \in WfSubject /\ wfTx'[u].to \in WfState
                      /\ wfTx'[u].step = "write" =>
                           /\ wfLock'[wfTx'[u].subject] = u
                           /\ wfState'[wfTx'[u].subject] = wfTx'[u].saw /\ wfTx'[u].saw # Absent
    BY DEF WriterHoldsLock
  <2>1. CASE u = t
    BY <1>1, <1>4, <2>1 DEF WfInv, WfTypeOK
  <2>2. CASE u # t
    <3>1. wfTx'[u] = wfTx[u]
      BY <1>4, <2>2 DEF WfInv, WfTypeOK
    <3>2. ASSUME wfTx[u].step = "write" PROVE wfLock'[wfTx[u].subject] = u
      <4>1. wfLock[wfTx[u].subject] = u /\ wfTx[u].subject \in WfSubject
        BY <3>2 DEF WfInv, WriterHoldsLock
      <4> QED
        BY <4>1, <1>4 DEF WfInv, WfTypeOK, Unlocked
    <3> QED
      BY <1>1, <3>1, <3>2 DEF WfInv, WriterHoldsLock
  <2> QED
    BY <2>1, <2>2
<1>6. AbsentIsBlank' /\ LogExplainsState'
  BY <1>1 DEF WfInv, AbsentIsBlank, LogExplainsState, validateWorkflowTransition
<1> QED
  BY <1>5, <1>6, <1>7 DEF WfInv

(* The insert makes an instance only where there is none.                  *)
LEMMA CreateKeepsInv ==
  ASSUME WfInv, NEW t \in WfTx, createWorkflowInstance(t)
  PROVE  WfInv'
<1> USE WorkflowInstanceAssumption
<1> DEFINE x == wfTx[t].subject
           s == wfTx[t].to
<1>1. x \in WfSubject /\ s \in WfState /\ wfTx[t].step = "insert"
  BY DEF createWorkflowInstance, WfInv, WriterHoldsLock
<1>2. wfTx' = [wfTx EXCEPT ![t] = NoWf] /\ UNCHANGED <<wfLog, wfLock>>
  BY DEF createWorkflowInstance
<1>3. CASE wfState[x] # Absent
  <2>1. UNCHANGED <<wfState, wfCreated>>
    BY <1>3 DEF createWorkflowInstance
  <2>2. WfTypeOK'
    BY <1>2, <2>1 DEF WfInv, WfTypeOK, NoWf
  <2>3. WriterHoldsLock'
    BY <1>2, <2>1 DEF WfInv, WfTypeOK, WriterHoldsLock, NoWf
  <2> QED
    BY <1>2, <2>1, <2>2, <2>3 DEF WfInv, AbsentIsBlank, LogExplainsState, validateWorkflowTransition
<1>4. CASE wfState[x] = Absent
  <2>1. wfState' = [wfState EXCEPT ![x] = s] /\ wfCreated' = [wfCreated EXCEPT ![x] = Append(wfCreated[x], s)]
    BY <1>4 DEF createWorkflowInstance
  <2>2. WfTypeOK'
    BY <1>1, <1>2, <2>1 DEF WfInv, WfTypeOK, NoWf
  <2>3. WriterHoldsLock'
    BY <1>1, <1>2, <1>4, <2>1 DEF WfInv, WfTypeOK, WriterHoldsLock, NoWf
  <2>4. AbsentIsBlank'
    BY <1>1, <1>2, <2>1 DEF WfInv, WfTypeOK, AbsentIsBlank, Absent
  <2>5. LogExplainsState'
    <3> SUFFICES ASSUME NEW y \in WfSubject, wfState'[y] # Absent
                 PROVE  Explained(wfState'[y], wfCreated'[y], wfLog'[y])
      BY LogBySubjectNext
    <3>1. CASE y = x
      <4>1. wfState'[y] = s /\ wfCreated'[y] = Append(<<>>, s) /\ wfLog'[y] = <<>>
        BY <1>1, <1>2, <1>4, <2>1, <3>1 DEF WfInv, WfTypeOK, AbsentIsBlank
      <4> QED
        BY <4>1, FreshIsExplained
    <3>2. CASE y # x
      <4>1. wfState'[y] = wfState[y] /\ wfCreated'[y] = wfCreated[y] /\ wfLog'[y] = wfLog[y]
        BY <1>1, <1>2, <2>1, <3>2 DEF WfInv, WfTypeOK
      <4> QED
        BY <4>1, LogBySubject DEF WfInv
    <3> QED
      BY <3>1, <3>2
  <2> QED
    BY <2>2, <2>3, <2>4, <2>5 DEF WfInv
<1> QED
  BY <1>3, <1>4

(* Whoever writes or gives up holds one lock, and lets go of it.           *)
LEMMA ReleaseTypes ==
  ASSUME WfInv, NEW t \in WfTx, ReleaseWf(t)
  PROVE  /\ wfTx' \in [WfTx -> [step : {"idle", "insert", "write"}, subject : WfSubject \cup {"none"},
                                to : WfState \cup {"none"}, saw : WfState \cup {Absent}]]
         /\ wfLock' \in [WfSubject -> WfTx \cup {Unlocked}]
         /\ wfTx'[t].step = "idle"
         /\ \A u \in WfTx \ {t} : wfTx'[u] = wfTx[u]
         /\ \A u \in WfTx \ {t}, x \in WfSubject : wfLock[x] = u => wfLock'[x] = u
BY DEF WfInv, WfTypeOK, ReleaseWf, NoWf

(* A transaction that gives up lets go of its lock and writes nothing.     *)
LEMMA AbandonKeepsInv ==
  ASSUME WfInv, NEW t \in WfTx, abandonTransition(t)
  PROVE  WfInv'
<1>1. UNCHANGED <<wfState, wfCreated, wfLog>> /\ ReleaseWf(t)
  BY DEF abandonTransition
<1>2. WfTypeOK'
  BY <1>1, ReleaseTypes DEF WfInv, WfTypeOK
<1>3. WriterHoldsLock'
  BY <1>1, ReleaseTypes DEF WfInv, WriterHoldsLock
<1> QED
  BY <1>1, <1>2, <1>3 DEF WfInv, AbsentIsBlank, LogExplainsState, validateWorkflowTransition

(* The write: the state logged as `from' is the one that was read, because *)
(* nobody else can have had the lock.                                      *)
LEMMA TransitionKeepsInv ==
  ASSUME WfInv, NEW t \in WfTx, appendWorkflowTransition(t)
  PROVE  WfInv'
<1> USE WorkflowInstanceAssumption
<1> DEFINE x == wfTx[t].subject
           s == wfTx[t].to
<1>1. /\ x \in WfSubject /\ s \in WfState /\ wfTx[t].step = "write"
      /\ wfState[x] = wfTx[t].saw /\ wfState[x] # Absent /\ wfLock[x] = t
  BY DEF appendWorkflowTransition, WfInv, WriterHoldsLock
<1>2. wfState[x] \in WfState
  BY <1>1 DEF WfInv, WfTypeOK
<1>3. /\ validateWorkflowTransition(wfState[x], s)
      /\ wfLog' = [wfLog EXCEPT ![x] = Append(wfLog[x], <<wfState[x], s>>)]
      /\ wfState' = [wfState EXCEPT ![x] = s]
      /\ UNCHANGED wfCreated /\ ReleaseWf(t)
  BY <1>1 DEF appendWorkflowTransition
<1>4. WfTypeOK'
  <2>1. Append(wfLog[x], <<wfState[x], s>>) \in Seq(WfState \X WfState)
    BY <1>1, <1>2 DEF WfInv, WfTypeOK
  <2> QED
    BY <1>1, <1>3, <2>1, ReleaseTypes DEF WfInv, WfTypeOK
<1>5. WriterHoldsLock'
  <2> SUFFICES ASSUME NEW u \in WfTx
               PROVE  /\ wfTx'[u].step # "idle" => wfTx'[u].subject \in WfSubject /\ wfTx'[u].to \in WfState
                      /\ wfTx'[u].step = "write" =>
                           /\ wfLock'[wfTx'[u].subject] = u
                           /\ wfState'[wfTx'[u].subject] = wfTx'[u].saw /\ wfTx'[u].saw # Absent
    BY DEF WriterHoldsLock
  <2>1. CASE u = t
    BY <1>3, <2>1, ReleaseTypes
  <2>2. CASE u # t
    <3>1. wfTx'[u] = wfTx[u]
      BY <1>3, <2>2, ReleaseTypes
    <3>2. wfTx[u].step = "write" => wfTx[u].subject # x /\ wfTx[u].subject \in WfSubject
      BY <1>1, <2>2 DEF WfInv, WriterHoldsLock
    <3> QED
      BY <1>1, <1>3, <2>2, <3>1, <3>2, ReleaseTypes DEF WfInv, WfTypeOK, WriterHoldsLock
  <2> QED
    BY <2>1, <2>2
<1>6. AbsentIsBlank'
  BY <1>1, <1>3 DEF WfInv, WfTypeOK, AbsentIsBlank, Absent
<1>7. LogExplainsState'
  <2> SUFFICES ASSUME NEW y \in WfSubject, wfState'[y] # Absent
               PROVE  Explained(wfState'[y], wfCreated'[y], wfLog'[y])
    BY LogBySubjectNext
  <2>1. CASE y = x
    <3>1. wfState'[y] = s /\ wfCreated'[y] = wfCreated[x] /\ wfLog'[y] = Append(wfLog[x], <<wfState[x], s>>)
      BY <1>1, <1>3, <2>1 DEF WfInv, WfTypeOK
    <3>2. Explained(wfState[x], wfCreated[x], wfLog[x])
      BY <1>1, LogBySubject DEF WfInv
    <3>3. wfLog[x] \in Seq(WfState \X WfState)
      BY <1>1 DEF WfInv, WfTypeOK
    <3>4. s \in WfState /\ validateWorkflowTransition(wfState[x], s)
      BY <1>1, <1>3
    <3> HIDE DEF x, s
    <3>5. Explained(s, wfCreated[x], Append(wfLog[x], <<wfState[x], s>>))
      BY <1>2, <3>2, <3>3, <3>4, AppendIsExplained, Zenon
    <3> QED
      BY <3>1, <3>5
  <2>2. CASE y # x
    <3>1. wfState'[y] = wfState[y] /\ wfCreated'[y] = wfCreated[y] /\ wfLog'[y] = wfLog[y]
      BY <1>1, <1>3, <2>2 DEF WfInv, WfTypeOK
    <3> QED
      BY <3>1, LogBySubject DEF WfInv
  <2> QED
    BY <2>1, <2>2
<1> QED
  BY <1>4, <1>5, <1>6, <1>7 DEF WfInv

(* Every step keeps the invariant.                                         *)
LEMMA WfInductive == WfInv /\ [WfNext]_wfVars => WfInv'
<1> SUFFICES ASSUME WfInv, [WfNext]_wfVars PROVE WfInv'
  OBVIOUS
<1>1. CASE UNCHANGED wfVars
  BY <1>1 DEF wfVars, WfInv, WfTypeOK, AbsentIsBlank, WriterHoldsLock, LogExplainsState,
     validateWorkflowTransition
<1> QED
  BY <1>1, ReadKeepsInv, CreateKeepsInv, TransitionKeepsInv, AbandonKeepsInv DEF WfNext

(* The transition log explains the state of every instance, for any        *)
(* transition map and any number of transactions: FOR UPDATE makes what    *)
(* was read still true when it is written (appendWorkflowTransition).      *)
THEOREM LogTellsTheStory == WfSpec => []LogExplainsState
<1>1. WfInv => LogExplainsState
  BY DEF WfInv
<1> QED
  BY <1>1, WfInitial, WfInductive, PTL DEF WfSpec

-----------------------------------------------------------------------------
(***************************************************************************)
(* The payment gate, for any number of audit runs, findings, days and      *)
(* concurrent requests. What a request read may be old when it writes;     *)
(* that it is still right on the day it was read is what the invariant     *)
(* keeps.                                                                  *)
(***************************************************************************)

(* Types.  A decision is dated, never in the future.                       *)
PayTypeOK ==
    /\ outcome \in [PayRun -> {"none", "SCORED", "REJECTED_REWORK"}]
    /\ decision \in [PayRun -> [Actions -> Int]]
    /\ escalated \in [PayRun -> Int]
    /\ withheld \in [PayRun -> SUBSET Overcharge]
    /\ accepted \in [PayRun -> SUBSET Overcharge]
    /\ payReq \in [PaySlot -> [step : {"idle", "write"}, op : Actions \cup {"escalate", "none"},
                               run : PayRun \cup {0}, seen : SUBSET Overcharge]]
    /\ day \in Nat

(* No row and no event is dated after today.                               *)
PayDated ==
    \A r \in PayRun : escalated[r] <= day /\ \A x \in Actions : decision[r][x] <= day

(* Nothing is decided about a run that is not persisted.                   *)
UndecidedBeforeRun ==
    \A r \in PayRun : outcome[r] = "none" => \A x \in Actions : decision[r][x] = Never

(* An escalation read today is still warranted: the hold is past its grace *)
(* period, and an approval that came in since is of today.                 *)
StillDue(r) ==
    /\ Has(r, "hold") /\ decision[r]["hold"] + Grace <= day
    /\ Has(r, "approve") => decision[r]["approve"] >= day

(* A request about to write names a persisted run; one about to escalate   *)
(* is still warranted.                                                     *)
Justified(s) ==
    payReq[s].step = "write" =>
        /\ payReq[s].run \in PayRun /\ outcome[payReq[s].run] # "none"
        /\ payReq[s].op \in Actions \cup {"escalate"}
        /\ payReq[s].op = "escalate" => StillDue(payReq[s].run)

PayReqJustified == \A s \in PaySlot : Justified(s)

PayInv == PayTypeOK /\ PayDated /\ UndecidedBeforeRun /\ PayReqJustified /\ EscalatedInTime

(* Nothing is recorded.                                                    *)
LEMMA PayInitial == PayInit => PayInv
<1> SUFFICES ASSUME PayInit PROVE PayInv
  OBVIOUS
<1> USE PaymentGateAssumption DEF Never
<1>1. PayTypeOK
  BY DEF PayInit, PayTypeOK, NoPay
<1>2. PayDated /\ UndecidedBeforeRun /\ EscalatedInTime
  BY DEF PayInit, PayDated, UndecidedBeforeRun, EscalatedInTime
<1>3. PayReqJustified
  BY DEF PayInit, PayReqJustified, Justified, NoPay
<1> QED
  BY <1>1, <1>2, <1>3 DEF PayInv

(* Recording a decision of today that was not there keeps what is said of  *)
(* dates, of escalations and of the requests in flight.                    *)
LEMMA DecideKeeps ==
  ASSUME PayInv, NEW r \in PayRun, NEW x \in Actions, ~Has(r, x), Decide(r, x),
         UNCHANGED <<escalated, day>>
  PROVE  /\ decision' \in [PayRun -> [Actions -> Int]]
         /\ PayDated' /\ EscalatedInTime'
         /\ \A q \in PayRun : StillDue(q) => StillDue(q)'
<1> USE PaymentGateAssumption DEF Never
<1>1. /\ decision \in [PayRun -> [Actions -> Int]] /\ day \in Nat
      /\ escalated \in [PayRun -> Int]
      /\ "hold" \in Actions /\ "approve" \in Actions
  BY DEF PayInv, PayTypeOK, Actions
<1>2. /\ decision' \in [PayRun -> [Actions -> Int]]
      /\ \A q \in PayRun, y \in Actions :
           decision'[q][y] = IF q = r /\ y = x THEN day ELSE decision[q][y]
  BY <1>1 DEF Decide
<1>3. \A q \in PayRun, y \in Actions : Has(q, y) => decision'[q][y] = decision[q][y]
  BY <1>2 DEF Has
<1>4. \A q \in PayRun, y \in Actions : Has(q, y)' /\ ~Has(q, y) => decision'[q][y] = day
  BY <1>2 DEF Has
<1>5. PayDated'
  BY <1>1, <1>2 DEF PayInv, PayDated
<1>6. \A q \in PayRun, y \in Actions : Has(q, y) => Has(q, y)'
  BY <1>3 DEF Has
<1>7. EscalatedInTime'
  <2> SUFFICES ASSUME NEW q \in PayRun, escalated[q] # Never
               PROVE  /\ Has(q, "hold")' /\ escalated[q] >= decision'[q]["hold"] + Grace
                      /\ Has(q, "approve")' => decision'[q]["approve"] >= escalated[q]
    BY DEF EscalatedInTime, Has
  <2>1. /\ Has(q, "hold") /\ escalated[q] >= decision[q]["hold"] + Grace
        /\ Has(q, "approve") => decision[q]["approve"] >= escalated[q]
        /\ escalated[q] <= day
    BY DEF PayInv, EscalatedInTime, PayDated
  <2> QED
    BY <2>1, <1>1, <1>3, <1>4, <1>6
<1>8. \A q \in PayRun : StillDue(q) => StillDue(q)'
  <2> SUFFICES ASSUME NEW q \in PayRun, StillDue(q) PROVE StillDue(q)'
    OBVIOUS
  <2> QED
    BY <1>1, <1>3, <1>4, <1>6 DEF StillDue
<1> QED
  BY <1>2, <1>5, <1>7, <1>8

(* A run is persisted with its hold, without one, or refused.              *)
LEMMA PersistKeepsPay ==
  ASSUME PayInv, NEW r \in PayRun, persistRun(r) PROVE PayInv'
<1> USE PaymentGateAssumption
<1>1. PICK x \in Actions, o \in {"SCORED", "REJECTED_REWORK"} :
        /\ outcome' = [outcome EXCEPT ![r] = o]
        /\ Decide(r, x) \/ UNCHANGED <<decision, payEvents>>
  BY DEF persistRun, generateHoldDecision, generateDoNotPayDecision, Actions
<1>2. outcome[r] = "none" /\ UNCHANGED <<withheld, escalated, accepted, policy, payReq, day>>
  BY DEF persistRun
<1>3. ~Has(r, x)
  BY <1>2 DEF PayInv, UndecidedBeforeRun, Has
<1>4. /\ outcome' \in [PayRun -> {"none", "SCORED", "REJECTED_REWORK"}]
      /\ \A q \in PayRun : outcome'[q] = IF q = r THEN o ELSE outcome[q]
  BY <1>1 DEF PayInv, PayTypeOK
<1>5. CASE Decide(r, x)
  <2>1. /\ decision' \in [PayRun -> [Actions -> Int]]
        /\ PayDated' /\ EscalatedInTime'
        /\ \A q \in PayRun : StillDue(q) => StillDue(q)'
    BY <1>2, <1>3, <1>5, DecideKeeps
  <2>2. PayTypeOK'
    BY <1>2, <1>4, <2>1 DEF PayInv, PayTypeOK
  <2>3. UndecidedBeforeRun'
    <3> SUFFICES ASSUME NEW q \in PayRun, outcome'[q] = "none", NEW y \in Actions
                 PROVE  decision'[q][y] = Never
      BY DEF UndecidedBeforeRun
    <3>1. q # r /\ outcome[q] = "none"
      BY <1>4
    <3> QED
      BY <3>1, <1>5 DEF Decide, PayInv, PayTypeOK, UndecidedBeforeRun
  <2>4. PayReqJustified'
    BY <1>2, <1>4, <2>1 DEF PayInv, PayReqJustified, Justified, PayTypeOK
  <2> QED
    BY <2>1, <2>2, <2>3, <2>4 DEF PayInv
<1>6. CASE UNCHANGED <<decision, payEvents>>
  <2>1. PayTypeOK'
    BY <1>2, <1>4, <1>6 DEF PayInv, PayTypeOK
  <2>2. PayDated' /\ EscalatedInTime'
    BY <1>2, <1>6 DEF PayInv, PayDated, EscalatedInTime, Has
  <2>3. UndecidedBeforeRun'
    BY <1>4, <1>6 DEF PayInv, UndecidedBeforeRun
  <2>4. PayReqJustified'
    BY <1>2, <1>4, <1>6 DEF PayInv, PayReqJustified, Justified, StillDue, Has
  <2> QED
    BY <2>1, <2>2, <2>3, <2>4 DEF PayInv
<1> QED
  BY <1>1, <1>5, <1>6

(* A policy is stored, a finding reviewed: no decision changes.            *)
LEMMA PolicyAndReviewKeepPay ==
  ASSUME PayInv,
         upsertPaymentPolicy \/ \E r \in PayRun, f \in Overcharge : reviewFinding(r, f)
  PROVE  PayInv'
<1>1. UNCHANGED <<outcome, decision, withheld, escalated, payReq, day>>
  BY DEF upsertPaymentPolicy, reviewFinding
<1>2. accepted' \in [PayRun -> SUBSET Overcharge]
  <2>1. CASE upsertPaymentPolicy
    BY <2>1 DEF upsertPaymentPolicy, PayInv, PayTypeOK
  <2>2. ASSUME NEW r \in PayRun, NEW f \in Overcharge, reviewFinding(r, f)
        PROVE  accepted' \in [PayRun -> SUBSET Overcharge]
    <3>1. accepted' = [accepted EXCEPT ![r] = IF f \in @ THEN @ \ {f} ELSE @ \cup {f}]
      BY <2>2 DEF reviewFinding
    <3>2. accepted \in [PayRun -> SUBSET Overcharge]
      BY DEF PayInv, PayTypeOK
    <3> QED
      BY <3>1, <3>2
  <2> QED
    BY <2>1, <2>2
<1>3. PayTypeOK'
  BY <1>1, <1>2 DEF PayInv, PayTypeOK
<1> QED
  BY <1>1, <1>3 DEF PayInv, PayDated, UndecidedBeforeRun, PayReqJustified, Justified, StillDue,
                    EscalatedInTime, Has

(* A request reads: what it read holds until the end of the day.           *)
LEMMA ReadKeepsPay ==
  ASSUME PayInv, NEW s \in PaySlot, NEW r \in PayRun,
         readAuthorization(s, r) \/ readShortPay(s, r) \/ readEscalation(s, r)
  PROVE  PayInv'
<1> USE PaymentGateAssumption
<1>1. PICK op \in Actions \cup {"escalate"}, seen \in SUBSET Overcharge :
        PayBegin(s, op, r, seen) /\ outcome[r] # "none" /\ (op = "escalate" => StillDue(r))
  <2>1. CASE readAuthorization(s, r)
    BY <2>1 DEF readAuthorization, PAYMENT_AUTHORIZATION_ACTIONS, Actions
  <2>2. CASE readShortPay(s, r)
    <3>1. accepted[r] \in SUBSET Overcharge
      BY DEF PayInv, PayTypeOK
    <3> QED
      BY <2>2, <3>1 DEF readShortPay, Actions
  <2>3. CASE readEscalation(s, r)
    <3>1. EscalationDue(r) /\ PayBegin(s, "escalate", r, {})
      BY <2>3 DEF readEscalation
    <3>2. StillDue(r)
      BY <3>1 DEF EscalationDue, StillDue
    <3>3. outcome[r] # "none"
      BY <3>1 DEF EscalationDue, Has, PayInv, UndecidedBeforeRun, Actions
    <3> QED
      BY <3>1, <3>2, <3>3
  <2> QED
    BY <2>1, <2>2, <2>3
<1> DEFINE new == [step |-> "write", op |-> op, run |-> r, seen |-> seen]
<1>2. /\ payReq' = [payReq EXCEPT ![s] = new]
      /\ UNCHANGED <<outcome, decision, payEvents, withheld, escalated, accepted, policy, day>>
  BY <1>1 DEF PayBegin
<1>3. PayTypeOK'
  BY <1>2 DEF PayInv, PayTypeOK
<1>4. PayDated' /\ UndecidedBeforeRun' /\ EscalatedInTime'
  BY <1>2 DEF PayInv, PayDated, UndecidedBeforeRun, EscalatedInTime, Has
<1>5. \A q \in PayRun : StillDue(q)' = StillDue(q)
  BY <1>2 DEF StillDue, Has
<1>6. \A z \in PaySlot : payReq'[z] = IF z = s THEN new ELSE payReq[z]
  BY <1>2 DEF PayInv, PayTypeOK
<1>7. PayReqJustified'
  <2> SUFFICES ASSUME NEW z \in PaySlot PROVE Justified(z)'
    BY DEF PayReqJustified
  <2>1. CASE z = s
    BY <2>1, <1>1, <1>2, <1>5, <1>6 DEF Justified
  <2>2. CASE z # s
    <3>1. Justified(z) /\ payReq'[z] = payReq[z]
      BY <2>2, <1>6 DEF PayInv, PayReqJustified
    <3> QED
      BY <3>1, <1>2, <1>5 DEF Justified
  <2> QED
    BY <2>1, <2>2
<1> QED
  BY <1>3, <1>4, <1>7 DEF PayInv

(* The end of a request, whatever it wrote, leaves the others justified    *)
(* as long as escalations that were due stay due.                          *)
LEMMA EndKeepsRequests ==
  ASSUME PayInv, NEW s \in PaySlot, EndPay(s), UNCHANGED outcome,
         \A q \in PayRun : StillDue(q) => StillDue(q)'
  PROVE  /\ PayReqJustified'
         /\ payReq' \in [PaySlot -> [step : {"idle", "write"}, op : Actions \cup {"escalate", "none"},
                               run : PayRun \cup {0}, seen : SUBSET Overcharge]]
<1>1. payReq' = [payReq EXCEPT ![s] = NoPay]
  BY DEF EndPay
<1>2. payReq' \in [PaySlot -> [step : {"idle", "write"}, op : Actions \cup {"escalate", "none"},
                               run : PayRun \cup {0}, seen : SUBSET Overcharge]]
  BY <1>1 DEF PayInv, PayTypeOK, NoPay
<1>3. \A z \in PaySlot : payReq'[z] = IF z = s THEN NoPay ELSE payReq[z]
  BY <1>1 DEF PayInv, PayTypeOK
<1>4. ASSUME NEW z \in PaySlot PROVE Justified(z)'
  <2>1. CASE z = s
    BY <2>1, <1>3 DEF Justified, NoPay
  <2>2. CASE z # s
    <3>1. Justified(z) /\ payReq'[z] = payReq[z]
      BY <2>2, <1>3 DEF PayInv, PayReqJustified
    <3> QED
      BY <3>1 DEF Justified
  <2> QED
    BY <2>1, <2>2
<1> QED
  BY <1>2, <1>4 DEF PayReqJustified

(* A decision is recorded, or lost to the unique key.                      *)
LEMMA WriteKeepsPay ==
  ASSUME PayInv, NEW s \in PaySlot, writeDecision(s) \/ loseDecision(s) PROVE PayInv'
<1> USE PaymentGateAssumption
<1> DEFINE r == payReq[s].run
           x == payReq[s].op
<1>1. /\ payReq[s].step = "write" /\ x # "escalate"
      /\ EndPay(s) /\ UNCHANGED <<outcome, escalated, accepted, policy, day>>
  BY DEF writeDecision, loseDecision
<1>2. r \in PayRun /\ x \in Actions /\ outcome[r] # "none"
  BY <1>1 DEF PayInv, PayReqJustified, Justified
<1>3. CASE writeDecision(s)
  <2>1. ~Has(r, x) /\ Decide(r, x)
        /\ withheld' = IF x = "short_pay" THEN [withheld EXCEPT ![r] = payReq[s].seen] ELSE withheld
    BY <1>3 DEF writeDecision
  <2> HIDE DEF r, x
  <2>2. /\ decision' \in [PayRun -> [Actions -> Int]]
        /\ PayDated' /\ EscalatedInTime'
        /\ \A q \in PayRun : StillDue(q) => StillDue(q)'
    BY <1>1, <1>2, <2>1, DecideKeeps
  <2>3. PayReqJustified' /\ payReq' \in [PaySlot -> [step : {"idle", "write"}, op : Actions \cup {"escalate", "none"},
                               run : PayRun \cup {0}, seen : SUBSET Overcharge]]
    BY <1>1, <2>2, EndKeepsRequests
  <2>4. payReq[s].seen \in SUBSET Overcharge
    BY DEF PayInv, PayTypeOK
  <2>5. withheld' \in [PayRun -> SUBSET Overcharge]
    BY <2>1, <2>4, <1>2 DEF PayInv, PayTypeOK
  <2>6. PayTypeOK'
    BY <1>1, <2>2, <2>3, <2>5 DEF PayInv, PayTypeOK
  <2>7. UndecidedBeforeRun'
    <3> SUFFICES ASSUME NEW q \in PayRun, outcome[q] = "none", NEW y \in Actions
                 PROVE  decision'[q][y] = Never
      BY <1>1 DEF UndecidedBeforeRun
    <3>1. q # r /\ decision[q][y] = Never
      BY <1>2 DEF PayInv, UndecidedBeforeRun
    <3> QED
      BY <3>1, <2>1 DEF Decide, PayInv, PayTypeOK
  <2> QED
    BY <2>2, <2>3, <2>6, <2>7 DEF PayInv
<1>4. CASE loseDecision(s)
  <2>1. UNCHANGED <<decision, withheld>>
    BY <1>4 DEF loseDecision
  <2>2. \A q \in PayRun : StillDue(q) => StillDue(q)'
    BY <1>1, <2>1 DEF StillDue, Has
  <2>3. PayReqJustified' /\ payReq' \in [PaySlot -> [step : {"idle", "write"}, op : Actions \cup {"escalate", "none"},
                               run : PayRun \cup {0}, seen : SUBSET Overcharge]]
    BY <1>1, <2>2, EndKeepsRequests
  <2>4. PayTypeOK'
    BY <1>1, <2>1, <2>3 DEF PayInv, PayTypeOK
  <2> QED
    BY <1>1, <2>1, <2>3, <2>4 DEF PayInv, PayDated, UndecidedBeforeRun, EscalatedInTime, Has
<1> QED
  BY <1>3, <1>4

(* The escalation event: of today, which is past the grace period and not  *)
(* after the approval.                                                     *)
LEMMA EscalateKeepsPay ==
  ASSUME PayInv, NEW s \in PaySlot, writeEscalation(s) PROVE PayInv'
<1> USE PaymentGateAssumption DEF Never
<1> DEFINE r == payReq[s].run
<1>1. /\ payReq[s].step = "write" /\ payReq[s].op = "escalate"
      /\ escalated' = IF escalated[r] = Never THEN [escalated EXCEPT ![r] = day] ELSE escalated
      /\ EndPay(s) /\ UNCHANGED <<outcome, decision, payEvents, withheld, accepted, policy, day>>
  BY DEF writeEscalation
<1>2. r \in PayRun /\ StillDue(r)
  BY <1>1 DEF PayInv, PayReqJustified, Justified
<1>3. \A q \in PayRun : StillDue(q) => StillDue(q)'
  BY <1>1 DEF StillDue, Has
<1>4. PayReqJustified' /\ payReq' \in [PaySlot -> [step : {"idle", "write"}, op : Actions \cup {"escalate", "none"},
                               run : PayRun \cup {0}, seen : SUBSET Overcharge]]
  BY <1>1, <1>3, EndKeepsRequests
<1> HIDE DEF r
<1>5. /\ escalated' \in [PayRun -> Int]
      /\ \A q \in PayRun : escalated'[q] = escalated[q] \/ (q = r /\ escalated'[q] = day)
  BY <1>1, <1>2 DEF PayInv, PayTypeOK
<1>6. PayTypeOK'
  BY <1>1, <1>4, <1>5 DEF PayInv, PayTypeOK
<1>7. PayDated'
  BY <1>1, <1>5, <1>6 DEF PayInv, PayDated, PayTypeOK
<1>8. EscalatedInTime'
  <2> SUFFICES ASSUME NEW q \in PayRun, escalated'[q] # Never
               PROVE  /\ Has(q, "hold") /\ escalated'[q] >= decision[q]["hold"] + Grace
                      /\ Has(q, "approve") => decision[q]["approve"] >= escalated'[q]
    BY <1>1 DEF EscalatedInTime, Has
  <2>1. CASE escalated'[q] = escalated[q]
    BY <2>1 DEF PayInv, EscalatedInTime
  <2>2. CASE q = r /\ escalated'[q] = day
    <3>1. "hold" \in Actions /\ "approve" \in Actions
      BY DEF Actions
    <3> QED
      BY <2>2, <3>1, <1>2 DEF StillDue, PayInv, PayTypeOK
  <2> QED
    BY <2>1, <2>2, <1>5
<1>9. UndecidedBeforeRun'
  BY <1>1 DEF PayInv, UndecidedBeforeRun
<1> QED
  BY <1>4, <1>6, <1>7, <1>8, <1>9 DEF PayInv

(* Midnight: no request is in flight.                                      *)
LEMMA NextDayKeepsPay == ASSUME PayInv, NextDay PROVE PayInv'
<1>1. /\ \A s \in PaySlot : payReq[s] = NoPay
      /\ day' = day + 1
      /\ UNCHANGED <<outcome, decision, payEvents, withheld, escalated, accepted, policy, payReq>>
  BY DEF NextDay
<1>2. PayTypeOK'
  BY <1>1 DEF PayInv, PayTypeOK
<1>3. PayDated'
  BY <1>1 DEF PayInv, PayTypeOK, PayDated
<1>4. PayReqJustified'
  BY <1>1 DEF PayReqJustified, Justified, NoPay
<1> QED
  BY <1>1, <1>2, <1>3, <1>4 DEF PayInv, UndecidedBeforeRun, EscalatedInTime, Has

(* No step breaks the invariant.                                           *)
LEMMA PayStep == PayInv /\ [PayNext]_payVars => PayInv'
<1> SUFFICES ASSUME PayInv, [PayNext]_payVars PROVE PayInv'
  OBVIOUS
<1>1. CASE \E r \in PayRun : persistRun(r)
  BY <1>1, PersistKeepsPay
<1>2. CASE upsertPaymentPolicy \/ \E r \in PayRun, f \in Overcharge : reviewFinding(r, f)
  BY <1>2, PolicyAndReviewKeepPay
<1>3. CASE \E s \in PaySlot, r \in PayRun :
             readAuthorization(s, r) \/ readShortPay(s, r) \/ readEscalation(s, r)
  BY <1>3, ReadKeepsPay
<1>4. CASE \E s \in PaySlot : writeDecision(s) \/ loseDecision(s) \/ writeEscalation(s)
  BY <1>4, WriteKeepsPay, EscalateKeepsPay
<1>5. CASE NextDay
  BY <1>5, NextDayKeepsPay
<1>6. CASE UNCHANGED payVars
  BY <1>6 DEF payVars, PayInv, PayTypeOK, PayDated, UndecidedBeforeRun, PayReqJustified, Justified,
              StillDue, EscalatedInTime, Has
<1> QED
  BY <1>1, <1>2, <1>3, <1>4, <1>5, <1>6 DEF PayNext

(* A hold is escalated after its grace period and never after the day of   *)
(* its approval, for any number of runs and of requests between their read *)
(* and their write (generatePaymentEscalation, authorizePayment).          *)
THEOREM EscalationsAreInTime == PaySpec => []EscalatedInTime
<1>1. PaySpec => []PayInv
  BY PayInitial, PayStep, PTL DEF PaySpec
<1>2. PayInv => EscalatedInTime
  BY DEF PayInv
<1> QED
  BY <1>1, <1>2, PTL

(* A recorded decision keeps its day, a short payment its findings, and a  *)
(* run that left the pending list stays off it (payment_gate_decision is   *)
(* append-only and unique per run and action).                             *)
THEOREM PaymentDecisionsAreFinal == PaySpec => DecisionsAreFinal
<1> DEFINE Final ==
      \A r \in PayRun :
         /\ \A x \in Actions : Has(r, x) => decision'[r][x] = decision[r][x]
         /\ Has(r, "short_pay") => withheld'[r] = withheld[r]
         /\ Has(r, "hold") /\ r \notin listPendingPaymentAuthorizations
              => r \notin listPendingPaymentAuthorizations'
<1>1. PaySpec => []PayInv
  BY PayInitial, PayStep, PTL DEF PaySpec
<1>2. PayInv /\ [PayNext]_payVars => [Final]_payVars
  <2> SUFFICES ASSUME PayInv, PayNext PROVE Final
    BY DEF Final
  <2> USE PaymentGateAssumption
  <2>1. /\ \A r \in PayRun, x \in Actions : Has(r, x) => decision'[r][x] = decision[r][x]
        /\ \A r \in PayRun : Has(r, "short_pay") => withheld'[r] = withheld[r]
    <3>1. decision \in [PayRun -> [Actions -> Int]] /\ withheld \in [PayRun -> SUBSET Overcharge]
      BY DEF PayInv, PayTypeOK
    <3>2. ASSUME NEW q \in PayRun, NEW y \in Actions, ~Has(q, y), Decide(q, y)
          PROVE  \A r \in PayRun, x \in Actions : Has(r, x) => decision'[r][x] = decision[r][x]
      BY <3>1, <3>2 DEF Decide, Has
    <3>3. ASSUME NEW q \in PayRun, persistRun(q) PROVE <2>1
      <4>1. \A y \in Actions : ~Has(q, y)
        BY <3>3 DEF persistRun, PayInv, UndecidedBeforeRun, Has
      <4>2. (\E y \in Actions : Decide(q, y)) \/ UNCHANGED decision
        BY <3>3 DEF persistRun, generateHoldDecision, generateDoNotPayDecision, Actions
      <4>3. UNCHANGED withheld
        BY <3>3 DEF persistRun
      <4> QED
        BY <4>1, <4>2, <4>3, <3>2
    <3>4. ASSUME NEW s \in PaySlot, writeDecision(s) PROVE <2>1
      <4> DEFINE q == payReq[s].run
                 y == payReq[s].op
      <4>1. q \in PayRun /\ y \in Actions
        BY <3>4 DEF writeDecision, PayInv, PayReqJustified, Justified
      <4>2. /\ ~Has(q, y) /\ Decide(q, y)
            /\ withheld' = IF y = "short_pay" THEN [withheld EXCEPT ![q] = payReq[s].seen] ELSE withheld
        BY <3>4 DEF writeDecision
      <4> HIDE DEF q, y
      <4>3. \A r \in PayRun, x \in Actions : Has(r, x) => decision'[r][x] = decision[r][x]
        BY <4>1, <4>2, <3>2
      <4>4. \A r \in PayRun : Has(r, "short_pay") => withheld'[r] = withheld[r]
        BY <4>1, <4>2, <3>1
      <4> QED
        BY <4>3, <4>4
    <3>5. CASE UNCHANGED <<decision, withheld>>
      BY <3>5
    <3> QED
      BY <3>3, <3>4, <3>5 DEF PayNext, upsertPaymentPolicy, reviewFinding, readAuthorization, readShortPay,
           readEscalation, PayBegin, loseDecision, writeEscalation, NextDay
  <2>2. ASSUME NEW r \in PayRun, Has(r, "hold"), r \notin listPendingPaymentAuthorizations
        PROVE  r \notin listPendingPaymentAuthorizations'
    <3>1. PICK x \in {"approve", "short_pay", "do_not_pay"} : Has(r, x)
      BY <2>2 DEF listPendingPaymentAuthorizations
    <3>2. Has(r, x)'
      BY <3>1, <2>1 DEF Has, Actions
    <3> QED
      BY <3>2 DEF listPendingPaymentAuthorizations
  <2> QED
    BY <2>1, <2>2 DEF Final
<1> QED
  BY <1>1, <1>2, PTL DEF PaySpec, DecisionsAreFinal

-----------------------------------------------------------------------------
(***************************************************************************)
(* Exports, for any number of exports, handlers of one export and retries. *)
(* The unique key of an acknowledgement is held by an open insert until it *)
(* commits or rolls back.                                                  *)
(***************************************************************************)

ExRunType == [step : {"idle", "call", "answered", "waiting", "written", "thrown", "done"},
              answer : {"none", "ACKNOWLEDGED", "FAILED", "NOT_CONFIGURED"},
              wrote : {"none", "ACKNOWLEDGED", "FAILED"}]

ExTypeOK ==
    /\ exJob \in [Export -> {"none", "queued", "active", "failed", "completed"}]
    /\ exTries \in [Export -> Nat]
    /\ exRun \in [Export -> [ExWorker -> ExRunType]]
    /\ exEffect \in SUBSET Export
    /\ ackRows \in [Export -> Nat] /\ ackEvents \in [Export -> Nat]

(* What a handler may rely on: an acknowledgement is of a record taken in, *)
(* an insert that is open found no committed row, and one that returned    *)
(* has its row open or committed.                                          *)
RunSound(e, y) ==
    /\ y.answer = "ACKNOWLEDGED" => e \in exEffect
    /\ y.answer = "NOT_CONFIGURED" => e \notin Registered
    /\ y.wrote = "ACKNOWLEDGED" => y.step = "written" /\ ackRows[e] = 0
    /\ y.step = "written" =>
         y.answer = "ACKNOWLEDGED" /\ (y.wrote = "ACKNOWLEDGED" \/ ackRows[e] = 1)
    /\ y.step = "done" => e \notin Registered \/ ackRows[e] = 1

RunsAreSound == \A e \in Export, w \in ExWorker : RunSound(e, exRun[e][w])

(* The unique key: one handler at most has an acknowledgement open.        *)
OneInserter ==
    \A e \in Export, v, w \in ExWorker :
        exRun[e][v].wrote = "ACKNOWLEDGED" /\ exRun[e][w].wrote = "ACKNOWLEDGED" => v = w

ExInv == ExTypeOK /\ RunsAreSound /\ OneInserter /\ AcknowledgedOnce

(* No job, no row, no handler.                                             *)
LEMMA ExInitial == ExInit => ExInv
<1> SUFFICES ASSUME ExInit PROVE ExInv
  OBVIOUS
<1> USE ExportRecordAssumption
<1>1. ExTypeOK
  BY DEF ExInit, ExTypeOK, ExRunType, NoExport
<1>2. RunsAreSound /\ OneInserter
  BY DEF ExInit, RunsAreSound, RunSound, OneInserter, NoExport
<1>3. AcknowledgedOnce
  <2>1. \A e \in Export : ackRows[e] = 0 /\ ackEvents[e] = 0 /\ exJob[e] = "none"
    BY DEF ExInit
  <2>2. ASSUME NEW e \in Export
        PROVE  /\ ackRows[e] <= 1 /\ ackEvents[e] = ackRows[e]
               /\ ackRows[e] # 1 /\ exJob[e] # "completed"
    BY <2>1
  <2> QED
    BY <2>2 DEF AcknowledgedOnce
<1> QED
  BY <1>1, <1>2, <1>3 DEF ExInv

(* A handler's step that commits nothing: what it becomes is sound, it     *)
(* opens an acknowledgement only when no other is open, and it completes   *)
(* the job only when that is earned.                                       *)
LEMMA HandlerStepKeepsEx ==
  ASSUME ExInv, NEW e \in Export, NEW w \in ExWorker, NEW y \in ExRunType,
         exRun' = [exRun EXCEPT ![e][w] = y],
         exEffect \subseteq exEffect', exEffect' \subseteq Export,
         UNCHANGED <<ackRows, ackEvents>>,
         exTries' \in [Export -> Nat],
         exJob' \in [Export -> {"none", "queued", "active", "failed", "completed"}],
         RunSound(e, y)',
         y.wrote = "ACKNOWLEDGED" => Inserting(e) = {},
         \A q \in Export : exJob'[q] = "completed" =>
            exJob[q] = "completed" \/ (q = e /\ (e \notin Registered \/ ackRows[e] = 1))
  PROVE  ExInv'
<1>1. exRun \in [Export -> [ExWorker -> ExRunType]]
  BY DEF ExInv, ExTypeOK
<1>2. /\ exRun' \in [Export -> [ExWorker -> ExRunType]]
      /\ \A q \in Export, v \in ExWorker : exRun'[q][v] = IF q = e /\ v = w THEN y ELSE exRun[q][v]
  BY <1>1
<1>3. ExTypeOK'
  BY <1>2 DEF ExInv, ExTypeOK
<1>4. RunsAreSound'
  <2> SUFFICES ASSUME NEW q \in Export, NEW v \in ExWorker PROVE RunSound(q, exRun[q][v])'
    BY DEF RunsAreSound
  <2>1. CASE q = e /\ v = w
    BY <2>1, <1>2
  <2>2. CASE ~(q = e /\ v = w)
    <3>1. RunSound(q, exRun[q][v]) /\ exRun'[q][v] = exRun[q][v]
      BY <2>2, <1>2 DEF ExInv, RunsAreSound
    <3> QED
      BY <3>1 DEF RunSound
  <2> QED
    BY <2>1, <2>2
<1>5. OneInserter'
  <2> SUFFICES ASSUME NEW q \in Export, NEW u \in ExWorker, NEW v \in ExWorker,
                      exRun'[q][u].wrote = "ACKNOWLEDGED", exRun'[q][v].wrote = "ACKNOWLEDGED"
               PROVE  u = v
    BY DEF OneInserter
  <2>1. CASE q = e /\ y.wrote = "ACKNOWLEDGED"
    <3>1. \A x \in ExWorker : exRun[e][x].wrote # "ACKNOWLEDGED"
      BY <2>1 DEF Inserting
    <3> QED
      BY <2>1, <3>1, <1>2
  <2>2. CASE q = e /\ y.wrote # "ACKNOWLEDGED"
    BY <2>2, <1>2 DEF ExInv, OneInserter
  <2>3. CASE q # e
    BY <2>3, <1>2 DEF ExInv, OneInserter
  <2> QED
    BY <2>1, <2>2, <2>3
<1>6. AcknowledgedOnce'
  BY DEF ExInv, AcknowledgedOnce
<1> QED
  BY <1>3, <1>4, <1>5, <1>6 DEF ExInv

(* A job is created, or expires under its handler: no row changes.         *)
LEMMA JobStepKeepsEx ==
  ASSUME ExInv, NEW e \in Export, enqueueReconciliationExport(e) \/ expireExport(e)
  PROVE  ExInv'
<1>1. UNCHANGED <<exTries, exRun, exEffect, ackRows, ackEvents>>
  BY DEF enqueueReconciliationExport, expireExport, Rows
<1>2. \E j \in {"queued", "failed"} : exJob' = [exJob EXCEPT ![e] = j]
  BY DEF enqueueReconciliationExport, expireExport, Retried
<1>3. /\ exJob' \in [Export -> {"none", "queued", "active", "failed", "completed"}]
      /\ \A q \in Export : exJob'[q] = "completed" => exJob[q] = "completed"
  BY <1>2 DEF ExInv, ExTypeOK
<1>4. ExTypeOK'
  BY <1>1, <1>3 DEF ExInv, ExTypeOK
<1> QED
  BY <1>1, <1>3, <1>4 DEF ExInv, RunsAreSound, RunSound, OneInserter, AcknowledgedOnce

(* A worker takes the job, and calls the adapter.                          *)
LEMMA CallKeepsEx ==
  ASSUME ExInv, NEW e \in Export, NEW w \in ExWorker,
         handleExportRecordJob(e, w) \/ callAdapter(e, w)
  PROVE  ExInv'
<1> USE ExportRecordAssumption
<1>1. CASE handleExportRecordJob(e, w)
  <2> DEFINE y == [step |-> "call", answer |-> "none", wrote |-> "none"]
  <2>1. /\ exRun' = [exRun EXCEPT ![e][w] = y]
        /\ exJob' = [exJob EXCEPT ![e] = "active"] /\ exTries' = [exTries EXCEPT ![e] = @ + 1]
        /\ UNCHANGED <<exEffect, ackRows, ackEvents>>
    BY <1>1 DEF handleExportRecordJob, Become, Rows
  <2>2. y \in ExRunType /\ RunSound(e, y)' /\ y.wrote # "ACKNOWLEDGED"
    BY DEF ExRunType, RunSound
  <2>3. /\ exJob' \in [Export -> {"none", "queued", "active", "failed", "completed"}]
        /\ \A q \in Export : exJob'[q] = "completed" => exJob[q] = "completed"
        /\ exTries' \in [Export -> Nat]
    BY <2>1 DEF ExInv, ExTypeOK
  <2>4. exEffect \subseteq exEffect' /\ exEffect' \subseteq Export
    BY <2>1 DEF ExInv, ExTypeOK
  <2> HIDE DEF y
  <2> QED
    BY <2>1, <2>2, <2>3, <2>4, HandlerStepKeepsEx
<1>2. CASE callAdapter(e, w)
  <2>1. PICK answer \in {"ACKNOWLEDGED", "FAILED", "NOT_CONFIGURED"} :
          /\ answer = "NOT_CONFIGURED" <=> e \notin Registered
          /\ exEffect \subseteq exEffect' /\ exEffect' \subseteq exEffect \cup {e}
          /\ answer = "ACKNOWLEDGED" => e \in exEffect'
          /\ Become(e, w, "answered", answer, "none")
    BY <1>2 DEF callAdapter
  <2> DEFINE y == [step |-> "answered", answer |-> answer, wrote |-> "none"]
  <2>2. exRun' = [exRun EXCEPT ![e][w] = y] /\ UNCHANGED <<exJob, exTries, ackRows, ackEvents>>
    BY <1>2, <2>1 DEF Become, callAdapter, Rows
  <2>3. y \in ExRunType /\ RunSound(e, y)' /\ y.wrote # "ACKNOWLEDGED"
    BY <2>1 DEF ExRunType, RunSound
  <2>4. /\ exJob' \in [Export -> {"none", "queued", "active", "failed", "completed"}]
        /\ exTries' \in [Export -> Nat] /\ exEffect' \subseteq Export
    BY <2>1, <2>2 DEF ExInv, ExTypeOK
  <2> HIDE DEF y
  <2> QED
    BY <2>1, <2>2, <2>3, <2>4, HandlerStepKeepsEx
<1> QED
  BY <1>1, <1>2

(* The answer is written down in the open transaction: the key is free,    *)
(* taken by an open insert, or taken for good.                             *)
LEMMA RecordKeepsEx ==
  ASSUME ExInv, NEW e \in Export, NEW w \in ExWorker,
         recordExportAcknowledgement(e, w) \/ recordFailure(e, w)
  PROVE  ExInv'
<1> USE ExportRecordAssumption
<1>1. UNCHANGED <<exJob, exTries, exEffect, ackRows, ackEvents>>
  BY DEF recordExportAcknowledgement, recordFailure, Rows
<1>2. /\ RunSound(e, exRun[e][w]) /\ ackRows[e] \in Nat /\ ackRows[e] <= 1
      /\ exEffect \subseteq Export
  BY DEF ExInv, ExTypeOK, RunsAreSound, AcknowledgedOnce
<1>3. PICK y \in ExRunType :
        /\ exRun' = [exRun EXCEPT ![e][w] = y]
        /\ RunSound(e, y)
        /\ y.wrote = "ACKNOWLEDGED" => Inserting(e) = {}
  <2>1. CASE recordExportAcknowledgement(e, w)
    <3> DEFINE wait == [step |-> "waiting", answer |-> "ACKNOWLEDGED", wrote |-> "none"]
               open == [step |-> "written", answer |-> "ACKNOWLEDGED", wrote |-> "ACKNOWLEDGED"]
               late == [step |-> "thrown", answer |-> "ACKNOWLEDGED", wrote |-> "none"]
               same == [step |-> "written", answer |-> "ACKNOWLEDGED", wrote |-> "none"]
    <3>1. /\ wait \in ExRunType /\ open \in ExRunType /\ late \in ExRunType /\ same \in ExRunType
      BY DEF ExRunType
    <3>2. e \in exEffect
      BY <2>1, <1>2 DEF recordExportAcknowledgement, RunSound
    <3>3. RunSound(e, wait) /\ RunSound(e, late)
      BY <3>2 DEF RunSound
    <3>4. /\ ackRows[e] = 0 => RunSound(e, open)
          /\ ackRows[e] > 0 => RunSound(e, same)
      BY <3>2, <1>2 DEF RunSound
    <3>5. \/ exRun' = [exRun EXCEPT ![e][w] = wait]
          \/ Inserting(e) = {} /\ ackRows[e] = 0 /\ exRun' = [exRun EXCEPT ![e][w] = open]
          \/ exRun' = [exRun EXCEPT ![e][w] = late]
          \/ ackRows[e] > 0 /\ exRun' = [exRun EXCEPT ![e][w] = same]
      BY <2>1 DEF recordExportAcknowledgement, Become
    <3>6. wait.wrote = "none" /\ late.wrote = "none" /\ same.wrote = "none"
      OBVIOUS
    <3> HIDE DEF wait, open, late, same
    <3> QED
      BY <3>1, <3>3, <3>4, <3>5, <3>6
  <2>2. CASE recordFailure(e, w)
    <3> DEFINE fail == [step |-> "thrown", answer |-> "FAILED", wrote |-> "FAILED"]
    <3>1. fail \in ExRunType /\ RunSound(e, fail) /\ fail.wrote = "FAILED"
      BY DEF ExRunType, RunSound
    <3>2. exRun' = [exRun EXCEPT ![e][w] = fail]
      BY <2>2 DEF recordFailure, Become
    <3> HIDE DEF fail
    <3> QED
      BY <3>1, <3>2
  <2> QED
    BY <2>1, <2>2
<1>4. RunSound(e, y)'
  BY <1>1, <1>3 DEF RunSound
<1>5. /\ exTries' \in [Export -> Nat]
      /\ exJob' \in [Export -> {"none", "queued", "active", "failed", "completed"}]
  BY <1>1 DEF ExInv, ExTypeOK
<1> QED
  BY <1>1, <1>2, <1>3, <1>4, <1>5, HandlerStepKeepsEx

(* The handler is gone: rolled back, completed or dead.                    *)
LEMMA EndKeepsEx ==
  ASSUME ExInv, NEW e \in Export, NEW w \in ExWorker,
         rollbackExport(e, w) \/ completeExport(e, w) \/ crashExport(e, w)
  PROVE  ExInv'
<1> USE ExportRecordAssumption
<1>1. /\ exRun' = [exRun EXCEPT ![e][w] = NoExport]
      /\ UNCHANGED <<exTries, exEffect, ackRows, ackEvents>>
  BY DEF rollbackExport, completeExport, crashExport, Rows
<1>2. NoExport \in ExRunType /\ RunSound(e, NoExport)' /\ NoExport.wrote # "ACKNOWLEDGED"
  BY DEF NoExport, ExRunType, RunSound
<1>3. /\ exJob \in [Export -> {"none", "queued", "active", "failed", "completed"}]
      /\ RunSound(e, exRun[e][w])
      /\ exTries' \in [Export -> Nat] /\ exEffect' \subseteq Export
  BY <1>1 DEF ExInv, ExTypeOK, RunsAreSound
<1>4. /\ exJob' \in [Export -> {"none", "queued", "active", "failed", "completed"}]
      /\ \A q \in Export : exJob'[q] = "completed" =>
            exJob[q] = "completed" \/ (q = e /\ (e \notin Registered \/ ackRows[e] = 1))
  <2>1. CASE rollbackExport(e, w) \/ crashExport(e, w)
    <3>1. Retried(e) \in {"queued", "failed"}
      BY DEF Retried
    <3>2. exJob' = exJob \/ exJob' = [exJob EXCEPT ![e] = IF @ = "active" THEN Retried(e) ELSE @]
      BY <2>1 DEF rollbackExport, crashExport
    <3> QED
      BY <3>1, <3>2, <1>3
  <2>2. CASE completeExport(e, w)
    BY <2>2, <1>3 DEF completeExport, RunSound, Step
  <2> QED
    BY <2>1, <2>2
<1> QED
  BY <1>1, <1>2, <1>3, <1>4, HandlerStepKeepsEx

(* COMMIT: an open acknowledgement was the only one, so nothing was        *)
(* committed before it and no other handler has one open.                  *)
LEMMA CommitKeepsEx ==
  ASSUME ExInv, NEW e \in Export, NEW w \in ExWorker, commitExport(e, w)
  PROVE  ExInv'
<1> USE ExportRecordAssumption
<1> DEFINE x == exRun[e][w]
           acked == IF x.wrote = "ACKNOWLEDGED" THEN 1 ELSE 0
           y == [step |-> "done", answer |-> x.answer, wrote |-> "none"]
<1>1. /\ x.step = "written" \/ (x.step = "answered" /\ x.answer = "NOT_CONFIGURED")
      /\ ackRows' = [ackRows EXCEPT ![e] = @ + acked]
      /\ ackEvents' = [ackEvents EXCEPT ![e] = @ + acked]
      /\ exRun' = [exRun EXCEPT ![e][w] = y]
      /\ UNCHANGED <<exJob, exTries, exEffect>>
  BY DEF commitExport, Become, Step
<1>2. x \in ExRunType /\ y \in ExRunType /\ acked \in {0, 1} /\ RunSound(e, x)
  BY DEF ExInv, ExTypeOK, RunsAreSound, ExRunType
<1>3. /\ exRun' \in [Export -> [ExWorker -> ExRunType]]
      /\ \A q \in Export, v \in ExWorker : exRun'[q][v] = IF q = e /\ v = w THEN y ELSE exRun[q][v]
  BY <1>1, <1>2 DEF ExInv, ExTypeOK
<1>4. /\ ackRows \in [Export -> Nat] /\ ackEvents \in [Export -> Nat]
      /\ \A q \in Export : ackRows[q] <= 1 /\ ackEvents[q] = ackRows[q]
  BY DEF ExInv, ExTypeOK, AcknowledgedOnce
<1>5. /\ ackRows' \in [Export -> Nat] /\ ackEvents' \in [Export -> Nat]
      /\ \A q \in Export : /\ ackRows'[q] = IF q = e THEN ackRows[e] + acked ELSE ackRows[q]
                           /\ ackEvents'[q] = IF q = e THEN ackEvents[e] + acked ELSE ackEvents[q]
  BY <1>1, <1>2, <1>4
<1>6. /\ acked = 1 => ackRows[e] = 0 /\ e \in exEffect
      /\ x.step = "written" => ackRows[e] + acked = 1
      /\ x.step # "written" => acked = 0 /\ e \notin Registered
  BY <1>1, <1>2, <1>4 DEF RunSound
<1>7. \A v \in ExWorker \ {w} : acked = 1 => exRun[e][v].wrote # "ACKNOWLEDGED"
  BY DEF ExInv, OneInserter
<1>8. y.step = "done" /\ y.wrote = "none" /\ y.answer = x.answer
  OBVIOUS
<1> HIDE DEF acked, y
<1>9. ExTypeOK'
  BY <1>1, <1>3, <1>5 DEF ExInv, ExTypeOK
<1>10. RunsAreSound'
  <2> SUFFICES ASSUME NEW q \in Export, NEW v \in ExWorker PROVE RunSound(q, exRun[q][v])'
    BY DEF RunsAreSound
  <2>1. CASE q = e /\ v = w
    <3>1. exRun'[q][v] = y /\ ackRows'[e] = ackRows[e] + acked
      BY <2>1, <1>3, <1>5
    <3> QED
      BY <2>1, <3>1, <1>1, <1>2, <1>6, <1>8 DEF RunSound
  <2>2. CASE q = e /\ v # w
    <3>1. exRun'[q][v] = exRun[q][v] /\ ackRows'[e] = ackRows[e] + acked /\ RunSound(q, exRun[q][v])
      BY <2>2, <1>3, <1>5 DEF ExInv, RunsAreSound
    <3>2. CASE acked = 0
      BY <3>1, <3>2, <2>2, <1>1, <1>4 DEF RunSound
    <3>3. CASE acked = 1
      BY <3>1, <3>3, <2>2, <1>1, <1>6, <1>7 DEF RunSound
    <3> QED
      BY <3>2, <3>3, <1>2
  <2>3. CASE q # e
    <3>1. exRun'[q][v] = exRun[q][v] /\ ackRows'[q] = ackRows[q] /\ RunSound(q, exRun[q][v])
      BY <2>3, <1>3, <1>5 DEF ExInv, RunsAreSound
    <3> QED
      BY <3>1, <1>1 DEF RunSound
  <2> QED
    BY <2>1, <2>2, <2>3
<1>11. OneInserter'
  <2> SUFFICES ASSUME NEW q \in Export, NEW u \in ExWorker, NEW v \in ExWorker,
                      exRun'[q][u].wrote = "ACKNOWLEDGED", exRun'[q][v].wrote = "ACKNOWLEDGED"
               PROVE  u = v
    BY DEF OneInserter
  <2> QED
    BY <1>3, <1>8 DEF ExInv, OneInserter
<1>12. AcknowledgedOnce'
  <2> SUFFICES ASSUME NEW q \in Export
               PROVE  /\ ackRows'[q] <= 1 /\ ackEvents'[q] = ackRows'[q]
                      /\ ackRows'[q] = 1 => q \in exEffect
                      /\ exJob[q] = "completed" /\ q \in Registered => ackRows'[q] = 1
    BY <1>1 DEF AcknowledgedOnce
  <2>1. /\ ackRows[q] <= 1 /\ ackEvents[q] = ackRows[q]
        /\ ackRows[q] = 1 => q \in exEffect
        /\ exJob[q] = "completed" /\ q \in Registered => ackRows[q] = 1
    BY DEF ExInv, AcknowledgedOnce
  <2> QED
    BY <2>1, <1>2, <1>4, <1>5, <1>6
<1> QED
  BY <1>9, <1>10, <1>11, <1>12 DEF ExInv

(* No step breaks the invariant.                                           *)
LEMMA ExStep == ExInv /\ [ExNext]_exVars => ExInv'
<1> SUFFICES ASSUME ExInv, [ExNext]_exVars PROVE ExInv'
  OBVIOUS
<1>1. CASE UNCHANGED exVars
  BY <1>1 DEF exVars, ExInv, ExTypeOK, RunsAreSound, RunSound, OneInserter, AcknowledgedOnce
<1>2. ASSUME NEW e \in Export, enqueueReconciliationExport(e) \/ expireExport(e) PROVE ExInv'
  BY <1>2, JobStepKeepsEx
<1>3. ASSUME NEW e \in Export, NEW w \in ExWorker,
             \/ handleExportRecordJob(e, w) \/ callAdapter(e, w)
             \/ recordExportAcknowledgement(e, w) \/ recordFailure(e, w)
             \/ commitExport(e, w) \/ rollbackExport(e, w)
             \/ completeExport(e, w) \/ crashExport(e, w)
      PROVE  ExInv'
  BY <1>3, CallKeepsEx, RecordKeepsEx, CommitKeepsEx, EndKeepsEx
<1> QED
  BY <1>1, <1>2, <1>3 DEF ExNext

(* However often a job is handed out, expires under its handler or loses   *)
(* it, an export is acknowledged once, with its event, for a record that   *)
(* was taken in, and completes with an acknowledgement, for any number of  *)
(* exports and handlers (recordExportAcknowledgement).                     *)
THEOREM ExportsAreAcknowledgedOnce == ExSpec => []AcknowledgedOnce
<1>1. ExSpec => []ExInv
  BY ExInitial, ExStep, PTL DEF ExSpec
<1>2. ExInv => AcknowledgedOnce
  BY DEF ExInv
<1> QED
  BY <1>1, <1>2, PTL

-----------------------------------------------------------------------------
(***************************************************************************)
(* The reports on claims, for any number of claims. What a report adds up  *)
(* are folds over finite sets of claims; their recursion equation and the  *)
(* facts about sums are proved here by taking a smallest set for which     *)
(* they fail. The rest is an invariant about what a reader between two     *)
(* statements has seen.                                                    *)
(***************************************************************************)

(* A nonempty collection of subsets of a finite set has a minimal one: the *)
(* form of induction the proofs below use.                                 *)
LEMMA MinimalSubset ==
    ASSUME NEW S, IsFiniteSet(S), NEW T, T \subseteq SUBSET S, T # {}
    PROVE  \E x \in T : \A y \in T : y \subseteq x => y = x
<1>1. IsWellFoundedOn(StrictSubsetOrdering(S), SUBSET S)
  BY FS_StrictSubsetOrderingWellFounded, FS_FiniteSubsetsOfFinite
<1>2. \E x \in T : \A y \in T : ~(<<y, x>> \in StrictSubsetOrdering(S))
  BY <1>1, WFMin
<1>3. \A x, y \in SUBSET S : <<y, x>> \in StrictSubsetOrdering(S) <=> y \subseteq x /\ y # x
  BY DEF StrictSubsetOrdering
<1> QED BY <1>2, <1>3

(* The element the sum takes next.                                         *)
Pick(s) == CHOOSE x \in s : TRUE

(* SumFunctionOnSet, with its folds expanded.                              *)
LEMMA SumExpanded ==
    ASSUME NEW f, NEW S
    PROVE  SumFunctionOnSet(f, S) =
             (CHOOSE iter : iter = [s \in SUBSET S |->
                 IF s = {} THEN 0 ELSE f[Pick(s)] + iter[s \ {Pick(s)}]])[S]
BY DEF SumFunctionOnSet, FoldFunctionOnSet, MapThenFoldSet, Pick

(* The recursion equation of the sum over the subsets of a finite set.     *)
LEMMA SumRecursion ==
    ASSUME NEW C, IsFiniteSet(C), NEW f
    PROVE  \A s \in SUBSET C : SumFunctionOnSet(f, s) =
             IF s = {} THEN 0 ELSE f[Pick(s)] + SumFunctionOnSet(f, s \ {Pick(s)})
<1> DEFINE Sum(s) == SumFunctionOnSet(f, s)
           Summed(s) == IF s = {} THEN 0 ELSE f[Pick(s)] + Sum(s \ {Pick(s)})
           Solves(g, S) == g = [s \in SUBSET S |->
                                  IF s = {} THEN 0 ELSE f[Pick(s)] + g[s \ {Pick(s)}]]
           Bad == {s \in SUBSET C : Sum(s) # Summed(s)}
<1>0. \A s : s # {} => Pick(s) \in s
  BY DEF Pick
<1>1. \A S : Sum(S) = (CHOOSE g : Solves(g, S))[S]
  BY SumExpanded
<1> HIDE DEF Sum
<1> SUFFICES ASSUME Bad # {} PROVE FALSE
  BY DEF Sum
<1>1a. Bad \subseteq SUBSET C
  OBVIOUS
<1>2. PICK S \in Bad : \A t \in Bad : t \subseteq S => t = S
  <2> HIDE DEF Bad
  <2> QED BY <1>1a, MinimalSubset
<1>3. \A t \in SUBSET S : t # S => Sum(t) = Summed(t)
  BY <1>2
<1>4. PICK g : g = [t \in SUBSET S |-> Summed(t)]
  OBVIOUS
<1> HIDE DEF Bad
<1>5. Solves(g, S)
  <2>1. ASSUME NEW t \in SUBSET S
        PROVE  g[t] = IF t = {} THEN 0 ELSE f[Pick(t)] + g[t \ {Pick(t)}]
    <3>1. CASE t = {}
      BY <3>1, <1>4
    <3>2. CASE t # {}
      <4>1. t \ {Pick(t)} \in SUBSET S /\ t \ {Pick(t)} # S
        BY <3>2, <1>0
      <4>2. g[t \ {Pick(t)}] = Sum(t \ {Pick(t)})
        BY <4>1, <1>3, <1>4
      <4>3. g[t] = f[Pick(t)] + Sum(t \ {Pick(t)})
        BY <3>2, <1>4
      <4> QED BY <3>2, <4>2, <4>3
    <3> QED BY <3>1, <3>2
  <2>2. g = [t \in SUBSET S |-> g[t]]
    BY <1>4
  <2> QED BY <2>1, <2>2
<1>6. PICK h : h = CHOOSE x : Solves(x, S)
  OBVIOUS
<1>7. Solves(h, S)
  BY <1>5, <1>6
<1>8. h[S] = g[S]
  <2> DEFINE Differ == {t \in SUBSET S : h[t] # g[t]}
  <2> SUFFICES ASSUME Differ # {} PROVE FALSE
    OBVIOUS
  <2>1. IsFiniteSet(S)
    BY <1>2, FS_Subset DEF Bad
  <2>1a. Differ \subseteq SUBSET S
    OBVIOUS
  <2>2. PICK t \in Differ : \A u \in Differ : u \subseteq t => u = t
    <3> HIDE DEF Differ
    <3> QED BY <2>1, <2>1a, MinimalSubset
  <2>3. t \in SUBSET S /\ h[t] # g[t]
    BY <2>2
  <2>4. /\ h[t] = IF t = {} THEN 0 ELSE f[Pick(t)] + h[t \ {Pick(t)}]
        /\ g[t] = IF t = {} THEN 0 ELSE f[Pick(t)] + g[t \ {Pick(t)}]
    BY <1>5, <1>7, <2>3
  <2>5. t # {}
    BY <2>3, <2>4
  <2>6. t \ {Pick(t)} \in SUBSET S /\ t \ {Pick(t)} \subseteq t /\ t \ {Pick(t)} # t
    BY <2>3, <2>5, <1>0
  <2>7. h[t \ {Pick(t)}] = g[t \ {Pick(t)}]
    BY <2>2, <2>6
  <2> QED BY <2>3, <2>4, <2>7
<1>9. Sum(S) = Summed(S)
  BY <1>1, <1>4, <1>6, <1>8
<1> QED BY <1>2, <1>9 DEF Bad

(* Sums of integers are integers.                                          *)
LEMMA SumType ==
    ASSUME NEW C, IsFiniteSet(C), NEW f, \A c \in C : f[c] \in Int
    PROVE  \A s \in SUBSET C : SumFunctionOnSet(f, s) \in Int
<1> DEFINE Sum(s) == SumFunctionOnSet(f, s)
           Bad == {s \in SUBSET C : Sum(s) \notin Int}
<1>0. \A s : s # {} => Pick(s) \in s
  BY DEF Pick
<1>1. \A s \in SUBSET C : Sum(s) = IF s = {} THEN 0 ELSE f[Pick(s)] + Sum(s \ {Pick(s)})
  BY SumRecursion
<1> HIDE DEF Sum
<1> SUFFICES ASSUME Bad # {} PROVE FALSE
  BY DEF Sum
<1>2. Bad \subseteq SUBSET C
  OBVIOUS
<1>3. PICK s \in Bad : \A t \in Bad : t \subseteq s => t = s
  <2> HIDE DEF Bad
  <2> QED BY <1>2, MinimalSubset
<1>4. s # {} /\ s \in SUBSET C
  <2>1. s \in SUBSET C /\ Sum(s) \notin Int
    BY <1>3
  <2>2. Sum({}) = 0
    BY <1>1
  <2>3. s # {}
    BY <2>1, <2>2
  <2> QED BY <2>1, <2>3
<1>5. Pick(s) \in s
  BY <1>0, <1>4
<1>6. Sum(s \ {Pick(s)}) \in Int
  BY <1>3, <1>4, <1>5
<1>7. Sum(s) = f[Pick(s)] + Sum(s \ {Pick(s)})
  BY <1>1, <1>4
<1>8. Sum(s) \in Int
  BY <1>4, <1>5, <1>6, <1>7
<1> QED BY <1>3, <1>8

(* A sum does not depend on the order in which it is taken.                *)
LEMMA SumRemove ==
    ASSUME NEW C, IsFiniteSet(C), NEW f, \A c \in C : f[c] \in Int
    PROVE  \A s \in SUBSET C : \A x \in s :
             SumFunctionOnSet(f, s) = f[x] + SumFunctionOnSet(f, s \ {x})
<1> DEFINE Sum(s) == SumFunctionOnSet(f, s)
           Bad == {s \in SUBSET C : \E x \in s : Sum(s) # f[x] + Sum(s \ {x})}
<1>0. \A s : s # {} => Pick(s) \in s
  BY DEF Pick
<1>1. /\ \A s \in SUBSET C : Sum(s) = IF s = {} THEN 0 ELSE f[Pick(s)] + Sum(s \ {Pick(s)})
      /\ \A s \in SUBSET C : Sum(s) \in Int
  BY SumRecursion, SumType
<1> HIDE DEF Sum
<1> SUFFICES ASSUME Bad # {} PROVE FALSE
  BY DEF Sum
<1>2. Bad \subseteq SUBSET C
  OBVIOUS
<1>3. PICK s \in Bad : \A t \in Bad : t \subseteq s => t = s
  <2> HIDE DEF Bad
  <2> QED BY <1>2, MinimalSubset
<1>4. PICK x \in s : Sum(s) # f[x] + Sum(s \ {x})
  BY <1>3
<1>5. PICK y : y = Pick(s)
  OBVIOUS
<1>6. s \in SUBSET C /\ y \in s /\ Sum(s) = f[y] + Sum(s \ {y})
  BY <1>0, <1>1, <1>3, <1>4, <1>5
<1>7. x # y
  BY <1>4, <1>6
<1>8. PICK a, b, c : a = s \ {y} /\ b = s \ {x} /\ c = (s \ {y}) \ {x}
  OBVIOUS
<1>9. /\ a \in SUBSET C /\ b \in SUBSET C /\ c \in SUBSET C
      /\ a \subseteq s /\ a # s /\ b \subseteq s /\ b # s
      /\ x \in a /\ y \in b /\ c = a \ {x} /\ c = b \ {y}
  BY <1>4, <1>6, <1>7, <1>8
<1>10. a \notin Bad /\ b \notin Bad
  <2> HIDE DEF Bad
  <2> QED BY <1>3, <1>9
<1>11. Sum(a) = f[x] + Sum(c) /\ Sum(b) = f[y] + Sum(c)
  BY <1>9, <1>10
<1>12. f[x] \in Int /\ f[y] \in Int /\ Sum(c) \in Int
  BY <1>1, <1>4, <1>6, <1>9
<1> QED BY <1>4, <1>6, <1>8, <1>11, <1>12

(* A sum that is smaller claim by claim is smaller.                        *)
LEMMA SumMonotone ==
    ASSUME NEW C, IsFiniteSet(C), NEW f, NEW g,
           \A c \in C : f[c] \in Int /\ g[c] \in Int /\ g[c] <= f[c]
    PROVE  \A s \in SUBSET C : SumFunctionOnSet(g, s) <= SumFunctionOnSet(f, s)
<1> DEFINE F(s) == SumFunctionOnSet(f, s)
           G(s) == SumFunctionOnSet(g, s)
           Bad == {s \in SUBSET C : ~(G(s) <= F(s))}
<1>0. \A s : s # {} => Pick(s) \in s
  BY DEF Pick
<1>1. /\ \A s \in SUBSET C : F(s) = IF s = {} THEN 0 ELSE f[Pick(s)] + F(s \ {Pick(s)})
      /\ \A s \in SUBSET C : F(s) \in Int
  BY SumRecursion, SumType
<1>2. /\ \A s \in SUBSET C : G(s) = IF s = {} THEN 0 ELSE g[Pick(s)] + G(s \ {Pick(s)})
      /\ \A s \in SUBSET C : G(s) \in Int
  BY SumRecursion, SumType
<1> HIDE DEF F, G
<1> SUFFICES ASSUME Bad # {} PROVE FALSE
  BY DEF F, G
<1>3. Bad \subseteq SUBSET C
  OBVIOUS
<1>4. PICK s \in Bad : \A t \in Bad : t \subseteq s => t = s
  <2> HIDE DEF Bad
  <2> QED BY <1>3, MinimalSubset
<1>5. s \in SUBSET C /\ ~(G(s) <= F(s)) /\ s # {}
  <2>1. s \in SUBSET C /\ ~(G(s) <= F(s))
    BY <1>4
  <2>2. F({}) = 0 /\ G({}) = 0
    BY <1>1, <1>2
  <2>3. s # {}
    BY <2>1, <2>2
  <2> QED BY <2>1, <2>3
<1>6. PICK x \in s : x = Pick(s)
  BY <1>0, <1>5
<1>7. PICK t : t = s \ {x}
  OBVIOUS
<1>7a. t \in SUBSET C /\ t \subseteq s /\ t # s
  BY <1>5, <1>6, <1>7
<1>8. G(t) <= F(t)
  BY <1>4, <1>7a
<1>9. F(s) = f[x] + F(t) /\ G(s) = g[x] + G(t)
  BY <1>1, <1>2, <1>5, <1>6, <1>7
<1>10. f[x] \in Int /\ g[x] \in Int /\ g[x] <= f[x] /\ F(t) \in Int /\ G(t) \in Int
  BY <1>1, <1>2, <1>5, <1>6, <1>7a
<1> QED BY <1>5, <1>8, <1>9, <1>10

-----------------------------------------------------------------------------
(* What is left of the claims of S that have status k, for a report that   *)
(* shows amounts A, recoveries R and statuses st.                          *)
Left(A, R, st, S, k) ==
    SumFunctionOnSet(A, {c \in S : st[c] = k}) - SumFunctionOnSet(R, {c \in S : st[c] = k})

(* A claim adds its remainder to the part of its status and to no other.   *)
LEMMA LeftOfOneMore ==
    ASSUME NEW C, IsFiniteSet(C), NEW A, NEW R, NEW st,
           \A c \in C : A[c] \in Int /\ R[c] \in Int,
           NEW S \in SUBSET C, NEW x \in S, NEW k
    PROVE  /\ Left(A, R, st, S, k) \in Int
           /\ Left(A, R, st, S \ {x}, k) \in Int
           /\ Left(A, R, st, S, k) =
                 Left(A, R, st, S \ {x}, k) + IF st[x] = k THEN A[x] - R[x] ELSE 0
<1>1. PICK T : T = {c \in S : st[c] = k}
  OBVIOUS
<1>2. PICK U : U = {c \in S \ {x} : st[c] = k}
  OBVIOUS
<1>3. T \in SUBSET C /\ U \in SUBSET C
  BY <1>1, <1>2
<1>4. PICK a, b, u, v : /\ a = SumFunctionOnSet(A, T) /\ b = SumFunctionOnSet(R, T)
                        /\ u = SumFunctionOnSet(A, U) /\ v = SumFunctionOnSet(R, U)
  OBVIOUS
<1>5. a \in Int /\ b \in Int /\ u \in Int /\ v \in Int
  BY <1>3, <1>4, SumType
<1>6. Left(A, R, st, S, k) = a - b /\ Left(A, R, st, S \ {x}, k) = u - v
  BY <1>1, <1>2, <1>4 DEF Left
<1>7. CASE st[x] = k
  <2>1. x \in T /\ U = T \ {x}
    BY <1>1, <1>2, <1>7
  <2>2. a = A[x] + u /\ b = R[x] + v
    BY <1>3, <1>4, <2>1, SumRemove
  <2>3. A[x] \in Int /\ R[x] \in Int
    OBVIOUS
  <2> QED BY <1>5, <1>6, <1>7, <2>2, <2>3
<1>8. CASE st[x] # k
  <2>1. U = T
    BY <1>1, <1>2, <1>8
  <2> QED BY <1>4, <1>5, <1>6, <1>8, <2>1
<1> QED BY <1>7, <1>8

(* The parts of a bucket are its whole, when what was recovered of a       *)
(* recovered claim is all of it.                                           *)
LEMMA PartsAreTheWhole ==
    ASSUME NEW C, IsFiniteSet(C), NEW A, NEW R, NEW st,
           \A c \in C : A[c] \in Int /\ R[c] \in Int,
           \A c \in C : st[c] \in {"open"} \cup ClaimTerminalStatus,
           \A c \in C : st[c] = "recovered" => R[c] = A[c]
    PROVE  \A S \in SUBSET C :
             SumFunctionOnSet(A, S) = SumFunctionOnSet(R, S) + Left(A, R, st, S, "open")
                 + Left(A, R, st, S, "written_off") + Left(A, R, st, S, "denied")
<1> DEFINE Whole(S) == SumFunctionOnSet(A, S)
           Back(S) == SumFunctionOnSet(R, S)
           Part(S, k) == Left(A, R, st, S, k)
           Bad == {S \in SUBSET C : Whole(S) # Back(S) + Part(S, "open") + Part(S, "written_off")
                                                + Part(S, "denied")}
<1>1. /\ Whole({}) = 0 /\ Back({}) = 0
      /\ \A k : Part({}, k) = 0
  <2>1. Whole({}) = 0
    <3>1. \A s \in SUBSET C : Whole(s) = IF s = {} THEN 0 ELSE A[Pick(s)] + Whole(s \ {Pick(s)})
      BY SumRecursion
    <3> HIDE DEF Whole
    <3> QED BY <3>1
  <2>2. Back({}) = 0
    <3>1. \A s \in SUBSET C : Back(s) = IF s = {} THEN 0 ELSE R[Pick(s)] + Back(s \ {Pick(s)})
      BY SumRecursion
    <3> HIDE DEF Back
    <3> QED BY <3>1
  <2>3. \A k : {c \in {} : st[c] = k} = {}
    OBVIOUS
  <2> QED BY <2>1, <2>2, <2>3 DEF Left
<1>2. \A S \in SUBSET C : \A x \in S :
        /\ Whole(S) = A[x] + Whole(S \ {x}) /\ Back(S) = R[x] + Back(S \ {x})
        /\ Whole(S \ {x}) \in Int /\ Back(S \ {x}) \in Int
  <2> SUFFICES ASSUME NEW S \in SUBSET C, NEW x \in S
               PROVE  /\ Whole(S) = A[x] + Whole(S \ {x}) /\ Back(S) = R[x] + Back(S \ {x})
                      /\ Whole(S \ {x}) \in Int /\ Back(S \ {x}) \in Int
    OBVIOUS
  <2>1. Whole(S) = A[x] + Whole(S \ {x})
    BY SumRemove
  <2>2. Back(S) = R[x] + Back(S \ {x})
    BY SumRemove
  <2>3. S \ {x} \in SUBSET C
    OBVIOUS
  <2>4. Whole(S \ {x}) \in Int /\ Back(S \ {x}) \in Int
    BY <2>3, SumType
  <2> QED BY <2>1, <2>2, <2>4
<1>3. ASSUME NEW S \in SUBSET C, NEW x \in S, NEW k
      PROVE  /\ Part(S \ {x}, k) \in Int
             /\ Part(S, k) = Part(S \ {x}, k) + IF st[x] = k THEN A[x] - R[x] ELSE 0
  BY LeftOfOneMore
<1> HIDE DEF Whole, Back, Part
<1> SUFFICES ASSUME Bad # {} PROVE FALSE
  BY DEF Whole, Back, Part
<1>4. Bad \subseteq SUBSET C
  OBVIOUS
<1>5. PICK S \in Bad : \A t \in Bad : t \subseteq S => t = S
  <2> HIDE DEF Bad
  <2> QED BY <1>4, MinimalSubset
<1>6. S \in SUBSET C /\ S # {}
  <2>1. {} \notin Bad
    BY <1>1
  <2> QED BY <1>4, <1>5, <2>1
<1>7. PICK x : x \in S
  BY <1>6
<1>8. PICK T : T = S \ {x}
  OBVIOUS
<1>9. T \in SUBSET C /\ T \subseteq S /\ T # S
  BY <1>6, <1>7, <1>8
<1>10. T \notin Bad
  <2> HIDE DEF Bad
  <2> QED BY <1>5, <1>9
<1>11. Whole(T) = Back(T) + Part(T, "open") + Part(T, "written_off") + Part(T, "denied")
  BY <1>9, <1>10
<1>12. PICK o, w, d, oo, ww, dd : /\ o = Part(S, "open") /\ w = Part(S, "written_off") /\ d = Part(S, "denied")
                                  /\ oo = Part(T, "open") /\ ww = Part(T, "written_off") /\ dd = Part(T, "denied")
  OBVIOUS
<1>13. /\ oo \in Int /\ ww \in Int /\ dd \in Int
       /\ o = oo + IF st[x] = "open" THEN A[x] - R[x] ELSE 0
       /\ w = ww + IF st[x] = "written_off" THEN A[x] - R[x] ELSE 0
       /\ d = dd + IF st[x] = "denied" THEN A[x] - R[x] ELSE 0
  BY <1>3, <1>6, <1>7, <1>8, <1>12
<1>14. /\ Whole(S) = A[x] + Whole(T) /\ Back(S) = R[x] + Back(T)
       /\ Whole(T) \in Int /\ Back(T) \in Int
  BY <1>2, <1>6, <1>7, <1>8
<1>15. A[x] \in Int /\ R[x] \in Int /\ st[x] \in {"open", "recovered", "denied", "written_off"}
       /\ (st[x] = "recovered" => R[x] = A[x])
  BY <1>6, <1>7 DEF ClaimTerminalStatus
<1>16. Whole(S) = Back(S) + o + w + d
  BY <1>11, <1>12, <1>13, <1>14, <1>15
<1> QED BY <1>5, <1>12, <1>16

-----------------------------------------------------------------------------
ReportedStatus == {"open"} \cup ClaimTerminalStatus

(* The books: no claim recovers more than it claims, a recovered one       *)
(* recovered it all, and the terminal events agree with the status.        *)
BooksInOrder ==
    /\ rpStatus \in [RpClaim -> ReportedStatus]
    /\ rpRecovered \in [RpClaim -> Nat]
    /\ DOMAIN rpTerminal = RpClaim
    /\ \A c \in RpClaim : rpRecovered[c] <= ClaimedOf[c]
    /\ \A c \in RpClaim : rpStatus[c] = "recovered" => rpRecovered[c] = ClaimedOf[c]
    /\ \A c \in RpClaim : rpTerminal[c] = IF rpStatus[c] = "open" THEN <<>> ELSE <<rpStatus[c]>>

ReaderTypes ==
    /\ rpReader \in {"idle", "terminal", "events", "done"}
    /\ rpDirty \in BOOLEAN
    /\ rpSeen = [status |-> rpSeen.status, recovered |-> rpSeen.recovered, terminal |-> rpSeen.terminal]
    /\ DOMAIN rpSeen.status \subseteq RpClaim
    /\ \A c \in DOMAIN rpSeen.status : rpSeen.status[c] \in ReportedStatus

(* What a reader was told may be old, but only an open claim can have      *)
(* moved on, and only when a writer committed since.                       *)
SeenIsOld ==
    /\ \A c \in DOMAIN rpSeen.status : rpSeen.status[c] # "open" => rpStatus[c] = rpSeen.status[c]
    /\ rpReader \in {"terminal", "events"} =>
         \A c \in DOMAIN rpSeen.status : rpSeen.status[c] # rpStatus[c] => rpDirty

DerivedAgrees ==
    /\ rpReader \in {"idle", "terminal"} => rpSeen.terminal = <<>>
    /\ rpSeen.terminal # <<>> =>
         \A c \in DOMAIN rpSeen.status :
            deriveClaimStatus(rpSeen, c) # rpSeen.status[c] => rpDirty /\ rpSeen.status[c] = "open"

LinesReconcile ==
    rpReader = "done" =>
        \A c \in DOMAIN rpSeen.status :
            /\ rpSeen.recovered[c] \in Nat /\ rpSeen.recovered[c] <= ClaimedOf[c]
            /\ rpSeen.status[c] = "recovered" => rpSeen.recovered[c] = ClaimedOf[c]

ReportInvariant == BooksInOrder /\ ReaderTypes /\ SeenIsOld /\ DerivedAgrees /\ LinesReconcile

(* Before the first report.                                                *)
LEMMA ReportInitial == RpInit => ReportInvariant
<1> SUFFICES ASSUME RpInit PROVE ReportInvariant
  OBVIOUS
<1>1. BooksInOrder
  BY ClaimReportsAssumption DEF RpInit, BooksInOrder, ReportedStatus
<1>2. DOMAIN rpSeen.status = {} /\ rpSeen.terminal = <<>>
      /\ rpSeen = [status |-> rpSeen.status, recovered |-> rpSeen.recovered, terminal |-> rpSeen.terminal]
  BY DEF RpInit, NothingSeen
<1>3. ReaderTypes /\ SeenIsOld /\ DerivedAgrees /\ LinesReconcile
  BY <1>2 DEF RpInit, ReaderTypes, SeenIsOld, DerivedAgrees, LinesReconcile
<1> QED BY <1>1, <1>3 DEF ReportInvariant

(* A writer moves only open claims, and leaves a mark on a reader that is  *)
(* under way.                                                              *)
LEMMA WriterSteps ==
    ASSUME ReportInvariant, NEW c \in RpClaim,
           postRecovery(c) \/ \E new \in ClaimTerminalStatus : resolveTo(c, new)
    PROVE  ReportInvariant'
<1>0. BooksInOrder /\ ReaderTypes /\ SeenIsOld /\ DerivedAgrees /\ LinesReconcile
  BY DEF ReportInvariant
<1>1. UNCHANGED <<rpReader, rpSeen>> /\ rpDirty' = (rpReader \notin {"idle", "done"} \/ rpDirty)
  BY DEF postRecovery, resolveTo, commit
<1>2. BooksInOrder' /\ \A d \in RpClaim : rpStatus'[d] # rpStatus[d] => rpStatus[d] = "open"
  <2>1. CASE postRecovery(c)
    <3>1. PICK a \in 1..ClaimedOf[c] : /\ rpRecovered[c] + a <= ClaimedOf[c]
                                       /\ rpRecovered' = [rpRecovered EXCEPT ![c] = @ + a]
      BY <2>1 DEF postRecovery
    <3>2. UNCHANGED <<rpStatus, rpTerminal>>
      BY <2>1 DEF postRecovery
    <3>3. ClaimedOf[c] \in Nat /\ a \in Nat /\ a >= 1 /\ rpRecovered[c] \in Nat
      BY <1>0, ClaimReportsAssumption DEF BooksInOrder
    <3>4. rpStatus[c] # "recovered"
      BY <1>0, <3>1, <3>3 DEF BooksInOrder
    <3>5. /\ rpRecovered' \in [RpClaim -> Nat] /\ rpRecovered'[c] <= ClaimedOf[c]
          /\ \A d \in RpClaim : d # c => rpRecovered'[d] = rpRecovered[d]
      BY <1>0, <3>1, <3>3 DEF BooksInOrder
    <3> QED BY <1>0, <3>2, <3>4, <3>5 DEF BooksInOrder
  <2>2. CASE \E new \in ClaimTerminalStatus : resolveTo(c, new)
    <3>1. PICK new \in ClaimTerminalStatus : resolveTo(c, new)
      BY <2>2
    <3>2. PICK a \in 0..ClaimedOf[c] :
             /\ \/ new = "recovered" /\ a # 0 /\ rpRecovered[c] + a = ClaimedOf[c]
                \/ new = "denied" /\ a = 0
                \/ new = "written_off" /\ (a = 0 \/ rpRecovered[c] + a < ClaimedOf[c])
             /\ rpRecovered' = [rpRecovered EXCEPT ![c] = @ + a]
      BY <3>1 DEF resolveTo
    <3>3. /\ rpStatus' = [rpStatus EXCEPT ![c] = new]
          /\ rpTerminal' = [rpTerminal EXCEPT ![c] = Append(@, new)]
          /\ rpStatus[c] \notin ClaimTerminalStatus
      BY <3>1 DEF resolveTo
    <3>4. ClaimedOf[c] \in Nat /\ a \in Nat /\ rpRecovered[c] \in Nat /\ rpRecovered[c] <= ClaimedOf[c]
      BY <1>0, ClaimReportsAssumption DEF BooksInOrder
    <3>5. rpStatus[c] = "open" /\ rpTerminal[c] = <<>> /\ new # "open"
      BY <1>0, <3>3 DEF BooksInOrder, ReportedStatus, ClaimTerminalStatus
    <3>6. /\ rpRecovered' \in [RpClaim -> Nat] /\ rpRecovered'[c] <= ClaimedOf[c]
          /\ new = "recovered" => rpRecovered'[c] = ClaimedOf[c]
          /\ \A d \in RpClaim : d # c => rpRecovered'[d] = rpRecovered[d]
      BY <1>0, <3>2, <3>4 DEF BooksInOrder
    <3>7. /\ rpStatus' \in [RpClaim -> ReportedStatus] /\ rpStatus'[c] = new
          /\ \A d \in RpClaim : d # c => rpStatus'[d] = rpStatus[d]
      BY <1>0, <3>3 DEF BooksInOrder, ReportedStatus
    <3>8. Append(<<>>, new) = <<new>>
      OBVIOUS
    <3>9. /\ DOMAIN rpTerminal' = RpClaim /\ rpTerminal'[c] = <<new>>
          /\ \A d \in RpClaim : d # c => rpTerminal'[d] = rpTerminal[d]
      BY <1>0, <3>3, <3>5, <3>8 DEF BooksInOrder
    <3> QED BY <1>0, <3>5, <3>6, <3>7, <3>9 DEF BooksInOrder
  <2> QED BY <2>1, <2>2
<1>3. ReaderTypes'
  BY <1>0, <1>1 DEF ReaderTypes
<1>4. SeenIsOld'
  BY <1>0, <1>1, <1>2 DEF SeenIsOld, ReaderTypes
<1>5. DerivedAgrees' /\ LinesReconcile'
  BY <1>0, <1>1 DEF DerivedAgrees, LinesReconcile, deriveClaimStatus
<1> QED BY <1>2, <1>3, <1>4, <1>5 DEF ReportInvariant

(* The statements of a report.                                             *)
LEMMA ReaderSteps ==
    ASSUME ReportInvariant,
           \/ readClaims \/ readEvents \/ reportShown
           \/ \E c \in RpClaim : readStoredStatus(c) \/ readTerminalEvents(c)
    PROVE  ReportInvariant'
<1>0. BooksInOrder /\ ReaderTypes /\ SeenIsOld /\ DerivedAgrees /\ LinesReconcile
  BY DEF ReportInvariant
<1>1. UNCHANGED <<rpStatus, rpRecovered, rpTerminal>>
  BY DEF readClaims, readEvents, reportShown, readStoredStatus, readTerminalEvents, dataVars
<1>2. BooksInOrder'
  BY <1>0, <1>1 DEF BooksInOrder
<1>3. ASSUME NEW S \in SUBSET RpClaim, rpReader' \in {"events", "terminal"}, rpDirty' = FALSE,
             rpSeen' = [NothingSeen EXCEPT !.status = [c \in S |-> rpStatus[c]]]
      PROVE  ReportInvariant'
  <2>1. PICK f : f = [c \in S |-> rpStatus[c]]
    OBVIOUS
  <2>2. rpSeen' = [status |-> f, recovered |-> NothingSeen.recovered, terminal |-> <<>>]
    BY <1>3, <2>1 DEF NothingSeen
  <2>3. /\ rpSeen'.status = f /\ rpSeen'.terminal = <<>>
        /\ rpSeen' = [status |-> rpSeen'.status, recovered |-> rpSeen'.recovered, terminal |-> rpSeen'.terminal]
    BY <2>2
  <2>4. DOMAIN f = S /\ \A c \in S : f[c] = rpStatus[c] /\ f[c] \in ReportedStatus
    BY <1>0, <2>1 DEF BooksInOrder
  <2>5. ReaderTypes'
    BY <1>3, <2>3, <2>4 DEF ReaderTypes
  <2>6. SeenIsOld' /\ DerivedAgrees' /\ LinesReconcile'
    BY <1>1, <1>3, <2>3, <2>4 DEF SeenIsOld, DerivedAgrees, LinesReconcile
  <2> QED BY <1>2, <2>5, <2>6 DEF ReportInvariant
<1>4. CASE readClaims
  <2>1. PICK S \in SUBSET RpClaim : reportClaims(S, rpStatus)
    BY <1>4 DEF readClaims, getCarrierRecoveryReport, getPortfolioReconciliation, getCrossAccountPortfolio
  <2> QED BY <1>3, <1>4, <2>1 DEF readClaims, reportClaims
<1>5. CASE \E c \in RpClaim : readStoredStatus(c)
  <2>1. PICK c \in RpClaim : readStoredStatus(c)
    BY <1>5
  <2> QED BY <1>3, <2>1 DEF readStoredStatus
<1>6. CASE \E c \in RpClaim : readTerminalEvents(c)
  <2>1. PICK c \in RpClaim : readTerminalEvents(c)
    BY <1>6
  <2>2. /\ rpReader = "terminal" /\ rpReader' = "events" /\ rpDirty' = rpDirty
        /\ DOMAIN rpSeen.status = {c}
        /\ rpSeen' = [rpSeen EXCEPT !.terminal = <<rpTerminal[c]>>]
    BY <2>1 DEF readTerminalEvents
  <2>3. PICK st, re : st = rpSeen.status /\ re = rpSeen.recovered
    OBVIOUS
  <2>4. rpSeen' = [status |-> st, recovered |-> re, terminal |-> <<rpTerminal[c]>>]
    BY <1>0, <2>2, <2>3 DEF ReaderTypes
  <2>5. /\ rpSeen'.status = rpSeen.status /\ rpSeen'.terminal = <<rpTerminal[c]>>
        /\ rpSeen' = [status |-> rpSeen'.status, recovered |-> rpSeen'.recovered, terminal |-> rpSeen'.terminal]
    BY <2>3, <2>4
  <2>6. ReaderTypes' /\ SeenIsOld' /\ LinesReconcile'
    BY <1>0, <1>1, <2>2, <2>5 DEF ReaderTypes, SeenIsOld, LinesReconcile
  <2>7. deriveClaimStatus(rpSeen', c) = rpStatus[c]
    <3>1. rpSeen'.terminal[1] = rpTerminal[c]
      BY <2>5
    <3>2. CASE rpStatus[c] = "open"
      BY <1>0, <3>1, <3>2 DEF BooksInOrder, deriveClaimStatus
    <3>3. CASE rpStatus[c] # "open"
      <4>1. rpTerminal[c] = <<rpStatus[c]>>
        BY <1>0, <3>3 DEF BooksInOrder
      <4> QED BY <3>1, <4>1 DEF deriveClaimStatus
    <3> QED BY <3>2, <3>3
  <2>8. DerivedAgrees'
    <3>1. \A d \in DOMAIN rpSeen'.status : d = c
      BY <2>2, <2>5
    <3>2. rpSeen.status[c] # rpStatus[c] => rpDirty /\ rpSeen.status[c] = "open"
      BY <1>0, <2>2 DEF SeenIsOld
    <3> QED BY <2>2, <2>5, <2>7, <3>1, <3>2 DEF DerivedAgrees
  <2> QED BY <1>2, <2>6, <2>8 DEF ReportInvariant
<1>7. CASE readEvents
  <2>1. /\ rpReader' = "done" /\ rpReader = "events" /\ rpDirty' = rpDirty
        /\ rpSeen' = [rpSeen EXCEPT !.recovered = [c \in DOMAIN rpSeen.status |-> rpRecovered[c]]]
    BY <1>7 DEF readEvents
  <2>2. PICK st, te, re : st = rpSeen.status /\ te = rpSeen.terminal
                          /\ re = [c \in DOMAIN rpSeen.status |-> rpRecovered[c]]
    OBVIOUS
  <2>3. rpSeen' = [status |-> st, recovered |-> re, terminal |-> te]
    BY <1>0, <2>1, <2>2 DEF ReaderTypes
  <2>4. /\ rpSeen'.status = rpSeen.status /\ rpSeen'.terminal = rpSeen.terminal /\ rpSeen'.recovered = re
        /\ rpSeen' = [status |-> rpSeen'.status, recovered |-> rpSeen'.recovered, terminal |-> rpSeen'.terminal]
    BY <2>2, <2>3
  <2>5. ReaderTypes' /\ SeenIsOld' /\ DerivedAgrees'
    BY <1>0, <1>1, <2>1, <2>4 DEF ReaderTypes, SeenIsOld, DerivedAgrees, deriveClaimStatus
  <2>6. LinesReconcile'
    BY <1>0, <2>2, <2>4 DEF LinesReconcile, BooksInOrder, SeenIsOld, ReaderTypes
  <2> QED BY <1>2, <2>5, <2>6 DEF ReportInvariant
<1>8. CASE reportShown
  <2>1. rpReader' = "idle" /\ rpSeen' = NothingSeen /\ rpDirty' = FALSE
    BY <1>8 DEF reportShown
  <2>2. /\ DOMAIN rpSeen'.status = {} /\ rpSeen'.terminal = <<>>
        /\ rpSeen' = [status |-> rpSeen'.status, recovered |-> rpSeen'.recovered, terminal |-> rpSeen'.terminal]
    BY <2>1 DEF NothingSeen
  <2>3. ReaderTypes' /\ SeenIsOld' /\ DerivedAgrees' /\ LinesReconcile'
    BY <2>1, <2>2 DEF ReaderTypes, SeenIsOld, DerivedAgrees, LinesReconcile
  <2> QED BY <1>2, <2>3 DEF ReportInvariant
<1> QED BY <1>4, <1>5, <1>6, <1>7, <1>8

(* A bucket over any of the claims a finished report shows adds up, and no *)
(* part of it is negative.                                                 *)
LEMMA BucketReconciles ==
    ASSUME ReportInvariant, rpReader = "done", NEW S \in SUBSET DOMAIN rpSeen.status
    PROVE  LET b == accumulateClaimReconciliation(rpSeen, S) IN
           /\ claimReconciliationReconciles(b)
           /\ b.outstanding >= 0 /\ b.writtenOff >= 0 /\ b.denied >= 0
<1>1. PICK C, R, st : C = DOMAIN rpSeen.status /\ R = rpSeen.recovered /\ st = rpSeen.status
  OBVIOUS
<1>2. IsFiniteSet(C) /\ C \subseteq RpClaim
  BY <1>1, ClaimReportsAssumption, FS_Subset DEF ReportInvariant, ReaderTypes
<1>3. /\ \A c \in C : ClaimedOf[c] \in Int /\ R[c] \in Int /\ R[c] <= ClaimedOf[c]
      /\ \A c \in C : st[c] \in {"open"} \cup ClaimTerminalStatus
      /\ \A c \in C : st[c] = "recovered" => R[c] = ClaimedOf[c]
  BY <1>1, <1>2, ClaimReportsAssumption DEF ReportInvariant, LinesReconcile, ReaderTypes, ReportedStatus
<1>4. PICK whole, back : whole = SumFunctionOnSet(ClaimedOf, S) /\ back = SumFunctionOnSet(R, S)
  OBVIOUS
<1>5. PICK o, w, d : /\ o = Left(ClaimedOf, R, st, S, "open")
                     /\ w = Left(ClaimedOf, R, st, S, "written_off")
                     /\ d = Left(ClaimedOf, R, st, S, "denied")
  OBVIOUS
<1>6. whole = back + o + w + d
  <2>1. \A c \in C : ClaimedOf[c] \in Int /\ R[c] \in Int
    BY <1>3
  <2>2. S \in SUBSET C
    BY <1>1
  <2> QED BY <1>2, <1>3, <1>4, <1>5, <2>1, <2>2, PartsAreTheWhole
<1>7. ASSUME NEW k PROVE Left(ClaimedOf, R, st, S, k) \in Int /\ Left(ClaimedOf, R, st, S, k) >= 0
  <2>1. PICK T : T = {c \in S : st[c] = k}
    OBVIOUS
  <2>2. T \in SUBSET C
    BY <1>1, <2>1
  <2>3. (\A c \in C : ClaimedOf[c] \in Int) /\ (\A c \in C : R[c] \in Int)
    BY <1>3
  <2>4. PICK a, b : a = SumFunctionOnSet(ClaimedOf, T) /\ b = SumFunctionOnSet(R, T)
    OBVIOUS
  <2>5. a \in Int /\ b \in Int
    BY <1>2, <2>2, <2>3, <2>4, SumType
  <2>6. b <= a
    BY <1>2, <1>3, <2>2, <2>4, SumMonotone
  <2>7. Left(ClaimedOf, R, st, S, k) = a - b
    BY <2>1, <2>4 DEF Left
  <2> QED BY <2>5, <2>6, <2>7
<1>8. [c \in RpClaim |-> ClaimedOf[c]] = ClaimedOf
  BY ClaimReportsAssumption
<1>9. ASSUME NEW k PROVE RestOf(rpSeen, {c \in S : rpSeen.status[c] \in {k}}) = Left(ClaimedOf, R, st, S, k)
  <2>1. {c \in S : rpSeen.status[c] \in {k}} = {c \in S : st[c] = k}
    BY <1>1
  <2> QED BY <1>1, <1>8, <2>1 DEF RestOf, Left
<1>10. accumulateClaimReconciliation(rpSeen, S) =
         [claimed |-> whole, recovered |-> back, outstanding |-> o, writtenOff |-> w, denied |-> d]
  BY <1>1, <1>4, <1>5, <1>9 DEF accumulateClaimReconciliation
<1>11. o >= 0 /\ w >= 0 /\ d >= 0
  BY <1>5, <1>7
<1> QED BY <1>6, <1>10, <1>11 DEF claimReconciliationReconciles

(* Every bucket of every report adds up and no part of it is negative, for *)
(* any number of claims and whatever is posted or resolved between the     *)
(* report's statements (reconcilePortfolioTotals, aggregateCarrierRecovery *)
(* and aggregateCrossAccountPortfolio); and getDerivedClaimStatus differs  *)
(* from the stored status only for a claim resolved while it was read.     *)
THEOREM ReportsReconcile == RpSpec => []ReportReconciles
<1>1. RpInit => ReportInvariant
  BY ReportInitial
<1>2. ReportInvariant /\ [RpNext]_rpVars => ReportInvariant'
  <2> SUFFICES ASSUME ReportInvariant, [RpNext]_rpVars PROVE ReportInvariant'
    OBVIOUS
  <2>1. CASE RpNext
    BY <2>1, WriterSteps, ReaderSteps DEF RpNext
  <2>2. CASE UNCHANGED rpVars
    BY <2>2 DEF rpVars, dataVars, ReportInvariant, BooksInOrder, ReaderTypes, SeenIsOld, DerivedAgrees,
                LinesReconcile, deriveClaimStatus
  <2> QED BY <2>1, <2>2
<1>3. ReportInvariant => ReportReconciles
  <2> SUFFICES ASSUME ReportInvariant, rpReader = "done"
               PROVE  /\ \A key : \A b \in Buckets(key) :
                            /\ claimReconciliationReconciles(b)
                            /\ b.outstanding >= 0 /\ b.writtenOff >= 0 /\ b.denied >= 0
                      /\ rpSeen.terminal # <<>> =>
                           \A c \in DOMAIN rpSeen.status :
                              deriveClaimStatus(rpSeen, c) # rpSeen.status[c]
                                  => rpDirty /\ rpSeen.status[c] = "open"
    BY DEF ReportReconciles
  <2>1. ASSUME NEW key, NEW b \in Buckets(key)
        PROVE  /\ claimReconciliationReconciles(b)
               /\ b.outstanding >= 0 /\ b.writtenOff >= 0 /\ b.denied >= 0
    <3>1. PICK S \in SUBSET DOMAIN rpSeen.status : b = accumulateClaimReconciliation(rpSeen, S)
      BY <2>1 DEF Buckets
    <3> QED BY <3>1, BucketReconciles
  <2> QED BY <2>1 DEF ReportInvariant, DerivedAgrees
<1> QED BY <1>1, <1>2, <1>3, PTL DEF RpSpec

(***************************************************************************)
(* What recordPartialRecovery and resolveClaim keep true of a claim, for   *)
(* any number of concurrent transactions and any claimed amount.           *)
(***************************************************************************)

(* A resolution's money is on record exactly when its terminal event names *)
(* a recovery event: what makes the ledger's refusal protect the money.    *)
PostedWithEvent ==
    /\ posted["FULL_RECOVERY"] = IF ledger["recovered"] = WithRow THEN 1 ELSE 0
    /\ posted["WRITE_OFF"] = IF ledger["written_off"] = WithRow THEN 1 ELSE 0

(* While nothing has overlapped, the one open transaction works on what is *)
(* still the truth.                                                        *)
ReadsAreCurrent ==
    ~overlapped =>
        \A t \in Tx :
            tx[t].step # "idle" =>
                /\ \A u \in Tx : tx[u].step # "idle" => u = t
                /\ tx[t].sawStatus = status
                /\ tx[t].step = "write" => tx[t].sawTotal = recovered

LedgerInv ==
    /\ TypeOK
    /\ StatusHasEvent
    /\ PostedWithEvent
    /\ ReadsAreCurrent
    /\ SerialBooksBalance

-----------------------------------------------------------------------------
(* Each resolution has its own terminal status.                            *)
LEMMA NewStatusValues ==
    /\ newStatus["FULL_RECOVERY"] = "recovered"
    /\ newStatus["DENIAL"] = "denied"
    /\ newStatus["WRITE_OFF"] = "written_off"
  BY DEF newStatus, Resolutions

(* A fresh claim satisfies the invariant.                                  *)
LEMMA InitLedgerInv ==
  ASSUME Init
  PROVE  LedgerInv
<1>1. Claimed \in Nat \ {0} /\ MaxExports \in Nat
  BY ClaimLedgerAssumption
<1>2. Idle \in TxState /\ Idle.step = "idle"
  BY <1>1 DEF Idle, TxState, Operations, Terminal, NoAmount
<1>3. posted \in [Operations -> Nat] /\ posted["FULL_RECOVERY"] = 0 /\ posted["WRITE_OFF"] = 0
  BY DEF Init, Operations, Resolutions
<1>4. ledger \in [Terminal -> {NoEvent}] /\ \A s \in Terminal : ledger[s] = NoEvent
  BY DEF Init
<1>5. TypeOK
  <2>1. ledger \in [Terminal -> {NoEvent, WithoutRow, WithRow}]
    BY <1>4
  <2>2. tx \in [Tx -> TxState]
    BY <1>2 DEF Init
  <2>3. status \in Terminal \cup {"open"} /\ recovered \in Nat /\ exports \in 0..MaxExports
    BY <1>1 DEF Init
  <2>4. finding \in {"disputed", "recovered", "written_off"} /\ overlapped \in BOOLEAN
    BY DEF Init
  <2> QED
    BY <1>3, <2>1, <2>2, <2>3, <2>4 DEF TypeOK
<1>6. StatusHasEvent
  BY <1>4 DEF Init, StatusHasEvent, Terminal
<1>7. PostedWithEvent
  BY <1>3, <1>4 DEF PostedWithEvent, Terminal, NoEvent, WithRow
<1>8. ReadsAreCurrent
  BY <1>2 DEF Init, ReadsAreCurrent
<1>9. SerialBooksBalance
  BY <1>1, <1>4 DEF Init, SerialBooksBalance, NeverOverRecovered, SingleOutcome
<1> QED
  BY <1>5, <1>6, <1>7, <1>8, <1>9 DEF LedgerInv

(* Starting a transaction preserves it: if another one is open the history *)
(* flag is set, otherwise what was read is current.                        *)
LEMMA readClaimInv ==
  ASSUME LedgerInv, NEW t \in Tx, readClaim(t)
  PROVE  LedgerInv'
<1>1. PICK o \in Operations, a \in 0..Claimed, n \in BOOLEAN :
        tx' = [tx EXCEPT ![t] = [Idle EXCEPT !.step = "total", !.op = o, !.amount = a,
                                             !.names = n, !.sawStatus = status]]
  BY DEF readClaim
<1>2. /\ overlapped' = (overlapped \/ \E u \in Tx : tx[u].step # "idle")
      /\ UNCHANGED <<status, recovered, posted, ledger, finding, exports>>
  BY DEF readClaim
<1>3. tx'[t].step = "total" /\ tx'[t].sawStatus = status /\ \A u \in Tx : u # t => tx'[u] = tx[u]
  BY <1>1 DEF LedgerInv, TypeOK, TxState, Idle
<1>4. TypeOK'
  BY <1>1, <1>2 DEF LedgerInv, TypeOK, TxState, Idle
<1>5. StatusHasEvent' /\ PostedWithEvent'
  BY <1>2 DEF LedgerInv, StatusHasEvent, PostedWithEvent
<1>6. ReadsAreCurrent'
  <2>1. ~overlapped' => \A u \in Tx : tx[u].step = "idle"
    BY <1>2
  <2> QED
    BY <1>2, <1>3, <2>1 DEF ReadsAreCurrent
<1>7. SerialBooksBalance'
  BY <1>2 DEF LedgerInv, SerialBooksBalance, NeverOverRecovered, SingleOutcome
<1> QED
  BY <1>4, <1>5, <1>6, <1>7 DEF LedgerInv

(* Reading the total preserves it.                                         *)
LEMMA readTotalInv ==
  ASSUME LedgerInv, NEW t \in Tx, readTotal(t)
  PROVE  LedgerInv'
<1>1. /\ tx[t].step = "total"
      /\ tx' = [tx EXCEPT ![t].step = "write", ![t].sawTotal = recovered]
      /\ UNCHANGED <<status, recovered, posted, ledger, finding, exports, overlapped>>
  BY DEF readTotal
<1>2. /\ tx'[t].step = "write" /\ tx'[t].sawTotal = recovered /\ tx'[t].sawStatus = tx[t].sawStatus
      /\ \A u \in Tx : u # t => tx'[u] = tx[u]
  BY <1>1 DEF LedgerInv, TypeOK, TxState
<1>3. TypeOK'
  BY <1>1 DEF LedgerInv, TypeOK, TxState
<1>4. StatusHasEvent' /\ PostedWithEvent'
  BY <1>1 DEF LedgerInv, StatusHasEvent, PostedWithEvent
<1>5. ReadsAreCurrent'
  BY <1>1, <1>2 DEF LedgerInv, ReadsAreCurrent
<1>6. SerialBooksBalance'
  BY <1>1 DEF LedgerInv, SerialBooksBalance, NeverOverRecovered, SingleOutcome
<1> QED
  BY <1>3, <1>4, <1>5, <1>6 DEF LedgerInv

(* Closing a transaction makes it idle and leaves the others.              *)
LEMMA CloseFacts ==
  ASSUME TypeOK, NEW t \in Tx, Close(t)
  PROVE  /\ tx' \in [Tx -> TxState]
         /\ tx'[t].step = "idle"
         /\ \A u \in Tx : u # t => tx'[u] = tx[u]
  BY ClaimLedgerAssumption DEF Close, TypeOK, TxState, Idle, Operations, Terminal, NoAmount

(* A partial recovery preserves it: if nothing overlapped, the total it    *)
(* validated against is the true one.                                      *)
LEMMA recordPartialRecoveryInv ==
  ASSUME LedgerInv, NEW t \in Tx, recordPartialRecovery(t)
  PROVE  LedgerInv'
<1>1. /\ tx[t].step = "write" /\ tx[t].op = "PARTIAL"
      /\ tx[t].sawTotal + tx[t].amount <= Claimed
      /\ recovered' = recovered + tx[t].amount
      /\ posted' = IF tx[t].amount = NoAmount THEN posted ELSE [posted EXCEPT !["PARTIAL"] = @ + 1]
      /\ exports' \in {exports, IF exports < MaxExports THEN exports + 1 ELSE exports}
      /\ Close(t)
      /\ UNCHANGED <<status, ledger, finding, overlapped>>
  BY DEF recordPartialRecovery, validatePartialRecovery, PostRecovery
<1>2. tx[t] \in TxState /\ tx[t].amount \in 0..Claimed /\ recovered \in Nat /\ Claimed \in Nat
  BY ClaimLedgerAssumption DEF LedgerInv, TypeOK, TxState
<1>3. /\ tx' \in [Tx -> TxState] /\ tx'[t].step = "idle"
      /\ \A u \in Tx : u # t => tx'[u] = tx[u]
  BY <1>1, CloseFacts DEF LedgerInv
<1>4. /\ posted' \in [Operations -> Nat]
      /\ posted'["FULL_RECOVERY"] = posted["FULL_RECOVERY"]
      /\ posted'["WRITE_OFF"] = posted["WRITE_OFF"]
  BY <1>1 DEF LedgerInv, TypeOK, Operations, Resolutions
<1>5. exports' \in 0..MaxExports
  BY <1>1, ClaimLedgerAssumption DEF LedgerInv, TypeOK
<1>6. TypeOK'
  BY <1>1, <1>2, <1>3, <1>4, <1>5 DEF LedgerInv, TypeOK
<1>7. StatusHasEvent' /\ PostedWithEvent'
  BY <1>1, <1>4 DEF LedgerInv, StatusHasEvent, PostedWithEvent
<1>8. ReadsAreCurrent'
  BY <1>1, <1>3 DEF LedgerInv, ReadsAreCurrent
<1>9. SerialBooksBalance'
  <2>1. SUFFICES ASSUME ~overlapped
                 PROVE  /\ NeverOverRecovered' /\ SingleOutcome'
                        /\ status' = "recovered" => recovered' = Claimed
                        /\ finding' # "disputed" => finding' = status'
    BY <1>1 DEF SerialBooksBalance
  <2>2. tx[t].sawTotal = recovered
    BY <1>1, <2>1 DEF LedgerInv, ReadsAreCurrent
  <2>3. recovered' <= Claimed
    BY <1>1, <1>2, <2>2
  <2>4. status' = "recovered" => recovered' = Claimed
    BY <1>1, <1>2, <2>1, <2>3 DEF LedgerInv, SerialBooksBalance
  <2> QED
    BY <1>1, <2>1, <2>3, <2>4 DEF LedgerInv, SerialBooksBalance, NeverOverRecovered, SingleOutcome
<1> QED
  BY <1>6, <1>7, <1>8, <1>9 DEF LedgerInv

(* A resolution preserves it: the ledger accepts money for an outcome only *)
(* once, and without overlap the claim it resolves is open.                *)
LEMMA resolveClaimInv ==
  ASSUME LedgerInv, NEW t \in Tx, resolveClaim(t)
  PROVE  LedgerInv'
<1> DEFINE x == tx[t]
<1> DEFINE new == newStatus[x.op]
<1>1. /\ x.step = "write" /\ x.op \in Resolutions
      /\ validateClaimResolution(x) /\ AuditAccepts(x) /\ PostRecovery(x)
      /\ status' = new
      /\ finding' = IF x.names /\ new \in {"recovered", "written_off"} THEN new ELSE finding
      /\ ledger' = [ledger EXCEPT ![new] = Detail(x)]
      /\ Close(t)
      /\ UNCHANGED <<exports, overlapped>>
  BY DEF resolveClaim
<1>2. x \in TxState /\ x.amount \in 0..Claimed /\ x.sawTotal \in Nat /\ recovered \in Nat /\ Claimed \in Nat
  BY ClaimLedgerAssumption DEF LedgerInv, TypeOK, TxState
<1>3. new \in Terminal
  BY <1>1, NewStatusValues DEF Resolutions, Terminal
<1>4. /\ tx' \in [Tx -> TxState] /\ tx'[t].step = "idle"
      /\ \A u \in Tx : u # t => tx'[u] = tx[u]
  BY <1>1, CloseFacts DEF LedgerInv
<1>5. /\ recovered' = recovered + x.amount
      /\ posted' = IF x.amount = NoAmount THEN posted ELSE [posted EXCEPT ![x.op] = @ + 1]
  BY <1>1 DEF PostRecovery
<1>6. posted' \in [Operations -> Nat]
  BY <1>1, <1>5 DEF LedgerInv, TypeOK, Operations
<1>7. Detail(x) \in {WithoutRow, WithRow}
  BY DEF Detail
<1>8. /\ ledger' \in [Terminal -> {NoEvent, WithoutRow, WithRow}]
      /\ ledger'[new] = Detail(x)
      /\ \A s \in Terminal : s # new => ledger'[s] = ledger[s]
  BY <1>1, <1>3, <1>7 DEF LedgerInv, TypeOK
<1>9. TypeOK'
  BY <1>1, <1>2, <1>3, <1>4, <1>5, <1>6, <1>8 DEF LedgerInv, TypeOK, Terminal
<1>10. StatusHasEvent'
  BY <1>1, <1>3, <1>7, <1>8 DEF StatusHasEvent, NoEvent, WithRow, WithoutRow, Terminal
<1>11. PostedWithEvent'
  <2>1. CASE x.op = "FULL_RECOVERY"
    <3>1. x.amount # NoAmount /\ new = "recovered"
      BY <1>1, <2>1, NewStatusValues DEF validateClaimResolution
    <3>2. ledger["recovered"] = NoEvent /\ ledger'["recovered"] = WithRow
      BY <1>1, <1>3, <1>8, <3>1 DEF AuditAccepts, Detail, WithRow, WithoutRow
    <3>3. posted'["FULL_RECOVERY"] = posted["FULL_RECOVERY"] + 1 /\ posted'["WRITE_OFF"] = posted["WRITE_OFF"]
      BY <1>5, <2>1, <3>1 DEF LedgerInv, TypeOK, Operations, Resolutions
    <3>4. ledger'["written_off"] = ledger["written_off"]
      BY <1>8, <3>1 DEF Terminal
    <3>5. ledger["recovered"] # WithRow
      BY <3>2 DEF NoEvent, WithRow
    <3>6. posted["FULL_RECOVERY"] = 0
      BY <3>5 DEF LedgerInv, PostedWithEvent
    <3>7. posted'["FULL_RECOVERY"] = 1
      BY <3>3, <3>6
    <3> QED
      BY <3>2, <3>3, <3>4, <3>7 DEF LedgerInv, PostedWithEvent
  <2>2. CASE x.op = "WRITE_OFF"
    <3>1. new = "written_off"
      BY <2>2, NewStatusValues
    <3>2. ledger'["recovered"] = ledger["recovered"]
      BY <1>8, <3>1 DEF Terminal
    <3>3. CASE x.amount = NoAmount
      <4>1. ledger["written_off"] # WithRow /\ ledger'["written_off"] # WithRow
        BY <1>1, <1>8, <3>1, <3>3 DEF AuditAccepts, Detail, NoEvent, WithRow, WithoutRow, Terminal
      <4> QED
        BY <1>5, <3>2, <3>3, <4>1 DEF LedgerInv, PostedWithEvent
    <3>4. CASE x.amount # NoAmount
      <4>1. ledger["written_off"] = NoEvent /\ ledger'["written_off"] = WithRow
        BY <1>1, <1>8, <3>1, <3>4 DEF AuditAccepts, Detail, WithRow, WithoutRow, Terminal
      <4>2. posted'["WRITE_OFF"] = posted["WRITE_OFF"] + 1 /\ posted'["FULL_RECOVERY"] = posted["FULL_RECOVERY"]
        BY <1>5, <2>2, <3>4 DEF LedgerInv, TypeOK, Operations, Resolutions
      <4>3. ledger["written_off"] # WithRow
        BY <4>1 DEF NoEvent, WithRow
      <4>4. posted["WRITE_OFF"] = 0
        BY <4>3 DEF LedgerInv, PostedWithEvent
      <4>5. posted'["WRITE_OFF"] = 1
        BY <4>2, <4>4
      <4> QED
        BY <3>2, <4>1, <4>2, <4>5 DEF LedgerInv, PostedWithEvent
    <3> QED
      BY <3>3, <3>4
  <2>3. CASE x.op = "DENIAL"
    <3>1. new = "denied" /\ posted' = posted
      BY <1>1, <1>5, <2>3, NewStatusValues DEF validateClaimResolution
    <3>2. ledger'["recovered"] = ledger["recovered"] /\ ledger'["written_off"] = ledger["written_off"]
      BY <1>8, <3>1 DEF Terminal
    <3> QED
      BY <3>1, <3>2 DEF LedgerInv, PostedWithEvent
  <2> QED
    BY <1>1, <2>1, <2>2, <2>3 DEF Resolutions
<1>12. ReadsAreCurrent'
  BY <1>1, <1>4 DEF LedgerInv, ReadsAreCurrent
<1>13. SerialBooksBalance'
  <2>1. SUFFICES ASSUME ~overlapped
                 PROVE  /\ NeverOverRecovered' /\ SingleOutcome'
                        /\ status' = "recovered" => recovered' = Claimed
                        /\ finding' # "disputed" => finding' = status'
    BY <1>1 DEF SerialBooksBalance
  <2>2. x.sawStatus = status /\ x.sawTotal = recovered
    BY <1>1, <2>1 DEF LedgerInv, ReadsAreCurrent
  <2>3. status = "open"
    BY <1>1, <2>2 DEF validateClaimResolution, LedgerInv, TypeOK
  <2>4. \A s \in Terminal : ledger[s] = NoEvent
    BY <2>3 DEF LedgerInv, StatusHasEvent
  <2>5. SingleOutcome'
    BY <1>3, <1>8, <2>4 DEF SingleOutcome
  <2>6. recovered <= Claimed /\ finding = "disputed"
    BY <2>1, <2>3 DEF LedgerInv, SerialBooksBalance, NeverOverRecovered, TypeOK
  <2>7. NeverOverRecovered' /\ (status' = "recovered" => recovered' = Claimed)
    <3>1. CASE x.op = "FULL_RECOVERY"
      BY <1>1, <1>2, <1>5, <2>2, <3>1 DEF validateClaimResolution, NeverOverRecovered
    <3>2. CASE x.op = "WRITE_OFF"
      BY <1>1, <1>2, <1>5, <2>2, <2>6, <3>2, NewStatusValues DEF validateClaimResolution, NeverOverRecovered, NoAmount
    <3>3. CASE x.op = "DENIAL"
      BY <1>1, <1>2, <1>5, <2>2, <2>6, <3>3, NewStatusValues DEF validateClaimResolution, NeverOverRecovered, NoAmount
    <3> QED
      BY <1>1, <3>1, <3>2, <3>3 DEF Resolutions
  <2>8. finding' # "disputed" => finding' = status'
    BY <1>1, <2>6
  <2> QED
    BY <2>5, <2>7, <2>8
<1> QED
  BY <1>9, <1>10, <1>11, <1>12, <1>13 DEF LedgerInv

(* A rollback leaves the claim alone and preserves it.                     *)
LEMMA RollbackInv ==
  ASSUME LedgerInv, NEW t \in Tx, Rollback(t)
  PROVE  LedgerInv'
<1>1. Close(t) /\ UNCHANGED <<status, recovered, posted, ledger, finding, exports, overlapped>>
  BY DEF Rollback
<1>2. /\ tx' \in [Tx -> TxState] /\ tx'[t].step = "idle"
      /\ \A u \in Tx : u # t => tx'[u] = tx[u]
  BY <1>1, CloseFacts DEF LedgerInv
<1> QED
  BY <1>1, <1>2 DEF LedgerInv, TypeOK, StatusHasEvent, PostedWithEvent, ReadsAreCurrent,
     SerialBooksBalance, NeverOverRecovered, SingleOutcome

-----------------------------------------------------------------------------
(* The ledger's invariant holds in every reachable state.                  *)
THEOREM LedgerInvariant == Spec => []LedgerInv
<1>1. LedgerInv /\ [Next]_vars => LedgerInv'
  <2>1. SUFFICES ASSUME LedgerInv, [Next]_vars PROVE LedgerInv'
    OBVIOUS
  <2>2. CASE UNCHANGED vars
    BY <2>1, <2>2 DEF vars, LedgerInv, TypeOK, StatusHasEvent, PostedWithEvent, ReadsAreCurrent,
       SerialBooksBalance, NeverOverRecovered, SingleOutcome
  <2>3. CASE Next
    BY <2>1, <2>3, readClaimInv, readTotalInv, recordPartialRecoveryInv, resolveClaimInv, RollbackInv DEF Next
  <2> QED
    BY <2>1, <2>2, <2>3
<1> QED
  BY <1>1, InitLedgerInv, PTL DEF Spec

(* The claim's state stays well typed.                                     *)
THEOREM LedgerTypeCorrect == Spec => []TypeOK
<1>1. LedgerInv => TypeOK
  BY DEF LedgerInv
<1> QED
  BY <1>1, LedgerInvariant, PTL

(* claim.status and the terminal audit events agree, however transactions  *)
(* of resolveClaim and recordPartialRecovery interleave or roll back.      *)
THEOREM StatusAgreesWithLedger == Spec => []StatusHasEvent
<1>1. LedgerInv => StatusHasEvent
  BY DEF LedgerInv
<1> QED
  BY <1>1, LedgerInvariant, PTL

(* No race of resolutions posts the money of one outcome twice: the        *)
(* deterministic audit event id refuses the second.                        *)
THEOREM ResolutionMoneyPostedOnce == Spec => []FullRecoveryPostedOnce
<1>1. LedgerInv => FullRecoveryPostedOnce
  BY DEF LedgerInv, PostedWithEvent, FullRecoveryPostedOnce
<1> QED
  BY <1>1, LedgerInvariant, PTL

(* Without overlapping transactions the books balance: validation alone is *)
(* enough for serial execution, for any claimed amount.                    *)
THEOREM SerialExecutionIsSound == Spec => []SerialBooksBalance
<1>1. LedgerInv => SerialBooksBalance
  BY DEF LedgerInv
<1> QED
  BY <1>1, LedgerInvariant, PTL

-----------------------------------------------------------------------------
(* What a step does to the status of a resolved claim, without overlap.    *)
OutcomeKept == ~overlapped' /\ status \in Terminal => status' = status

(* Only resolveClaim writes the status, and without overlap the status it  *)
(* has read, which is not terminal, is still the claim's.                  *)
LEMMA NextKeepsOutcome ==
  ASSUME LedgerInv, [Next]_vars
  PROVE  OutcomeKept
<1>1. CASE UNCHANGED vars
  BY <1>1 DEF vars, OutcomeKept
<1>2. ASSUME NEW t \in Tx, readClaim(t) \/ readTotal(t) \/ recordPartialRecovery(t) \/ Rollback(t)
      PROVE  OutcomeKept
  BY <1>2 DEF readClaim, readTotal, recordPartialRecovery, Rollback, OutcomeKept
<1>3. ASSUME NEW t \in Tx, resolveClaim(t)
      PROVE  OutcomeKept
  <2>1. overlapped' = overlapped /\ tx[t].step = "write" /\ tx[t].sawStatus \notin Terminal
    BY <1>3 DEF resolveClaim, validateClaimResolution
  <2>2. ~overlapped => tx[t].sawStatus = status
    BY <2>1 DEF LedgerInv, ReadsAreCurrent
  <2> QED
    BY <2>1, <2>2 DEF OutcomeKept
<1> QED
  BY <1>1, <1>2, <1>3 DEF Next

(* A resolved claim keeps its outcome as long as no two transactions       *)
(* overlap, whatever is booked on it afterwards (recordPartialRecovery,    *)
(* resolveClaim).                                                          *)
THEOREM OutcomesAreFinal == Spec => OutcomeIsFinal
<1>1. LedgerInv /\ [Next]_vars => [OutcomeKept]_vars
  BY NextKeepsOutcome
<1>2. [][OutcomeKept]_vars <=> OutcomeIsFinal
  BY DEF OutcomeKept, OutcomeIsFinal
<1> QED
  BY <1>1, <1>2, LedgerInvariant, PTL DEF Spec
=============================================================================
