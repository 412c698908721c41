---------------------------- MODULE WorkflowInstance ----------------------------
(***************************************************************************)
(* Workflow instances and their transitions.  A subject has at most one    *)
(* instance; a transition locks the instance's row, checks the move        *)
(* against the workflow type's map, and writes the new state, a line of    *)
(* the transition log and an event in one statement.                       *)
(***************************************************************************)
EXTENDS Integers, Sequences

CONSTANTS
    WfSubject,  \* (account, workflow type, subject)
    WfState,    \* states of the type
    WfAllowed,  \* its WorkflowTransitionMap
    WfTx,       \* transactions that may be open at the same time
    MaxLog      \* bound on transitions logged

ASSUME WorkflowInstanceAssumption ==
    /\ DOMAIN WfAllowed \subseteq WfState
    /\ \A s \in DOMAIN WfAllowed : WfAllowed[s] \subseteq WfState
    /\ MaxLog \in Nat
    /\ "absent" \notin WfState /\ "none" \notin WfTx

Absent == "absent"

VARIABLES
    wfState,    \* workflow_instance.current_state, or Absent
    wfCreated,  \* the initialState in each workflow.created event
    wfLog,      \* workflow_transition rows, each with its event
    wfTx,       \* open transactions
    wfLock      \* who holds the row lock of an instance

wfVars == <<wfState, wfCreated, wfLog, wfTx, wfLock>>

NoWf == [step |-> "idle", subject |-> "none", to |-> "none", saw |-> Absent]
Unlocked == "none"

WfInit ==
    /\ wfState = [x \in WfSubject |-> Absent]
    /\ wfCreated = [x \in WfSubject |-> <<>>]
    /\ wfLog = [x \in WfSubject |-> <<>>]
    /\ wfTx = [t \in WfTx |-> NoWf]
    /\ wfLock = [x \in WfSubject |-> Unlocked]

-----------------------------------------------------------------------------
(* createWorkflowInstance reads first; a row that is there is the answer.  *)
findInstance(t) ==
    /\ wfTx[t] = NoWf
    /\ \E x \in WfSubject, s \in WfState :
         /\ wfState[x] = Absent
         /\ wfTx' = [wfTx EXCEPT ![t] = [step |-> "insert", subject |-> x, to |-> s, saw |-> Absent]]
    /\ UNCHANGED <<wfState, wfCreated, wfLog, wfLock>>

(* ON CONFLICT DO NOTHING: a raced insert is answered with the row there   *)
(* is, and only the insert that made it writes the event.                  *)
createWorkflowInstance(t) ==
    LET x == wfTx[t].subject  s == wfTx[t].to IN
    /\ wfTx[t].step = "insert"
    /\ IF wfState[x] = Absent
         THEN /\ wfState' = [wfState EXCEPT ![x] = s]
              /\ wfCreated' = [wfCreated EXCEPT ![x] = Append(@, s)]
         ELSE UNCHANGED <<wfState, wfCreated>>
    /\ wfTx' = [wfTx EXCEPT ![t] = NoWf]
    /\ UNCHANGED <<wfLog, wfLock>>

-----------------------------------------------------------------------------
(* Staying in a state is always allowed, also in one the map does not know.*)
validateWorkflowTransition(from, to) ==
    from = to \/ (from \in DOMAIN WfAllowed /\ to \in WfAllowed[from])

(* Mutant: SELECT without FOR UPDATE.                                      *)
lockInstanceUnlocked(t) ==
    /\ wfTx[t] = NoWf
    /\ \E x \in WfSubject, s \in WfState :
         /\ wfState[x] # Absent
         /\ wfTx' = [wfTx EXCEPT ![t] = [step |-> "write", subject |-> x, to |-> s, saw |-> wfState[x]]]
    /\ UNCHANGED <<wfState, wfCreated, wfLog, wfLock>>

(* SELECT ... FOR UPDATE; an instance that is not there is an error.       *)
lockInstance(t) ==
    /\ wfTx[t] = NoWf
    /\ \E x \in WfSubject, s \in WfState :
         /\ wfState[x] # Absent /\ wfLock[x] = Unlocked
         /\ wfTx' = [wfTx EXCEPT ![t] = [step |-> "write", subject |-> x, to |-> s, saw |-> wfState[x]]]
         /\ wfLock' = [wfLock EXCEPT ![x] = t]
    /\ UNCHANGED <<wfState, wfCreated, wfLog>>

ReleaseWf(t) ==
    /\ wfTx' = [wfTx EXCEPT ![t] = NoWf]
    /\ wfLock' = [x \in WfSubject |-> IF wfLock[x] = t THEN Unlocked ELSE wfLock[x]]

(* The update, the log row and the event; old is read again, under the     *)
(* lock.                                                                   *)
appendWorkflowTransition(t) ==
    LET x == wfTx[t].subject  s == wfTx[t].to IN
    /\ wfTx[t].step = "write"
    /\ validateWorkflowTransition(wfTx[t].saw, s)
    /\ Len(wfLog[x]) < MaxLog
    /\ wfLog' = [wfLog EXCEPT ![x] = Append(@, <<wfState[x], s>>)]
    /\ wfState' = [wfState EXCEPT ![x] = s]
    /\ ReleaseWf(t)
    /\ UNCHANGED wfCreated

(* WorkflowTransitionError, or the transaction is lost.                    *)
abandonTransition(t) ==
    /\ wfTx[t].step = "write"
    /\ ReleaseWf(t)
    /\ UNCHANGED <<wfState, wfCreated, wfLog>>

WfNext ==
    \E t \in WfTx : findInstance(t) \/ createWorkflowInstance(t) \/ lockInstance(t)
                    \/ appendWorkflowTransition(t) \/ abandonTransition(t)

WfSpec == WfInit /\ [][WfNext]_wfVars

-----------------------------------------------------------------------------
WfTypeOK ==
    /\ wfState \in [WfSubject -> WfState \cup {Absent}]
    /\ wfCreated \in [WfSubject -> Seq(WfState)]
    /\ wfLog \in [WfSubject -> Seq(WfState \X WfState)]
    /\ wfTx \in [WfTx -> [step : {"idle", "insert", "write"}, subject : WfSubject \cup {"none"},
                          to : WfState \cup {"none"}, saw : WfState \cup {Absent}]]
    /\ wfLock \in [WfSubject -> WfTx \cup {Unlocked}]

(* The log tells the instance's whole story: it was created once, every    *)
(* transition starts where the one before ended and is one the map allows, *)
(* and the last one ends in the current state, however many requests       *)
(* create and move it at once (appendWorkflowTransition).                  *)
LogExplainsState ==
    \A x \in WfSubject : wfState[x] # Absent =>
        LET log == wfLog[x]
            at(i) == IF i = 0 THEN wfCreated[x][1] ELSE log[i][2] IN
        /\ Len(wfCreated[x]) = 1
        /\ \A i \in 1..Len(log) : log[i][1] = at(i - 1)
                                  /\ validateWorkflowTransition(log[i][1], log[i][2])
        /\ wfState[x] = at(Len(log))
===============================================================================
