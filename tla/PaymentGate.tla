------------------------------ MODULE PaymentGate ------------------------------
(***************************************************************************)
(* The payment decisions of audit runs.  payment_gate_decision is append-  *)
(* only and unique per (run, action).  A request reads what it needs and   *)
(* then writes, in one READ COMMITTED transaction without locks, so other  *)
(* requests commit in between; a second INSERT of the same action breaks   *)
(* the constraint and rolls back.  A transaction never spans midnight.     *)
(*                                                                         *)
(* Amounts are whole numbers in one currency; Total is what an invoice     *)
(* bills and Variance what each overcharge finding says was billed too     *)
(* much.  Findings are accepted and disputed elsewhere (Disputes).         *)
(***************************************************************************)
EXTENDS Integers, FiniteSets, FiniteSetsExt

CONSTANTS
    PayRun,      \* audit_run ids
    Overcharge,  \* overcharge findings of a run
    Variance,    \* variance_amount of each
    Total,       \* sum of the invoice's charge_fact amounts
    Grace,       \* gracePeriodDays
    MaxDay,      \* bound on the days modelled
    PaySlot      \* requests in flight

ASSUME PaymentGateAssumption ==
    /\ Variance \in [Overcharge -> Nat]
    /\ Total \in Nat /\ Grace \in Nat \ {0} /\ MaxDay \in Nat
    /\ IsFiniteSet(Overcharge)

Actions == {"approve", "hold", "short_pay", "do_not_pay"}
PAYMENT_AUTHORIZATION_ACTIONS == {"approve", "hold"}
PaymentPolicyConfig == [holdThenApprove : BOOLEAN, shortPayEnabled : BOOLEAN]
DEFAULT_PAYMENT_POLICY == [holdThenApprove |-> TRUE, shortPayEnabled |-> FALSE]
Never == -1

VARIABLES
    outcome,    \* audit_run.outcome; "none" before the run is persisted
    decision,   \* the day each action was recorded for a run, or Never
    payEvents,  \* the actions whose audit_event is in the ledger
    withheld,   \* the findings a short-pay decision rests on
    escalated,  \* the day of the payment_gate.escalated event, or Never
    accepted,   \* overcharge findings in status accepted
    policy,     \* the tenant's payment policy
    payReq,     \* requests in flight
    day         \* today

payVars == <<outcome, decision, payEvents, withheld, escalated, accepted, policy, payReq, day>>

NoPay == [step |-> "idle", op |-> "none", run |-> 0, seen |-> {}]
Has(r, action) == decision[r][action] # Never

PayInit ==
    /\ outcome = [r \in PayRun |-> "none"]
    /\ decision = [r \in PayRun |-> [x \in Actions |-> Never]]
    /\ payEvents = [r \in PayRun |-> {}]
    /\ withheld = [r \in PayRun |-> {}]
    /\ escalated = [r \in PayRun |-> Never]
    /\ accepted = [r \in PayRun |-> {}]
    /\ policy = DEFAULT_PAYMENT_POLICY
    /\ payReq = [s \in PaySlot |-> NoPay]
    /\ day = 0

(* A decision row and its event, in one transaction.                       *)
Decide(r, action) ==
    /\ decision' = [decision EXCEPT ![r][action] = day]
    /\ payEvents' = [payEvents EXCEPT ![r] = @ \cup {action}]

-----------------------------------------------------------------------------
(* What a run starts with: persistAuditRun holds a scored run if the       *)
(* policy says so, and refuses one its gates rejected.                     *)
generateHoldDecision(r) ==
    /\ outcome' = [outcome EXCEPT ![r] = "SCORED"]
    /\ IF policy.holdThenApprove THEN Decide(r, "hold")
       ELSE UNCHANGED <<decision, payEvents>>

generateDoNotPayDecision(r) ==
    /\ outcome' = [outcome EXCEPT ![r] = "REJECTED_REWORK"]
    /\ Decide(r, "do_not_pay")

persistRun(r) ==
    /\ outcome[r] = "none"
    /\ generateHoldDecision(r) \/ generateDoNotPayDecision(r)
    /\ UNCHANGED <<withheld, escalated, accepted, policy, payReq, day>>

upsertPaymentPolicy ==
    /\ policy' \in PaymentPolicyConfig
    /\ UNCHANGED <<outcome, decision, payEvents, withheld, escalated, accepted, payReq, day>>

(* A finding is accepted, or leaves accepted for a dispute.                *)
reviewFinding(r, f) ==
    /\ outcome[r] = "SCORED"
    /\ accepted' = [accepted EXCEPT ![r] = IF f \in @ THEN @ \ {f} ELSE @ \cup {f}]
    /\ UNCHANGED <<outcome, decision, payEvents, withheld, escalated, policy, payReq, day>>

-----------------------------------------------------------------------------
(* Requests: what they read.                                               *)

PayBegin(s, op, r, seen) ==
    /\ payReq[s] = NoPay
    /\ payReq' = [payReq EXCEPT ![s] = [step |-> "write", op |-> op, run |-> r, seen |-> seen]]
    /\ UNCHANGED <<outcome, decision, payEvents, withheld, escalated, accepted, policy, day>>

(* An action already recorded is answered with the row there is.           *)
readAuthorization(s, r) ==
    /\ outcome[r] # "none"
    /\ \E action \in PAYMENT_AUTHORIZATION_ACTIONS : ~Has(r, action) /\ PayBegin(s, action, r, {})

Withholding(findings) == MapThenSumSet(LAMBDA f : Variance[f], findings)

(* EMPTY_SET and WITHHELD_EXCEEDS_TOTAL; the other refusals are of rows    *)
(* without an amount or in two currencies.                                 *)
composeShortPayDecision(findings) == findings # {} /\ Withholding(findings) < Total

readShortPay(s, r) ==
    /\ policy.shortPayEnabled /\ outcome[r] = "SCORED"
    /\ ~Has(r, "short_pay")
    /\ composeShortPayDecision(accepted[r])
    /\ PayBegin(s, "short_pay", r, accepted[r])

(* Mutant: an approved run is escalated too.                               *)
EscalationDueRegardless(r) == Has(r, "hold") /\ decision[r]["hold"] + Grace <= day

EscalationDue(r) ==
    /\ Has(r, "hold") /\ ~Has(r, "approve")
    /\ decision[r]["hold"] + Grace <= day

readEscalation(s, r) == EscalationDue(r) /\ PayBegin(s, "escalate", r, {})

-----------------------------------------------------------------------------
(* Requests: what they write.                                              *)

EndPay(s) == payReq' = [payReq EXCEPT ![s] = NoPay]

(* Mutant: the event is written although the row was there.                *)
writeDecisionTwice(s) ==
    LET x == payReq[s] IN
    /\ x.step = "write" /\ x.op # "escalate"
    /\ Decide(x.run, x.op)
    /\ withheld' = IF x.op = "short_pay" THEN [withheld EXCEPT ![x.run] = x.seen] ELSE withheld
    /\ EndPay(s)
    /\ UNCHANGED <<outcome, escalated, accepted, policy, day>>

(* authorizePayment and generateShortPayDecision.                          *)
writeDecision(s) ==
    LET x == payReq[s] IN
    /\ x.step = "write" /\ x.op # "escalate"
    /\ ~Has(x.run, x.op)
    /\ Decide(x.run, x.op)
    /\ withheld' = IF x.op = "short_pay" THEN [withheld EXCEPT ![x.run] = x.seen] ELSE withheld
    /\ EndPay(s)
    /\ UNCHANGED <<outcome, escalated, accepted, policy, day>>

(* payment_gate_decision_run_action_uk: the transaction rolls back.        *)
loseDecision(s) ==
    LET x == payReq[s] IN
    /\ x.step = "write" /\ x.op # "escalate"
    /\ Has(x.run, x.op)
    /\ EndPay(s)
    /\ UNCHANGED <<outcome, decision, payEvents, withheld, escalated, accepted, policy, day>>

(* generatePaymentEscalation; a second event with the same id is a no-op.  *)
writeEscalation(s) ==
    LET x == payReq[s] IN
    /\ x.step = "write" /\ x.op = "escalate"
    /\ escalated' = IF escalated[x.run] = Never THEN [escalated EXCEPT ![x.run] = day]
                    ELSE escalated
    /\ EndPay(s)
    /\ UNCHANGED <<outcome, decision, payEvents, withheld, accepted, policy, day>>

NextDay ==
    /\ day < MaxDay
    /\ \A s \in PaySlot : payReq[s] = NoPay
    /\ day' = day + 1
    /\ UNCHANGED <<outcome, decision, payEvents, withheld, escalated, accepted, policy, payReq>>

PayNext ==
    \/ \E r \in PayRun : persistRun(r) \/ \E f \in Overcharge : reviewFinding(r, f)
    \/ \E s \in PaySlot, r \in PayRun :
         readAuthorization(s, r) \/ readShortPay(s, r) \/ readEscalation(s, r)
    \/ \E s \in PaySlot : writeDecision(s) \/ loseDecision(s) \/ writeEscalation(s)
    \/ upsertPaymentPolicy
    \/ NextDay

PaySpec == PayInit /\ [][PayNext]_payVars

-----------------------------------------------------------------------------
(* The runs an analyst still has to decide on: held, and neither approved, *)
(* short-paid nor refused.                                                 *)
listPendingPaymentAuthorizations ==
    {r \in PayRun : Has(r, "hold") /\ ~Has(r, "approve") /\ ~Has(r, "short_pay")
                    /\ ~Has(r, "do_not_pay")}

(* A hold is escalated only after its grace period, and never on a later   *)
(* day than the one its approval was recorded on, whichever of the two     *)
(* requests read first (generatePaymentEscalation).                        *)
EscalatedInTime ==
    \A r \in PayRun : escalated[r] # Never =>
        /\ Has(r, "hold") /\ escalated[r] >= decision[r]["hold"] + Grace
        /\ Has(r, "approve") => decision[r]["approve"] >= escalated[r]

(* A decision is final: its row keeps its day, a short payment the         *)
(* findings it rests on, and a run that left the pending list never comes  *)
(* back to it, whatever analysts and generators race to record later       *)
(* (authorizePayment may record a hold after an approval).                 *)
DecisionsAreFinal ==
    [][\A r \in PayRun :
         /\ \A x \in Actions : Has(r, x) => decision'[r][x] = decision[r][x]
         /\ Has(r, "short_pay") => withheld'[r] = withheld[r]
         /\ Has(r, "hold") /\ r \notin listPendingPaymentAuthorizations
              => r \notin listPendingPaymentAuthorizations']_payVars
===============================================================================
