------------------------------- MODULE ClaimAging -------------------------------
(***************************************************************************)
(* The reminders of an unpaid claim: a deadline, a follow-up once it has   *)
(* passed, an escalation a grace period later.  A scan enqueues a job for  *)
(* whatever is due at the instant its schedule was stored, which is when   *)
(* the worker last booted; the job's handler looks at the real clock.  A   *)
(* job's id is a function of the claim, so pg-boss refuses a second one    *)
(* for as long as it keeps the first.                                      *)
(*                                                                         *)
(* A handler reads the claim, then writes its event, without a lock; the   *)
(* claim may be resolved in between.  Neither spans midnight.              *)
(***************************************************************************)
EXTENDS Integers

CONSTANTS
    AgedClaim,  \* claim ids
    AgingGrace, \* days between follow-up and escalation
    LastDay     \* bound on the days modelled

ASSUME ClaimAgingAssumption == AgingGrace \in Nat \ {0} /\ LastDay \in Nat

Reminders == {"followUp", "escalation"}
Unset == -1

VARIABLES
    closedOn,   \* the day the claim was resolved (status and terminal event), or Unset
    deadline,   \* claim.aging_deadline_at, or Unset
    sent,       \* the day of each reminder's event, or Unset
    basis,      \* the deadline in the follow-up event's detail
    ageJob,     \* the pg-boss job of each reminder
    handling,   \* what the handler of a job has read, or Unset
    bootDay,    \* when the scan's payload was stored
    calendar    \* today

ageVars == <<closedOn, deadline, sent, basis, ageJob, handling, bootDay, calendar>>

AgeInit ==
    /\ closedOn = [c \in AgedClaim |-> Unset]
    /\ deadline = [c \in AgedClaim |-> Unset]
    /\ sent = [c \in AgedClaim |-> [k \in Reminders |-> Unset]]
    /\ basis = [c \in AgedClaim |-> Unset]
    /\ ageJob = [c \in AgedClaim |-> [k \in Reminders |-> "none"]]
    /\ handling = [c \in AgedClaim |-> [k \in Reminders |-> Unset]]
    /\ bootDay = 0
    /\ calendar = 0

Opened(c) == closedOn[c] = Unset

-----------------------------------------------------------------------------
(* Counted from the day the claim was opened; it can be set again, also    *)
(* when a reminder is out, and also for a claim that is closed.            *)
setClaimAgingDeadline(c) ==
    /\ \E d \in 1..LastDay : deadline' = [deadline EXCEPT ![c] = d]
    /\ UNCHANGED <<closedOn, sent, basis, ageJob, handling, bootDay, calendar>>

(* resolveClaim, elsewhere.                                                *)
closeClaim(c) ==
    /\ Opened(c)
    /\ closedOn' = [closedOn EXCEPT ![c] = calendar]
    /\ UNCHANGED <<deadline, sent, basis, ageJob, handling, bootDay, calendar>>

-----------------------------------------------------------------------------
(* The scan.                                                               *)

listClaimsDueForFollowUp ==
    {c \in AgedClaim : /\ Opened(c) /\ sent[c]["followUp"] = Unset
                       /\ deadline[c] # Unset /\ deadline[c] <= bootDay}

(* An escalation already out does not take a claim off this list.          *)
listClaimsDueForEscalation ==
    {c \in AgedClaim : /\ Opened(c) /\ sent[c]["followUp"] # Unset
                       /\ sent[c]["followUp"] + AgingGrace <= bootDay}

Due(k) == IF k = "followUp" THEN listClaimsDueForFollowUp ELSE listClaimsDueForEscalation

(* enqueueInTransaction: an id pg-boss still has is not inserted again.    *)
scheduleClaimAgingJobs ==
    /\ \E c \in AgedClaim, k \in Reminders : c \in Due(k) /\ ageJob[c][k] = "none"
    /\ ageJob' = [c \in AgedClaim |-> [k \in Reminders |->
                    IF c \in Due(k) /\ ageJob[c][k] = "none" THEN "queued" ELSE ageJob[c][k]]]
    /\ UNCHANGED <<closedOn, deadline, sent, basis, handling, bootDay, calendar>>

-----------------------------------------------------------------------------
(* The handlers.  Their conditions, on the real clock.                     *)

(* Mutant: a closed claim is still chased.                                 *)
FollowUpAllowedClosed(c) == deadline[c] # Unset /\ deadline[c] <= calendar

FollowUpAllowed(c) == Opened(c) /\ deadline[c] # Unset /\ deadline[c] <= calendar

EscalationAllowed(c) ==
    /\ Opened(c)
    /\ sent[c]["followUp"] # Unset /\ sent[c]["followUp"] + AgingGrace <= calendar

Allowed(c, k) == IF k = "followUp" THEN FollowUpAllowed(c) ELSE EscalationAllowed(c)

readClaimForReminder(c, k) ==
    /\ ageJob[c][k] = "queued" /\ handling[c][k] = Unset
    /\ Allowed(c, k)
    /\ handling' = [handling EXCEPT ![c][k] = deadline[c]]
    /\ UNCHANGED <<closedOn, deadline, sent, basis, ageJob, bootDay, calendar>>

(* generateClaimFollowUp or generateClaimEscalation commits.  The event's  *)
(* id is a function of the claim, and a replay with the same detail is a   *)
(* no-op.                                                                  *)
sendReminder(c, k) ==
    /\ handling[c][k] # Unset
    /\ sent[c][k] # Unset => (k = "escalation" \/ basis[c] = handling[c][k])
    /\ sent' = [sent EXCEPT ![c][k] = IF @ = Unset THEN calendar ELSE @]
    /\ basis' = IF k = "followUp" THEN [basis EXCEPT ![c] = handling[c][k]] ELSE basis
    /\ ageJob' = [ageJob EXCEPT ![c][k] = "completed"]
    /\ handling' = [handling EXCEPT ![c][k] = Unset]
    /\ UNCHANGED <<closedOn, deadline, bootDay, calendar>>

(* The handler throws (a closed claim, a deadline moved away, a grace      *)
(* period still running, an event with another detail) until the retries   *)
(* are used up.                                                            *)
failReminder(c, k) ==
    /\ ageJob[c][k] = "queued"
    /\ \/ handling[c][k] = Unset /\ ~Allowed(c, k)
       \/ handling[c][k] # Unset /\ k = "followUp" /\ sent[c][k] # Unset
          /\ basis[c] # handling[c][k]
    /\ ageJob' = [ageJob EXCEPT ![c][k] = "failed"]
    /\ handling' = [handling EXCEPT ![c][k] = Unset]
    /\ UNCHANGED <<closedOn, deadline, sent, basis, bootDay, calendar>>

(* pg-boss's maintenance archives a finished job and frees its id.         *)
purgeJobs(c, k) ==
    /\ ageJob[c][k] \in {"completed", "failed"}
    /\ ageJob' = [ageJob EXCEPT ![c][k] = "none"]
    /\ UNCHANGED <<closedOn, deadline, sent, basis, handling, bootDay, calendar>>

-----------------------------------------------------------------------------
AgeTick ==
    /\ calendar < LastDay
    /\ \A c \in AgedClaim, k \in Reminders : handling[c][k] = Unset
    /\ calendar' = calendar + 1
    /\ UNCHANGED <<closedOn, deadline, sent, basis, ageJob, handling, bootDay>>

(* Mutant: a schedule that is already stored is left as it is.             *)
AgeRestartKeepsSchedule ==
    /\ handling' = [c \in AgedClaim |-> [k \in Reminders |-> Unset]]
    /\ UNCHANGED <<closedOn, deadline, sent, basis, ageJob, bootDay, calendar>>

(* The worker boots: handlers roll back, the schedule is stored again.     *)
AgeRestart ==
    /\ bootDay' = calendar
    /\ handling' = [c \in AgedClaim |-> [k \in Reminders |-> Unset]]
    /\ UNCHANGED <<closedOn, deadline, sent, basis, ageJob, calendar>>

AgeNext ==
    \/ \E c \in AgedClaim : setClaimAgingDeadline(c) \/ closeClaim(c)
    \/ scheduleClaimAgingJobs
    \/ \E c \in AgedClaim, k \in Reminders :
         readClaimForReminder(c, k) \/ sendReminder(c, k) \/ failReminder(c, k)
         \/ purgeJobs(c, k)
    \/ AgeTick
    \/ AgeRestart

(* The cron fires the scan, the worker runs its jobs, pg-boss cleans up,   *)
(* time passes, and deployments come again and again.                      *)
AgeFairness ==
    /\ WF_ageVars(scheduleClaimAgingJobs)
    /\ \A c \in AgedClaim, k \in Reminders :
         /\ SF_ageVars(readClaimForReminder(c, k))
         /\ SF_ageVars(sendReminder(c, k))
         /\ SF_ageVars(failReminder(c, k))
         /\ WF_ageVars(purgeJobs(c, k))
    /\ WF_ageVars(AgeTick)
    /\ WF_ageVars(AgeRestart)

AgeSpec == AgeInit /\ [][AgeNext]_ageVars /\ AgeFairness

-----------------------------------------------------------------------------
(* Reminders come in order and in time: none later than the day the claim  *)
(* was closed on, a follow-up not before the deadline it names, and an     *)
(* escalation only after a follow-up has gone unanswered for the grace     *)
(* period, whatever was rescheduled, retried or replayed.                  *)
RemindersInOrder ==
    \A c \in AgedClaim :
        /\ \A k \in Reminders : sent[c][k] # Unset /\ ~Opened(c) => sent[c][k] <= closedOn[c]
        /\ sent[c]["followUp"] # Unset => basis[c] <= sent[c]["followUp"]
        /\ sent[c]["escalation"] # Unset =>
             /\ sent[c]["followUp"] # Unset
             /\ sent[c]["escalation"] >= sent[c]["followUp"] + AgingGrace

(* A claim that is overdue for good is followed up or closed in the end:   *)
(* neither the frozen clock of the scan nor the id of a job that failed    *)
(* before keeps the reminder away for ever.                                *)
OverdueIsChased ==
    \A c \in AgedClaim :
        <>[](deadline[c] # Unset /\ deadline[c] <= calendar)
            => <>(sent[c]["followUp"] # Unset \/ ~Opened(c))
===============================================================================
