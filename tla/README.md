# A TLA+ model of freight-auditor

freight-auditor prices carrier invoices against contracts, records the
differences as *variance findings*, lets analysts accept them, turns accepted
findings into *disputes* with the carrier, turns accepted disputes into *claims*
and books the money that comes back. Everything durable is in PostgreSQL under
row-level security, one tenant (`account`) per transaction; work that must not
happen inside a request goes through two claimed-row tables and pg-boss.

The models follow the code line by line in its control and abstract its data:
ids are model values or small numbers, amounts are small naturals, texts are
left out. Each definition keeps the name of the function it models where there
is one; `PROJECT.json` maps every definition to its lines. Definitions marked
`Mutant:` are plausible bugs; nothing uses them but the mutation checks listed
in `PROJECT.json`, which show that each property can fail.

## 1. Inventory

Paths are relative to the repository's `src/`.

| Component | State it keeps | Operations | Interacts through | What makes it correct |
|---|---|---|---|---|
| Workflow command queue (`modules/workflow`) | `workflow_command` rows: status, attempts, run_after, claimed_at | schedule, scan (reclaim, claim, enqueue), run, complete | pg-boss jobs, one per claim | a due command runs; a crash loses nothing; retries end; settled stays settled |
| Workflow outbox (`modules/workflow`) | `workflow_outbox_message` rows, unique dedupe key | record, scan, deliver, complete | commands record, senders call out | one intent per key; delivered implies sent |
| Workflow instances (`modules/workflow`) | instance, transition log | create, append transition | commands | the log is one path of the map |
| Job worker (`jobs/`) | pg-boss jobs, cron schedules | boot, fetch, retry, expire, dead-letter | transactions per job | every job ends; a retry repeats nothing visible |
| Dispute delivery (`modules/disputes`) | dispute status, `dispute_comm` | approve, deliver command | both queues | the carrier is told once, only about approved disputes |
| Disputes (`modules/disputes`) | dispute, dispute_line | create, approve, accept, reject, partially accept, close | finding status under row locks | no deadlock; one response |
| Findings review (`modules/findings`) | variance_finding.status, finding_status_event | status change, accept/waive/escalate, assign | disputes, claims | status and history agree |
| Claims (`modules/claims`) | claim, recovery_event | create, partial recovery, resolve | dispute, finding, exports, ledger | money within the claim; one final outcome; a finding claimed once |
| Claim aging (`modules/claims`) | claim.aging_deadline_at | scan, follow up, escalate | pg-boss, ledger | each overdue claim is followed up, then escalated, in time |
| Claim reporting (`modules/claims`) | none | reconcile, aggregate per carrier and account, derive status | claims, events | the parts add up to what was claimed |
| Exports (`modules/exports`) | export acknowledgements | export, acknowledge | pg-boss, adapter | at most one acknowledged export per record |
| Audit ledger (`modules/audit-ledger`) | append-only audit_event | write (idempotent by id), replay | everything | an id has one content |
| Payment gate (`modules/payments`) | payment decisions, policy | hold, short pay, do not pay, authorize, escalate | findings, ledger | decisions are final; escalation in time |
| Rule interpreter (`modules/rule-engine`) | none | evaluate a rule tree over a fact bundle | evaluator | no verdict without its evidence |
| Evaluator, rate engine (`modules/evaluator`, `rate-engine`) | audit_run, charge_fact, findings, scorecard, replay manifest, contract_rate | build facts, gate, score, persist, replay, administer rates | ingestion, findings, payments | the kickback lists every defect; a variance is warranted; a run replays; a rate stays with its tenant |
| Rule lifecycle (`modules/rule-engine`) | rule_version chains, promotion events, overrides | transition, activate, promote, reverse, quarantine | proposals, console | nothing ACTIVE on one person's word; reversals quarantine |
| Contracts (`modules/contracts`) | contract, version, extraction, questions, answers, corrections, verified version, proposals | upload, extract, ask, answer, correct, finalize, propose, backtest, accept, ratify | rules | verified as reviewed, once |
| Discovery (`modules/discovery`) | triggers, proposals | detect, propose, backtest, accept | rules | proposals only enter as SHADOW |
| Ingestion, invoices (`modules/ingestion`) | invoice, audit_run, invoice_draft, an advisory lock per business key | ingest EDI, extract draft, confirm, reject | evaluator, ledger | one first billing per invoice number; a draft becomes one run or none |
| Identity and access (`modules/identity`) | accounts, clients, vendors, memberships, sessions | onboard, invite, change role, switch off, remove | RLS scope of every transaction | rows hang from their own account; roles are explained |
| HTTP server, portal (`server/`, `modules/portal`) | none of their own | gates, routes | modules | effects within what the caller was admitted to |
| Web client (`web/`) | React state, in-memory stores | load, switch client, edit | HTTP | late answers never write under the wrong tenant |
| Deployment (`scripts/`, `.github/workflows/deploy.yml`) | schema, live revision, last-good tag | migrate, upload, poll, tag, roll back | git, hosting service | no code ahead of its schema; the tag only advances |
| Rubric resolver, reference data | rubrics, published values | resolve as of a date | evaluator | one effective version per date |

What is hard: READ COMMITTED transactions that read, validate and write without
a lock (claims, findings, disputes, payments, contract reviews, role changes);
jobs that are retried while an expired execution still runs; a worker that dies
between any two steps; a scan whose clock is fixed at boot; external calls made
before a commit; gates that look before the handler does; pages whose answers
come late; deploy runs out of order. `PROJECT.json` lists each such place as a
hazard with the properties aimed at it. Where the code lets a race through, no
true property forbids it: the hazard's note then says what its properties
exempt.

## 2. Plan

1. **Done.** The queues, dispute delivery with its abstract `DeliveryContract`,
   claim books, disputes, intake, the rule interpreter and the audit pipeline;
   then claim aging and reports, payments, exports, workflow instances, the
   life of rules and contract reviews, tenant administration, the request gates,
   four modules of the web client's state, and deployment. Proofs for all of
   them: every invariant and action property of the runs is a theorem.
2. **Left, model.** Expected charges and their alignment, and the tier fold of
   the rubric resolver, as operators against reference definitions, once they
   have callers; inbound dispute mail; SFTP intake.
3. **Left, prove.** Only the three liveness properties, which are out of the
   prover's reach.

## 3. Modules

### ClaimQueue

`workflow_command` and `workflow_outbox_message` are the same machine; the
constant `CallsOut` says whether an execution calls an external sender.

* `row` is the table, `job` pg-boss' jobs by their deterministic id (row,
  attempts), `exec` the executions alive in the worker, `audited` the rows with
  a committed event, `active` the tenant's `is_active`, `uptime` the time since
  boot.
* `Scan` is one tick of `makeReclaimAndScanJobHandler`: reclaim stale claims,
  claim due rows, enqueue one job per claim, for active tenants, in one
  transaction. Several workers' scans are serialised by `FOR UPDATE SKIP LOCKED`.
* `Fetch`, `Expire`, `Throw`, `CallOut`, `Commit`, `Finish` are the life of an
  execution. Its transaction commits (`Commit`) before pg-boss hears of it
  (`Finish`), so a crash or an expiry in between repeats a committed execution.
  An expired execution goes on running and may commit late.
* `Restart` kills the executions in flight and boots: `registerJobConsumers`
  stores the cron schedules again with a new `requestedAt`.

Time is kept relative to that `requestedAt`, because it is the only clock the
scan reads: `wait` is how far a row's due time lies after it, `age` how far
`claimed_at` lies before it. Restarting moves the origin.

pg-boss is modelled from how the code uses it: an explicit id makes `send`
idempotent, `retryLimit` bounds the tries, an active job expires. Dead-letter
queues only receive what the model calls failed. Job retention (30 days) is
longer than the life of a row's claims and is left out.

### DisputeDelivery and DeliveryContract

`DisputeDelivery` composes two instances of `ClaimQueue` (commands, messages)
that share one worker. `approveDispute` moves a draft to `sent` and schedules
its command in one transaction; a command's commit records the outbox message
(insert-or-nothing on its dedupe key) and the outbound log entry; a message's
execution calls the sender with an idempotency key before it commits. The
carrier's provider is external: it is the set of keys it has seen.

`DeliveryContract` has no queue in it: approve, decide once, one effect, then
acknowledge. `ContractHolds` states that the composition implements it, under
the refinement mapping at the end of `DisputeDelivery`.

### ClaimLedger

One claim. `recordPartialRecovery` and `resolveClaim` are three steps each
(read the claim, read the sum, validate and write), because both reads are
unlocked and READ COMMITTED lets others commit in between. The recovery insert,
the status update, the finding's mirrored status and the audit event are one
step, the commit. `AuditAccepts` is the ledger's rule: an event id that exists
with other content aborts the transaction. `overlapped` is a history variable.
Inputs refused for their form alone are left out. `OutcomeIsFinal` is the
answer to partial recoveries of denied claims: they are booked, but change no
outcome.

### Disputes

Findings, disputes and claim creation. `updateFindingStatus` is split where its
statement waits for the row with an old snapshot; `createDisputeFromFindings`
takes its row locks one at a time in id order; `createClaimFromDispute` reads,
checks and inserts in separate statements. The dispute transitions are guarded
UPDATEs that re-check the from-state and are one step. Finding statuses other
than `accepted` and `queued_for_dispute` behave alike and are one value.
Currencies behave like carriers (all lines must agree) and are folded into them.

### InvoiceIntake

EDI ingestion and the PDF drafts, up to the insert of the invoice and its audit
run. `draft`, `run` and `ledger` are tables, `keyLock` the holder of each
advisory lock, `tx` the open requests, `overlapped` a history variable: the
drafts whose finalisations were open together.

* `createInvoiceDraft` calls `matchCarrierName`: one match gives `extracted` and
  a carrier, none or several `needs_carrier_review` and none.
* `loadForConfirm` and `loadForReject` read the draft without a lock and check
  that it is open; a confirmation picks the carrier here. `receiveEdi` starts an
  EDI request; `EDI` stands for either of the sets 210 and 310, whose keys never
  meet.
* `lockKey` waits for the advisory lock of (set, number), which is held to the
  end of the transaction; `detectDuplicateInvoice` then counts earlier invoices,
  those of rejected runs included. An unstated number takes no lock and is never
  a duplicate.
* `commitIngest`, `commitConfirm` and `commitReject` write and end the
  transaction. The final UPDATE of a draft does not look at its status again.
  The id of the confirmation's audit event is a function of the draft, so the
  ledger refuses a second one. `Rollback` is any failure before that.

A number stands for its class under the trimming and case folding that lock and
query share.

### RuleEngine and RuleVerdicts

`RuleEngine` is `interpreter.ts`: `evaluate` gives the value of a rule tree and
`verdict` reads it; the annotated tree the code returns is `evaluate` of each of
its nodes. It has no state. `Ast` is the set of trees at hand with their
sub-trees, and `Depth` how deep each is: `AstAssumption` says that operands are
less deep than their node, which is what makes a stored JSON tree finite, and
what the proofs recurse on. Decimals are
fractions, with `toFixed(4)` as rounding; a number that becomes a text for an
equality keeps track of how it was printed, since `valueScalar` gives `1.5` and
`1.5000` for a number and an amount. Facts may be absent or malformed.
`RuleVerdicts` gives it a state: one rule, one bundle, its verdict, and the
actions `LoseFact` and `CorruptFact`. An `approx` whose tolerance is no number
throws in the code and is not among the rules. `Asks` lists what a tree needs
of the bundle; of a `not` only the first operand counts (`Deciding`), as in the
code.

### AuditPipeline

One document from parsing to replay. `parse` is the three adapters and the
corrected payload of a draft; `STANDARD_RUBRIC` and `CONTRACT_RUBRIC` are the
code's own trees, criterion by criterion; `buildFactBundle`, `evaluateInvoice`
and `persistAuditRun` keep the code's names. `LineText` and `DocumentText` are
what the adapters let in: an EDI line may say anything, the zod schemas of
extracted and corrected payloads refuse amounts and totals that are no numbers.
A rubric and the findings of a run are sets, because criteria are told apart by
their keys and no result depends on their order. Four variables: `rate` is the
`contract_rate` row, `hold` the payment policy, `run` what was persisted,
`replayed` the answer of the last replay. `ingest` is a whole transaction (its
interleaving with others is `InvoiceIntake`'s subject), so the answers to the
duplicate and shipment queries are open. A request's contract is none, the one
whose rate is followed, or one the tenant does not have, because the routes
check only the form of the id. Amounts are whole cents. Bases that are texts of
a corrected payload and no numbers make the code throw, and do not occur.

`Defects`, `AddsUp`, `BilledIn` and `Linehaul` say what a document means without
the parsers and the rubric; the properties compare the two.

### ClaimAging

One deadline, two reminders and a pg-boss job for each. The scan
(`scheduleClaimAgingJobs`) compares deadlines with `bootDay`, the handlers with
`calendar`; a handler reads (`readClaimForReminder`) and writes (`sendReminder`)
in two steps, or throws until its retries are used (`failReminder`). A job's id
is a function of the claim, so a finished job blocks the next one until pg-boss
purges it (`purgeJobs`, external).

### ClaimReports

A reader that takes one statement at a time (claims, recoveries, terminal
events) against writers that commit in between. `reconcilePortfolioTotals`,
`aggregateCarrierRecovery` and `aggregateCrossAccountPortfolio` are the keys by
which `accumulateClaimReconciliation` groups what was read; `deriveClaimStatus`
is computed from the same reads. `rpDirty` is a history variable.

### PaymentGate

`decision` has the day each action was recorded for a run; a request reads what
it needs (`payReq`) and writes later. The unique key (run, action) is what makes
the second of two equal inserts roll back. The short-pay composition sums the
accepted overcharges; the do-not-pay one needs a rejected run; an escalation
needs a hold past its grace period and no approval.

### ExportRecord

The handler of `EXPORT_RECORD_V1` inside the worker's transaction: call the
adapter, insert the acknowledgement, throw if it failed, commit. The adapter's
effect (`exEffect`) outlives a rollback. An expired job is handed out again
while the first handler goes on, so two handlers of one export can be at work.

### WorkflowInstance

Creation races on the subject's unique key; a transition takes the row lock,
validates against the map, and writes state, log line and event in one
statement.

### ContractReview

From upload to a verified version. Extraction is a function of the response;
`applyContractExtractionAbstention` keeps the fields above the confidence the
policy asks for; `generateClarifyingQuestions` asks for the others.
`finalizeContractVersion` is three steps: fields, open questions, insert. A
finalization that something disturbed between its steps is marked `disturbed`
(history), and the property says what is then still true.

### RequestGate

Every route is a record: its gate, the checks of its handler in their order, and
how it touches rows. A request is a route, an account header, a row it names and
at most one flaw. The gate admits it in one step, with the membership it sees;
the handler answers in another, under `txScope`, after the membership may have
changed. The models of the single operations start where a route's checks end.

### RuleGovernance and RuleSheet

A version is a rule and the states its chain went through, because successors
are inserted and (predecessor, state) is unique. Proposals of both kinds are
persisted, backtested, accepted (as SHADOW) and ratified; `transition`s go
through the routes with their grounds; a reversal counts, then commits.
`RuleSheet` puts the console over it: a list, a sheet, buttons, and answers that
arrive for what is no longer asked. `wsRaced` is a history variable.

### TenantAdmin

Accounts, clients, vendors, memberships, with the ancestor checks of
`tenant-admin-routes.ts`, and role changes from two surfaces: a statement reads
the old role in its snapshot and writes when it gets the row. `Recorded` is the
ledger event of the change, whose id is a function of membership and role.
`contended` is a history variable.

### UserDirectory, RateDesk, ScopedStore

The console's users page, which walks keyset pages while rows come and go; its
rates page, whose client is switched under requests in flight; and the pages
over the in-memory store, each with its own copy of a scope's rows.
`UserDirectory` and `RateDesk` let a row be acted on whenever it is in the list,
which is more than `isLoading` allows: safety of more behaviours.

### Deployment

Commits are numbered along the branch. A run migrates with retries, uploads,
polls `/health`, then advances the tag or rolls back. Builds finish in the
hosting service's own time (external), perhaps under a later run. A commit is
good, dead, without a database, or has a broken migration.

## 4. Runs

Modules that share no state are checked in one run: each behaviour works at one
desk, chosen by the initial state, and leaves the others alone, so the states
add up and do not multiply. A call of the rule routes past the console counts as
a race for `ForkNeedsARace` (`PastTheConsole`).

| Run | Shows |
|---|---|
| `queue` | One row with two tries per job and a tenant that comes and goes, or two rows that compete for a scan limit of 1 (`OnceTried`): `OneJobPerClaim`, `OpenClaimHasWork`, `SettledIsFinal`, and with redeploys `DueFires`, `EventuallySettled`. |
| `queue_frozen` | *Violated.* `DueFires` without redeploys. |
| `delivery` | One dispute with room for two rows in each table, so that a second command or message would show: `OneCommandPerApproval`, `ContractHolds`. One claim over four days, grace 1, so that a deadline can move before, between and after its reminders: `RemindersInOrder`, `OverdueIsChased`. |
| `settlement` | Two transactions over a claim of 2: `FullRecoveryPostedOnce`, `SerialBooksBalance`, `OutcomeIsFinal`. Three claims, two carriers, accounts and currencies, one reader: `ReportReconciles`. One run, two findings, three days, two requests: `EscalatedInTime`, `DecisionsAreFinal`. Two exports, one without an adapter, two handlers, one retry: `AcknowledgedOnce`. One subject, three states with a cycle, two transactions: `LogExplainsState`. |
| `ledger_over` | *Violated.* `NeverOverRecovered` under overlap. |
| `review` | Two findings and two transactions for the locks, one finding accepted twice for the claims: `NoLockCycle`, `ClaimRestsOnAcceptance`, `FindingClaimedOnceSerially`. One extraction with a found and a missing field, two finalizations, two entries: `VerifiedAsReviewed`. All routes, two accounts, every membership: `EffectsAreAuthorized`, `ForeignLooksMissing`. |
| `intake` | Three requests, two drafts, one number, three runs, so that two requests queue for a held lock and two finalise one draft: `OneFirstBilling`, `DraftConfirmedOnce`. |
| `rules` | 423 documents in six families, two rates, any contract: `KickbackIsComplete`, `VarianceIsWarranted`, `ScorecardReconciles`. 282 rule trees of every node type over all pairs of ten fact values: `VerdictRestsOnFacts`. A seed and two proposals, two corpora, two analysts, two reversals, a policy of one and three counted, so that a third can follow two that missed each other, up to four versions: `ActiveWasVetted`, `LoneReversalQuarantines`; the console over them: `ForkNeedsARace`. |
| `administration` | Two accounts, two members, two requests: `ScopeChainConsistent`, `CurrentRoleIsExplained`, `PortalLeavesStaffRolesSerially`. Three rows of which two share a timestamp, pages of one, two walks: `WalkIsComplete`. Two clients, two rates, two loads: `RatesStayWithTheirTenant`. Two clients, two files: `RowsStayWithTheirClient`. Three commits, at most one broken, one manual run: `CodeNeverAheadOfSchema`, `LastGoodOnlyAdvances`. |
| `export_failed` | *Violated.* `FailureIsOnRecord`. |
| `replay` | *Violated.* `ReplayReproduces` for a contract the tenant does not have. |
| `proposal_pins` | *Violated.* `ProposalActiveIsPinned`. |

**Bounds.** The code's constants (5 attempts, 30 minutes, 20 rows, 6 tries) are
replaced by the smallest values that keep both sides of every comparison
reachable: a first and a last attempt, a fresh and a stale claim, a batch that
does and one that does not take everything, a retried and an exhausted job.
`MaxUptime` only saturates: beyond `StaleAfter` larger values behave alike. In
`delivery` a job is tried once: retries of a job are the `queue` run's subject,
and reclaims repeat executions all the same. Two transactions suffice for every
pairwise race the code has, three let a third wait behind a pair; the theorems
hold for any number. `MaxRows`, `MaxAccepts`, `MaxExports`, `MaxLog`,
`MaxEntries`, `MaxChanges`, `MaxEdits`, `MaxRateEdits`, `MaxStEdits`,
`MaxClients`, `MaxTally`, `MaxVersions`, `MaxCommits`, `MaxDispatches`, `MaxDay`
and `LastDay` cap what the code leaves unbounded. The documents of `rules` start
from a clean 210, 310 and PDF and vary what one part of the code looks at:
header fields (every subset), totals and amounts (a cent off, missing, no
number, NaN), currencies (per line, header, malformed), rates and bases,
extracted charges, and corrected payloads; two lines suffice for a sum, for
mixed currencies and for an attribution that is not unique. Symmetry is declared
over transactions, requests, accounts, members or analysts, in runs that check
no liveness. Most passing runs set `CHECK_DEADLOCK FALSE`, because a request may
be the last one and a bound may be reached; the queues and the delivery chain
never stop and are checked for deadlock.

**Fairness.** For the queues: weak fairness of `Scan` (cron fires every minute),
`Fetch` (workers poll), `Expire` (pg-boss supervises), `Finish` (a callback
whose transaction committed returns) and `Tick`. Nothing assumes that an
execution succeeds or that a handler is registered. For the reminders: weak
fairness of the scan, of purging and of the calendar, and strong fairness of
each handler's steps, because deadlines may be moved and workers restarted under
it again and again; a handler throws only where the code does. The liveness
results also need `WF(Restart)`: the platform redeploys the worker again and
again. This is an assumption about operations and not about the code, and
`queue_frozen` shows what happens without it. `DueFires` and `EventuallySettled`
are claimed for tenants that are active from some point on, since scans skip the
others; `OverdueIsChased` for a claim that is overdue for good.

**What the violated runs say.**

* *Frozen scan clock.* The cron payload's `requestedAt` is computed once per
  boot (`jobs/boss.ts:156`, `:174`) and used as *now* by the scans. Commands
  and messages that become due after boot wait for the next boot, while
  `boss.ts:48` wants them to "fire promptly".
* *Over-recovery.* Both claim operations validate what they read without a
  lock.
* *A run that cannot be replayed.* `resolveAndEvaluate` takes `CONTRACT_RUBRIC`
  because an id was given, `replayAuditRun` takes it only if a version was
  pinned, and only versions that exist are.
* *Failed exports leave no row.* The `FAILED` row is inserted in the transaction
  that the following throw rolls back (`export-record-handler.ts:84`), while the
  comment above it wants one row per failed attempt.
* *Activation past ratification.* `POST activate` with cases moves the SHADOW
  version of a contract proposal to ACTIVE like any other
  (`rule-governance-routes.ts:121`); the successor row does not carry the
  proposal's id, so the CHECK of migration 0043 does not see it, although
  `contracts/README.md:23` calls ratification the only such boundary. A later
  ratification then fails with `RATIFICATION_CONFLICT`.

Further disagreements have no run of their own. Five need an interleaving or a
restart: `claimed_at` gets the frozen clock too, so after a long uptime a
restart makes a claim of a moment ago look stale
(`claim-due-workflow-commands.ts:30` wants "the moment of this flip"); two claim
creations over one finding both pass `detectDuplicateClaimedFinding`, a separate
SELECT (`FindingClaimedOnceSerially` is what remains true); a rejection that
loaded a draft before a confirmation committed overwrites its status, and the
run, its payment hold and its findings stay behind a rejected draft
(`RejectedWithoutRunSerially`, proved, is what remains true); `resolveClaim`
(library code no route calls today) can write two outcomes when two resolutions
race with different ones, since only equal outcomes share an audit event id
(`FullRecoveryPostedOnce`); and the `old` CTE of `update-finding-status.ts`
reads the statement's snapshot while the UPDATE sees the newest row, so a
history row's `from_status` can be out of date. The others need none:
`recordPartialRecovery` posts to a denied or written-off claim, although
`validate-claim-resolution.ts:7` says the outcomes end recovery activity; a
finding on a dispute can be accepted again and enter a second dispute, although
`create-dispute-from-findings.ts:48` calls that solved; and
`schedule-workflow-command-jobs.ts:26` describes a job id without attempts,
which the code at `:63` rightly includes (`OneJobPerClaim` fails without them).

On the audit side: a 310 whose C3 currency is malformed fails its gate, but the
CHECK of migration 0074 refuses the invoice row, so nothing is recorded although
`persist.ts:53` says rejected invoices are "always persisted" (`Recordable`); the
same CHECK is the only thing that refuses a lower-case currency on a PDF charge.
A corrected payload's `lineSum` is taken from the payload, so the footing gate
compares two statements of the analyst and not the lines (`AddsUp` says so). The
scorecard's `currency` is the header's while its totals are in the currency of
the linehaul lines. `STD.310.CURRENCY_CONSISTENCY` is unassessable for every
document that is no 310, and so appears in each scored run's findings. `approx`
with a malformed tolerance throws although the interpreter calls itself total.

Rules and contracts: nothing asks whether a version is the head of its chain
(`transitionRuleLifecycle`, `ratifyContractRuleProposal`), so chains fork, and
only the console's list of heads keeps them single (`ForkNeedsARace`);
activating a version with cases a second time always conflicts with its own
audit event; two reversals at once each miss the other's row and neither
quarantines, although `rule-engine/README.md:20` describes a threshold: that is
left to the next reversal that is alone (`LoneReversalQuarantines`). A field
corrected back to an earlier value is accepted but keeps the older row's place
in the order, and an answer returned to an earlier one throws
`ClarificationAnswerConflictError`. An upload of bytes that another tenant
stored is a 409.

Payments and reports: `generatePaymentEscalation`, `generateShortPayDecision`,
`getDerivedClaimStatus` and `getCarrierRecoveryReport` have no production
caller today. `withTenantReadTx` (`tenant-context.ts:119`) may read a lagging
replica; the models take it for the primary.

Access: `update-portal-member-role.ts:18` says that an analyst's membership can
"never be touched through this path, structurally", but the restriction is in
the statement's snapshot, and a role change that commits in between is
overwritten (`PortalLeavesStaffRolesSerially` is what remains true). Its comment
calls a repeated change's event "a silent no-op", which is so only for equal
content; otherwise the write fails with `AuditEventConflictError`. The portal's
gates do not look at `membership.is_active`. Changing a finding's status,
recording inbound mail and creating a claim are open to any role of the tenant.

Web client: an overtaken load of the users, rates or rules page overwrites newer
rows, and so does a late rule detail; `fetchAllUsers` takes a failed page or a
cursor whose row vanished for the end of the list (`WalkIsComplete` excludes
those walks); the page number of the rules list is not clamped. When the client
is switched while a file uploads, the shown client's rows and the new file are
stored under the client of the drop; leaving the page loses the upload.

Deployment: a superseded run tags its own commit, which no poll saw serving; a
run for an older commit that starts later puts older code over newer, though the
tag stays; nothing polls a rollback, and one without a tag is left to people.

## 5. Proofs

`ClaimQueueProofs` (TLAPS, for every set of rows and all bounds, from
`ClaimQueueAssumption` only). The invariants are not inductive on their own:
`AttemptsBounded` needs that a claimed row still has a spare attempt when it is
sent back, `OneJobPerClaim` needs that steps of pg-boss never remove a job, and
the type invariant needs that a queued job has a try left. `OpenClaimHasWork`
(the job of a claim that stands has not completed, none of its executions has
committed, and work already on the ledger was an earlier claim's) needs that a
claim's job id is new when the row is claimed, also when the row was reclaimed
while an execution of the earlier claim goes on. `IndInv` therefore conjoins
these four invariants with `JobBudget` (a queued job has tries left),
`AbsentUnclaimed` (a row that was never inserted has no attempts, so inserting
it disturbs no job), `ClaimCounted` (a claimed row has counted its claim),
`Dispatched` (nothing executes before its job exists) and `AuditedWasClaimed`
(nothing is on the ledger before a claim). One lemma per action shows that it preserves `IndInv`; a
scan is split into the facts about reclaiming (`ReclaimFacts`) and claiming
(`ClaimFacts`). From it follow `TypeCorrect`, `BoundedAttempts`,
`JobForEveryClaim`, `NoOpenClaimIsOrphaned` and `FinalityOfSettledRows`.

`InvoiceIntakeProofs` (for any number of requests, drafts, numbers and runs).
None of the properties is inductive. `OneFirstBilling` needs the lock's
argument: a request past `lockKey` holds the lock of its key, so between its
count and its commit no other request can commit a run of that key, and a count
of none is still none when it commits. `DraftConfirmedOnce` needs that a run of
a draft exists only together with the ledger event of that draft.
`DraftRunHasCarrier` needs that an `extracted` draft has a carrier and that a
confirmation in flight carries one. `RejectedWithoutRunSerially` needs that a
request on a draft outside `overlapped` is alone on it, so that what it loaded
still holds. `IntakeInvariant` proves the conjunction, one lemma per action.

`DisputeDeliveryProofs` (any disputes, bounds of the two queues, claims, grace).
The refinement of `DeliveryContract` is proved step by step: approval, a
command's commit, a call-out and a message's commit map to the contract's steps,
and scans, fetches, retries, expiries, crashes and restarts to stutters. It
needs `DeliveryInvariant`: jobs and executions exist only for rows that exist,
rows only for approved disputes and only with the first id, and whatever is past
the sender (an execution, a delivered message) left the message's key with the
carrier (`SentToCarrier`, `CarrierKeys`). `OneCommandPerApproval` follows from
`RowsFollowApproval`. `RemindersInOrder` needs that what a handler in flight
read is still so unless the claim was closed on that very day
(`HandlersWarranted`), and that nothing is dated after today.

`SettlementProofs` has five parts.

* Claim books (any set of transactions and any claimed amount):
  `FullRecoveryPostedOnce` follows from `PostedWithEvent`: money is posted
  exactly when the terminal event names a recovery event, and the ledger never
  replaces such an event. `SerialBooksBalance` follows from `ReadsAreCurrent`:
  while nothing has overlapped, the one open transaction works on current
  values. `OutcomeIsFinal` is an action property from the same invariant: a
  resolution that finds a closed claim was reading an old state, which needs an
  overlap, and a partial recovery leaves the status alone.
* Workflow instances (any map, subjects, transactions): `LogExplainsState` needs
  that a transaction about to write holds the row's lock and that what it read
  under the lock still holds (`WriterHoldsLock`), and that an absent instance
  has an empty log.
* Payments (any runs, findings, requests, days): `EscalatedInTime` needs that an
  escalation about to be written is still due (`PayReqJustified`): the hold
  cannot have gone, and an approval that came in since is of today.
  `DecisionsAreFinal` is an action property; that a run never returns to the
  pending list follows from decisions being final.
* Exports (any exports, handlers, tries): `AcknowledgedOnce` needs that at most
  one handler has an acknowledgement open (`OneInserter`) and that an open one
  found no committed row (`RunsAreSound`).
* Reports (any finite set of claims): the totals are the `SumFunctionOnSet` of
  the community modules. Their recursion equation, their type, that taking an
  element out subtracts it, and that the parts of a bucket add up to the whole
  are proved by taking a smallest set of claims for which they fail
  (`MinimalSubset`): well-founded minima take the place of induction.
  `ReportReconciles` also needs that what a reader saw is the current state or
  an older open one (`SeenIsOld`).

`ReviewProofs` has three.

* Disputes (any findings, disputes, transactions): `NoLockCycle` needs
  `LocksInOrder`: a creation holds only findings that come before every one it
  still waits for. `ClaimRestsOnAcceptance` needs that what a claim creation
  read of its dispute cannot be undone (`ReadStands`): an accepted dispute can
  only be closed. `FindingClaimedOnceSerially` needs that the one creation under
  way still has a true duplicate check (`SerialCheckStands`).
* Contract reviews: `VerifiedAsReviewed` is an action property from
  `ReadIsCurrent`: an undisturbed finalization has read what an analyst would
  read now.
* Requests (any accounts, rows, memberships; the code's own table of routes):
  `EffectsAreAuthorized` needs that what the gate granted stays with the request
  (`Granted`), and that the handler's scope is the granted account.
  `ForeignLooksMissing` compares the first failing check for a foreign row and
  for no row: on every route a check of the row's state comes only after one
  that the row is there (`WellFormed`, proved route by route).

`AuditProofs` (any trees, facts, documents, rates and crosswalk) is bottom up.

* The interpreter. `evaluate`, `Asks` and `unwrapRequires` are recursive
  functions on `Ast`. That such a function satisfies its equation is proved by
  well-founded recursion on `Depth`, and what holds of every tree by taking one
  that is least deep among those for which it fails (`LeastDeep`). So
  `VerdictRestsOnFacts` holds of every rule, not of the ones in a test.
* Decimals. `gcd` terminates and divides, a fraction in lowest terms is unique,
  cents add and subtract as integers do, and rounding leaves cents alone.
* The run. `AuditInv` says that the run on record is the audit of one document
  under the answers and the rate found at the time, although rates and policies
  have changed since. With it the other three are statements about
  `evaluateInvoice`: each gate of the rubric, tree by tree, fails exactly when
  the document has the defect (`GateFailures`, `KickbackIsComplete`); the
  linehaul facts are the sums and currencies of the document's own lines, so
  the criterion fails exactly when they differ from the rate by more than a cent
  (`VarianceIsWarranted`); findings, scored criteria and rows correspond one to
  one and at most one has a price (`ScorecardReconciles`).
* Replay. `OnlyUnpinnedRunsDiverge`: a run of a pinned contract, or of none,
  replays to the same result. `ReplayReproduces` fails only for the others.

It assumes that operands are less deep than their node (`AstAssumption`), that
the rules and the rubrics' trees are among the trees (`RulesAssumption`,
`RubricAssumption`), and that documents are of the types the code's schemas let
in and `None`, `Bad` and `NaN` none of their values (`DocumentAssumption`).
Where two arms of a `CASE` could hold at once, which leaves its value open, the
order that the code's early returns fix is written as an `IF`.

`RuleGovernanceProofs` (any seeds, proposals, corpora, analysts, versions).
`ActiveWasVetted` needs that promotion events name versions that exist, so that
no later step is taken for an earlier one's ground.
`LoneReversalQuarantines` needs that a reversal nothing overlapped is alone
and its count still right (`SerialCountIsRight`), whatever overlapped before it. `ConsoleKeepsToTheRoutes`
proves that the console implements the routes (`wsSpec => rgSpec`), so
everything proved of the routes holds of it. `ForkNeedsARace` is what only the
page keeps true; it needs that, as long as nothing raced, what an analyst can
act on is up to date: lists hold heads only and a sheet is open on a head
(`TabIsFresh`).

`AdministrationProofs` has five.

* Tenants (any accounts, clients, vendors, members, requests):
  `ScopeChainConsistent` needs that every row hangs from rows that exist
  (`RowsAreRooted`). `CurrentRoleIsExplained` needs that the from-role a request
  read is itself the first role or explained (`FromIsExplained`), since a change
  to the same role writes no event. `PortalLeavesStaffRolesSerially` needs that
  two open changes of one membership are known to overlap (`OverlapIsKnown`).
* The users page (any finite set of rows, stamps, page size, loads):
  `WalkIsComplete` needs where a walk stands: what it has is in order and ends
  at its cursor (`Placed`), and what it has yet to find lies ahead
  (`NoneLeftBehind`). That a finite set of rows can be put in order at all
  (`SortedExists`) is proved by a smallest set that cannot.
* The rates page (any clients, versions, rates, loads): the invariant says
  nothing of what the page shows, because the server asks for the tenant again:
  `createContractRate` checks the version's owner, updates and deletes are
  scoped.
* Deployment (any commits, retries, polls, runs): `CodeNeverAheadOfSchema` needs
  that a run past its migration has its commit's schema (`MigratedFirst`) and
  that so has the tag a rollback goes to (`TagIsMigrated`).
  `LastGoodOnlyAdvances` needs that the run's clone has the tag's current place,
  because runs exclude each other (`CloneIsCurrent`), and that a run that goes
  on to tag has seen a healthy descendant (`PollIsEvidence`).
* The in-memory store (any clients, vendors, users, files):
  `RowsStayWithTheirClient` needs that the page's copy is what the store holds
  for the client shown (`CopiesInSync`), since every write stores the copy back,
  that uploads belong to the client shown unless it was changed under them
  (`UploadsBelongHere`), and that a file is dropped once.

The assumptions are those of the modules, and TLC evaluates them on every run:
sets of ids are finite where the argument needs it, ids that are compared are
naturals, and the values that stand for nothing (`NoOne`, `NoCursor`, `Nobody`,
a free lock) are none of the ids.

Only model-checked: liveness (`DueFires`, `EventuallySettled`,
`OverdueIsChased`), which is outside the prover's reach.

## 6. Not modelled

Reference data and the as-of selections, tier folds and tightening of the rubric
resolver have no production caller; so have the amendment functions of contracts
(only the retirement of a rule is an action). `resolveActiveRuleVersion` is
among them: it would still resolve an ACTIVE version whose successor is
QUARANTINED or DEPRECATED; and `monotonic-tighten.ts:48` takes text literals for
numbers. Expected charges, their alignment and attribution are decimal
arithmetic without state. Extraction, evidence prose and discovery's detectors
are what a model or a scoring function makes of data. X12 tokenizing,
spreadsheet parsing, SFTP intake, branding, profiles, metrics, static files,
sign-in (the authentication library's) and layout are data handling or
presentation. Row-level security is taken as given: each model is the state of
one tenant, except where tenants meet (`RequestGate`, `TenantAdmin`,
`RateDesk`). Assignment of findings, notes on inbound mail and dead-letter
queues are single writes that nothing else reads.
