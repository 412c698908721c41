------------------------------ MODULE RequestGate ------------------------------
(***************************************************************************)
(* The HTTP surface: every route is a gate, the checks its handler makes   *)
(* in their order, and what it then reads or writes.  The gate looks the   *)
(* caller up in a transaction of its own; the handler runs later, in a     *)
(* transaction scoped to the account the gate admitted.  In between the    *)
(* membership may be changed, switched off or removed.                     *)
(*                                                                         *)
(* One user is followed: requests of different users meet only in the rows *)
(* they write, which are the other modules' matter.  A request is its      *)
(* route, the account of its x-account-id header, the row it names and the *)
(* one thing that is wrong with it, if any: the check it would fail.       *)
(***************************************************************************)
EXTENDS Integers, Sequences, FiniteSets, SequencesExt

CONSTANTS
    GtAccount,   \* account ids
    GtRow,       \* rows the routes work on
    RowAccount,  \* the account of each
    GtRole,      \* membership roles in play
    NoOne        \* no row, no account, no membership

ASSUME RequestGateAssumption ==
    /\ RowAccount \in [GtRow -> GtAccount]
    /\ NoOne \notin GtAccount \cup GtRow \cup GtRole \cup {"account_viewer", "account_admin"}

VARIABLES
    gtInternal,  \* app_user.is_internal of the user; never changes
    gtMember,    \* the user's membership
    gtOpen,      \* accounts with is_active
    gtReq        \* the request in flight

gtVars == <<gtInternal, gtMember, gtOpen, gtReq>>

NoMembership == [account |-> NoOne, role |-> NoOne, active |-> FALSE]
Memberships == [account : GtAccount, role : GtRole, active : BOOLEAN] \cup {NoMembership}

-----------------------------------------------------------------------------
(* Checks, in the order a handler makes them, with the code of a failure.  *)

Bad(part) == [on |-> part, code |-> 400]
Who(part) == [on |-> part, code |-> 401]
NoSuchRow(code) == [on |-> "row", code |-> code]
Refused(code) == [on |-> "state", code |-> code]   \* the row's state forbids it
Clash(code) == [on |-> "clash", code |-> code]     \* what is created clashes or is rejected
isUuid == Bad("id")
body == Bad("body")
query == Bad("query")
actor == Who("actor")
client == Who("client")
found == NoSuchRow(404)
NoFlaw == [on |-> "none", code |-> 0]

(* how: what the route does when every check passes.                       *)
Route(gate, how, checks) == [gate |-> gate, how |-> how, checks |-> checks]

(* limit and offset are numbers within bounds and offset is not combined   *)
(* with a cursor, or the query is refused.                                 *)
parseLimitOffset == query
decodeCursor == query

-----------------------------------------------------------------------------
(* Findings, evidence and audit runs.                                      *)

getFindings == Route("tenant", "list", <<query>>)
getFindingsSummary == Route("tenant", "list", <<>>)
getGateFailures == Route("tenant", "list", <<parseLimitOffset, decodeCursor>>)
patchFindingStatus == Route("tenant", "write", <<isUuid, body, found>>)
postFindingAction == Route("tenant", "write", <<isUuid, body, found>>)
patchFindingAssign == Route("analyst", "write", <<isUuid, body, found>>)
postFindingReverse ==
    Route("analyst", "write", <<isUuid, body, found, Refused(422), Refused(409), body>>)
getProvenance == Route("tenant", "read", <<isUuid, client, found>>)
getRubricConflicts == Route("tenant", "list", <<>>)
getRubricSnapshotOf == Route("tenant", "read", <<isUuid, found>>)
getConflictsOf == Route("tenant", "read", <<isUuid>>)
getReplayManifestOf == Route("tenant", "read", <<isUuid, found>>)
getScorecardOf == Route("tenant", "read", <<isUuid, found>>)
postAuditRun == Route("tenant", "create", <<client, body, query, Clash(422)>>)
postReplay == Route("tenant", "read", <<isUuid, found, Refused(409), Refused(422)>>)
getInvoices == Route("analyst", "list", <<parseLimitOffset>>)

(* Disputes, claims and payments.                                          *)

getDisputeQueues == Route("tenant", "list", <<client>>)
getDispute == Route("tenant", "read", <<isUuid, found>>)
postDisputeApprove == Route("analyst", "write", <<isUuid, actor, NoSuchRow(409), Refused(409)>>)
postDisputeAccept == Route("analyst", "write", <<isUuid, actor, NoSuchRow(409), Refused(409)>>)
postDisputeReject == Route("analyst", "write", <<isUuid, actor, NoSuchRow(409), Refused(409)>>)
postDisputePartialAccept ==
    Route("analyst", "write",
          <<isUuid, actor, body, NoSuchRow(409), Refused(409), Refused(422)>>)
postDisputeClose == Route("analyst", "write", <<isUuid, actor, NoSuchRow(409), Refused(409)>>)
getDisputeCommunications == Route("tenant", "read", <<isUuid, found>>)
postDisputeCommunication == Route("tenant", "write", <<isUuid, actor, body, found>>)

(* Mutant: the dispute's state is looked at before whose it is.            *)
postDisputeClaimEager ==
    Route("tenant", "write", <<isUuid, actor, client, Refused(409), found>>)
postDisputeClaim == Route("tenant", "write", <<isUuid, actor, client, found, Refused(409)>>)

getClaims == Route("tenant", "list", <<client, parseLimitOffset, decodeCursor>>)
getClaim == Route("tenant", "read", <<client, isUuid, found>>)
getPendingPayments == Route("tenant", "list", <<>>)
postPaymentAuthorization ==
    Route("analyst", "write", <<isUuid, body, actor, client, found>>)
putPaymentPolicy == Route("analyst", "create", <<actor, client, body>>)
getRecoveryReport == Route("tenant", "list", <<client>>)
getCrossAccountRecovery == Route("internal", "list", <<>>)

(* Contracts and rules.                                                    *)

postContract == Route("tenant", "create", <<client, body, query, Clash(409)>>)
postContractVersion ==
    Route("tenant", "write", <<client, isUuid, body, query, found, Refused(409)>>)
postFinalize ==
    Route("tenant", "write", <<isUuid, client, actor, body, found, Refused(409)>>)
getClarifyingQuestions == Route("tenant", "list", <<query, client>>)
putAnswer == Route("tenant", "write", <<isUuid, client, actor, body, found, Refused(409)>>)
postCorrection == Route("tenant", "write", <<isUuid, client, actor, body, found, Refused(409)>>)
getProposals == Route("tenant", "list", <<>>)
getProposalPreviews == Route("tenant", "list", <<>>)
postProposalAccept == Route("tenant", "write", <<isUuid, body, found, Refused(409)>>)
postAcceptanceRatify == Route("tenant", "write", <<isUuid, body, found, Refused(409)>>)
postRuleRatify == Route("internal", "write", <<isUuid, body, NoSuchRow(500), Refused(500)>>)
postRuleActivate ==
    Route("internal", "write", <<isUuid, body, NoSuchRow(500), Refused(422), Refused(409)>>)
getRules == Route("internal", "list", <<query, parseLimitOffset>>)
getRule == Route("internal", "read", <<isUuid, found>>)
postRuleDeprecate == Route("internal", "write", <<isUuid, body, NoSuchRow(500), Refused(500)>>)
postRuleQuarantine == Route("internal", "write", <<isUuid, body, NoSuchRow(500), Refused(500)>>)

(* Invoice drafts, for analysts and for the portal's admins.               *)

postDraft == Route("tenant", "create", <<client, body, Clash(422)>>)
postDraftConfirm ==
    Route("tenant", "write", <<client, isUuid, body, found, Refused(409), Refused(422)>>)
postDraftReject == Route("tenant", "write", <<client, isUuid, found, Refused(409)>>)
postPortalDraft == Route("admin", "create", <<client, body, Clash(422)>>)
postPortalDraftConfirm ==
    Route("admin", "write", <<client, isUuid, body, found, Refused(409), Refused(422)>>)
postPortalDraftReject == Route("admin", "write", <<client, isUuid, found, Refused(409)>>)
postPortalContract == Route("admin", "create", <<client, body, query, Clash(409)>>)

(* The portal's own pages.                                                 *)

getPortalInvoices == Route("viewer", "list", <<parseLimitOffset>>)
getPortalScorecard == Route("viewer", "read", <<isUuid, found>>)
getPortalFindings == Route("viewer", "list", <<query, parseLimitOffset>>)
getPortalEvidence == Route("viewer", "read", <<isUuid, found>>)
getPortalDispute == Route("viewer", "read", <<isUuid, found>>)
getPortalCommunications == Route("viewer", "read", <<isUuid, found>>)
getPortalClaim == Route("viewer", "read", <<isUuid, found>>)
getPortalClaimDocuments == Route("viewer", "read", <<isUuid, found>>)
getPortalAuditLog == Route("viewer", "list", <<query, parseLimitOffset>>)
getPortalMembers == Route("member", "list", <<client, parseLimitOffset, decodeCursor>>)
patchPortalMember == Route("admin", "write", <<client, isUuid, body, found>>)

(* Staff, branding and profiles.                                           *)

getAuditLog == Route("internal", "list", <<query, parseLimitOffset>>)
staffPostTenant == Route("staff", "create", <<body, Clash(409)>>)
staffGetTenants == Route("staff", "list", <<parseLimitOffset, decodeCursor>>)
staffGetTenant == Route("staff", "read", <<isUuid, found>>)
staffPatchTenant == Route("staff", "write", <<isUuid, body, found>>)
staffPostBranding == Route("staff", "create", <<isUuid, body, Clash(409)>>)
staffPatchBranding == Route("staff", "write", <<isUuid, body, found>>)
staffGetMembersOf == Route("staff", "list", <<isUuid>>)
staffPostMember == Route("staff", "create", <<isUuid, body, Clash(409)>>)
staffPatchMember == Route("staff", "write", <<isUuid, body, found>>)
staffDeleteMember == Route("staff", "write", <<isUuid, found>>)
staffPostClient == Route("staff", "create", <<isUuid, body, Clash(409)>>)
staffGetClients == Route("staff", "list", <<isUuid>>)
staffPatchClient == Route("staff", "write", <<isUuid, body, found>>)
staffPostClientMember == Route("staff", "write", <<isUuid, body, found, Refused(409)>>)
staffPostVendor == Route("staff", "write", <<isUuid, body, found, Refused(409)>>)
staffGetVendors == Route("staff", "list", <<isUuid>>)
staffPatchVendor == Route("staff", "write", <<isUuid, body, found>>)
staffPostVendorMember == Route("staff", "write", <<isUuid, body, found, Refused(409)>>)
staffGetContractVersions == Route("staff", "list", <<isUuid>>)
staffGetRates == Route("staff", "list", <<isUuid>>)
staffPostRate == Route("staff", "write", <<isUuid, body, found>>)
staffPatchRate == Route("staff", "write", <<isUuid, body, found>>)
staffDeleteRate == Route("staff", "write", <<isUuid, found>>)
staffGetMembers == Route("staff", "list", <<parseLimitOffset, decodeCursor>>)
patchInternalBranding == Route("analyst", "write", <<body, client, found>>)
getBranding == Route("public", "list", <<>>)
(* The caller's own user row, which the gate has just read.                *)
patchProfile == Route("tenant", "create", <<body>>)

Routes ==
    {getFindings, getFindingsSummary, getGateFailures, patchFindingStatus, postFindingAction,
     patchFindingAssign, postFindingReverse, getProvenance, getRubricConflicts, getRubricSnapshotOf,
     getConflictsOf, getReplayManifestOf, getScorecardOf,
     postAuditRun, postReplay, getInvoices, getDisputeQueues, getDispute, postDisputeApprove,
     postDisputeAccept, postDisputeReject, postDisputePartialAccept, postDisputeClose,
     getDisputeCommunications, postDisputeCommunication, postDisputeClaim, getClaims, getClaim,
     getPendingPayments, postPaymentAuthorization, putPaymentPolicy, getRecoveryReport,
     getCrossAccountRecovery, postContract, postContractVersion, postFinalize,
     getClarifyingQuestions, putAnswer, postCorrection, getProposals, getProposalPreviews, postProposalAccept,
     postAcceptanceRatify, postRuleRatify, postRuleActivate, getRules, getRule,
     postRuleDeprecate, postRuleQuarantine, postDraft, postDraftConfirm, postDraftReject,
     postPortalDraft, postPortalDraftConfirm, postPortalDraftReject, postPortalContract,
     getPortalInvoices, getPortalScorecard, getPortalFindings, getPortalEvidence,
     getPortalDispute, getPortalCommunications, getPortalClaim, getPortalClaimDocuments,
     getPortalAuditLog, getPortalMembers, patchPortalMember, getAuditLog,
     staffPostTenant, staffGetTenants, staffGetTenant, staffPatchTenant, staffPostBranding,
     staffPatchBranding, staffGetMembersOf, staffPostMember, staffPatchMember,
     staffDeleteMember, staffPostClient, staffGetClients, staffPatchClient,
     staffPostClientMember, staffPostVendor, staffGetVendors, staffPatchVendor,
     staffPostVendorMember, staffGetContractVersions, staffGetRates, staffPostRate,
     staffPatchRate, staffDeleteRate, staffGetMembers,
     patchInternalBranding, getBranding, patchProfile}

-----------------------------------------------------------------------------
(* Gates.  A context is what the handler's transaction is scoped to.       *)

Context(account, internal) == [account |-> account, internal |-> internal]
Admit(context) == [code |-> 0, context |-> context]
Refuse(code) == [code |-> code, context |-> Context(NoOne, FALSE)]

(* The role of the membership in the account, if both are active.          *)
lookupActiveRole(a) ==
    IF gtMember.account = a /\ gtMember.active /\ a \in gtOpen THEN gtMember.role ELSE NoOne

(* The portal's lookup does not look at the membership's is_active.        *)
lookupPortalRole(a) ==
    IF gtMember.account = a /\ a \in gtOpen THEN gtMember.role ELSE NoOne

tenantAuth(signedIn, a) ==
    IF signedIn /\ lookupActiveRole(a) # NoOne THEN Admit(Context(a, FALSE)) ELSE Refuse(401)

(* A second hook, after the tenant's.                                      *)
analystOnly(signedIn, a) ==
    LET tenant == tenantAuth(signedIn, a) IN
    IF tenant.code = 0 /\ lookupActiveRole(a) \notin {"analyst", "lead"} THEN Refuse(403)
    ELSE tenant

accountViewerAuth(signedIn, a, how) ==
    IF ~signedIn \/ lookupPortalRole(a) # "account_viewer" THEN Refuse(401)
    ELSE IF how \notin {"read", "list"} THEN Refuse(403)
    ELSE Admit(Context(a, FALSE))

accountAdminAuth(signedIn, a) ==
    IF signedIn /\ lookupPortalRole(a) = "account_admin" THEN Admit(Context(a, FALSE))
    ELSE Refuse(401)

portalMemberAuth(signedIn, a) ==
    IF accountAdminAuth(signedIn, a).code = 0 THEN accountAdminAuth(signedIn, a)
    ELSE accountViewerAuth(signedIn, a, "read")

tenantAdminAuth(signedIn) ==
    IF ~signedIn THEN Refuse(401)
    ELSE IF ~gtInternal THEN Refuse(403) ELSE Admit(Context(NoOne, TRUE))

internalAnalystAuth(signedIn) ==
    IF signedIn /\ gtInternal THEN Admit(Context(NoOne, TRUE)) ELSE Refuse(401)

preHandler(route, signedIn, a) ==
    CASE route.gate = "tenant" -> tenantAuth(signedIn, a)
      [] route.gate = "analyst" -> analystOnly(signedIn, a)
      [] route.gate = "viewer" -> accountViewerAuth(signedIn, a, route.how)
      [] route.gate = "admin" -> accountAdminAuth(signedIn, a)
      [] route.gate = "member" -> portalMemberAuth(signedIn, a)
      [] route.gate = "staff" -> tenantAdminAuth(signedIn)
      [] route.gate = "internal" -> internalAnalystAuth(signedIn)
      [] route.gate = "public" -> Admit(Context(NoOne, TRUE))

-----------------------------------------------------------------------------
(* Handlers.                                                               *)

(* Mutant: the transaction is opened without a scope.                      *)
txScopeOpen(context) == GtRow

(* Row-level security: the rows a handler's transaction can see.           *)
txScope(context) == {r \in GtRow : context.internal \/ RowAccount[r] = context.account}

Fails(check, context, row, flaw) ==
    CASE check.on = "row" -> row \notin txScope(context)
      [] check.on = "state" -> row # NoOne /\ flaw = check
      [] check.on = "client" -> context.account = NoOne
      [] check.on = "actor" -> FALSE
      [] OTHER -> flaw = check

(* The first check that fails gives the answer.                            *)
answer(route, context, row, flaw) ==
    LET failing == {i \in DOMAIN route.checks : Fails(route.checks[i], context, row, flaw)} IN
    IF failing = {} THEN 200 ELSE route.checks[Min(failing)].code

(* The accounts whose rows a request that passed its checks has touched.   *)
touched(route, context, row) ==
    CASE route.how \in {"read", "write"} -> {RowAccount[r] : r \in {row} \cap txScope(context)}
      [] route.how = "list" -> {RowAccount[r] : r \in txScope(context)}
      [] route.how = "create" -> {context.account} \ {NoOne}

NoRequest == [phase |-> "idle", route |-> getFindings, account |-> NoOne, row |-> NoOne,
              flaw |-> NoFlaw, context |-> Context(NoOne, FALSE), code |-> 0,
              held |-> NoMembership, open |-> {}, touched |-> {}]

Flaws(route) == {NoFlaw} \cup {c \in ToSet(route.checks) : c.on \notin {"row", "client", "actor"}}

(* The rows a request may name.                                            *)
Named(route) == IF route.how \in {"read", "write"} THEN GtRow \cup {NoOne} ELSE {NoOne}

(* The gate's transaction; a request it refuses is over.                   *)
receive(route, signedIn, a, row, flaw) ==
    LET gate == preHandler(route, signedIn, a) IN
    /\ gtReq' = IF gate.code = 0
                THEN [NoRequest EXCEPT !.phase = "admitted", !.route = route, !.account = a,
                                       !.row = row, !.flaw = flaw, !.context = gate.context,
                                       !.held = gtMember, !.open = gtOpen]
                ELSE [NoRequest EXCEPT !.phase = "answered", !.code = gate.code]
    /\ UNCHANGED <<gtInternal, gtMember, gtOpen>>

(* The handler's transaction.                                              *)
handle ==
    LET code == answer(gtReq.route, gtReq.context, gtReq.row, gtReq.flaw) IN
    /\ gtReq.phase = "admitted"
    /\ gtReq' = [gtReq EXCEPT !.phase = "answered", !.code = code,
                   !.touched = IF code = 200
                               THEN touched(gtReq.route, gtReq.context, gtReq.row) ELSE {}]
    /\ UNCHANGED <<gtInternal, gtMember, gtOpen>>

nextRequest ==
    /\ gtReq.phase = "answered"
    /\ gtReq' = NoRequest
    /\ UNCHANGED <<gtInternal, gtMember, gtOpen>>

(* Staff change the membership or the account, once while a request waits  *)
(* between its gate and its handler (the operations are TenantAdmin's).    *)
changeMembership ==
    /\ gtReq.phase = "admitted" /\ gtReq.held = gtMember /\ gtReq.open = gtOpen
    /\ gtMember' \in {NoMembership}
         \cup {m \in Memberships : gtMember.account \in {m.account, NoOne}}
    /\ gtMember' # gtMember
    /\ UNCHANGED <<gtInternal, gtOpen, gtReq>>

changeAccount ==
    /\ gtReq.phase = "admitted" /\ gtReq.held = gtMember /\ gtReq.open = gtOpen
    /\ \E a \in GtAccount : gtOpen' = (gtOpen \cup {a}) \ (gtOpen \cap {a})
    /\ UNCHANGED <<gtInternal, gtMember, gtReq>>

gtInit ==
    /\ gtInternal \in BOOLEAN
    /\ gtMember \in Memberships
    /\ gtOpen \in SUBSET GtAccount
    /\ gtReq = NoRequest

gtNext ==
    \/ /\ gtReq.phase = "idle"
       /\ \E route \in Routes, signedIn \in BOOLEAN, a \in GtAccount :
            \E row \in Named(route), flaw \in Flaws(route) : receive(route, signedIn, a, row, flaw)
    \/ handle
    \/ nextRequest
    \/ changeMembership
    \/ changeAccount

gtSpec == gtInit /\ [][gtNext]_gtVars

-----------------------------------------------------------------------------
(* Whatever happens to the membership while the request waits, the rows it *)
(* reads or writes belong to an account that was open and in which the     *)
(* user held, when the gate looked, a membership of the kind the route is  *)
(* for; only staff and the public branding lookup reach further.  A        *)
(* viewer of the portal writes nothing there.                              *)
EffectsAreAuthorized ==
    gtReq.touched # {} /\ gtReq.route.gate # "public" =>
        IF gtReq.context.internal
        THEN gtInternal
        ELSE /\ gtReq.touched \subseteq {gtReq.held.account}
             /\ gtReq.held.account \in gtReq.open
             /\ gtReq.route.gate \in {"tenant", "analyst"} => gtReq.held.active
             /\ gtReq.route.gate = "analyst" => gtReq.held.role \in {"analyst", "lead"}
             /\ gtReq.route.gate \in {"viewer", "admin", "member"} =>
                  /\ gtReq.held.role \in {"account_viewer", "account_admin"}
                  /\ gtReq.route.how \in {"write", "create"} =>
                       gtReq.held.role = "account_admin"

(* The answer to a request that names another account's row is the answer  *)
(* it would get if there were no such row, whatever else is wrong with the *)
(* request or with the row's state: the order of a handler's checks gives  *)
(* nothing away.                                                           *)
ForeignLooksMissing ==
    gtReq.phase = "admitted" /\ gtReq.route.how \in {"read", "write"}
      /\ gtReq.row # NoOne /\ ~gtReq.context.internal /\ RowAccount[gtReq.row] # gtReq.context.account
    => answer(gtReq.route, gtReq.context, gtReq.row, gtReq.flaw)
         = answer(gtReq.route, gtReq.context, NoOne, gtReq.flaw)
================================================================================
