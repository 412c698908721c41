------------------------------ MODULE TenantAdmin ------------------------------
(***************************************************************************)
(* Tenants, their clients and vendors, the memberships that let users into *)
(* them, and the gates that read those memberships before a handler runs.  *)
(*                                                                         *)
(* Who is staff (app_user.is_internal) is fixed: nothing in the program    *)
(* changes it, so a staff route's gate cannot go stale and is one step     *)
(* with its handler.  A portal request is admitted in a transaction of its *)
(* own, before the handler's.  A role change is one SQL statement that     *)
(* reads the old role from its snapshot, waits for the row, and overwrites *)
(* what it finds there: two steps here, since another change may commit in *)
(* between.  Names, colours, contact data and rejected bodies are left out.*)
(***************************************************************************)
EXTENDS Integers, FiniteSets

CONSTANTS
    Account, Client, Vendor, Member,  \* ids for rows of each table
    User,        \* app_user ids (an e-mail address is the same thing)
    Staff,       \* users with is_internal
    Role,        \* the membership roles in play
    Invited,     \* users whose address staff type into an invitation
    Slot,        \* requests that may be in flight at the same time
    MaxChanges,  \* bound on role-change requests
    Nil

MEMBERSHIP_ROLES ==
    {"analyst", "lead", "account_viewer", "account_admin", "client_scope_viewer",
     "client_scope_admin", "vendor_scope_viewer", "vendor_scope_admin"}

CLIENT_SCOPE_MEMBERSHIP_ROLES == {"analyst", "lead", "client_scope_viewer", "client_scope_admin"}
VENDOR_SCOPE_MEMBERSHIP_ROLES == {"analyst", "lead", "vendor_scope_viewer", "vendor_scope_admin"}
PORTAL_ROLES == {"account_viewer", "account_admin"}

ASSUME TenantAdminAssumption ==
    /\ Staff \subseteq User /\ Invited \subseteq User
    /\ Role \subseteq MEMBERSHIP_ROLES
    /\ MaxChanges \in Nat
    /\ Nil \notin Account \cup Client \cup Vendor \cup Member \cup User

VARIABLES
    account,   \* account rows: absent, or is_active
    parent,    \* client rows: the owning account
    vendor,    \* vendor rows: the account and client they were created under
    member,    \* membership rows
    roleLedger,  \* membership.role_changed_to_<role> events of each membership
    req,       \* requests in flight
    changes,   \* role-change requests so far
    contended  \* memberships two role changes were open on at once (history only)

taVars == <<account, parent, vendor, member, roleLedger, req, changes, contended>>
tree == <<account, parent, vendor>>
roles == <<member, roleLedger, req, changes, contended>>

NoRow == [account |-> Nil, of |-> Nil]
NoMember == [state |-> "absent", user |-> Nil, account |-> Nil, client |-> Nil,
             vendor |-> Nil, role |-> Nil, first |-> Nil, active |-> FALSE]
NoEvent == [actor |-> Nil, kind |-> "none", from |-> Nil]
NoRequest == [step |-> "idle", via |-> "none", actor |-> Nil, account |-> Nil,
         member |-> Nil, role |-> Nil, from |-> Nil]

Exists(a) == account[a] # "absent"
Live == {m \in Member : member[m].state = "live"}

TaInit ==
    /\ account = [a \in Account |-> "absent"]
    /\ parent = [c \in Client |-> Nil]
    /\ vendor = [v \in Vendor |-> NoRow]
    /\ member = [m \in Member |-> NoMember]
    /\ roleLedger = [m \in Member |-> [r \in Role |-> NoEvent]]
    /\ req = [q \in Slot |-> NoRequest]
    /\ changes = 0
    /\ contended = {}

-----------------------------------------------------------------------------
(* Gates.  A user may hold several memberships in one account, one per     *)
(* scope; a lookup takes any one of them (LIMIT 1 without an order).       *)

(* The portal gates do not look at the membership's is_active.             *)
lookupMembershipRole(u, a) ==
    {member[m].role : m \in {n \in Live :
        /\ member[n].user = u /\ member[n].account = a
        /\ account[a] = "active"}}

lookupIsInternal(u) == u \in Staff

resolveAccountAdminContext(u, a) == "account_admin" \in lookupMembershipRole(u, a)

(* A tenant-admin route answers 403 unless some staff user asks.           *)
registerTenantAdminAuthPreHandler == \E u \in User : lookupIsInternal(u)

(* Row-level security of the handler's transaction: staff see every row,   *)
(* others the rows of the account their gate admitted them to.             *)
setTenantTxScope(q, a) == req[q].via = "staff" \/ req[q].account = a

-----------------------------------------------------------------------------
(* Staff routes on the tenant tree: one transaction each.                  *)

StaffOnTree == registerTenantAdminAuthPreHandler /\ UNCHANGED roles

createClient(a) ==
    /\ ~Exists(a)
    /\ account' = [account EXCEPT ![a] = "active"]

updateClient(a) ==
    /\ Exists(a)
    /\ \E s \in {"active", "inactive"} \ {account[a]} :
         account' = [account EXCEPT ![a] = s]

createTenantClient(a, c) ==
    /\ Exists(a) /\ parent[c] = Nil
    /\ parent' = [parent EXCEPT ![c] = a]

postTenant(a) == StaffOnTree /\ createClient(a) /\ UNCHANGED <<parent, vendor>>
patchTenant(a) == StaffOnTree /\ updateClient(a) /\ UNCHANGED <<parent, vendor>>
postClient(a, c) == StaffOnTree /\ createTenantClient(a, c) /\ UNCHANGED <<account, vendor>>

(* Mutant: any client will do.                                             *)
clientExists(a, c) == parent[c] # Nil

clientBelongsToAccount(a, c) == parent[c] = a

vendorBelongsToClient(c, v) == vendor[v].of = c

createTenantVendor(a, c, v) ==
    /\ Exists(a) /\ vendor[v] = NoRow
    /\ clientBelongsToAccount(a, c)
    /\ vendor' = [vendor EXCEPT ![v] = [account |-> a, of |-> c]]

postVendor(a, c, v) == StaffOnTree /\ createTenantVendor(a, c, v) /\ UNCHANGED <<account, parent>>

-----------------------------------------------------------------------------
(* Memberships.                                                            *)

(* membership_user_scope_uniq: one row per user and innermost scope.       *)
ScopeOf(a, c, v) == IF v # Nil THEN v ELSE IF c # Nil THEN c ELSE a
SameScope(m, u, a, c, v) ==
    /\ member[m].user = u
    /\ ScopeOf(member[m].account, member[m].client, member[m].vendor) = ScopeOf(a, c, v)

createMembership(m, a, c, v, permitted) ==
    /\ Exists(a)
    /\ member[m].state = "absent"
    /\ \E u \in Invited, r \in permitted \cap Role :
         /\ \A n \in Live : ~SameScope(n, u, a, c, v)
         /\ member' = [member EXCEPT ![m] =
              [state |-> "live", user |-> u, account |-> a, client |-> c, vendor |-> v,
               role |-> r, first |-> r, active |-> TRUE]]
    /\ UNCHANGED <<roleLedger, req, changes, contended>>
    /\ UNCHANGED tree

postMember(m, a) ==
    /\ registerTenantAdminAuthPreHandler
    /\ createMembership(m, a, Nil, Nil, MEMBERSHIP_ROLES)

postClientMember(m, a, c) ==
    /\ registerTenantAdminAuthPreHandler
    /\ clientBelongsToAccount(a, c)
    /\ createMembership(m, a, c, Nil, CLIENT_SCOPE_MEMBERSHIP_ROLES)

postVendorMember(m, a, c, v) ==
    /\ registerTenantAdminAuthPreHandler
    /\ clientBelongsToAccount(a, c) /\ vendorBelongsToClient(c, v)
    /\ createMembership(m, a, c, v, VENDOR_SCOPE_MEMBERSHIP_ROLES)

(* updateTenantMembership with isActive alone: no event.                   *)
patchMemberActive(m, a) ==
    /\ registerTenantAdminAuthPreHandler
    /\ m \in Live /\ member[m].account = a
    /\ member' = [member EXCEPT ![m].active = ~@]
    /\ UNCHANGED <<roleLedger, req, changes, contended>>
    /\ UNCHANGED tree

removeMembership(m, a) ==
    /\ m \in Live /\ member[m].account = a
    /\ member' = [member EXCEPT ![m].state = "gone"]

deleteMember(m, a) ==
    /\ registerTenantAdminAuthPreHandler
    /\ removeMembership(m, a)
    /\ UNCHANGED <<roleLedger, req, changes, contended>>
    /\ UNCHANGED tree

-----------------------------------------------------------------------------
(* Role changes.                                                           *)

Pending(m) == {q \in Slot : req[q].member = m}

(* The statement starts: it reads the row's current role.                  *)
Snapshot(q, request) ==
    /\ req' = [req EXCEPT ![q] = request]
    /\ contended' = IF Pending(request.member) \ {q} # {}
                    THEN contended \cup {request.member} ELSE contended
    /\ UNCHANGED <<member, roleLedger>>
    /\ UNCHANGED tree

(* PATCH /api/internal/tenants/:id/members/:membershipId with a role.      *)
patchMemberRole(q) ==
    /\ req[q] = NoRequest
    /\ changes < MaxChanges
    /\ \E u \in Staff, m \in Live, r \in Role :
         Snapshot(q, [step |-> "write", via |-> "staff", actor |-> u,
                      account |-> member[m].account, member |-> m, role |-> r,
                      from |-> member[m].role])
    /\ changes' = changes + 1

(* The account-admin gate admits a portal request.                         *)
admitPortalAdmin(q) ==
    /\ req[q] = NoRequest
    /\ changes < MaxChanges
    /\ \E u \in User, a \in Account :
         /\ resolveAccountAdminContext(u, a)
         /\ req' = [req EXCEPT ![q] = [NoRequest EXCEPT !.step = "admitted", !.via = "portal",
                                                   !.actor = u, !.account = a]]
    /\ changes' = changes + 1
    /\ UNCHANGED <<member, roleLedger, contended>>
    /\ UNCHANGED tree

(* Mutant: the portal may change any membership of its account.            *)
portalManageableAll(m) == TRUE

portalManageable(m) == member[m].role \in PORTAL_ROLES

(* PATCH /api/portal/members/:id/role; not found, or not manageable: 404.  *)
patchPortalMemberRole(q) ==
    /\ req[q].step = "admitted"
    /\ \/ \E m \in Live, r \in PORTAL_ROLES \cap Role :
            /\ setTenantTxScope(q, member[m].account)
            /\ portalManageable(m)
            /\ Snapshot(q, [req[q] EXCEPT !.step = "write", !.member = m, !.role = r,
                                          !.from = member[m].role])
       \/ /\ req' = [req EXCEPT ![q] = NoRequest]
          /\ UNCHANGED <<member, roleLedger, contended>>
          /\ UNCHANGED tree
    /\ UNCHANGED changes

(* Mutant: only the portal's change is recorded.                           *)
RecordedInPortal(x) == x.via = "portal"

(* The staff route writes no event when the role it read is the one it     *)
(* sets; the portal route always does.                                     *)
Recorded(x) == x.via = "portal" \/ x.role # x.from

EventOf(x) ==
    [actor |-> x.actor, kind |-> IF x.via = "staff" THEN "analyst" ELSE "client",
     from |-> x.from]

(* writeAuditEvent: the id is a function of (membership, role), so a       *)
(* second change to the same role is a replay if everything else agrees    *)
(* and a conflict otherwise.                                               *)
Conflicts(x) == Recorded(x) /\ roleLedger[x.member][x.role] \notin {NoEvent, EventOf(x)}

(* The row is there: update it, record the event, commit.                  *)
commitRole(q) ==
    LET x == req[q] IN
    /\ x.step = "write"
    /\ x.member \in Live
    /\ ~Conflicts(x)
    /\ member' = [member EXCEPT ![x.member].role = x.role]
    /\ roleLedger' = IF Recorded(x) THEN [roleLedger EXCEPT ![x.member][x.role] = EventOf(x)]
                 ELSE roleLedger
    /\ req' = [req EXCEPT ![q] = NoRequest]
    /\ UNCHANGED <<changes, contended>>
    /\ UNCHANGED tree

(* The row has gone (404), or the ledger refuses the event and the         *)
(* transaction rolls back (AuditEventConflictError).                       *)
abandonRole(q) ==
    LET x == req[q] IN
    /\ x.step = "write"
    /\ x.member \notin Live \/ Conflicts(x)
    /\ req' = [req EXCEPT ![q] = NoRequest]
    /\ UNCHANGED <<member, roleLedger, changes, contended>>
    /\ UNCHANGED tree

-----------------------------------------------------------------------------
Tree ==
    \/ \E a \in Account : postTenant(a) \/ patchTenant(a)
    \/ \E a \in Account, c \in Client : postClient(a, c)
    \/ \E a \in Account, c \in Client, v \in Vendor : postVendor(a, c, v)

Members ==
    \E m \in Member, a \in Account :
        \/ postMember(m, a) \/ patchMemberActive(m, a) \/ deleteMember(m, a)
        \/ \E c \in Client : postClientMember(m, a, c)
        \/ \E c \in Client, v \in Vendor : postVendorMember(m, a, c, v)

RoleChanges ==
    \E q \in Slot :
        \/ patchMemberRole(q) \/ admitPortalAdmin(q) \/ patchPortalMemberRole(q)
        \/ commitRole(q) \/ abandonRole(q)

TaNext == Tree \/ Members \/ RoleChanges

TaSpec == TaInit /\ [][TaNext]_taVars

-----------------------------------------------------------------------------
(* Whatever a row hangs from belongs to the same account: a vendor's       *)
(* client, a scoped membership's client and vendor.  The ids arrive as     *)
(* independent path parameters, so only the ancestor checks of the         *)
(* handlers keep the chain straight.                                       *)
ScopeChainConsistent ==
    /\ \A v \in Vendor : vendor[v] # NoRow => parent[vendor[v].of] = vendor[v].account
    /\ \A m \in Live :
         /\ member[m].client # Nil => parent[member[m].client] = member[m].account
         /\ member[m].vendor # Nil =>
              /\ vendor[member[m].vendor].of = member[m].client
              /\ vendor[member[m].vendor].account = member[m].account

(* A membership whose role is not the one it was created with has an event *)
(* in the ledger for the role it has now, however many role changes of the *)
(* two surfaces raced, repeated each other or were refused.                *)
CurrentRoleIsExplained ==
    \A m \in Live : member[m].role # member[m].first => roleLedger[m][member[m].role] # NoEvent

(* A change made through the portal finds a portal role and leaves one: an *)
(* analyst's or lead's membership is never touched by it, unless another   *)
(* role change of the same membership was open at the same time.  (The     *)
(* restriction is in the statement's snapshot, not in its UPDATE.)         *)
PortalLeavesStaffRolesSerially ==
    [][\A q \in Slot :
         /\ req[q].step = "write" /\ req[q].via = "portal" /\ req[q].member \in Live
         /\ req[q].member \notin contended /\ req'[q] = NoRequest
         => /\ member[req[q].member].role \in PORTAL_ROLES
            /\ member'[req[q].member].role \in PORTAL_ROLES]_taVars
===============================================================================
