------------------------ MODULE AdministrationProofs ------------------------
(***************************************************************************)
(* Administration: tenants and memberships, the users page, the rate desk, *)
(* the deploy workflow and the web client's store. They share no state;    *)
(* each has an invariant of its own.                                       *)
(***************************************************************************)
EXTENDS TenantAdmin, UserDirectory, RateDesk, Deployment, ScopedStore, FiniteSetTheorems, WellFoundedInduction, TLAPS

(***************************************************************************)
(* What tenant administration keeps true for any number of accounts,       *)
(* clients, vendors, memberships and concurrent role changes.              *)
(***************************************************************************)

MemberType ==
    [state : {"absent", "live", "gone"}, user : User \cup {Nil}, account : Account \cup {Nil},
     client : Client \cup {Nil}, vendor : Vendor \cup {Nil}, role : Role \cup {Nil},
     first : Role \cup {Nil}, active : BOOLEAN]
VendorType == [account : Account \cup {Nil}, of : Client \cup {Nil}]
EventType == [actor : User \cup {Nil}, kind : {"none", "analyst", "client"}, from : Role \cup {Nil}]
RequestType ==
    [step : {"idle", "admitted", "write"}, via : {"none", "staff", "portal"}, actor : User \cup {Nil},
     account : Account \cup {Nil}, member : Member \cup {Nil}, role : Role \cup {Nil},
     from : Role \cup {Nil}]

TreeTypeOK ==
    /\ account \in [Account -> {"absent", "active", "inactive"}]
    /\ parent \in [Client -> Account \cup {Nil}]
    /\ vendor \in [Vendor -> VendorType]

RolesTypeOK ==
    /\ member \in [Member -> MemberType]
    /\ roleLedger \in [Member -> [Role -> EventType]]
    /\ req \in [Slot -> RequestType]

(* A row names its account, and what lies between it and the account.      *)
RowsAreRooted ==
    /\ \A v \in Vendor : vendor[v] # NoRow => vendor[v].account \in Account /\ vendor[v].of \in Client
    /\ \A m \in Live : /\ member[m].account \in Account /\ member[m].role \in Role
                       /\ member[m].vendor # Nil => member[m].client # Nil

(* A role change under way names a membership that was there when it began.*)
RequestShape ==
    \A q \in Slot :
        IF req[q].step = "write"
        THEN /\ req[q].member \in Member /\ member[req[q].member].state # "absent"
             /\ req[q].role \in Role /\ req[q].from \in Role
             /\ req[q].via = "portal" => req[q].role \in PORTAL_ROLES
        ELSE req[q].member = Nil

(* The role a change has read is the first one or on the ledger: what      *)
(* makes it safe to write no event when it sets that role again.           *)
FromIsExplained ==
    \A q \in Slot : req[q].step = "write" =>
        \/ req[q].from = member[req[q].member].first
        \/ roleLedger[req[q].member][req[q].from] # NoEvent

(* Two changes open on one membership are on record as contended.          *)
OverlapIsKnown ==
    \A p, q \in Slot : p # q /\ req[p].member # Nil /\ req[p].member = req[q].member
                       => req[p].member \in contended

(* An uncontended change of the portal still finds the role it read.       *)
PortalFound ==
    \A q \in Slot :
        /\ req[q].step = "write" /\ req[q].via = "portal" /\ req[q].member \in Live
        /\ req[q].member \notin contended
        => member[req[q].member].role \in PORTAL_ROLES

ScopeInv == TreeTypeOK /\ RolesTypeOK /\ RowsAreRooted /\ ScopeChainConsistent

RoleInv ==
    /\ RequestShape /\ CurrentRoleIsExplained /\ FromIsExplained
    /\ OverlapIsKnown /\ PortalFound

TaInv == ScopeInv /\ RoleInv

-----------------------------------------------------------------------------
(* Nothing is there yet, and nothing is under way.                         *)
LEMMA TaInitial == TaInit => TaInv
<1> SUFFICES ASSUME TaInit PROVE TaInv
  OBVIOUS
<1>1. TreeTypeOK /\ RolesTypeOK
  BY DEF TaInit, TreeTypeOK, RolesTypeOK, VendorType, MemberType, EventType, RequestType, NoRow, NoMember,
     NoEvent, NoRequest
<1>2. Live = {} /\ \A q \in Slot : req[q].step = "idle" /\ req[q].member = Nil
  BY DEF TaInit, Live, NoMember, NoRequest
<1>3. \A v \in Vendor : vendor[v] = NoRow
  BY DEF TaInit
<1> QED
  BY <1>1, <1>2, <1>3 DEF TaInv, ScopeInv, RoleInv, RowsAreRooted, ScopeChainConsistent, RequestShape,
     CurrentRoleIsExplained, FromIsExplained, OverlapIsKnown, PortalFound

(* The tenant tree grows; the memberships do not notice.                   *)
LEMMA RolesUnchangedKeepsRoleInv ==
  ASSUME RoleInv, UNCHANGED roles
  PROVE  RoleInv'
BY DEF roles, RoleInv, RequestShape, CurrentRoleIsExplained, FromIsExplained, OverlapIsKnown, PortalFound,
   Live, Recorded, EventOf

(* A new client, and a new vendor below a client of the same account.      *)
LEMMA TreeKeepsInv ==
  ASSUME TaInv, Tree
  PROVE  TaInv'
<1> USE TenantAdminAssumption
<1>1. UNCHANGED roles /\ Live' = Live
  BY DEF Tree, postTenant, patchTenant, postClient, postVendor, StaffOnTree, roles, Live
<1>2. RoleInv'
  BY <1>1, RolesUnchangedKeepsRoleInv DEF TaInv
<1>3. RolesTypeOK'
  BY <1>1 DEF roles, TaInv, ScopeInv, RolesTypeOK
<1>4. ASSUME NEW a \in Account, postTenant(a) \/ patchTenant(a)
      PROVE  TreeTypeOK' /\ RowsAreRooted' /\ ScopeChainConsistent'
  BY <1>1, <1>4 DEF postTenant, patchTenant, createClient, updateClient, roles, TaInv, ScopeInv, TreeTypeOK,
     RowsAreRooted, ScopeChainConsistent
<1>5. ASSUME NEW a \in Account, NEW c \in Client, postClient(a, c)
      PROVE  TreeTypeOK' /\ RowsAreRooted' /\ ScopeChainConsistent'
  <2>1. parent[c] = Nil /\ parent' = [parent EXCEPT ![c] = a] /\ UNCHANGED <<account, vendor, member>>
    BY <1>1, <1>5 DEF postClient, createTenantClient, roles
  <2>2. TreeTypeOK' /\ RowsAreRooted'
    BY <1>1, <2>1 DEF TaInv, ScopeInv, TreeTypeOK, RowsAreRooted
  <2>3. ASSUME NEW b \in Account, NEW d \in Client, parent[d] = b PROVE parent'[d] = b
    BY <2>1, <2>3 DEF TaInv, ScopeInv, TreeTypeOK
  <2>4. \A v \in Vendor : vendor[v] # NoRow => parent'[vendor[v].of] = vendor[v].account
    BY <2>3 DEF TaInv, ScopeInv, RowsAreRooted, ScopeChainConsistent
  <2>5. \A m \in Live : member[m].client # Nil => parent'[member[m].client] = member[m].account
    <3> TAKE m \in Live
    <3> HAVE member[m].client # Nil
    <3>1. member[m].client \in Client /\ member[m].account \in Account
      BY DEF TaInv, ScopeInv, RolesTypeOK, MemberType, RowsAreRooted, Live
    <3> QED
      BY <2>3, <3>1 DEF TaInv, ScopeInv, ScopeChainConsistent
  <2> QED
    BY <1>1, <2>1, <2>2, <2>4, <2>5 DEF TaInv, ScopeInv, ScopeChainConsistent
<1>6. ASSUME NEW a \in Account, NEW c \in Client, NEW v \in Vendor, postVendor(a, c, v)
      PROVE  TreeTypeOK' /\ RowsAreRooted' /\ ScopeChainConsistent'
  <2>1. /\ vendor[v] = NoRow /\ parent[c] = a
        /\ vendor' = [vendor EXCEPT ![v] = [account |-> a, of |-> c]] /\ UNCHANGED <<account, parent, member>>
    BY <1>1, <1>6 DEF postVendor, createTenantVendor, clientBelongsToAccount, roles
  <2>2. TreeTypeOK' /\ RowsAreRooted'
    BY <1>1, <2>1 DEF TaInv, ScopeInv, TreeTypeOK, VendorType, RowsAreRooted
  <2>3. \A m \in Live : member[m].vendor # v
    BY <2>1 DEF TaInv, ScopeInv, RowsAreRooted, ScopeChainConsistent, NoRow
  <2>4. \A w \in Vendor : vendor'[w] = IF w = v THEN [account |-> a, of |-> c] ELSE vendor[w]
    BY <2>1 DEF TaInv, ScopeInv, TreeTypeOK
  <2>5. \A m \in Live : member[m].vendor \in Vendor \cup {Nil}
    BY DEF TaInv, ScopeInv, RolesTypeOK, MemberType, Live
  <2> QED
    BY <1>1, <2>1, <2>2, <2>3, <2>4, <2>5 DEF TaInv, ScopeInv, ScopeChainConsistent
<1> QED
  BY <1>2, <1>3, <1>4, <1>5, <1>6 DEF Tree, TaInv, ScopeInv

(* A new membership hangs from a chain the handler has checked, and no     *)
(* role change can know it yet.                                            *)
LEMMA CreateKeepsInv ==
  ASSUME TaInv, NEW m \in Member, NEW a \in Account, NEW c \in Client \cup {Nil}, NEW v \in Vendor \cup {Nil},
         NEW permitted, createMembership(m, a, c, v, permitted),
         c # Nil => parent[c] = a,
         v # Nil => c # Nil /\ vendor[v].of = c
  PROVE  TaInv'
<1> USE TenantAdminAssumption
<1>1. PICK u \in Invited, r \in permitted \cap Role :
        member' = [member EXCEPT ![m] =
          [state |-> "live", user |-> u, account |-> a, client |-> c, vendor |-> v,
           role |-> r, first |-> r, active |-> TRUE]]
  BY DEF createMembership
<1> DEFINE new == [state |-> "live", user |-> u, account |-> a, client |-> c, vendor |-> v,
                   role |-> r, first |-> r, active |-> TRUE]
<1>2. UNCHANGED <<account, parent, vendor, roleLedger, req, contended>> /\ member[m].state = "absent"
  BY DEF createMembership, tree
<1>3. new \in MemberType
  BY DEF MemberType
<1>4. \A n \in Member : member'[n] = IF n = m THEN new ELSE member[n]
  BY <1>1 DEF TaInv, ScopeInv, RolesTypeOK
<1>5. Live' = Live \cup {m} /\ m \notin Live
  BY <1>2, <1>4 DEF Live
<1>6. TreeTypeOK' /\ RolesTypeOK'
  BY <1>1, <1>2, <1>3 DEF TaInv, ScopeInv, TreeTypeOK, RolesTypeOK
<1>7. RowsAreRooted'
  BY <1>2, <1>4, <1>5 DEF TaInv, ScopeInv, RowsAreRooted, Live
<1>8. ScopeChainConsistent'
  <2>1. v # Nil => vendor[v].account = a
    BY DEF TaInv, ScopeInv, ScopeChainConsistent, NoRow
  <2> QED
    BY <1>2, <1>4, <1>5, <2>1 DEF TaInv, ScopeInv, ScopeChainConsistent, Live
<1>9. \A q \in Slot : req[q].member # m
  BY <1>2 DEF TaInv, RoleInv, RequestShape
<1>10. RequestShape' /\ FromIsExplained' /\ OverlapIsKnown'
  BY <1>2, <1>4, <1>9 DEF TaInv, RoleInv, RequestShape, FromIsExplained, OverlapIsKnown
<1>11. CurrentRoleIsExplained'
  BY <1>2, <1>4, <1>5 DEF TaInv, RoleInv, CurrentRoleIsExplained, Live
<1>12. PortalFound'
  <2>1. \A q \in Slot : req[q].member \in Live' =>
          req[q].member \in Live /\ member'[req[q].member] = member[req[q].member]
    BY <1>4, <1>5, <1>9 DEF Live
  <2> QED
    BY <1>2, <2>1 DEF TaInv, RoleInv, PortalFound
<1> QED
  BY <1>6, <1>7, <1>8, <1>10, <1>11, <1>12 DEF TaInv, ScopeInv, RoleInv

(* Switching a membership off or removing it changes neither role nor      *)
(* place.                                                                  *)
LEMMA SwitchKeepsInv ==
  ASSUME TaInv, NEW m \in Member, NEW a \in Account, patchMemberActive(m, a) \/ deleteMember(m, a)
  PROVE  TaInv'
<1> USE TenantAdminAssumption
<1>1. UNCHANGED <<account, parent, vendor, roleLedger, req, contended>> /\ m \in Live
  BY DEF patchMemberActive, deleteMember, removeMembership, tree
<1>2. member[m] \in MemberType
  BY DEF TaInv, ScopeInv, RolesTypeOK
<1>3. member' \in [Member -> MemberType]
  <2>1. CASE patchMemberActive(m, a)
    <3>1. (~member[m].active) \in BOOLEAN
      OBVIOUS
    <3>2. member' = [member EXCEPT ![m] = [member[m] EXCEPT !.active = ~member[m].active]]
      BY <2>1 DEF patchMemberActive, TaInv, ScopeInv, RolesTypeOK
    <3>3. [member[m] EXCEPT !.active = ~member[m].active] \in MemberType
      BY <1>2, <3>1, Zenon DEF MemberType
    <3> QED
      BY <3>2, <3>3 DEF TaInv, ScopeInv, RolesTypeOK
  <2>2. CASE deleteMember(m, a)
    BY <1>2, <2>2 DEF deleteMember, removeMembership, MemberType, TaInv, ScopeInv, RolesTypeOK
  <2> QED
    BY <2>1, <2>2
<1>4. \A n \in Member :
        /\ member'[n].account = member[n].account /\ member'[n].client = member[n].client
        /\ member'[n].vendor = member[n].vendor /\ member'[n].role = member[n].role
        /\ member'[n].first = member[n].first
        /\ member'[n].state = "live" => member[n].state = "live"
        /\ member[n].state # "absent" => member'[n].state # "absent"
  <2>1. CASE patchMemberActive(m, a)
    BY <1>2, <2>1 DEF patchMemberActive, MemberType, TaInv, ScopeInv, RolesTypeOK
  <2>2. CASE deleteMember(m, a)
    BY <1>2, <2>2 DEF deleteMember, removeMembership, MemberType, TaInv, ScopeInv, RolesTypeOK
  <2> QED
    BY <2>1, <2>2
<1>5. Live' \subseteq Live
  BY <1>4 DEF Live
<1>6. TreeTypeOK' /\ RolesTypeOK'
  BY <1>1, <1>3 DEF TaInv, ScopeInv, TreeTypeOK, RolesTypeOK
<1>7. RowsAreRooted' /\ ScopeChainConsistent'
  BY <1>1, <1>4, <1>5 DEF TaInv, ScopeInv, RowsAreRooted, ScopeChainConsistent, Live
<1>8. RequestShape' /\ FromIsExplained' /\ OverlapIsKnown'
  BY <1>1, <1>4 DEF TaInv, RoleInv, RequestShape, FromIsExplained, OverlapIsKnown
<1>9. CurrentRoleIsExplained' /\ PortalFound'
  BY <1>1, <1>4, <1>5 DEF TaInv, RoleInv, CurrentRoleIsExplained, PortalFound, Live
<1> QED
  BY <1>6, <1>7, <1>8, <1>9 DEF TaInv, ScopeInv, RoleInv

(* Creating, switching and removing memberships keep the invariant.        *)
LEMMA MembersKeepInv ==
  ASSUME TaInv, Members
  PROVE  TaInv'
<1> USE TenantAdminAssumption
<1>1. PICK m \in Member, a \in Account :
        \/ postMember(m, a) \/ patchMemberActive(m, a) \/ deleteMember(m, a)
        \/ \E c \in Client : postClientMember(m, a, c)
        \/ \E c \in Client, v \in Vendor : postVendorMember(m, a, c, v)
  BY DEF Members
<1>2. CASE postMember(m, a)
  BY <1>2, CreateKeepsInv DEF postMember
<1>3. CASE \E c \in Client : postClientMember(m, a, c)
  BY <1>3, CreateKeepsInv DEF postClientMember, clientBelongsToAccount
<1>4. CASE \E c \in Client, v \in Vendor : postVendorMember(m, a, c, v)
  BY <1>4, CreateKeepsInv DEF postVendorMember, clientBelongsToAccount, vendorBelongsToClient
<1> QED
  BY <1>1, <1>2, <1>3, <1>4, SwitchKeepsInv

-----------------------------------------------------------------------------
(* Role changes leave the tree alone.                                      *)

(* The gate's admission names no membership.                               *)
LEMMA AdmitKeepsInv ==
  ASSUME TaInv, NEW q \in Slot, admitPortalAdmin(q)
  PROVE  TaInv'
<1> USE TenantAdminAssumption
<1>1. PICK u \in User, a \in Account :
        req' = [req EXCEPT ![q] = [NoRequest EXCEPT !.step = "admitted", !.via = "portal",
                                                    !.actor = u, !.account = a]]
  BY DEF admitPortalAdmin
<1>2. UNCHANGED <<account, parent, vendor, member, roleLedger, contended>> /\ Live' = Live
  BY DEF admitPortalAdmin, tree, Live
<1> DEFINE x == [NoRequest EXCEPT !.step = "admitted", !.via = "portal", !.actor = u, !.account = a]
<1>3. x \in RequestType /\ x.step = "admitted" /\ x.member = Nil
  BY DEF RequestType, NoRequest
<1>4. \A p \in Slot : req'[p] = IF p = q THEN x ELSE req[p]
  BY <1>1 DEF TaInv, ScopeInv, RolesTypeOK
<1> HIDE DEF x
<1>5. TreeTypeOK' /\ RolesTypeOK'
  BY <1>1, <1>2, <1>3 DEF TaInv, ScopeInv, TreeTypeOK, RolesTypeOK, x
<1>6. RowsAreRooted' /\ ScopeChainConsistent' /\ CurrentRoleIsExplained'
  BY <1>2 DEF TaInv, ScopeInv, RoleInv, RowsAreRooted, ScopeChainConsistent, CurrentRoleIsExplained
<1>7. RequestShape' /\ FromIsExplained' /\ OverlapIsKnown' /\ PortalFound'
  BY <1>2, <1>3, <1>4 DEF TaInv, RoleInv, RequestShape, FromIsExplained, OverlapIsKnown, PortalFound
<1> QED
  BY <1>5, <1>6, <1>7 DEF TaInv, ScopeInv, RoleInv

(* A request that ends without a write.                                    *)
LEMMA EndKeepsInv ==
  ASSUME TaInv, NEW q \in Slot, req' = [req EXCEPT ![q] = NoRequest],
         UNCHANGED <<account, parent, vendor, member, roleLedger, contended>>
  PROVE  TaInv'
<1>1. NoRequest \in RequestType /\ NoRequest.step = "idle" /\ NoRequest.member = Nil
  BY DEF RequestType, NoRequest
<1>2. \A p \in Slot : req'[p] = IF p = q THEN NoRequest ELSE req[p]
  BY DEF TaInv, ScopeInv, RolesTypeOK
<1>3. Live' = Live
  BY DEF Live
<1>4. TreeTypeOK' /\ RolesTypeOK'
  BY <1>1 DEF TaInv, ScopeInv, TreeTypeOK, RolesTypeOK
<1>5. RowsAreRooted' /\ ScopeChainConsistent' /\ CurrentRoleIsExplained'
  BY <1>3 DEF TaInv, ScopeInv, RoleInv, RowsAreRooted, ScopeChainConsistent, CurrentRoleIsExplained
<1>6. RequestShape' /\ FromIsExplained' /\ OverlapIsKnown' /\ PortalFound'
  BY <1>1, <1>2, <1>3 DEF TaInv, RoleInv, RequestShape, FromIsExplained, OverlapIsKnown, PortalFound
<1> QED
  BY <1>4, <1>5, <1>6 DEF TaInv, ScopeInv, RoleInv

(* A role change reads the current role, which is explained, and marks the *)
(* membership if another change is open on it.                             *)
LEMMA SnapshotKeepsInv ==
  ASSUME TaInv, NEW q \in Slot, NEW x \in RequestType, Snapshot(q, x), req[q].member = Nil,
         x.step = "write", x.member \in Live, x.role \in Role, x.from = member[x.member].role,
         x.via = "portal" => x.role \in PORTAL_ROLES /\ x.from \in PORTAL_ROLES
  PROVE  TaInv'
<1> USE TenantAdminAssumption
<1>1. UNCHANGED <<account, parent, vendor, member, roleLedger>> /\ Live' = Live
  BY DEF Snapshot, tree, Live
<1>2. \A p \in Slot : req'[p] = IF p = q THEN x ELSE req[p]
  BY DEF Snapshot, TaInv, ScopeInv, RolesTypeOK
<1>3. x.member \in Member /\ x.from \in Role
  BY DEF Live, TaInv, ScopeInv, RowsAreRooted
<1>4. contended \subseteq contended'
      /\ \A p \in Slot \ {q} : req[p].member = x.member => x.member \in contended'
  BY DEF Snapshot, Pending
<1>5. TreeTypeOK' /\ RolesTypeOK'
  BY <1>1 DEF Snapshot, TaInv, ScopeInv, TreeTypeOK, RolesTypeOK
<1>6. RowsAreRooted' /\ ScopeChainConsistent' /\ CurrentRoleIsExplained'
  BY <1>1 DEF TaInv, ScopeInv, RoleInv, RowsAreRooted, ScopeChainConsistent, CurrentRoleIsExplained
<1>7. RequestShape'
  BY <1>1, <1>2, <1>3 DEF TaInv, RoleInv, RequestShape, Live
<1>8. FromIsExplained'
  BY <1>1, <1>2 DEF TaInv, RoleInv, FromIsExplained, CurrentRoleIsExplained
<1>9. OverlapIsKnown'
  BY <1>2, <1>4 DEF TaInv, RoleInv, OverlapIsKnown
<1>10. PortalFound'
  BY <1>1, <1>2, <1>4 DEF TaInv, RoleInv, PortalFound
<1> QED
  BY <1>5, <1>6, <1>7, <1>8, <1>9, <1>10 DEF TaInv, ScopeInv, RoleInv

(* The first half of a role change, on either route, keeps it.             *)
LEMMA BeginKeepsInv ==
  ASSUME TaInv, NEW q \in Slot, patchMemberRole(q) \/ patchPortalMemberRole(q)
  PROVE  TaInv'
<1> USE TenantAdminAssumption
<1>1. req[q] \in RequestType
  BY DEF TaInv, ScopeInv, RolesTypeOK
<1>2. CASE patchMemberRole(q)
  <2>1. PICK u \in Staff, m \in Live, r \in Role :
          Snapshot(q, [step |-> "write", via |-> "staff", actor |-> u, account |-> member[m].account,
                       member |-> m, role |-> r, from |-> member[m].role])
    BY <1>2 DEF patchMemberRole
  <2> DEFINE x == [step |-> "write", via |-> "staff", actor |-> u, account |-> member[m].account,
                   member |-> m, role |-> r, from |-> member[m].role]
  <2>2. m \in Member /\ member[m].account \in Account /\ member[m].role \in Role
    BY DEF Live, TaInv, ScopeInv, RowsAreRooted
  <2>3. x \in RequestType
    BY <2>2 DEF RequestType
  <2>4. req[q].member = Nil
    BY <1>2 DEF patchMemberRole, NoRequest
  <2>5. x.step = "write" /\ x.member = m /\ x.role = r /\ x.from = member[m].role /\ x.via = "staff"
    OBVIOUS
  <2> HIDE DEF x
  <2>6. Snapshot(q, x)
    BY <2>1 DEF x
  <2> QED
    BY <2>3, <2>4, <2>5, <2>6, SnapshotKeepsInv
<1>3. CASE patchPortalMemberRole(q)
  <2>1. req[q].member = Nil
    BY <1>3 DEF patchPortalMemberRole, TaInv, RoleInv, RequestShape
  <2>2. CASE \E m \in Live, r \in PORTAL_ROLES \cap Role :
               /\ setTenantTxScope(q, member[m].account)
               /\ portalManageable(m)
               /\ Snapshot(q, [req[q] EXCEPT !.step = "write", !.member = m, !.role = r,
                                             !.from = member[m].role])
    <3>1. PICK m \in Live, r \in PORTAL_ROLES \cap Role :
            /\ portalManageable(m)
            /\ Snapshot(q, [req[q] EXCEPT !.step = "write", !.member = m, !.role = r,
                                          !.from = member[m].role])
      BY <2>2
    <3> DEFINE x == [req[q] EXCEPT !.step = "write", !.member = m, !.role = r, !.from = member[m].role]
    <3>2. m \in Member /\ member[m].role \in Role
      BY DEF Live, TaInv, ScopeInv, RowsAreRooted
    <3>3. x \in RequestType /\ x.step = "write" /\ x.member = m /\ x.role = r /\ x.from = member[m].role
      BY <1>1, <3>2 DEF RequestType
    <3> HIDE DEF x
    <3>4. Snapshot(q, x)
      BY <3>1 DEF x
    <3> QED
      BY <2>1, <3>1, <3>3, <3>4, SnapshotKeepsInv DEF portalManageable
  <2>3. CASE /\ req' = [req EXCEPT ![q] = NoRequest]
             /\ UNCHANGED <<member, roleLedger, contended>> /\ UNCHANGED tree
    BY <2>3, EndKeepsInv DEF tree
  <2> QED
    BY <1>3, <2>2, <2>3 DEF patchPortalMemberRole
<1> QED
  BY <1>2, <1>3

(* The write: the ledger only gains events, the new role is the first, on  *)
(* the ledger already, or recorded now; and a portal change that nobody    *)
(* contends with is the only one that touches its membership.              *)
LEMMA CommitKeepsInv ==
  ASSUME TaInv, NEW q \in Slot, commitRole(q)
  PROVE  TaInv'
<1> USE TenantAdminAssumption
<1> DEFINE x == req[q]
           m == x.member
<1>1. /\ x \in RequestType /\ x.step = "write" /\ m \in Live /\ m \in Member
      /\ x.role \in Role /\ x.from \in Role /\ (x.via = "portal" => x.role \in PORTAL_ROLES)
  BY DEF commitRole, Live, TaInv, ScopeInv, RolesTypeOK, RoleInv, RequestShape
<1>2. /\ member' = [member EXCEPT ![m].role = x.role]
      /\ req' = [req EXCEPT ![q] = NoRequest]
      /\ UNCHANGED <<account, parent, vendor, contended>>
  BY DEF commitRole, tree
<1>3. EventOf(x) \in EventType /\ EventOf(x) # NoEvent
  BY <1>1 DEF EventOf, EventType, NoEvent, RequestType
<1>4. /\ roleLedger' \in [Member -> [Role -> EventType]]
      /\ \A n \in Member, r \in Role : roleLedger[n][r] # NoEvent => roleLedger'[n][r] # NoEvent
      /\ Recorded(x) => roleLedger'[m][x.role] # NoEvent
  BY <1>1, <1>3 DEF commitRole, TaInv, ScopeInv, RolesTypeOK
<1>5. /\ member' \in [Member -> MemberType]
      /\ \A n \in Member :
           /\ member'[n].account = member[n].account /\ member'[n].client = member[n].client
           /\ member'[n].vendor = member[n].vendor /\ member'[n].first = member[n].first
           /\ member'[n].state = member[n].state
           /\ member'[n].role = IF n = m THEN x.role ELSE member[n].role
  <2>1. member[m] \in MemberType
    BY <1>1 DEF TaInv, ScopeInv, RolesTypeOK
  <2> HIDE DEF m, x
  <2>2. \A r \in Role : [member[m] EXCEPT !.role = r] \in MemberType
    BY <2>1, Zenon DEF MemberType
  <2>3. member' = [member EXCEPT ![m] = [member[m] EXCEPT !.role = x.role]]
    BY <1>2 DEF m, x
  <2>4. member' \in [Member -> MemberType]
    BY <1>1, <2>2, <2>3 DEF TaInv, ScopeInv, RolesTypeOK
  <2>5. \A n \in Member : member'[n] = IF n = m THEN [member[m] EXCEPT !.role = x.role] ELSE member[n]
    BY <2>3 DEF TaInv, ScopeInv, RolesTypeOK
  <2> QED
    BY <2>1, <2>4, <2>5 DEF MemberType
<1>6. Live' = Live
  BY <1>5 DEF Live
<1>7. NoRequest \in RequestType /\ NoRequest.step = "idle" /\ NoRequest.member = Nil
  BY DEF RequestType, NoRequest
<1>8. \A p \in Slot : req'[p] = IF p = q THEN NoRequest ELSE req[p]
  BY <1>2 DEF TaInv, ScopeInv, RolesTypeOK
<1>9. Recorded(x) \/ x.role = x.from
  BY DEF Recorded
<1>10. x.from = member[m].first \/ roleLedger[m][x.from] # NoEvent
  BY <1>1 DEF TaInv, RoleInv, FromIsExplained
<1>11. TreeTypeOK' /\ RolesTypeOK'
  BY <1>2, <1>4, <1>5, <1>7 DEF TaInv, ScopeInv, TreeTypeOK, RolesTypeOK
<1> HIDE DEF x
<1>12. RowsAreRooted' /\ ScopeChainConsistent'
  BY <1>1, <1>2, <1>5, <1>6 DEF TaInv, ScopeInv, RowsAreRooted, ScopeChainConsistent, Live
<1>13. RequestShape'
  BY <1>5, <1>7, <1>8 DEF TaInv, RoleInv, RequestShape
<1>14. CurrentRoleIsExplained'
  <2> SUFFICES ASSUME NEW n \in Live, member'[n].role # member'[n].first
               PROVE  roleLedger'[n][member'[n].role] # NoEvent
    BY <1>6 DEF CurrentRoleIsExplained
  <2>1. n \in Member /\ member[n].role \in Role
    BY DEF Live, TaInv, ScopeInv, RowsAreRooted
  <2>2. CASE n = m
    BY <2>1, <2>2, <1>1, <1>4, <1>5, <1>9, <1>10
  <2>3. CASE n # m
    BY <2>1, <2>3, <1>4, <1>5 DEF TaInv, RoleInv, CurrentRoleIsExplained
  <2> QED
    BY <2>2, <2>3
<1>15. FromIsExplained'
  BY <1>4, <1>5, <1>7, <1>8 DEF TaInv, RoleInv, RequestShape, FromIsExplained
<1>16. OverlapIsKnown'
  BY <1>2, <1>7, <1>8 DEF TaInv, RoleInv, OverlapIsKnown
<1>17. PortalFound'
  <2> SUFFICES ASSUME NEW p \in Slot, p # q, req[p].step = "write", req[p].via = "portal",
                      req[p].member \in Live, req[p].member \notin contended
               PROVE  member'[req[p].member].role \in PORTAL_ROLES
    BY <1>2, <1>6, <1>7, <1>8 DEF PortalFound
  <2>1. req[p].member \in Member
    BY DEF Live
  <2>2. req[p].member # m
    BY <2>1 DEF TaInv, RoleInv, OverlapIsKnown, x
  <2>3. member[req[p].member].role \in PORTAL_ROLES
    BY DEF TaInv, RoleInv, PortalFound
  <2> QED
    BY <2>1, <2>2, <2>3, <1>5
<1> QED
  BY <1>11, <1>12, <1>13, <1>14, <1>15, <1>16, <1>17 DEF TaInv, ScopeInv, RoleInv

(* Every step keeps the invariant.                                         *)
LEMMA TaInductive == TaInv /\ [TaNext]_taVars => TaInv'
<1> SUFFICES ASSUME TaInv, [TaNext]_taVars PROVE TaInv'
  OBVIOUS
<1>1. CASE RoleChanges
  <2>1. PICK q \in Slot : \/ patchMemberRole(q) \/ admitPortalAdmin(q) \/ patchPortalMemberRole(q)
                          \/ commitRole(q) \/ abandonRole(q)
    BY <1>1 DEF RoleChanges
  <2>2. CASE abandonRole(q)
    BY <2>2, EndKeepsInv DEF abandonRole, tree
  <2> QED
    BY <2>1, <2>2, BeginKeepsInv, AdmitKeepsInv, CommitKeepsInv
<1>2. CASE UNCHANGED taVars
  BY <1>2 DEF taVars, TaInv, ScopeInv, RoleInv, TreeTypeOK, RolesTypeOK, RowsAreRooted, ScopeChainConsistent,
     RequestShape, CurrentRoleIsExplained, FromIsExplained, OverlapIsKnown, PortalFound, Live
<1> QED
  BY <1>1, <1>2, TreeKeepsInv, MembersKeepInv DEF TaNext

(* Whatever a row hangs from belongs to its account, for any number of     *)
(* accounts and requests: the ancestor checks of the handlers are enough,  *)
(* although the ids come as independent path parameters                    *)
(* (clientBelongsToAccount, vendorBelongsToClient).                        *)
THEOREM ScopesAreChains == TaSpec => []ScopeChainConsistent
<1>1. TaInv => ScopeChainConsistent
  BY DEF TaInv, ScopeInv
<1> QED
  BY <1>1, TaInitial, TaInductive, PTL DEF TaSpec

(* A membership whose role is not its first has an event for the role it   *)
(* has, for any number of racing changes of either surface, although the   *)
(* staff route may skip the event after a stale read (Recorded).           *)
THEOREM RolesAreExplained == TaSpec => []CurrentRoleIsExplained
<1>1. TaInv => CurrentRoleIsExplained
  BY DEF TaInv, RoleInv
<1> QED
  BY <1>1, TaInitial, TaInductive, PTL DEF TaSpec

(* A portal change that no other change of the membership overlaps finds a *)
(* portal role and leaves one (portalManageable).                          *)
THEOREM PortalKeepsToPortalRoles == TaSpec => PortalLeavesStaffRolesSerially
<1> DEFINE Step ==
      \A q \in Slot :
         /\ req[q].step = "write" /\ req[q].via = "portal" /\ req[q].member \in Live
         /\ req[q].member \notin contended /\ req'[q] = NoRequest
         => /\ member[req[q].member].role \in PORTAL_ROLES
            /\ member'[req[q].member].role \in PORTAL_ROLES
<1>1. TaInv /\ [TaNext]_taVars => [Step]_taVars
  <2> SUFFICES ASSUME TaInv, TaInv', TaNext, NEW q \in Slot,
                      req[q].step = "write", req[q].via = "portal", req[q].member \in Live,
                      req[q].member \notin contended, req'[q] = NoRequest
               PROVE  /\ member[req[q].member].role \in PORTAL_ROLES
                      /\ member'[req[q].member].role \in PORTAL_ROLES
    BY TaInductive
  <2>1. member[req[q].member].role \in PORTAL_ROLES /\ req[q].member \in Member
    BY DEF TaInv, RoleInv, PortalFound, Live
  <2>2. req'[q] # req[q]
    BY DEF NoRequest
  <2>3. PICK p \in Slot : \/ patchMemberRole(p) \/ admitPortalAdmin(p) \/ patchPortalMemberRole(p)
                          \/ commitRole(p) \/ abandonRole(p)
    BY <2>2 DEF TaNext, Tree, postTenant, patchTenant, postClient, postVendor, StaffOnTree, roles, Members,
       postMember, postClientMember, postVendorMember, createMembership, patchMemberActive, deleteMember,
       RoleChanges
  <2>4. req \in [Slot -> RequestType]
    BY DEF TaInv, ScopeInv, RolesTypeOK
  <2>5. CASE patchMemberRole(p) \/ admitPortalAdmin(p) \/ patchPortalMemberRole(p) \/ abandonRole(p)
    BY <2>1, <2>5 DEF patchMemberRole, admitPortalAdmin, patchPortalMemberRole, abandonRole, Snapshot
  <2>6. CASE commitRole(p)
    <3>1. p = q
      BY <2>2, <2>4, <2>6 DEF commitRole
    <3>2. req[q].role \in PORTAL_ROLES
      BY DEF TaInv, RoleInv, RequestShape
    <3>3. member' = [member EXCEPT ![req[q].member].role = req[q].role]
      BY <2>6, <3>1 DEF commitRole
    <3>4. member[req[q].member] \in MemberType
      BY <2>1 DEF TaInv, ScopeInv, RolesTypeOK
    <3> QED
      BY <2>1, <3>2, <3>3, <3>4 DEF MemberType, TaInv, ScopeInv, RolesTypeOK
  <2> QED
    BY <2>3, <2>5, <2>6
<1> QED
  BY <1>1, TaInitial, TaInductive, PTL DEF TaSpec, PortalLeavesStaffRolesSerially

-----------------------------------------------------------------------------
(***************************************************************************)
(* The users page, for any finite set of rows, any stamps, page size and   *)
(* overlapping loads. That a sorted list of a finite set of rows exists is *)
(* proved by taking a smallest set without one; the rest is where each     *)
(* walk stands in that order.                                              *)
(***************************************************************************)

(* The order of the list is strict and total on the rows.                  *)
LEMMA OrderFacts ==
    ASSUME NEW a \in Row, NEW b \in Row, NEW c \in Row
    PROVE  /\ ~Precedes(a, a)
           /\ a = b \/ Precedes(a, b) \/ Precedes(b, a)
           /\ Precedes(a, b) /\ Precedes(b, c) => Precedes(a, c)
           /\ buildKeysetTieBreak(b, a) <=> Precedes(a, b)
BY UserDirectoryAssumption DEF Precedes, buildKeysetTieBreak

(* A nonempty collection of sets of rows has a minimal one.                *)
LEMMA MinimalRows ==
    ASSUME NEW T, T \subseteq SUBSET Row, T # {}
    PROVE  \E x \in T : \A y \in T : y \subseteq x => y = x
<1>0. IsFiniteSet(Row)
  BY UserDirectoryAssumption
<1>1. IsWellFoundedOn(StrictSubsetOrdering(Row), SUBSET Row)
  BY <1>0, FS_StrictSubsetOrderingWellFounded, FS_FiniteSubsetsOfFinite
<1>2. \E x \in T : \A y \in T : ~(<<y, x>> \in StrictSubsetOrdering(Row))
  BY <1>1, WFMin
<1>3. \A x, y \in SUBSET Row : <<y, x>> \in StrictSubsetOrdering(Row) <=> y \subseteq x /\ y # x
  BY DEF StrictSubsetOrdering
<1> QED BY <1>2, <1>3

LEMMA RowsAreFinite ==
    ASSUME NEW S \in SUBSET Row
    PROVE  IsFiniteSet(S) /\ Cardinality(S) \in Nat
BY FS_Subset, FS_CardinalityType, UserDirectoryAssumption

(* Every nonempty set of rows has a last one.                              *)
LEMMA LastRow ==
    ASSUME NEW S \in SUBSET Row, S # {}
    PROVE  \E m \in S : \A r \in S \ {m} : Precedes(r, m)
<1> DEFINE HasLast(s) == \E m \in s : \A r \in s \ {m} : Precedes(r, m)
           Without == {s \in SUBSET Row : s # {} /\ ~HasLast(s)}
<1> SUFFICES ASSUME Without # {} PROVE FALSE
  OBVIOUS
<1>0. Without \subseteq SUBSET Row
  OBVIOUS
<1>1. PICK s \in Without : \A t \in Without : t \subseteq s => t = s
  <2> HIDE DEF Without
  <2> QED BY <1>0, MinimalRows
<1>2. PICK x \in s : TRUE
  BY <1>1
<1>3. s \ {x} \notin Without /\ s \ {x} \in SUBSET Row /\ s \in SUBSET Row /\ ~HasLast(s)
  BY <1>1, <1>2
<1>4. CASE s \ {x} = {}
  BY <1>3, <1>4, <1>2
<1>5. CASE s \ {x} # {}
  <2>1. PICK m \in s \ {x} : \A r \in (s \ {x}) \ {m} : Precedes(r, m)
    BY <1>3, <1>5
  <2>2. m \in Row /\ x \in Row /\ m # x
    BY <2>1, <1>3, <1>2
  <2>3. CASE Precedes(x, m)
    <3>1. \A r \in s \ {m} : Precedes(r, m)
      BY <2>1, <2>3
    <3> QED BY <3>1, <2>1, <1>3
  <2>4. CASE Precedes(m, x)
    <3>1. \A r \in s \ {x} : Precedes(r, x)
      BY <2>1, <2>2, <2>4, <1>3, OrderFacts
    <3> QED BY <3>1, <1>2, <1>3
  <2> QED BY <2>2, <2>3, <2>4, OrderFacts
<1> QED BY <1>4, <1>5

(* What ORDER BY promises: every row once, in order.                       *)
Sorted(s, S) ==
    /\ s \in [1..Cardinality(S) -> S]
    /\ \A i, j \in 1..Cardinality(S) : i < j => Precedes(s[i], s[j])

LEMMA SortedExists ==
    ASSUME NEW S \in SUBSET Row
    PROVE  \E s : Sorted(s, S)
<1> DEFINE Unsorted == {u \in SUBSET Row : ~\E s : Sorted(s, u)}
<1> SUFFICES ASSUME Unsorted # {} PROVE FALSE
  OBVIOUS
<1>0. Unsorted \subseteq SUBSET Row
  OBVIOUS
<1>1. PICK u \in Unsorted : \A t \in Unsorted : t \subseteq u => t = u
  <2> HIDE DEF Unsorted
  <2> QED BY <1>0, MinimalRows
<1>2. u \in SUBSET Row /\ ~\E s : Sorted(s, u)
  BY <1>1
<1>3. CASE u = {}
  <2>1. Cardinality(u) = 0
    BY <1>3, FS_EmptySet
  <2>2. Sorted([i \in 1..0 |-> 0], u)
    BY <2>1 DEF Sorted
  <2> QED BY <2>2, <1>2
<1>4. CASE u # {}
  <2>1. PICK m \in u : \A r \in u \ {m} : Precedes(r, m)
    BY <1>2, <1>4, LastRow
  <2> DEFINE w == u \ {m}
             n == Cardinality(w)
  <2>2. w \in SUBSET Row /\ w \notin Unsorted
    BY <1>1, <1>2, <2>1
  <2>3. PICK s : Sorted(s, w)
    BY <2>2
  <2>4. n \in Nat /\ Cardinality(u) = n + 1
    BY <1>2, <2>1, RowsAreFinite, FS_RemoveElement
  <2> DEFINE z == [i \in 1..(n + 1) |-> IF i = n + 1 THEN m ELSE s[i]]
  <2> HIDE DEF n
  <2>5. s \in [1..n -> w] /\ \A i, j \in 1..n : i < j => Precedes(s[i], s[j])
    BY <2>3 DEF Sorted, n
  <2>6. z \in [1..(n + 1) -> u]
    BY <2>4, <2>5, <2>1
  <2>7. ASSUME NEW i \in 1..(n + 1), NEW j \in 1..(n + 1), i < j
        PROVE  Precedes(z[i], z[j])
    <3>1. i \in 1..n /\ z[i] = s[i] /\ s[i] \in u \ {m}
      BY <2>4, <2>5, <2>7
    <3>2. CASE j = n + 1
      BY <3>1, <3>2, <2>1
    <3>3. CASE j # n + 1
      BY <3>1, <3>3, <2>5, <2>7, <2>4
    <3> QED BY <3>2, <3>3
  <2>8. Sorted(z, u)
    BY <2>4, <2>6, <2>7 DEF Sorted
  <2> QED BY <2>8, <1>2
<1> QED BY <1>3, <1>4

LEMMA InOrderFacts ==
    ASSUME NEW S \in SUBSET Row
    PROVE  /\ inOrder(S) \in Seq(S)
           /\ Len(inOrder(S)) = Cardinality(S)
           /\ \A i, j \in 1..Cardinality(S) : i < j => Precedes(inOrder(S)[i], inOrder(S)[j])
           /\ \A r \in S : \E i \in 1..Cardinality(S) : inOrder(S)[i] = r
<1> DEFINE n == Cardinality(S)
           s == inOrder(S)
<1>1. Sorted(s, S)
  <2>1. \E q \in [1..Cardinality(S) -> S] :
            \A i, j \in 1..Cardinality(S) : i < j => Precedes(q[i], q[j])
    BY SortedExists DEF Sorted
  <2> QED BY <2>1 DEF Sorted, inOrder
<1>2. n \in Nat /\ IsFiniteSet(S)
  BY RowsAreFinite
<1> HIDE DEF s
<1>3. s \in Injection(1..n, S)
  <2>1. ASSUME NEW i \in 1..n, NEW j \in 1..n, s[i] = s[j] PROVE i = j
    <3>1. s[i] \in Row /\ s[j] \in Row
      BY <1>1 DEF Sorted
    <3> QED BY <2>1, <3>1, <1>1, <1>2, OrderFacts DEF Sorted
  <2> QED BY <2>1, <1>1 DEF Injection, IsInjective, Sorted
<1>4. Cardinality(1..n) = n
  BY <1>2, FS_Interval
<1>5. s \in Surjection(1..n, S)
  BY <1>2, <1>3, <1>4, FS_Injection
<1>6. \A r \in S : \E i \in 1..n : s[i] = r
  BY <1>5 DEF Surjection
<1>7. s \in Seq(S) /\ Len(s) = n
  BY <1>1, <1>2 DEF Sorted
<1> QED BY <1>1, <1>6, <1>7 DEF s, Sorted

-----------------------------------------------------------------------------
Setup == [role : Setting, active : BOOLEAN]
Entry == [row : Row, is : Setup]
Walk == [phase : {"idle", "paging", "ready"}, cursor : Row \cup {NoCursor},
         got : Seq(Entry), kept : SUBSET Row, cut : BOOLEAN]

DirType ==
    /\ Present \subseteq Row
    /\ dirRow \in [Present -> Setup]
    /\ dirFresh \subseteq Row
    /\ dirLoad \in [Load -> Walk]

InTurn(s) == \A i, j \in DOMAIN s : i < j => Precedes(s[i].row, s[j].row)

(* Where a walk is: what it has is in order and ends at the cursor.        *)
Placed(x) ==
    /\ InTurn(x.got)
    /\ x.phase = "idle" => x.got = <<>> /\ x.kept = {}
    /\ x.phase = "paging" /\ x.cursor = NoCursor => x.got = <<>>
    /\ x.phase = "paging" /\ x.cursor # NoCursor =>
         \A i \in DOMAIN x.got : x.got[i].row = x.cursor \/ Precedes(x.got[i].row, x.cursor)

(* What a walk that nothing cut short has yet to find lies ahead of it.    *)
NoneLeftBehind(x) ==
    ~x.cut =>
      /\ x.phase = "paging" => \A r \in x.kept :
           r \in Listed(x.got) \/ x.cursor = NoCursor \/ Precedes(x.cursor, r)
      /\ x.phase = "ready" => x.kept \subseteq Listed(x.got)

DirInv ==
    /\ DirType
    /\ \A l \in Load :
         /\ dirLoad[l].kept \subseteq Present
         /\ Placed(dirLoad[l])
         /\ NoneLeftBehind(dirLoad[l])

-----------------------------------------------------------------------------
LEMMA SeqFacts ==
    ASSUME NEW T, NEW s \in Seq(T)
    PROVE  Len(s) \in Nat /\ DOMAIN s = 1..Len(s) /\ \A i \in DOMAIN s : s[i] \in T
OBVIOUS

LEMMA ConcatFacts ==
    ASSUME NEW T, NEW s \in Seq(T), NEW t \in Seq(T)
    PROVE  /\ s \o t \in Seq(T)
           /\ DOMAIN (s \o t) = 1..(Len(s) + Len(t))
           /\ \A i \in 1..Len(s) : (s \o t)[i] = s[i]
           /\ \A i \in 1..Len(t) : (s \o t)[Len(s) + i] = t[i]
           /\ \A i \in 1..Len(s) : i \in DOMAIN (s \o t)
           /\ \A i \in 1..Len(t) : Len(s) + i \in DOMAIN (s \o t)
OBVIOUS

(* A walk's record when nothing runs, and when it has just been started.   *)
Fresh(K) == [IdleLoad EXCEPT !.phase = "paging", !.kept = K]

LEMMA NewWalks ==
    ASSUME NEW K \in SUBSET Row
    PROVE  /\ IdleLoad \in Walk /\ Fresh(K) \in Walk
           /\ Placed(IdleLoad) /\ NoneLeftBehind(IdleLoad) /\ IdleLoad.kept = {}
           /\ Placed(Fresh(K)) /\ NoneLeftBehind(Fresh(K)) /\ Fresh(K).kept = K
<1>1. <<>> \in Seq(Entry)
  OBVIOUS
<1>2. IdleLoad \in Walk
  BY <1>1 DEF IdleLoad, Walk
<1>3. Fresh(K) \in Walk
  BY <1>2 DEF Fresh, Walk
<1>4. /\ Fresh(K).phase = "paging" /\ Fresh(K).got = <<>> /\ Fresh(K).cursor = NoCursor
      /\ Fresh(K).kept = K
  BY <1>2 DEF Fresh, Walk, IdleLoad
<1>5. InTurn(<<>>)
  BY DEF InTurn
<1>6. Placed(IdleLoad) /\ NoneLeftBehind(IdleLoad) /\ IdleLoad.kept = {}
  BY <1>5 DEF IdleLoad, Placed, NoneLeftBehind
<1>7. Placed(Fresh(K)) /\ NoneLeftBehind(Fresh(K)) /\ Fresh(K).kept = K
  BY <1>4, <1>5 DEF Placed, NoneLeftBehind
<1> QED BY <1>2, <1>3, <1>6, <1>7

(* One page.                                                               *)
LEMMA PageFacts ==
    ASSUME DirType, NEW cursor \in Row \cup {NoCursor}
    PROVE  LET S == buildKeysetAnchorFrom(cursor)
               answer == getMembers(cursor) IN
           /\ S \in SUBSET Present
           /\ answer.page \in Seq(Entry)
           /\ answer.next \in S \cup {NoCursor}
           /\ InTurn(answer.page)
           /\ \A i \in DOMAIN answer.page : answer.page[i].row \in S
           /\ answer.next = NoCursor => S \subseteq Listed(answer.page)
           /\ answer.next # NoCursor =>
                /\ \A i \in DOMAIN answer.page :
                     answer.page[i].row = answer.next \/ Precedes(answer.page[i].row, answer.next)
                /\ \A r \in S : r \in Listed(answer.page) \/ Precedes(answer.next, r)
<1> DEFINE S == buildKeysetAnchorFrom(cursor)
           n == Cardinality(S)
           s == inOrder(S)
           lim == PageLimit + 1
           k == IF n < lim THEN n ELSE lim
           ids == buildLimitOffsetClause(s, lim)
           rows == listAllTenantMembers(cursor, lim)
           answer == getMembers(cursor)
<1>1. S \in SUBSET Present /\ S \in SUBSET Row
  BY DEF buildKeysetAnchorFrom, DirType
<1>2. n \in Nat /\ lim \in Nat /\ PageLimit \in Nat \ {0} /\ k \in Nat
  BY <1>1, RowsAreFinite, UserDirectoryAssumption
<1>3. /\ s \in Seq(S) /\ Len(s) = n
      /\ \A i, j \in 1..n : i < j => Precedes(s[i], s[j])
      /\ \A r \in S : \E i \in 1..n : s[i] = r
  BY <1>1, InOrderFacts
<1>4. ids = SubSeq(s, 1, k)
  BY <1>3 DEF buildLimitOffsetClause
<1>5. rows = [i \in DOMAIN ids |-> [row |-> ids[i], is |-> dirRow[ids[i]]]]
  BY DEF listAllTenantMembers
<1>6. answer = paginateKeyset(rows)
  BY DEF getMembers
<1> HIDE DEF S, n, s, ids, rows, answer, lim
<1>7. DOMAIN ids = 1..k /\ \A i \in 1..k : ids[i] = s[i] /\ s[i] \in S /\ i \in 1..n
  BY <1>2, <1>3, <1>4
<1>8. /\ rows \in Seq(Entry) /\ Len(rows) = k
      /\ \A i \in 1..k : rows[i] = [row |-> s[i], is |-> dirRow[s[i]]]
  <2>1. rows = [i \in 1..k |-> [row |-> s[i], is |-> dirRow[s[i]]]]
    BY <1>5, <1>7
  <2>2. \A i \in 1..k : [row |-> s[i], is |-> dirRow[s[i]]] \in Entry
    BY <1>1, <1>7 DEF DirType, Entry
  <2> HIDE DEF k
  <2> QED BY <2>1, <2>2, <1>2
<1>8a. k > PageLimit \/ k = n
  BY <1>2 DEF lim
<1>8b. \A i \in 1..k : i \in 1..n
  BY <1>7
<1> HIDE DEF k
<1>9. \A i, j \in 1..k : i < j => Precedes(rows[i].row, rows[j].row)
  <2> SUFFICES ASSUME NEW i \in 1..k, NEW j \in 1..k, i < j
               PROVE  Precedes(rows[i].row, rows[j].row)
    OBVIOUS
  <2>1. rows[i].row = s[i] /\ rows[j].row = s[j] /\ i \in 1..n /\ j \in 1..n
    BY <1>8, <1>8b
  <2> QED BY <2>1, <1>3
<1>10. \A i \in 1..k : rows[i].row = s[i] /\ rows[i].row \in S
  <2> SUFFICES ASSUME NEW i \in 1..k PROVE rows[i].row = s[i] /\ rows[i].row \in S
    OBVIOUS
  <2>1. rows[i].row = s[i]
    BY <1>8
  <2> QED BY <2>1, <1>7
<1>11. CASE k > PageLimit
  <2>1. answer.page = SubSeq(rows, 1, PageLimit) /\ answer.next = rows[PageLimit].row
    BY <1>6, <1>8, <1>11 DEF paginateKeyset
  <2>2. PageLimit \in 1..k /\ k \in Nat
    BY <1>2, <1>11
  <2>3. /\ answer.page \in Seq(Entry) /\ DOMAIN answer.page = 1..PageLimit
        /\ \A i \in 1..PageLimit : i \in 1..k /\ answer.page[i] = rows[i]
    BY <2>1, <2>2, <1>8, <1>2
  <2>4. answer.next \in S /\ answer.next # NoCursor
    BY <2>1, <2>2, <1>10, <1>1, UserDirectoryAssumption
  <2>5. InTurn(answer.page)
    BY <2>3, <1>9 DEF InTurn
  <2>6. \A i \in 1..PageLimit : answer.page[i].row \in S
    BY <2>3, <1>10
  <2>7. \A i \in 1..PageLimit :
            answer.page[i].row = answer.next \/ Precedes(answer.page[i].row, answer.next)
    <3> SUFFICES ASSUME NEW i \in 1..PageLimit, i # PageLimit
                 PROVE  Precedes(answer.page[i].row, answer.next)
      BY <2>1, <2>3
    <3> QED BY <2>1, <2>2, <2>3, <1>9, <1>2
  <2>8. ASSUME NEW r \in S
        PROVE  r \in Listed(answer.page) \/ Precedes(answer.next, r)
    <3>1. PICK i \in 1..n : s[i] = r
      BY <1>3
    <3>2. CASE i <= PageLimit
      <4>1. i \in 1..PageLimit /\ i \in 1..k /\ answer.page[i].row = r
        BY <3>1, <3>2, <2>2, <2>3, <1>10, <1>2
      <4> QED BY <4>1, <2>3 DEF Listed
    <3>3. CASE i > PageLimit
      <4>1. PageLimit \in 1..n /\ answer.next = s[PageLimit]
        BY <2>1, <2>2, <1>10, <1>8b
      <4> QED BY <4>1, <3>1, <3>3, <1>3
    <3> QED BY <3>2, <3>3, <1>2
  <2> QED BY <1>1, <2>3, <2>4, <2>5, <2>6, <2>7, <2>8 DEF S, answer
<1>12. CASE ~(k > PageLimit)
  <2>1. answer.page = rows /\ answer.next = NoCursor
    BY <1>6, <1>8, <1>12 DEF paginateKeyset
  <2>2. k = n /\ DOMAIN rows = 1..k
    BY <1>2, <1>8, <1>8a, <1>12
  <2>3. InTurn(rows)
    BY <2>2, <1>9 DEF InTurn
  <2>4. S \subseteq Listed(rows)
    <3> SUFFICES ASSUME NEW r \in S PROVE r \in Listed(rows)
      OBVIOUS
    <3>1. PICK i \in 1..n : s[i] = r
      BY <1>3
    <3> QED BY <3>1, <2>2, <1>10 DEF Listed
  <2> QED BY <1>1, <1>8, <1>10, <2>1, <2>2, <2>3, <2>4 DEF S, answer
<1> QED BY <1>11, <1>12

LEMMA DirInitial == dirInit => DirInv
<1> SUFFICES ASSUME dirInit PROVE DirInv
  OBVIOUS
<1>1. PICK there \in SUBSET Row, role \in Setting :
        /\ dirRow = [r \in there |-> [role |-> role, active |-> TRUE]]
        /\ dirFresh = Row \ there
        /\ \E l \in Load : dirLoad =
             [[x \in Load |-> IdleLoad] EXCEPT ![l] =
                [IdleLoad EXCEPT !.phase = "paging", !.kept = there]]
  BY DEF dirInit
<1>2. Present = there
  BY <1>1 DEF Present
<1>3. dirLoad \in [Load -> {IdleLoad, Fresh(there)}]
  BY <1>1 DEF Fresh
<1>4. DirType
  <2>2. dirLoad \in [Load -> Walk]
    BY <1>3, NewWalks
  <2>3. dirRow \in [Present -> Setup]
    BY <1>1, <1>2 DEF Setup
  <2> QED BY <1>1, <1>2, <2>2, <2>3 DEF DirType
<1>5. ASSUME NEW l \in Load
      PROVE  dirLoad[l].kept \subseteq Present /\ Placed(dirLoad[l]) /\ NoneLeftBehind(dirLoad[l])
  <2>1. dirLoad[l] = IdleLoad \/ dirLoad[l] = Fresh(there)
    BY <1>3
  <2> QED BY <2>1, <1>2, NewWalks
<1> QED BY <1>4, <1>5 DEF DirInv

(* A walk that starts, and one that only forgets rows.                     *)
LEMMA WalkBegins ==
    ASSUME DirInv, NEW l \in Load, dirLoad' = beginLoad(l, dirLoad),
           Present \subseteq Present', Present' \subseteq Row,
           dirRow' \in [Present' -> Setup], dirFresh' \subseteq Row
    PROVE  DirInv'
<1>1. Present \in SUBSET Row /\ dirLoad \in [Load -> Walk]
  BY DEF DirInv, DirType
<1>1a. dirLoad' = [dirLoad EXCEPT ![l] = Fresh(Present)]
  BY DEF beginLoad, Fresh
<1>2. dirLoad' \in [Load -> Walk]
  BY <1>1, <1>1a, NewWalks
<1>3. DirType'
  BY <1>2 DEF DirType
<1>4. ASSUME NEW m \in Load
      PROVE  dirLoad'[m].kept \subseteq Present' /\ Placed(dirLoad'[m])
             /\ NoneLeftBehind(dirLoad'[m])
  <2>1. CASE m = l
    <3>1. dirLoad'[m] = Fresh(Present)
      BY <1>1, <1>1a, <2>1
    <3> QED BY <1>1, <3>1, NewWalks
  <2>2. CASE m # l
    BY <1>1, <1>1a, <2>2 DEF DirInv
  <2> QED BY <2>1, <2>2
<1> QED BY <1>3, <1>4 DEF DirInv, Placed, NoneLeftBehind, InTurn, Listed

LEMMA RowVanishes ==
    ASSUME DirInv, NEW r \in Present,
           dirRow' = withoutRow(dirRow, r), dirLoad' = forgetRow(r), dirFresh' = dirFresh
    PROVE  DirInv'
<1>1. Present' = Present \ {r} /\ dirRow' \in [Present' -> Setup]
  BY DEF withoutRow, Present, DirInv, DirType
<1>2. \A m \in Load : dirLoad'[m] = [dirLoad[m] EXCEPT !.kept = @ \ {r}]
  BY DEF forgetRow
<1>3. ASSUME NEW m \in Load
      PROVE  /\ dirLoad[m] \in Walk /\ dirLoad'[m] \in Walk
             /\ dirLoad'[m].phase = dirLoad[m].phase /\ dirLoad'[m].cursor = dirLoad[m].cursor
             /\ dirLoad'[m].got = dirLoad[m].got /\ dirLoad'[m].cut = dirLoad[m].cut
             /\ dirLoad'[m].kept = dirLoad[m].kept \ {r}
  <2>1. dirLoad[m] \in Walk
    BY DEF DirInv, DirType
  <2> DEFINE x == dirLoad[m]
  <2>2. dirLoad'[m] = [x EXCEPT !.kept = x.kept \ {r}]
    BY <1>2
  <2> HIDE DEF x
  <2>3. x \in Walk
    BY <2>1 DEF x
  <2>4. [x EXCEPT !.kept = x.kept \ {r}] \in Walk
    BY <2>3 DEF Walk
  <2>5. /\ [x EXCEPT !.kept = x.kept \ {r}].phase = x.phase
        /\ [x EXCEPT !.kept = x.kept \ {r}].cursor = x.cursor
        /\ [x EXCEPT !.kept = x.kept \ {r}].got = x.got
        /\ [x EXCEPT !.kept = x.kept \ {r}].cut = x.cut
        /\ [x EXCEPT !.kept = x.kept \ {r}].kept = x.kept \ {r}
    BY <2>3 DEF Walk
  <2> QED BY <2>1, <2>2, <2>4, <2>5 DEF x
<1>4. dirLoad' \in [Load -> Walk]
  BY <1>3 DEF forgetRow
<1>5. DirType'
  BY <1>1, <1>4 DEF DirType, DirInv
<1>6. ASSUME NEW m \in Load
      PROVE  dirLoad'[m].kept \subseteq Present' /\ Placed(dirLoad'[m])
             /\ NoneLeftBehind(dirLoad'[m])
  <2>1. dirLoad[m].kept \subseteq Present /\ Placed(dirLoad[m]) /\ NoneLeftBehind(dirLoad[m])
    BY DEF DirInv
  <2> QED BY <2>1, <1>1, <1>3 DEF Placed, NoneLeftBehind, InTurn, Listed
<1> QED BY <1>5, <1>6 DEF DirInv, Placed, NoneLeftBehind, InTurn, Listed

(* The next page goes behind what the walk has.                            *)
LEMMA PageFollows ==
    ASSUME DirInv, NEW l \in Load, fetchAllUsers(l)
    PROVE  DirInv'
<1> DEFINE x == dirLoad[l]
           S == buildKeysetAnchorFrom(x.cursor)
           answer == getMembers(x.cursor)
           got == x.got \o answer.page
           y == [x EXCEPT !.phase = IF answer.next = NoCursor THEN "ready" ELSE "paging",
                          !.cursor = answer.next,
                          !.got = got,
                          !.cut = x.cut \/ x.cursor \notin Present \cup {NoCursor}]
<1>1. /\ DirType /\ x \in Walk /\ x.kept \subseteq Present /\ Placed(x) /\ NoneLeftBehind(x)
      /\ x.phase = "paging"
  BY DEF DirInv, DirType, fetchAllUsers
<1>2. x.cursor \in Row \cup {NoCursor} /\ x.got \in Seq(Entry) /\ x.kept \in SUBSET Row
      /\ x.cut \in BOOLEAN
  BY <1>1 DEF Walk
<1>3. /\ S \in SUBSET Present
      /\ answer.page \in Seq(Entry)
      /\ answer.next \in S \cup {NoCursor}
      /\ InTurn(answer.page)
      /\ \A i \in DOMAIN answer.page : answer.page[i].row \in S
      /\ answer.next = NoCursor => S \subseteq Listed(answer.page)
      /\ answer.next # NoCursor =>
           /\ \A i \in DOMAIN answer.page :
                answer.page[i].row = answer.next \/ Precedes(answer.page[i].row, answer.next)
           /\ \A r \in S : r \in Listed(answer.page) \/ Precedes(answer.next, r)
  BY <1>1, <1>2, PageFacts
<1>4. dirLoad' = [dirLoad EXCEPT ![l] = y]
  BY DEF fetchAllUsers
<1>5. /\ \A r \in S : x.cursor # NoCursor => Precedes(x.cursor, r) /\ x.cursor \in Present
      /\ \A r \in Present : x.cursor = NoCursor => r \in S
      /\ \A r \in Present : x.cursor \in Present /\ Precedes(x.cursor, r) => r \in S
  BY <1>1, <1>2, OrderFacts DEF buildKeysetAnchorFrom, DirType
<1> HIDE DEF S, answer, x
<1>6. /\ Len(x.got) \in Nat /\ DOMAIN x.got = 1..Len(x.got)
      /\ Len(answer.page) \in Nat /\ DOMAIN answer.page = 1..Len(answer.page)
  BY <1>2, <1>3, SeqFacts
<1>6a. /\ got \in Seq(Entry)
       /\ DOMAIN got = 1..(Len(x.got) + Len(answer.page))
       /\ \A i \in 1..Len(x.got) : got[i] = x.got[i]
       /\ \A i \in 1..Len(answer.page) : got[Len(x.got) + i] = answer.page[i]
       /\ \A i \in 1..Len(x.got) : i \in DOMAIN got
       /\ \A i \in 1..Len(answer.page) : Len(x.got) + i \in DOMAIN got
  <2>1. x.got \in Seq(Entry) /\ answer.page \in Seq(Entry)
    BY <1>2, <1>3
  <2> QED BY <2>1, ConcatFacts, Zenon
<1>6b. /\ y.phase = (IF answer.next = NoCursor THEN "ready" ELSE "paging")
       /\ y.cursor = answer.next /\ y.got = got /\ y.kept = x.kept
       /\ y.cut <=> x.cut \/ x.cursor \notin Present \cup {NoCursor}
  <2> HIDE DEF got
  <2> QED BY <1>1 DEF Walk
<1>12. y \in Walk
  <2>1. answer.next \in Row \cup {NoCursor}
    BY <1>1, <1>3 DEF DirType
  <2> HIDE DEF got
  <2> QED BY <1>1, <1>6a, <2>1 DEF Walk
<1> HIDE DEF got, y
<1>6c. ASSUME NEW i \in DOMAIN got, i \notin DOMAIN x.got
       PROVE  /\ i - Len(x.got) \in DOMAIN answer.page
              /\ got[i] = answer.page[i - Len(x.got)]
  <2> DEFINE n == Len(x.got)
             k == Len(answer.page)
  <2>0. n \in Nat /\ k \in Nat /\ i \in 1..(n + k) /\ i \notin 1..n
    BY <1>6, <1>6a, <1>6c
  <2> HIDE DEF n, k
  <2>1a. i \in Nat /\ i - n \in 1..k /\ n + (i - n) = i
    BY <2>0
  <2>1. i \in Nat /\ i - Len(x.got) \in 1..Len(answer.page)
        /\ Len(x.got) + (i - Len(x.got)) = i
    BY <2>1a DEF n, k
  <2> QED BY <2>1, <1>6, <1>6a
<1>6d. \A i \in DOMAIN x.got : i \in DOMAIN got /\ got[i] = x.got[i] /\ x.got[i].row \in Row
  <2>1. \A i \in DOMAIN x.got : x.got[i] \in Entry
    BY <1>2, SeqFacts
  <2>2. \A i \in DOMAIN x.got : i \in DOMAIN got /\ got[i] = x.got[i]
    BY <1>6, <1>6a
  <2> QED BY <2>1, <2>2 DEF Entry
<1>7. ASSUME NEW i \in DOMAIN x.got, NEW j \in DOMAIN answer.page
      PROVE  Precedes(x.got[i].row, answer.page[j].row)
  <2>1. x.cursor # NoCursor
    <3>1. x.got # <<>>
      BY <1>6, <1>7
    <3> QED BY <3>1, <1>1 DEF Placed
  <2>2. x.got[i].row = x.cursor \/ Precedes(x.got[i].row, x.cursor)
    BY <2>1, <1>1 DEF Placed
  <2>3. Precedes(x.cursor, answer.page[j].row) /\ answer.page[j].row \in Row
    BY <2>1, <1>3, <1>5, <1>1 DEF DirType
  <2>4. x.got[i].row \in Row /\ x.cursor \in Row
    BY <1>2, <2>1, <1>6d
  <2> QED BY <2>2, <2>3, <2>4, OrderFacts
<1>8. InTurn(got)
  <2> SUFFICES ASSUME NEW i \in DOMAIN got, NEW j \in DOMAIN got, i < j
               PROVE  Precedes(got[i].row, got[j].row)
    BY DEF InTurn
  <2>1. CASE j \in DOMAIN x.got
    <3>1. i \in DOMAIN x.got /\ got[i] = x.got[i] /\ got[j] = x.got[j]
      <4>1. i \in DOMAIN x.got
        BY <2>1, <1>6, <1>6a
      <4> QED BY <4>1, <2>1, <1>6d
    <3> QED BY <3>1, <2>1, <1>1 DEF Placed, InTurn
  <2>2. CASE j \notin DOMAIN x.got
    <3>1. j - Len(x.got) \in DOMAIN answer.page /\ got[j] = answer.page[j - Len(x.got)]
      BY <2>2, <1>6c
    <3>2. CASE i \in DOMAIN x.got
      BY <3>1, <3>2, <1>6d, <1>7
    <3>3. CASE i \notin DOMAIN x.got
      <4>1. i - Len(x.got) \in DOMAIN answer.page /\ got[i] = answer.page[i - Len(x.got)]
        BY <3>3, <1>6c
      <4>2. i - Len(x.got) < j - Len(x.got)
        BY <1>6, <1>6a
      <4> QED BY <3>1, <4>1, <4>2, <1>3 DEF InTurn
    <3> QED BY <3>2, <3>3
  <2> QED BY <2>1, <2>2
<1>9. Listed(got) = Listed(x.got) \cup Listed(answer.page)
  <2>2. \A i \in DOMAIN answer.page : Len(x.got) + i \in DOMAIN got
                                      /\ got[Len(x.got) + i] = answer.page[i]
    BY <1>6, <1>6a
  <2>3. Listed(x.got) \subseteq Listed(got)
    BY <1>6d DEF Listed
  <2>4. Listed(answer.page) \subseteq Listed(got)
    BY <2>2 DEF Listed
  <2>5. Listed(got) \subseteq Listed(x.got) \cup Listed(answer.page)
    BY <1>6c, <1>6d DEF Listed
  <2> QED BY <2>3, <2>4, <2>5
<1>10. Placed(y)
  <2>1. ASSUME y.phase = "paging", y.cursor # NoCursor, NEW i \in DOMAIN got
        PROVE  got[i].row = answer.next \/ Precedes(got[i].row, answer.next)
    <3>1. answer.next # NoCursor /\ answer.next \in S /\ answer.next \in Row
      BY <2>1, <1>3, <1>6b, <1>1 DEF DirType
    <3>2. CASE i \in DOMAIN x.got
      <4>1. got[i] = x.got[i] /\ x.cursor # NoCursor
        <5>1. x.got # <<>>
          BY <3>2, <1>6
        <5> QED BY <5>1, <3>2, <1>6d, <1>1 DEF Placed
      <4>2. x.got[i].row = x.cursor \/ Precedes(x.got[i].row, x.cursor)
        BY <3>2, <4>1, <1>1 DEF Placed
      <4>3. Precedes(x.cursor, answer.next)
        BY <3>1, <4>1, <1>5
      <4>4. x.got[i].row \in Row /\ x.cursor \in Row
        BY <3>2, <4>1, <1>2, <1>6d
      <4> QED BY <3>1, <4>1, <4>2, <4>3, <4>4, OrderFacts
    <3>3. CASE i \notin DOMAIN x.got
      BY <3>1, <3>3, <1>3, <1>6c
    <3> QED BY <3>2, <3>3
  <2> QED BY <2>1, <1>6b, <1>8 DEF Placed
<1>11. NoneLeftBehind(y)
  <2> SUFFICES ASSUME ~y.cut, NEW r \in x.kept
               PROVE  /\ y.phase = "paging" => r \in Listed(got) \/ Precedes(answer.next, r)
                      /\ y.phase = "ready" => r \in Listed(got)
    BY <1>6b DEF NoneLeftBehind
  <2>1. ~x.cut /\ x.cursor \in Present \cup {NoCursor} /\ r \in Present
    BY <1>1, <1>6b
  <2>2. r \in Listed(x.got) \/ r \in S
    BY <2>1, <1>1, <1>5 DEF NoneLeftBehind
  <2> QED BY <2>2, <1>3, <1>6b, <1>9
<1>13. dirLoad' \in [Load -> Walk] /\ dirRow' = dirRow /\ dirFresh' = dirFresh
  BY <1>4, <1>12, <1>1 DEF DirType, fetchAllUsers
<1>14. \A m \in Load : dirLoad'[m] = IF m = l THEN y ELSE dirLoad[m]
  BY <1>4, <1>1 DEF DirType
<1>15. DirType'
  BY <1>13, <1>1 DEF DirType, Present
<1>16. ASSUME NEW m \in Load
       PROVE  dirLoad'[m].kept \subseteq Present /\ Placed(dirLoad'[m])
              /\ NoneLeftBehind(dirLoad'[m])
  <2>1. CASE m = l
    <3>1. y.kept \subseteq Present
      BY <1>1, <1>6b
    <3> QED BY <2>1, <3>1, <1>10, <1>11, <1>14
  <2>2. CASE m # l
    BY <2>2, <1>14 DEF DirInv
  <2> QED BY <2>1, <2>2
<1>17. Present' = Present
  BY <1>13 DEF Present
<1> QED BY <1>15, <1>16, <1>17 DEF DirInv, Placed, NoneLeftBehind, InTurn, Listed

LEMMA DirStep == DirInv /\ [dirNext]_dirVars => DirInv'
<1> SUFFICES ASSUME DirInv, [dirNext]_dirVars PROVE DirInv'
  OBVIOUS
<1> USE DEF DirInv
<1>1. ASSUME NEW l \in Load, fetchAllUsers(l) PROVE DirInv'
  BY <1>1, PageFollows
<1>2. ASSUME NEW l \in Load, fetchAllUsersCut(l) PROVE DirInv'
  <2>1. dirLoad[l] \in Walk /\ dirRow' = dirRow /\ dirFresh' = dirFresh
    BY <1>2 DEF DirType, fetchAllUsersCut
  <2> DEFINE y == [dirLoad[l] EXCEPT !.phase = "ready", !.cut = TRUE]
  <2>2. dirLoad' = [dirLoad EXCEPT ![l] = y]
    BY <1>2 DEF fetchAllUsersCut, DirType
  <2>3. y \in Walk /\ Placed(y) /\ NoneLeftBehind(y) /\ y.kept \subseteq Present
    BY <2>1 DEF Walk, Placed, NoneLeftBehind
  <2> HIDE DEF y
  <2>4. \A m \in Load : dirLoad'[m] = IF m = l THEN y ELSE dirLoad[m]
    BY <2>2 DEF DirType
  <2>5. Present' = Present /\ DirType'
    BY <2>1, <2>2, <2>3 DEF DirType, Present
  <2>6. ASSUME NEW m \in Load
        PROVE  dirLoad'[m].kept \subseteq Present /\ Placed(dirLoad'[m])
               /\ NoneLeftBehind(dirLoad'[m])
    BY <2>3, <2>4
  <2> QED BY <2>5, <2>6 DEF Placed, NoneLeftBehind, InTurn, Listed
<1>3. ASSUME NEW l \in Load, showUsers(l) PROVE DirInv'
  <2>1. dirRow' = dirRow /\ dirFresh' = dirFresh /\ dirLoad' = [dirLoad EXCEPT ![l] = IdleLoad]
    BY <1>3 DEF showUsers
  <2>2. IdleLoad \in Walk /\ Placed(IdleLoad) /\ NoneLeftBehind(IdleLoad)
        /\ IdleLoad.kept \subseteq Present
    BY NewWalks
  <2>4. \A m \in Load : dirLoad'[m] = IF m = l THEN IdleLoad ELSE dirLoad[m]
    BY <2>1 DEF DirType
  <2>5. Present' = Present /\ DirType'
    BY <2>1, <2>2 DEF DirType, Present
  <2>6. ASSUME NEW m \in Load
        PROVE  dirLoad'[m].kept \subseteq Present /\ Placed(dirLoad'[m])
               /\ NoneLeftBehind(dirLoad'[m])
    BY <2>2, <2>4
  <2> QED BY <2>5, <2>6 DEF Placed, NoneLeftBehind, InTurn, Listed
<1>4. ASSUME NEW l \in Load, NEW role \in Setting, NEW r \in dirFresh, createUser(r, role, l)
      PROVE  DirInv'
  <2>1. Present' = Present \cup {r} /\ dirRow' \in [Present' -> Setup]
    BY <1>4 DEF createUser, Present, DirType, Setup
  <2>2. dirLoad' = beginLoad(l, dirLoad) /\ dirFresh' \subseteq Row /\ r \in Row
    BY <1>4 DEF createUser, DirType
  <2> QED BY <2>1, <2>2, WalkBegins DEF DirType
<1>5. ASSUME NEW l \in Load, NEW i \in DOMAIN dirShown, handleToggleActive(dirShown[i], l)
      PROVE  DirInv'
  <2>1. Present' = Present /\ dirRow' \in [Present' -> Setup]
    BY <1>5 DEF handleToggleActive, Present, DirType, Setup
  <2>2. dirLoad' = beginLoad(l, dirLoad) /\ dirFresh' = dirFresh
    BY <1>5 DEF handleToggleActive
  <2> QED BY <2>1, <2>2, WalkBegins DEF DirType
<1>6. ASSUME NEW l \in Load, NEW i \in DOMAIN dirShown, NEW role \in Setting,
             editRole(dirShown[i], role, l)
      PROVE  DirInv'
  <2>1. Present' = Present /\ dirRow' \in [Present' -> Setup]
    BY <1>6 DEF editRole, Present, DirType, Setup
  <2>2. dirLoad' = beginLoad(l, dirLoad) /\ dirFresh' = dirFresh
    BY <1>6 DEF editRole
  <2> QED BY <2>1, <2>2, WalkBegins DEF DirType
<1>7. ASSUME NEW i \in DOMAIN dirShown, deleteTenantMember(dirShown[i]) PROVE DirInv'
  BY <1>7, RowVanishes DEF deleteTenantMember
<1>8. ASSUME NEW r \in dirRemoving, handleRemove(r) PROVE DirInv'
  BY <1>8 DEF handleRemove, DirType, Present, Placed, NoneLeftBehind, InTurn, Listed
<1>9. CASE editElsewhere
  <2>1. ASSUME NEW r \in dirFresh, NEW role \in Setting,
               dirRow' = [x \in Present \cup {r} |->
                            IF x = r THEN [role |-> role, active |-> TRUE] ELSE dirRow[x]],
               dirFresh' = dirFresh \ {r}, dirLoad' = dirLoad
        PROVE  DirInv'
    <3>1. Present' = Present \cup {r} /\ dirRow' \in [Present' -> Setup]
      BY <2>1 DEF Present, DirType, Setup
    <3>2. DirType'
      BY <2>1, <3>1 DEF DirType
    <3> QED BY <2>1, <3>1, <3>2 DEF Placed, NoneLeftBehind, InTurn, Listed
  <2>2. ASSUME NEW r \in Present, dirRow' = withoutRow(dirRow, r),
               dirLoad' = forgetRow(r), dirFresh' = dirFresh
        PROVE  DirInv'
    BY <2>2, RowVanishes
  <2> QED BY <1>9, <2>1, <2>2 DEF editElsewhere
<1>10. CASE UNCHANGED dirVars
  BY <1>10 DEF dirVars, DirType, Present, Placed, NoneLeftBehind, InTurn, Listed
<1> QED BY <1>1, <1>2, <1>3, <1>4, <1>5, <1>6, <1>7, <1>8, <1>9, <1>10 DEF dirNext

(* fetchAllUsers returns every membership that was there throughout, once, *)
(* for any number of rows, equal stamps, page sizes, overlapping loads and *)
(* edits: the keyset order is total, and each page starts where the one    *)
(* before it ended.                                                        *)
THEOREM WalksAreComplete == dirSpec => []WalkIsComplete
<1>1. dirSpec => []DirInv
  BY DirInitial, DirStep, PTL DEF dirSpec
<1>2. DirInv => WalkIsComplete
  <2> SUFFICES ASSUME DirInv, NEW l \in Load
               PROVE  /\ \A i, j \in DOMAIN dirLoad[l].got :
                            dirLoad[l].got[i].row = dirLoad[l].got[j].row => i = j
                      /\ dirLoad[l].phase = "ready" /\ ~dirLoad[l].cut =>
                            dirLoad[l].kept \subseteq Listed(dirLoad[l].got)
    BY DEF WalkIsComplete
  <2> DEFINE got == dirLoad[l].got
  <2>1. got \in Seq(Entry) /\ InTurn(got) /\ NoneLeftBehind(dirLoad[l])
    BY DEF DirInv, DirType, Walk, Placed
  <2>2. ASSUME NEW i \in DOMAIN got, NEW j \in DOMAIN got, got[i].row = got[j].row
        PROVE  i = j
    <3> HIDE DEF got
    <3>0. got[i] \in Entry /\ got[j] \in Entry /\ i \in Int /\ j \in Int
      BY <2>1, SeqFacts
    <3>1. i \in Int /\ j \in Int /\ got[i].row \in Row /\ got[j].row \in Row
      BY <3>0 DEF Entry
    <3> QED BY <3>1, <2>1, <2>2, OrderFacts DEF InTurn
  <2> QED BY <2>1, <2>2 DEF NoneLeftBehind
<1> QED
  BY <1>1, <1>2, PTL

-----------------------------------------------------------------------------
(***************************************************************************)
(* Rates stay with their tenant, for any number of tenants, contract       *)
(* versions, rates, loads under way and edits. What the page shows does    *)
(* not enter the argument: the server asks for the tenant again.           *)
(***************************************************************************)

RateRow == [tenant : RateClient, version : ContractVersion, amount : Amount]

(* The part of the state the property rests on has its type.               *)
RdTypes ==
    /\ rdRate \in [Stored -> RateRow]
    /\ rdClient \in RateClient \cup {Nothing}

RdInv == RdTypes /\ RatesStayWithTheirTenant

-----------------------------------------------------------------------------
(* The seeded rates are the tenant's of their version; nothing is written. *)
LEMMA RdInitial == rdInit => RdInv
<1>1. SUFFICES ASSUME rdInit PROVE RdInv
  OBVIOUS
<1>2. PICK some \in SUBSET Rate, v \in ContractVersion, a \in Amount :
        rdRate = [r \in some |-> [tenant |-> VersionOwner[v], version |-> v, amount |-> a]]
  BY <1>1 DEF rdInit
<1>3. VersionOwner[v] \in RateClient
  BY RateDeskAssumption
<1>4. Stored = some /\ \A r \in some :
        rdRate[r] \in RateRow /\ VersionOwner[rdRate[r].version] = rdRate[r].tenant
  BY <1>2, <1>3 DEF RateRow, Stored
<1>5. rdRate \in [Stored -> RateRow]
  BY <1>2, <1>4
<1> QED
  BY <1>1, <1>4, <1>5 DEF RdInv, RdTypes, RatesStayWithTheirTenant, rdInit

(* A step that leaves the table and its history alone.                     *)
LEMMA PageKeepsInv ==
  ASSUME RdInv, UNCHANGED <<rdRate, rdWritten>>, rdClient' \in RateClient \cup {Nothing}
  PROVE  RdInv'
  BY DEF RdInv, RdTypes, RatesStayWithTheirTenant, Stored

(* A new rate: of a version of the tenant, under an id nobody has used.    *)
LEMMA CreateRateKeepsInv ==
  ASSUME RdInv, NEW r \in Rate, NEW v \in ContractVersion, NEW a \in Amount, NEW l \in RateLoad,
         createRate(r, v, a, l)
  PROVE  RdInv'
<1> DEFINE new == [tenant |-> rdClient, version |-> v, amount |-> a]
<1>1. /\ rdClient \in RateClient /\ rdClient' = rdClient
      /\ r \notin Stored /\ (\A w \in rdWritten : w[2] # r)
      /\ VersionOwner[v] = rdClient
      /\ rdWritten' = rdWritten \cup {<<rdClient, r>>}
      /\ rdRate' = [x \in Stored \cup {r} |-> IF x = r THEN new ELSE rdRate[x]]
  BY DEF createRate, createContractRate, countRateEdit, RdInv, RdTypes
<1>2. new \in RateRow /\ new.tenant = rdClient /\ new.version = v
  BY <1>1 DEF RateRow
<1>3. \A x \in Stored : rdRate[x] \in RateRow
  BY DEF RdInv, RdTypes
<1> HIDE DEF new
<1>4. Stored' = Stored \cup {r} /\ rdRate'[r] = new /\ \A x \in Stored : rdRate'[x] = rdRate[x]
  BY <1>1 DEF Stored
<1>5. rdRate' \in [Stored' -> RateRow]
  BY <1>1, <1>2, <1>3, <1>4
<1>6. ASSUME NEW x \in Stored'
      PROVE  /\ VersionOwner[rdRate'[x].version] = rdRate'[x].tenant
             /\ \A w \in rdWritten' : w[2] = x => w[1] = rdRate'[x].tenant
  <2>1. CASE x = r
    BY <1>1, <1>2, <1>4, <2>1
  <2>2. CASE x # r
    <3>1. x \in Stored /\ rdRate'[x] = rdRate[x]
      BY <1>4, <1>6, <2>2
    <3> QED
      BY <1>1, <2>2, <3>1 DEF RdInv, RatesStayWithTheirTenant
  <2> QED
    BY <2>1, <2>2
<1> QED
  BY <1>1, <1>5, <1>6 DEF RdInv, RdTypes, RatesStayWithTheirTenant

(* An edit: only of a rate of the tenant the request names.                *)
LEMMA SaveKeepsInv ==
  ASSUME RdInv, NEW a \in Amount, NEW l \in RateLoad, saveRate(a, l)
  PROVE  RdInv'
<1> DEFINE r == rdEditing
<1>1. /\ r \in Stored /\ rdRate[r].tenant = rdClient /\ rdClient' = rdClient
      /\ rdWritten' = rdWritten \cup {<<rdClient, r>>}
      /\ rdRate' = [rdRate EXCEPT ![r].amount = a]
  BY DEF saveRate, updateContractRate, ownRate, listContractRates, countRateEdit
<1> HIDE DEF r
<1>2. rdRate \in [Stored -> RateRow]
  BY DEF RdInv, RdTypes
<1>3. Stored' = Stored /\ rdRate' \in [Stored -> RateRow]
  BY <1>1, <1>2 DEF Stored, RateRow
<1>4. \A x \in Stored : rdRate'[x].tenant = rdRate[x].tenant /\ rdRate'[x].version = rdRate[x].version
  BY <1>1, <1>2 DEF RateRow
<1>5. ASSUME NEW x \in Stored, NEW w \in rdWritten', w[2] = x
      PROVE  w[1] = rdRate'[x].tenant
  <2>1. CASE w \in rdWritten
    BY <1>4, <1>5, <2>1 DEF RdInv, RatesStayWithTheirTenant
  <2>2. CASE w = <<rdClient, r>>
    BY <1>1, <1>4, <1>5, <2>2
  <2> QED
    BY <1>1, <2>1, <2>2
<1> QED
  BY <1>1, <1>3, <1>4, <1>5 DEF RdInv, RdTypes, RatesStayWithTheirTenant

(* A deletion takes the rate away.                                         *)
LEMMA DeleteKeepsInv ==
  ASSUME RdInv, NEW r \in Rate, handleDelete(r)
  PROVE  RdInv'
<1>1. /\ rdClient' = rdClient
      /\ rdWritten' = rdWritten \cup {<<rdClient, r>>}
      /\ rdRate' = [x \in Stored \ {r} |-> rdRate[x]]
  BY DEF handleDelete, deleteContractRate, countRateEdit
<1>2. Stored' = Stored \ {r} /\ \A x \in Stored' : rdRate'[x] = rdRate[x]
  BY <1>1 DEF Stored
<1>3. \A x \in Stored : rdRate[x] \in RateRow
  BY DEF RdInv, RdTypes
<1>4. rdRate' \in [Stored' -> RateRow]
  BY <1>1, <1>2, <1>3
<1>5. ASSUME NEW x \in Stored'
      PROVE  /\ VersionOwner[rdRate'[x].version] = rdRate'[x].tenant
             /\ \A w \in rdWritten' : w[2] = x => w[1] = rdRate'[x].tenant
  <2>1. x \in Stored /\ x # r /\ rdRate'[x] = rdRate[x]
    BY <1>2, <1>5
  <2> QED
    BY <1>1, <2>1 DEF RdInv, RatesStayWithTheirTenant
<1> QED
  BY <1>1, <1>4, <1>5 DEF RdInv, RdTypes, RatesStayWithTheirTenant

(* Every step keeps the invariant.                                         *)
LEMMA RdInductive == RdInv /\ [rdNext]_rdVars => RdInv'
<1>1. SUFFICES ASSUME RdInv, [rdNext]_rdVars PROVE RdInv'
  OBVIOUS
<1>2. rdClient \in RateClient \cup {Nothing}
  BY <1>1 DEF RdInv, RdTypes
<1>3. CASE UNCHANGED rdVars
  BY <1>1, <1>2, <1>3, PageKeepsInv DEF rdVars
<1>4. ASSUME NEW t \in RateClient, NEW l \in RateLoad, switchClient(t, l) PROVE RdInv'
  BY <1>1, <1>4, PageKeepsInv DEF switchClient
<1>5. ASSUME NEW l \in RateLoad, fetchContractRates(l) \/ showRates(l) PROVE RdInv'
  BY <1>1, <1>2, <1>5, PageKeepsInv DEF fetchContractRates, showRates
<1>6. ASSUME NEW r \in Rate, editRate(r) PROVE RdInv'
  BY <1>1, <1>2, <1>6, PageKeepsInv DEF editRate
<1>7. CASE dismissRate
  BY <1>1, <1>2, <1>7, PageKeepsInv DEF dismissRate
<1> QED
  BY <1>1, <1>3, <1>4, <1>5, <1>6, <1>7, CreateRateKeepsInv, SaveKeepsInv, DeleteKeepsInv DEF rdNext

-----------------------------------------------------------------------------
(* A rate stays with the tenant of its contract version and is changed     *)
(* only under that tenant, however many loads answer late and whatever     *)
(* the page still shows of another (createContractRate,                    *)
(* updateContractRate, deleteContractRate).                                *)
THEOREM RatesKeepTheirTenant == rdSpec => []RatesStayWithTheirTenant
<1>1. RdInv => RatesStayWithTheirTenant
  BY DEF RdInv
<1> QED
  BY <1>1, RdInitial, RdInductive, PTL DEF rdSpec

-----------------------------------------------------------------------------
(***************************************************************************)
(* What the deploy workflow keeps true for any number of commits, retries, *)
(* polls and runs, in whatever order they come.                            *)
(***************************************************************************)

MaybeCommit == DpCommit \cup {NoCommit}

PollRun ==
    [step : {"poll", "rollback", "advance"}, sha : DpCommit, attempt : Nat, build : MaybeCommit,
     database : BOOLEAN, known : Nat, tag : MaybeCommit]

RunType ==
    {NoDeploy}
    \cup [step : {"migrate"}, sha : DpCommit, attempt : Nat]
    \cup [step : {"deploy", "checkout"}, sha : DpCommit]
    \cup PollRun

DpTypeOK ==
    /\ dpNature \in [DpCommit -> DpNature]
    /\ dpPushed \in 0..MaxCommits
    /\ dpPending \subseteq DpCommit
    /\ dpRun \in RunType
    /\ dpBuilds \subseteq DpCommit
    /\ dpLive \in MaybeCommit /\ dpTag \in MaybeCommit
    /\ dpSeen \subseteq DpCommit

(* Past its migration, a run finds the schema of its own commit ...        *)
MigratedFirst == dpRun.step \notin {"none", "migrate"} => 1..dpRun.sha \subseteq dpSchema

(* ... and the schema of whatever it may roll back to.                     *)
TagIsMigrated == dpTag # NoCommit => 1..dpTag \subseteq dpSchema

(* One run at a time: the tag its clone has is the tag at the origin.      *)
CloneIsCurrent == dpRun.step \in {"poll", "rollback", "advance"} => dpRun.tag = dpTag

(* What the poll has read of a reachable database was really seen, and a   *)
(* run that goes on to the tag has seen its own commit or a descendant.    *)
PollIsEvidence ==
    /\ dpRun.step = "poll" /\ dpRun.build # NoCommit /\ dpRun.database => dpRun.build \in dpSeen
    /\ dpRun.step = "advance" => \E d \in dpSeen : dpRun.sha <= d

DpInv ==
    /\ DpTypeOK
    /\ CodeNeverAheadOfSchema
    /\ MigratedFirst /\ TagIsMigrated /\ CloneIsCurrent /\ PollIsEvidence

-----------------------------------------------------------------------------
(* Nothing is deployed and nothing runs.                                   *)
LEMMA DpInitial == DpInit => DpInv
<1> SUFFICES ASSUME DpInit PROVE DpInv
  OBVIOUS
<1>1. DpTypeOK
  BY DeploymentAssumption DEF DpInit, DpTypeOK, RunType, MaybeCommit
<1>2. dpRun.step = "none"
  BY DEF DpInit, NoDeploy
<1> QED
  BY <1>1, <1>2 DEF DpInit, DpInv, CodeNeverAheadOfSchema, MigratedFirst, TagIsMigrated, CloneIsCurrent,
     PollIsEvidence

(* What the world does leaves the run and the schema alone.                *)
LEMMA WorldKeepsInv ==
  ASSUME DpInv, push \/ workflowDispatch \/ migrateElsewhere \/ startRun \/ endRun
  PROVE  DpInv'
<1>1. CASE push
  BY <1>1, DeploymentAssumption DEF push, DpInv, DpTypeOK, DpCommit, MaybeCommit, CodeNeverAheadOfSchema,
     MigratedFirst, TagIsMigrated, CloneIsCurrent, PollIsEvidence, RunType, PollRun
<1>2. CASE workflowDispatch
  BY <1>2, DeploymentAssumption DEF workflowDispatch, DpInv, DpTypeOK, DpCommit, MaybeCommit,
     CodeNeverAheadOfSchema, MigratedFirst, TagIsMigrated, CloneIsCurrent, PollIsEvidence, RunType, PollRun
<1>3. CASE migrateElsewhere
  BY <1>3 DEF migrateElsewhere, DpInv, DpTypeOK, CodeNeverAheadOfSchema, MigratedFirst, TagIsMigrated,
     CloneIsCurrent, PollIsEvidence, RunType, PollRun
<1>4. CASE startRun
  <2>1. PICK c \in dpPending : dpRun' = [step |-> "migrate", sha |-> c, attempt |-> 0]
    BY <1>4 DEF startRun
  <2>2. c \in DpCommit /\ dpPending' \subseteq DpCommit
    BY <1>4 DEF startRun, DpInv, DpTypeOK
  <2>3. dpRun' \in RunType /\ dpRun'.step = "migrate"
    BY <2>1, <2>2 DEF RunType
  <2> QED
    BY <1>4, <2>2, <2>3 DEF startRun, DpInv, DpTypeOK, CodeNeverAheadOfSchema, MigratedFirst, TagIsMigrated,
       CloneIsCurrent, PollIsEvidence
<1>5. CASE endRun
  <2>1. dpRun' \in RunType /\ dpRun'.step = "none"
    BY <1>5 DEF endRun, NoDeploy, RunType
  <2> QED
    BY <1>5, <2>1 DEF endRun, dpWorld, DpInv, DpTypeOK, CodeNeverAheadOfSchema, MigratedFirst, TagIsMigrated,
       CloneIsCurrent, PollIsEvidence
<1> QED
  BY <1>1, <1>2, <1>3, <1>4, <1>5

(* A build that finishes was uploaded after its migrations.                *)
LEMMA FinishBuildKeepsInv ==
  ASSUME DpInv, finishBuild
  PROVE  DpInv'
<1>1. PICK c \in dpBuilds : /\ dpBuilds' = dpBuilds \ {c}
                            /\ dpLive' \in IF dpNature[c] = "dead" THEN {dpLive, NoCommit} ELSE {c}
  BY DEF finishBuild
<1>2. dpLive' \in {dpLive, NoCommit, c} /\ c \in DpCommit
  BY <1>1 DEF DpInv, DpTypeOK
<1>3. DpTypeOK'
  BY <1>1, <1>2 DEF finishBuild, dpWorld, DpInv, DpTypeOK, MaybeCommit, RunType, PollRun
<1>4. CodeNeverAheadOfSchema'
  BY <1>1, <1>2 DEF finishBuild, dpWorld, DpInv, CodeNeverAheadOfSchema
<1> QED
  BY <1>3, <1>4 DEF finishBuild, dpWorld, DpInv, MigratedFirst, TagIsMigrated, CloneIsCurrent, PollIsEvidence

(* The schema only grows.                                                  *)
LEMMA MigrateKeepsInv ==
  ASSUME DpInv, migrateDatabase
  PROVE  DpInv'
<1> DEFINE sha == dpRun.sha
           result == migrateWithRetry(sha, dpRun.attempt)
<1>1. dpRun \in [step : {"migrate"}, sha : DpCommit, attempt : Nat]
  BY DEF migrateDatabase, DpInv, DpTypeOK, RunType, PollRun, NoDeploy
<1>2. dpSchema \subseteq dpSchema'
  BY DEF migrateDatabase
<1>3. \/ result = "ok" /\ runOnce(sha) = "done"
      \/ result = "again"
      \/ result = "failed"
  BY DEF migrateWithRetry
<1>4. /\ dpRun' \in RunType
      /\ dpRun'.step \in {"none", "migrate", "deploy"}
      /\ dpRun'.step = "deploy" => dpRun'.sha = sha /\ runOnce(sha) = "done"
  <2>1. CASE result = "ok" /\ runOnce(sha) = "done"
    <3>1. dpRun' = [step |-> "deploy", sha |-> sha]
      BY <2>1 DEF migrateDatabase
    <3> QED
      BY <2>1, <3>1, <1>1 DEF RunType
  <2>2. CASE result = "again"
    <3>1. dpRun' = [dpRun EXCEPT !.attempt = @ + 1]
      BY <2>2 DEF migrateDatabase
    <3> QED
      BY <3>1, <1>1 DEF RunType
  <2>3. CASE result = "failed"
    <3>1. dpRun' = NoDeploy
      BY <2>3 DEF migrateDatabase
    <3> QED
      BY <3>1 DEF NoDeploy, RunType
  <2> QED
    BY <1>3, <2>1, <2>2, <2>3
<1>5. DpTypeOK'
  BY <1>4 DEF migrateDatabase, dpWorld, DpInv, DpTypeOK
<1>6. MigratedFirst'
  BY <1>4 DEF migrateDatabase, MigratedFirst
<1>7. CodeNeverAheadOfSchema' /\ TagIsMigrated'
  BY <1>2 DEF migrateDatabase, dpWorld, DpInv, CodeNeverAheadOfSchema, TagIsMigrated
<1>8. CloneIsCurrent' /\ PollIsEvidence'
  BY <1>4 DEF CloneIsCurrent, PollIsEvidence
<1> QED
  BY <1>5, <1>6, <1>7, <1>8 DEF DpInv

(* An upload, and the checkout after it, follow a completed migration.     *)
LEMMA DeployKeepsInv ==
  ASSUME DpInv, deployToCapRover \/ checkout
  PROVE  DpInv'
<1>1. dpRun \in [step : {"deploy", "checkout"}, sha : DpCommit]
  BY DEF deployToCapRover, checkout, DpInv, DpTypeOK, RunType, PollRun, NoDeploy
<1>2. 1..dpRun.sha \subseteq dpSchema
  BY <1>1 DEF DpInv, MigratedFirst
<1>3. CASE deployToCapRover
  <2>1. dpRun' \in RunType /\ dpRun'.step = "checkout" /\ dpRun'.sha = dpRun.sha
    BY <1>1, <1>3 DEF deployToCapRover, RunType
  <2>2. CodeNeverAheadOfSchema'
    BY <1>2, <1>3 DEF deployToCapRover, upload, DpInv, CodeNeverAheadOfSchema
  <2>3. DpTypeOK'
    BY <1>1, <1>3, <2>1 DEF deployToCapRover, upload, dpWorld, DpInv, DpTypeOK
  <2> QED
    BY <1>2, <1>3, <2>1, <2>2, <2>3 DEF deployToCapRover, dpWorld, DpInv, MigratedFirst, TagIsMigrated,
       CloneIsCurrent, PollIsEvidence
<1>4. CASE checkout
  <2>1. dpRun' = [step |-> "poll", sha |-> dpRun.sha, attempt |-> 1, build |-> NoCommit, database |-> FALSE,
                  known |-> dpPushed, tag |-> dpTag]
    BY <1>4 DEF checkout
  <2>2. dpRun' \in RunType
    BY <1>1, <2>1 DEF RunType, PollRun, MaybeCommit, DpInv, DpTypeOK
  <2> QED
    BY <1>2, <1>4, <2>1, <2>2 DEF checkout, dpWorld, DpInv, DpTypeOK, CodeNeverAheadOfSchema, MigratedFirst,
       TagIsMigrated, CloneIsCurrent, PollIsEvidence
<1> QED
  BY <1>3, <1>4

(* An attempt that is not the last only repeats; one that ends the poll    *)
(* well has the evidence it needs.                                         *)
LEMMA PollKeepsInv ==
  ASSUME DpInv, pollHealth
  PROVE  DpInv'
<1> USE DeploymentAssumption
<1>1. dpRun \in PollRun /\ dpRun.step = "poll"
  BY DEF pollHealth, DpInv, DpTypeOK, RunType, PollRun, NoDeploy
<1>2. PICK answered \in BOOLEAN :
        LET build == IF answered THEN dpLive ELSE dpRun.build
            database == IF answered THEN dpNature[dpLive] # "unreachable" ELSE dpRun.database
            healthy == answered /\ build = dpRun.sha /\ database
            done == dpRun.attempt = PollRetries
            next == CASE healthy -> "advance"
                      [] ~healthy /\ ~done -> "poll"
                      [] OTHER -> IF superseded(dpRun, build, database) THEN "advance" ELSE "rollback"
        IN  /\ answered => dpLive # NoCommit
            /\ dpRun' = [dpRun EXCEPT !.step = next, !.build = build, !.database = database,
                                      !.attempt = IF next = "poll" THEN @ + 1 ELSE @]
            /\ dpSeen' = IF answered /\ database THEN dpSeen \cup {build} ELSE dpSeen
  BY DEF pollHealth
<1> DEFINE build == IF answered THEN dpLive ELSE dpRun.build
           database == IF answered THEN dpNature[dpLive] # "unreachable" ELSE dpRun.database
           healthy == answered /\ build = dpRun.sha /\ database
           done == dpRun.attempt = PollRetries
           next == CASE healthy -> "advance"
                     [] ~healthy /\ ~done -> "poll"
                     [] OTHER -> IF superseded(dpRun, build, database) THEN "advance" ELSE "rollback"
<1>3. /\ answered => dpLive # NoCommit
      /\ dpRun' = [dpRun EXCEPT !.step = next, !.build = build, !.database = database,
                                !.attempt = IF next = "poll" THEN @ + 1 ELSE @]
      /\ dpSeen' = IF answered /\ database THEN dpSeen \cup {build} ELSE dpSeen
  BY <1>2
<1>4. build \in MaybeCommit /\ database \in BOOLEAN
  BY <1>1 DEF PollRun, DpInv, DpTypeOK
<1>5. next \in {"poll", "rollback", "advance"}
  OBVIOUS
<1>6. next = "advance" => (answered /\ build = dpRun.sha /\ database) \/ superseded(dpRun, build, database)
  OBVIOUS
<1>7. build # NoCommit /\ database => build \in dpSeen'
  <2>1. CASE answered
    BY <1>3, <2>1
  <2>2. CASE ~answered
    BY <1>1, <1>3, <2>2 DEF DpInv, PollIsEvidence
  <2> QED
    BY <2>1, <2>2
<1> HIDE DEF build, database, next
<1>8. dpRun' \in PollRun /\ dpRun'.step = next /\ dpRun'.sha = dpRun.sha /\ dpRun'.tag = dpRun.tag
      /\ dpRun'.build = build /\ dpRun'.database = database
  <2> DEFINE n == IF next = "poll" THEN dpRun.attempt + 1 ELSE dpRun.attempt
  <2>1. n \in Nat
    BY <1>1 DEF PollRun
  <2>2. dpRun' = [dpRun EXCEPT !.step = next, !.build = build, !.database = database, !.attempt = n]
    BY <1>3, <1>1 DEF PollRun
  <2> HIDE DEF n
  <2> QED
    BY <2>1, <2>2, <1>1, <1>4, <1>5, Zenon DEF PollRun
<1>9. dpSeen' \subseteq DpCommit
  BY <1>3, <1>4 DEF DpInv, DpTypeOK, MaybeCommit, build
<1>10. next = "advance" => \E d \in dpSeen' : dpRun.sha <= d
  <2>1. CASE answered /\ build = dpRun.sha /\ database
    <3>1. dpRun.sha \in DpCommit
      BY <1>1 DEF PollRun
    <3>2. dpRun.sha # NoCommit /\ dpRun.sha <= dpRun.sha
      BY <3>1 DEF DpCommit
    <3> QED
      BY <2>1, <3>2, <1>7
  <2>2. CASE superseded(dpRun, build, database)
    BY <2>2, <1>7 DEF superseded, isAncestor
  <2> QED
    BY <1>6, <2>1, <2>2
<1>11. DpTypeOK'
  BY <1>8, <1>9 DEF pollHealth, dpWorld, DpInv, DpTypeOK, RunType
<1>12. PollIsEvidence'
  BY <1>7, <1>8, <1>10 DEF PollIsEvidence
<1>13. MigratedFirst' /\ CloneIsCurrent'
  BY <1>1, <1>8 DEF pollHealth, DpInv, MigratedFirst, CloneIsCurrent
<1>14. CodeNeverAheadOfSchema' /\ TagIsMigrated'
  BY DEF pollHealth, DpInv, CodeNeverAheadOfSchema, TagIsMigrated
<1> QED
  BY <1>11, <1>12, <1>13, <1>14 DEF DpInv

(* A rollback uploads the tag, whose migrations are applied.               *)
LEMMA RollbackKeepsInv ==
  ASSUME DpInv, rollbackToLastGood
  PROVE  DpInv'
<1>1. dpRun.tag = dpTag /\ dpTag # NoCommit
  BY DEF rollbackToLastGood, DpInv, CloneIsCurrent
<1>2. dpTag \in DpCommit /\ 1..dpTag \subseteq dpSchema
  BY <1>1 DEF DpInv, DpTypeOK, MaybeCommit, TagIsMigrated
<1>3. dpRun' \in RunType /\ dpRun'.step = "none"
  BY DEF rollbackToLastGood, RunType, NoDeploy
<1>4. DpTypeOK'
  BY <1>1, <1>2, <1>3 DEF rollbackToLastGood, upload, dpWorld, DpInv, DpTypeOK
<1>5. CodeNeverAheadOfSchema'
  BY <1>1, <1>2 DEF rollbackToLastGood, upload, DpInv, CodeNeverAheadOfSchema
<1> QED
  BY <1>3, <1>4, <1>5 DEF rollbackToLastGood, DpInv, MigratedFirst, TagIsMigrated, CloneIsCurrent,
     PollIsEvidence

(* The tag moves to the commit of the run, which is migrated.              *)
LEMMA AdvanceKeepsInv ==
  ASSUME DpInv, advanceLastGoodTag
  PROVE  DpInv'
<1>1. dpRun \in PollRun /\ dpRun.step = "advance"
  BY DEF advanceLastGoodTag, DpInv, DpTypeOK, RunType, PollRun, NoDeploy
<1>2. dpTag' \in {dpTag, dpRun.sha} /\ dpRun.sha \in DpCommit /\ 1..dpRun.sha \subseteq dpSchema
  BY <1>1 DEF advanceLastGoodTag, PollRun, DpInv, MigratedFirst
<1>3. dpRun' \in RunType /\ dpRun'.step = "none"
  BY DEF advanceLastGoodTag, RunType, NoDeploy
<1>4. DpTypeOK'
  BY <1>2, <1>3 DEF advanceLastGoodTag, dpWorld, DpInv, DpTypeOK, MaybeCommit
<1>5. TagIsMigrated'
  BY <1>2 DEF advanceLastGoodTag, DpInv, TagIsMigrated
<1> QED
  BY <1>3, <1>4, <1>5 DEF advanceLastGoodTag, DpInv, CodeNeverAheadOfSchema, MigratedFirst, CloneIsCurrent,
     PollIsEvidence

(* Every step of the workflow and of the world keeps the invariant.        *)
LEMMA DpInductive == DpInv /\ [DpNext]_dpVars => DpInv'
<1> SUFFICES ASSUME DpInv, [DpNext]_dpVars PROVE DpInv'
  OBVIOUS
<1>1. CASE UNCHANGED dpVars
  BY <1>1 DEF dpVars, DpInv, DpTypeOK, CodeNeverAheadOfSchema, MigratedFirst, TagIsMigrated, CloneIsCurrent,
     PollIsEvidence, RunType, PollRun
<1> QED
  BY <1>1, WorldKeepsInv, FinishBuildKeepsInv, MigrateKeepsInv, DeployKeepsInv, PollKeepsInv, RollbackKeepsInv,
     AdvanceKeepsInv DEF DpNext

(* No revision answers, or is on its way, whose migrations the database    *)
(* lacks, for any number of commits and retries: a run uploads only what   *)
(* it migrated, and rolls back only to a tag that was migrated before      *)
(* (migrateWithRetry, rollbackToLastGood, the order of the jobs).          *)
THEOREM DeployedIsMigrated == DpSpec => []CodeNeverAheadOfSchema
<1>1. DpInv => CodeNeverAheadOfSchema
  BY DEF DpInv
<1> QED
  BY <1>1, DpInitial, DpInductive, PTL DEF DpSpec

(* The last-good tag only moves to a descendant of where it was, and only  *)
(* to a commit that a poll saw answering, or saw a descendant of, with a   *)
(* reachable database (advanceLastGoodTag, pollHealth).                    *)
THEOREM TagOnlyAdvances == DpSpec => LastGoodOnlyAdvances
<1> DEFINE Moves == dpTag' # dpTag =>
                      /\ dpTag = NoCommit \/ dpTag < dpTag'
                      /\ \E d \in dpSeen : dpTag' <= d
<1>1. DpInv /\ [DpNext]_dpVars => [Moves]_dpVars
  <2> SUFFICES ASSUME DpInv, DpNext, dpTag' # dpTag PROVE Moves
    OBVIOUS
  <2>1. advanceLastGoodTag
    BY DEF DpNext, push, workflowDispatch, migrateElsewhere, finishBuild, startRun, endRun, migrateDatabase,
       deployToCapRover, checkout, pollHealth, rollbackToLastGood
  <2>2. dpRun \in PollRun /\ dpRun.step = "advance" /\ dpRun.tag = dpTag
    BY <2>1 DEF advanceLastGoodTag, DpInv, DpTypeOK, RunType, PollRun, NoDeploy, CloneIsCurrent
  <2>3. dpTag' = dpRun.sha /\ isForwardProgress(dpTag, dpRun.sha)
    BY <2>1, <2>2 DEF advanceLastGoodTag
  <2>4. dpRun.sha \in DpCommit /\ dpTag \in MaybeCommit
    BY <2>2 DEF PollRun, DpInv, DpTypeOK
  <2>5. dpTag = NoCommit \/ dpTag < dpTag'
    BY <2>3, <2>4 DEF isForwardProgress, MaybeCommit, DpCommit
  <2>6. \E d \in dpSeen : dpTag' <= d
    BY <2>2, <2>3 DEF DpInv, PollIsEvidence
  <2> QED
    BY <2>5, <2>6
<1> QED
  BY <1>1, DpInitial, DpInductive, PTL DEF DpSpec, LastGoodOnlyAdvances

-----------------------------------------------------------------------------
(***************************************************************************)
(* What the web client's store keeps true for any number of clients,       *)
(* vendors, users and files. The property rests on the page's copy being   *)
(* what the store holds for the client shown, which every mount, every     *)
(* change of client and every write must keep.                             *)
(***************************************************************************)

UserRow == [status : {"active", "disabled"}, vendor : StVendor \cup {NoScope}]
Upload == [file : StFile, scope : StClient]
StPage == AccountPage \cup EmployeePage \cup {"none"}

StoreTypes ==
    /\ DOMAIN stClients \subseteq StClient
    /\ DOMAIN stVendors = StClient /\ DOMAIN stUsers = StClient
    /\ DOMAIN stMembers = StClient /\ DOMAIN stFiles = StClient
    /\ \A c \in StClient : DOMAIN stVendors[c] \subseteq StVendor
    /\ \A c \in StClient : \A u \in DOMAIN stUsers[c] : stUsers[c][u] \in UserRow
    /\ stOwn \subseteq StClient
    /\ stDrilled \in StClient \cup {NoScope}
    /\ stPage \in StPage
    /\ stRole = "none" => stPage = "none"
    /\ stPage \in EmployeePage => stRole # "account"
    /\ stCrossed \in BOOLEAN

CopiesInSync ==
    /\ (stPage # "files" \/ ~stCrossed) => stRows = StoredRows(stPage, Active)
    /\ stOptions = VendorsOf(stPage, Active)

UploadsBelongHere ==
    /\ stUploads # {} => stPage = "files"
    /\ ~stCrossed => \A u \in stUploads : u.scope = Active

FilesAreDroppedOnce ==
    /\ stUploads \subseteq Upload /\ stKept \subseteq Upload
    /\ \A u, v \in stUploads : u.file = v.file => u = v
    /\ \A k, l \in stKept : k.file = l.file => k = l
    /\ \A u \in stUploads, k \in stKept : u.file # k.file

StoreInvariant ==
    /\ StoreTypes /\ CopiesInSync /\ UploadsBelongHere /\ FilesAreDroppedOnce
    /\ RowsStayWithTheirClient

-----------------------------------------------------------------------------
(* First picks a member of a nonempty set of clients.                      *)
LEMMA FirstIsAMember ==
    ASSUME NEW S, S \subseteq StClient, S # {}
    PROVE  First(S) \in S
<1>0. S \subseteq Nat
  BY DEF StClient
<1>1. \E x \in S : \A y \in S : ~(<<y, x>> \in OpToRel(<, Nat))
  BY <1>0, NatLessThanWellFounded, WFMin
<1>2. \A x, y \in S : <<y, x>> \in OpToRel(<, Nat) <=> y < x
  BY <1>0 DEF OpToRel
<1>3. \E x \in S : \A y \in S : ~(y < x)
  BY <1>1, <1>2, Zenon
<1>4. \E x \in S : \A y \in S : x <= y
  BY <1>0, <1>3
<1> QED BY <1>4 DEF First

(* activeGrandClient is a client or null.                                  *)
LEMMA ActiveIsAClient ==
    ASSUME NEW role, NEW own, own \subseteq StClient, NEW picked,
           NEW drilled \in StClient \cup {NoScope}
    PROVE  activeGrandClient(role, own, picked, drilled) \in StClient \cup {NoScope}
<1>1. CASE own = {}
  BY <1>1 DEF activeGrandClient, First
<1>2. CASE own # {}
  BY <1>2, FirstIsAMember DEF activeGrandClient
<1> QED BY <1>1, <1>2

(* null is no client.                                                      *)
LEMMA NullIsNoClient == NoScope \notin StClient
BY ScopedStoreAssumption DEF StClient

(* What each page finds in the store.                                      *)
LEMMA StoredRowsByPage ==
    /\ \A c : StoredRows("clients", c) = stClients /\ StoredRows("accountClients", c) = stClients
    /\ \A c : StoredRows("none", c) = NoRows /\ StoredRows("rulesRates", c) = NoRows
    /\ \A c \in StClient : /\ StoredRows("vendors", c) = stVendors[c]
                           /\ StoredRows("vendorUsers", c) = stUsers[c]
                           /\ StoredRows("clientUsers", c) = stMembers[c]
                           /\ StoredRows("files", c) = stFiles[c]
    /\ \A page : page \notin {"clients", "accountClients"} => StoredRows(page, NoScope) = NoRows
BY NullIsNoClient DEF StoredRows

(* No page finds a row where there is none.                                *)
LEMMA NoRowsIsEmpty == DOMAIN NoRows = {}
BY DEF NoRows

(* The invariant holds when the browser page is loaded.                    *)
LEMMA StoreInitial == StInit => StoreInvariant
<1> SUFFICES ASSUME StInit PROVE StoreInvariant
  OBVIOUS
<1>1. StoreTypes
  BY NoRowsIsEmpty DEF StInit, StoreTypes, StPage, EmployeePage
<1>2. CopiesInSync
  BY StoredRowsByPage DEF StInit, CopiesInSync, VendorsOf
<1>3. UploadsBelongHere /\ FilesAreDroppedOnce
  BY DEF StInit, UploadsBelongHere, FilesAreDroppedOnce
<1>4. RowsStayWithTheirClient
  BY NoRowsIsEmpty DEF StInit, RowsStayWithTheirClient
<1> QED BY <1>1, <1>2, <1>3, <1>4 DEF StoreInvariant

-----------------------------------------------------------------------------
(* A write of a page's next copy through to the store keeps the rest in    *)
(* step: the page's copy stays what the store holds for its client.        *)
LEMMA PersistKeeps ==
    ASSUME StoreInvariant, NEW next, persist(next), edited,
           stPage \in {"clients", "accountClients", "vendors", "vendorUsers", "clientUsers"},
           stPage \in {"clients", "accountClients"} => DOMAIN next \subseteq StClient,
           stPage \in {"vendors", "vendorUsers", "clientUsers"} => Active \in StClient,
           stPage = "vendors" => DOMAIN stRows \subseteq DOMAIN next /\ DOMAIN next \subseteq StVendor,
           stPage = "vendorUsers" =>
                \A u \in DOMAIN next : next[u] \in UserRow /\ next[u].vendor \in stOptions
    PROVE  StoreInvariant'
<1>0. /\ StoreTypes /\ CopiesInSync /\ UploadsBelongHere /\ FilesAreDroppedOnce
      /\ RowsStayWithTheirClient
  BY DEF StoreInvariant
<1>1. /\ UNCHANGED <<stFiles, stRole, stOwn, stPicked, stDrilled, stPage, stOptions, stUploads,
                     stCrossed, stKept>>
      /\ stRows' = next
  BY DEF edited, persist
<1>2. Active' = Active
  BY <1>1 DEF Active
<1>3. UploadsBelongHere' /\ FilesAreDroppedOnce'
  BY <1>0, <1>1, <1>2 DEF UploadsBelongHere, FilesAreDroppedOnce
<1>4. \A c \in StClient : DOMAIN stFiles'[c] = DOMAIN stFiles[c]
  BY <1>1
<1>5. CASE stPage \in {"clients", "accountClients"}
  <2>1. stClients' = next /\ UNCHANGED <<stVendors, stUsers, stMembers>>
    BY <1>5 DEF persist
  <2>2. StoreTypes'
    BY <1>0, <1>1, <1>5, <2>1 DEF StoreTypes
  <2>3. CopiesInSync'
    BY <1>0, <1>1, <1>5, <2>1 DEF CopiesInSync, StoredRows, VendorsOf
  <2>4. RowsStayWithTheirClient'
    BY <1>0, <1>1, <2>1 DEF RowsStayWithTheirClient
  <2> QED BY <1>3, <2>2, <2>3, <2>4 DEF StoreInvariant
<1>6. CASE stPage = "vendors"
  <2>1. /\ stVendors' = [stVendors EXCEPT ![Active] = next]
        /\ UNCHANGED <<stClients, stUsers, stMembers>>
    BY <1>6 DEF persist
  <2>2. /\ DOMAIN stVendors' = StClient /\ stVendors'[Active] = next
        /\ \A c \in StClient : c # Active => stVendors'[c] = stVendors[c]
    BY <1>0, <1>6, <2>1 DEF StoreTypes
  <2>3. StoreTypes'
    BY <1>0, <1>1, <1>6, <2>1, <2>2 DEF StoreTypes
  <2>4. stRows = stVendors[Active]
    BY <1>0, <1>6, StoredRowsByPage DEF CopiesInSync
  <2>5. CopiesInSync'
    BY <1>0, <1>1, <1>2, <1>6, <2>2, NullIsNoClient DEF CopiesInSync, StoredRows, VendorsOf
  <2>6. \A c \in StClient : DOMAIN stVendors[c] \subseteq DOMAIN stVendors'[c]
    BY <1>6, <2>2, <2>4
  <2>7. RowsStayWithTheirClient'
    BY <1>0, <1>1, <2>1, <2>6 DEF RowsStayWithTheirClient
  <2> QED BY <1>3, <2>3, <2>5, <2>7 DEF StoreInvariant
<1>7. CASE stPage = "vendorUsers"
  <2>1. /\ stUsers' = [stUsers EXCEPT ![Active] = next]
        /\ UNCHANGED <<stClients, stVendors, stMembers>>
    BY <1>7 DEF persist
  <2>2. /\ DOMAIN stUsers' = StClient /\ stUsers'[Active] = next
        /\ \A c \in StClient : c # Active => stUsers'[c] = stUsers[c]
    BY <1>0, <1>7, <2>1 DEF StoreTypes
  <2>3. StoreTypes'
    BY <1>0, <1>1, <1>7, <2>1, <2>2 DEF StoreTypes
  <2>4. stOptions = DOMAIN stVendors[Active]
    BY <1>0, <1>7, NullIsNoClient DEF CopiesInSync, VendorsOf
  <2>5. CopiesInSync'
    BY <1>0, <1>1, <1>2, <1>7, <2>1, <2>2, NullIsNoClient DEF CopiesInSync, StoredRows, VendorsOf
  <2>6. RowsStayWithTheirClient'
    BY <1>0, <1>1, <1>7, <2>1, <2>2, <2>4 DEF RowsStayWithTheirClient
  <2> QED BY <1>3, <2>3, <2>5, <2>6 DEF StoreInvariant
<1>8. CASE stPage = "clientUsers"
  <2>1. /\ stMembers' = [stMembers EXCEPT ![Active] = next]
        /\ UNCHANGED <<stClients, stVendors, stUsers>>
    BY <1>8 DEF persist
  <2>2. DOMAIN stMembers' = StClient /\ stMembers'[Active] = next
    BY <1>0, <1>8, <2>1 DEF StoreTypes
  <2>3. StoreTypes'
    BY <1>0, <1>1, <1>8, <2>1, <2>2 DEF StoreTypes
  <2>4. CopiesInSync'
    BY <1>0, <1>1, <1>2, <1>8, <2>1, <2>2, NullIsNoClient DEF CopiesInSync, StoredRows, VendorsOf
  <2>5. RowsStayWithTheirClient'
    BY <1>0, <1>1, <2>1 DEF RowsStayWithTheirClient
  <2> QED BY <1>3, <2>3, <2>4, <2>5 DEF StoreInvariant
<1> QED BY <1>5, <1>6, <1>7, <1>8

(* A page that is mounted, and a page whose client changes, reads what the *)
(* store holds for the client it now shows.                                *)
LEMMA ViewKeeps ==
    ASSUME StoreInvariant, UNCHANGED <<storeVars, stKept>>,
           stOwn' \subseteq StClient, stDrilled' \in StClient \cup {NoScope}, stPage' \in StPage,
           stRole' = "none" => stPage' = "none", stPage' \in EmployeePage => stRole' # "account",
           stCrossed' \in BOOLEAN, stCrossed => stCrossed',
           (stPage' # "files" \/ ~stCrossed') => stRows' = StoredRows(stPage', Active'),
           stOptions' = VendorsOf(stPage', Active'),
           stUploads' \subseteq stUploads,
           stUploads' # {} => stPage' = "files",
           ~stCrossed' => \A u \in stUploads' : u.scope = Active'
    PROVE  StoreInvariant'
<1>1. UNCHANGED <<stClients, stVendors, stUsers, stMembers, stFiles>>
  BY DEF storeVars
<1>2. StoreTypes'
  BY <1>1 DEF StoreInvariant, StoreTypes
<1>3. CopiesInSync'
  BY <1>1 DEF CopiesInSync, StoredRows, VendorsOf
<1>4. UploadsBelongHere' /\ FilesAreDroppedOnce'
  BY DEF StoreInvariant, UploadsBelongHere, FilesAreDroppedOnce
<1>5. RowsStayWithTheirClient'
  BY <1>1 DEF StoreInvariant, RowsStayWithTheirClient
<1> QED BY <1>2, <1>3, <1>4, <1>5 DEF StoreInvariant

(* Navigation, sign-in and sign-out, and the choice of a client.           *)
LEMMA ViewSteps ==
    ASSUME StoreInvariant,
           openPage \/ signIn \/ signOut \/ setActiveGrandClient \/ goToVendors
    PROVE  StoreInvariant'
<1>0. StoreTypes /\ CopiesInSync /\ UploadsBelongHere
  BY DEF StoreInvariant
<1>1. CASE openPage
  <2>1. PICK page \in (IF stRole = "account" THEN AccountPage ELSE EmployeePage) : mount(page, Active)
    BY <1>1 DEF openPage
  <2>2. /\ UNCHANGED <<storeVars, stRole, stOwn, stPicked, stDrilled, stCrossed, stKept>>
        /\ stRole # "none"
    BY <1>1 DEF openPage
  <2>3. Active' = Active
    BY <2>2 DEF Active
  <2>4. page \in StPage /\ (page \in EmployeePage => stRole # "account")
    BY <2>1 DEF StPage, EmployeePage, AccountPage
  <2> QED BY <1>0, <2>1, <2>2, <2>3, <2>4, ViewKeeps DEF mount, StoreTypes
<1>2. CASE signIn
  <2>1. /\ UNCHANGED <<storeVars, stPicked, stDrilled, stPage, stRows, stOptions, stUploads, stCrossed,
                       stKept>>
        /\ stRole = "none" /\ stRole' # "none" /\ stOwn' \subseteq DOMAIN stClients
    BY <1>2 DEF signIn
  <2>2. stPage = "none" /\ stUploads = {} /\ stRows = NoRows /\ stOptions = {}
    BY <1>0, <2>1, StoredRowsByPage DEF StoreTypes, CopiesInSync, UploadsBelongHere, VendorsOf
  <2>3. stRows' = StoredRows(stPage', Active') /\ stOptions' = VendorsOf(stPage', Active')
    BY <2>1, <2>2, StoredRowsByPage DEF VendorsOf
  <2> QED BY <1>0, <2>1, <2>2, <2>3, ViewKeeps DEF StoreTypes, EmployeePage
<1>3. CASE signOut
  <2>1. /\ UNCHANGED <<storeVars, stPicked, stDrilled, stCrossed, stKept>>
        /\ stRole' = "none" /\ stOwn' = {} /\ mount("none", NoScope)
    BY <1>3 DEF signOut
  <2>2. stRows' = StoredRows(stPage', Active') /\ stOptions' = VendorsOf(stPage', Active')
    BY <2>1, StoredRowsByPage DEF mount, VendorsOf
  <2>3. stPage' = "none" /\ stUploads' = {} /\ "none" \in StPage /\ "none" \notin EmployeePage
    BY <2>1 DEF mount, StPage, EmployeePage
  <2> QED BY <1>0, <2>1, <2>2, <2>3, ViewKeeps DEF StoreTypes
<1>4. CASE setActiveGrandClient
  <2>1. UNCHANGED <<storeVars, stRole, stOwn, stDrilled, stPage, stUploads, stKept>>
    BY <1>4 DEF setActiveGrandClient
  <2>2. /\ Active' = Active => UNCHANGED <<stRows, stOptions, stCrossed>>
        /\ Active' # Active => /\ useScoped(stPage, Active')
                               /\ stCrossed' = (stCrossed \/ stUploads # {})
    BY <1>4, <2>1 DEF setActiveGrandClient, Active
  <2>3. CASE Active' = Active
    BY <1>0, <2>1, <2>2, <2>3, ViewKeeps DEF StoreTypes, CopiesInSync, UploadsBelongHere
  <2>4. CASE Active' # Active
    <3>1. stRows' = StoredRows(stPage', Active') /\ stOptions' = VendorsOf(stPage', Active')
      BY <2>1, <2>2, <2>4 DEF useScoped
    <3>2. stCrossed' \in BOOLEAN /\ (stCrossed => stCrossed') /\ (~stCrossed' => stUploads = {})
      BY <2>2, <2>4
    <3> QED BY <1>0, <2>1, <3>1, <3>2, ViewKeeps DEF StoreTypes, UploadsBelongHere
  <2> QED BY <2>3, <2>4
<1>5. CASE goToVendors
  <2>1. PICK c \in DOMAIN stRows : stDrilled' = c /\ mount("vendors", c)
    BY <1>5 DEF goToVendors
  <2>2. /\ UNCHANGED <<storeVars, stRole, stOwn, stPicked, stCrossed, stKept>>
        /\ stPage = "accountClients"
    BY <1>5 DEF goToVendors
  <2>3. stRows = stClients
    BY <1>0, <2>2, StoredRowsByPage DEF CopiesInSync
  <2>4. c \in StClient
    BY <1>0, <2>3 DEF StoreTypes
  <2>5. stRole # "account" /\ stRole # "none"
    BY <1>0, <2>2 DEF StoreTypes, EmployeePage
  <2>6. Active' = c
    BY <2>1, <2>2, <2>5 DEF Active, activeGrandClient
  <2>7. stRows' = StoredRows(stPage', Active') /\ stOptions' = VendorsOf(stPage', Active')
    BY <2>1, <2>6 DEF mount
  <2>8. stPage' = "vendors" /\ stUploads' = {} /\ "vendors" \in StPage
    BY <2>1 DEF mount, StPage, EmployeePage
  <2> QED BY <1>0, <2>1, <2>2, <2>4, <2>5, <2>7, <2>8, ViewKeeps DEF StoreTypes
<1> QED BY <1>1, <1>2, <1>3, <1>4, <1>5

(* The edits of clients, vendors and users.                                *)
LEMMA EditSteps ==
    ASSUME StoreInvariant,
           addClient \/ addVendor \/ inviteUser \/ updateUser \/ toggleStatus \/ toggleUserStatus
           \/ removeUser
    PROVE  StoreInvariant'
<1>0. StoreTypes /\ CopiesInSync /\ RowsStayWithTheirClient
  BY DEF StoreInvariant
<1>1. Active \in StClient \cup {NoScope}
  BY <1>0, ActiveIsAClient DEF Active, StoreTypes
<1>2. edited
  BY DEF addClient, addVendor, inviteUser, updateUser, toggleStatus, toggleUserStatus, removeUser, edit
<1>3. stPage # "files" => stRows = StoredRows(stPage, Active)
  BY <1>0 DEF CopiesInSync
<1>4. stPage \in {"clients", "accountClients"} => DOMAIN stRows \subseteq StClient
  BY <1>0, <1>3, StoredRowsByPage DEF StoreTypes
<1>5. stPage = "vendors" =>
        /\ Active = NoScope => DOMAIN stRows = {}
        /\ DOMAIN stRows \subseteq StVendor
  BY <1>0, <1>1, <1>3, StoredRowsByPage, NoRowsIsEmpty DEF StoreTypes
<1>6. stPage = "vendorUsers" /\ Active # NoScope =>
        \A u \in DOMAIN stRows : stRows[u] \in UserRow /\ stRows[u].vendor \in stOptions
  <2> SUFFICES ASSUME stPage = "vendorUsers", Active # NoScope, NEW u \in DOMAIN stRows
               PROVE  stRows[u] \in UserRow /\ stRows[u].vendor \in stOptions
    OBVIOUS
  <2>1. Active \in StClient /\ stRows = stUsers[Active]
    BY <1>1, <1>3, StoredRowsByPage
  <2>2. stOptions = DOMAIN stVendors[Active]
    BY <1>0 DEF CopiesInSync, VendorsOf
  <2> QED BY <1>0, <2>1, <2>2 DEF StoreTypes, RowsStayWithTheirClient
<1>7. stOptions \subseteq StVendor
  BY <1>0, <1>1 DEF CopiesInSync, VendorsOf, StoreTypes
<1>8. CASE addClient
  <2>1. PICK c \in StClient : persist(Add(stRows, c, "active"))
    BY <1>8 DEF addClient
  <2>2. PICK next : next = Add(stRows, c, "active") /\ persist(next)
    BY <2>1
  <2>3. stPage \in {"clients", "accountClients"} /\ DOMAIN next \subseteq StClient
    BY <1>4, <1>8, <2>2 DEF addClient, Add
  <2> QED BY <1>2, <2>2, <2>3, PersistKeeps
<1>9. CASE addVendor
  <2>1. PICK v \in StVendor : persist(Add(stRows, v, "active"))
    BY <1>9 DEF addVendor
  <2>2. PICK next : next = Add(stRows, v, "active") /\ persist(next)
    BY <2>1
  <2>3. /\ stPage = "vendors" /\ Active \in StClient
        /\ DOMAIN stRows \subseteq DOMAIN next /\ DOMAIN next \subseteq StVendor
    BY <1>1, <1>5, <1>9, <2>2 DEF addVendor, Add
  <2> QED BY <1>2, <2>2, <2>3, PersistKeeps
<1>10. CASE inviteUser
  <2>1. Active \in StClient /\ Active # NoScope
    BY <1>1, <1>10 DEF inviteUser
  <2>2. PICK u \in StUser :
          \/ /\ stPage = "vendorUsers"
             /\ \E v \in stOptions : persist(Add(stRows, u, [status |-> "active", vendor |-> v]))
          \/ /\ stPage = "clientUsers"
             /\ persist(Add(stRows, u, [status |-> "active", vendor |-> NoScope]))
    BY <1>10 DEF inviteUser
  <2>3. CASE stPage = "vendorUsers"
    <3>1. PICK v \in stOptions : persist(Add(stRows, u, [status |-> "active", vendor |-> v]))
      BY <2>2, <2>3
    <3>2. PICK x : x = [status |-> "active", vendor |-> v]
      OBVIOUS
    <3>3. x \in UserRow /\ x.vendor \in stOptions
      BY <1>7, <3>2 DEF UserRow
    <3>4. PICK next : next = Add(stRows, u, x) /\ persist(next)
      BY <3>1, <3>2
    <3>5. \A w \in DOMAIN next : next[w] \in UserRow /\ next[w].vendor \in stOptions
      BY <1>6, <2>1, <2>3, <3>3, <3>4 DEF Add
    <3> QED BY <1>2, <2>1, <2>3, <3>4, <3>5, PersistKeeps
  <2>4. CASE stPage = "clientUsers"
    <3>1. PICK next : persist(next)
      BY <2>2, <2>4
    <3> QED BY <1>2, <2>1, <2>4, <3>1, PersistKeeps
  <2> QED BY <2>2, <2>3, <2>4
<1>11. CASE updateUser
  <2>1. Active \in StClient /\ Active # NoScope /\ stPage = "vendorUsers"
    BY <1>1, <1>11 DEF updateUser
  <2>2. PICK u \in DOMAIN stRows, v \in stOptions : persist([stRows EXCEPT ![u].vendor = v])
    BY <1>11 DEF updateUser
  <2>3. PICK x : x = [stRows[u] EXCEPT !.vendor = v]
    OBVIOUS
  <2>4. x \in UserRow /\ x.vendor \in stOptions
    <3>1. stRows[u] \in UserRow
      BY <1>6, <2>1
    <3>2. v \in StVendor
      BY <1>7
    <3> QED BY <2>3, <3>1, <3>2 DEF UserRow
  <2>5. PICK next : next = [stRows EXCEPT ![u] = x] /\ persist(next)
    BY <2>2, <2>3
  <2>6. \A w \in DOMAIN next : next[w] \in UserRow /\ next[w].vendor \in stOptions
    BY <1>6, <2>1, <2>4, <2>5
  <2> QED BY <1>2, <2>1, <2>5, <2>6, PersistKeeps
<1>12. CASE toggleStatus
  <2>1. PICK i \in DOMAIN stRows : persist([stRows EXCEPT ![i] = Toggled(@)])
    BY <1>12 DEF toggleStatus
  <2>2. PICK next : next = [stRows EXCEPT ![i] = Toggled(@)] /\ persist(next)
    BY <2>1
  <2>3. DOMAIN next = DOMAIN stRows
    BY <2>2
  <2>4. stPage \in {"clients", "accountClients", "vendors"}
    BY <1>12 DEF toggleStatus
  <2>5. stPage = "vendors" => Active \in StClient
    BY <1>1, <1>5
  <2> QED BY <1>2, <1>4, <1>5, <2>2, <2>3, <2>4, <2>5, PersistKeeps
<1>13. CASE toggleUserStatus
  <2>1. Active \in StClient /\ Active # NoScope /\ stPage \in {"vendorUsers", "clientUsers"}
    BY <1>1, <1>13 DEF toggleUserStatus
  <2>2. PICK u \in DOMAIN stRows : persist([stRows EXCEPT ![u].status = Toggled(@)])
    BY <1>13 DEF toggleUserStatus
  <2>3. PICK s \in {"active", "disabled"} : s = Toggled(stRows[u].status)
    BY DEF Toggled
  <2>4. PICK x : x = [stRows[u] EXCEPT !.status = s]
    OBVIOUS
  <2>5. PICK next : next = [stRows EXCEPT ![u] = x] /\ persist(next)
    BY <2>2, <2>3, <2>4
  <2>6. stPage = "vendorUsers" =>
          \A w \in DOMAIN next : next[w] \in UserRow /\ next[w].vendor \in stOptions
    <3> SUFFICES ASSUME stPage = "vendorUsers", NEW w \in DOMAIN next
                 PROVE  next[w] \in UserRow /\ next[w].vendor \in stOptions
      OBVIOUS
    <3>1. stRows[u] \in UserRow /\ stRows[u].vendor \in stOptions
      BY <1>6, <2>1
    <3>2. x \in UserRow /\ x.vendor \in stOptions
      BY <2>4, <3>1 DEF UserRow
    <3> QED BY <1>6, <2>1, <2>5, <3>2
  <2> QED BY <1>2, <2>1, <2>5, <2>6, PersistKeeps
<1>14. CASE removeUser
  <2>1. Active \in StClient /\ Active # NoScope /\ stPage \in {"vendorUsers", "clientUsers"}
    BY <1>1, <1>14 DEF removeUser
  <2>2. PICK u \in DOMAIN stRows : persist(Drop(stRows, u))
    BY <1>14 DEF removeUser
  <2>3. PICK next : next = Drop(stRows, u) /\ persist(next)
    BY <2>2
  <2>4. stPage = "vendorUsers" =>
          \A w \in DOMAIN next : next[w] \in UserRow /\ next[w].vendor \in stOptions
    BY <1>6, <2>1, <2>3 DEF Drop
  <2> QED BY <1>2, <2>1, <2>3, <2>4, PersistKeeps
<1> QED BY <1>8, <1>9, <1>10, <1>11, <1>12, <1>13, <1>14

(* A file dropped is a file not seen before, for the client shown.         *)
LEMMA DropStep == ASSUME StoreInvariant, handleFiles PROVE StoreInvariant'
<1>0. /\ StoreTypes /\ CopiesInSync /\ UploadsBelongHere /\ FilesAreDroppedOnce
      /\ RowsStayWithTheirClient
  BY DEF StoreInvariant
<1>1. PICK f \in StFile : /\ \A u \in stUploads : u.file # f
                          /\ \A k \in stKept : k.file # f
                          /\ stUploads' = stUploads \cup {[file |-> f, scope |-> Active]}
  BY DEF handleFiles
<1>2. /\ UNCHANGED <<stClients, stVendors, stUsers, stMembers, stFiles, stRole, stOwn, stPicked,
                     stDrilled, stPage, stRows, stOptions, stCrossed, stKept>>
      /\ stPage = "files" /\ Active # NoScope
  BY DEF handleFiles, storeVars
<1>3. Active' = Active /\ Active \in StClient
  BY <1>0, <1>2, ActiveIsAClient DEF Active, StoreTypes
<1>4. PICK x : x = [file |-> f, scope |-> Active]
  OBVIOUS
<1>5. x \in Upload /\ x.file = f /\ x.scope = Active /\ stUploads' = stUploads \cup {x}
  BY <1>1, <1>3, <1>4 DEF Upload
<1>6. StoreTypes' /\ CopiesInSync'
  BY <1>0, <1>2, <1>3 DEF StoreTypes, CopiesInSync, StoredRows, VendorsOf
<1>7. UploadsBelongHere'
  BY <1>0, <1>2, <1>3, <1>5 DEF UploadsBelongHere
<1>8. FilesAreDroppedOnce'
  BY <1>0, <1>1, <1>2, <1>5 DEF FilesAreDroppedOnce
<1>9. RowsStayWithTheirClient'
  BY <1>0, <1>2 DEF RowsStayWithTheirClient
<1> QED BY <1>6, <1>7, <1>8, <1>9 DEF StoreInvariant

(* An upload that ends writes the rows that are shown under the client of  *)
(* the drop: the same client, unless the client was changed meanwhile.     *)
LEMMA UploadStep == ASSUME StoreInvariant, finishUpload PROVE StoreInvariant'
<1>0. /\ StoreTypes /\ CopiesInSync /\ UploadsBelongHere /\ FilesAreDroppedOnce
      /\ RowsStayWithTheirClient
  BY DEF StoreInvariant
<1>1. PICK u \in stUploads :
         /\ stUploads' = stUploads \ {u}
         /\ stRows' = submit(u)
         /\ stFiles' = [stFiles EXCEPT ![u.scope] = submit(u)]
         /\ stKept' = stKept \cup {[file |-> u.file, scope |-> u.scope]}
  BY DEF finishUpload
<1>2. /\ UNCHANGED <<stClients, stVendors, stUsers, stMembers, stRole, stOwn, stPicked,
                     stDrilled, stPage, stOptions, stCrossed>>
      /\ stPage = "files"
  BY DEF finishUpload
<1>3. Active' = Active
  BY <1>2 DEF Active
<1>4. u \in Upload /\ u.file \in StFile /\ u.scope \in StClient
  BY <1>0 DEF FilesAreDroppedOnce, Upload
<1>5. stKept' = stKept \cup {u}
  BY <1>1, <1>4 DEF Upload
<1>6. PICK next : next = submit(u) /\ DOMAIN next = DOMAIN stRows \cup {u.file}
  <2>1. DOMAIN submit(u) = DOMAIN stRows \cup {u.file}
    BY DEF submit, Add
  <2> QED BY <2>1
<1>7. /\ DOMAIN stFiles' = StClient /\ stFiles'[u.scope] = next
      /\ \A c \in StClient : c # u.scope => stFiles'[c] = stFiles[c]
  BY <1>0, <1>1, <1>4, <1>6 DEF StoreTypes
<1>8. StoreTypes'
  BY <1>0, <1>2, <1>7 DEF StoreTypes
<1>9. ~stCrossed => u.scope = Active /\ stRows = stFiles[Active]
  BY <1>0, <1>2, <1>4, StoredRowsByPage DEF UploadsBelongHere, CopiesInSync
<1>10. CopiesInSync'
  BY <1>0, <1>1, <1>2, <1>3, <1>4, <1>6, <1>7, <1>9, NullIsNoClient
     DEF CopiesInSync, StoredRows, VendorsOf
<1>11. UploadsBelongHere' /\ FilesAreDroppedOnce'
  BY <1>0, <1>1, <1>2, <1>3, <1>5 DEF UploadsBelongHere, FilesAreDroppedOnce
<1>12. ASSUME ~stCrossed, NEW c \in StClient
       PROVE  DOMAIN stFiles'[c] = {k.file : k \in {x \in stKept' : x.scope = c}}
  <2>1. DOMAIN stFiles[c] = {k.file : k \in {x \in stKept : x.scope = c}}
    BY <1>0, <1>12 DEF RowsStayWithTheirClient
  <2>2. CASE c = u.scope
    <3>1. DOMAIN stFiles'[c] = DOMAIN stFiles[c] \cup {u.file}
      BY <1>6, <1>7, <1>9, <1>12, <2>2
    <3>2. {x \in stKept' : x.scope = c} = {x \in stKept : x.scope = c} \cup {u}
      BY <1>5, <2>2
    <3> QED BY <2>1, <3>1, <3>2
  <2>3. CASE c # u.scope
    <3>1. {x \in stKept' : x.scope = c} = {x \in stKept : x.scope = c}
      BY <1>5, <2>3
    <3> QED BY <1>7, <2>1, <2>3, <3>1
  <2> QED BY <2>2, <2>3
<1>13. RowsStayWithTheirClient'
  BY <1>0, <1>2, <1>12 DEF RowsStayWithTheirClient
<1> QED BY <1>8, <1>10, <1>11, <1>13 DEF StoreInvariant

(* A file that is deleted was kept for the client that is shown.           *)
LEMMA DeleteStep == ASSUME StoreInvariant, removeFile PROVE StoreInvariant'
<1>0. /\ StoreTypes /\ CopiesInSync /\ UploadsBelongHere /\ FilesAreDroppedOnce
      /\ RowsStayWithTheirClient
  BY DEF StoreInvariant
<1>1. PICK f \in DOMAIN stRows :
         /\ stRows' = Drop(stRows, f)
         /\ stFiles' = [stFiles EXCEPT ![Active] = Drop(stRows, f)]
         /\ stKept' = {k \in stKept : k.file # f}
  BY DEF removeFile
<1>2. /\ UNCHANGED <<stClients, stVendors, stUsers, stMembers, stRole, stOwn, stPicked,
                     stDrilled, stPage, stOptions, stUploads, stCrossed>>
      /\ stPage = "files" /\ Active # NoScope
  BY DEF removeFile
<1>3. Active' = Active /\ Active \in StClient
  BY <1>0, <1>2, ActiveIsAClient DEF Active, StoreTypes
<1>4. PICK next : next = Drop(stRows, f) /\ DOMAIN next = DOMAIN stRows \ {f}
  <2>1. DOMAIN Drop(stRows, f) = DOMAIN stRows \ {f}
    BY DEF Drop
  <2> QED BY <2>1
<1>5. /\ DOMAIN stFiles' = StClient /\ stFiles'[Active] = next
      /\ \A c \in StClient : c # Active => stFiles'[c] = stFiles[c]
  BY <1>0, <1>1, <1>3, <1>4 DEF StoreTypes
<1>6. StoreTypes'
  BY <1>0, <1>2, <1>5 DEF StoreTypes
<1>7. CopiesInSync'
  BY <1>0, <1>1, <1>2, <1>3, <1>4, <1>5, NullIsNoClient DEF CopiesInSync, StoredRows, VendorsOf
<1>8. UploadsBelongHere' /\ FilesAreDroppedOnce'
  BY <1>0, <1>1, <1>2, <1>3 DEF UploadsBelongHere, FilesAreDroppedOnce
<1>9. ASSUME ~stCrossed, NEW c \in StClient
      PROVE  DOMAIN stFiles'[c] = {k.file : k \in {x \in stKept' : x.scope = c}}
  <2>1. \A d \in StClient : DOMAIN stFiles[d] = {k.file : k \in {x \in stKept : x.scope = d}}
    BY <1>0, <1>9 DEF RowsStayWithTheirClient
  <2>2. stRows = stFiles[Active]
    BY <1>0, <1>2, <1>3, <1>9, StoredRowsByPage DEF CopiesInSync
  <2>3. PICK k0 \in stKept : k0.file = f /\ k0.scope = Active
    BY <1>1, <1>3, <2>1, <2>2
  <2>4. \A k \in stKept : k.file = f => k = k0
    BY <1>0, <2>3 DEF FilesAreDroppedOnce
  <2>5. CASE c = Active
    <3>1. DOMAIN stFiles'[c] = DOMAIN stFiles[c] \ {f}
      BY <1>4, <1>5, <2>2, <2>5
    <3>2. \A x \in stKept' : x \in stKept /\ x.file # f
      BY <1>1
    <3>3. \A x \in stKept : x.file # f => x \in stKept'
      BY <1>1
    <3> QED BY <2>1, <3>1, <3>2, <3>3
  <2>6. CASE c # Active
    <3>1. {x \in stKept' : x.scope = c} = {x \in stKept : x.scope = c}
      BY <1>1, <2>3, <2>4, <2>6
    <3> QED BY <1>5, <2>1, <2>6, <3>1
  <2> QED BY <2>5, <2>6
<1>10. RowsStayWithTheirClient'
  BY <1>0, <1>2, <1>9 DEF RowsStayWithTheirClient
<1> QED BY <1>6, <1>7, <1>8, <1>10 DEF StoreInvariant

(* A reload leaves nothing to be out of step.                              *)
LEMMA ReloadStep == ASSUME StoreInvariant, reload PROVE StoreInvariant'
<1>0. StoreTypes
  BY DEF StoreInvariant
<1>1. /\ stClients' = NoRows
      /\ stVendors' = [c \in StClient |-> NoRows] /\ stUsers' = [c \in StClient |-> NoRows]
      /\ stMembers' = [c \in StClient |-> NoRows] /\ stFiles' = [c \in StClient |-> NoRows]
      /\ stOwn' = {} /\ stDrilled' = NoScope /\ stPicked' = NoScope
      /\ stRows' = NoRows /\ stOptions' = {} /\ stUploads' = {} /\ stKept' = {}
      /\ UNCHANGED <<stRole, stPage, stCrossed>>
  BY DEF reload
<1>2. StoreTypes'
  BY <1>0, <1>1, NoRowsIsEmpty DEF StoreTypes
<1>3. Active' = NoScope
  BY <1>1 DEF Active, activeGrandClient, First
<1>4. CopiesInSync'
  BY <1>1, <1>3 DEF CopiesInSync, StoredRows, VendorsOf
<1>5. UploadsBelongHere' /\ FilesAreDroppedOnce'
  BY <1>1 DEF UploadsBelongHere, FilesAreDroppedOnce
<1>6. RowsStayWithTheirClient'
  BY <1>1, NoRowsIsEmpty DEF RowsStayWithTheirClient
<1> QED BY <1>2, <1>4, <1>5, <1>6 DEF StoreInvariant

(* Rows stay with the client they were entered for, for any number of      *)
(* clients, vendors, users and files and any order of page changes: a      *)
(* vendor user names a vendor of the same client (useScopedUsers), and as  *)
(* long as nobody changed the client under a running upload a client's     *)
(* files are the ones uploaded for it (useScopedFiles).                    *)
THEOREM RowsKeepTheirClient == StSpec => []RowsStayWithTheirClient
<1>1. StInit => StoreInvariant
  BY StoreInitial
<1>2. StoreInvariant /\ [StNext]_stVars => StoreInvariant'
  <2> SUFFICES ASSUME StoreInvariant, [StNext]_stVars PROVE StoreInvariant'
    OBVIOUS
  <2>1. CASE StNext
    BY <2>1, ViewSteps, EditSteps, DropStep, UploadStep, DeleteStep, ReloadStep DEF StNext
  <2>2. CASE UNCHANGED stVars
    <3>1. /\ UNCHANGED <<storeVars, stKept>>
          /\ UNCHANGED <<stOwn, stDrilled, stPage, stRole, stPicked, stCrossed, stRows, stOptions, stUploads>>
      BY <2>2 DEF stVars
    <3>2. Active' = Active
      BY <3>1 DEF Active
    <3> QED BY <3>1, <3>2, ViewKeeps DEF StoreInvariant, StoreTypes, CopiesInSync, UploadsBelongHere
  <2> QED BY <2>1, <2>2
<1>3. StoreInvariant => RowsStayWithTheirClient
  BY DEF StoreInvariant
<1> QED BY <1>1, <1>2, <1>3, PTL DEF StSpec
=============================================================================
