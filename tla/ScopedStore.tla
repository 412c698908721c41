------------------------------ MODULE ScopedStore ------------------------------
(***************************************************************************)
(* The web client's in-memory store of clients, vendors, users and dropped *)
(* files, and the pages over it.  The store is one Map per kind, keyed by  *)
(* scope; it lives as long as the browser page.  Every component that uses *)
(* a scope keeps a copy of its rows in React state: read when it mounts    *)
(* and when its scope changes, written through when it edits, never told   *)
(* about the edits of another copy.  The tenant provider is mounted once   *)
(* for all pages; one page is mounted at a time.                           *)
(*                                                                         *)
(* One account is followed.  Its clients are numbered as they are created, *)
(* the order in which lists show them; names and contact data are left     *)
(* out.  A list of rows is a function from the ids in it to their content. *)
(***************************************************************************)
EXTENDS Integers, FiniteSets

CONSTANTS
    MaxClients,  \* bound on clients created
    StVendor,    \* vendor ids to create
    StUser,      \* user ids to create
    StFile,      \* files to drop
    MaxStEdits,  \* bound on edits, toggles and removals
    NoScope      \* scopeKey = null

ASSUME ScopedStoreAssumption ==
    /\ MaxClients \in Nat /\ MaxStEdits \in Nat
    /\ NoScope \notin Nat

StClient == 1..MaxClients
NoRows == [i \in {} |-> NoScope]

(* The pages of each role over the store.  Nothing ever fills the rules    *)
(* and rates that "rulesRates" shows.                                      *)
AccountPage == {"clients", "clientUsers", "vendorUsers", "files", "rulesRates"}
EmployeePage == {"accountClients", "vendors"}

VARIABLES
    stClients,   \* stores, the account's own scope: its clients
    stVendors,   \* stores, scope of each client: its vendors
    stUsers,     \* userStores: the vendor users of each client
    stMembers,   \* userStores: the client users of each client
    stFiles,     \* fileStores
    stRole,      \* role of the signed-in user
    stOwn,       \* the provider's copy of the account's clients
    stPicked,    \* active-grand-client in localStorage
    stDrilled,   \* employeeDrillDownGrandClient
    stPage,      \* the page that is mounted
    stRows,      \* the page's copy of the rows it edits
    stOptions,   \* VendorUsersPage: its copy of the client's vendors
    stUploads,   \* ClientFileDropPage: uploads whose timer is running
    stCrossed,   \* did the client change while an upload was running? (history only)
    stKept,      \* files uploaded and not deleted, for whom (history only)
    stEdits

storeVars == <<stClients, stVendors, stUsers, stMembers, stFiles>>
stVars == <<storeVars, stRole, stOwn, stPicked, stDrilled, stPage, stRows, stOptions,
            stUploads, stCrossed, stKept, stEdits>>

StInit ==
    /\ stClients = NoRows
    /\ stVendors = [c \in StClient |-> NoRows]
    /\ stUsers = [c \in StClient |-> NoRows]
    /\ stMembers = [c \in StClient |-> NoRows]
    /\ stFiles = [c \in StClient |-> NoRows]
    /\ stRole = "none"
    /\ stOwn = {}
    /\ stPicked = NoScope
    /\ stDrilled = NoScope
    /\ stPage = "none"
    /\ stRows = NoRows
    /\ stOptions = {}
    /\ stUploads = {}
    /\ stCrossed = FALSE
    /\ stKept = {}
    /\ stEdits = 0

-----------------------------------------------------------------------------
First(S) == IF S = {} THEN NoScope ELSE CHOOSE c \in S : \A d \in S : c <= d

(* activeGrandClient: for an account the picked one among the provider's   *)
(* copy, else the first; for an employee the one drilled into.             *)
activeGrandClient(role, own, picked, drilled) ==
    IF role # "account" THEN drilled
    ELSE IF picked \in own THEN picked ELSE First(own)

Active == activeGrandClient(stRole, stOwn, stPicked, stDrilled)

(* The rows a page finds in the store for client c.                        *)
StoredRows(page, c) ==
    IF page \in {"clients", "accountClients"} THEN stClients
    ELSE IF c = NoScope \/ page \in {"none", "rulesRates"} THEN NoRows
    ELSE [vendors |-> stVendors[c], vendorUsers |-> stUsers[c],
          clientUsers |-> stMembers[c], files |-> stFiles[c]][page]

VendorsOf(page, c) == IF page = "vendorUsers" /\ c # NoScope THEN DOMAIN stVendors[c] ELSE {}

(* Mutant: the effect that re-reads when the scope changes is missing.     *)
useScopedStale(page, c) == stRows' = stRows /\ stOptions' = VendorsOf(page, c)

(* useScopedEntities, useScopedUsers and useScopedFiles: the effect on     *)
(* [scopeKey] replaces the copy by what the new scope holds.               *)
useScoped(page, c) == stRows' = StoredRows(page, c) /\ stOptions' = VendorsOf(page, c)

(* Timers of a page that is gone still fire, but React drops the update of *)
(* a component that is not mounted: the file is lost.                      *)
mount(page, c) ==
    /\ stPage' = page
    /\ stRows' = StoredRows(page, c) /\ stOptions' = VendorsOf(page, c)
    /\ stUploads' = {}

openPage ==
    /\ \E page \in (IF stRole = "account" THEN AccountPage ELSE EmployeePage) \ {stPage} :
         mount(page, Active)
    /\ stRole # "none"
    /\ UNCHANGED <<storeVars, stRole, stOwn, stPicked, stDrilled, stCrossed, stKept, stEdits>>

(* TenantProvider's own scope is null unless the role is account: its copy *)
(* is read at sign-in and never again.                                     *)
signIn ==
    /\ stRole = "none"
    /\ \E r \in {"account", "employee"} :
         /\ stRole' = r
         /\ stOwn' = IF r = "account" THEN DOMAIN stClients ELSE {}
    /\ UNCHANGED <<storeVars, stPicked, stDrilled, stPage, stRows, stOptions, stUploads,
                   stCrossed, stKept, stEdits>>

signOut ==
    /\ stRole # "none"
    /\ stRole' = "none" /\ stOwn' = {}
    /\ mount("none", NoScope)
    /\ UNCHANGED <<storeVars, stPicked, stDrilled, stCrossed, stKept, stEdits>>

(* ClientSelector and TenantPicker: setActiveGrandClient.  The selector    *)
(* lists its own, fresh copy; a client the provider has not seen is        *)
(* remembered but does not become the active one.                          *)
setActiveGrandClient ==
    /\ stRole = "account" /\ stPage \in AccountPage \ {"clients"}
    /\ \E c \in DOMAIN stClients \cup {NoScope} :
         LET next == activeGrandClient(stRole, stOwn, c, stDrilled) IN
         /\ c # stPicked
         /\ stPicked' = c
         /\ IF next = Active THEN UNCHANGED <<stRows, stOptions, stCrossed>>
            ELSE /\ useScoped(stPage, next)
                 /\ stCrossed' = (stCrossed \/ stUploads # {})
    /\ UNCHANGED <<storeVars, stRole, stOwn, stDrilled, stPage, stUploads, stKept, stEdits>>

(* employee ClientsPage: View Vendors.                                     *)
goToVendors ==
    /\ stPage = "accountClients"
    /\ \E c \in DOMAIN stRows :
         /\ stDrilled' = c
         /\ mount("vendors", c)
    /\ UNCHANGED <<storeVars, stRole, stOwn, stPicked, stCrossed, stKept, stEdits>>

-----------------------------------------------------------------------------
(* persist: the page's next copy, written under the page's scope.          *)
persist(next) ==
    /\ stRows' = next
    /\ stClients' = IF stPage \in {"clients", "accountClients"} THEN next ELSE stClients
    /\ stVendors' = IF stPage = "vendors" THEN [stVendors EXCEPT ![Active] = next] ELSE stVendors
    /\ stUsers' = IF stPage = "vendorUsers" THEN [stUsers EXCEPT ![Active] = next] ELSE stUsers
    /\ stMembers' = IF stPage = "clientUsers" THEN [stMembers EXCEPT ![Active] = next] ELSE stMembers

Add(rows, id, row) == [i \in DOMAIN rows \cup {id} |-> IF i = id THEN row ELSE rows[i]]
Drop(rows, id) == [i \in DOMAIN rows \ {id} |-> rows[i]]
edited == UNCHANGED <<stFiles, stRole, stOwn, stPicked, stDrilled, stPage, stOptions, stUploads,
                      stCrossed, stKept>>
edit == stEdits < MaxStEdits /\ stEdits' = stEdits + 1 /\ edited

addClient ==
    /\ stPage \in {"clients", "accountClients"}
    /\ \E c \in StClient : c = Cardinality(DOMAIN stClients) + 1 /\ persist(Add(stRows, c, "active"))
    /\ edited /\ UNCHANGED stEdits

addVendor ==
    /\ stPage = "vendors" /\ Active # NoScope
    /\ \E v \in StVendor :
         /\ \A c \in StClient : v \notin DOMAIN stVendors[c]
         /\ persist(Add(stRows, v, "active"))
    /\ edited /\ UNCHANGED stEdits

Taken == UNION {DOMAIN stUsers[c] \cup DOMAIN stMembers[c] : c \in StClient}

(* A vendor user's row names one of the vendors the dialog offered.        *)
inviteUser ==
    /\ Active # NoScope
    /\ \E u \in StUser \ Taken :
         \/ /\ stPage = "vendorUsers"
            /\ \E v \in stOptions : persist(Add(stRows, u, [status |-> "active", vendor |-> v]))
         \/ /\ stPage = "clientUsers"
            /\ persist(Add(stRows, u, [status |-> "active", vendor |-> NoScope]))
    /\ edited /\ UNCHANGED stEdits

updateUser ==
    /\ stPage = "vendorUsers" /\ Active # NoScope
    /\ \E u \in DOMAIN stRows, v \in stOptions : persist([stRows EXCEPT ![u].vendor = v])
    /\ edit

Toggled(s) == IF s = "active" THEN "disabled" ELSE "active"

toggleStatus ==
    /\ stPage \in {"clients", "accountClients", "vendors"}
    /\ \E i \in DOMAIN stRows : persist([stRows EXCEPT ![i] = Toggled(@)])
    /\ edit

toggleUserStatus ==
    /\ stPage \in {"vendorUsers", "clientUsers"} /\ Active # NoScope
    /\ \E u \in DOMAIN stRows : persist([stRows EXCEPT ![u].status = Toggled(@)])
    /\ edit

removeUser ==
    /\ stPage \in {"vendorUsers", "clientUsers"} /\ Active # NoScope
    /\ \E u \in DOMAIN stRows : persist(Drop(stRows, u))
    /\ edit

-----------------------------------------------------------------------------
Landed == UNION {DOMAIN stFiles[c] : c \in StClient}

(* handleFiles: every accepted file gets a timer, whose callback holds the *)
(* submit of the scope that was active when the file was dropped.          *)
handleFiles ==
    /\ stPage = "files" /\ Active # NoScope
    /\ \E f \in StFile : /\ f \notin Landed /\ \A u \in stUploads : u.file # f
                         /\ \A k \in stKept : k.file # f
                         /\ stUploads' = stUploads \cup {[file |-> f, scope |-> Active]}
    /\ UNCHANGED <<storeVars, stRole, stOwn, stPicked, stDrilled, stPage, stRows, stOptions,
                   stCrossed, stKept, stEdits>>

(* submit: the functional update appends to the current copy, whatever     *)
(* scope that is of, ...                                                   *)
submit(u) == Add(stRows, u.file, "submitted")

(* ... and stores the result under the scope of the drop.                  *)
finishUpload ==
    /\ stPage = "files"
    /\ \E u \in stUploads :
         /\ stUploads' = stUploads \ {u}
         /\ stRows' = submit(u)
         /\ stFiles' = [stFiles EXCEPT ![u.scope] = submit(u)]
         /\ stKept' = stKept \cup {[file |-> u.file, scope |-> u.scope]}
    /\ UNCHANGED <<stClients, stVendors, stUsers, stMembers, stRole, stOwn, stPicked, stDrilled,
                   stPage, stOptions, stCrossed, stEdits>>

removeFile ==
    /\ stPage = "files" /\ Active # NoScope
    /\ \E f \in DOMAIN stRows :
         /\ stRows' = Drop(stRows, f)
         /\ stFiles' = [stFiles EXCEPT ![Active] = Drop(stRows, f)]
         /\ stKept' = {k \in stKept : k.file # f}
    /\ stEdits < MaxStEdits /\ stEdits' = stEdits + 1
    /\ UNCHANGED <<stClients, stVendors, stUsers, stMembers, stRole, stOwn, stPicked, stDrilled,
                   stPage, stOptions, stUploads, stCrossed>>

(* Reloading the page empties the store and every copy; the session        *)
(* survives, and the remembered pick matches no client created later.      *)
reload ==
    /\ stRole # "none" /\ stEdits < MaxStEdits
    /\ stClients' = NoRows
    /\ stVendors' = [c \in StClient |-> NoRows]
    /\ stUsers' = [c \in StClient |-> NoRows]
    /\ stMembers' = [c \in StClient |-> NoRows]
    /\ stFiles' = [c \in StClient |-> NoRows]
    /\ stOwn' = {} /\ stDrilled' = NoScope /\ stPicked' = NoScope
    /\ stRows' = NoRows /\ stOptions' = {} /\ stUploads' = {} /\ stKept' = {}
    /\ stEdits' = stEdits + 1
    /\ UNCHANGED <<stRole, stPage, stCrossed>>

StNext ==
    \/ openPage \/ signIn \/ signOut \/ setActiveGrandClient \/ goToVendors
    \/ addClient \/ addVendor \/ inviteUser \/ updateUser
    \/ toggleStatus \/ toggleUserStatus \/ removeUser
    \/ handleFiles \/ finishUpload \/ removeFile \/ reload

StSpec == StInit /\ [][StNext]_stVars

-----------------------------------------------------------------------------
(* Rows stay with the client they were entered for: a vendor user names a  *)
(* vendor of the same client, and, as long as nobody changed the client    *)
(* while an upload was running, a client's files are exactly the ones      *)
(* uploaded for it and not deleted.  (submit writes the rows of whichever  *)
(* client is shown under the client of the drop.)                          *)
RowsStayWithTheirClient ==
    /\ \A c \in StClient : \A u \in DOMAIN stUsers[c] : stUsers[c][u].vendor \in DOMAIN stVendors[c]
    /\ ~stCrossed => \A c \in StClient : DOMAIN stFiles[c] = {k.file : k \in {x \in stKept : x.scope = c}}
===============================================================================
