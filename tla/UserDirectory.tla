----------------------------- MODULE UserDirectory -----------------------------
(***************************************************************************)
(* The employee console's Users page over GET /api/internal/members.  The  *)
(* page walks the server's keyset pages (created_at DESC, id ASC) and then *)
(* replaces its list; nothing cancels a walk that a later one overtook.    *)
(* The rows change between two pages: other sessions edit them, and a row  *)
(* stamped early can commit late.  The table hides its rows while          *)
(* isLoading, which an overtaken load ends too early, and the role dialog  *)
(* outlives both: here a row can be acted on whenever it is in the list.   *)
(* E-mail, names and the client-side filters are left out.                 *)
(***************************************************************************)
EXTENDS Integers, Sequences, FiniteSets

CONSTANTS
    Row,        \* membership ids, ordered as uuids are
    Stamp,      \* created_at of each, ties included
    PageLimit,  \* rows of a page
    Load,       \* runs of the page's load()
    Setting,    \* what an edit can set: the role of a membership
    MaxEdits,   \* bound on edits, of this page and of other sessions
    NoCursor

ASSUME UserDirectoryAssumption ==
    /\ Row \subseteq Nat /\ IsFiniteSet(Row) /\ Stamp \in [Row -> Nat]
    /\ PageLimit \in Nat \ {0} /\ MaxEdits \in Nat
    /\ NoCursor \notin Row

VARIABLES
    dirRow,       \* membership rows there are: id -> role and is_active
    dirFresh,     \* ids not given out yet
    dirLoad,      \* the walks of load()
    dirShown,     \* the list on the page
    dirRemoving,  \* rows whose DELETE is answered but not yet filtered out
    dirEdits      \* edits so far

dirVars == <<dirRow, dirFresh, dirLoad, dirShown, dirRemoving, dirEdits>>

Present == DOMAIN dirRow
IdleLoad == [phase |-> "idle", cursor |-> NoCursor, got |-> <<>>, kept |-> {}, cut |-> FALSE]
Listed(s) == {s[i].row : i \in DOMAIN s}

-----------------------------------------------------------------------------
(* GET /api/internal/members                                               *)

Precedes(r, s) == Stamp[r] > Stamp[s] \/ (Stamp[r] = Stamp[s] /\ r < s)

(* Mutant: the tie-break on the id is forgotten.                           *)
buildKeysetTieBreakNoTie(r, anchor) == Stamp[r] < Stamp[anchor]

buildKeysetTieBreak(r, anchor) ==
    Stamp[r] < Stamp[anchor] \/ (Stamp[r] = Stamp[anchor] /\ r > anchor)

(* The anchor is read again for every page: a cursor whose row is gone     *)
(* joins with nothing.                                                     *)
buildKeysetAnchorFrom(cursor) ==
    IF cursor = NoCursor THEN Present
    ELSE {r \in Present : cursor \in Present /\ buildKeysetTieBreak(r, cursor)}

(* ORDER BY created_at DESC, id ASC                                        *)
inOrder(S) ==
    CHOOSE s \in [1..Cardinality(S) -> S] :
        \A i, j \in 1..Cardinality(S) : i < j => Precedes(s[i], s[j])

buildLimitOffsetClause(s, limit) == SubSeq(s, 1, IF Len(s) < limit THEN Len(s) ELSE limit)

listAllTenantMembers(cursor, limit) ==
    LET ids == buildLimitOffsetClause(inOrder(buildKeysetAnchorFrom(cursor)), limit)
    IN  [i \in DOMAIN ids |-> [row |-> ids[i], is |-> dirRow[ids[i]]]]

(* One row too many was asked for: its presence says there is more.        *)
paginateKeyset(rows) ==
    IF Len(rows) > PageLimit
    THEN [page |-> SubSeq(rows, 1, PageLimit), next |-> rows[PageLimit].row]
    ELSE [page |-> rows, next |-> NoCursor]

getMembers(cursor) == paginateKeyset(listAllTenantMembers(cursor, PageLimit + 1))

-----------------------------------------------------------------------------
(* load() and fetchAllUsers.                                               *)

beginLoad(l, loads) ==
    [loads EXCEPT ![l] = [IdleLoad EXCEPT !.phase = "paging", !.kept = Present]]

(* One page of the walk.                                                   *)
fetchAllUsers(l) ==
    LET x == dirLoad[l]
        answer == getMembers(x.cursor) IN
    /\ x.phase = "paging"
    /\ dirLoad' = [dirLoad EXCEPT ![l] =
         [x EXCEPT !.phase = IF answer.next = NoCursor THEN "ready" ELSE "paging",
                   !.cursor = answer.next,
                   !.got = @ \o answer.page,
                   !.cut = @ \/ x.cursor \notin Present \cup {NoCursor}]]
    /\ UNCHANGED <<dirRow, dirFresh, dirShown, dirRemoving, dirEdits>>

(* A page that is not ok ends the walk with what there is.                 *)
fetchAllUsersCut(l) ==
    /\ dirLoad[l].phase = "paging"
    /\ dirLoad' = [dirLoad EXCEPT ![l].phase = "ready", ![l].cut = TRUE]
    /\ UNCHANGED <<dirRow, dirFresh, dirShown, dirRemoving, dirEdits>>

(* Promise.all has both answers: the list is replaced, whoever asked.      *)
showUsers(l) ==
    /\ dirLoad[l].phase = "ready"
    /\ dirShown' = dirLoad[l].got
    /\ dirLoad' = [dirLoad EXCEPT ![l] = IdleLoad]
    /\ UNCHANGED <<dirRow, dirFresh, dirRemoving, dirEdits>>

-----------------------------------------------------------------------------
(* What the page does to a row, and the load that follows.                 *)

countEdit ==
    /\ dirEdits < MaxEdits
    /\ dirEdits' = dirEdits + 1

(* CreateUserDialog                                                        *)
createUser(r, role, l) ==
    /\ r \in dirFresh /\ dirLoad[l].phase = "idle"
    /\ countEdit
    /\ dirRow' = [x \in Present \cup {r} |-> IF x = r THEN [role |-> role, active |-> TRUE]
                                             ELSE dirRow[x]]
    /\ dirFresh' = dirFresh \ {r}
    /\ dirLoad' = beginLoad(l, dirLoad)
    /\ UNCHANGED <<dirShown, dirRemoving>>

(* EditRoleDialog: the row must still be there.                            *)
editRole(shown, role, l) ==
    /\ shown.row \in Present /\ dirLoad[l].phase = "idle"
    /\ countEdit
    /\ dirRow' = [dirRow EXCEPT ![shown.row].role = role]
    /\ dirLoad' = beginLoad(l, dirLoad)
    /\ UNCHANGED <<dirFresh, dirShown, dirRemoving>>

(* The value sent is the opposite of the one shown.                        *)
handleToggleActive(shown, l) ==
    /\ shown.row \in Present /\ dirLoad[l].phase = "idle"
    /\ countEdit
    /\ dirRow' = [dirRow EXCEPT ![shown.row].active = ~shown.is.active]
    /\ dirLoad' = beginLoad(l, dirLoad)
    /\ UNCHANGED <<dirFresh, dirShown, dirRemoving>>

withoutRow(rows, r) == [x \in DOMAIN rows \ {r} |-> rows[x]]
forgetRow(r) == [l \in Load |-> [dirLoad[l] EXCEPT !.kept = @ \ {r}]]

(* The DELETE is served ...                                                *)
deleteTenantMember(shown) ==
    /\ shown.row \in Present
    /\ countEdit
    /\ dirRow' = withoutRow(dirRow, shown.row)
    /\ dirRemoving' = dirRemoving \cup {shown.row}
    /\ dirLoad' = forgetRow(shown.row)
    /\ UNCHANGED <<dirFresh, dirShown>>

(* ... and when the answer is in, the page drops the row from its list     *)
(* without a load.                                                         *)
handleRemove(r) ==
    /\ r \in dirRemoving
    /\ dirRemoving' = dirRemoving \ {r}
    /\ dirShown' = SelectSeq(dirShown, LAMBDA u : u.row # r)
    /\ UNCHANGED <<dirRow, dirFresh, dirLoad, dirEdits>>

(* Another session.                                                        *)
editElsewhere ==
    /\ countEdit
    /\ \/ \E r \in dirFresh, role \in Setting :
            /\ dirRow' = [x \in Present \cup {r} |->
                            IF x = r THEN [role |-> role, active |-> TRUE] ELSE dirRow[x]]
            /\ dirFresh' = dirFresh \ {r}
            /\ UNCHANGED dirLoad
       \/ \E r \in Present :
            /\ dirRow' = withoutRow(dirRow, r)
            /\ dirLoad' = forgetRow(r)
            /\ UNCHANGED dirFresh
    /\ UNCHANGED <<dirShown, dirRemoving>>

-----------------------------------------------------------------------------
(* The page has just been mounted over the rows there are.                 *)
dirInit ==
    /\ \E there \in SUBSET Row, role \in Setting :
         /\ dirRow = [r \in there |-> [role |-> role, active |-> TRUE]]
         /\ dirFresh = Row \ there
         /\ \E l \in Load : dirLoad =
              [[x \in Load |-> IdleLoad] EXCEPT ![l] =
                 [IdleLoad EXCEPT !.phase = "paging", !.kept = there]]
    /\ dirShown = <<>>
    /\ dirRemoving = {}
    /\ dirEdits = 0

dirNext ==
    \/ \E l \in Load : fetchAllUsers(l) \/ fetchAllUsersCut(l) \/ showUsers(l)
    \/ \E l \in Load, role \in Setting : \E r \in dirFresh : createUser(r, role, l)
    \/ \E l \in Load, i \in DOMAIN dirShown :
         \/ handleToggleActive(dirShown[i], l)
         \/ \E role \in Setting : editRole(dirShown[i], role, l)
    \/ \E i \in DOMAIN dirShown : deleteTenantMember(dirShown[i])
    \/ \E r \in dirRemoving : handleRemove(r)
    \/ editElsewhere

dirSpec == dirInit /\ [][dirNext]_dirVars

-----------------------------------------------------------------------------
(* A walk that no failed request and no vanished cursor row cut short has  *)
(* every membership that was there from its first page to its last, and    *)
(* none twice, whatever was inserted, edited or deleted in between.        *)
WalkIsComplete ==
    \A l \in Load :
        LET x == dirLoad[l] IN
        /\ \A i, j \in DOMAIN x.got : x.got[i].row = x.got[j].row => i = j
        /\ x.phase = "ready" /\ ~x.cut => x.kept \subseteq Listed(x.got)
===============================================================================
