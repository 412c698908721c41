------------------------------- MODULE RuleSheet -------------------------------
(***************************************************************************)
(* The Rules tab of the console over the lifecycle routes: a list of the   *)
(* heads of the rule chains, a sheet with one version's detail, and the    *)
(* transitions its buttons ask for.  Neither a list nor a detail request   *)
(* is cancelled when a later one is sent, so an answer can arrive for a    *)
(* filter or a sheet that is gone.  Tier, type, sort and page are left     *)
(* out: a list is its status filter.                                       *)
(***************************************************************************)
EXTENDS RuleGovernance

CONSTANTS
    StatusFilter,  \* statuses the list can be filtered by, "all" among them
    ListLoad,      \* runs of the tab's load()
    Closed         \* no sheet is open, or it has no detail yet

ASSUME RuleSheetAssumption == StatusFilter \subseteq RuleLifecycle \cup {"all"}

VARIABLES
    wsFilter,  \* statusFilter of each analyst's tab
    wsRows,    \* the rows of the list
    wsBusy,    \* isLoading: the list shows no rows
    wsLoad,    \* list requests in flight
    wsOpen,    \* openRuleId
    wsDetail,  \* the detail the sheet shows
    wsAsked,   \* detail requests in flight
    wsRaced    \* a transition met another analyst's list or sheet of the same
               \* rule, or an answer came for what is not asked any more
               \* (history only)

wsVars == <<wsFilter, wsRows, wsBusy, wsLoad, wsOpen, wsDetail, wsAsked, wsRaced>>

NoList == [phase |-> "idle", filter |-> "all", rows |-> {}]
Heads == {v \in rgVersion : \A s \in RuleLifecycle : Successor(v, s) \notin rgVersion}

(* The buttons of the sheet.                                               *)
RULE_ACTIONS ==
    [s \in RuleLifecycle |->
        CASE s = "PROPOSED"    -> {"SHADOW", "QUARANTINED"}
          [] s = "SHADOW"      -> {"ACTIVE", "QUARANTINED"}
          [] s = "ACTIVE"      -> {"DEPRECATED", "QUARANTINED"}
          [] s = "QUARANTINED" -> {"SHADOW"}
          [] s = "DEPRECATED"  -> {}]

-----------------------------------------------------------------------------
(* Mutant: superseded versions are listed too.                             *)
listRulesAll(filter) == {v \in rgVersion : filter \in {"all", State(v)}}

(* GET /api/rules                                                          *)
listRules(filter) == {v \in Heads : filter \in {"all", State(v)}}

wsLoadList(a, l, filter) ==
    /\ wsLoad[a][l].phase = "idle"
    /\ wsLoad' = [wsLoad EXCEPT ![a][l] = [NoList EXCEPT !.phase = "asked", !.filter = filter]]
    /\ wsBusy' = [wsBusy EXCEPT ![a] = TRUE]

(* A filter change is a new request.                                       *)
setStatusFilter(a, l, filter) ==
    /\ wsOpen[a] = Closed
    /\ filter # wsFilter[a]
    /\ wsFilter' = [wsFilter EXCEPT ![a] = filter]
    /\ wsLoadList(a, l, filter)
    /\ UNCHANGED <<wsRows, wsOpen, wsDetail, wsAsked, wsRaced>> /\ UNCHANGED rgVars

(* The server answers, or the request fails and the list is empty.         *)
fetchRules(a, l) ==
    /\ wsLoad[a][l].phase = "asked"
    /\ \E rows \in {{}, listRules(wsLoad[a][l].filter)} :
         wsLoad' = [wsLoad EXCEPT ![a][l].phase = "answered", ![a][l].rows = rows]
    /\ UNCHANGED <<wsFilter, wsRows, wsBusy, wsOpen, wsDetail, wsAsked, wsRaced>>
    /\ UNCHANGED rgVars

showRules(a, l) ==
    /\ wsLoad[a][l].phase = "answered"
    /\ wsRows' = [wsRows EXCEPT ![a] = wsLoad[a][l].rows]
    /\ wsBusy' = [wsBusy EXCEPT ![a] = FALSE]
    /\ wsLoad' = [wsLoad EXCEPT ![a][l] = NoList]
    /\ wsRaced' = (wsRaced \/ \E m \in ListLoad \ {l} : wsLoad[a][m].phase # "idle")
    /\ UNCHANGED <<wsFilter, wsOpen, wsDetail, wsAsked>> /\ UNCHANGED rgVars

-----------------------------------------------------------------------------
(* A click on a row; the effect asks for the detail.                       *)
openSheet(a, v) ==
    /\ wsOpen[a] = Closed /\ ~wsBusy[a]
    /\ v \in wsRows[a]
    /\ wsOpen' = [wsOpen EXCEPT ![a] = v]
    /\ wsAsked' = [wsAsked EXCEPT ![a] = @ \cup {v}]
    /\ UNCHANGED <<wsFilter, wsRows, wsBusy, wsLoad, wsDetail, wsRaced>> /\ UNCHANGED rgVars

closeSheet(a) ==
    /\ wsOpen[a] # Closed
    /\ wsOpen' = [wsOpen EXCEPT ![a] = Closed]
    /\ wsDetail' = [wsDetail EXCEPT ![a] = Closed]
    /\ UNCHANGED <<wsFilter, wsRows, wsBusy, wsLoad, wsAsked, wsRaced>> /\ UNCHANGED rgVars

(* setDetail with whatever comes, sheet open or not; null when it failed.  *)
fetchRuleDetail(a, v) ==
    /\ v \in wsAsked[a]
    /\ wsAsked' = [wsAsked EXCEPT ![a] = @ \ {v}]
    /\ \E detail \in {v, Closed} : wsDetail' = [wsDetail EXCEPT ![a] = detail]
    /\ wsRaced' = (wsRaced \/ wsOpen[a] # v)
    /\ UNCHANGED <<wsFilter, wsRows, wsBusy, wsLoad, wsOpen>> /\ UNCHANGED rgVars

(* The route a button calls.                                               *)
transitionRule(a, v, to) ==
    \/ to = "SHADOW" /\ ratifyRule(a, v)
    \/ to = "ACTIVE" /\ promoteShadowRule(a, v)
    \/ to = "DEPRECATED" /\ deprecateRule(a, v)
    \/ to = "QUARANTINED" /\ quarantineRule(a, v)

(* An analyst has this rule on screen or on its way there.                 *)
looksAt(b, rule) ==
    \E v \in rgVersion :
        /\ v.rule = rule
        /\ \/ v \in wsRows[b] \cup wsAsked[b] \cup {wsOpen[b], wsDetail[b]}
           \/ \E l \in ListLoad : v \in wsLoad[b][l].rows

(* The version acted on is the one the detail shows, whichever row was     *)
(* clicked; done, the sheet closes and the list is loaded again.           *)
runAction(a, to, l) ==
    LET v == wsDetail[a] IN
    /\ wsOpen[a] # Closed /\ v # Closed
    /\ to \in RULE_ACTIONS[State(v)]
    /\ transitionRule(a, v, to)
    /\ wsOpen' = [wsOpen EXCEPT ![a] = Closed]
    /\ wsDetail' = [wsDetail EXCEPT ![a] = Closed]
    /\ wsLoadList(a, l, wsFilter[a])
    /\ wsRaced' = (wsRaced \/ \E b \in Analyst \ {a} : looksAt(b, v.rule))
    /\ UNCHANGED <<wsFilter, wsRows, wsAsked>>

-----------------------------------------------------------------------------
(* The tabs are mounted with no filter.                                    *)
wsInit ==
    /\ rgInit
    /\ wsFilter = [a \in Analyst |-> "all"]
    /\ wsRows = [a \in Analyst |-> {}]
    /\ wsBusy = [a \in Analyst |-> TRUE]
    /\ \E l \in ListLoad : wsLoad =
         [a \in Analyst |-> [[m \in ListLoad |-> NoList] EXCEPT ![l].phase = "asked"]]
    /\ wsOpen = [a \in Analyst |-> Closed]
    /\ wsDetail = [a \in Analyst |-> Closed]
    /\ wsAsked = [a \in Analyst |-> {}]
    /\ wsRaced = FALSE

wsNext ==
    \E a \in Analyst :
        \/ \E l \in ListLoad :
             \/ \E filter \in StatusFilter : setStatusFilter(a, l, filter)
             \/ fetchRules(a, l) \/ showRules(a, l)
             \/ \E to \in RuleLifecycle : runAction(a, to, l)
        \/ \E v \in rgVersion : openSheet(a, v) \/ fetchRuleDetail(a, v)
        \/ closeSheet(a)

wsSpec == wsInit /\ [][wsNext]_<<rgVars, wsVars>>

-----------------------------------------------------------------------------
(* The chain of a rule forks only when analysts race: as long as every     *)
(* answer came for what was still asked and nobody else had the rule on    *)
(* screen, the console never leaves a rule with two heads, one of which    *)
(* could be ACTIVE while the other is QUARANTINED.  It is the page that    *)
(* keeps a chain single: transitionRuleLifecycle itself never asks for the *)
(* head of the chain.                                                      *)
ForkNeedsARace ==
    ~wsRaced => \A v, w \in Heads : v.rule = w.rule => v = w
===============================================================================
