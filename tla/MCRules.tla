-------------------------------- MODULE MCRules --------------------------------
(***************************************************************************)
(* Rules at work: the audit of an invoice, the verdict of a rule's tree,   *)
(* the life of a rule version, and the console's page over it.  They share *)
(* no state here, so a behaviour works at one of these desks and leaves    *)
(* the others alone.  The rate and the payment policy change before the    *)
(* audit; what a change before a replay does is in MCAuditPipelineReplay.  *)
(***************************************************************************)
EXTENDS MCAuditPipeline, MCRuleVerdicts, RuleSheet, TLC

CONSTANTS p1, d1, c1, c2

VARIABLE bench

(* No two analysts differ.                                                 *)
RulesSymmetry == Permutations(Analyst)

RulesTrees == RubricTrees \cup WithSubtrees(MCTrees)
RulesAst == RulesTrees

MCPasses == {<<p1, c1>>, <<d1, c2>>}

(* Where proposals or the console's page add state of their own, one       *)
(* version fewer than MaxVersions.                                         *)
VersionBound == Cardinality(rgVersion') < MaxVersions

(* A caller of the routes who is not at the page: whatever the pages show  *)
(* is no longer what there is, which is what a race means to them.         *)
PastTheConsole ==
    /\ wsRaced' = TRUE
    /\ UNCHANGED <<wsFilter, wsRows, wsBusy, wsLoad, wsOpen, wsDetail, wsAsked>>

FirstRule == CHOOSE r \in Rules : TRUE

(* A desk nobody works at starts in one of its initial states.             *)
RulesInit ==
    /\ bench \in {"audit", "verdict", "lifecycle", "proposals", "sheet"}
    /\ JudgeInit
    /\ bench # "verdict" => rule = FirstRule /\ \A k \in Key : facts[k] = <<"absent">>
    /\ Init
    /\ bench # "audit" => rate = None
    /\ wsInit
    /\ bench \notin {"lifecycle", "sheet"} => rgVersion = {}
    /\ bench = "lifecycle" => rgVersion # {}
    /\ \A a \in Analyst : wsLoad[a][CHOOSE l \in ListLoad : TRUE].phase = "asked"

RulesNext ==
    \/ bench = "audit" /\ Next /\ (run # None => UNCHANGED <<rate, hold>>)
       /\ UNCHANGED <<judgeVars, rgVars, wsVars, bench>>
    \/ bench = "verdict" /\ JudgeNext /\ UNCHANGED <<vars, rgVars, wsVars, bench>>
    \/ bench = "lifecycle" /\ rgNext /\ rgProposed' = {}
       /\ PastTheConsole /\ UNCHANGED <<vars, judgeVars, bench>>
    \/ bench = "proposals" /\ rgNext /\ VersionBound
       /\ PastTheConsole /\ UNCHANGED <<vars, judgeVars, bench>>
    \/ bench = "sheet" /\ ~wsRaced /\ wsNext /\ VersionBound
       /\ UNCHANGED <<vars, judgeVars, bench>>

RulesSpec == RulesInit /\ [][RulesNext]_<<vars, judgeVars, rgVars, wsVars, bench>>
================================================================================
