----------------------------- MODULE RuleVerdicts -----------------------------
(***************************************************************************)
(* One rule judged against a fact bundle that loses facts: the situation   *)
(* of every invoice that states less than the rule asks for.               *)
(***************************************************************************)
EXTENDS RuleEngine

CONSTANTS
    Rules,        \* the trees under test
    Key,          \* fact keys
    FactValues    \* what a fact may be, absent and malformed included

ASSUME RulesAssumption == Rules \subseteq Ast

VARIABLES
    rule,     \* the tree
    facts,    \* the bundle
    judged    \* the verdict of the tree on the bundle

judgeVars == <<rule, facts, judged>>

Judge(bundle) ==
    /\ facts' = bundle
    /\ judged' = verdict(evaluate(rule, bundle))
    /\ UNCHANGED rule

JudgeInit ==
    /\ rule \in Rules
    /\ facts \in [Key -> FactValues]
    /\ judged = verdict(evaluate(rule, facts))

\* The fact is not in the bundle, or is the empty string.
LoseFact(k) ==
    /\ present(facts[k])
    /\ Judge([facts EXCEPT ![k] = <<"absent">>])

\* The fact arrives as a text that is no number.
CorruptFact(k) ==
    /\ facts[k][1] \in {"number", "money"}
    /\ Judge([facts EXCEPT ![k] = <<"malformed">>])

JudgeNext == \E k \in Key : LoseFact(k) \/ CorruptFact(k)

JudgeSpec == JudgeInit /\ [][JudgeNext]_judgeVars

---------------------------------------------------------------------------
\* The operands that decide a node: `not' has one, whatever it is given.
Deciding(n) == IF n.type = "logic" /\ n.op = "not" THEN DOMAIN n.args \cap {1}
               ELSE DOMAIN n.args

\* What a tree asks of the bundle: the value of a fact, or that it is there.
Asks(node) ==
    LET asks[n \in Ast] ==
            CASE n.type = "lit" -> {}
              [] n.type = "fact" -> {<<"value", n.key>>}
              [] n.type = "require" -> {<<"presence", n.key>>} \cup asks[n.then]
              [] OTHER -> UNION {asks[n.args[i]] : i \in Deciding(n)}
    IN  asks[node]

---------------------------------------------------------------------------
(* A verdict of PASS or FAIL rests on complete evidence: every fact the    *)
(* rule asks for is present, in whatever branch, and every fact whose      *)
(* value it reads is well formed.  (interpreter.ts: missing data yields    *)
(* UNASSESSABLE, never a default.)                                         *)
VerdictRestsOnFacts ==
    judged # "UNASSESSABLE" =>
        \A ask \in Asks(rule) :
            /\ present(facts[ask[2]])
            /\ ask[1] = "value" => facts[ask[2]][1] # "malformed"
=============================================================================
