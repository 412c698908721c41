---------------------------- MODULE MCRuleVerdicts ----------------------------
EXTENDS RuleVerdicts

MCKey == {"a", "b"}

\* A cent, a fraction below the fourth place, a text that prints like a number.
MCFactValues ==
    {<<"absent">>, <<"malformed">>, <<"bool", TRUE>>, <<"bool", FALSE>>,
     <<"number", <<0, 1>>>>, <<"number", <<3, 2>>>>,
     <<"money", <<3, 2>>, "USD">>, <<"money", <<1, 20000>>, "EUR">>,
     <<"string", <<"word", "w">>>>, <<"string", <<"plain", <<3, 2>>>>>>}

Leaf == {Fact("a"), Fact("b"), Lit(<<"number", <<3, 2>>>>)}
Tests == {Compare(op, Fact("a"), l) : op \in CompareOps \ {"approx"}, l \in Leaf}
         \cup {Approx(<<1, 100>>, Fact("a"), Fact("b"))}
Sums == {Arith(op, <<Fact("a"), l>>) : op \in ArithOps, l \in Leaf}
        \cup {Arith(op, <<Fact("a")>>) : op \in ArithOps}
Truth == Compare("eq", Fact("b"), Lit(<<"bool", TRUE>>))

MCTrees ==
    Tests \cup Leaf
    \cup {Compare(op, s, l) : op \in {"eq", "gt", "gte"}, s \in Sums, l \in Leaf}
    \cup {Logic(op, <<t, Truth>>) : op \in {"and", "or"}, t \in Tests}
    \cup {Logic(op, <<>>) : op \in LogicOps}
    \cup {Logic("not", <<t>>) : t \in Tests}
    \cup {Require("b", t) : t \in Tests}
    \cup {Logic("or", <<Require("b", Compare("gt", Fact("a"), Lit(<<"number", <<0, 1>>>>))),
                        Logic("and", <<Fact("a"), Fact("b")>>)>>)}
=============================================================================
