------------------------------ MODULE RuleEngine ------------------------------
(***************************************************************************)
(* The interpreter of the rule AST (rule-engine/interpreter.ts): a pure    *)
(* function of a tree and a bundle of facts.  The code returns the tree    *)
(* annotated with the value of every node; here a node's annotation is     *)
(* evaluate of that node on the same facts.                                *)
(*                                                                         *)
(* Values and facts are tuples whose first element is their kind:          *)
(*   <<"number", q>>  <<"money", q, currency>>  <<"bool", b>>              *)
(*   <<"string", text>>  <<"unassessable">>                                *)
(* A fact may also be <<"absent">> (undefined or the empty string) or      *)
(* <<"malformed">> (NaN, Infinity, or a decimal or amount that is not a    *)
(* number).  A decimal q is the fraction <<numerator, denominator>> in     *)
(* lowest terms; decimal.js' limit of 20 digits is left out.  A text is    *)
(* <<"word", w>>, or a number in one of the two ways the code prints one:  *)
(* <<"plain", q>> (toString) and <<"fixed", q>> (toFixed(4)).              *)
(* Both operands of a comparison are in its `args'.                        *)
(***************************************************************************)
EXTENDS Integers, SequencesExt

CONSTANTS
    Ast,     \* the trees of the rules at hand, each with all its sub-trees
    Depth    \* how deep each of them is

Branching == {"arith", "compare", "logic"}

\* A rule is stored as a JSON value, so its tree is finite: operands are less
\* deep than the node they belong to.
ASSUME AstAssumption ==
    /\ Depth \in [Ast -> Nat]
    /\ \A n \in Ast :
        /\ n.type \in {"lit", "fact", "require"} \cup Branching
        /\ n.type = "require" => n.then \in Ast /\ Depth[n.then] < Depth[n]
        /\ n.type \in Branching =>
            /\ n.args \in Seq(Ast)
            /\ \A i \in DOMAIN n.args : Depth[n.args[i]] < Depth[n]
        /\ n.type = "compare" => Len(n.args) = 2

ArithOps == {"add", "sub", "mul", "div", "abs"}
CompareOps == {"eq", "ne", "gt", "gte", "lt", "lte", "approx"}
LogicOps == {"and", "or", "not"}

Unassessable == <<"unassessable">>
Bool(b) == <<"bool", b>>
Number(q) == <<"number", q>>
Zero == <<0, 1>>
One == <<1, 1>>

---------------------------------------------------------------------------
(* Decimals.                                                               *)

gcd[p \in Nat \X Nat] == IF p[2] = 0 THEN p[1] ELSE gcd[<<p[2], p[1] % p[2]>>]

magnitude(n) == IF n < 0 THEN -n ELSE n

\* The fraction n / d in lowest terms, d # 0.
fraction(n, d) ==
    LET g == gcd[<<magnitude(n), magnitude(d)>>]
        sign == IF d < 0 THEN -1 ELSE 1
    IN  <<(sign * n) \div g, (sign * d) \div g>>

plus(p, q) == fraction(p[1] * q[2] + q[1] * p[2], p[2] * q[2])
minus(p, q) == fraction(p[1] * q[2] - q[1] * p[2], p[2] * q[2])
times(p, q) == fraction(p[1] * q[1], p[2] * q[2])
dividedBy(p, q) == fraction(p[1] * q[2], p[2] * q[1])
absolute(q) == <<magnitude(q[1]), q[2]>>
lessOrEqual(p, q) == p[1] * q[2] <= q[1] * p[2]

\* Rounds to four places, halves away from zero.
toFixed4(q) ==
    LET rounded == (20000 * magnitude(q[1]) + q[2]) \div (2 * q[2])
    IN  fraction(IF q[1] < 0 THEN -rounded ELSE rounded, 10000)

---------------------------------------------------------------------------
(* Leaves.                                                                 *)

isUnassessable(v) == v[1] = "unassessable"

\* toDecimal: the decimal of a number or a money value; others have none.
hasDecimal(v) == v[1] \in {"number", "money"}

present(raw) == raw[1] # "absent"

factValue(raw) ==
    CASE raw[1] \in {"absent", "malformed"} -> Unassessable
      [] raw[1] = "money" -> <<"money", toFixed4(raw[2]), raw[3]>>
      [] OTHER -> raw

---------------------------------------------------------------------------
(* Inner nodes, from the values of their operands.                         *)

reduce(op, nums) ==
    CASE op = "add" -> FoldLeft(plus, Zero, nums)
      [] op = "sub" -> FoldLeft(minus, Head(nums), Tail(nums))
      [] op = "mul" -> FoldLeft(times, One, nums)
      [] op = "div" -> FoldLeft(dividedBy, Head(nums), Tail(nums))
      [] op = "abs" -> absolute(Head(nums))

arith(op, vs) ==
    IF \/ \E i \in DOMAIN vs : ~hasDecimal(vs[i])
       \/ Len(vs) < (IF op = "abs" THEN 1 ELSE 2)
       \/ op = "div" /\ \E i \in 2..Len(vs) : vs[i][2][1] = 0
    THEN Unassessable
    ELSE Number(reduce(op, [i \in DOMAIN vs |-> vs[i][2]]))

\* The text or boolean that eq and ne compare when a side is not numeric.
valueScalar(v) ==
    CASE v[1] = "number" -> <<"plain", v[2]>>
      [] v[1] = "money" -> <<"fixed", v[2]>>
      [] v[1] = "bool" -> <<"truth", v[2]>>
      [] OTHER -> v[2]

compareDecimals(op, tolerance, a, b) ==
    CASE op = "eq" -> a = b
      [] op = "ne" -> a # b
      [] op = "gt" -> ~lessOrEqual(a, b)
      [] op = "gte" -> lessOrEqual(b, a)
      [] op = "lt" -> ~lessOrEqual(b, a)
      [] op = "lte" -> lessOrEqual(a, b)
      [] OTHER -> lessOrEqual(absolute(minus(a, b)), tolerance)

compare(node, left, right) ==
    CASE isUnassessable(left) \/ isUnassessable(right) -> Unassessable
      [] hasDecimal(left) /\ hasDecimal(right) ->
            Bool(compareDecimals(node.op, node.tolerance, left[2], right[2]))
      [] OTHER ->
            LET eq == valueScalar(left) = valueScalar(right)
            IN  CASE node.op = "eq" -> Bool(eq)
                  [] node.op = "ne" -> Bool(~eq)
                  [] OTHER -> Unassessable

\* Mutant: `or' is decided by its first true operand, whatever the others are.
logicShortCircuits(op, vs) ==
    IF op = "not"
    THEN IF vs # <<>> /\ vs[1][1] = "bool" THEN Bool(~vs[1][2]) ELSE Unassessable
    ELSE IF op = "or" /\ \E i \in DOMAIN vs : vs[i] = Bool(TRUE) THEN Bool(TRUE)
    ELSE IF \E i \in DOMAIN vs : vs[i][1] # "bool" THEN Unassessable
    ELSE Bool(IF op = "and" THEN \A i \in DOMAIN vs : vs[i][2]
                            ELSE \E i \in DOMAIN vs : vs[i][2])

\* `not' looks at its first operand only; `and' and `or' at all of them,
\* without stopping early.
logic(op, vs) ==
    IF op = "not"
    THEN IF vs # <<>> /\ vs[1][1] = "bool" THEN Bool(~vs[1][2]) ELSE Unassessable
    ELSE IF \E i \in DOMAIN vs : vs[i][1] # "bool" THEN Unassessable
    ELSE Bool(IF op = "and" THEN \A i \in DOMAIN vs : vs[i][2]
                            ELSE \E i \in DOMAIN vs : vs[i][2])

---------------------------------------------------------------------------
(* Trees.                                                                  *)

\* The value of a tree on a bundle of facts.
evaluate(node, facts) ==
    LET value[n \in Ast] ==
            LET vs == [i \in DOMAIN n.args |-> value[n.args[i]]]
            IN  CASE n.type = "lit" -> factValue(n.value)
                  [] n.type = "fact" -> factValue(facts[n.key])
                  [] n.type = "require" ->
                        IF present(facts[n.key]) THEN value[n.then] ELSE Unassessable
                  [] n.type = "arith" -> arith(n.op, vs)
                  [] n.type = "compare" -> compare(n, vs[1], vs[2])
                  [] OTHER -> logic(n.op, vs)
    IN  value[node]

verdict(value) ==
    IF value[1] = "bool" THEN IF value[2] THEN "PASS" ELSE "FAIL"
    ELSE "UNASSESSABLE"

---------------------------------------------------------------------------
(* Trees, as the rubrics write them.                                       *)

Lit(value) == [type |-> "lit", value |-> value]
Fact(key) == [type |-> "fact", key |-> key]
Require(key, then) == [type |-> "require", key |-> key, then |-> then]
Arith(op, args) == [type |-> "arith", op |-> op, args |-> args]
Logic(op, args) == [type |-> "logic", op |-> op, args |-> args]
Compare(op, left, right) ==
    [type |-> "compare", op |-> op, args |-> <<left, right>>, tolerance |-> Zero]
Approx(tolerance, left, right) ==
    [type |-> "compare", op |-> "approx", args |-> <<left, right>>,
     tolerance |-> tolerance]
=============================================================================
