---------------------------- MODULE MCAuditPipeline ----------------------------
EXTENDS AuditPipeline

MCCrosswalk == [LHS |-> "LINEHAUL", FUE |-> "FUEL", XXX |-> None]
MCRate == {[amount |-> 2, currency |-> "USD"], [amount |-> 5, currency |-> "EUR"]}

\* A clean line and clean documents, from which the slices below depart.
Line == [amount |-> 3, currency |-> None, code |-> "LHS", category |-> None,
         rate |-> None, basis |-> None, described |-> TRUE, quarantined |-> FALSE]
Doc(set) == [set |-> set, corrected |-> FALSE, states |-> HeaderFields(set),
             header |-> IF set = "310" THEN "USD" ELSE None, declared |-> 3,
             lineSum |-> None, lines |-> <<Line>>]
Edi == {"210", "310"}

Headers ==
    UNION {{[Doc(set) EXCEPT !.states = f] : f \in SUBSET HeaderFields(set)} : set \in Edi}

Footings ==
    {[Doc("210") EXCEPT !.declared = d,
        !.lines = <<[Line EXCEPT !.amount = a], [Line EXCEPT !.amount = b, !.code = "FUE"]>>] :
            d \in {None, Bad, NaN, 1, 3, 4, 5}, a \in {Bad, NaN, 2}, b \in {None, 2, -1}}
    \cup {[Doc(set) EXCEPT !.lines = <<>>, !.declared = 0] : set \in Edi}

Currencies ==
    {[Doc("310") EXCEPT !.declared = 6, !.header = h,
        !.lines = <<[Line EXCEPT !.currency = c], [Line EXCEPT !.currency = d, !.code = k]>>] :
            h \in {None, "USD", "usd"}, c \in {None, "USD", "EUR"},
            d \in {None, "EUR", "usd"}, k \in {"LHS", "FUE"}}

RatesAndBases ==
    {[Doc(set) EXCEPT !.lines =
        <<[Line EXCEPT !.rate = r, !.basis = b, !.code = k, !.described = t]>>] :
            set \in Edi, r \in {None, 1, NaN}, b \in {None, 3, 9},
            k \in {None, "FUE", "XXX"}, t \in BOOLEAN}

Extracted ==
    {[Doc("PDF") EXCEPT !.declared = d,
        !.lines = <<[Line EXCEPT !.amount = a, !.currency = c, !.category = k]>>] :
            d \in {None, Bad, 3, 5}, a \in {None, 3, 6}, c \in {None, "USD", "usd"},
            k \in {None, "LINEHAUL", "FUEL"}}

Corrections ==
    {[Doc("PDF") EXCEPT !.corrected = TRUE, !.declared = d, !.lineSum = s, !.states = f,
        !.lines = <<[Line EXCEPT !.amount = a, !.currency = "USD", !.category = "LINEHAUL",
                                 !.quarantined = q]>>] :
            d \in {None, 6, 9}, s \in {None, 9}, a \in {None, 6}, q \in BOOLEAN,
            f \in {{}, {"number", "reference"}}}

MCDocument == Headers \cup Footings \cup Currencies \cup RatesAndBases
              \cup Extracted \cup Corrections

\* The trees of the rubrics and their sub-trees, which are at most four levels
\* down, and how deep each tree is.
Operands(n) ==
    CASE n.type = "require" -> {n.then}
      [] n.type \in Branching -> Range(n.args)
      [] OTHER -> {}

Grown(trees) == UNION {{n} \cup Operands(n) : n \in trees}
WithSubtrees(trees) == Grown(Grown(Grown(Grown(trees))))
RubricTrees == WithSubtrees({c.ast : c \in CONTRACT_RUBRIC})

MCDepth[n \in Ast] == Max({0} \cup {1 + MCDepth[m] : m \in Operands(n)})

\* TLC keeps the value of RubricTrees, but not of what stands for a constant.
MCAst == RubricTrees
=============================================================================
