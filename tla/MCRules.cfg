SPECIFICATION RulesSpec
CONSTANTS
    Ast <- RulesAst
    Depth <- MCDepth
    Document <- MCDocument
    Rate <- MCRate
    Crosswalk <- MCCrosswalk
    None = None
    Bad = Bad
    NaN = NaN
    Rules <- MCTrees
    Key <- MCKey
    FactValues <- MCFactValues
    p1 = p1
    d1 = d1
    c1 = c1
    c2 = c2
    Seed = {s1}
    Proposal = {p1, d1}
    Discovered = {d1}
    Corpus = {c1, c2}
    Passes <- MCPasses
    Analyst = {x, y}
    Reversal = {h1, h2}
    MaxReversals = 1
    MaxTally = 3
    MaxVersions = 4
    Nobody = Nobody
    StatusFilter = {"all", "ACTIVE"}
    ListLoad = {i1, i2}
    Closed = Closed
SYMMETRY RulesSymmetry
PROPERTIES LoneReversalQuarantines
INVARIANTS KickbackIsComplete VarianceIsWarranted ScorecardReconciles VerdictRestsOnFacts ActiveWasVetted ForkNeedsARace
CHECK_DEADLOCK FALSE
