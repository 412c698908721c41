SPECIFICATION rgSpec
CONSTANTS
    p1 = p1
    d1 = d1
    c1 = c1
    c2 = c2
    Seed = {s1}
    Proposal = {p1, d1}
    Discovered = {d1}
    Corpus = {c1, c2}
    Passes <- MCPasses
    Analyst = {x, y}
    Reversal = {q1, q2}
    MaxReversals = 1
    MaxTally = 2
    MaxVersions = 4
    Nobody = Nobody
SYMMETRY Symm
INVARIANTS ProposalActiveIsPinned
CHECK_DEADLOCK FALSE
