--------------------------- MODULE MCRuleGovernance ---------------------------
EXTENDS RuleGovernance, TLC
CONSTANTS p1, d1, c1, c2
MCPasses == {<<p1, c1>>, <<d1, c2>>}
Symm == Permutations(Analyst) \cup Permutations(Reversal)
=============================================================================
