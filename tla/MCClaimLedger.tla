---------------------------- MODULE MCClaimLedger ----------------------------
EXTENDS ClaimLedger, TLC
Symm == Permutations(Tx)
=============================================================================
