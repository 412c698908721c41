SPECIFICATION Spec
CONSTANTS
    Tx = {t1, t2}
    Claimed = 2
    MaxExports = 1
SYMMETRY Symm
INVARIANTS NeverOverRecovered
