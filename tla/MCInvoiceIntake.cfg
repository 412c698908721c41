SPECIFICATION Spec
CONSTANTS
    Tx = {t1, t2, t3}
    Draft = {d1, d2}
    RunId = {r1, r2, r3}
    Number = {n1}
    None = None
SYMMETRY Symm
INVARIANTS OneFirstBilling DraftConfirmedOnce
CHECK_DEADLOCK FALSE
