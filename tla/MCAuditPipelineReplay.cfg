SPECIFICATION Spec
CONSTANTS
    Ast <- MCAst
    Depth <- MCDepth
    Document <- MCDocument
    Rate <- MCRate
    Crosswalk <- MCCrosswalk
    None = None
    Bad = Bad
    NaN = NaN
INVARIANT ReplayReproduces
CHECK_DEADLOCK FALSE
