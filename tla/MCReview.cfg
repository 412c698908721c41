SPECIFICATION ReviewSpec
CONSTANTS
    Tx = {t1, t2}
    ClaimTx = {t1, t2}
    Finding = {1, 2}
    DisputeId = {1, 2}
    Undercharge = {2}
    Carrier <- SameCarrier
    Amount <- UnitAmount
    MaxAccepts = 2
    r1 = r1
    f1 = f1
    f2 = f2
    Tenant = {ta}
    Doc = {e1, e2}
    Contract = {k1}
    Reader = {x}
    Response = {r1}
    Field = {f1, f2}
    Confidence <- MCConfidence
    Required = {f2}
    Value = {v, w}
    Finalizer = {z1, z2}
    MaxEntries = 2
    Unset = Unset
    n1 = n1
    n2 = n2
    y1 = y1
    y2 = y2
    GtAccount = {n1, n2}
    GtRow = {y1, y2}
    RowAccount <- MCRowAccount
    GtRole = {"analyst", "account_viewer", "account_admin"}
    NoOne = NoOne
INVARIANTS NoLockCycle ClaimRestsOnAcceptance FindingClaimedOnceSerially EffectsAreAuthorized ForeignLooksMissing
PROPERTIES VerifiedAsReviewed
CHECK_DEADLOCK FALSE
