SPECIFICATION DeskSpec
CONSTANTS
    Tx = {t1, t2}
    Claimed = 2
    MaxExports = 1
    PayRun = {1}
    Overcharge = {"f1", "f2"}
    Variance <- MCVariance
    Total = 3
    Grace = 1
    MaxDay = 2
    PaySlot = {p1, p2}
    Export = {"e1", "e2"}
    Registered = {"e1"}
    ExWorker = {w1, w2}
    ExRetryLimit = 1
    WfSubject = {"s1"}
    WfState = {"draft", "open", "closed"}
    WfAllowed <- MCAllowed
    WfTx = {q1, q2}
    MaxLog = 3
    z1 = z1
    z2 = z2
    z3 = z3
    RpClaim = {z1, z2, z3}
    CarrierOf <- MCCarrierOf
    AccountOf <- MCAccountOf
    CurrencyOf <- MCCurrencyOf
    ClaimedOf <- MCClaimedOf
SYMMETRY Symm
INVARIANTS FullRecoveryPostedOnce SerialBooksBalance EscalatedInTime AcknowledgedOnce LogExplainsState ReportReconciles
PROPERTIES OutcomeIsFinal DecisionsAreFinal
CHECK_DEADLOCK FALSE
