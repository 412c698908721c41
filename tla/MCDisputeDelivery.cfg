SPECIFICATION DeskSpec
CONSTANTS
    Dispute = {d1}
    MaxRows = 2
    MaxAttempts = 2
    StaleAfter = 1
    ScanLimit = 1
    MaxTries = 1
    MaxUptime = 1
    AgedClaim = {1}
    AgingGrace = 1
    LastDay = 4
INVARIANTS OneCommandPerApproval RemindersInOrder
PROPERTIES ContractHolds OverdueIsChased
