SPECIFICATION QueueSpec
CONSTANTS
    Row = {r1, r2}
    MaxAttempts = 2
    StaleAfter = 1
    ScanLimit = 1
    MaxTries = 2
    MaxUptime = 1
    CallsOut = FALSE
INVARIANTS OneJobPerClaim OpenClaimHasWork
PROPERTIES SettledIsFinal DueFires EventuallySettled
