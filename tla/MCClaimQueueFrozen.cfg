SPECIFICATION FairSpec
CONSTANTS
    Row = {r1}
    MaxAttempts = 2
    StaleAfter = 2
    ScanLimit = 1
    MaxTries = 2
    MaxUptime = 2
    CallsOut = TRUE
PROPERTIES DueFires
