SPECIFICATION ExSpec
CONSTANTS
    Export = {e1}
    Registered = {e1}
    ExWorker = {w1}
    ExRetryLimit = 1
INVARIANT FailureIsOnRecord
CHECK_DEADLOCK FALSE
