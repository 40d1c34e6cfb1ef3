\* The end of the stream beside a poller that still holds data.
CONSTANTS
    CPUS = 2
    Units <- TwoUnits
    SEQ_MOD = 16
    Isns <- OneAttempt
    RX_LIMIT = 2
    RETRY_LIMIT = 1
    BACKLOG = 1
    WINDOW = 2
    Resets = {}
    DeviceOk = {TRUE}
    MemoryOk = {TRUE}
    Shutdowns <- HalfClose
SPECIFICATION DataSpec
INVARIANT EofComesLast
CHECK_DEADLOCK FALSE
