\* Two units of data, half-close or close on either side, the listener closing
\* under the connection, the receive queue full or out of memory; and, without
\* data, an RST, timeouts and a device that may refuse a frame.
CONSTANTS
    CPUS = 2
    Units <- TwoUnits
    SEQ_MOD = 16
    Isns <- OneAttempt
    RX_LIMIT = 1
    RETRY_LIMIT = 1
    BACKLOG = 1
    WINDOW = 2
    Resets = {}
    DeviceOk = {TRUE}
    MemoryOk = {TRUE, FALSE}
    Shutdowns <- HalfClose
SPECIFICATION PartSpec
INVARIANTS UnitsQueuedOnce AckedWasTaken BacklogExact
CHECK_DEADLOCK FALSE
