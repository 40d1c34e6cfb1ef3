\* Sleeps and futex waits with and without a timeout, signals, a waker and a
\* semaphore wait meet.
CONSTANTS
    a = a
    b = b
    c = c
    Procs = {a, b, c}
    None = None
    Times <- Sleeps
    Timeouts <- FutexTimes
    COUNT = 3
    Signalled = {a}
    Downers = {a}
SPECIFICATION FutexFairSpec
INVARIANTS LinkedTimersLive NeverLate NoLostFutexWake WaitersLive
PROPERTY TimedWaitEnds
