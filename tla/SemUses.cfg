\* The three ways the kernel uses a semaphore, under fairness.
CONSTANTS
    p1 = p1
    p2 = p2
    p3 = p3
    Procs = {p1, p2, p3}
    None = None
    Uses <- AllUses
SPECIFICATION FairSpec
INVARIANTS NoSleeperWithToken QueuedFramesLive
PROPERTIES ImplementsCounting DownReturns
CHECK_DEADLOCK TRUE
