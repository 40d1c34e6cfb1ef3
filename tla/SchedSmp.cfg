\* Two CPUs; p1 pinned to one CPU at a time, p2 free to be stolen and balanced.
CONSTANTS
    NCpu = 2
    Procs = {p1, p2}
    Idle = Idle
    None = None
    Masks <- MixedMasks
    Blockers = {p1}
SPECIFICATION FairSpec
INVARIANTS QueueConsistent NoLostRunnable OnCpuOwned PinnedHandOff
PROPERTIES AffinityHonoured RunnableReachesQueue IdleCpuFindsWork
CHECK_DEADLOCK TRUE
