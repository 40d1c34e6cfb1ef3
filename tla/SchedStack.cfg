\* Two CPUs: p2 is queued before its context is saved, and stolen.
CONSTANTS
    NCpu = 2
    Procs = {p1, p2}
    Idle = Idle
    None = None
    Masks <- MixedMasks
    Blockers = {p1}
SPECIFICATION Spec
INVARIANT ExecutingHasOnCpu
CHECK_DEADLOCK TRUE
