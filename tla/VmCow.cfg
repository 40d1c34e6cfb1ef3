\* Two threads on two CPUs, a child on a third; tasks switched and handed on.
CONSTANTS
    CPUS = 3
    MMS = {"a", "b"}
    PAGES <- OnePage
    FRAMES = 2
    VALUES = 1
    Prots = {"rw", "none"}
    FirstMm = "a"
    FirstTasks = {0, 1}
    Idlers = {1}
    Callers = {0}
SPECIFICATION Spec
INVARIANTS  TranslationsCurrent FramesExact
CONSTRAINT NoSlip
CHECK_DEADLOCK FALSE
