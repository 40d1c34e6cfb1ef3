\* One thread, a child, and mprotect to read-only and back.
CONSTANTS
    CPUS = 2
    MMS = {"a", "b"}
    PAGES <- OnePage
    FRAMES = 2
    VALUES = 1
    Prots = {"rw", "r"}
    FirstMm = "a"
    FirstTasks = {0}
    Idlers = {}
    Callers = {0}
SPECIFICATION Spec
INVARIANT SharedStaysCow
CHECK_DEADLOCK FALSE
