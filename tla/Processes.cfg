\* Chains, siblings and orphans; a process that is stolen; ids that run out.
CONSTANTS
    init = init
    Procs = {init, a, b, c}
    None = None
    MAX_PROCESS = 5
    MAX_PID = 6
    Waiters = {init, a}
    Killable = {a}
    Movable = {a}
SPECIFICATION PartSpec
INVARIANTS ParentCanWait ChildListsExact NoZombieUnnoticed FreedIsOffCpu PidsUnique SafeWindow
PROPERTY GetPidReturns
CHECK_DEADLOCK TRUE
