------------------------------ MODULE ProcLife ------------------------------
(***************************************************************************)
(* The life of a process: fork, exit, wait, kill and reaping, with the     *)
(* family links cptr/optr/yptr (kern/process/proc.c).                      *)
(*                                                                         *)
(* A step is a critical section under proc_lock.  wakeup_proc calls that   *)
(* the code makes after it has dropped proc_lock are kept as "owed" (by a  *)
(* process) or "cpu_owed" (by the CPU in proc_switch_complete); they hold  *)
(* a bare pointer, so the process may be freed before the call is made.    *)
(* The two halves of wakeup_proc are one step here: Sched has them apart.  *)
(***************************************************************************)
EXTENDS Integers, FiniteSets, Sequences, ProcLimits

CONSTANTS
    Procs,          (* proc_struct slots, init included                    *)
    init,           (* initproc                                            *)
    None,           (* NULL, and "any child" as an argument of do_wait     *)
    Waiters,        (* processes that call do_wait                         *)
    Killable,       (* processes that get signals they do not ignore       *)
    Movable         (* processes that more than one CPU may run            *)

ASSUME ProcLifeAssumption ==
    /\ init \in Procs /\ None \notin Procs /\ IsFiniteSet(Procs)
    /\ MAX_PROCESS \in Nat /\ MAX_PROCESS >= 2
    /\ Waiters \subseteq Procs /\ Killable \subseteq Procs \ {init} /\ Movable \subseteq Procs

VARIABLES
    state,      (* proc->state, or FREE for an unallocated slot            *)
    parent, cptr, optr, yptr,
    wait_state, (* 0 or WT_CHILD                                           *)
    where,      (* cpu: some CPU executes the process; switching: its CPU  *)
                (* has left schedule() but not done proc_switch_complete,  *)
                (* so it may still be on the process's stack; off: neither *)
    on_cpu, queued, (* proc->on_cpu and proc->on_rq                        *)
    late,       (* taken over by a CPU while another one was switching;    *)
                (* that one's proc_switch_complete is still to come        *)
    sig,        (* signal_should_interrupt(p)                              *)
    pc, arg,    (* position in the kernel, argument of do_wait             *)
    owed, cpu_owed,
    nr_process,
    broken      (* history: wakeup_proc was called on a freed process, one *)
                (* was freed that a CPU or a run queue still held, or a    *)
                (* process was run that was running or was not runnable    *)

links == <<parent, cptr, optr, yptr>>
run == <<where, on_cpu, queued, late>>
vars == <<state, links, wait_state, run, sig, pc, arg, owed, cpu_owed, nr_process, broken>>

(* forking: slot reserved in nr_process; wait: at do_wait's repeat label;  *)
(* scan: past its signal check; slept: WT_CHILD published, schedule() not  *)
(* yet returned; dead: do_exit is done; killing: do_kill_signal before its *)
(* wakeup_proc.                                                            *)
PCs == {"user", "forking", "killing", "wait", "scan", "slept", "dead"}

TypeOK ==
    /\ state \in [Procs -> {"FREE", "UNINIT", "RUNNABLE", "SLEEPING", "ZOMBIE"}]
    /\ \A f \in {parent, cptr, optr, yptr, arg} : f \in [Procs -> Procs \cup {None}]
    /\ wait_state \in [Procs -> {"0", "CHILD"}]
    /\ where \in [Procs -> {"cpu", "switching", "off"}]
    /\ on_cpu \in [Procs -> BOOLEAN] /\ queued \in [Procs -> BOOLEAN]
    /\ late \subseteq Procs
    /\ sig \in [Procs -> BOOLEAN]
    /\ pc \in [Procs -> PCs]
    /\ owed \in [Procs -> SUBSET Procs]
    /\ cpu_owed \subseteq Procs
    /\ nr_process \in 0 .. MAX_PROCESS
    /\ broken \in BOOLEAN

(* proc_init: idle and init exist.                                         *)
Init ==
    /\ state = [p \in Procs |-> IF p = init THEN "RUNNABLE" ELSE "FREE"]
    /\ parent = [p \in Procs |-> None] /\ cptr = parent /\ optr = parent /\ yptr = parent
    /\ wait_state = [p \in Procs |-> "0"]
    /\ where = [p \in Procs |-> IF p = init THEN "cpu" ELSE "off"]
    /\ on_cpu = [p \in Procs |-> p = init] /\ queued = [p \in Procs |-> FALSE]
    /\ late = {}
    /\ sig = [p \in Procs |-> FALSE]
    /\ pc = [p \in Procs |-> "user"]
    /\ arg = [p \in Procs |-> None]
    /\ owed = [p \in Procs |-> {}]
    /\ cpu_owed = {}
    /\ nr_process = 2
    /\ broken = FALSE
-----------------------------------------------------------------------------
(* No CPU and no run queue holds p any more.                               *)
OffCpu(p) == where[p] = "off" /\ ~queued[p] /\ p \notin late

(* p executes kernel code at position c, with no wakeup_proc call pending. *)
At(p, c) == ~broken /\ where[p] = "cpu" /\ pc[p] = c /\ owed[p] = {}
Goto(p, c) == pc' = [pc EXCEPT ![p] = c]

(* The list of children, newest first, as do_wait walks it.                *)
ChildList(p) ==
    LET walk[n \in 0 .. Cardinality(Procs)] ==
            IF n = 0 THEN <<>>
            ELSE LET s == walk[n - 1]
                     q == IF s = <<>> THEN cptr[p] ELSE optr[s[Len(s)]]
                 IN  IF q = None THEN s ELSE Append(s, q)
    IN  walk[Cardinality(Procs)]

Bug_NoOnCpuTest(p) == state[p] = "ZOMBIE"

(* A zombie is reaped only when on_cpu is clear, which is to say that its  *)
(* CPU has left its kernel stack.                                          *)
Reapable(p) == state[p] = "ZOMBIE" /\ ~on_cpu[p]
MayFork == nr_process < MAX_PROCESS
(* remove_links and the cleanup of a failed fork give the slot back.       *)
Released == nr_process - 1
-----------------------------------------------------------------------------
(* do_fork: reserve, then either fail and give back, or publish the child. *)
ForkReserve(p) ==
    /\ At(p, "user")
    /\ MayFork
    /\ nr_process' = nr_process + 1
    /\ Goto(p, "forking")
    /\ UNCHANGED <<state, links, wait_state, run, sig, arg, owed, cpu_owed, broken>>

ForkFail(p) ==
    /\ At(p, "forking")
    /\ nr_process' = Released
    /\ Goto(p, "user")
    /\ UNCHANGED <<state, links, wait_state, run, sig, arg, owed, cpu_owed, broken>>

(* get_pid, hash_proc, set_links; wakeup_proc(child) comes after the lock. *)
ForkLink(p, c) ==
    /\ At(p, "forking")
    /\ state[c] = "FREE"
    /\ state' = [state EXCEPT ![c] = "UNINIT"]
    /\ parent' = [parent EXCEPT ![c] = p]
    /\ optr' = [optr EXCEPT ![c] = cptr[p]]
    /\ yptr' = [q \in Procs |-> IF q = c THEN None ELSE IF q = cptr[p] THEN c ELSE yptr[q]]
    /\ cptr' = [cptr EXCEPT ![p] = c, ![c] = None]
    /\ sig' = [sig EXCEPT ![c] = FALSE]
    /\ pc' = [pc EXCEPT ![p] = "user", ![c] = "user"]
    /\ owed' = [owed EXCEPT ![p] = {c}]
    /\ UNCHANGED <<wait_state, run, arg, cpu_owed, nr_process, broken>>
-----------------------------------------------------------------------------
(* do_exit, the critical section: zombie, SIGCHLD (ignored or caught by    *)
(* the parent), reparenting.                                               *)

Woken(q) == wait_state[q] = "CHILD"

(* The loop moves the children one by one to the head of init's list.      *)
NewChildren(p) == ChildList(p)
Head0(s, old) == IF s = <<>> THEN old ELSE s[Len(s)]

Bug_ForgetZombies(p) == FALSE
(* A zombie among the orphans wakes init.                                  *)
OrphanZombie(p) == \E i \in DOMAIN NewChildren(p) : state[NewChildren(p)[i]] = "ZOMBIE"

Bug_KeepParent(p) == parent
Adopted(p) ==
    [q \in Procs |-> IF \E i \in DOMAIN NewChildren(p) : NewChildren(p)[i] = q THEN init ELSE parent[q]]

(* optr and yptr after the splice: s[1] ends up deepest.                   *)
SpliceOptr(s) ==
    [q \in Procs |->
        IF \E i \in DOMAIN s : s[i] = q
        THEN LET i == CHOOSE j \in DOMAIN s : s[j] = q
             IN  IF i = 1 THEN cptr[init] ELSE s[i - 1]
        ELSE optr[q]]
Bug_YptrNotSet(s) ==
    [q \in Procs |-> IF \E i \in DOMAIN s : s[i] = q THEN None ELSE yptr[q]]
SpliceYptr(s) ==
    [q \in Procs |->
        IF \E i \in DOMAIN s : s[i] = q
        THEN LET i == CHOOSE j \in DOMAIN s : s[j] = q
             IN  IF i = Len(s) THEN None ELSE s[i + 1]
        ELSE IF s # <<>> /\ q = cptr[init] THEN s[1] ELSE yptr[q]]

Exit(p) ==
    LET s == NewChildren(p)
        wakes == {q \in Procs : Woken(q) /\ (q = parent[p] \/ (q = init /\ OrphanZombie(p)))}
    IN  /\ At(p, "user") /\ p # init
        /\ \/ UNCHANGED sig
           \/ parent[p] \in Killable /\ sig' = [sig EXCEPT ![parent[p]] = TRUE]
        /\ state' = [q \in Procs |-> IF q = p THEN "ZOMBIE" ELSE IF q \in wakes THEN "RUNNABLE" ELSE state[q]]
        /\ wait_state' = [q \in Procs |-> IF q \in wakes THEN "0" ELSE wait_state[q]]
        /\ parent' = Adopted(p)
        /\ optr' = SpliceOptr(s)
        /\ yptr' = SpliceYptr(s)
        /\ cptr' = [cptr EXCEPT ![p] = None, ![init] = Head0(s, @)]
        /\ owed' = [owed EXCEPT ![p] = wakes]
        /\ Goto(p, "dead")
        /\ UNCHANGED <<run, arg, cpu_owed, nr_process, broken>>
-----------------------------------------------------------------------------
(* do_wait(pid): a is the child waited for, None for any.                  *)
WaitBegin(p, a) ==
    /\ At(p, "user") /\ p \in Waiters
    /\ arg' = [arg EXCEPT ![p] = a]
    /\ Goto(p, "wait")
    /\ UNCHANGED <<state, links, wait_state, run, sig, owed, cpu_owed, nr_process, broken>>

Candidates(p) ==
    IF arg[p] = None THEN ChildList(p)
    ELSE IF parent[arg[p]] = p /\ state[arg[p]] # "FREE" THEN <<arg[p]>> ELSE <<>>

WaitDone(p) == Goto(p, "user") /\ arg' = [arg EXCEPT ![p] = None]

(* The signal check at the repeat label and after schedule(): -E_INTR, or  *)
(* on to the scan.  It is made before proc_lock is taken.                  *)
WaitInterrupted(p) ==
    /\ At(p, "wait") /\ sig[p]
    /\ WaitDone(p)
    /\ UNCHANGED <<state, links, wait_state, run, sig, owed, cpu_owed, nr_process, broken>>

WaitNoSignal(p) ==
    /\ At(p, "wait") /\ ~sig[p]
    /\ Goto(p, "scan")
    /\ UNCHANGED <<state, links, wait_state, run, sig, arg, owed, cpu_owed, nr_process, broken>>

(* The first reapable child in list order: remove_links, unhash, kfree.    *)
WaitReap(p) ==
    LET s == Candidates(p) IN
    /\ At(p, "scan")
    /\ \E i \in DOMAIN s :
        /\ Reapable(s[i]) /\ \A j \in 1 .. i - 1 : ~Reapable(s[j])
        /\ LET c == s[i] IN
           /\ state' = [state EXCEPT ![c] = "FREE"]
           /\ optr' = [q \in Procs |-> IF q = c THEN None
                                       ELSE IF yptr[c] = q THEN optr[c] ELSE optr[q]]
           /\ yptr' = [q \in Procs |-> IF q = c THEN None
                                       ELSE IF optr[c] = q THEN yptr[c] ELSE yptr[q]]
           /\ cptr' = IF yptr[c] = None THEN [cptr EXCEPT ![parent[c]] = optr[c]] ELSE cptr
           /\ parent' = [parent EXCEPT ![c] = None]
           /\ sig' = [sig EXCEPT ![c] = FALSE]
           /\ pc' = [pc EXCEPT ![p] = "user", ![c] = "user"]
           /\ broken' = ~OffCpu(c)
    /\ arg' = [arg EXCEPT ![p] = None]
    /\ nr_process' = Released
    /\ UNCHANGED <<wait_state, run, owed, cpu_owed>>

(* Children, but none reapable: sleep as WT_CHILD, or return with WNOHANG. *)
WaitSleep(p) ==
    LET s == Candidates(p) IN
    /\ At(p, "scan")
    /\ s # <<>> /\ \A i \in DOMAIN s : ~Reapable(s[i])
    /\ state' = [state EXCEPT ![p] = "SLEEPING"]
    /\ wait_state' = [wait_state EXCEPT ![p] = "CHILD"]
    /\ Goto(p, "slept")
    /\ UNCHANGED <<links, run, sig, arg, owed, cpu_owed, nr_process, broken>>

WaitReturns(p) ==
    LET s == Candidates(p) IN
    /\ At(p, "scan")
    /\ \A i \in DOMAIN s : ~Reapable(s[i])
    /\ s = <<>> \/ p # init
    /\ WaitDone(p)
    /\ UNCHANGED <<state, links, wait_state, run, sig, owed, cpu_owed, nr_process, broken>>
-----------------------------------------------------------------------------
(* schedule(), called by do_wait, by do_exit and on the way to user mode.  *)
(* A runnable caller goes on, or is queued and its CPU takes another.      *)
CallSchedule(p) ==
    /\ At(p, "user") \/ At(p, "slept") \/ At(p, "dead")
    /\ \/ /\ state[p] = "RUNNABLE" /\ pc[p] = "slept"
          /\ Goto(p, "wait")
          /\ UNCHANGED <<where, queued>>
       \/ /\ where' = [where EXCEPT ![p] = "switching"]
          /\ queued' = [queued EXCEPT ![p] = @ \/ state[p] = "RUNNABLE"]
          /\ UNCHANGED pc
    /\ UNCHANGED <<state, links, wait_state, on_cpu, late, sig, arg, owed, cpu_owed, nr_process, broken>>

(* What proc_switch_complete must wake: p itself if a waker found on_cpu   *)
(* set, p's parent if it went back to sleep because the zombie was on_cpu. *)
SwitchWakes(p) ==
    {q \in Procs : \/ q = p /\ state[p] = "RUNNABLE" /\ ~queued[p]
                   \/ q = parent[p] /\ state[p] = "ZOMBIE" /\ wait_state[q] = "CHILD"}

(* proc_switch_complete, on the CPU that has left p; by then another CPU   *)
(* may have taken p from the run queue (SwitchCompleteLate).               *)
Retires(p) ==
    /\ on_cpu' = [on_cpu EXCEPT ![p] = FALSE]
    /\ cpu_owed' = cpu_owed \cup SwitchWakes(p)
    /\ UNCHANGED <<state, links, wait_state, queued, sig, pc, arg, owed, nr_process>>

SwitchComplete(p) ==
    /\ ~broken /\ where[p] = "switching"
    /\ where' = [where EXCEPT ![p] = "off"]
    /\ Retires(p)
    /\ UNCHANGED <<late, broken>>

SwitchCompleteLate(p) ==
    /\ ~broken /\ p \in late
    /\ late' = late \ {p}
    /\ Retires(p)
    /\ UNCHANGED <<where, broken>>

(* schedule() on a CPU that picks p, from its own queue or by stealing it: *)
(* nothing tells whether a CPU is still on p's stack.  At most one CPU is  *)
(* late for a process at a time.                                           *)
Dispatch(p) ==
    /\ ~broken /\ queued[p]
    /\ where[p] = "off" \/ (p \in Movable /\ p \notin late)
    /\ queued' = [queued EXCEPT ![p] = FALSE]
    /\ on_cpu' = [on_cpu EXCEPT ![p] = TRUE]
    /\ where' = [where EXCEPT ![p] = "cpu"]
    /\ late' = IF where[p] = "switching" THEN late \cup {p} ELSE late
    /\ broken' = (where[p] = "cpu" \/ state[p] # "RUNNABLE")
    /\ Goto(p, IF pc[p] = "slept" THEN "wait" ELSE pc[p])
    /\ UNCHANGED <<state, links, wait_state, sig, arg, owed, cpu_owed, nr_process>>
-----------------------------------------------------------------------------
(* wait_state after wakeup_proc made a sleeper runnable.                   *)
WaitStateCleared(q) == IF state[q] \in {"UNINIT", "SLEEPING"} THEN "0" ELSE wait_state[q]

(* wakeup_proc(q).                                                         *)
WakeupProc(q) ==
    LET runs == state[q] \in {"UNINIT", "SLEEPING", "RUNNABLE"} IN
    /\ state' = [state EXCEPT ![q] = IF runs THEN "RUNNABLE" ELSE @]
    /\ wait_state' = [wait_state EXCEPT ![q] = WaitStateCleared(q)]
    /\ queued' = [queued EXCEPT ![q] = @ \/ (runs /\ ~on_cpu[q])]
    /\ broken' = (state[q] = "FREE")
    /\ UNCHANGED <<where, on_cpu, late>>

OwedWake(p, q) ==
    /\ ~broken /\ where[p] = "cpu" /\ q \in owed[p]
    /\ owed' = [owed EXCEPT ![p] = @ \ {q}]
    /\ pc' = [pc EXCEPT ![p] = IF @ = "killing" THEN "user" ELSE @]
    /\ WakeupProc(q)
    /\ UNCHANGED <<links, sig, arg, cpu_owed, nr_process>>

CpuWake(q) ==
    /\ ~broken /\ q \in cpu_owed
    /\ cpu_owed' = cpu_owed \ {q}
    /\ WakeupProc(q)
    /\ UNCHANGED <<links, sig, pc, arg, owed, nr_process>>

(* do_kill_signal: publishes RUNNABLE under the lock, wakes afterwards.    *)
Kill(k, q) ==
    LET wake == wait_state[q] = "CHILD" IN
    /\ At(k, "user") /\ q \in Killable
    /\ state[q] \notin {"FREE", "ZOMBIE"}
    /\ sig' = [sig EXCEPT ![q] = TRUE]
    /\ state' = [state EXCEPT ![q] = IF wake THEN "RUNNABLE" ELSE @]
    /\ wait_state' = [wait_state EXCEPT ![q] = IF wake THEN "0" ELSE @]
    /\ owed' = [owed EXCEPT ![k] = IF wake THEN {q} ELSE {}]
    /\ pc' = [pc EXCEPT ![k] = IF wake THEN "killing" ELSE @]
    /\ UNCHANGED <<links, run, arg, cpu_owed, nr_process, broken>>

(* A handler runs; the default action is Exit.                             *)
SignalHandled(p) ==
    /\ At(p, "user") /\ sig[p]
    /\ sig' = [sig EXCEPT ![p] = FALSE]
    /\ UNCHANGED <<state, links, wait_state, run, pc, arg, owed, cpu_owed, nr_process, broken>>

(* Nothing that follows is defined.                                        *)
Corrupted == broken /\ UNCHANGED vars
-----------------------------------------------------------------------------
WaitStep(p) == WaitInterrupted(p) \/ WaitNoSignal(p) \/ WaitReap(p) \/ WaitSleep(p) \/ WaitReturns(p)
ForkStep(p) == ForkFail(p) \/ \E c \in Procs : ForkLink(p, c)

Next ==
    \/ \E p \in Procs :
        \/ ForkReserve(p) \/ ForkStep(p) \/ Exit(p)
        \/ WaitStep(p) \/ CallSchedule(p) \/ SwitchComplete(p) \/ SwitchCompleteLate(p) \/ Dispatch(p)
        \/ SignalHandled(p) \/ CpuWake(p)
        \/ \E q \in Procs : OwedWake(p, q) \/ Kill(p, q)
        \/ \E a \in Procs \cup {None} : (p = init => a = None) /\ WaitBegin(p, a)
    \/ Corrupted

Spec == Init /\ [][Next]_vars
-----------------------------------------------------------------------------
Live == {p \in Procs : state[p] # "FREE"}

(* do_wait frees the kernel stack once on_cpu is clear: no CPU is on a     *)
(* stack that has been freed, none has yet to clear the on_cpu of a freed  *)
(* process, and no run queue links one, if the process keeps to one CPU.   *)
(* It fails for Movable ones, as on_cpu is then clear too early.           *)
FreedIsOffCpu ==
    \A p \in Procs \ Movable : state[p] = "FREE" => OffCpu(p)

(* Every process hangs below a live parent that is not a zombie: orphans   *)
(* are handed to init before their parent can be reaped.                   *)
ParentCanWait ==
    \A p \in Live \ {init} :
        parent[p] \in Live /\ state[parent[p]] # "ZOMBIE"

(* The cptr/optr list of a process holds exactly its children, each once,  *)
(* and yptr is the inverse of optr: do_wait(0) misses nobody.              *)
ChildListsExact ==
    \A p \in Live :
        LET s == ChildList(p) IN
        /\ {s[i] : i \in DOMAIN s} = {q \in Live \ {init} : parent[q] = p}
        /\ \A i \in DOMAIN s : yptr[s[i]] = IF i = 1 THEN None ELSE s[i - 1]
        /\ Len(s) = Cardinality({s[i] : i \in DOMAIN s})

(* The child a process waits for in do_wait.                               *)
WaitsFor(p, c) == parent[c] = p /\ arg[p] \in {None, c} /\ state[c] # "FREE"

(* Whoever sleeps in do_wait and has a child it could reap is about to be  *)
(* woken: neither the wake-up by do_exit, which may come while the zombie  *)
(* is still on its CPU, nor the second one, by proc_switch_complete, nor   *)
(* the one init gets for a zombie it inherits is missed.                   *)
NoZombieUnnoticed ==
    \A p, c \in Procs :
        (wait_state[p] = "CHILD" /\ WaitsFor(p, c) /\ Reapable(c))
            => p \in cpu_owed \/ \E k \in Procs : p \in owed[k]
=============================================================================
