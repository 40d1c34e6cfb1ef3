------------------------------- MODULE Sched -------------------------------
(***************************************************************************)
(* The SMP scheduler of the kernel: run queues, wakeup_proc, schedule,     *)
(* work stealing, balancing, affinity, stop/continue and the context       *)
(* switch hand-off (kern/schedule/sched.c, the run-queue half of           *)
(* default_sched.c, proc_run and proc_switch_complete of proc.c,           *)
(* switch.S).                                                              *)
(*                                                                         *)
(* Every critical section under proc_lock is one step; the run-queue locks *)
(* only nest inside proc_lock.  What happens between two critical sections *)
(* of one CPU is a separate step, so other CPUs interleave there.          *)
(* pick_next_for_cpu is abstracted to any entry allowed on the CPU: the    *)
(* stride arithmetic is data to this module.  IPIs and the time slice only *)
(* decide when need_resched is set: Tick sets it at any moment.            *)
(***************************************************************************)
EXTENDS Integers, FiniteSets

CONSTANTS
    NCpu,       (* sched_ncpu: CPUs are 0 .. NCpu - 1                      *)
    Procs,      (* process slots, the per-CPU idle processes excluded      *)
    Idle,       (* the idle process of whichever CPU holds it (pid 0)      *)
    None,       (* NULL                                                    *)
    Masks,      (* the affinity masks each process is given                *)
    Blockers    (* processes that stop or exit as well as sleep            *)

CPUs == 0 .. NCpu - 1

ASSUME SchedAssumption ==
    /\ NCpu \in Nat \ {0}
    /\ Idle \notin Procs /\ None \notin Procs /\ Idle # None
    /\ \A p \in Procs : Masks[p] \subseteq (SUBSET CPUs) \ {{}}
    /\ Blockers \subseteq Procs
    /\ None \notin CPUs
    /\ IsFiniteSet(Procs)

VARIABLES
    state,          (* proc->state                                         *)
    queue,          (* sched_rq[c].lab6_run_pool as a set; proc_num is its size *)
    rq,             (* proc->rq, with proc->on_rq <=> rq # None            *)
    on_cpu,         (* proc->on_cpu                                        *)
    cpu,            (* proc->cpu                                           *)
    cpu_mask,       (* proc->cpu_mask as a set of CPUs                     *)
    need_resched,   (* proc->need_resched                                  *)
    current,        (* smp_current_procs[c]: whose kernel stack c runs on  *)
    pending,        (* smp_switch_pending[c]                               *)
    pc,             (* where CPU c stands in schedule() and proc_run()     *)
    next,           (* schedule()'s local "next", valid at pc "picked"     *)
    call,           (* stage of the wakeup_proc call CPU c is making       *)
    target          (* its argument                                        *)

procVars == <<state, queue, rq, on_cpu, cpu, cpu_mask, need_resched>>
switchVars == <<current, pending, pc, next>>
wakeVars == <<call, target>>
vars == <<procVars, switchVars, wakeVars>>

States == {"UNINIT", "SLEEPING", "RUNNABLE", "STOPPED", "ZOMBIE"}

(* run: executing current[c]; block: about to call schedule();             *)
(* picked: schedule() dropped proc_lock with a next # prev, still on       *)
(* prev's stack; onstack: on next's stack, prev not yet retired.           *)
PCs == {"run", "block", "picked", "onstack"}

(* no: none in progress; wakeup: about to enter wakeup_proc's first        *)
(* critical section; enqueue: between it and sched_enqueue_proc's.         *)
Calls == {"no", "wakeup", "enqueue"}

TypeOK ==
    /\ state \in [Procs -> States]
    /\ queue \in [CPUs -> SUBSET Procs]
    /\ rq \in [Procs -> CPUs \cup {None}]
    /\ on_cpu \in [Procs -> BOOLEAN]
    /\ cpu \in [Procs -> CPUs]
    /\ cpu_mask \in [Procs -> (SUBSET CPUs) \ {{}}]
    /\ need_resched \in [Procs -> BOOLEAN]
    /\ current \in [CPUs -> Procs \cup {Idle}]
    /\ pending \in [CPUs -> Procs \cup {Idle, None}]
    /\ pc \in [CPUs -> PCs]
    /\ next \in [CPUs -> Procs \cup {Idle}]
    /\ call \in [CPUs -> Calls]
    /\ target \in [CPUs -> Procs \cup {None}]

(* After proc_init and smp_start_cpus: every CPU in its idle process.      *)
Init ==
    /\ state = [p \in Procs |-> "UNINIT"]
    /\ queue = [c \in CPUs |-> {}]
    /\ rq = [p \in Procs |-> None]
    /\ on_cpu = [p \in Procs |-> FALSE]
    /\ cpu = [p \in Procs |-> 0]
    /\ cpu_mask \in [Procs -> (SUBSET CPUs) \ {{}}]
    /\ \A p \in Procs : cpu_mask[p] \in Masks[p]
    /\ need_resched = [p \in Procs |-> FALSE]
    /\ current = [c \in CPUs |-> Idle]
    /\ pending = [c \in CPUs |-> None]
    /\ pc = [c \in CPUs |-> "run"]
    /\ next = [c \in CPUs |-> Idle]
    /\ call = [c \in CPUs |-> "no"]
    /\ target = [c \in CPUs |-> None]
-----------------------------------------------------------------------------
(* Definitions named Bug_... are wrong variants of the definition that     *)
(* follows them; no action uses them.  PROJECT.json lists which property   *)
(* finds each of them out.                                                 *)

(* Queue operations, as functions from (queue, rq, ...) to their new value. *)

Bug_IgnoreMask(p, c, mask) == TRUE
sched_cpu_allowed(p, c, mask) == c \in mask[p]

Enqueued(q, p, c) == [q EXCEPT ![c] = @ \cup {p}]
Dequeued(q, p, c) == [q EXCEPT ![c] = @ \ {p}]

LeastLoaded(p, q, mask) ==
    {c \in mask[p] : \A d \in mask[p] : Cardinality(q[c]) <= Cardinality(q[d])}


(* The scan keeps the first least-loaded CPU, or proc->cpu if it ties.     *)
sched_choose_cpu(p, q, mask) ==
    LET best == LeastLoaded(p, q, mask)
    IN  IF cpu[p] \in best THEN cpu[p]
        ELSE CHOOSE c \in best : \A d \in best : c <= d

Bug_NoOnRqTest(p) == ~on_cpu[p] /\ state[p] = "RUNNABLE"
Bug_NoOnCpuTest(p) == rq[p] = None /\ state[p] = "RUNNABLE"

(* The test sched_enqueue_proc_locked makes under both locks.              *)
MayEnqueue(p) == ~on_cpu[p] /\ rq[p] = None /\ state[p] = "RUNNABLE"

sched_enqueue_proc_locked(p) ==
    IF MayEnqueue(p)
    THEN LET c == sched_choose_cpu(p, queue, cpu_mask)
         IN  /\ queue' = Enqueued(queue, p, c)
             /\ rq' = [rq EXCEPT ![p] = c]
             /\ cpu' = [cpu EXCEPT ![p] = c]
    ELSE UNCHANGED <<queue, rq, cpu>>

(* CPU c executes ordinary code: no context switch, no wakeup in progress. *)
InCode(c) == pc[c] \in {"run", "block"} /\ call[c] = "no"
Runs(c, p) == InCode(c) /\ pc[c] = "run" /\ current[c] = p /\ p \in Procs
-----------------------------------------------------------------------------
(* wakeup_proc(p), first critical section.                                 *)
WakeLocked(c, p) ==
    \/ /\ state[p] \in {"UNINIT", "SLEEPING"}
       /\ state' = [state EXCEPT ![p] = "RUNNABLE"]
       /\ call' = [call EXCEPT ![c] = "enqueue"]
       /\ target' = [target EXCEPT ![c] = p]
    \/ /\ MayEnqueue(p)
       /\ call' = [call EXCEPT ![c] = "enqueue"]
       /\ target' = [target EXCEPT ![c] = p]
       /\ UNCHANGED state
    \/ /\ state[p] \in {"STOPPED", "ZOMBIE"} \/ (state[p] = "RUNNABLE" /\ ~MayEnqueue(p))
       /\ call' = [call EXCEPT ![c] = "no"]
       /\ target' = [target EXCEPT ![c] = None]
       /\ UNCHANGED state

(* Any CPU may wake any process: a semaphore up, a timer, a signal, fork.  *)
Wakeup(c, p) ==
    /\ InCode(c)
    /\ WakeLocked(c, p)
    /\ UNCHANGED <<queue, rq, on_cpu, cpu, cpu_mask, need_resched, switchVars>>

(* A wakeup_proc call whose caller had already left its critical section.  *)
WakeupOwed(c) ==
    /\ call[c] = "wakeup"
    /\ WakeLocked(c, target[c])
    /\ UNCHANGED <<queue, rq, on_cpu, cpu, cpu_mask, need_resched, switchVars>>

(* wakeup_proc's sched_enqueue_proc: proc_lock is taken a second time.     *)
WakeupEnqueue(c) ==
    /\ call[c] = "enqueue"
    /\ sched_enqueue_proc_locked(target[c])
    /\ call' = [call EXCEPT ![c] = "no"]
    /\ target' = [target EXCEPT ![c] = None]
    /\ UNCHANGED <<state, on_cpu, cpu_mask, need_resched, switchVars>>
-----------------------------------------------------------------------------
(* The running process publishes a sleeping state, then calls schedule().  *)
Block(c) ==
    /\ Runs(c, current[c])
    /\ state[current[c]] = "RUNNABLE"
    /\ state' = [state EXCEPT ![current[c]] = "SLEEPING"]
    /\ pc' = [pc EXCEPT ![c] = "block"]
    /\ UNCHANGED <<queue, rq, on_cpu, cpu, cpu_mask, need_resched,
                   current, pending, next, wakeVars>>

(* sched_stop_locked(current) for a default SIGSTOP, then trap() schedules. *)
Stop(c) ==
    LET p == current[c] IN
    /\ Runs(c, p) /\ p \in Blockers
    /\ state[p] = "RUNNABLE"
    /\ state' = [state EXCEPT ![p] = "STOPPED"]
    /\ queue' = IF rq[p] # None THEN Dequeued(queue, p, rq[p]) ELSE queue
    /\ rq' = [rq EXCEPT ![p] = None]
    /\ need_resched' = [need_resched EXCEPT ![p] = TRUE]
    /\ pc' = [pc EXCEPT ![c] = "block"]
    /\ UNCHANGED <<on_cpu, cpu, cpu_mask, current, pending, next, wakeVars>>

(* do_kill_signal of SIGCONT or SIGKILL to a stopped process.              *)
Resume(c, p) ==
    /\ InCode(c)
    /\ state[p] = "STOPPED"
    /\ state' = [state EXCEPT ![p] = "RUNNABLE"]
    /\ need_resched' = [need_resched EXCEPT ![p] = @ \/ on_cpu[p]]
    /\ call' = [call EXCEPT ![c] = "wakeup"]
    /\ target' = [target EXCEPT ![c] = p]
    /\ UNCHANGED <<queue, rq, on_cpu, cpu, cpu_mask, switchVars>>

(* do_exit: the zombie calls schedule() and never returns.                 *)
Exit(c) ==
    /\ Runs(c, current[c]) /\ current[c] \in Blockers
    /\ state[current[c]] = "RUNNABLE"
    /\ state' = [state EXCEPT ![current[c]] = "ZOMBIE"]
    /\ pc' = [pc EXCEPT ![c] = "block"]
    /\ UNCHANGED <<queue, rq, on_cpu, cpu, cpu_mask, need_resched,
                   current, pending, next, wakeVars>>

(* Timer tick, reschedule IPI or do_yield on CPU c.                        *)
Tick(c) ==
    /\ Runs(c, current[c])
    /\ need_resched' = [need_resched EXCEPT ![current[c]] = TRUE]
    /\ UNCHANGED <<state, queue, rq, on_cpu, cpu, cpu_mask, switchVars, wakeVars>>

(* do_setaffinity(p, m) by the code CPU c executes.                        *)
SetAffinity(c, p, m) ==
    /\ InCode(c)
    /\ state[p] # "ZOMBIE"
    /\ cpu_mask' = [cpu_mask EXCEPT ![p] = m]
    /\ IF rq[p] # None /\ rq[p] \notin m
       THEN LET q == Dequeued(queue, p, rq[p])
                d == sched_choose_cpu(p, q, cpu_mask')
            IN  IF state[p] = "RUNNABLE" /\ ~on_cpu[p]
                THEN /\ queue' = Enqueued(q, p, d)
                     /\ rq' = [rq EXCEPT ![p] = d]
                     /\ cpu' = [cpu EXCEPT ![p] = d]
                ELSE /\ queue' = q
                     /\ rq' = [rq EXCEPT ![p] = None]
                     /\ UNCHANGED cpu
       ELSE UNCHANGED <<queue, rq, cpu>>
    /\ need_resched' = [need_resched EXCEPT ![p] = @ \/ (on_cpu[p] /\ cpu'[p] \notin m)]
    /\ UNCHANGED <<state, on_cpu, switchVars, wakeVars>>
-----------------------------------------------------------------------------
(* schedule(): everything it does while it holds proc_lock.                *)

(* prev goes back to the queue of its CPU if it may still run there.       *)
Requeues(c) ==
    LET p == current[c] IN
    /\ p \in Procs
    /\ state[p] = "RUNNABLE"
    /\ sched_cpu_allowed(p, c, cpu_mask)
    /\ rq[p] = None

QueueAfterPrev(c) == IF Requeues(c) THEN Enqueued(queue, current[c], c) ELSE queue
RqAfterPrev(c) == IF Requeues(c) THEN [rq EXCEPT ![current[c]] = c] ELSE rq
CpuAfterPrev(c) == IF Requeues(c) THEN [cpu EXCEPT ![current[c]] = c] ELSE cpu

(* pick_next_for_cpu(&sched_rq[v], c) may return any of these.             *)
Pickable(q, v, c) == {p \in q[v] : sched_cpu_allowed(p, c, cpu_mask)}

(* The local queue first, then sched_steal's ring of victims, then idle.   *)
Ring(c, i) == (c + i) % NCpu
Bug_NoSteal(q, c) == {i \in {0} : Pickable(q, c, c) # {}}
PickFrom(q, c) ==
    {i \in 0 .. NCpu - 1 :
        /\ Pickable(q, Ring(c, i), c) # {}
        /\ \A j \in 0 .. i - 1 : Pickable(q, Ring(c, j), c) = {}}

MarkPrev(c, nr) ==
    IF current[c] \in Procs THEN [nr EXCEPT ![current[c]] = FALSE] ELSE nr

Leave(c, p) ==
    IF p = current[c]
    THEN /\ pc' = [pc EXCEPT ![c] = "run"]
         /\ UNCHANGED next
    ELSE /\ pc' = [pc EXCEPT ![c] = "picked"]
         /\ next' = [next EXCEPT ![c] = p]

(* A blocked process calls schedule(); a running one only from trap() with *)
(* need_resched set; the idle loop whenever a tick asks for it.            *)
MayCallSchedule(c) ==
    /\ InCode(c)
    /\ \/ pc[c] = "block"
       \/ current[c] = Idle
       \/ current[c] \in Procs /\ need_resched[current[c]]

SchedulePick(c, i, p) ==
    LET q == QueueAfterPrev(c)
        v == Ring(c, i)
    IN  /\ MayCallSchedule(c)
        /\ i \in PickFrom(q, c)
        /\ p \in Pickable(q, v, c)
        /\ queue' = Dequeued(q, p, v)
        /\ rq' = [RqAfterPrev(c) EXCEPT ![p] = None]
        /\ cpu' = [CpuAfterPrev(c) EXCEPT ![p] = c]
        /\ on_cpu' = [on_cpu EXCEPT ![p] = TRUE]
        /\ need_resched' = MarkPrev(c, need_resched)
        /\ Leave(c, p)
        /\ UNCHANGED <<state, cpu_mask, current, pending, wakeVars>>

ScheduleIdle(c) ==
    /\ MayCallSchedule(c)
    /\ PickFrom(QueueAfterPrev(c), c) = {}
    /\ need_resched' = MarkPrev(c, need_resched)
    /\ Leave(c, Idle)
    /\ UNCHANGED <<state, queue, rq, on_cpu, cpu, cpu_mask, current, pending, wakeVars>>

(* proc_run and switch_to up to the move onto next's stack.                *)
proc_run(c) ==
    /\ pc[c] = "picked"
    /\ pending' = [pending EXCEPT ![c] = current[c]]
    /\ current' = [current EXCEPT ![c] = next[c]]
    /\ pc' = [pc EXCEPT ![c] = "onstack"]
    /\ UNCHANGED <<procVars, next, wakeVars>>

Bug_NeverRequeue(p) == FALSE
Bug_KeepOnCpu(p) == on_cpu

(* The two things proc_switch_complete does to the outgoing process.       *)
NeedsRequeue(p) == p \in Procs /\ state[p] = "RUNNABLE" /\ rq[p] = None
Retired(p) == IF p \in Procs THEN [on_cpu EXCEPT ![p] = FALSE] ELSE on_cpu

(* proc_switch_complete, called by switch_to on the incoming stack.        *)
proc_switch_complete(c) ==
    LET p == pending[c]
    IN  /\ pc[c] = "onstack"
        /\ pending' = [pending EXCEPT ![c] = None]
        /\ on_cpu' = Retired(p)
        /\ pc' = [pc EXCEPT ![c] = "run"]
        /\ IF NeedsRequeue(p)
           THEN /\ call' = [call EXCEPT ![c] = "wakeup"]
                /\ target' = [target EXCEPT ![c] = p]
           ELSE UNCHANGED wakeVars
        /\ UNCHANGED <<state, queue, rq, cpu, cpu_mask, need_resched, current, next>>

(* sched_balance on CPU 0's tick: one entry from the busiest queue to the  *)
(* idlest when they differ by more than one.                               *)
sched_balance(b, t, p) ==
    LET load(c) == Cardinality(queue[c])
    IN  /\ InCode(0)
        /\ b = CHOOSE c \in CPUs : \A d \in CPUs :
                 load(d) < load(c) \/ (load(d) = load(c) /\ c <= d)
        /\ t = CHOOSE c \in CPUs : \A d \in CPUs :
                 load(c) < load(d) \/ (load(d) = load(c) /\ c <= d)
        /\ load(b) > load(t) + 1
        /\ p \in Pickable(queue, b, t)
        /\ queue' = Enqueued(Dequeued(queue, p, b), p, t)
        /\ rq' = [rq EXCEPT ![p] = t]
        /\ cpu' = [cpu EXCEPT ![p] = t]
        /\ UNCHANGED <<state, on_cpu, cpu_mask, need_resched, switchVars, wakeVars>>
-----------------------------------------------------------------------------
Schedule(c) ==
    \/ \E i \in 0 .. NCpu - 1, p \in Procs : SchedulePick(c, i, p)
    \/ ScheduleIdle(c)

Next ==
    \/ \E c \in CPUs :
        \/ \E p \in Procs : Wakeup(c, p) \/ Resume(c, p)
        \/ WakeupOwed(c) \/ WakeupEnqueue(c)
        \/ Block(c) \/ Stop(c) \/ Exit(c) \/ Tick(c)
        \/ \E p \in Procs : \E m \in Masks[p] : SetAffinity(c, p, m)
        \/ Schedule(c) \/ proc_run(c) \/ proc_switch_complete(c)
    \/ \E b, t \in CPUs, p \in Procs : sched_balance(b, t, p)

(* A CPU finishes the code it is in; nobody is obliged to sleep, to exit,  *)
(* to wake or to stop anybody.  Strong fairness on schedule(): wakeup_proc *)
(* calls come between a tick and the return to user mode (or to the idle   *)
(* loop), which is reached again and again and tests need_resched.         *)
Continue(c) ==
    WakeupOwed(c) \/ WakeupEnqueue(c) \/ proc_run(c) \/ proc_switch_complete(c)

Fairness == \A c \in CPUs : WF_vars(Continue(c)) /\ SF_vars(Schedule(c))

Spec == Init /\ [][Next]_vars

FairSpec == Spec /\ Fairness
-----------------------------------------------------------------------------
(* A CPU making a wakeup_proc call has a process to wake and is not in the *)
(* middle of a context switch: interrupts are off from schedule() to the   *)
(* end of proc_switch_complete.                                            *)
CallOK ==
    \A c \in CPUs : call[c] # "no" => target[c] \in Procs /\ pc[c] \in {"run", "block"}

(* A process is linked in the run queue its rq pointer names and in no     *)
(* other: two insertions of one skew-heap node, or a removal from a heap   *)
(* that does not hold it, corrupt the heap.                                *)
QueueConsistent ==
    \A p \in Procs, c \in CPUs : p \in queue[c] <=> rq[p] = c

(* "Ensure that this runnable process still reaches a run queue": a        *)
(* runnable process is queued, or owned by a CPU, or some CPU is between   *)
(* the two halves of a wakeup_proc call that will look at it.              *)
NoLostRunnable ==
    \A p \in Procs : state[p] = "RUNNABLE" =>
        \/ rq[p] # None
        \/ on_cpu[p]
        \/ \E c \in CPUs : call[c] # "no" /\ target[c] = p

(* on_cpu is backed by a CPU that runs the process, has picked it or still *)
(* has to retire it, so it is eventually cleared and never leaks.          *)
OnCpuOwned ==
    \A p \in Procs : on_cpu[p] =>
        \E c \in CPUs : \/ current[c] = p
                        \/ pc[c] = "picked" /\ next[c] = p
                        \/ pc[c] = "onstack" /\ pending[c] = p

(* proc.h: on_cpu says "process is currently executing on a CPU": no CPU   *)
(* executes on the kernel stack of a process whose on_cpu is clear.        *)
ExecutingHasOnCpu ==
    \A c \in CPUs : current[c] \in Procs => on_cpu[current[c]]

(* A process that may use one CPU at a time (which one may change) cannot  *)
(* be stolen, and is handed over soundly: one CPU on its kernel stack,     *)
(* with on_cpu set, and no queue entry once it sleeps, stops or exits.     *)
Pinned(p) == \A m \in Masks[p] : Cardinality(m) = 1

PinnedHandOff ==
    \A p \in Procs : Pinned(p) =>
        /\ \A c, d \in CPUs : current[c] = p => on_cpu[p] /\ (current[d] = p => c = d)
        /\ rq[p] # None => state[p] = "RUNNABLE"

(* "So the task is not left runnable but absent from every run queue": a   *)
(* runnable process outside every queue and off every CPU gets queued or   *)
(* picked, whichever half-finished wakeup_proc, hand-off, stop or affinity *)
(* change raced with it.                                                   *)
RunnableReachesQueue ==
    \A p \in Procs :
        (state[p] = "RUNNABLE" /\ rq[p] = None /\ ~on_cpu[p])
            ~> (rq[p] # None \/ on_cpu[p] \/ state[p] # "RUNNABLE")

(* sched_steal: an idle CPU does not stay idle while any process it may    *)
(* run waits in any queue.                                                 *)
IdleCpuFindsWork ==
    \A c \in CPUs :
        (current[c] = Idle /\ \E p \in Procs : rq[p] # None /\ c \in cpu_mask[p])
            ~> (current[c] # Idle \/ \A p \in Procs : rq[p] = None \/ c \notin cpu_mask[p])

(* do_setaffinity takes effect: no CPU stays for ever with processes whose *)
(* masks exclude it.                                                       *)
AffinityHonoured ==
    \A c \in CPUs :
        (current[c] \in Procs /\ c \notin cpu_mask[current[c]])
            ~> (current[c] = Idle \/ c \in cpu_mask[current[c]])
=============================================================================
