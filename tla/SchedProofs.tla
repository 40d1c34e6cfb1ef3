---------------------------- MODULE SchedProofs ----------------------------
(***************************************************************************)
(* Proofs about Sched for any number of CPUs, any finite set of processes  *)
(* and any set of affinity masks.                                          *)
(***************************************************************************)
EXTENDS Sched, FiniteSetTheorems, WellFoundedInduction, TLAPS

(* A non-empty set of natural numbers has a least element: the load scans  *)
(* of sched_choose_cpu and sched_balance always end with a candidate.      *)
LEMMA NatMin ==
    ASSUME NEW T, T \subseteq Nat, T # {}
    PROVE  \E x \in T : \A y \in T : x <= y
<1>1. PICK x \in T : \A y \in T : ~ (<<y, x>> \in OpToRel(<, Nat))
    BY WFMin, NatLessThanWellFounded
<1>2. \A y \in T : ~ (y < x)
    <2> TAKE y \in T
    <2>1. y \in Nat /\ x \in Nat
        OBVIOUS
    <2>2. <<y, x>> \in Nat \X Nat
        BY <2>1
    <2> QED
        BY <1>1, <2>1, <2>2 DEF OpToRel
<1> QED
    BY <1>2

(* sched_choose_cpu returns a CPU the process is allowed on.               *)
LEMMA ChooseCpuAllowed ==
    ASSUME TypeOK, NEW p \in Procs,
           NEW q \in [CPUs -> SUBSET Procs],
           NEW mask \in [Procs -> (SUBSET CPUs) \ {{}}]
    PROVE  /\ sched_choose_cpu(p, q, mask) \in mask[p]
           /\ sched_choose_cpu(p, q, mask) \in CPUs
<1> DEFINE best == LeastLoaded(p, q, mask)
           load(c) == Cardinality(q[c])
<1>1. mask[p] \subseteq CPUs /\ mask[p] # {} /\ CPUs \subseteq Nat
    BY SchedAssumption DEF CPUs
<1>2. \A c \in CPUs : load(c) \in Nat
    <2> TAKE c \in CPUs
    <2>1. IsFiniteSet(q[c])
        BY FS_Subset, SchedAssumption
    <2> QED
        BY <2>1, FS_CardinalityType
<1>3. best # {}
    <2> DEFINE L == {load(c) : c \in mask[p]}
    <2>1. L \subseteq Nat /\ L # {}
        BY <1>1, <1>2
    <2> HIDE DEF L
    <2>2. PICK x \in L : \A y \in L : x <= y
        BY <2>1, NatMin
    <2>3. PICK c \in mask[p] : x = load(c)
        BY <2>2 DEF L
    <2>4. \A d \in mask[p] : load(c) <= load(d)
        BY <2>2, <2>3 DEF L
    <2> QED
        BY <2>4 DEF LeastLoaded
<1>4. best \subseteq mask[p]
    BY DEF LeastLoaded
<1>5. \E c \in best : \A d \in best : c <= d
    <2>1. best \subseteq Nat
        BY <1>1, <1>4
    <2> HIDE DEF best
    <2> QED
        BY <1>3, <2>1, NatMin
<1>6. sched_choose_cpu(p, q, mask) \in best
    <2> HIDE DEF best
    <2>1. sched_choose_cpu(p, q, mask) =
            IF cpu[p] \in best THEN cpu[p]
            ELSE CHOOSE c \in best : \A d \in best : c <= d
        BY DEF sched_choose_cpu, best
    <2> QED
        BY <1>5, <2>1
<1> QED
    BY <1>1, <1>4, <1>6
-----------------------------------------------------------------------------
(* Victims of sched_steal's ring are CPUs.                                 *)
LEMMA RingIsCpu ==
    ASSUME NEW c \in CPUs, NEW i \in 0 .. NCpu - 1
    PROVE  Ring(c, i) \in CPUs
BY SchedAssumption DEF Ring, CPUs

(* Queue insertion and removal keep the array of queues well typed.        *)
LEMMA QueueOps ==
    ASSUME NEW q \in [CPUs -> SUBSET Procs], NEW p \in Procs, NEW c
    PROVE  /\ Enqueued(q, p, c) \in [CPUs -> SUBSET Procs]
           /\ Dequeued(q, p, c) \in [CPUs -> SUBSET Procs]
<1>1. Enqueued(q, p, c) \in [CPUs -> SUBSET Procs]
    BY DEF Enqueued
<1>2. Dequeued(q, p, c) \in [CPUs -> SUBSET Procs]
    BY DEF Dequeued
<1> QED
    BY <1>1, <1>2

(* The end of schedule() moves only this CPU.                              *)
LEMMA LeaveType ==
    ASSUME TypeOK, NEW c \in CPUs, NEW p \in Procs \cup {Idle}, Leave(c, p)
    PROVE  /\ pc' \in [CPUs -> PCs]
           /\ next' \in [CPUs -> Procs \cup {Idle}]
           /\ \A d \in CPUs : d # c => pc'[d] = pc[d]
<1>1. CASE p = current[c]
    BY <1>1 DEF TypeOK, Leave, PCs
<1>2. CASE p # current[c]
    BY <1>2 DEF TypeOK, Leave, PCs
<1> QED
    BY <1>1, <1>2

(* What sched_enqueue_proc_locked leaves behind is well typed.             *)
LEMMA EnqueueType ==
    ASSUME TypeOK, NEW p \in Procs, sched_enqueue_proc_locked(p)
    PROVE  /\ queue' \in [CPUs -> SUBSET Procs]
           /\ rq' \in [Procs -> CPUs \cup {None}]
           /\ cpu' \in [Procs -> CPUs]
<1>1. CASE ~MayEnqueue(p)
    BY <1>1 DEF TypeOK, sched_enqueue_proc_locked
<1>2. CASE MayEnqueue(p)
    <2>1. sched_choose_cpu(p, queue, cpu_mask) \in CPUs
        BY ChooseCpuAllowed DEF TypeOK
    <2> QED
        BY <1>2, <2>1 DEF TypeOK, sched_enqueue_proc_locked, Enqueued
<1> QED
    BY <1>1, <1>2

(* What the first half of wakeup_proc leaves behind is well typed.         *)
LEMMA WakeType ==
    ASSUME TypeOK, NEW c \in CPUs, NEW p \in Procs, WakeLocked(c, p)
    PROVE  /\ state' \in [Procs -> States]
           /\ call' \in [CPUs -> Calls]
           /\ target' \in [CPUs -> Procs \cup {None}]
           /\ call'[c] # "no" => target'[c] \in Procs
           /\ \A d \in CPUs \ {c} : call'[d] = call[d] /\ target'[d] = target[d]
BY DEF TypeOK, WakeLocked, States, Calls

(* The type invariant with what the wakeup_proc calls in progress need.    *)
TypeInv == TypeOK /\ CallOK

(* Every action keeps the kernel's tables well typed.                      *)
LEMMA TypeStep == TypeInv /\ [Next]_vars => TypeInv'
<1> SUFFICES ASSUME TypeOK, CallOK, [Next]_vars PROVE TypeOK' /\ CallOK'
    BY DEF TypeInv
<1> USE SchedAssumption
<1>1. ASSUME NEW c \in CPUs, NEW p \in Procs, Wakeup(c, p) PROVE TypeOK' /\ CallOK'
    <2>1. WakeLocked(c, p) /\ pc[c] \in {"run", "block"}
        BY <1>1 DEF Wakeup, InCode
    <2> QED
        BY <1>1, <2>1, WakeType DEF TypeOK, CallOK, Wakeup, switchVars
<1>2. ASSUME NEW c \in CPUs, NEW p \in Procs, Resume(c, p) PROVE TypeOK' /\ CallOK'
    BY <1>2 DEF TypeOK, CallOK, Resume, InCode, States, Calls, switchVars
<1>3. ASSUME NEW c \in CPUs, WakeupOwed(c) PROVE TypeOK' /\ CallOK'
    <2>1. target[c] \in Procs /\ WakeLocked(c, target[c]) /\ pc[c] \in {"run", "block"}
        BY <1>3 DEF WakeupOwed, CallOK
    <2> QED
        BY <1>3, <2>1, WakeType DEF TypeOK, CallOK, WakeupOwed, switchVars
<1>4. ASSUME NEW c \in CPUs, WakeupEnqueue(c) PROVE TypeOK' /\ CallOK'
    <2>1. target[c] \in Procs
        BY <1>4 DEF WakeupEnqueue, CallOK
    <2>2. /\ queue' \in [CPUs -> SUBSET Procs]
          /\ rq' \in [Procs -> CPUs \cup {None}]
          /\ cpu' \in [Procs -> CPUs]
        BY <1>4, <2>1, EnqueueType DEF WakeupEnqueue
    <2> QED
        BY <1>4, <2>2, ZenonT(60) DEF TypeOK, CallOK, WakeupEnqueue, Calls, switchVars
<1>5. ASSUME NEW c \in CPUs, Block(c) PROVE TypeOK' /\ CallOK'
    BY <1>5 DEF TypeOK, CallOK, Block, Runs, InCode, States, PCs, wakeVars
<1>6. ASSUME NEW c \in CPUs, Stop(c) PROVE TypeOK' /\ CallOK'
    <2>1. queue' \in [CPUs -> SUBSET Procs]
        BY <1>6 DEF TypeOK, Stop, Dequeued
    <2> QED
        BY <1>6, <2>1 DEF TypeOK, CallOK, Stop, Runs, InCode, States, PCs, wakeVars
<1>7. ASSUME NEW c \in CPUs, Exit(c) PROVE TypeOK' /\ CallOK'
    BY <1>7 DEF TypeOK, CallOK, Exit, Runs, InCode, States, PCs, wakeVars
<1>8. ASSUME NEW c \in CPUs, Tick(c) PROVE TypeOK' /\ CallOK'
    BY <1>8 DEF TypeOK, CallOK, Tick, Runs, switchVars, wakeVars
<1>9. ASSUME NEW c \in CPUs, NEW p \in Procs, NEW m \in Masks[p], SetAffinity(c, p, m)
      PROVE TypeOK' /\ CallOK'
    <2>1. cpu_mask' \in [Procs -> (SUBSET CPUs) \ {{}}]
        BY <1>9 DEF TypeOK, SetAffinity
    <2> DEFINE q == Dequeued(queue, p, rq[p])
               d == sched_choose_cpu(p, q, cpu_mask')
    <2>2. q \in [CPUs -> SUBSET Procs]
        BY DEF TypeOK, Dequeued
    <2>3. d \in CPUs
        <3> HIDE DEF q
        <3> QED
            BY <2>1, <2>2, ChooseCpuAllowed
    <2>4. /\ queue' \in [CPUs -> SUBSET Procs]
          /\ rq' \in [Procs -> CPUs \cup {None}]
          /\ cpu' \in [Procs -> CPUs]
        <3>1. \/ queue' = Enqueued(q, p, d) /\ rq' = [rq EXCEPT ![p] = d]
                 /\ cpu' = [cpu EXCEPT ![p] = d]
              \/ queue' = q /\ rq' = [rq EXCEPT ![p] = None] /\ cpu' = cpu
              \/ UNCHANGED <<queue, rq, cpu>>
            BY <1>9 DEF SetAffinity
        <3>2. Enqueued(q, p, d) \in [CPUs -> SUBSET Procs]
            BY <2>2, QueueOps
        <3> HIDE DEF q, d
        <3>3. queue' \in [CPUs -> SUBSET Procs]
            BY <2>2, <3>1, <3>2 DEF TypeOK
        <3>4. rq' \in [Procs -> CPUs \cup {None}]
            BY <2>3, <3>1 DEF TypeOK
        <3>5. cpu' \in [Procs -> CPUs]
            BY <2>3, <3>1 DEF TypeOK
        <3> QED
            BY <3>3, <3>4, <3>5
    <2>5. need_resched' \in [Procs -> BOOLEAN]
        BY <1>9 DEF TypeOK, SetAffinity
    <2> QED
        BY <1>9, <2>1, <2>4, <2>5 DEF TypeOK, CallOK, SetAffinity, switchVars, wakeVars
<1>10. ASSUME NEW c \in CPUs, NEW i \in 0 .. NCpu - 1, NEW p \in Procs, SchedulePick(c, i, p)
       PROVE TypeOK' /\ CallOK'
    <2> DEFINE q == QueueAfterPrev(c)
    <2>1. q \in [CPUs -> SUBSET Procs]
        BY DEF TypeOK, QueueAfterPrev, Requeues, Enqueued
    <2>2. RqAfterPrev(c) \in [Procs -> CPUs \cup {None}]
        BY DEF TypeOK, RqAfterPrev
    <2>8. CpuAfterPrev(c) \in [Procs -> CPUs]
        BY DEF TypeOK, CpuAfterPrev
    <2>9. cpu' \in [Procs -> CPUs]
        BY <1>10, <2>8 DEF SchedulePick
    <2>3. queue' \in [CPUs -> SUBSET Procs]
        <3>1. queue' = Dequeued(q, p, Ring(c, i))
            BY <1>10 DEF SchedulePick
        <3> HIDE DEF q
        <3> QED
            BY <2>1, <3>1 DEF Dequeued
    <2>4. rq' \in [Procs -> CPUs \cup {None}]
        BY <1>10, <2>2 DEF SchedulePick
    <2>5. need_resched' \in [Procs -> BOOLEAN]
        BY <1>10 DEF TypeOK, SchedulePick, MarkPrev
    <2>6. pc' \in [CPUs -> PCs] /\ next' \in [CPUs -> Procs \cup {Idle}]
          /\ \A d \in CPUs : d # c => pc'[d] = pc[d]
        BY <1>10, LeaveType DEF SchedulePick
    <2>7. call[c] = "no"
        BY <1>10 DEF SchedulePick, MayCallSchedule, InCode
    <2> QED
        BY <1>10, <2>3, <2>4, <2>5, <2>6, <2>7, <2>9 DEF TypeOK, CallOK, SchedulePick, wakeVars
<1>11. ASSUME NEW c \in CPUs, ScheduleIdle(c) PROVE TypeOK' /\ CallOK'
    <2>5. need_resched' \in [Procs -> BOOLEAN]
        BY <1>11 DEF TypeOK, ScheduleIdle, MarkPrev
    <2>6. pc' \in [CPUs -> PCs] /\ next' \in [CPUs -> Procs \cup {Idle}]
          /\ \A d \in CPUs : d # c => pc'[d] = pc[d]
        BY <1>11, LeaveType DEF ScheduleIdle
    <2>7. call[c] = "no"
        BY <1>11 DEF ScheduleIdle, MayCallSchedule, InCode
    <2> QED
        BY <1>11, <2>5, <2>6, <2>7 DEF TypeOK, CallOK, ScheduleIdle, wakeVars
<1>12. ASSUME NEW c \in CPUs, proc_run(c) PROVE TypeOK' /\ CallOK'
    BY <1>12 DEF TypeOK, CallOK, proc_run, PCs, procVars, wakeVars
<1>13. ASSUME NEW c \in CPUs, proc_switch_complete(c) PROVE TypeOK' /\ CallOK'
    <2>1. on_cpu' \in [Procs -> BOOLEAN]
        BY <1>13 DEF TypeOK, proc_switch_complete, Retired
    <2>2. CASE NeedsRequeue(pending[c])
        <3>1. /\ pending[c] \in Procs
              /\ call' = [call EXCEPT ![c] = "wakeup"]
              /\ target' = [target EXCEPT ![c] = pending[c]]
              /\ pc' = [pc EXCEPT ![c] = "run"]
              /\ pending' = [pending EXCEPT ![c] = None]
              /\ UNCHANGED <<state, queue, rq, cpu, cpu_mask, need_resched, current, next>>
            BY <1>13, <2>2 DEF proc_switch_complete, NeedsRequeue
        <3>2. CallOK'
            BY <3>1 DEF TypeOK, CallOK
        <3> QED
            BY <2>1, <3>1, <3>2 DEF TypeOK, PCs, Calls
    <2>3. CASE ~NeedsRequeue(pending[c])
        BY <1>13, <2>1, <2>3 DEF TypeOK, CallOK, proc_switch_complete, PCs, wakeVars
    <2> QED
        BY <2>2, <2>3
<1>14. ASSUME NEW b \in CPUs, NEW t \in CPUs, NEW p \in Procs, sched_balance(b, t, p)
       PROVE TypeOK' /\ CallOK'
    <2>1. queue' \in [CPUs -> SUBSET Procs]
        <3>1. Dequeued(queue, p, b) \in [CPUs -> SUBSET Procs]
            BY QueueOps DEF TypeOK
        <3>2. Enqueued(Dequeued(queue, p, b), p, t) \in [CPUs -> SUBSET Procs]
            BY <3>1, QueueOps
        <3> QED
            BY <1>14, <3>2 DEF sched_balance
    <2> QED
        BY <1>14, <2>1 DEF TypeOK, CallOK, sched_balance, switchVars, wakeVars
<1>15. CASE UNCHANGED vars
    BY <1>15 DEF TypeOK, CallOK, vars, procVars, switchVars, wakeVars
<1> QED
    BY <1>1, <1>2, <1>3, <1>4, <1>5, <1>6, <1>7, <1>8, <1>9, <1>10, <1>11, <1>12, <1>13,
       <1>14, <1>15 DEF Next, Schedule

(* The state proc_init leaves behind is well typed.                        *)
LEMMA TypeInit == Init => TypeInv
<1> SUFFICES ASSUME Init PROVE TypeOK /\ CallOK
    BY DEF TypeInv
<1>1. 0 \in CPUs
    BY SchedAssumption DEF CPUs
<1>2. cpu_mask \in [Procs -> (SUBSET CPUs) \ {{}}]
    BY SchedAssumption DEF Init
<1> QED
    BY <1>1, <1>2 DEF Init, TypeOK, CallOK, States, PCs, Calls

(* Type correctness of the scheduler, for every instance: no index leaves  *)
(* the run-queue array, no affinity mask becomes empty, and a wakeup call  *)
(* in progress never has a stale NULL argument.                            *)
THEOREM TypeCorrect == Spec => [](TypeOK /\ CallOK)
<1>1. TypeInv => TypeOK /\ CallOK
    BY DEF TypeInv
<1> QED
    BY <1>1, TypeInit, TypeStep, PTL DEF Spec
-----------------------------------------------------------------------------
(* No step loses a runnable process.                                       *)
LEMMA RunnableStep ==
    TypeInv /\ NoLostRunnable /\ [Next]_vars => NoLostRunnable'
<1> SUFFICES ASSUME TypeOK, CallOK, NoLostRunnable, [Next]_vars,
                    NEW r \in Procs, state'[r] = "RUNNABLE"
             PROVE  \/ rq'[r] # None
                    \/ on_cpu'[r]
                    \/ \E c \in CPUs : call'[c] # "no" /\ target'[c] = r
    BY DEF TypeInv, NoLostRunnable
<1> DEFINE Safe == \/ rq'[r] # None
                   \/ on_cpu'[r]
                   \/ \E c \in CPUs : call'[c] # "no" /\ target'[c] = r
           Was == \/ rq[r] # None
                  \/ on_cpu[r]
                  \/ \E c \in CPUs : call[c] # "no" /\ target[c] = r
<1> USE SchedAssumption
<1>0. state[r] = "RUNNABLE" => Was
    BY DEF NoLostRunnable
<1>1. ASSUME NEW c \in CPUs, NEW p \in Procs, Wakeup(c, p) PROVE Safe
    <2>1. call[c] = "no" /\ UNCHANGED <<rq, on_cpu>>
        BY <1>1 DEF Wakeup, InCode
    <2>2. \/ state[r] = "RUNNABLE" /\ \A d \in CPUs \ {c} : call'[d] = call[d] /\ target'[d] = target[d]
          \/ call'[c] = "enqueue" /\ target'[c] = r
        BY <1>1 DEF Wakeup, WakeLocked, TypeOK
    <2> QED
        BY <1>0, <2>1, <2>2
<1>2. ASSUME NEW c \in CPUs, NEW p \in Procs, Resume(c, p) PROVE Safe
    <2>1. call[c] = "no" /\ UNCHANGED <<rq, on_cpu>>
        BY <1>2 DEF Resume, InCode
    <2>2. \/ state[r] = "RUNNABLE" /\ \A d \in CPUs \ {c} : call'[d] = call[d] /\ target'[d] = target[d]
          \/ call'[c] = "wakeup" /\ target'[c] = r
        BY <1>2 DEF Resume, TypeOK
    <2> QED
        BY <1>0, <2>1, <2>2
<1>3. ASSUME NEW c \in CPUs, WakeupOwed(c) PROVE Safe
    <2>1. WakeLocked(c, target[c]) /\ UNCHANGED <<rq, on_cpu>> /\ target[c] \in Procs
        BY <1>3 DEF WakeupOwed, CallOK
    <2>2. CASE target[c] = r
        BY <2>1, <2>2 DEF WakeLocked, MayEnqueue, TypeOK
    <2>3. CASE target[c] # r
        <3>1. state[r] = "RUNNABLE" /\ \A d \in CPUs \ {c} : call'[d] = call[d] /\ target'[d] = target[d]
            BY <2>1, <2>3 DEF WakeLocked, TypeOK
        <3> QED
            BY <1>0, <2>1, <2>3, <3>1
    <2> QED
        BY <2>2, <2>3
<1>4. ASSUME NEW c \in CPUs, WakeupEnqueue(c) PROVE Safe
    <2>1. /\ target[c] \in Procs /\ state' = state /\ on_cpu' = on_cpu
          /\ \A d \in CPUs \ {c} : call'[d] = call[d] /\ target'[d] = target[d]
          /\ sched_enqueue_proc_locked(target[c])
        BY <1>4 DEF WakeupEnqueue, CallOK, TypeOK
    <2>2. CASE MayEnqueue(target[c])
        <3>1. sched_choose_cpu(target[c], queue, cpu_mask) \in CPUs
            BY <2>1, ChooseCpuAllowed DEF TypeOK
        <3>2. rq' = [rq EXCEPT ![target[c]] = sched_choose_cpu(target[c], queue, cpu_mask)]
            BY <2>1, <2>2 DEF sched_enqueue_proc_locked
        <3> QED
            BY <1>0, <2>1, <3>1, <3>2 DEF TypeOK
    <2>3. CASE ~MayEnqueue(target[c])
        <3>1. rq' = rq
            BY <2>1, <2>3 DEF sched_enqueue_proc_locked
        <3> QED
            BY <1>0, <2>1, <2>3, <3>1 DEF MayEnqueue
    <2> QED
        BY <2>2, <2>3
<1>5. ASSUME NEW c \in CPUs, Block(c) \/ Exit(c) PROVE Safe
    BY <1>0, <1>5 DEF Block, Exit, Runs, wakeVars, TypeOK
<1>6. ASSUME NEW c \in CPUs, Stop(c) PROVE Safe
    BY <1>0, <1>6 DEF Stop, Runs, wakeVars, TypeOK
<1>7. ASSUME NEW c \in CPUs, Tick(c) PROVE Safe
    BY <1>0, <1>7 DEF Tick, wakeVars
<1>8. ASSUME NEW c \in CPUs, NEW p \in Procs, NEW m \in Masks[p], SetAffinity(c, p, m)
      PROVE Safe
    <2> DEFINE q == Dequeued(queue, p, rq[p])
               d == sched_choose_cpu(p, q, cpu_mask')
    <2>1. UNCHANGED <<state, on_cpu, call, target>>
        BY <1>8 DEF SetAffinity, wakeVars
    <2>2. d \in CPUs
        <3>1. cpu_mask' \in [Procs -> (SUBSET CPUs) \ {{}}]
            BY <1>8 DEF TypeOK, SetAffinity
        <3>2. q \in [CPUs -> SUBSET Procs]
            BY QueueOps DEF TypeOK
        <3> HIDE DEF q
        <3> QED
            BY <3>1, <3>2, ChooseCpuAllowed
    <2>3. \/ rq' = [rq EXCEPT ![p] = d]
          \/ rq' = [rq EXCEPT ![p] = None] /\ ~(state[p] = "RUNNABLE" /\ ~on_cpu[p])
          \/ rq' = rq
        BY <1>8 DEF SetAffinity
    <2> HIDE DEF d
    <2> QED
        BY <1>0, <2>1, <2>2, <2>3 DEF TypeOK
<1>9. ASSUME NEW c \in CPUs, NEW i \in 0 .. NCpu - 1, NEW p \in Procs, SchedulePick(c, i, p)
      PROVE Safe
    <2>1. /\ UNCHANGED <<state, call, target>>
          /\ on_cpu' = [on_cpu EXCEPT ![p] = TRUE]
          /\ rq' = [RqAfterPrev(c) EXCEPT ![p] = None]
        BY <1>9 DEF SchedulePick, wakeVars
    <2>2. RqAfterPrev(c) \in [Procs -> CPUs \cup {None}] /\ (rq[r] # None => RqAfterPrev(c)[r] # None)
        BY DEF RqAfterPrev, Requeues, TypeOK
    <2> QED
        BY <1>0, <2>1, <2>2 DEF TypeOK
<1>10. ASSUME NEW c \in CPUs, ScheduleIdle(c) PROVE Safe
    BY <1>0, <1>10 DEF ScheduleIdle, wakeVars
<1>11. ASSUME NEW c \in CPUs, proc_run(c) PROVE Safe
    BY <1>0, <1>11 DEF proc_run, procVars, wakeVars
<1>12. ASSUME NEW c \in CPUs, proc_switch_complete(c) PROVE Safe
    <2>1. call[c] = "no" /\ UNCHANGED <<state, rq>> /\ on_cpu' = Retired(pending[c])
        BY <1>12 DEF proc_switch_complete, CallOK
    <2>2. \A d \in CPUs \ {c} : call'[d] = call[d] /\ target'[d] = target[d]
        BY <1>12 DEF proc_switch_complete, TypeOK, wakeVars
    <2>3. CASE r = pending[c]
        <3>1. rq[r] # None \/ NeedsRequeue(r)
            BY <2>1, <2>3 DEF NeedsRequeue
        <3>2. NeedsRequeue(r) => call'[c] = "wakeup" /\ target'[c] = r
            BY <1>12, <2>3 DEF proc_switch_complete, TypeOK
        <3> QED
            BY <2>1, <3>1, <3>2
    <2>4. CASE r # pending[c]
        <3>1. on_cpu'[r] = on_cpu[r]
            BY <2>1, <2>4 DEF Retired, TypeOK
        <3> QED
            BY <1>0, <2>1, <2>2, <3>1
    <2> QED
        BY <2>3, <2>4
<1>13. ASSUME NEW b \in CPUs, NEW t \in CPUs, NEW p \in Procs, sched_balance(b, t, p)
       PROVE Safe
    BY <1>0, <1>13, ZenonT(60) DEF sched_balance, wakeVars, TypeOK
<1>14. CASE UNCHANGED vars
    BY <1>0, <1>14 DEF vars, procVars, switchVars, wakeVars
<1> QED
    BY <1>1, <1>2, <1>3, <1>4, <1>5, <1>6, <1>7, <1>8, <1>9, <1>10, <1>11, <1>12, <1>13,
       <1>14 DEF Next, Schedule

(* wakeup_proc, schedule, proc_switch_complete, stop, resume and affinity  *)
(* changes never leave a process runnable but absent from every run queue  *)
(* and every CPU with nobody about to queue it, on any number of CPUs.     *)
THEOREM NoRunnableLost == Spec => []NoLostRunnable
<1>1. Init => NoLostRunnable
    BY DEF Init, NoLostRunnable
<1>2. Init => TypeInv
    BY TypeInit
<1> QED
    BY <1>1, <1>2, TypeStep, RunnableStep, PTL DEF Spec
-----------------------------------------------------------------------------
(* The link between a table of queues and the rq pointers.                 *)
Linked(q, r) == \A p \in Procs, c \in CPUs : p \in q[c] <=> r[p] = c

(* Inserting an unlinked process keeps queues and pointers consistent.     *)
LEMMA LinkEnqueue ==
    ASSUME NEW q \in [CPUs -> SUBSET Procs], NEW r \in [Procs -> CPUs \cup {None}],
           Linked(q, r), NEW p \in Procs, r[p] = None, NEW c \in CPUs
    PROVE  Linked(Enqueued(q, p, c), [r EXCEPT ![p] = c])
BY SchedAssumption DEF Linked, Enqueued

(* Removing a process from the queue its pointer names keeps them          *)
(* consistent; with a NULL pointer the removal is no removal.              *)
LEMMA LinkDequeue ==
    ASSUME NEW q \in [CPUs -> SUBSET Procs], NEW r \in [Procs -> CPUs \cup {None}],
           Linked(q, r), NEW p \in Procs
    PROVE  Linked(Dequeued(q, p, r[p]), [r EXCEPT ![p] = None])
BY SchedAssumption DEF Linked, Dequeued

(* No step separates a run queue from the rq pointers into it.             *)
LEMMA LinkStep == TypeInv /\ QueueConsistent /\ [Next]_vars => QueueConsistent'
<1> SUFFICES ASSUME TypeOK, CallOK, Linked(queue, rq), [Next]_vars
             PROVE  Linked(queue', rq')
    BY DEF TypeInv, QueueConsistent, Linked
<1> USE SchedAssumption
<1>0. queue \in [CPUs -> SUBSET Procs] /\ rq \in [Procs -> CPUs \cup {None}]
    BY DEF TypeOK
<1>1. CASE UNCHANGED <<queue, rq>>
    BY <1>1
<1>2. ASSUME NEW c \in CPUs, WakeupEnqueue(c) PROVE Linked(queue', rq')
    <2>1. target[c] \in Procs /\ sched_enqueue_proc_locked(target[c])
        BY <1>2 DEF WakeupEnqueue, CallOK
    <2>2. CASE MayEnqueue(target[c])
        <3>1. sched_choose_cpu(target[c], queue, cpu_mask) \in CPUs
            BY <2>1, ChooseCpuAllowed DEF TypeOK
        <3> QED
            BY <1>0, <2>1, <2>2, <3>1, LinkEnqueue DEF sched_enqueue_proc_locked, MayEnqueue
    <2>3. CASE ~MayEnqueue(target[c])
        <3>1. queue' = queue /\ rq' = rq
            BY <2>1, <2>3 DEF sched_enqueue_proc_locked
        <3> QED
            BY <3>1
    <2> QED
        BY <2>2, <2>3
<1>3. ASSUME NEW c \in CPUs, Stop(c) PROVE Linked(queue', rq')
    <2> DEFINE p == current[c]
    <2>1. p \in Procs /\ rq' = [rq EXCEPT ![p] = None]
        BY <1>3 DEF Stop, Runs
    <2>2. CASE rq[p] # None
        <3>1. queue' = Dequeued(queue, p, rq[p])
            BY <1>3, <2>2 DEF Stop
        <3>2. Linked(Dequeued(queue, p, rq[p]), [rq EXCEPT ![p] = None])
            BY <1>0, <2>1, LinkDequeue
        <3> QED
            BY <2>1, <3>1, <3>2
    <2>3. CASE rq[p] = None
        <3>1. rq' = rq /\ queue' = queue
            BY <1>0, <1>3, <2>1, <2>3 DEF Stop
        <3> QED
            BY <3>1
    <2> QED
        BY <2>2, <2>3
<1>4. ASSUME NEW c \in CPUs, NEW p \in Procs, NEW m \in Masks[p], SetAffinity(c, p, m)
      PROVE Linked(queue', rq')
    <2> DEFINE q == Dequeued(queue, p, rq[p])
               r == [rq EXCEPT ![p] = None]
               d == sched_choose_cpu(p, q, cpu_mask')
    <2>1. q \in [CPUs -> SUBSET Procs] /\ r \in [Procs -> CPUs \cup {None}] /\ r[p] = None
        BY <1>0, QueueOps
    <2>2. Linked(q, r)
        BY <1>0, LinkDequeue
    <2>3. d \in CPUs
        <3>1. cpu_mask' \in [Procs -> (SUBSET CPUs) \ {{}}]
            BY <1>4 DEF TypeOK, SetAffinity
        <3> HIDE DEF q
        <3> QED
            BY <2>1, <3>1, ChooseCpuAllowed
    <2>4. [r EXCEPT ![p] = d] = [rq EXCEPT ![p] = d]
        <3> HIDE DEF d
        <3> QED
            BY <1>0
    <2>5. \/ queue' = Enqueued(q, p, d) /\ rq' = [r EXCEPT ![p] = d]
          \/ queue' = q /\ rq' = r
          \/ UNCHANGED <<queue, rq>>
        <3> HIDE DEF d
        <3>1. \/ queue' = Enqueued(q, p, d) /\ rq' = [rq EXCEPT ![p] = d]
              \/ queue' = q /\ rq' = r
              \/ UNCHANGED <<queue, rq>>
            BY <1>4 DEF SetAffinity, d
        <3> QED
            BY <2>4, <3>1
    <2> HIDE DEF q, r, d
    <2> QED
        BY <1>1, <2>1, <2>2, <2>3, <2>5, LinkEnqueue
<1>5. ASSUME NEW c \in CPUs, NEW i \in 0 .. NCpu - 1, NEW p \in Procs, SchedulePick(c, i, p)
      PROVE Linked(queue', rq')
    <2> DEFINE q == QueueAfterPrev(c)
               r == RqAfterPrev(c)
    <2>1. q \in [CPUs -> SUBSET Procs] /\ r \in [Procs -> CPUs \cup {None}]
        BY <1>0, QueueOps DEF QueueAfterPrev, RqAfterPrev, Requeues
    <2>2. Linked(q, r)
        BY <1>0, LinkEnqueue DEF QueueAfterPrev, RqAfterPrev, Requeues
    <2>3. p \in q[Ring(c, i)] /\ queue' = Dequeued(q, p, Ring(c, i)) /\ rq' = [r EXCEPT ![p] = None]
        BY <1>5 DEF SchedulePick, Pickable
    <2> HIDE DEF q, r
    <2>4. r[p] = Ring(c, i)
        BY <2>2, <2>3, RingIsCpu DEF Linked
    <2> QED
        BY <2>1, <2>2, <2>3, <2>4, LinkDequeue
<1>6. ASSUME NEW b \in CPUs, NEW t \in CPUs, NEW p \in Procs, sched_balance(b, t, p)
      PROVE Linked(queue', rq')
    <2> DEFINE q == Dequeued(queue, p, b)
               r == [rq EXCEPT ![p] = None]
    <2>1. rq[p] = b
        BY <1>6 DEF sched_balance, Pickable, Linked
    <2>2. q \in [CPUs -> SUBSET Procs] /\ r \in [Procs -> CPUs \cup {None}] /\ r[p] = None
        BY <1>0, QueueOps
    <2>3. Linked(q, r)
        BY <1>0, <2>1, LinkDequeue
    <2>4. queue' = Enqueued(q, p, t) /\ rq' = [r EXCEPT ![p] = t]
        <3>1. queue' = Enqueued(q, p, t) /\ rq' = [rq EXCEPT ![p] = t]
            BY <1>6 DEF sched_balance
        <3>2. [r EXCEPT ![p] = t] = [rq EXCEPT ![p] = t]
            BY <1>0
        <3> QED
            BY <3>1, <3>2
    <2> HIDE DEF q, r
    <2> QED
        BY <2>2, <2>3, <2>4, LinkEnqueue
<1> QED
    BY <1>1, <1>2, <1>3, <1>4, <1>5, <1>6 DEF Next, Schedule, Wakeup, WakeupOwed, Block, Exit,
       Tick, Resume, ScheduleIdle, proc_run, proc_switch_complete, procVars, vars

(* A process is linked in exactly the run queue its rq pointer names, so   *)
(* no heap node is inserted twice or removed from a heap without it.       *)
THEOREM QueuesConsistent == Spec => []QueueConsistent
<1>1. Init => QueueConsistent
    BY SchedAssumption DEF Init, QueueConsistent
<1> QED
    BY <1>1, TypeInit, TypeStep, LinkStep, PTL DEF Spec
-----------------------------------------------------------------------------
(* CPU c runs process p, has picked it, or still has to retire it.         *)
Owns(c, p) ==
    \/ current[c] = p
    \/ pc[c] = "picked" /\ next[c] = p
    \/ pc[c] = "onstack" /\ pending[c] = p

(* schedule() and proc_run never take an owner away from a process whose   *)
(* on_cpu stays set.                                                       *)
LEMMA OwnedStep == TypeInv /\ OnCpuOwned /\ [Next]_vars => OnCpuOwned'
<1> SUFFICES ASSUME TypeOK, CallOK, OnCpuOwned, [Next]_vars,
                    NEW r \in Procs, on_cpu'[r]
             PROVE  \E c \in CPUs : Owns(c, r)'
    BY DEF TypeInv, OnCpuOwned, Owns
<1> USE SchedAssumption
<1>0. on_cpu[r] => \E c \in CPUs : Owns(c, r)
    BY DEF OnCpuOwned, Owns
<1>1. CASE UNCHANGED <<on_cpu, current, pending, pc, next>>
    BY <1>0, <1>1 DEF Owns
<1>2. ASSUME NEW c \in CPUs, Block(c) \/ Stop(c) \/ Exit(c) PROVE \E d \in CPUs : Owns(d, r)'
    BY <1>0, <1>2 DEF Owns, Block, Stop, Exit, Runs, TypeOK
<1>3. ASSUME NEW c \in CPUs, NEW p \in Procs \cup {Idle}, Leave(c, p), MayCallSchedule(c),
             on_cpu' = on_cpu \/ (p \in Procs /\ on_cpu' = [on_cpu EXCEPT ![p] = TRUE]),
             UNCHANGED <<current, pending>>
      PROVE \E d \in CPUs : Owns(d, r)'
    <2>1. pc[c] \in {"run", "block"}
        BY <1>3 DEF MayCallSchedule, InCode
    <2>2. Owns(c, p)'
        BY <1>3 DEF Leave, Owns, TypeOK
    <2>3. on_cpu[r] \/ r = p
        BY <1>3 DEF TypeOK
    <2>4. \A d \in CPUs : Owns(d, r) => Owns(d, r)'
        BY <1>3, <2>1 DEF Leave, Owns, TypeOK
    <2> QED
        BY <1>0, <2>2, <2>3, <2>4
<1>4. ASSUME NEW c \in CPUs, NEW i \in 0 .. NCpu - 1, NEW p \in Procs, SchedulePick(c, i, p)
      PROVE \E d \in CPUs : Owns(d, r)'
    BY <1>3, <1>4 DEF SchedulePick
<1>5. ASSUME NEW c \in CPUs, ScheduleIdle(c) PROVE \E d \in CPUs : Owns(d, r)'
    BY <1>3, <1>5 DEF ScheduleIdle
<1>6. ASSUME NEW c \in CPUs, proc_run(c) PROVE \E d \in CPUs : Owns(d, r)'
    BY <1>0, <1>6 DEF Owns, proc_run, procVars, TypeOK
<1>7. ASSUME NEW c \in CPUs, proc_switch_complete(c) PROVE \E d \in CPUs : Owns(d, r)'
    <2>1. on_cpu[r] /\ r # pending[c]
        BY <1>7 DEF proc_switch_complete, Retired, TypeOK
    <2> QED
        BY <1>0, <1>7, <2>1 DEF Owns, proc_switch_complete, TypeOK
<1> QED
    BY <1>1, <1>2, <1>4, <1>5, <1>6, <1>7 DEF Next, Schedule, Wakeup, WakeupOwed, WakeupEnqueue,
       Tick, Resume, SetAffinity, sched_balance, switchVars, procVars, vars

(* on_cpu never leaks: as long as it is set some CPU runs the process, has *)
(* picked it in schedule() or has to retire it in proc_switch_complete.    *)
THEOREM OnCpuIsOwned == Spec => []OnCpuOwned
<1>1. Init => OnCpuOwned
    BY DEF Init, OnCpuOwned
<1> QED
    BY <1>1, TypeInit, TypeStep, OwnedStep, PTL DEF Spec
-----------------------------------------------------------------------------
(* The CPU is about to leave the kernel stack of p, or has just left it.   *)
Leaving(c, p) ==
    \/ pc[c] = "picked" /\ current[c] = p
    \/ pc[c] = "onstack" /\ pending[c] = p

(* What keeps the hand-off of a pinned process sound.  SwitchOK: a switch  *)
(* goes from one process to another.  MaskOK: masks are the ones that      *)
(* do_setaffinity was given.  PinnedOwned: a pinned process has one owner, *)
(* and is queued beside it only by the CPU that leaves its stack.          *)
SwitchOK ==
    \A c \in CPUs : /\ pc[c] = "picked" => next[c] # current[c]
                    /\ pc[c] = "onstack" => pending[c] # current[c]
MaskOK == \A p \in Procs : cpu_mask[p] \in Masks[p]
OneOwner(p) == \A c \in CPUs : Owns(c, p) => on_cpu[p] /\ \A d \in CPUs : Owns(d, p) => c = d
QueuedSoundly(p) ==
    rq[p] # None => /\ rq[p] \in cpu_mask[p] /\ state[p] = "RUNNABLE"
                    /\ \A c \in CPUs : Owns(c, p) => rq[p] = c /\ Leaving(c, p)
PinnedOwned == \A p \in Procs : Pinned(p) => OneOwner(p) /\ QueuedSoundly(p)
PinInv == SwitchOK /\ MaskOK /\ PinnedOwned

(* A pinned process is allowed on one CPU only.                            *)
LEMMA PinnedMask ==
    ASSUME NEW p \in Procs, Pinned(p), NEW m \in Masks[p]
    PROVE  \A c, d \in m : c = d
<1>1. IsFiniteSet(m)
    <2>1. IsFiniteSet(CPUs)
        BY SchedAssumption, FS_Interval DEF CPUs
    <2> QED
        BY <2>1, FS_Subset, SchedAssumption
<1>2. Cardinality(m) = 1
    BY DEF Pinned
<1> QED
    BY <1>1, <1>2, FS_Singleton

(* No step switches from a process to itself, or makes up an affinity mask. *)
LEMMA SwitchStep == TypeInv /\ SwitchOK /\ MaskOK /\ [Next]_vars => SwitchOK' /\ MaskOK'
<1> SUFFICES ASSUME TypeOK, SwitchOK, MaskOK, [Next]_vars PROVE SwitchOK' /\ MaskOK'
    BY DEF TypeInv
<1>1. MaskOK'
    <2>1. cpu_mask' = cpu_mask \/ \E p \in Procs : \E m \in Masks[p] : cpu_mask' = [cpu_mask EXCEPT ![p] = m]
        BY DEF Next, Schedule, SchedulePick, ScheduleIdle, Wakeup, WakeupOwed, WakeupEnqueue, Block, Stop, Exit, Tick, Resume,
               SetAffinity, proc_run, proc_switch_complete, sched_balance, procVars, vars
    <2> QED
        BY <2>1 DEF MaskOK, TypeOK
<1>2. CASE UNCHANGED <<current, pending, pc, next>>
    BY <1>1, <1>2 DEF SwitchOK
<1>3. ASSUME NEW c \in CPUs, Block(c) \/ Stop(c) \/ Exit(c) PROVE SwitchOK'
    BY <1>3 DEF SwitchOK, Block, Stop, Exit, TypeOK
<1>4. ASSUME NEW c \in CPUs, NEW p \in Procs \cup {Idle}, Leave(c, p), UNCHANGED <<current, pending>>
      PROVE SwitchOK'
    BY <1>4 DEF SwitchOK, Leave, TypeOK
<1>5. ASSUME NEW c \in CPUs, Schedule(c) PROVE SwitchOK'
    BY <1>4, <1>5 DEF Schedule, SchedulePick, ScheduleIdle
<1>6. ASSUME NEW c \in CPUs, proc_run(c) PROVE SwitchOK'
    BY <1>6 DEF SwitchOK, proc_run, TypeOK
<1>7. ASSUME NEW c \in CPUs, proc_switch_complete(c) PROVE SwitchOK'
    BY <1>7 DEF SwitchOK, proc_switch_complete, TypeOK
<1> QED
    BY <1>1, <1>2, <1>3, <1>5, <1>6, <1>7 DEF Next, Wakeup, WakeupOwed, WakeupEnqueue,
       Tick, Resume, SetAffinity, sched_balance, switchVars, vars

(* Nothing but schedule() and the switch changes who owns a process.       *)
LEMMA OwnsUnchanged ==
    ASSUME NEW p, UNCHANGED <<current, pending, pc, next>>
    PROVE  \A c \in CPUs : (Owns(c, p)' <=> Owns(c, p)) /\ (Leaving(c, p)' <=> Leaving(c, p))
BY DEF Owns, Leaving

(* No step gives a pinned process a second owner, or queues it for a CPU   *)
(* it may not use or while it sleeps.                                      *)
LEMMA PinnedStep ==
    TypeInv /\ QueueConsistent /\ OnCpuOwned /\ PinInv /\ [Next]_vars => PinnedOwned'
<1> SUFFICES ASSUME TypeOK, CallOK, QueueConsistent, OnCpuOwned, SwitchOK, MaskOK, PinnedOwned,
                    [Next]_vars, NEW r \in Procs, Pinned(r)
             PROVE  OneOwner(r)' /\ QueuedSoundly(r)'
    BY DEF TypeInv, PinInv, PinnedOwned, Pinned
<1> USE SchedAssumption
<1> DEFINE Sound == OneOwner(r)' /\ QueuedSoundly(r)'
<1>0. OneOwner(r) /\ QueuedSoundly(r)
    BY DEF PinnedOwned
<1>m. \A c, d \in cpu_mask[r] : c = d
    BY PinnedMask DEF MaskOK
<1>1. CASE UNCHANGED <<current, pending, pc, next, on_cpu, rq, state, cpu_mask>>
    BY <1>0, <1>1, OwnsUnchanged DEF OneOwner, QueuedSoundly
<1>2. ASSUME NEW c \in CPUs, NEW p \in Procs, Wakeup(c, p) \/ WakeupOwed(c) \/ Resume(c, p)
      PROVE  Sound
    <2>1. UNCHANGED <<current, pending, pc, next, on_cpu, rq, cpu_mask>>
        BY <1>2 DEF Wakeup, WakeupOwed, Resume, switchVars
    <2>2. state[r] = "RUNNABLE" => state'[r] = "RUNNABLE"
        BY <1>2 DEF Wakeup, WakeupOwed, Resume, WakeLocked, TypeOK
    <2> QED
        BY <1>0, <2>1, <2>2, OwnsUnchanged DEF OneOwner, QueuedSoundly
<1>3. ASSUME NEW c \in CPUs, WakeupEnqueue(c) PROVE Sound
    <2>1. /\ UNCHANGED <<current, pending, pc, next, on_cpu, state, cpu_mask>>
          /\ sched_enqueue_proc_locked(target[c]) /\ target[c] \in Procs
        BY <1>3 DEF WakeupEnqueue, switchVars, CallOK
    <2>2. CASE rq' = rq
        BY <1>0, <2>1, <2>2, OwnsUnchanged DEF OneOwner, QueuedSoundly
    <2>3. CASE rq' # rq
        <3>1. MayEnqueue(target[c])
            BY <2>1, <2>3 DEF sched_enqueue_proc_locked
        <3>2. sched_choose_cpu(target[c], queue, cpu_mask) \in cpu_mask[target[c]]
            BY <2>1, ChooseCpuAllowed DEF TypeOK
        <3>3. rq' = [rq EXCEPT ![target[c]] = sched_choose_cpu(target[c], queue, cpu_mask)]
            BY <2>1, <3>1 DEF sched_enqueue_proc_locked
        <3>4. CASE target[c] = r
            <4>1. \A d \in CPUs : ~Owns(d, r)
                BY <1>0, <3>1, <3>4 DEF OneOwner, MayEnqueue
            <4>2. rq'[r] \in cpu_mask[r]
                BY <3>2, <3>3, <3>4 DEF TypeOK
            <4> QED
                BY <2>1, <3>1, <3>4, <4>1, <4>2, OwnsUnchanged DEF OneOwner, QueuedSoundly, MayEnqueue
        <3>5. CASE target[c] # r
            <4>1. rq'[r] = rq[r]
                BY <3>3, <3>5 DEF TypeOK
            <4> QED
                BY <1>0, <2>1, <4>1, OwnsUnchanged DEF OneOwner, QueuedSoundly
        <3> QED
            BY <3>4, <3>5
    <2> QED
        BY <2>2, <2>3
<1>4. ASSUME NEW c \in CPUs, Block(c) \/ Stop(c) \/ Exit(c) PROVE Sound
    <2> DEFINE p == current[c]
    <2>1. /\ pc[c] = "run" /\ p \in Procs /\ pc' = [pc EXCEPT ![c] = "block"]
          /\ UNCHANGED <<current, pending, next, on_cpu, cpu_mask>>
          /\ \E s \in States : state' = [state EXCEPT ![p] = s]
          /\ rq' = rq \/ rq' = [rq EXCEPT ![p] = None]
        BY <1>4 DEF Block, Stop, Exit, Runs, InCode, States
    <2>2. \A d \in CPUs : (Owns(d, r)' <=> Owns(d, r)) /\ (Leaving(d, r)' <=> Leaving(d, r))
        BY <2>1 DEF Owns, Leaving, TypeOK
    <2>3. CASE p = r
        <3>1. Owns(c, r) /\ ~Leaving(c, r)
            BY <2>1, <2>3 DEF Owns, Leaving
        <3>2. rq[r] = None /\ rq'[r] = None
            BY <1>0, <2>1, <3>1 DEF QueuedSoundly, TypeOK
        <3> QED
            BY <1>0, <2>1, <2>2, <3>2 DEF OneOwner, QueuedSoundly
    <2>4. CASE p # r
        <3>1. rq'[r] = rq[r] /\ state'[r] = state[r]
            BY <2>1, <2>4 DEF TypeOK
        <3> QED
            BY <1>0, <2>1, <2>2, <3>1 DEF OneOwner, QueuedSoundly
    <2> QED
        BY <2>3, <2>4
<1>5. ASSUME NEW c \in CPUs, NEW p \in Procs, NEW m \in Masks[p], SetAffinity(c, p, m) PROVE Sound
    <2> DEFINE q == Dequeued(queue, p, rq[p])
               d == sched_choose_cpu(p, q, cpu_mask')
    <2>1. /\ UNCHANGED <<current, pending, pc, next, on_cpu, state>>
          /\ cpu_mask' = [cpu_mask EXCEPT ![p] = m]
        BY <1>5 DEF SetAffinity, switchVars
    <2>2. d \in cpu_mask'[p]
        <3>1. cpu_mask' \in [Procs -> (SUBSET CPUs) \ {{}}]
            BY <2>1 DEF TypeOK
        <3>2. q \in [CPUs -> SUBSET Procs]
            BY QueueOps DEF TypeOK
        <3> HIDE DEF q
        <3> QED
            BY <3>1, <3>2, ChooseCpuAllowed
    <2>3. \/ rq' = [rq EXCEPT ![p] = d] /\ state[p] = "RUNNABLE" /\ ~on_cpu[p]
          \/ rq' = [rq EXCEPT ![p] = None]
          \/ rq' = rq /\ (rq[p] # None => rq[p] \in m)
        BY <1>5 DEF SetAffinity
    <2> HIDE DEF d
    <2>4. CASE p = r
        <3>1. ~on_cpu[r] => \A e \in CPUs : ~Owns(e, r)
            BY <1>0 DEF OneOwner
        <3> QED
            BY <1>0, <2>1, <2>2, <2>3, <2>4, <3>1, OwnsUnchanged DEF OneOwner, QueuedSoundly, TypeOK
    <2>5. CASE p # r
        <3>1. rq'[r] = rq[r] /\ cpu_mask'[r] = cpu_mask[r]
            BY <2>1, <2>3, <2>5 DEF TypeOK
        <3> QED
            BY <1>0, <2>1, <3>1, OwnsUnchanged DEF OneOwner, QueuedSoundly
    <2> QED
        BY <2>4, <2>5
<1>6. ASSUME NEW c \in CPUs, NEW i \in 0 .. NCpu - 1, NEW p \in Procs, SchedulePick(c, i, p) PROVE Sound
    <2>1. /\ UNCHANGED <<state, cpu_mask, current, pending>>
          /\ pc[c] \in {"run", "block"}
          /\ on_cpu' = [on_cpu EXCEPT ![p] = TRUE]
          /\ rq' = [RqAfterPrev(c) EXCEPT ![p] = None]
          /\ Leave(c, p)
          /\ c \in cpu_mask[p]
        BY <1>6 DEF SchedulePick, MayCallSchedule, InCode, Pickable, sched_cpu_allowed
    <2>2. RqAfterPrev(c) \in [Procs -> CPUs \cup {None}]
        BY DEF RqAfterPrev, TypeOK
    <2>3. CASE p = r
        <3>1. rq'[r] = None
            BY <2>1, <2>2, <2>3
        <3>2. r = current[c] \/ \A e \in CPUs : ~Owns(e, r)
            <4> SUFFICES ASSUME r # current[c] PROVE \A e \in CPUs : ~Owns(e, r)
                OBVIOUS
            <4>1. r \in queue[Ring(c, i)]
                BY <1>6, <2>3, RingIsCpu DEF SchedulePick, Pickable, QueueAfterPrev, Enqueued, TypeOK
            <4>2. rq[r] = Ring(c, i) /\ Ring(c, i) \in CPUs
                BY <4>1, RingIsCpu DEF QueueConsistent
            <4>3. rq[r] = c
                BY <1>0, <1>m, <2>1, <2>3, <4>2 DEF QueuedSoundly
            <4> QED
                BY <1>0, <2>1, <4>3 DEF QueuedSoundly, Leaving
        <3>3. \A e \in CPUs : Owns(e, r)' <=> e = c \/ Owns(e, r)
            BY <2>1, <2>3 DEF Leave, Owns, TypeOK
        <3>4. r = current[c] => Owns(c, r)
            BY DEF Owns
        <3>5. on_cpu'[r]
            BY <2>1, <2>3 DEF TypeOK
        <3> QED
            BY <1>0, <3>1, <3>2, <3>3, <3>4, <3>5 DEF OneOwner, QueuedSoundly
    <2>4. CASE p # r
        <3>1. on_cpu'[r] = on_cpu[r]
            BY <2>1, <2>4 DEF TypeOK
        <3>2. \A e \in CPUs : Owns(e, r)' <=> Owns(e, r)
            BY <2>1, <2>4 DEF Leave, Owns, TypeOK
        <3>3. \A e \in CPUs : Leaving(e, r) => Leaving(e, r)'
            BY <2>1, <2>4 DEF Leave, Leaving, TypeOK
        <3>4. CASE r = current[c]
            <4>1. Leaving(c, r)'
                BY <2>1, <2>4, <3>4 DEF Leave, Leaving, TypeOK
            <4>2. \A e \in CPUs : Owns(e, r) => e = c
                BY <1>0, <3>4 DEF OneOwner, Owns
            <4>3. rq'[r] = IF Requeues(c) THEN c ELSE rq[r]
                BY <2>1, <2>4, <3>4 DEF RqAfterPrev, TypeOK
            <4>4. Requeues(c) => state[r] = "RUNNABLE" /\ c \in cpu_mask[r]
                BY <3>4 DEF Requeues, sched_cpu_allowed
            <4> QED
                BY <1>0, <2>1, <3>1, <3>2, <3>3, <4>1, <4>2, <4>3, <4>4 DEF OneOwner, QueuedSoundly
        <3>5. CASE r # current[c]
            <4>1. rq'[r] = rq[r]
                BY <2>1, <2>4, <3>5 DEF RqAfterPrev, TypeOK
            <4> QED
                BY <1>0, <2>1, <3>1, <3>2, <3>3, <4>1 DEF OneOwner, QueuedSoundly
        <3> QED
            BY <3>4, <3>5
    <2> QED
        BY <2>3, <2>4
<1>7. ASSUME NEW c \in CPUs, ScheduleIdle(c) PROVE Sound
    <2>1. /\ UNCHANGED <<state, rq, on_cpu, cpu_mask, current, pending>>
          /\ pc[c] \in {"run", "block"} /\ Leave(c, Idle)
        BY <1>7 DEF ScheduleIdle, MayCallSchedule, InCode
    <2>2. \A e \in CPUs : (Owns(e, r)' <=> Owns(e, r)) /\ (Leaving(e, r) => Leaving(e, r)')
        BY <2>1 DEF Leave, Owns, Leaving, TypeOK
    <2> QED
        BY <1>0, <2>1, <2>2 DEF OneOwner, QueuedSoundly
<1>8. ASSUME NEW c \in CPUs, proc_run(c) PROVE Sound
    <2>1. UNCHANGED <<state, rq, on_cpu, cpu_mask>>
        BY <1>8 DEF proc_run, procVars
    <2>2. \A e \in CPUs : Owns(e, r)' <=> Owns(e, r)
        BY <1>8 DEF proc_run, Owns, TypeOK
    <2>3. \A e \in CPUs : Leaving(e, r) => Leaving(e, r)'
        BY <1>8 DEF proc_run, Leaving, TypeOK
    <2> QED
        BY <1>0, <2>1, <2>2, <2>3 DEF OneOwner, QueuedSoundly
<1>9. ASSUME NEW c \in CPUs, proc_switch_complete(c) PROVE Sound
    <2>1. /\ UNCHANGED <<state, rq, cpu_mask, current, next>>
          /\ pc[c] = "onstack" /\ pc' = [pc EXCEPT ![c] = "run"]
          /\ pending' = [pending EXCEPT ![c] = None]
          /\ on_cpu' = Retired(pending[c])
        BY <1>9 DEF proc_switch_complete
    <2>2. CASE r = pending[c]
        <3>1. Owns(c, r) /\ current[c] # r
            BY <2>1, <2>2 DEF Owns, SwitchOK
        <3>2. \A e \in CPUs : Owns(e, r) => e = c
            BY <1>0, <3>1 DEF OneOwner
        <3>3. \A e \in CPUs : ~Owns(e, r)'
            BY <2>1, <3>1, <3>2 DEF Owns, TypeOK
        <3> QED
            BY <1>0, <2>1, <3>3 DEF OneOwner, QueuedSoundly
    <2>3. CASE r # pending[c]
        <3>1. on_cpu'[r] = on_cpu[r]
            BY <2>1, <2>3 DEF Retired, TypeOK
        <3>2. \A e \in CPUs : (Owns(e, r)' <=> Owns(e, r)) /\ (Leaving(e, r) => Leaving(e, r)')
            BY <2>1, <2>3 DEF Owns, Leaving, TypeOK
        <3> QED
            BY <1>0, <2>1, <3>1, <3>2 DEF OneOwner, QueuedSoundly
    <2> QED
        BY <2>2, <2>3
<1>10. ASSUME NEW b \in CPUs, NEW t \in CPUs, NEW p \in Procs, sched_balance(b, t, p) PROVE Sound
    <2>1. /\ UNCHANGED <<current, pending, pc, next, on_cpu, state, cpu_mask>>
          /\ rq' = [rq EXCEPT ![p] = t] /\ p \in queue[b] /\ t \in cpu_mask[p]
        BY <1>10 DEF sched_balance, switchVars, Pickable, sched_cpu_allowed
    <2>2. b # t
        <3>1. Cardinality(queue[t]) \in Nat
            BY FS_Subset, FS_CardinalityType DEF TypeOK
        <3>2. Cardinality(queue[b]) > Cardinality(queue[t]) + 1
            BY <1>10 DEF sched_balance
        <3> QED
            BY <3>1, <3>2
    <2>3. rq[p] = b
        BY <2>1 DEF QueueConsistent
    <2>4. p # r
        <3> SUFFICES ASSUME p = r PROVE FALSE
            OBVIOUS
        <3>1. b \in cpu_mask[r]
            BY <1>0, <2>3 DEF QueuedSoundly
        <3> QED
            BY <1>m, <2>1, <2>2, <3>1
    <2>5. rq'[r] = rq[r]
        BY <2>1, <2>4 DEF TypeOK
    <2> QED
        BY <1>0, <2>1, <2>5, OwnsUnchanged DEF OneOwner, QueuedSoundly
<1> QED
    BY <1>1, <1>2, <1>3, <1>4, <1>5, <1>6, <1>7, <1>8, <1>9, <1>10 DEF Next, Schedule, Tick,
       switchVars, procVars, vars

(* A process confined to one CPU at a time is handed over soundly, however *)
(* its mask is changed, it is woken, stopped or balanced meanwhile: on_cpu *)
(* is set while a CPU is on its kernel stack, no two CPUs are, and it is   *)
(* in no run queue once it sleeps, stops or exits.                         *)
THEOREM PinnedHandedOver == Spec => []PinnedHandOff
<1> DEFINE I == TypeInv /\ QueueConsistent /\ OnCpuOwned /\ PinInv
<1>1. Init => I
    <2> SUFFICES ASSUME Init PROVE I
        OBVIOUS
    <2>1. TypeInv
        BY TypeInit
    <2>2. QueueConsistent
        BY SchedAssumption DEF Init, QueueConsistent
    <2>3. \A c \in CPUs, p \in Procs : ~Owns(c, p)
        BY SchedAssumption DEF Init, Owns
    <2> QED
        BY <2>1, <2>2, <2>3 DEF Init, OnCpuOwned, PinInv, SwitchOK, MaskOK, PinnedOwned, OneOwner, QueuedSoundly
<1>2. I /\ [Next]_vars => I'
    BY TypeStep, LinkStep, OwnedStep, SwitchStep, PinnedStep DEF PinInv
<1>3. I => PinnedHandOff
    BY DEF PinInv, PinnedOwned, OneOwner, QueuedSoundly, Owns, PinnedHandOff
<1> QED
    BY <1>1, <1>2, <1>3, PTL DEF Spec
=============================================================================
