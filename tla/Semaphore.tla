----------------------------- MODULE Semaphore -----------------------------
(***************************************************************************)
(* One kernel semaphore and the processes that use it (kern/sync/sem.c and *)
(* wait.c), on top of the wake-up behaviour of the scheduler module Sched: *)
(* wakeup_proc has two critical sections, the CPU that switches a sleeping *)
(* process out may owe it a second wakeup_proc, and do_kill_signal calls   *)
(* wakeup_proc after it has dropped proc_lock.  Such owed calls are kept   *)
(* in "late" until they happen.                                            *)
(*                                                                         *)
(* The wait node is a local variable of __down, so a node is identified    *)
(* with its process; "alive" remembers whether the frame a waker points    *)
(* into still exists.                                                      *)
(***************************************************************************)
EXTENDS Integers, Sequences, FiniteSets, SequencesExt

CONSTANTS
    Procs,      (* processes using the semaphore                           *)
    None,       (* NULL                                                    *)
    Uses        (* the ways the kernel uses a semaphore, one record each   *)

EntryPoints == {"down", "down_interruptible", "try_down", "up", "event", "all"}

(* v0: the argument of sem_init; ops[p]: the entry points p calls; lend:   *)
(* how many more ups than downs a process performs, hold: how many more    *)
(* downs than ups; signalled: the processes that signals are sent to.      *)
UseType == [v0 : Nat, ops : [Procs -> SUBSET EntryPoints], lend : Nat, hold : Nat,
            signalled : SUBSET Procs]

ASSUME SemAssumption ==
    /\ IsFiniteSet(Procs) /\ None \notin Procs
    /\ \A u \in Uses : u \in UseType

VARIABLES
    use,        (* which of Uses this semaphore is put to; never changes   *)
    value,      (* sem->value                                              *)
    queue,      (* sem->wait_queue: the processes whose nodes are linked   *)
    state,      (* proc->state                                             *)
    wait_state, (* proc->wait_state                                        *)
    where,      (* cpu, switching: on_cpu is set; rq: queued; off: neither *)
    flags,      (* wait->wakeup_flags of the node in p's __down frame      *)
    sig,        (* signal_should_interrupt(p)                              *)
    late,       (* processes somebody still owes a wakeup_proc call        *)
    pc,         (* where the process stands                                *)
    op,         (* the entry point it is executing                         *)
    popped,     (* a waker's local "wait"                                  *)
    alive,      (* the frame "wait" points into has not returned           *)
    woke,       (* sem_wake_all's local                                    *)
    held        (* successful downs minus ups of each process (history)    *)

moving == <<value, queue, state, wait_state, where, flags, sig, late, pc, op,
            popped, alive, woke, held>>
vars == <<use, moving>>
procVars == <<state, wait_state, where, sig, late>>
wakerVars == <<popped, alive, woke>>

(* ready: outside; queued: node linked, wait state published; sched: about *)
(* to call schedule(); asleep: inside it; del: back from it or woken early *)
(* by a signal (early); flag: popped a node, sem->lock held; wake: lock    *)
(* dropped; enq: between the two halves of wakeup_proc; again: sem_wake_all *)
(* before its next round; panic: an assertion failed.                      *)
WaitPcs == {"queued", "sched", "asleep", "del", "early"}
WakePcs == {"flag", "wake", "enq", "again"}
PCs == {"ready", "panic"} \cup WaitPcs \cup WakePcs
WaitStates == {"0", "KSEM", "KSEM|INT"}

(* Tokens are counted unless the semaphore is used for events.             *)
Counted == \A p \in Procs : use.ops[p] \cap {"event", "all"} = {}

TypeOK ==
    /\ use \in Uses
    /\ value \in Nat
    /\ queue \in Seq(Procs)
    /\ state \in [Procs -> {"RUNNABLE", "SLEEPING"}]
    /\ wait_state \in [Procs -> WaitStates]
    /\ where \in [Procs -> {"cpu", "switching", "off", "rq"}]
    /\ flags \in [Procs -> WaitStates \cup {"INT"}]
    /\ sig \in [Procs -> BOOLEAN]
    /\ late \subseteq Procs
    /\ pc \in [Procs -> PCs]
    /\ op \in [Procs -> EntryPoints]
    /\ popped \in [Procs -> Procs \cup {None}]
    /\ alive \in [Procs -> BOOLEAN]
    /\ woke \in [Procs -> BOOLEAN]
    /\ held \in [Procs -> Int]

Init ==
    /\ use \in Uses
    /\ value = use.v0
    /\ queue = <<>>
    /\ state = [p \in Procs |-> "RUNNABLE"]
    /\ wait_state = [p \in Procs |-> "0"]
    /\ where = [p \in Procs |-> "cpu"]
    /\ flags = [p \in Procs |-> "INT"]
    /\ sig = [p \in Procs |-> FALSE]
    /\ late = {}
    /\ pc = [p \in Procs |-> "ready"]
    /\ op = [p \in Procs |-> "up"]
    /\ popped = [p \in Procs |-> None]
    /\ alive = [p \in Procs |-> FALSE]
    /\ woke = [p \in Procs |-> FALSE]
    /\ held = [p \in Procs |-> 0]
-----------------------------------------------------------------------------
Running == \A p \in Procs : pc[p] # "panic"

(* sem->lock is held across a step only by a waker that popped a node.     *)
LockFree == \A u \in Procs : pc[u] # "flag"

Starts(p, o) == Running /\ pc[p] = "ready" /\ where[p] = "cpu" /\ o \in use.ops[p]
Held(p, d) == [held EXCEPT ![p] = IF Counted THEN @ + d ELSE @]
MayDown(p) == held[p] < use.hold

Mode(o) == IF o = "down" THEN "KSEM" ELSE "KSEM|INT"

(* Definitions named Bug_... are wrong variants of a definition below;     *)
(* no action uses them.                                                    *)
Bug_WaitDespiteToken == value <= 1
Bug_NodeNotReset(p) == flags

(* The test of __down and try_down under sem->lock, and wait_init.         *)
HasToken == value > 0
MustWait == value = 0
wait_init(p) == [flags EXCEPT ![p] = "INT"]

(* The fast path of __down, and try_down.                         *)
DownFast(p, o) ==
    /\ Starts(p, o) /\ o \in {"down", "down_interruptible", "try_down"}
    /\ LockFree /\ MayDown(p)
    /\ HasToken
    /\ value' = value - 1
    /\ held' = Held(p, 1)
    /\ UNCHANGED <<queue, flags, pc, op, procVars, wakerVars>>

(* __down: link the node and publish the wait state in one critical        *)
(* section (wait_current_set).                                             *)
DownWait(p, o) ==
    /\ Starts(p, o) /\ o \in {"down", "down_interruptible"}
    /\ LockFree /\ MayDown(p)
    /\ MustWait
    /\ queue' = Append(queue, p)
    /\ flags' = wait_init(p)
    /\ state' = [state EXCEPT ![p] = "SLEEPING"]
    /\ wait_state' = [wait_state EXCEPT ![p] = Mode(o)]
    /\ op' = [op EXCEPT ![p] = o]
    /\ pc' = [pc EXCEPT ![p] = "queued"]
    /\ UNCHANGED <<value, where, sig, late, wakerVars, held>>

Interrupts(p) == op[p] = "down_interruptible" /\ sig[p]

(* The prepare_to_wait check: a signal that was already pending.           *)
DownEarly(p) ==
    /\ Running /\ pc[p] = "queued" /\ Interrupts(p)
    /\ state' = [state EXCEPT ![p] = "RUNNABLE"]
    /\ wait_state' = [wait_state EXCEPT ![p] =
                        IF state[p] = "SLEEPING" THEN "0" ELSE @]
    /\ pc' = [pc EXCEPT ![p] = "early"]
    /\ UNCHANGED <<value, queue, where, flags, sig, late, op, wakerVars, held>>

DownNoSignal(p) ==
    /\ Running /\ pc[p] = "queued" /\ ~Interrupts(p)
    /\ pc' = [pc EXCEPT ![p] = "sched"]
    /\ UNCHANGED <<value, queue, flags, op, procVars, wakerVars, held>>

(* schedule(): sleeps unless a waker made the process runnable already.    *)
CallSchedule(p) ==
    /\ Running /\ pc[p] = "sched"
    /\ \/ /\ state[p] = "SLEEPING"
          /\ where' = [where EXCEPT ![p] = "switching"]
          /\ pc' = [pc EXCEPT ![p] = "asleep"]
       \/ /\ state[p] = "RUNNABLE"
          /\ pc' = [pc EXCEPT ![p] = "del"]
          /\ UNCHANGED where
    /\ UNCHANGED <<value, queue, state, wait_state, flags, sig, late, op, wakerVars, held>>

(* proc_switch_complete on the CPU that left p; it owes p a wakeup_proc if *)
(* a waker found on_cpu still set.                                         *)
SwitchComplete(p) ==
    /\ Running /\ where[p] = "switching"
    /\ where' = [where EXCEPT ![p] = "off"]
    /\ late' = IF state[p] = "RUNNABLE" THEN late \cup {p} ELSE late
    /\ UNCHANGED <<value, queue, state, wait_state, flags, sig, pc, op, wakerVars, held>>

(* A CPU picks p from a run queue; p returns from schedule().              *)
Dispatch(p) ==
    /\ Running /\ where[p] = "rq" /\ pc[p] = "asleep"
    /\ where' = [where EXCEPT ![p] = "cpu"]
    /\ pc' = [pc EXCEPT ![p] = "del"]
    /\ UNCHANGED <<value, queue, state, wait_state, flags, sig, late, op, wakerVars, held>>
-----------------------------------------------------------------------------
Bug_KeepNode(p) == queue
InQueue(p) == \E i \in 1 .. Len(queue) : queue[i] = p
Position(p) == CHOOSE i \in 1 .. Len(queue) : queue[i] = p
Unlinked(p) == IF InQueue(p) THEN RemoveAt(queue, Position(p)) ELSE queue

(* The frame of __down is gone: whoever holds a pointer into it dangles.   *)
FrameGone(p) == [u \in Procs |-> alive[u] /\ popped[u] # p]

(* What __down returns in p: 0 is success.                                 *)
DownResult(p) == IF flags[p] = Mode(op[p]) THEN "0" ELSE flags[p]

(* wait_current_del and the end of __down, down and down_interruptible.    *)
DownReturn(p) ==
    /\ Running /\ pc[p] = "del"
    /\ queue' = Unlinked(p)
    /\ alive' = FrameGone(p)
    /\ held' = Held(p, IF DownResult(p) = "0" THEN 1 ELSE 0)
    /\ pc' = [pc EXCEPT ![p] =
                IF op[p] = "down" /\ DownResult(p) # "0" THEN "panic" ELSE "ready"]
    /\ UNCHANGED <<value, flags, op, popped, woke, procVars>>

(* The early path returns WT_INTERRUPTED whatever the node says.           *)
DownEarlyReturn(p) ==
    /\ Running /\ pc[p] = "early"
    /\ queue' = Unlinked(p)
    /\ alive' = FrameGone(p)
    /\ pc' = [pc EXCEPT ![p] = "ready"]
    /\ UNCHANGED <<value, flags, op, popped, woke, held, procVars>>
-----------------------------------------------------------------------------
(* The wakers' test of a popped node: a waiter that something else woke    *)
(* has wait_state 0 and must not receive the token.                        *)
Valid(p) == wait_state[p] # "0"
FirstValid(i) == Valid(queue[i]) /\ \A j \in 1 .. i - 1 : ~Valid(queue[j])

Bug_ForgetToken(o, again) == value

(* What a waker that found no valid waiter does to the value.              *)
Deposit(o, again) ==
    CASE o = "up" -> value + 1
      [] o = "event" -> IF value = 0 THEN 1 ELSE value
      [] o = "all" -> IF ~again /\ value = 0 THEN 1 ELSE value

(* The critical section of __up, sem_wake_event and sem_wake_all, up to    *)
(* the choice of a waiter ...                                              *)
PopNode(u, o, again) ==
    \/ /\ \A i \in DOMAIN queue : ~Valid(queue[i])
       /\ queue' = <<>>
       /\ value' = Deposit(o, again)
       /\ pc' = [pc EXCEPT ![u] = "ready"]
       /\ UNCHANGED <<popped, alive, woke>>
    \/ \E i \in DOMAIN queue :
       /\ FirstValid(i)
       /\ queue' = SubSeq(queue, i + 1, Len(queue))
       /\ popped' = [popped EXCEPT ![u] = queue[i]]
       /\ alive' = [alive EXCEPT ![u] = TRUE]
       /\ woke' = [woke EXCEPT ![u] = again]
       /\ pc' = [pc EXCEPT ![u] = "flag"]
       /\ UNCHANGED value

Wake(u, o) ==
    /\ Starts(u, o) /\ o \in {"up", "event", "all"}
    /\ LockFree
    /\ o = "up" => held[u] > 0 - use.lend
    /\ op' = [op EXCEPT ![u] = o]
    /\ held' = Held(u, -1)
    /\ PopNode(u, o, FALSE)
    /\ UNCHANGED <<flags, procVars>>

(* ... and the second read of wait_state, which a signal may have cleared. *)
WakeFlag(u) ==
    /\ Running /\ pc[u] = "flag"
    /\ flags' = IF alive[u] THEN [flags EXCEPT ![popped[u]] = wait_state[popped[u]]] ELSE flags
    /\ pc' = [pc EXCEPT ![u] = "wake"]
    /\ UNCHANGED <<value, queue, op, procVars, wakerVars, held>>

(* wakeup_proc(wait->proc) after the lock is dropped, first half.  When    *)
(* the frame is gone the model goes on with what was there before;         *)
(* WakerSeesWaiter is about that read.                                     *)
WakeProc(u) ==
    LET p == popped[u] IN
    /\ Running /\ pc[u] = "wake"
    /\ state' = [state EXCEPT ![p] = "RUNNABLE"]
    /\ wait_state' = [wait_state EXCEPT ![p] = IF state[p] = "SLEEPING" THEN "0" ELSE @]
    /\ pc' = [pc EXCEPT ![u] = "enq"]
    /\ UNCHANGED <<value, queue, where, flags, sig, late, op, wakerVars, held>>

Enqueue(p) == [where EXCEPT ![p] = IF @ = "off" /\ state[p] = "RUNNABLE" THEN "rq" ELSE @]

(* ... second half.  sem_wake_all goes round its loop again.               *)
WakeEnqueue(u) ==
    /\ Running /\ pc[u] = "enq"
    /\ where' = Enqueue(popped[u])
    /\ pc' = [pc EXCEPT ![u] = IF op[u] = "all" THEN "again" ELSE "ready"]
    /\ popped' = [popped EXCEPT ![u] = None]
    /\ alive' = [alive EXCEPT ![u] = FALSE]
    /\ UNCHANGED <<value, queue, state, wait_state, flags, sig, late, op, woke, held>>

WakeAllAgain(u) ==
    /\ Running /\ pc[u] = "again"
    /\ LockFree
    /\ PopNode(u, "all", TRUE)
    /\ UNCHANGED <<flags, op, held, procVars>>
-----------------------------------------------------------------------------
(* do_kill_signal: publishes the runnable state under proc_lock and calls  *)
(* wakeup_proc afterwards.                                                 *)
Kill(p) ==
    /\ Running /\ p \in use.signalled
    /\ sig' = [sig EXCEPT ![p] = TRUE]
    /\ IF wait_state[p] = "KSEM|INT"
       THEN /\ state' = [state EXCEPT ![p] = "RUNNABLE"]
            /\ wait_state' = [wait_state EXCEPT ![p] = "0"]
            /\ late' = late \cup {p}
       ELSE UNCHANGED <<state, wait_state, late>>
    /\ UNCHANGED <<value, queue, where, flags, pc, op, wakerVars, held>>

(* A wakeup_proc call owed to p finally happens.                           *)
LateWake(p) ==
    /\ Running /\ p \in late
    /\ late' = late \ {p}
    /\ state' = [state EXCEPT ![p] = "RUNNABLE"]
    /\ wait_state' = [wait_state EXCEPT ![p] = IF state[p] = "SLEEPING" THEN "0" ELSE @]
    /\ where' = [where EXCEPT ![p] = IF @ = "off" THEN "rq" ELSE @]
    /\ UNCHANGED <<value, queue, flags, sig, pc, op, wakerVars, held>>

(* The process goes back to user mode, where the signal is delivered.      *)
SignalDelivered(p) ==
    /\ Running /\ pc[p] = "ready" /\ sig[p]
    /\ sig' = [sig EXCEPT ![p] = FALSE]
    /\ UNCHANGED <<value, queue, state, wait_state, where, flags, late, pc, op, wakerVars, held>>
-----------------------------------------------------------------------------
DownStep(p) ==
    DownEarly(p) \/ DownNoSignal(p) \/ CallSchedule(p) \/ SwitchComplete(p) \/ Dispatch(p)
        \/ DownReturn(p) \/ DownEarlyReturn(p)
WakeStep(u) == WakeFlag(u) \/ WakeProc(u) \/ WakeEnqueue(u) \/ WakeAllAgain(u)

(* The kernel has panicked: nothing moves any more.                        *)
Panicked == ~Running /\ UNCHANGED vars

Next ==
    /\ UNCHANGED use
    /\ \/ \E p \in Procs, o \in EntryPoints : DownFast(p, o) \/ DownWait(p, o) \/ Wake(p, o)
       \/ \E p \in Procs : DownStep(p) \/ WakeStep(p)
       \/ \E p \in Procs : Kill(p) \/ LateWake(p) \/ SignalDelivered(p)
       \/ Panicked

Spec == Init /\ [][Next]_vars

(* A process finishes the call it is in, the CPUs complete switches and    *)
(* pick queued processes, and a holder calls up; nobody must call down.    *)
Fairness ==
    \A p \in Procs :
        /\ WF_moving(DownStep(p) \/ WakeStep(p)) /\ WF_moving(LateWake(p))
        /\ SF_moving(held[p] > 0 /\ Wake(p, "up"))

FairSpec == Spec /\ Fairness
-----------------------------------------------------------------------------
Handed == {p \in Procs : pc[p] \in WaitPcs /\ flags[p] # "INT"}
InFlight == {u \in Procs : pc[u] = "flag"}

(* Seen from outside, down and up are the operations of a counting         *)
(* semaphore: a token in a waker's or a waiter's hands is still available, *)
(* and only a process whose waits are interruptible can make one disappear *)
(* (a signal interrupts it, and so does a wakeup_proc somebody still owed  *)
(* it from an earlier sleep).  An event semaphore promises no such thing:  *)
(* it maps to an unused store.                                             *)
Tokens == IF Counted THEN value + Cardinality(Handed) + Cardinality(InFlight) ELSE 0
Interruptible == {p \in Procs : "down_interruptible" \in use.ops[p]}

Abstract == INSTANCE CountingSemaphore WITH
    avail <- Tokens, held <- held, interrupted <- Interruptible

ImplementsCounting == Abstract!Spec

(* No process sleeps on a semaphore that has a token: __down tests the     *)
(* value and links its node under one lock, and a waker adds to the value  *)
(* only after emptying the queue.                                          *)
NoSleeperWithToken == value > 0 => queue = <<>>

(* The queue never links a wait node of a frame that has returned, and     *)
(* links no node twice.                                                    *)
QueuedFramesLive ==
    /\ \A i \in DOMAIN queue : pc[queue[i]] \in WaitPcs
    /\ \A i, j \in DOMAIN queue : i # j => queue[i] # queue[j]

(* A semaphore that only carries events remembers one of them, however     *)
(* many were posted while nobody waited.                                   *)
EventsBounded ==
    use.v0 <= 1 /\ (\A p \in Procs : "up" \notin use.ops[p]) => value <= 1

(* An up() ends in somebody's down() or in the value: what is available    *)
(* and what is held add up to what there was.  The code breaks it when a   *)
(* waiter that found a signal pending was already chosen.                  *)
TokensKept == Counted => Tokens + SumFunction(held) = use.v0

(* A waker that looks at a node it popped, to set its flags or to read the *)
(* process to wake, sees a waiter that is still there.  The code breaks it *)
(* when a signal wakes the waiter first: nothing keeps its frame.          *)
WakerSeesWaiter == \A u \in Procs : pc[u] \in {"flag", "wake"} => alive[u]

(* A process blocked in down() on a lock gets it once the holders release  *)
(* it, signals or not, unless down() fails its own assertion.              *)
DownReturns ==
    \A p \in Procs :
        (op[p] = "down" /\ pc[p] \in WaitPcs) ~> (pc[p] = "ready" \/ ~Running)
=============================================================================
