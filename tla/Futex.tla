------------------------------- MODULE Futex -------------------------------
(***************************************************************************)
(* kern/sync/futex.c on top of the timers: processes wait on one futex     *)
(* word, with or without a timeout, and may be signalled; another thread   *)
(* of the address space stores to the word and wakes them.  The waiter and *)
(* its timer live on the stack of futex_wait.  A step is a critical        *)
(* section of proc_lock, of the bucket's lock or of timer_lock.            *)
(*                                                                         *)
(* Processes expect the word 0.  The waker sets it to 1, calls futex_wake  *)
(* and, later, sets it back.                                               *)
(***************************************************************************)
EXTENDS TimerList

CONSTANTS
    Timeouts,   (* the timeouts each process gives futex_wait; 0 is NULL   *)
    COUNT       (* the count the waker gives futex_wake                    *)

ASSUME FutexAssumption == Timeouts \in [Procs -> SUBSET Nat] /\ COUNT \in Nat

VARIABLES
    word,       (* the futex word                                          *)
    bucket,     (* the bucket's queue                                      *)
    timed,      (* timeout # NULL                                          *)
    waker       (* where the waker is, whom it has to wake, and how many   *)
                (* it has woken                                            *)

futex == <<word, bucket, timed, waker>>
allvars == <<vars, futex>>

FutexTypeOK ==
    /\ TypeOK
    /\ word \in {0, 1}
    /\ bucket \in Seq(Procs)
    /\ timed \in [Procs -> BOOLEAN]
    /\ waker \in [at : {"idle", "loop", "wake"}, hand : Procs \cup {None}, woken : 0 .. COUNT]

FutexInit ==
    /\ Init
    /\ word = 0
    /\ bucket = <<>>
    /\ timed = [p \in Procs |-> FALSE]
    /\ waker = [at |-> "idle", hand |-> None, woken |-> 0]
-----------------------------------------------------------------------------
Goto(p, at) == pc' = [pc EXCEPT ![p] = at]
Awake(p) ==
    /\ state' = [state EXCEPT ![p] = "RUNNABLE"]
    /\ wait_state' = [wait_state EXCEPT ![p] = "0"]
InBucket(p) == \E k \in 1 .. Len(bucket) : bucket[k] = p

(* futex_wait: the timeout of n ticks and the first signal check.  A       *)
(* timeout of no ticks at all returns -E_TIMEOUT without a wait.           *)
FutexCheck(p, n) ==
    /\ pc[p] = "user" /\ ~sig[p]     (* sig: -E_INTR at once *)
    /\ Goto(p, "checked_futex")
    /\ expires' = [expires EXCEPT ![p] = n]
    /\ timed' = [timed EXCEPT ![p] = n > 0]
    /\ UNCHANGED <<timer_list, state, wait_state, sig, handler, left, word, bucket, waker>>

Bug_NoRecheck == TRUE
Expected == word = 0

(* The word is read again under both locks and the waiter published.       *)
FutexPublish(p) ==
    /\ pc[p] = "checked_futex"
    /\ IF Expected
       THEN /\ bucket' = Append(bucket, p)
            /\ state' = [state EXCEPT ![p] = "SLEEPING"]
            /\ wait_state' = [wait_state EXCEPT ![p] = "FUTEX"]
            /\ Goto(p, "queued_futex")
            /\ UNCHANGED <<expires, timed>>
       ELSE /\ Goto(p, "user")
            /\ expires' = [expires EXCEPT ![p] = 0]
            /\ timed' = [timed EXCEPT ![p] = FALSE]
            /\ UNCHANGED <<bucket, state, wait_state>>     (* -E_AGAIN *)
    /\ UNCHANGED <<timer_list, sig, handler, left, word, waker>>

FutexArm(p) ==
    /\ pc[p] = "queued_futex"
    /\ IF timed[p] THEN add_timer(p) ELSE UNCHANGED <<timers, left>>
    /\ Goto(p, "armed_futex")
    /\ UNCHANGED <<state, wait_state, sig, handler, futex>>

(* A signal that came after the first check: up again, no schedule().      *)
FutexSleep(p) ==
    /\ pc[p] = "armed_futex"
    /\ IF sig[p] THEN Awake(p) /\ Goto(p, "woken_futex")
       ELSE Goto(p, "futex") /\ UNCHANGED <<state, wait_state>>
    /\ UNCHANGED <<timers, sig, handler, left, futex>>

FutexWoken(p) ==
    /\ pc[p] = "futex" /\ state[p] = "RUNNABLE"
    /\ Goto(p, "woken_futex")
    /\ UNCHANGED <<timers, state, wait_state, sig, handler, left, futex>>

FutexDisarm(p) ==
    /\ pc[p] = "woken_futex"
    /\ IF timed[p] THEN del_timer(p) ELSE UNCHANGED timers
    /\ Goto(p, "disarmed_futex")
    /\ UNCHANGED <<state, wait_state, sig, handler, left, futex>>

Bug_LeaveQueued(p) ==
    IF InBucket(p) /\ ~sig[p] THEN RemoveAt(bucket, Index(bucket, p)) ELSE bucket
Unqueued(p) == IF InBucket(p) THEN RemoveAt(bucket, Index(bucket, p)) ELSE bucket
FutexUnlink(p) ==
    /\ pc[p] = "disarmed_futex"
    /\ bucket' = Unqueued(p)
    /\ Goto(p, "done_futex")
    /\ UNCHANGED <<timers, state, wait_state, sig, handler, left, word, timed, waker>>

(* Which result futex_wait returns is decided here, by the signal check,   *)
(* wakeup_flags and the clock; nothing in the kernel depends on it.        *)
FutexReturn(p) ==
    /\ pc[p] = "done_futex"
    /\ Goto(p, "user")
    /\ expires' = [expires EXCEPT ![p] = 0]
    /\ left' = [left EXCEPT ![p] = 0]
    /\ timed' = [timed EXCEPT ![p] = FALSE]
    /\ UNCHANGED <<timer_list, state, wait_state, sig, handler, word, bucket, waker>>
-----------------------------------------------------------------------------
(* The waker: the store, in user code, and futex_wake.                     *)
StoreWord ==
    /\ waker.at = "idle"
    /\ word' = 1 - word
    /\ waker' = [waker EXCEPT !.at = IF word = 0 THEN "loop" ELSE "idle"]
    /\ UNCHANGED <<vars, bucket, timed>>

(* One turn up to the unlock: the first waiter leaves the bucket.          *)
WakePop ==
    LET p == bucket[1] IN
    /\ waker.at = "loop"
    /\ IF bucket = <<>> \/ waker.woken = COUNT
       THEN /\ waker' = [at |-> "idle", hand |-> None, woken |-> 0]
            /\ UNCHANGED bucket
       ELSE /\ bucket' = Tail(bucket)
            /\ waker' = [waker EXCEPT !.at = "wake", !.hand = p]
    /\ UNCHANGED <<vars, word, timed>>

(* wakeup_proc, whatever the process waits for by now.                     *)
WakeProc ==
    LET p == waker.hand IN
    /\ waker.at = "wake"
    /\ IF state[p] = "SLEEPING" THEN Awake(p) ELSE UNCHANGED <<state, wait_state>>
    /\ waker' = [at |-> "loop", hand |-> None, woken |-> waker.woken + 1]
    /\ UNCHANGED <<timers, pc, sig, handler, left, word, bucket, timed>>
-----------------------------------------------------------------------------
FutexStep(p) ==
    \/ FutexPublish(p) \/ FutexArm(p) \/ FutexSleep(p) \/ FutexWoken(p)
    \/ FutexDisarm(p) \/ FutexUnlink(p) \/ FutexReturn(p)

FutexNext ==
    \/ Next /\ UNCHANGED futex
    \/ \E p \in Procs : FutexStep(p) \/ \E n \in Timeouts[p] : FutexCheck(p, n)
    \/ StoreWord \/ WakePop \/ WakeProc

FutexSpec == FutexInit /\ [][FutexNext]_allvars

(* Ticks keep coming and kernel code runs to its end; the waker may stop   *)
(* between its calls of futex_wake, not inside one.                        *)
FutexFairSpec ==
    /\ FutexSpec
    /\ WF_allvars(clock_tick /\ UNCHANGED futex)
    /\ WF_allvars((RunTimerList \/ TimerWake \/ TimerPanic) /\ UNCHANGED futex)
    /\ WF_allvars(WakePop \/ WakeProc)
    /\ \A p \in Procs : WF_allvars(SleepStep(p) /\ UNCHANGED futex) /\ WF_allvars(FutexStep(p))
-----------------------------------------------------------------------------
(* futex.c: "a wake cannot be lost between the comparison and queue        *)
(* insertion."  A waiter that sleeps can be found by the next wake or is   *)
(* in the waker's hand, and does not sleep on a word that has changed once *)
(* the wake that follows the store, of as many as there are, is over.      *)
NoLostFutexWake ==
    \A p \in Procs : pc[p] = "futex" /\ state[p] = "SLEEPING" =>
        /\ InBucket(p) \/ waker.hand = p
        /\ word = 1 => waker.at # "idle"

(* The waiter is on the stack of futex_wait: the bucket never links one    *)
(* whose call is over, however signal, timeout and wake meet.              *)
WaitersLive ==
    /\ \A k \in 1 .. Len(bucket) :
        pc[bucket[k]] \in {"queued_futex", "disarmed_futex"} \cup FutexArmed
    /\ \A j, k \in 1 .. Len(bucket) : bucket[j] = bucket[k] => j = k

(* do_sleep, and futex_wait with a timeout, come back, whatever is armed   *)
(* or cancelled around their timer and whoever else wakes them, or the     *)
(* assertion of run_timer_list fails: ExpiredStillWaits is no invariant.   *)
TimedWaitEnds ==
    \A p \in Procs :
        (pc[p] = "armed" \/ (pc[p] = "futex" /\ timed[p]))
            ~> (pc[p] = "user" \/ tick_pc = "panic")
=============================================================================
