----------------------------- MODULE TimerList -----------------------------
(***************************************************************************)
(* Kernel timers: the delta list of kern/schedule/sched.c (add_timer,      *)
(* del_timer, run_timer_list) and its user do_sleep (kern/process/proc.c). *)
(*                                                                         *)
(* Each process owns one timer_t, on the stack of the call that waits.  A  *)
(* list entry stores the ticks after its predecessor.  CPU 0 runs the tick *)
(* handler; the sleepers run on the other CPUs, so a step is one critical  *)
(* section of timer_lock or proc_lock and the handler interleaves with     *)
(* them.  In particular run_timer_list drops timer_lock before it uses the *)
(* expired timer's process.                                                *)
(***************************************************************************)
EXTENDS Integers, Sequences, SequencesExt

CONSTANTS
    Procs,
    None,       (* the handler holds no expired timer                      *)
    Times,      (* the arguments each process gives do_sleep               *)
    Signalled,  (* processes that get signals                              *)
    Downers     (* processes that also wait on kernel semaphores           *)

ASSUME TimerAssumption ==
    /\ None \notin Procs
    /\ Times \in [Procs -> SUBSET (Nat \ {0})]
    /\ Signalled \subseteq Procs /\ Downers \subseteq Procs

VARIABLES
    timer_list,     (* sequence of processes, first to expire first        *)
    expires,        (* timer->expires of each process                      *)
    pc, state, wait_state, sig,
    tick_pc,        (* idle, ticked: clock_tick done, expired: see hand,   *)
                    (* panic: the assertion of run_timer_list has failed   *)
    hand,           (* timer->proc taken off the list by run_timer_list    *)
    left            (* history: calls of run_timer_list until the timer is *)
                    (* due                                                 *)

timers == <<timer_list, expires>>
handler == <<tick_pc, hand>>
vars == <<timers, pc, state, wait_state, sig, handler, left>>

(* checked: past the signal check; published: SLEEPING and WT_TIMER set;   *)
(* armed: add_timer done, in schedule(); woken: back from schedule();      *)
(* done: del_timer done; down: in an uninterruptible wait (WT_KSEM).       *)
PCs == {"user", "checked", "published", "armed", "woken", "done", "down"}
(* futex_wait (module Futex) has a timer too: the steps between its        *)
(* add_timer and del_timer.                                                *)
FutexArmed == {"armed_futex", "futex", "woken_futex"}
FutexPCs == FutexArmed \cup {"checked_futex", "queued_futex", "disarmed_futex", "done_futex"}
Interruptible == {"TIMER", "FUTEX"}

TypeOK ==
    /\ timer_list \in Seq(Procs)
    /\ expires \in [Procs -> Nat]
    /\ pc \in [Procs -> PCs \cup FutexPCs]
    /\ state \in [Procs -> {"RUNNABLE", "SLEEPING"}]
    /\ wait_state \in [Procs -> {"0", "KSEM"} \cup Interruptible]
    /\ sig \in [Procs -> BOOLEAN]
    /\ tick_pc \in {"idle", "ticked", "expired", "panic"}
    /\ hand \in Procs \cup {None}
    /\ left \in [Procs -> Nat]

Init ==
    /\ timer_list = <<>>
    /\ expires = [p \in Procs |-> 0]
    /\ pc = [p \in Procs |-> "user"]
    /\ state = [p \in Procs |-> "RUNNABLE"]
    /\ wait_state = [p \in Procs |-> "0"]
    /\ sig = [p \in Procs |-> FALSE]
    /\ tick_pc = "idle" /\ hand = None
    /\ left = [p \in Procs |-> 0]
-----------------------------------------------------------------------------
(* The delta list as operators on the list s with deltas d.                *)

(* Ticks until the k-th entry expires.                                     *)
Remaining(s, d, k) ==
    LET sum[i \in 0 .. Len(s)] == IF i = 0 THEN 0 ELSE sum[i - 1] + d[s[i]] IN sum[k]

(* add_timer walks past every entry that does not expire later.            *)
Position(s, d, n) ==
    LET earlier == {k \in 1 .. Len(s) : Remaining(s, d, k) <= n}
    IN  IF earlier = {} THEN 0 ELSE CHOOSE k \in earlier : \A j \in earlier : j <= k

(* The deltas after the insertion of p behind entry k: what is left of n,  *)
(* and the successor's delta cut by it.                                    *)
Bug_KeepNext(s, d, k, p, n) == [d EXCEPT ![p] = n - Remaining(s, d, k)]
Inserted(s, d, k, p, n) ==
    LET rest == n - Remaining(s, d, k)
    IN  [q \in Procs |-> IF q = p THEN rest
                         ELSE IF k < Len(s) /\ q = s[k + 1] THEN d[q] - rest
                         ELSE d[q]]

(* del_timer gives the delta of entry k to its successor.                  *)
Deleted(s, d, k) ==
    IF k < Len(s) THEN [d EXCEPT ![s[k + 1]] = @ + d[s[k]]] ELSE d

Index(s, p) == CHOOSE k \in 1 .. Len(s) : s[k] = p
Linked(p) == \E k \in 1 .. Len(timer_list) : timer_list[k] = p
-----------------------------------------------------------------------------
(* do_sleep(n), n > 0: check for signals, timer_init; publish the wait;    *)
(* arm the timer; sleep; disarm.                                           *)
SleepCheck(p, n) ==
    /\ pc[p] = "user" /\ ~sig[p]     (* sig: -E_INTR at once *)
    /\ pc' = [pc EXCEPT ![p] = "checked"]
    /\ expires' = [expires EXCEPT ![p] = n]
    /\ UNCHANGED <<timer_list, state, wait_state, sig, handler, left>>

SleepPublish(p) ==
    /\ pc[p] = "checked"
    /\ state' = [state EXCEPT ![p] = "SLEEPING"]
    /\ wait_state' = [wait_state EXCEPT ![p] = "TIMER"]
    /\ pc' = [pc EXCEPT ![p] = "published"]
    /\ UNCHANGED <<timers, sig, handler, left>>

(* A timer armed while the handler runs may count that run.                *)
add_timer(p) ==
    LET n == expires[p]
        k == Position(timer_list, expires, n)
    IN  /\ expires' = Inserted(timer_list, expires, k, p, n)
        /\ timer_list' = InsertAt(timer_list, k + 1, p)
        /\ left' = [left EXCEPT ![p] = IF tick_pc = "idle" THEN n ELSE n - 1]

SleepArm(p) ==
    /\ pc[p] = "published"
    /\ add_timer(p)
    /\ pc' = [pc EXCEPT ![p] = "armed"]
    /\ UNCHANGED <<state, wait_state, sig, handler>>

(* schedule() returns once the process is runnable.                        *)
SleepWoken(p) ==
    /\ pc[p] = "armed" /\ state[p] = "RUNNABLE"
    /\ pc' = [pc EXCEPT ![p] = "woken"]
    /\ UNCHANGED <<timers, state, wait_state, sig, handler, left>>

Bug_LeaveLinked(p) == timer_list
Bug_UnlinkHead(p) == IF Linked(p) THEN Tail(timer_list) ELSE timer_list
(* list_del_init, if the timer is still linked.                            *)
Without(p) == IF Linked(p) THEN RemoveAt(timer_list, Index(timer_list, p)) ELSE timer_list

del_timer(p) ==
    /\ expires' = IF Linked(p) THEN Deleted(timer_list, expires, Index(timer_list, p)) ELSE expires
    /\ timer_list' = Without(p)

SleepDisarm(p) ==
    /\ pc[p] = "woken"
    /\ del_timer(p)
    /\ pc' = [pc EXCEPT ![p] = "done"]
    /\ UNCHANGED <<state, wait_state, sig, handler, left>>

(* Return from do_sleep: -E_INTR if a signal is pending, else 0.           *)
SleepReturn(p) ==
    /\ pc[p] = "done"
    /\ pc' = [pc EXCEPT ![p] = "user"]
    /\ expires' = [expires EXCEPT ![p] = 0]
    /\ left' = [left EXCEPT ![p] = 0]
    /\ UNCHANGED <<timer_list, state, wait_state, sig, handler>>
-----------------------------------------------------------------------------
(* The timer interrupt on CPU 0: clock_tick, then run_timer_list.          *)
Minus1(d) == IF d > 0 THEN d - 1 ELSE 0

clock_tick ==
    /\ tick_pc = "idle"
    /\ left' = [p \in Procs |-> Minus1(left[p])]
    /\ tick_pc' = "ticked"
    /\ UNCHANGED <<timers, pc, state, wait_state, sig, hand>>

(* One turn of run_timer_list's loop, up to the unlock: the head's delta   *)
(* is decremented and, at zero, the timer is taken off.                    *)
RunTimerList ==
    LET p == timer_list[1] IN
    /\ tick_pc = "ticked"
    /\ IF timer_list = <<>>
       THEN tick_pc' = "idle" /\ UNCHANGED <<timers, hand>>
       ELSE /\ expires' = [expires EXCEPT ![p] = Minus1(@)]
            /\ IF Minus1(expires[p]) = 0
               THEN timer_list' = Tail(timer_list) /\ hand' = p /\ tick_pc' = "expired"
               ELSE tick_pc' = "idle" /\ UNCHANGED <<timer_list, hand>>
    /\ UNCHANGED <<pc, state, wait_state, sig, left>>

(* The rest of the turn, without any lock: who waits by now must be in an  *)
(* interruptible wait.  wakeup_proc follows.                               *)
AssertHolds == wait_state[hand] # "0" => wait_state[hand] \in Interruptible

TimerWake ==
    /\ tick_pc = "expired"
    /\ AssertHolds
    /\ state' = [state EXCEPT ![hand] = "RUNNABLE"]
    /\ wait_state' = [wait_state EXCEPT ![hand] = IF state[hand] = "SLEEPING" THEN "0" ELSE @]
    /\ hand' = None /\ tick_pc' = "ticked"
    /\ UNCHANGED <<timers, pc, sig, left>>

(* CPU 0 ends in the kernel monitor; the other CPUs go on.                 *)
TimerPanic ==
    /\ tick_pc = "expired"
    /\ ~AssertHolds
    /\ tick_pc' = "panic"
    /\ UNCHANGED <<timers, pc, state, wait_state, sig, hand, left>>
-----------------------------------------------------------------------------
(* do_kill_signal: wakes an interruptible wait.                            *)
Kill(p) ==
    /\ p \in Signalled /\ ~sig[p]
    /\ sig' = [sig EXCEPT ![p] = TRUE]
    /\ IF wait_state[p] \in Interruptible
       THEN /\ state' = [state EXCEPT ![p] = "RUNNABLE"]
            /\ wait_state' = [wait_state EXCEPT ![p] = "0"]
       ELSE UNCHANGED <<state, wait_state>>
    /\ UNCHANGED <<timers, pc, handler, left>>

SignalHandled(p) ==
    /\ pc[p] = "user" /\ sig[p]
    /\ sig' = [sig EXCEPT ![p] = FALSE]
    /\ UNCHANGED <<timers, pc, state, wait_state, handler, left>>

(* The process's other waits: down() on a kernel semaphore.                *)
Down(p) ==
    /\ p \in Downers /\ pc[p] = "user"
    /\ pc' = [pc EXCEPT ![p] = "down"]
    /\ state' = [state EXCEPT ![p] = "SLEEPING"]
    /\ wait_state' = [wait_state EXCEPT ![p] = "KSEM"]
    /\ UNCHANGED <<timers, sig, handler, left>>

Up(p) ==
    /\ pc[p] = "down"
    /\ pc' = [pc EXCEPT ![p] = "user"]
    /\ state' = [state EXCEPT ![p] = "RUNNABLE"]
    /\ wait_state' = [wait_state EXCEPT ![p] = "0"]
    /\ UNCHANGED <<timers, sig, handler, left>>
-----------------------------------------------------------------------------
SleepStep(p) == SleepPublish(p) \/ SleepArm(p) \/ SleepWoken(p) \/ SleepDisarm(p) \/ SleepReturn(p)

Next ==
    \/ \E p \in Procs :
        \/ \E n \in Times[p] : SleepCheck(p, n)
        \/ SleepStep(p) \/ Kill(p) \/ SignalHandled(p) \/ Down(p) \/ Up(p)
    \/ clock_tick \/ RunTimerList \/ TimerWake \/ TimerPanic

Spec == Init /\ [][Next]_vars
-----------------------------------------------------------------------------
(* timer_t lives on the stack of do_sleep or futex_wait: the list never    *)
(* links a timer whose call has disarmed it or returned, and links none    *)
(* twice.                                                                  *)
LinkedTimersLive ==
    /\ \A k \in 1 .. Len(timer_list) : pc[timer_list[k]] \in {"armed", "woken"} \cup FutexArmed
    /\ \A j, k \in 1 .. Len(timer_list) : timer_list[j] = timer_list[k] => j = k

(* add_timer, del_timer and run_timer_list keep the deltas: no timer is    *)
(* taken off later than the tick it was armed for, whatever is inserted,   *)
(* cancelled or expires around it.                                         *)
NeverLate ==
    tick_pc = "idle" =>
        \A k \in 1 .. Len(timer_list) :
            Remaining(timer_list, expires, k) <= left[timer_list[k]]

(* What run_timer_list asserts, assert(wait_state & WT_INTERRUPTED): the   *)
(* process of an expired timer is still in the wait the timer was for, or  *)
(* in no wait.  It is no invariant: the process may be in down() by then.  *)
ExpiredStillWaits == tick_pc # "panic"
=============================================================================
