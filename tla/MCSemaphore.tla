---------------------------- MODULE MCSemaphore ----------------------------
(* Instances of Semaphore for TLC.                                         *)
EXTENDS Semaphore, TLC

CONSTANTS p1, p2, p3

(* p1 and p2 lock and unlock; the waits are not interruptible.             *)
Mutex == [v0 |-> 1, lend |-> 0, hold |-> 1, signalled |-> {p1},
          ops |-> (p1 :> {"down", "up"}) @@ (p2 :> {"down", "up"}) @@ (p3 :> {})]

(* p3 produces, p1 and p2 consume, p1 may be interrupted.                  *)
Counting == [v0 |-> 0, lend |-> 2, hold |-> 2, signalled |-> {p1},
             ops |-> (p1 :> {"down_interruptible"})
                     @@ (p2 :> {"down_interruptible", "try_down"}) @@ (p3 :> {"up"})]

(* p3 posts events that p1 and p2 wait for.                                *)
Events == [v0 |-> 0, lend |-> 0, hold |-> 1, signalled |-> {},
           ops |-> (p1 :> {"down_interruptible"}) @@ (p2 :> {"down_interruptible"})
                   @@ (p3 :> {"event", "all"})]

(* p2 and p3 post events to a waiter that may be interrupted.              *)
InterruptedEvents == [Events EXCEPT !.ops[p2] = {"event"}, !.ops[p3] = {"all"},
                                    !.signalled = {p1}]

CountingUse == {Counting}
AllUses == {Mutex, Counting, Events, InterruptedEvents}
=============================================================================
