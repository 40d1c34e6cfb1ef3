------------------------- MODULE CountingSemaphore -------------------------
(***************************************************************************)
(* What down and up promise: a store of tokens from which a process takes  *)
(* one at a time and to which it gives one at a time.  A process that is   *)
(* interrupted while it waits may drop the token it was about to be given. *)
(***************************************************************************)
EXTENDS Integers

CONSTANTS Procs

VARIABLES
    avail,          (* tokens in the store                                 *)
    held,           (* held[p]: tokens p took minus tokens p gave          *)
    interrupted     (* processes that may be interrupted; never changes    *)

Init ==
    /\ avail \in Nat
    /\ held = [p \in Procs |-> 0]
    /\ interrupted \subseteq Procs

Take(p) ==
    /\ avail > 0
    /\ avail' = avail - 1
    /\ held' = [held EXCEPT ![p] = @ + 1]
    /\ UNCHANGED interrupted

Give(p) ==
    /\ avail' = avail + 1
    /\ held' = [held EXCEPT ![p] = @ - 1]
    /\ UNCHANGED interrupted

Drop(p) ==
    /\ avail > 0 /\ p \in interrupted
    /\ avail' = avail - 1
    /\ UNCHANGED <<held, interrupted>>

Next == \E p \in Procs : Take(p) \/ Give(p) \/ Drop(p)

Spec == Init /\ [][Next]_<<avail, held, interrupted>>
=============================================================================
