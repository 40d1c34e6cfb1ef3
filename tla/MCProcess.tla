----------------------------- MODULE MCProcess -----------------------------
(* Instances of ProcLife and PidAlloc for TLC: a family of four that keep  *)
(* to their CPUs; a family of three, one of whom moves, waits and gets     *)
(* signals; and the ids of five processes.                                 *)
EXTENDS ProcLife, PidAlloc

VARIABLE part       (* which of the three                                  *)

Family == INSTANCE ProcLife WITH Movable <- {}, Killable <- {}, Waiters <- {init}
Moving == INSTANCE ProcLife WITH MAX_PROCESS <- 4

PartInit == part \in {"family", "moving", "ids"} /\ Init /\ PidInit
PartNext ==
    /\ \/ part = "family" /\ Family!Next /\ UNCHANGED pid_vars
       \/ part = "moving" /\ Moving!Next /\ UNCHANGED pid_vars
       \/ part = "ids" /\ PidNext /\ UNCHANGED vars
    /\ UNCHANGED part

(* The scan of get_pid goes on: it runs under proc_lock.                   *)
PartSpec ==
    /\ PartInit /\ [][PartNext]_<<vars, pid_vars, part>>
    /\ WF_<<vars, pid_vars, part>>(part = "ids" /\ Scan /\ UNCHANGED <<vars, part>>)
=============================================================================
