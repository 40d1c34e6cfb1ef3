------------------------------ MODULE PidAlloc ------------------------------
(***************************************************************************)
(* get_pid (kern/process/proc.c): process ids are handed out in rotation,  *)
(* and a cached bound next_safe spares the walk over proc_list while the   *)
(* ids up to it are known to be free.  The cache outlives forks and exits. *)
(*                                                                         *)
(* get_pid runs under proc_lock: nothing is reaped and no other fork links *)
(* a child meanwhile.  Its loop is modelled turn by turn.                  *)
(***************************************************************************)
EXTENDS Integers, Sequences, ProcLimits

CONSTANT MAX_PID

(* static_assert(MAX_PID > MAX_PROCESS); there are idle and init.          *)
ASSUME PidAssumption ==
    /\ MAX_PROCESS \in Nat /\ MAX_PID \in Nat
    /\ MAX_PROCESS >= 2 /\ MAX_PID > MAX_PROCESS

VARIABLES
    proc_list,      (* pids of the processes, newest first (list_add)      *)
    last_pid, next_safe,
    pid_pc,         (* idle: proc_lock free; scan: in the while loop;      *)
                    (* done: get_pid returns last_pid                      *)
    le              (* number of list entries the scan has passed          *)

pid_vars == <<proc_list, last_pid, next_safe, pid_pc, le>>

Pids == 1 .. MAX_PID - 1

PidTypeOK ==
    /\ proc_list \in Seq(Pids) /\ Len(proc_list) < MAX_PROCESS
    /\ last_pid \in 1 .. MAX_PID /\ next_safe \in 1 .. MAX_PID
    /\ pid_pc \in {"idle", "scan", "done"}
    /\ le \in Nat /\ le <= Len(proc_list)

PidInit ==
    /\ proc_list = <<>>
    /\ last_pid = MAX_PID /\ next_safe = MAX_PID
    /\ pid_pc = "idle"
    /\ le = 0
-----------------------------------------------------------------------------
(* The next candidate when the loop starts over.                           *)
Bug_AlwaysWrap(n) == 1
Restarted(n) == IF n >= MAX_PID THEN 1 ELSE n

Bug_KeepSafe(q) == next_safe
(* An id above last_pid bounds the range known to be free.                 *)
Narrowed(q) == IF q > last_pid /\ next_safe > q THEN q ELSE next_safe

(* do_fork holds a reservation in nr_process, which counts idle too.       *)
PidMayFork == Len(proc_list) + 2 <= MAX_PROCESS

(* The cache does not vouch for n.                                         *)
NeedsScan(n) == n >= MAX_PID \/ n >= next_safe

GetPid ==
    LET n == last_pid + 1 IN
    /\ pid_pc = "idle" /\ PidMayFork
    /\ last_pid' = IF n >= MAX_PID THEN 1 ELSE n
    /\ IF NeedsScan(n)
       THEN next_safe' = MAX_PID /\ pid_pc' = "scan"
       ELSE pid_pc' = "done" /\ UNCHANGED next_safe
    /\ le' = 0
    /\ UNCHANGED proc_list

(* One turn of the while loop.                                             *)
ScanTaken ==
    LET n == last_pid + 1 IN
    /\ pid_pc = "scan" /\ le < Len(proc_list)
    /\ proc_list[le + 1] = last_pid
    /\ IF n >= next_safe
       THEN last_pid' = Restarted(n) /\ next_safe' = MAX_PID /\ le' = 0
       ELSE last_pid' = n /\ le' = le + 1 /\ UNCHANGED next_safe
    /\ UNCHANGED <<proc_list, pid_pc>>

ScanOther ==
    /\ pid_pc = "scan" /\ le < Len(proc_list)
    /\ proc_list[le + 1] # last_pid
    /\ next_safe' = Narrowed(proc_list[le + 1])
    /\ le' = le + 1
    /\ UNCHANGED <<proc_list, last_pid, pid_pc>>

ScanEnd ==
    /\ pid_pc = "scan" /\ le = Len(proc_list)
    /\ pid_pc' = "done"
    /\ UNCHANGED <<proc_list, last_pid, next_safe, le>>

(* proc->pid = get_pid(); hash_proc; set_links.                            *)
Publish ==
    /\ pid_pc = "done"
    /\ proc_list' = <<last_pid>> \o proc_list
    /\ pid_pc' = "idle" /\ le' = 0
    /\ UNCHANGED <<last_pid, next_safe>>

RemoveEntry(s, k) == [j \in 1 .. Len(s) - 1 |-> IF j < k THEN s[j] ELSE s[j + 1]]

(* remove_links of any process but init, the oldest.                       *)
Reap(k) ==
    /\ pid_pc = "idle" /\ k < Len(proc_list)
    /\ proc_list' = RemoveEntry(proc_list, k)
    /\ UNCHANGED <<last_pid, next_safe, pid_pc, le>>

Scan == ScanTaken \/ ScanOther \/ ScanEnd
PidNext == GetPid \/ Scan \/ Publish \/ \E k \in 1 .. Len(proc_list) : Reap(k)

PidSpec == PidInit /\ [][PidNext]_pid_vars
-----------------------------------------------------------------------------
(* get_pid - "alloc a unique pid for process": live processes have         *)
(* different pids, however often the ids wrapped around.                   *)
PidsUnique ==
    \A j, k \in 1 .. Len(proc_list) : proc_list[j] = proc_list[k] => j = k

(* What the cache promises between calls: no process holds an id strictly  *)
(* between last_pid and next_safe, although processes came and went since  *)
(* the list was scanned.                                                   *)
SafeWindow ==
    pid_pc = "idle" =>
        \A j \in 1 .. Len(proc_list) : proc_list[j] <= last_pid \/ proc_list[j] >= next_safe

(* MAX_PID > MAX_PROCESS leaves a free id: the search, with its restarts,  *)
(* ends.                                                                   *)
GetPidReturns == (pid_pc = "scan") ~> (pid_pc = "done")
=============================================================================
