------------------------------ MODULE MCSched ------------------------------
(* Instances of Sched for TLC.                                             *)
EXTENDS Sched

(* Blockers are pinned to one CPU at a time, the others run anywhere.      *)
MixedMasks == [p \in Procs |-> IF p \in Blockers THEN {{c} : c \in CPUs} ELSE {CPUs}]
=============================================================================
