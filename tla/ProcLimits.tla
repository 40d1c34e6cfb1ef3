----------------------------- MODULE ProcLimits -----------------------------
(* The limits of kern/process/proc.h that several modules name.            *)
CONSTANT MAX_PROCESS    (* bound on nr_process                             *)
=============================================================================
