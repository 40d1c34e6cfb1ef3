------------------------------ MODULE FsTasks ------------------------------
(***************************************************************************)
(* The processes that use the file system: FileTable and Sfs.              *)
(***************************************************************************)
CONSTANTS Procs, None
=============================================================================
