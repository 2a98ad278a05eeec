----------------------------- MODULE MCTaskService -----------------------------
(***************************************************************************)
(* Instances of TaskService for TLC.                                       *)
(***************************************************************************)
EXTENDS TaskService
=============================================================================
