----------------------------- MODULE MCScheduler ----------------------------
(***************************************************************************)
(* The scheduler on four process ids: the shell, and programs that start,  *)
(* end, are killed and start others, up to a chain of four.                *)
(***************************************************************************)
EXTENDS Scheduler
=============================================================================
