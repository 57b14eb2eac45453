---------------------------- MODULE MCScheduler ----------------------------
(***************************************************************************)
(* Scheduler with two slots and a clock that moves, but does not wrap.     *)
(***************************************************************************)
EXTENDS Scheduler
=============================================================================
