----------------------------- MODULE MCScheduler -----------------------------
(***************************************************************************)
(* The instance of Scheduler that TLC checks.                              *)
(***************************************************************************)
EXTENDS Scheduler

=============================================================================
