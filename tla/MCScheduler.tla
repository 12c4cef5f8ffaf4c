----------------------------- MODULE MCScheduler -----------------------------
(* The instances of Scheduler that TLC checks.                                *)
EXTENDS Scheduler
=============================================================================
