----------------------------- MODULE MCScheduler -----------------------------
(* Instances of Scheduler for TLC: a one-shot, a soft cron and an interval  *)
(* job and a recurring callback.                                            *)
EXTENDS Scheduler
=============================================================================
