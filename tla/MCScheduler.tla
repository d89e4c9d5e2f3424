----------------------------- MODULE MCScheduler -----------------------------
(* Scheduler on small constants; its values are in MCScheduler.cfg. *)
EXTENDS Scheduler
=============================================================================
