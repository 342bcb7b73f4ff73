----------------------------- MODULE MCScheduler -----------------------------
(* Small instances of Scheduler, and of its refinement of WorkPool, for TLC. *)
EXTENDS SchedulerPool, TLC

\* The items are interchangeable in every safety property.
ItemSymmetry == Permutations(Items)
=============================================================================
