----------------------------- MODULE SchedulerPool -----------------------------
(***************************************************************************)
(* The scheduler thread implements WorkPool: what it holds is what is in     *)
(* pending, carry_over, the batch and the slots.                             *)
(***************************************************************************)
EXTENDS Scheduler

Pool == INSTANCE WorkPool WITH
  running <- pc # "stopped",
  held    <- HeldItems,
  MayFail <- Faults \cap {"context", "panic"} # {},
  MayLose <- Overloaded

\* Seen from its callers the thread does what WorkPool allows: it takes items
\* in order, answers only what it holds, and each item once; it ends by itself
\* only when the channel is closed and nothing is queued or held.
PoolSpec == Pool!Spec

=============================================================================
