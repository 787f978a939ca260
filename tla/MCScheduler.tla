----------------------------- MODULE MCScheduler -----------------------------
(* Three threads, one handle, sleeps of zero and one tick: enough for a     *)
(* thread to be woken by a signal, by its deadline or by the kernel while   *)
(* two others compete for the CPU.                                          *)
EXTENDS Scheduler

CONSTANT h1
=============================================================================
