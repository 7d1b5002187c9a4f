---------------------------- MODULE MCScheduler ----------------------------
(* Instances of Scheduler for TLC: idle, main (normal) and up to two more   *)
(* threads, one below and one above main.                                   *)
EXTENDS Scheduler

MixedPrio == <<2, 1, 3>>          \* priorities of threads 1, 2, 3
MCPrio == [t \in Threads |-> IF t = Idle THEN 0 ELSE MixedPrio[t]]
=============================================================================
