---------------------------- MODULE MCSleepClock ----------------------------
(* Instances of SleepClock for TLC, with the priorities of MCScheduler.     *)
EXTENDS SleepClock

MixedPrio == <<2, 1, 3>>          \* priorities of threads 1, 2, 3
MCPrio == [t \in Threads |-> IF t = Idle THEN 0 ELSE MixedPrio[t]]
=============================================================================
