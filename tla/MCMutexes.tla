----------------------------- MODULE MCMutexes -----------------------------
(* Instances of Mutexes for TLC: idle, main and two more threads, all of one *)
(* priority or one below and one above main.                                 *)
EXTENDS Mutexes

SamePrio  == [t \in Threads |-> IF t = Idle THEN 0 ELSE 2]
MixedPrio == <<2, 1, 3>>          \* priorities of threads 1, 2, 3
MCPrio    == [t \in Threads |-> IF t = Idle THEN 0 ELSE MixedPrio[t]]
=============================================================================
