----------------------------- MODULE MCFileIO -----------------------------
(* Instances of FileIO for TLC: idle, main and more threads, all of one      *)
(* priority or the first below main.                                         *)
EXTENDS FileIO

SamePrio  == [t \in Threads |-> IF t = Idle THEN 0 ELSE 2]
MixedPrio == <<2, 1, 3>>          \* priorities of threads 1, 2, 3
MCPrio    == [t \in Threads |-> IF t = Idle THEN 0 ELSE MixedPrio[t]]
Outcomes  == {-1, 1}
=============================================================================
