------------------------------ MODULE FileSpec ------------------------------
(***************************************************************************)
(* What a blocking file request promises the thread that makes it.  The    *)
(* thread asks and then does nothing until the child process has served    *)
(* that very request; it goes on with the result the child gave.  Requests *)
(* of different threads are served in any order.                           *)
(***************************************************************************)
CONSTANTS Thread, Result, NoResult

VARIABLES
    cpu,      \* the thread that runs
    request   \* request[t].stage: "none", "asked" or "served", with its result

vars == <<cpu, request>>

Stage(stage, r) == [stage |-> stage, result |-> r]

Init ==
    /\ cpu \in Thread
    /\ request = [t \in Thread |-> Stage("none", NoResult)]

Ask ==
    /\ request[cpu].stage = "none"
    /\ request' = [request EXCEPT ![cpu] = Stage("asked", NoResult)]
    /\ UNCHANGED cpu

Serve(t, r) ==
    /\ request[t].stage = "asked"
    /\ request' = [request EXCEPT ![t] = Stage("served", r)]
    /\ UNCHANGED cpu

\* The running thread goes on, knowing the result.
GoOn ==
    /\ request[cpu].stage = "served"
    /\ request' = [request EXCEPT ![cpu] = Stage("none", NoResult)]
    /\ UNCHANGED cpu

Switch == cpu' \in Thread /\ UNCHANGED request

Next == Ask \/ GoOn \/ Switch \/ \E t \in Thread, r \in Result : Serve(t, r)

Spec == Init /\ [][Next]_vars
=============================================================================
