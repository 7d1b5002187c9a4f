------------------------------ MODULE LockSpec ------------------------------
(***************************************************************************)
(* What the mutexes of the virtual machine promise their callers.  Threads *)
(* share one processor.  A thread asks for a mutex and then takes that     *)
(* mutex while nobody holds it, or fails; only the holder gives it up; and *)
(* no thread's request or mutex changes while another one runs.            *)
(***************************************************************************)
CONSTANTS
    Thread, Mutex,
    Nobody,   \* not a thread
    Nothing   \* not a mutex


VARIABLES
    cpu,      \* the thread that runs
    asking,   \* asking[t]: the mutex t has asked for and has no answer about
    holder    \* holder[m]: the thread that holds m, or Nobody

vars == <<cpu, asking, holder>>

Init ==
    /\ cpu \in Thread
    /\ asking = [t \in Thread |-> Nothing]
    /\ holder = [m \in Mutex |-> Nobody]

Ask(m) ==
    /\ asking[cpu] = Nothing
    /\ asking' = [asking EXCEPT ![cpu] = m]
    /\ UNCHANGED <<cpu, holder>>

Take(m) ==
    /\ asking[cpu] = m /\ holder[m] = Nobody
    /\ asking' = [asking EXCEPT ![cpu] = Nothing]
    /\ holder' = [holder EXCEPT ![m] = cpu]
    /\ UNCHANGED cpu

Fail ==
    /\ asking[cpu] # Nothing
    /\ asking' = [asking EXCEPT ![cpu] = Nothing]
    /\ UNCHANGED <<cpu, holder>>

Give(m) ==
    /\ holder[m] = cpu
    /\ holder' = [holder EXCEPT ![m] = Nobody]
    /\ UNCHANGED <<cpu, asking>>

Switch == cpu' \in Thread /\ UNCHANGED <<asking, holder>>

Next == (\E m \in Mutex : Ask(m) \/ Take(m) \/ Give(m)) \/ Fail \/ Switch

Spec == Init /\ [][Next]_vars
=============================================================================
