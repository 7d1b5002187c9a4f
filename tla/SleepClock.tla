----------------------------- MODULE SleepClock -----------------------------
(***************************************************************************)
(* The time that sleeping threads wait, measured beside Scheduler.  g_tick *)
(* and timeup wrap and say nothing of time that has passed; `due' counts   *)
(* it without wrapping.  No action reads `due', so the threads behave as   *)
(* in Scheduler.                                                           *)
(***************************************************************************)
EXTENDS Scheduler

VARIABLE
    due          \* alarms to come up to the first that may wake the sleeper;
                 \* 0 or less once that alarm has come

clockVars == <<vars, due>>

Resting(t) == t \in asleep \/ pc[t] = "nap"

ClockInit == Init /\ due = [t \in Threads |-> 0]

SetDue(n) == VMThreadSleep(n) /\ due' = [due EXCEPT ![running] = n]

\* A thread that enters the sleep heap late is found by the next alarm at the
\* earliest.
EnterHeap == SleepSwitch /\ due' = [due EXCEPT ![running] = IF @ > 0 THEN @ ELSE 1]

PassTick == Timer /\ due' = [t \in Threads |-> due[t] - (IF Resting(t) THEN 1 ELSE 0)]

\* Every other step takes no time.
Timeless ==
    /\ \/ SchedCheck \/ Preempt \/ ExitSwitch \/ ContextSwitch \/ AlarmReturn
       \/ VMThreadCreate
       \/ \E x \in Users : VMThreadActivate(x) \/ VMThreadDelete(x)
       \/ \E x \in Threads : VMThreadTerminate(x)
       \/ Yield \/ MainReturns \/ Stopped
    /\ UNCHANGED due

ClockNext == (\E n \in SleepTicks : SetDue(n)) \/ EnterHeap \/ PassTick \/ Timeless

ClockSpec == ClockInit /\ [][ClockNext]_clockVars

-----------------------------------------------------------------------------
(* Properties.                                                             *)

\* AlarmCallback wakes one thread per tick, so sleepers that are due together
\* wake one after the other; but while the clock does not wrap none of them is
\* passed over for a thread that went to sleep later: who still sleeps is late
\* by fewer ticks than there are other threads that can sleep.
LateByOthers == \A t \in asleep : -due[t] < NThreads - 2

\* VMThreadSleep(n) lasts n ticks, as src/apps/sleep.c announces of its ten: no
\* alarm wakes a thread before its time.
SleepsLongEnough == [][\A t \in asleep \ asleep' : due'[t] <= 0]_clockVars
=============================================================================
