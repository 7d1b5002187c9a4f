------------------------------ MODULE Scheduler ------------------------------
(***************************************************************************)
(* The preemptive scheduler of src/src/VirtualMachine.cpp: thread table,   *)
(* ready heap, sleep heap, threadSchedule, AlarmCallback and the thread    *)
(* calls.  All threads share one processor; `running' is runningThread.    *)
(*                                                                         *)
(* Granularity.  Between MachineSuspendSignals and MachineResumeSignals    *)
(* nothing can happen, so such a section is one step.  Everywhere else the *)
(* timer signal may interrupt the running thread; its handler (an `irq'    *)
(* frame on that thread's stack) calls threadSchedule itself and may       *)
(* switch to another thread while the interrupted code is half done.       *)
(* SIGALRM is not blocked while its handler runs (SA_NODEFER), so frames   *)
(* nest.  Resume is called before MachineContextSwitch: between the two    *)
(* the processor is still on the stack of the thread that is `leaving'     *)
(* although runningThread already names the next one.                      *)
(***************************************************************************)
EXTENDS Integers, Sequences

CONSTANTS
    NThreads,    \* threads ever created, idle and main included
    Prio,        \* Prio[t]: priority given to VMThreadCreate (idle 0, main 2)
    SleepTicks,  \* arguments of VMThreadSleep that are offered
    TickMod,     \* g_tick and timeup are unsigned: they wrap at TickMod
    LastTick,    \* bound: no alarm once g_tick = LastTick (TickMod: no bound)
    MaxNest      \* bound: nested alarm handlers on one stack

Threads == 0 .. NThreads - 1
Idle == 0
Main == 1
NoThread == -1
Users == Threads \ {Idle}

ASSUME ThreadCount == NThreads \in Nat /\ NThreads > 1
ASSUME Priorities  == /\ Prio \in [Threads -> Nat]
                      /\ Prio[Idle] = 0
                      /\ \A t \in Users : Prio[t] > 0
ASSUME ClockWidth  == /\ TickMod \in Nat \ {0}
                      /\ LastTick \in Nat
                      /\ SleepTicks \subseteq Nat
ASSUME Nesting     == MaxNest \in Nat \ {0}

VARIABLES
    vm,          \* "up"; "halted" after MachineTerminate; "wrecked" once the
                 \* behaviour is undefined (a context or the heap destroyed)
    tick,        \* g_tick
    running,     \* runningThread
    leaving,     \* whose stack still executes between Resume and the switch
    state,       \* Thread::state
    ready,       \* readyThreadList: copies of each thread in the heap
    asleep,      \* waitingThreadList
    timeup,      \* Thread::timeup
    pc,          \* where each thread's own code stands
    irq,         \* alarm handler frames on each thread's stack, top first
    threadList,  \* tids in threadList
    threadCnt    \* threadCnt

sleepVars == <<asleep, timeup>>
tableVars == <<threadList, threadCnt>>
vars == <<vm, tick, running, leaving, state, ready, asleep, timeup, pc, irq,
          threadList, threadCnt>>

ThreadStates == {"DEAD", "RUNNING", "READY", "WAITING"}
FrameLabels  == {"prio", "swap", "ret"}
BaseLabels   == {"none", "user", "prio", "swap", "nap", "dying", "gone"}

\* VMStart at line 486: idle is ready, main runs, no other thread exists.
Init ==
    /\ vm = "up" /\ tick = 0
    /\ running = Main /\ leaving = NoThread
    /\ state = [[t \in Threads |-> "DEAD"] EXCEPT ![Main] = "RUNNING", ![Idle] = "READY"]
    /\ ready = [t \in Threads |-> IF t = Idle THEN 1 ELSE 0]
    /\ asleep = {} /\ timeup = [t \in Threads |-> 0]
    /\ pc = [t \in Threads |-> IF t \in {Idle, Main} THEN "user" ELSE "none"]
    /\ irq = [t \in Threads |-> <<>>]
    /\ threadList = {Idle, Main} /\ threadCnt = 2

-----------------------------------------------------------------------------
(* Where a thread stands, and the two heaps.                               *)

At(t) == IF irq[t] = <<>> THEN pc[t] ELSE Head(irq[t])
Here(label) == vm = "up" /\ leaving = NoThread /\ At(running) = label
InUser == Here("user") /\ running # Idle   \* IdleMain calls nothing

\* The running thread's top activation moves: its own code to `base', a
\* handler frame to `frame'.
MoveTo(base, frame) ==
    \/ /\ irq[running] = <<>>
       /\ pc' = [pc EXCEPT ![running] = base] /\ UNCHANGED irq
    \/ /\ irq[running] # <<>>
       /\ irq' = [irq EXCEPT ![running] = <<frame>> \o Tail(@)] /\ UNCHANGED pc

Step(base) == pc' = [pc EXCEPT ![running] = base] /\ UNCHANGED irq

Add(r, t)  == [r EXCEPT ![t] = @ + 1]
Drop(r, t) == [r EXCEPT ![t] = @ - 1]

\* Threads priority_queue::top may return: equal priorities in any order.
Tops(r) == {t \in Threads : /\ r[t] > 0
                            /\ \A u \in Threads : r[u] > 0 => Prio[u] <= Prio[t]}

\* The loop that pops dead threads off the top of the ready heap.
PopDead(r) ==
    [t \in Threads |->
        IF /\ state[t] = "DEAD"
           /\ \A u \in Threads : r[u] > 0 /\ state[u] # "DEAD" => Prio[u] <= Prio[t]
        THEN 0 ELSE r[t]]

Outranked(r) == \E t \in Threads : r[t] > 0 /\ Prio[running] < Prio[t]

\* The end of every switch: `next' leaves the heap and becomes runningThread.
\* A thread that switches to itself saves and restores one context.
SwitchTo(next, r, s) ==
    /\ ready' = r
    /\ state' = [s EXCEPT ![next] = "RUNNING"]
    /\ running' = next
    /\ leaving' = IF next = running THEN NoThread ELSE running

-----------------------------------------------------------------------------
(* threadSchedule.                                                         *)

\* WAIT_FOR_PRIO, the unprotected comparison with the top of the heap.  On an
\* empty heap top() reads the slot popped last, the idle thread, which is then
\* the running one: the comparison fails.
SchedCheck ==
    /\ Here("prio")
    /\ ready' = PopDead(ready)
    /\ IF Outranked(ready') THEN MoveTo("swap", "swap") ELSE MoveTo("user", "ret")
    /\ UNCHANGED <<vm, tick, running, leaving, state, sleepVars, tableVars>>

\* Fault: the thread switched away from is not pushed back.
PreemptForgetsPrev ==
    /\ Here("swap")
    /\ \E next \in Tops(ready) :
         SwitchTo(next, Drop(ready, next), [state EXCEPT ![running] = "READY"])
    /\ MoveTo("user", "ret")
    /\ UNCHANGED <<vm, tick, sleepVars, tableVars>>

\* WAIT_FOR_PRIO, the protected exchange.  The top is read again and never
\* compared again; popping an empty heap writes before its buffer.
Preempt ==
    /\ Here("swap")
    /\ \/ \E next \in Tops(ready) :
            /\ SwitchTo(next, Add(Drop(ready, next), running),
                        [state EXCEPT ![running] = "READY"])
            /\ MoveTo("user", "ret")
            /\ UNCHANGED vm
       \/ /\ Tops(ready) = {}
          /\ vm' = "wrecked"
          /\ UNCHANGED <<running, leaving, state, ready, pc, irq>>
    /\ UNCHANGED <<tick, sleepVars, tableVars>>

\* WAIT_FOR_SLEEP: the sleeper's state becomes READY, not WAITING.
SleepSwitch ==
    /\ Here("nap")
    /\ \E next \in Tops(PopDead(ready)) :
         SwitchTo(next, Drop(PopDead(ready), next), [state EXCEPT ![running] = "READY"])
    /\ asleep' = asleep \cup {running}
    /\ Step("user")
    /\ UNCHANGED <<vm, tick, timeup, tableVars>>

\* Fault: the switch pops the heap after the loop over dead threads popped it.
ExitPopsTwice ==
    /\ Here("dying")
    /\ \E next \in Tops(PopDead(ready)) :
         SwitchTo(next, Drop(Drop(PopDead(ready), next), next), state)
    /\ Step("gone")
    /\ UNCHANGED <<vm, tick, sleepVars, tableVars>>

\* THREAD_TERMINATED: the state of the caller is left as it is.
ExitSwitch ==
    /\ Here("dying")
    /\ \E next \in Tops(PopDead(ready)) :
         SwitchTo(next, Drop(PopDead(ready), next), state)
    /\ Step("gone")
    /\ UNCHANGED <<vm, tick, sleepVars, tableVars>>

\* MachineContextSwitch: the processor leaves the old stack.
ContextSwitch ==
    /\ vm = "up" /\ leaving # NoThread
    /\ leaving' = NoThread
    /\ UNCHANGED <<vm, tick, running, state, ready, sleepVars, pc, irq, tableVars>>

-----------------------------------------------------------------------------
(* AlarmCallback.                                                          *)

\* Fault: the heap is ordered the other way round.
Latest == {t \in asleep : \A u \in asleep : timeup[u] <= timeup[t]}

Soonest == {t \in asleep : \A u \in asleep : timeup[t] <= timeup[u]}

\* Fault: a sleeper is woken only when its deadline has been passed.
WakeLate(now) ==
    \/ \E t \in Soonest :
         /\ timeup[t] < now
         /\ asleep' = asleep \ {t}
         /\ timeup' = [timeup EXCEPT ![t] = 0]
         /\ ready' = Add(ready, t)
         /\ state' = [state EXCEPT ![t] = "READY"]
    \/ /\ \A t \in Soonest : timeup[t] >= now
       /\ UNCHANGED <<sleepVars, ready, state>>

\* Fault: the top of the heap is woken whatever its deadline.
WakeAny(now) ==
    \/ \E t \in Soonest :
         /\ asleep' = asleep \ {t}
         /\ timeup' = [timeup EXCEPT ![t] = 0]
         /\ ready' = Add(ready, t)
         /\ state' = [state EXCEPT ![t] = "READY"]
    \/ asleep = {} /\ UNCHANGED <<sleepVars, ready, state>>

\* At most one sleeper is woken per tick.  Its timeup is cleared: nothing reads
\* it until VMThreadSleep sets it again.
WakeOne(now) ==
    \/ \E t \in Soonest :
         /\ timeup[t] <= now
         /\ asleep' = asleep \ {t}
         /\ timeup' = [timeup EXCEPT ![t] = 0]
         /\ ready' = Add(ready, t)
         /\ state' = [state EXCEPT ![t] = "READY"]
    \/ /\ \A t \in Soonest : timeup[t] > now
       /\ UNCHANGED <<sleepVars, ready, state>>

TickOnce ==
    /\ vm = "up" /\ tick # LastTick
    /\ tick' = (tick + 1) % TickMod
    /\ WakeOne(tick')

\* Fault: the handler does not call threadSchedule.
AlarmOnlyWakes ==
    /\ leaving = NoThread /\ Len(irq[running]) < MaxNest
    /\ TickOnce
    /\ irq' = [irq EXCEPT ![running] = <<"ret">> \o @]
    /\ UNCHANGED <<vm, running, leaving, pc, tableVars>>

\* The handler up to its call of threadSchedule.
Alarm ==
    /\ leaving = NoThread /\ Len(irq[running]) < MaxNest
    /\ TickOnce
    /\ irq' = [irq EXCEPT ![running] = <<"prio">> \o @]
    /\ UNCHANGED <<vm, running, leaving, pc, tableVars>>

\* The handler between Resume and the context switch (a tick held back by the
\* protected section is delivered exactly here).  If it preempts, it saves the
\* old thread's stack as the context of the new runningThread.
AlarmInSwitch ==
    /\ leaving # NoThread
    /\ TickOnce
    /\ vm' = IF \E t \in Threads : ready'[t] > 0 /\ Prio[running] < Prio[t]
             THEN "wrecked" ELSE vm
    /\ UNCHANGED <<running, leaving, pc, irq, tableVars>>

\* Return from the handler to what it interrupted.
AlarmReturn ==
    /\ Here("ret")
    /\ irq' = [irq EXCEPT ![running] = Tail(@)]
    /\ UNCHANGED <<vm, tick, running, leaving, state, ready, sleepVars, pc, tableVars>>

-----------------------------------------------------------------------------
(* Thread calls.  A call that only returns an error code changes nothing.  *)
(* As in every application of src/apps, threads are created, activated and *)
(* deleted by main.                                                        *)

VMThreadCreate ==
    /\ InUser /\ running = Main /\ threadCnt < NThreads
    /\ threadList' = threadList \cup {threadCnt}
    /\ threadCnt' = threadCnt + 1
    /\ UNCHANGED <<vm, tick, running, leaving, state, ready, sleepVars, pc, irq>>

\* Fault: the thread is pushed before its state is set.
ActivateStillDead(x) ==
    /\ InUser /\ running = Main
    /\ x \in threadList /\ state[x] = "DEAD"
    /\ ready' = Add(ready, x)
    /\ pc' = [pc EXCEPT ![x] = "user", ![running] = "prio"]
    /\ UNCHANGED <<vm, tick, running, leaving, state, sleepVars, irq, tableVars>>

VMThreadActivate(x) ==
    /\ InUser /\ running = Main
    /\ x \in threadList /\ state[x] = "DEAD"
    /\ state' = [state EXCEPT ![x] = "READY"]
    /\ ready' = Add(ready, x)
    /\ pc' = [pc EXCEPT ![x] = "user", ![running] = "prio"]
    /\ UNCHANGED <<vm, tick, running, leaving, sleepVars, irq, tableVars>>

VMThreadDelete(x) ==
    /\ InUser /\ running = Main
    /\ x \in threadList /\ state[x] = "DEAD"
    /\ threadList' = threadList \ {x}
    /\ Step("prio")
    /\ UNCHANGED <<vm, tick, running, leaving, state, ready, sleepVars, threadCnt>>

\* Also called by ThreadWrapper when the thread's function returns.  Whatever
\* live thread x is named, it is the caller that is marked and switched away.
VMThreadTerminate(x) ==
    /\ InUser
    /\ x \in threadList /\ state[x] # "DEAD"
    /\ state' = [state EXCEPT ![running] = "DEAD"]
    /\ Step("dying")
    /\ UNCHANGED <<vm, tick, running, leaving, ready, sleepVars, tableVars>>

\* VMThreadSleep(n) for a tick count, and VMThreadSleep(VM_TIMEOUT_IMMEDIATE).
VMThreadSleep(n) ==
    /\ InUser
    /\ timeup' = [timeup EXCEPT ![running] = (tick + n) % TickMod]
    /\ Step("nap")
    /\ UNCHANGED <<vm, tick, running, leaving, state, ready, asleep, tableVars>>

Yield ==
    /\ InUser
    /\ Step("prio")
    /\ UNCHANGED <<vm, tick, running, leaving, state, ready, sleepVars, tableVars>>

\* VMMain returns and VMStart calls MachineTerminate.
MainReturns ==
    /\ InUser /\ running = Main
    /\ vm' = "halted"
    /\ UNCHANGED <<tick, running, leaving, state, ready, sleepVars, pc, irq, tableVars>>

Stopped == vm # "up" /\ UNCHANGED vars

-----------------------------------------------------------------------------
Kernel == SchedCheck \/ Preempt \/ SleepSwitch \/ ExitSwitch \/ ContextSwitch
          \/ AlarmReturn

Timer == Alarm \/ AlarmInSwitch

ThreadCall ==
    \/ VMThreadCreate
    \/ \E x \in Users : VMThreadActivate(x) \/ VMThreadDelete(x)
    \/ \E x \in Threads : VMThreadTerminate(x)
    \/ \E n \in SleepTicks : VMThreadSleep(n)
    \/ Yield
    \/ MainReturns

Next == Kernel \/ Timer \/ ThreadCall \/ Stopped

Spec == Init /\ [][Next]_vars

\* The processor keeps executing kernel code; a thread's own half of a
\* threadSchedule call is not put off for ever by ticks, whose period is
\* orders of magnitude longer than the handler; the timer keeps ticking.
OwnStep(t) == running = t /\ irq[t] = <<>> /\ Kernel
Fairness == /\ WF_vars(Kernel)
            /\ \A t \in Threads : SF_vars(OwnStep(t))
            /\ SF_vars(Alarm)

LiveSpec == Spec /\ Fairness

-----------------------------------------------------------------------------
(* Properties.                                                             *)

TypeOver(labels) ==
    /\ vm \in {"up", "halted", "wrecked"}
    /\ tick \in Nat
    /\ running \in Threads /\ leaving \in Threads \cup {NoThread}
    /\ state \in [Threads -> ThreadStates]
    /\ ready \in [Threads -> Nat]
    /\ asleep \subseteq Threads /\ timeup \in [Threads -> Nat]
    /\ pc \in [Threads -> labels]
    /\ irq \in [Threads -> Seq(FrameLabels)]
    /\ threadList \subseteq Threads /\ threadCnt \in 2 .. NThreads

TypeOK == TypeOver(BaseLabels)

Active(t) == pc[t] \notin {"none", "gone"}
Unrivalled(t) == \A u \in Threads : Prio[u] <= Prio[t]
Places(t) == ready[t] + (IF t = running THEN 1 ELSE 0)
                      + (IF t \in asleep THEN 1 ELSE 0)

\* A live thread is in exactly one place: running, once in the ready heap or
\* in the sleep heap; a thread not activated or terminated is in none.  No
\* interleaving of ticks with the unprotected parts of threadSchedule loses a
\* thread or schedules it twice.
OnePlace == \A t \in Threads : Places(t) = IF Active(t) THEN 1 ELSE 0

\* The state VMThreadState reports agrees with where the thread is, and a dead
\* thread is never in the ready heap: threadSchedule's popping loop, which runs
\* unprotected, never has anything to pop.  A finished thread is reported dead
\* if no thread has a higher priority, so that no tick can requeue it on its
\* last way; the others are reported dead or, for ever, running.
StateAgrees ==
    /\ state[running] = "RUNNING" \/ (pc[running] = "dying" /\ state[running] = "DEAD")
    /\ \A t \in Threads : ready[t] > 0 \/ t \in asleep => state[t] = "READY"
    /\ \A t \in Threads : pc[t] = "none" => state[t] = "DEAD"
    /\ \A t \in Threads : pc[t] = "gone" =>
           state[t] = "DEAD" \/ (state[t] = "RUNNING" /\ ~Unrivalled(t))

\* The ready heap is empty only while the idle thread runs: no switch away from
\* a sleeping or terminating thread pops an empty heap, and the top() that
\* WAIT_FOR_PRIO reads from an empty heap is the idle thread itself.
IdleStandsBy == running # Idle => ready[Idle] = 1

\* A thread of higher priority than the running one does not stay ready for
\* ever: WAIT_FOR_PRIO may switch to a lower priority on a comparison made
\* before a tick, but a later tick puts it right.
InversionResolved == (vm = "up" /\ Outranked(ready)) ~> (vm # "up" \/ ~Outranked(ready))

\* The sleep heap never jams: as long as the machine is up no non-empty set of
\* sleepers stays the same for ever, whatever the wrapped timeups are.
SleepQueueMoves ==
    \A S \in SUBSET Users : S # {} => []<>(vm # "up" \/ asleep # S)
=============================================================================
