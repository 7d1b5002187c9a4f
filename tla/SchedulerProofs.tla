--------------------------- MODULE SchedulerProofs ---------------------------
(***************************************************************************)
(* Proofs about Scheduler: types, the place of every thread, the states.   *)
(***************************************************************************)
EXTENDS Scheduler, TLAPS

\* TickMod and the other constants are what the module assumes of them.
LEMMA ConstantFacts ==
    /\ Threads \subseteq Nat /\ Idle \in Threads /\ Main \in Threads
    /\ Users \subseteq Threads /\ Main \in Users /\ NoThread \notin Threads
    /\ NThreads \in Nat /\ NThreads > 1
BY ThreadCount DEF Threads, Idle, Main, Users, NoThread

\* g_tick and timeup stay natural numbers when they wrap.
LEMMA WrapIsNat == \A a \in Nat : a % TickMod \in Nat
BY ClockWidth

\* Replacing, pushing and popping the top frame of a stack of frames.
LEMMA FrameTypes ==
    ASSUME NEW s \in Seq(FrameLabels), NEW f \in FrameLabels
    PROVE  /\ <<f>> \o s \in Seq(FrameLabels)
           /\ s # <<>> => /\ Tail(s) \in Seq(FrameLabels)
                          /\ Head(s) \in FrameLabels
                          /\ <<f>> \o Tail(s) \in Seq(FrameLabels)
BY DEF FrameLabels

\* The initial state is well typed.
LEMMA InitType == Init => TypeOK
<1> SUFFICES ASSUME Init PROVE TypeOK
  OBVIOUS
<1>1. /\ vm \in {"up", "halted", "wrecked"} /\ tick \in Nat
      /\ running \in Threads /\ leaving \in Threads \cup {NoThread}
  BY ConstantFacts DEF Init
<1>2. state \in [Threads -> ThreadStates]
  BY ConstantFacts DEF Init, ThreadStates
<1>3. /\ ready \in [Threads -> Nat] /\ asleep \subseteq Threads
      /\ timeup \in [Threads -> Nat] /\ pc \in [Threads -> BaseLabels]
  BY DEF Init, BaseLabels
<1>4. irq \in [Threads -> Seq(FrameLabels)]
  BY DEF Init
<1>5. threadList \subseteq Threads /\ threadCnt \in 2 .. NThreads
  BY ConstantFacts DEF Init
<1> QED
  BY <1>1, <1>2, <1>3, <1>4, <1>5 DEF TypeOK, TypeOver

-----------------------------------------------------------------------------
(* Typing.  `labels' are the places a thread's own code may stand at: the   *)
(* modules that extend Scheduler add to BaseLabels.                         *)

\* A label that no handler frame has is one of the thread's own code.
LEMMA HereBase ==
    ASSUME NEW labels, TypeOver(labels), NEW l, l \notin FrameLabels, Here(l)
    PROVE  /\ irq[running] = <<>> /\ pc[running] = l
           /\ vm = "up" /\ leaving = NoThread
<1>1. irq[running] # <<>> => Head(irq[running]) \in FrameLabels
  BY FrameTypes DEF TypeOver, FrameLabels
<1> QED
  BY <1>1 DEF Here, At

\* The two ways to move the top activation keep pc and irq well typed.
LEMMA MoveType ==
    ASSUME NEW labels, TypeOver(labels),
           NEW base \in labels, NEW frame \in FrameLabels,
           MoveTo(base, frame) \/ Step(base)
    PROVE  pc' \in [Threads -> labels] /\ irq' \in [Threads -> Seq(FrameLabels)]
<1>1. CASE irq[running] # <<>> /\ MoveTo(base, frame)
  <2>1. <<frame>> \o Tail(irq[running]) \in Seq(FrameLabels)
    BY <1>1, FrameTypes DEF TypeOver
  <2> QED
    BY <1>1, <2>1 DEF MoveTo, TypeOver
<1>2. CASE (irq[running] = <<>> /\ MoveTo(base, frame)) \/ Step(base)
  BY <1>2 DEF MoveTo, Step, TypeOver
<1> QED
  BY <1>1, <1>2

\* The heap operators return heaps, and the top of a heap is in it.
LEMMA HeapTypes ==
    ASSUME NEW r \in [Threads -> Nat], NEW t \in Threads
    PROVE  /\ Add(r, t) \in [Threads -> Nat]
           /\ r[t] > 0 => Drop(r, t) \in [Threads -> Nat]
           /\ PopDead(r) \in [Threads -> Nat]
           /\ t \in Tops(r) => r[t] > 0
<1>1. PopDead(r) \in [Threads -> Nat]
  BY DEF PopDead
<1> QED
  BY <1>1 DEF Add, Drop, Tops

\* A switch keeps its variables well typed.
LEMMA SwitchType ==
    ASSUME NEW labels, TypeOver(labels), NEW next \in Threads,
           NEW r \in [Threads -> Nat], NEW s \in [Threads -> ThreadStates],
           SwitchTo(next, r, s)
    PROVE  /\ running' \in Threads /\ leaving' \in Threads \cup {NoThread}
           /\ ready' \in [Threads -> Nat] /\ state' \in [Threads -> ThreadStates]
BY DEF SwitchTo, TypeOver, ThreadStates

\* A tick keeps its variables well typed.
LEMMA TickType ==
    ASSUME NEW labels, TypeOver(labels), TickOnce
    PROVE  /\ tick' \in Nat
           /\ ready' \in [Threads -> Nat] /\ state' \in [Threads -> ThreadStates]
           /\ asleep' \subseteq Threads /\ timeup' \in [Threads -> Nat]
<1>1. tick' \in Nat
  BY WrapIsNat DEF TickOnce, TypeOver
<1>2. CASE UNCHANGED <<sleepVars, ready, state>>
  BY <1>1, <1>2 DEF TypeOver, sleepVars
<1>3. CASE \E t \in Soonest : /\ asleep' = asleep \ {t}
                              /\ timeup' = [timeup EXCEPT ![t] = 0]
                              /\ ready' = Add(ready, t)
                              /\ state' = [state EXCEPT ![t] = "READY"]
  <2>1. PICK t \in Soonest : /\ asleep' = asleep \ {t}
                             /\ timeup' = [timeup EXCEPT ![t] = 0]
                             /\ ready' = Add(ready, t)
                             /\ state' = [state EXCEPT ![t] = "READY"]
    BY <1>3
  <2>2. t \in Threads
    BY DEF Soonest, TypeOver
  <2>3. ready' \in [Threads -> Nat]
    BY <2>1, <2>2, HeapTypes DEF TypeOver
  <2> QED
    BY <1>1, <2>1, <2>2, <2>3 DEF TypeOver, ThreadStates
<1> QED
  BY <1>2, <1>3 DEF TickOnce, WakeOne

\* Every step of the scheduler keeps the types, whatever labels are added.
LEMMA StepType ==
    ASSUME NEW labels, BaseLabels \subseteq labels, "ret" \notin labels,
           TypeOver(labels), [Next]_vars
    PROVE  TypeOver(labels)'
<1> USE ConstantFacts
<1>L. /\ {"none", "user", "prio", "swap", "nap", "dying", "gone"} \subseteq labels
       /\ {"prio", "swap", "ret"} \subseteq FrameLabels
  BY DEF BaseLabels, FrameLabels
<1>1. CASE SchedCheck
  <2>1. ready' \in [Threads -> Nat]
    BY <1>1, HeapTypes, ConstantFacts DEF SchedCheck, TypeOver
  <2>2. pc' \in [Threads -> labels] /\ irq' \in [Threads -> Seq(FrameLabels)]
    BY <1>1, <1>L, MoveType DEF SchedCheck
  <2> QED
    BY <1>1, <2>1, <2>2 DEF SchedCheck, TypeOver, sleepVars, tableVars
<1>2. CASE Preempt
  <2>1. CASE Tops(ready) = {}
    <3>1. UNCHANGED <<running, leaving, state, ready, pc, irq>> /\ vm' = "wrecked"
      BY <1>2, <2>1 DEF Preempt
    <3> QED
      BY <1>2, <3>1 DEF Preempt, TypeOver, sleepVars, tableVars
  <2>2. CASE Tops(ready) # {}
    <3>1. PICK next \in Tops(ready) :
              /\ SwitchTo(next, Add(Drop(ready, next), running),
                          [state EXCEPT ![running] = "READY"])
              /\ MoveTo("user", "ret") /\ UNCHANGED vm
      BY <1>2, <2>2 DEF Preempt
    <3>2. next \in Threads /\ Drop(ready, next) \in [Threads -> Nat]
      BY HeapTypes DEF TypeOver, Tops
    <3>3. Add(Drop(ready, next), running) \in [Threads -> Nat]
      BY <3>2, HeapTypes DEF TypeOver
    <3>4. [state EXCEPT ![running] = "READY"] \in [Threads -> ThreadStates]
      BY DEF TypeOver, ThreadStates
    <3>5. /\ running' \in Threads /\ leaving' \in Threads \cup {NoThread}
          /\ ready' \in [Threads -> Nat] /\ state' \in [Threads -> ThreadStates]
      BY <3>1, <3>2, <3>3, <3>4, SwitchType
    <3>6. pc' \in [Threads -> labels] /\ irq' \in [Threads -> Seq(FrameLabels)]
      BY <3>1, <1>L, MoveType
    <3> QED
      BY <1>2, <3>1, <3>5, <3>6 DEF Preempt, TypeOver, sleepVars, tableVars
  <2> QED
    BY <2>1, <2>2
<1>3. ASSUME NEW s \in [Threads -> ThreadStates], NEW base \in labels,
             \E next \in Tops(PopDead(ready)) :
                 SwitchTo(next, Drop(PopDead(ready), next), s),
             Step(base)
      PROVE  /\ running' \in Threads /\ leaving' \in Threads \cup {NoThread}
             /\ ready' \in [Threads -> Nat] /\ state' \in [Threads -> ThreadStates]
             /\ pc' \in [Threads -> labels] /\ irq' \in [Threads -> Seq(FrameLabels)]
  <2>1. PICK next \in Tops(PopDead(ready)) :
            SwitchTo(next, Drop(PopDead(ready), next), s)
    BY <1>3
  <2>2. PopDead(ready) \in [Threads -> Nat]
    BY HeapTypes DEF TypeOver
  <2>3. next \in Threads /\ Drop(PopDead(ready), next) \in [Threads -> Nat]
    BY <2>2, HeapTypes DEF Tops
  <2>4. /\ running' \in Threads /\ leaving' \in Threads \cup {NoThread}
        /\ ready' \in [Threads -> Nat] /\ state' \in [Threads -> ThreadStates]
    BY <2>1, <2>3, <1>3, SwitchType
  <2> QED
    BY <2>4, <1>3, <1>L, MoveType
<1>4. CASE SleepSwitch
  <2>1. [state EXCEPT ![running] = "READY"] \in [Threads -> ThreadStates]
    BY DEF TypeOver, ThreadStates
  <2> QED
    BY <1>4, <2>1, <1>3, <1>L DEF SleepSwitch, TypeOver, tableVars
<1>5. CASE ExitSwitch
  BY <1>5, <1>3, <1>L DEF ExitSwitch, TypeOver, sleepVars, tableVars
<1>6. CASE ContextSwitch
  BY <1>6 DEF ContextSwitch, TypeOver, sleepVars, tableVars
<1>7. CASE AlarmReturn
  <2>1. irq[running] # <<>>
    BY <1>7 DEF AlarmReturn, Here, At, TypeOver
  <2>2. Tail(irq[running]) \in Seq(FrameLabels)
    BY <2>1, FrameTypes DEF TypeOver
  <2> QED
    BY <1>7, <2>2 DEF AlarmReturn, TypeOver, sleepVars, tableVars
<1>8. CASE Alarm
  <2>1. <<"prio">> \o irq[running] \in Seq(FrameLabels)
    BY <1>L, FrameTypes DEF TypeOver
  <2> QED
    BY <1>8, <2>1, TickType DEF Alarm, TypeOver, tableVars
<1>9. CASE AlarmInSwitch
  BY <1>9, TickType DEF AlarmInSwitch, TypeOver, tableVars
<1>10. CASE VMThreadCreate
  <2>1. threadCnt \in Threads /\ threadCnt + 1 \in 2 .. NThreads
    BY <1>10, ThreadCount DEF VMThreadCreate, TypeOver, Threads
  <2> QED
    BY <1>10, <2>1 DEF VMThreadCreate, TypeOver, sleepVars
<1>11. CASE \E x \in Users : VMThreadActivate(x)
  <2>1. PICK x \in Users : VMThreadActivate(x)
    BY <1>11
  <2>2. ready' \in [Threads -> Nat]
    BY <2>1, HeapTypes DEF VMThreadActivate, TypeOver
  <2> QED
    BY <2>1, <2>2, <1>L DEF VMThreadActivate, TypeOver, ThreadStates, sleepVars, tableVars
<1>12. CASE \E x \in Users : VMThreadDelete(x)
  BY <1>12, <1>L, MoveType DEF VMThreadDelete, TypeOver, sleepVars
<1>13. CASE \E x \in Threads : VMThreadTerminate(x)
  BY <1>13, <1>L, MoveType DEF VMThreadTerminate, TypeOver, ThreadStates, sleepVars, tableVars
<1>14. CASE \E n \in SleepTicks : VMThreadSleep(n)
  <2>1. PICK n \in SleepTicks : VMThreadSleep(n)
    BY <1>14
  <2>2. (tick + n) % TickMod \in Nat
    BY ClockWidth, WrapIsNat DEF TypeOver
  <2> QED
    BY <2>1, <2>2, <1>L, MoveType DEF VMThreadSleep, TypeOver, tableVars
<1>15. CASE Yield
  BY <1>15, <1>L, MoveType DEF Yield, TypeOver, sleepVars, tableVars
<1>16. CASE MainReturns
  BY <1>16 DEF MainReturns, TypeOver, sleepVars, tableVars
<1>17. CASE Stopped \/ UNCHANGED vars
  BY <1>17 DEF Stopped, vars, TypeOver
<1> QED
  BY <1>1, <1>2, <1>4, <1>5, <1>6, <1>7, <1>8, <1>9, <1>10, <1>11, <1>12, <1>13,
     <1>14, <1>15, <1>16, <1>17 DEF Next, Kernel, Timer, ThreadCall

\* The variables of the scheduler always hold values of their types.
THEOREM TypeCorrect == Spec => []TypeOK
<1>1. TypeOK /\ [Next]_vars => TypeOK'
  BY StepType DEF TypeOK, BaseLabels
<1> QED
  BY InitType, <1>1, PTL DEF Spec

-----------------------------------------------------------------------------
(* The place of every thread.  Modules that extend Scheduler keep threads in *)
(* places of their own (a waitlist, an outstanding request): extra[t] counts *)
(* those, and no step of the scheduler changes it.                           *)

Counted(extra) ==
    \A t \in Threads : Places(t) + extra[t] = IF Active(t) THEN 1 ELSE 0
LiveQueues == \A t \in Threads : ready[t] > 0 \/ t \in asleep => state[t] # "DEAD"
DeadIsDone == \A t \in Threads : state[t] = "DEAD" =>
                 ~Active(t) \/ (t = running /\ pc[t] = "dying")
IdleStays  == pc[Idle] = "user" /\ Idle \notin asleep

Accounts(extra) == Counted(extra) /\ LiveQueues /\ DeadIsDone /\ IdleStays

\* With no dead thread in the ready heap the popping loop changes nothing.
LEMMA NothingToPop ==
    ASSUME NEW labels, TypeOver(labels), LiveQueues
    PROVE  PopDead(ready) = ready
<1>1. \A t \in Threads : state[t] = "DEAD" => ready[t] = 0
  BY DEF LiveQueues, TypeOver
<1>2. /\ ready = [t \in Threads |-> ready[t]]
      /\ PopDead(ready) = [t \in Threads |-> PopDead(ready)[t]]
  BY DEF TypeOver, PopDead
<1>3. \A t \in Threads : PopDead(ready)[t] = ready[t]
  BY <1>1 DEF PopDead
<1> QED
  BY <1>2, <1>3

\* Steps that leave every place, state and label of interest alone.
LEMMA SameAccounts ==
    ASSUME NEW labels, TypeOver(labels), NEW extra, Accounts(extra),
           UNCHANGED <<running, state, ready, asleep>>,
           \/ UNCHANGED pc
           \/ /\ running # Idle /\ pc[running] \notin {"none", "gone", "dying"}
              /\ \E l \in labels \ {"none", "gone"} : pc' = [pc EXCEPT ![running] = l]
    PROVE  Accounts(extra)'
<1>1. CASE UNCHANGED pc
  BY <1>1 DEF Accounts, Counted, LiveQueues, DeadIsDone, IdleStays, Places, Active
<1>2. CASE /\ running # Idle /\ pc[running] \notin {"none", "gone", "dying"}
           /\ \E l \in labels \ {"none", "gone"} : pc' = [pc EXCEPT ![running] = l]
  <2>1. PICK l \in labels \ {"none", "gone"} : pc' = [pc EXCEPT ![running] = l]
    BY <1>2
  <2>2. \A t \in Threads : Active(t)' <=> Active(t)
    BY <1>2, <2>1 DEF Active, TypeOver
  <2>3. Counted(extra)' /\ LiveQueues'
    BY <2>2 DEF Accounts, Counted, LiveQueues, Places
  <2>4. state[running] # "DEAD"
    BY <1>2 DEF Accounts, DeadIsDone, Active, TypeOver
  <2>5. DeadIsDone'
    BY <1>2, <2>1, <2>2, <2>4 DEF Accounts, DeadIsDone, TypeOver
  <2>6. IdleStays'
    BY <1>2, <2>1, ConstantFacts DEF Accounts, IdleStays, TypeOver
  <2> QED
    BY <2>3, <2>5, <2>6 DEF Accounts
<1> QED
  BY <1>1, <1>2

\* The exchange of WAIT_FOR_PRIO.
LEMMA PreemptAccounts ==
    ASSUME NEW labels, BaseLabels \subseteq labels, TypeOver(labels),
           NEW extra \in [Threads -> Int], Accounts(extra),
           Preempt
    PROVE  Accounts(extra)'
<1> USE ConstantFacts
<1>1. CASE Tops(ready) = {}
  <2>1. UNCHANGED <<running, state, ready, pc, irq, asleep>>
    BY <1>1 DEF Preempt, sleepVars
  <2> QED
    BY <2>1 DEF Accounts, Counted, LiveQueues, DeadIsDone, IdleStays, Places, Active
<1>2. CASE Tops(ready) # {}
  <2>1. PICK next \in Tops(ready) :
            /\ SwitchTo(next, Add(Drop(ready, next), running),
                        [state EXCEPT ![running] = "READY"])
            /\ MoveTo("user", "ret")
    BY <1>2 DEF Preempt
  <2>2. next \in Threads /\ ready[next] > 0 /\ running \in Threads
    BY DEF Tops, TypeOver
  <2>3. /\ running' = next
        /\ ready' = [[ready EXCEPT ![next] = @ - 1] EXCEPT ![running] = @ + 1]
        /\ state' = [[state EXCEPT ![running] = "READY"] EXCEPT ![next] = "RUNNING"]
    BY <2>1 DEF SwitchTo, Add, Drop
  <2>4. asleep' = asleep
    BY DEF Preempt, sleepVars
  <2>5. \A t \in Threads : Places(t)' = Places(t)
    <3>1. ready \in [Threads -> Nat]
      BY DEF TypeOver
    <3> SUFFICES ASSUME NEW t \in Threads
                 PROVE  ready'[t] + (IF t = next THEN 1 ELSE 0)
                           = ready[t] + (IF t = running THEN 1 ELSE 0)
      BY <2>2, <2>3, <2>4, <3>1 DEF Places
    <3>2. CASE next = running
      BY <2>2, <2>3, <3>1, <3>2
    <3>3. CASE next # running
      BY <2>2, <2>3, <3>1, <3>3
    <3> QED
      BY <3>2, <3>3
  <2>6. /\ \A t \in Threads : Active(t)' <=> Active(t)
        /\ pc'[Idle] = "user"
    <3>1. CASE UNCHANGED pc
      BY <3>1 DEF Active, Accounts, IdleStays
    <3>2. CASE irq[running] = <<>> /\ pc' = [pc EXCEPT ![running] = "user"]
      <4>1. pc[running] = "swap"
        BY <3>2 DEF Preempt, Here, At
      <4> QED
        BY <3>2, <4>1 DEF Active, Accounts, IdleStays, TypeOver
    <3> QED
      BY <2>1, <3>1, <3>2 DEF MoveTo
  <2>7. Counted(extra)'
    BY <2>5, <2>6 DEF Accounts, Counted
  <2>8. LiveQueues'
    BY <2>2, <2>3, <2>4 DEF Accounts, LiveQueues, TypeOver
  <2>9. DeadIsDone'
    BY <2>2, <2>3, <2>6 DEF Accounts, DeadIsDone, TypeOver
  <2> QED
    BY <2>4, <2>6, <2>7, <2>8, <2>9 DEF Accounts, IdleStays
<1> QED
  BY <1>1, <1>2

\* A switch away from a thread that is not requeued: the next thread leaves the
\* ready heap and runs, nobody else moves.
LEMMA HandsOver ==
    ASSUME NEW labels, TypeOver(labels), LiveQueues, NEW s,
           \E next \in Tops(PopDead(ready)) :
               SwitchTo(next, Drop(PopDead(ready), next), s)
    PROVE  /\ ready' \in [Threads -> Nat]
           /\ running' \in Threads /\ ready[running'] > 0
           /\ state' = [s EXCEPT ![running'] = "RUNNING"]
           /\ \A t \in Threads : ready'[t] + (IF t = running' THEN 1 ELSE 0) = ready[t]
           /\ \A t \in Threads : ready'[t] > 0 => ready[t] > 0
<1>1. PICK next \in Tops(ready) : SwitchTo(next, Drop(ready, next), s)
  BY NothingToPop
<1>2. ready \in [Threads -> Nat] /\ next \in Threads /\ ready[next] > 0
  BY DEF TypeOver, Tops
<1>3. running' = next /\ ready' = [ready EXCEPT ![next] = @ - 1]
      /\ state' = [s EXCEPT ![next] = "RUNNING"]
  BY <1>1 DEF SwitchTo, Drop
<1> QED
  BY <1>2, <1>3

\* WAIT_FOR_SLEEP.
LEMMA SleepAccounts ==
    ASSUME NEW labels, BaseLabels \subseteq labels, TypeOver(labels),
           NEW extra \in [Threads -> Int], Accounts(extra),
           SleepSwitch, extra[running] >= 0
    PROVE  Accounts(extra)'
<1> DEFINE s == [state EXCEPT ![running] = "READY"]
<1>1. irq[running] = <<>> /\ pc[running] = "nap"
  BY HereBase DEF SleepSwitch, FrameLabels
<1>2. /\ ready' \in [Threads -> Nat]
      /\ running' \in Threads /\ ready[running'] > 0
      /\ state' = [s EXCEPT ![running'] = "RUNNING"]
      /\ \A t \in Threads : ready'[t] + (IF t = running' THEN 1 ELSE 0) = ready[t]
      /\ \A t \in Threads : ready'[t] > 0 => ready[t] > 0
  BY HandsOver DEF SleepSwitch, Accounts
<1>3. asleep' = asleep \cup {running} /\ pc' = [pc EXCEPT ![running] = "user"]
  BY DEF SleepSwitch, Step
<1>4. /\ running \in Threads /\ running # Idle
      /\ ready \in [Threads -> Nat] /\ ready' \in [Threads -> Nat]
  BY <1>1, <1>2 DEF TypeOver, Accounts, IdleStays
<1>5. ready[running] = 0 /\ running \notin asleep
  BY <1>1, <1>4 DEF Accounts, Counted, Places, Active
<1>6. \A t \in Threads : Active(t)' <=> Active(t)
  BY <1>1, <1>3, <1>4 DEF Active, TypeOver
<1>7. \A t \in Threads : Places(t)' = Places(t)
  <2> SUFFICES ASSUME NEW t \in Threads
               PROVE  (IF t \in asleep' THEN 1 ELSE 0)
                         = (IF t \in asleep THEN 1 ELSE 0) + (IF t = running THEN 1 ELSE 0)
    BY <1>2, <1>4 DEF Places
  <2> QED
    BY <1>3, <1>5
<1>8. Counted(extra)'
  BY <1>6, <1>7 DEF Accounts, Counted
<1>9. LiveQueues'
  BY <1>2, <1>3, <1>4 DEF Accounts, LiveQueues, TypeOver
<1>10. DeadIsDone'
  BY <1>2, <1>3, <1>4, <1>6 DEF Accounts, DeadIsDone, TypeOver
<1>11. IdleStays'
  BY <1>3, <1>4, ConstantFacts DEF Accounts, IdleStays, TypeOver
<1> QED
  BY <1>8, <1>9, <1>10, <1>11 DEF Accounts

\* THREAD_TERMINATED.
LEMMA ExitAccounts ==
    ASSUME NEW labels, BaseLabels \subseteq labels, TypeOver(labels),
           NEW extra \in [Threads -> Int], Accounts(extra),
           ExitSwitch, extra[running] >= 0
    PROVE  Accounts(extra)'
<1>1. irq[running] = <<>> /\ pc[running] = "dying"
  BY HereBase DEF ExitSwitch, FrameLabels
<1>2. /\ ready' \in [Threads -> Nat]
      /\ running' \in Threads /\ ready[running'] > 0
      /\ state' = [state EXCEPT ![running'] = "RUNNING"]
      /\ \A t \in Threads : ready'[t] + (IF t = running' THEN 1 ELSE 0) = ready[t]
      /\ \A t \in Threads : ready'[t] > 0 => ready[t] > 0
  BY HandsOver DEF ExitSwitch, Accounts
<1>3. asleep' = asleep /\ pc' = [pc EXCEPT ![running] = "gone"]
  BY DEF ExitSwitch, Step, sleepVars
<1>4. /\ running \in Threads /\ running # Idle
      /\ ready \in [Threads -> Nat] /\ ready' \in [Threads -> Nat]
  BY <1>1, <1>2 DEF TypeOver, Accounts, IdleStays
<1>5. ready[running] = 0 /\ running \notin asleep /\ extra[running] = 0
  BY <1>1, <1>4 DEF Accounts, Counted, Places, Active
<1>6. \A t \in Threads : Active(t)' <=> Active(t) /\ t # running
  BY <1>1, <1>3, <1>4 DEF Active, TypeOver
<1>7. \A t \in Threads : Places(t)' + (IF t = running THEN 1 ELSE 0) = Places(t)
  BY <1>2, <1>3, <1>4 DEF Places
<1>8. Counted(extra)'
  <2> SUFFICES ASSUME NEW t \in Threads
               PROVE  Places(t)' + extra[t] = IF Active(t)' THEN 1 ELSE 0
    BY DEF Counted
  <2>1. Places(t) + extra[t] = IF Active(t) THEN 1 ELSE 0
    BY DEF Accounts, Counted
  <2>2. Places(t) \in Int /\ Places(t)' \in Int /\ extra[t] \in Int
    BY <1>4 DEF Places
  <2>3. CASE t = running
    BY <2>1, <2>2, <2>3, <1>1, <1>6, <1>7 DEF Active
  <2>4. CASE t # running
    BY <2>1, <2>2, <2>4, <1>6, <1>7
  <2> QED
    BY <2>3, <2>4
<1>9. LiveQueues'
  BY <1>2, <1>3, <1>4 DEF Accounts, LiveQueues, TypeOver
<1>10. DeadIsDone'
  BY <1>2, <1>3, <1>4, <1>6 DEF Accounts, DeadIsDone, TypeOver
<1>11. IdleStays'
  BY <1>3, <1>4, ConstantFacts DEF Accounts, IdleStays, TypeOver
<1> QED
  BY <1>8, <1>9, <1>10, <1>11 DEF Accounts

\* A tick moves at most one thread, from the sleep heap to the ready heap.
LEMMA TickAccounts ==
    ASSUME NEW labels, TypeOver(labels), NEW extra, Accounts(extra),
           TickOnce, UNCHANGED <<running, pc>>
    PROVE  Accounts(extra)'
<1>1. CASE UNCHANGED <<sleepVars, ready, state>>
  BY <1>1 DEF Accounts, Counted, LiveQueues, DeadIsDone, IdleStays, Places, Active, sleepVars
<1>2. CASE \E t \in Soonest : /\ asleep' = asleep \ {t}
                              /\ ready' = Add(ready, t)
                              /\ state' = [state EXCEPT ![t] = "READY"]
  <2>1. PICK t \in Soonest : /\ asleep' = asleep \ {t}
                             /\ ready' = Add(ready, t)
                             /\ state' = [state EXCEPT ![t] = "READY"]
    BY <1>2
  <2>2. t \in asleep /\ t \in Threads /\ ready \in [Threads -> Nat]
    BY DEF Soonest, TypeOver
  <2>3. \A u \in Threads : Places(u)' = Places(u)
    BY <2>1, <2>2 DEF Places, Add
  <2>4. Counted(extra)' /\ IdleStays'
    BY <2>1, <2>3 DEF Accounts, Counted, IdleStays, Active
  <2>5. LiveQueues' /\ DeadIsDone'
    BY <2>1, <2>2 DEF Accounts, LiveQueues, DeadIsDone, Active, Add, TypeOver
  <2> QED
    BY <2>4, <2>5 DEF Accounts
<1> QED
  BY <1>1, <1>2 DEF TickOnce, WakeOne

\* VMThreadActivate: a dead thread that is listed is in no place yet.
LEMMA ActivateAccounts ==
    ASSUME NEW labels, BaseLabels \subseteq labels, TypeOver(labels),
           NEW extra \in [Threads -> Int], Accounts(extra),
           NEW x \in Users, VMThreadActivate(x)
    PROVE  Accounts(extra)'
<1> USE ConstantFacts
<1>1. pc[running] = "user" /\ running \in Threads /\ running # Idle
  BY HereBase DEF VMThreadActivate, InUser, FrameLabels, TypeOver
<1>2. /\ x \in Threads /\ x # Idle /\ x # running
      /\ state[x] = "DEAD" /\ pc[x] \in {"none", "gone"}
  BY <1>1 DEF VMThreadActivate, Accounts, DeadIsDone, Active, Users
<1>3. /\ ready \in [Threads -> Nat] /\ ready' = [ready EXCEPT ![x] = @ + 1]
      /\ state' = [state EXCEPT ![x] = "READY"]
      /\ pc' = [pc EXCEPT ![x] = "user", ![running] = "prio"]
      /\ asleep' = asleep /\ running' = running
  BY DEF VMThreadActivate, Add, TypeOver, sleepVars
<1>4. \A t \in Threads : Active(t)' <=> Active(t) \/ t = x
  BY <1>1, <1>2, <1>3 DEF Active, TypeOver
<1>5. \A t \in Threads : Places(t)' = Places(t) + (IF t = x THEN 1 ELSE 0)
  BY <1>2, <1>3 DEF Places
<1>6. Counted(extra)'
  <2> SUFFICES ASSUME NEW t \in Threads
               PROVE  Places(t)' + extra[t] = IF Active(t)' THEN 1 ELSE 0
    BY DEF Counted
  <2>1. Places(t) + extra[t] = IF Active(t) THEN 1 ELSE 0
    BY DEF Accounts, Counted
  <2>2. Places(t) \in Int /\ extra[t] \in Int
    BY <1>3 DEF Places
  <2>3. CASE t = x
    BY <2>1, <2>2, <2>3, <1>2, <1>4, <1>5 DEF Active
  <2>4. CASE t # x
    BY <2>1, <2>2, <2>4, <1>4, <1>5
  <2> QED
    BY <2>3, <2>4
<1>7. LiveQueues'
  BY <1>2, <1>3 DEF Accounts, LiveQueues, TypeOver
<1>8. DeadIsDone'
  BY <1>1, <1>2, <1>3, <1>4 DEF Accounts, DeadIsDone, TypeOver, Active
<1>9. IdleStays'
  BY <1>1, <1>2, <1>3 DEF Accounts, IdleStays, TypeOver
<1> QED
  BY <1>6, <1>7, <1>8, <1>9 DEF Accounts

\* VMThreadTerminate: the caller is in no heap when it is marked dead.
LEMMA TerminateAccounts ==
    ASSUME NEW labels, BaseLabels \subseteq labels, TypeOver(labels),
           NEW extra \in [Threads -> Int], Accounts(extra),
           NEW x \in Threads, VMThreadTerminate(x), extra[running] >= 0
    PROVE  Accounts(extra)'
<1> USE ConstantFacts
<1>1. /\ pc[running] = "user" /\ running \in Threads /\ running # Idle
      /\ ready \in [Threads -> Nat]
  BY HereBase DEF VMThreadTerminate, InUser, FrameLabels, TypeOver
<1>2. /\ state' = [state EXCEPT ![running] = "DEAD"]
      /\ pc' = [pc EXCEPT ![running] = "dying"]
      /\ UNCHANGED <<running, ready, asleep>>
  BY DEF VMThreadTerminate, Step, sleepVars
<1>3. ready[running] = 0 /\ running \notin asleep
  <2>1. Places(running) + extra[running] = 1
    BY <1>1 DEF Accounts, Counted, Active
  <2> QED
    BY <1>1, <2>1 DEF Places
<1>4. \A t \in Threads : Active(t)' <=> Active(t)
  BY <1>1, <1>2 DEF Active, TypeOver
<1>5. Counted(extra)'
  BY <1>2, <1>4 DEF Accounts, Counted, Places
<1>6. LiveQueues'
  <2> SUFFICES ASSUME NEW t \in Threads, ready[t] > 0 \/ t \in asleep
               PROVE  state'[t] # "DEAD"
    BY <1>2 DEF LiveQueues
  <2>1. t # running
    BY <1>1, <1>3
  <2> QED
    BY <1>2, <2>1 DEF Accounts, LiveQueues, TypeOver
<1>7. DeadIsDone'
  BY <1>1, <1>2, <1>4 DEF Accounts, DeadIsDone, TypeOver
<1>8. IdleStays'
  BY <1>1, <1>2 DEF Accounts, IdleStays, TypeOver
<1> QED
  BY <1>5, <1>6, <1>7, <1>8 DEF Accounts

\* A thread that goes to sleep or ends owes no place: it is in no other one.
Solvent(extra) ==
    /\ \A t \in Threads : pc[t] \in {"nap", "dying"} => extra[t] >= 0
    /\ (\E x \in Threads : VMThreadTerminate(x)) => extra[running] >= 0

\* Every step of the scheduler keeps the accounts, for threads kept anywhere.
LEMMA StepAccounts ==
    ASSUME NEW labels, BaseLabels \subseteq labels, TypeOver(labels),
           NEW extra \in [Threads -> Int], Accounts(extra),
           Solvent(extra), [Next]_vars
    PROVE  Accounts(extra)'
<1> USE ConstantFacts
<1>1. \A l \in {"nap", "dying"} : pc[running] = l => extra[running] >= 0
  BY DEF Solvent, TypeOver
<1>2. CASE SchedCheck
  <2>1. ready' = ready /\ UNCHANGED <<running, state, asleep>>
    BY <1>2, NothingToPop DEF SchedCheck, Accounts, sleepVars
  <2>2. UNCHANGED pc \/ /\ running # Idle /\ pc[running] = "prio"
                        /\ \E l \in {"swap", "user"} : pc' = [pc EXCEPT ![running] = l]
    BY <1>2 DEF SchedCheck, MoveTo, Here, At, Accounts, IdleStays
  <2> QED
    BY <2>1, <2>2, SameAccounts DEF BaseLabels
<1>3. CASE Preempt
  BY <1>3, PreemptAccounts
<1>4. CASE SleepSwitch
  BY <1>4, <1>1, SleepAccounts, HereBase DEF SleepSwitch, FrameLabels
<1>5. CASE ExitSwitch
  BY <1>5, <1>1, ExitAccounts, HereBase DEF ExitSwitch, FrameLabels
<1>6. CASE ContextSwitch \/ AlarmReturn \/ VMThreadCreate \/ MainReturns \/ Stopped \/ UNCHANGED vars
  <2>1. UNCHANGED <<running, state, ready, asleep, pc>>
    BY <1>6 DEF ContextSwitch, AlarmReturn, VMThreadCreate, MainReturns, Stopped, vars, sleepVars
  <2> QED
    BY <2>1, SameAccounts
<1>7. CASE Alarm \/ AlarmInSwitch
  BY <1>7, TickAccounts DEF Alarm, AlarmInSwitch
<1>8. CASE \E x \in Users : VMThreadActivate(x)
  BY <1>8, ActivateAccounts
<1>9. CASE \E x \in Threads : VMThreadTerminate(x)
  <2>1. extra[running] >= 0
    BY <1>9 DEF Solvent
  <2> QED
    BY <1>9, <2>1, TerminateAccounts
<1>10. CASE (\E x \in Users : VMThreadDelete(x)) \/ (\E n \in SleepTicks : VMThreadSleep(n)) \/ Yield
  <2>1. UNCHANGED <<running, state, ready, asleep>> /\ InUser
    BY <1>10 DEF VMThreadDelete, VMThreadSleep, Yield, sleepVars
  <2>2. \E l \in {"prio", "nap"} : pc' = [pc EXCEPT ![running] = l]
    BY <1>10 DEF VMThreadDelete, VMThreadSleep, Yield, Step
  <2>3. running # Idle /\ pc[running] = "user"
    BY <2>1, HereBase DEF InUser, FrameLabels
  <2> QED
    BY <2>1, <2>2, <2>3, SameAccounts DEF BaseLabels
<1> QED
  BY <1>2, <1>3, <1>4, <1>5, <1>6, <1>7, <1>8, <1>9, <1>10 DEF Next, Kernel, Timer, ThreadCall

\* A scheduler step moves a thread's own code only between the scheduler's labels.
LEMMA LabelStep ==
    ASSUME NEW labels, BaseLabels \subseteq labels, TypeOver(labels), DeadIsDone,
           [Next]_vars, NEW t \in Threads
    PROVE  pc'[t] = pc[t] \/ (pc[t] \in BaseLabels /\ pc'[t] \in BaseLabels)
<1> USE DEF BaseLabels
<1>T. running \in Threads /\ pc \in [Threads -> labels]
  BY DEF TypeOver
<1>1. ASSUME NEW base \in {"user", "swap"}, NEW frame, MoveTo(base, frame),
             NEW l \in {"prio", "swap"}, Here(l)
      PROVE  pc'[t] = pc[t] \/ (pc[t] \in BaseLabels /\ pc'[t] \in BaseLabels)
  BY <1>1, <1>T DEF MoveTo, Here, At
<1>2. ASSUME NEW base \in BaseLabels, Step(base), pc[running] \in BaseLabels
      PROVE  pc'[t] = pc[t] \/ (pc[t] \in BaseLabels /\ pc'[t] \in BaseLabels)
  BY <1>2, <1>T DEF Step
<1>3. CASE SchedCheck
  BY <1>3, <1>1 DEF SchedCheck
<1>4. CASE Preempt
  BY <1>4, <1>1 DEF Preempt
<1>5. CASE SleepSwitch
  BY <1>5, <1>2, HereBase DEF SleepSwitch, FrameLabels
<1>6. CASE ExitSwitch
  BY <1>6, <1>2, HereBase DEF ExitSwitch, FrameLabels
<1>7. CASE \E x \in Users : VMThreadActivate(x)
  <2>1. PICK x \in Users : VMThreadActivate(x)
    BY <1>7
  <2>2. pc[running] = "user" /\ x \in Threads /\ state[x] = "DEAD"
    BY <2>1, HereBase, ConstantFacts DEF VMThreadActivate, InUser, FrameLabels
  <2>3. pc[x] \in {"none", "gone", "dying"}
    BY <2>2 DEF DeadIsDone, Active
  <2> QED
    BY <2>1, <2>2, <2>3, <1>T DEF VMThreadActivate
<1>8. CASE \/ (\E x \in Users : VMThreadDelete(x)) \/ (\E n \in SleepTicks : VMThreadSleep(n))
           \/ Yield \/ (\E x \in Threads : VMThreadTerminate(x))
  <2>1. InUser
    BY <1>8 DEF VMThreadDelete, VMThreadSleep, Yield, VMThreadTerminate
  <2>2. pc[running] = "user"
    BY <2>1, HereBase DEF InUser, FrameLabels
  <2> QED
    BY <1>8, <1>2, <2>2 DEF VMThreadDelete, VMThreadSleep, Yield, VMThreadTerminate
<1>9. CASE \/ ContextSwitch \/ AlarmReturn \/ Alarm \/ AlarmInSwitch \/ VMThreadCreate
           \/ MainReturns \/ Stopped \/ UNCHANGED vars
  BY <1>9 DEF ContextSwitch, AlarmReturn, Alarm, AlarmInSwitch, VMThreadCreate, MainReturns, Stopped, vars
<1> QED
  BY <1>3, <1>4, <1>5, <1>6, <1>7, <1>8, <1>9 DEF Next, Kernel, Timer, ThreadCall

-----------------------------------------------------------------------------
(* The theorems about Scheduler alone: no thread is kept anywhere else.     *)

Nowhere == [t \in Threads |-> 0]
Inv == TypeOK /\ Accounts(Nowhere)

LEMMA InitInv == Init => Inv
<1> SUFFICES ASSUME Init PROVE Accounts(Nowhere)
  BY InitType DEF Inv
<1>1. Counted(Nowhere)
  BY DEF Init, Counted, Nowhere, Places, Active, Idle, Main
<1>2. LiveQueues /\ DeadIsDone
  BY DEF Init, LiveQueues, DeadIsDone, Active, Idle, Main
<1>3. IdleStays
  BY ConstantFacts DEF Init, IdleStays
<1> QED
  BY <1>1, <1>2, <1>3 DEF Accounts

LEMMA InvStep == Inv /\ [Next]_vars => Inv'
<1> SUFFICES ASSUME Inv, [Next]_vars PROVE Inv'
  OBVIOUS
<1>1. TypeOK'
  BY StepType DEF Inv, TypeOK, BaseLabels
<1>2. Accounts(Nowhere)'
  <2>1. Solvent(Nowhere)
    BY DEF Solvent, Nowhere, Inv, TypeOK, TypeOver
  <2> QED
    BY <2>1, StepAccounts DEF Inv, TypeOK, Nowhere
<1> QED
  BY <1>1, <1>2 DEF Inv

\* Every live thread is in exactly one place, every other one in none, however
\* many threads, priorities, ticks and nested handlers there are.
THEOREM ThreadsConserved == Spec => []OnePlace
<1>1. Inv => OnePlace
  BY DEF Inv, TypeOK, TypeOver, Accounts, Counted, Nowhere, OnePlace, Places
<1> QED
  BY InitInv, InvStep, <1>1, PTL DEF Spec

LEMMA IdleReady == Inv => IdleStandsBy
<1> SUFFICES ASSUME Inv, running # Idle PROVE ready[Idle] = 1
  BY DEF IdleStandsBy
<1>1. Places(Idle) + Nowhere[Idle] = 1 /\ Idle \notin asleep
  BY ConstantFacts DEF Inv, Accounts, Counted, IdleStays, Active
<1> QED
  BY <1>1, ConstantFacts DEF Places, Nowhere, Inv, TypeOK, TypeOver

\* The idle thread is ready whenever it does not run, so a switch always finds
\* a thread and an empty ready heap means that the idle thread is running.
THEOREM IdleAlwaysThere == Spec => []IdleStandsBy
BY InitInv, InvStep, IdleReady, PTL DEF Spec

\* The running thread is in neither heap.
LEMMA RunningIsOut == Inv => ready[running] = 0 /\ running \notin asleep
<1> SUFFICES ASSUME Inv PROVE ready[running] = 0 /\ running \notin asleep
  OBVIOUS
<1>1. running \in Threads /\ ready[running] \in Nat
  BY DEF Inv, TypeOK, TypeOver
<1>2. Places(running) <= 1
  BY <1>1 DEF Inv, Accounts, Counted, Nowhere, Places
<1> QED
  BY <1>1, <1>2 DEF Places

\* A thread that was never activated, or has ended, is in neither heap and does
\* not run.
LEMMA UnbornIsOut ==
    ASSUME Inv, NEW t \in Threads, pc[t] \in {"none", "gone"}
    PROVE  ready[t] = 0 /\ t \notin asleep /\ t # running
<1>1. ready[t] \in Nat /\ Places(t) = 0
  BY DEF Inv, TypeOK, TypeOver, Accounts, Counted, Nowhere, Places, Active
<1> QED
  BY <1>1 DEF Places

-----------------------------------------------------------------------------
(* The states.                                                             *)

\* StateAgrees for the threads that have not ended.
StatesFit ==
    /\ state[running] = "RUNNING" \/ (pc[running] = "dying" /\ state[running] = "DEAD")
    /\ \A t \in Threads : ready[t] > 0 \/ t \in asleep => state[t] = "READY"
    /\ \A t \in Threads : pc[t] = "none" => state[t] = "DEAD"

\* A switch, to whichever thread and from whichever state.
LEMMA SwitchStates ==
    ASSUME Inv, Inv', StatesFit, NEW s \in [Threads -> ThreadStates],
           state' = [s EXCEPT ![running'] = "RUNNING"],
           \A t \in Threads \ {running} : s[t] = state[t],
           s[running] = "READY" \/ (pc'[running] = "gone" /\ s = state),
           ready[running'] > 0 \/ running' = running,
           asleep' \subseteq asleep \cup {running},
           running \in asleep' => s[running] = "READY",
           \A t \in Threads : ready'[t] > 0 => ready[t] > 0 \/ (t = running /\ s[t] = "READY"),
           \A t \in Threads \ {running} : pc'[t] = pc[t],
           pc'[running] # "none"
    PROVE  StatesFit'
<1>1. running \in Threads /\ running' \in Threads
  BY DEF Inv, TypeOK, TypeOver
<1>2. state'[running'] = "RUNNING" \/ (pc'[running'] = "dying" /\ state'[running'] = "DEAD")
  BY <1>1
<1>3. ASSUME NEW t \in Threads, ready'[t] > 0 \/ t \in asleep'
      PROVE  state'[t] = "READY"
  <2>0. (ready[running] = 0 /\ running \notin asleep)'
    BY RunningIsOut, PTL
  <2>1. t # running'
    BY <1>3, <2>0
  <2>2. CASE t = running
    <3>1. ready[running] = 0 /\ ready' \in [Threads -> Nat]
      BY RunningIsOut DEF Inv, TypeOK, TypeOver
    <3>2. s[running] = "READY"
      BY <1>1, <1>3, <2>2, <3>1
    <3> QED
      BY <1>1, <2>1, <2>2, <3>2
  <2>3. CASE t # running
    BY <1>3, <2>1, <2>3, <1>1 DEF StatesFit
  <2> QED
    BY <2>2, <2>3
<1>4. ASSUME NEW t \in Threads, pc'[t] = "none"
      PROVE  state'[t] = "DEAD"
  <2>1. t # running /\ pc[t] = "none"
    BY <1>4
  <2>2. t # running'
    BY <2>1, UnbornIsOut, <1>1
  <2> QED
    BY <2>1, <2>2, <1>1 DEF StatesFit
<1> QED
  BY <1>2, <1>3, <1>4 DEF StatesFit

\* A step that moves nobody but may move the running thread's label.
LEMMA SameStates ==
    ASSUME Inv, StatesFit, UNCHANGED <<running, state, ready, asleep>>,
           \/ UNCHANGED pc
           \/ /\ pc[running] # "dying"
              /\ \E l \in BaseLabels \ {"none"} : pc' = [pc EXCEPT ![running] = l]
    PROVE  StatesFit'
<1>1. running \in Threads /\ pc \in [Threads -> BaseLabels]
  BY DEF Inv, TypeOK, TypeOver
<1> QED
  BY <1>1 DEF StatesFit

LEMMA StateStep == Inv /\ Inv' /\ StatesFit /\ [Next]_vars => StatesFit'
<1> SUFFICES ASSUME Inv, Inv', StatesFit, [Next]_vars PROVE StatesFit'
  OBVIOUS
<1> USE ConstantFacts
<1>T. /\ TypeOver(BaseLabels) /\ LiveQueues
      /\ running \in Threads /\ running' \in Threads /\ state \in [Threads -> ThreadStates]
      /\ pc \in [Threads -> BaseLabels] /\ ready \in [Threads -> Nat]
  BY DEF Inv, TypeOK, TypeOver, Accounts
<1>1. CASE SchedCheck
  <2>1. ready' = ready /\ UNCHANGED <<running, state, asleep>>
    BY <1>1, <1>T, NothingToPop DEF SchedCheck, sleepVars
  <2>2. UNCHANGED pc \/ /\ pc[running] = "prio"
                        /\ \E l \in {"swap", "user"} : pc' = [pc EXCEPT ![running] = l]
    BY <1>1 DEF SchedCheck, MoveTo, Here, At
  <2> QED
    BY <2>1, <2>2, SameStates DEF BaseLabels
<1>2. CASE Preempt
  <2>1. CASE Tops(ready) = {}
    <3>1. UNCHANGED <<running, state, ready, asleep, pc>>
      BY <1>2, <2>1 DEF Preempt, sleepVars
    <3> QED
      BY <3>1, SameStates
  <2>2. CASE Tops(ready) # {}
    <3> DEFINE s == [state EXCEPT ![running] = "READY"]
    <3>1. PICK next \in Tops(ready) :
              /\ SwitchTo(next, Add(Drop(ready, next), running), s)
              /\ MoveTo("user", "ret")
      BY <1>2, <2>2 DEF Preempt
    <3>2. /\ next \in Threads /\ ready[next] > 0 /\ running' = next
          /\ ready' = [[ready EXCEPT ![next] = @ - 1] EXCEPT ![running] = @ + 1]
          /\ state' = [s EXCEPT ![running'] = "RUNNING"]
          /\ asleep' = asleep
      BY <3>1, <1>2 DEF SwitchTo, Add, Drop, Tops, Preempt, sleepVars
    <3>3. \A t \in Threads : ready'[t] > 0 => ready[t] > 0 \/ t = running
      BY <3>2, <1>T
    <3>4. /\ \A t \in Threads \ {running} : pc'[t] = pc[t]
          /\ pc'[running] # "none"
      <4>1. pc[running] # "none"
        BY UnbornIsOut, <1>T
      <4> QED
        BY <4>1, <3>1, <1>T DEF MoveTo
    <3>5. s \in [Threads -> ThreadStates] /\ s[running] = "READY"
          /\ \A t \in Threads \ {running} : s[t] = state[t]
      BY <1>T DEF ThreadStates
    <3>6. running \notin asleep'
      BY <3>2, RunningIsOut
    <3> HIDE DEF s
    <3> QED
      BY <3>2, <3>3, <3>4, <3>5, <3>6, SwitchStates
  <2> QED
    BY <2>1, <2>2
<1>3. CASE SleepSwitch
  <2> DEFINE s == [state EXCEPT ![running] = "READY"]
  <2>1. /\ ready[running'] > 0 /\ state' = [s EXCEPT ![running'] = "RUNNING"]
        /\ \A t \in Threads : ready'[t] > 0 => ready[t] > 0
    BY <1>3, <1>T, HandsOver DEF SleepSwitch
  <2>2. asleep' = asleep \cup {running} /\ pc' = [pc EXCEPT ![running] = "user"]
    BY <1>3 DEF SleepSwitch, Step
  <2>3. s \in [Threads -> ThreadStates] /\ s[running] = "READY"
        /\ \A t \in Threads \ {running} : s[t] = state[t]
    BY <1>T DEF ThreadStates
  <2> HIDE DEF s
  <2> QED
    BY <2>1, <2>2, <2>3, <1>T, SwitchStates
<1>4. CASE ExitSwitch
  <2>1. /\ ready[running'] > 0 /\ state' = [state EXCEPT ![running'] = "RUNNING"]
        /\ \A t \in Threads : ready'[t] > 0 => ready[t] > 0
    BY <1>4, <1>T, HandsOver DEF ExitSwitch
  <2>2. asleep' = asleep /\ pc' = [pc EXCEPT ![running] = "gone"]
    BY <1>4 DEF ExitSwitch, Step, sleepVars
  <2>3. running \notin asleep'
    BY <2>2, RunningIsOut
  <2> QED
    BY <2>1, <2>2, <2>3, <1>T, SwitchStates
<1>5. CASE ContextSwitch \/ AlarmReturn \/ VMThreadCreate \/ MainReturns \/ Stopped \/ UNCHANGED vars
  <2>1. UNCHANGED <<running, state, ready, asleep, pc>>
    BY <1>5 DEF ContextSwitch, AlarmReturn, VMThreadCreate, MainReturns, Stopped, vars, sleepVars
  <2> QED
    BY <2>1, SameStates
<1>6. CASE Alarm \/ AlarmInSwitch
  <2>1. TickOnce /\ UNCHANGED <<running, pc>>
    BY <1>6 DEF Alarm, AlarmInSwitch
  <2>2. CASE UNCHANGED <<sleepVars, ready, state>>
    BY <2>1, <2>2, SameStates DEF sleepVars
  <2>3. CASE \E t \in Soonest : /\ asleep' = asleep \ {t} /\ ready' = Add(ready, t)
                                /\ state' = [state EXCEPT ![t] = "READY"]
    <3>1. PICK t \in Soonest : /\ asleep' = asleep \ {t} /\ ready' = Add(ready, t)
                               /\ state' = [state EXCEPT ![t] = "READY"]
      BY <2>3
    <3>2. t \in asleep /\ t \in Threads /\ t # running /\ pc[t] # "none"
      BY RunningIsOut, UnbornIsOut DEF Soonest, Inv, TypeOK, TypeOver
    <3> QED
      BY <2>1, <3>1, <3>2, <1>T DEF StatesFit, Add
  <2> QED
    BY <2>1, <2>2, <2>3 DEF TickOnce, WakeOne
<1>7. CASE \E x \in Users : VMThreadActivate(x)
  <2>1. PICK x \in Users : VMThreadActivate(x)
    BY <1>7
  <2>2. pc[running] = "user"
    BY <2>1, <1>T, HereBase DEF VMThreadActivate, InUser, FrameLabels
  <2>3. x \in Threads /\ x # running /\ state[running] # "DEAD"
    BY <2>1, <2>2, <1>T DEF VMThreadActivate, StatesFit
  <2>4. /\ state' = [state EXCEPT ![x] = "READY"] /\ ready' = [ready EXCEPT ![x] = @ + 1]
        /\ pc' = [pc EXCEPT ![x] = "user", ![running] = "prio"]
        /\ asleep' = asleep /\ running' = running
    BY <2>1 DEF VMThreadActivate, Add, sleepVars
  <2> QED
    BY <2>2, <2>3, <2>4, <1>T DEF StatesFit
<1>8. CASE \E x \in Threads : VMThreadTerminate(x)
  <2>1. pc[running] = "user" /\ ready[running] = 0 /\ running \notin asleep
    BY <1>8, <1>T, HereBase, RunningIsOut DEF VMThreadTerminate, InUser, FrameLabels
  <2>2. /\ state' = [state EXCEPT ![running] = "DEAD"]
        /\ pc' = [pc EXCEPT ![running] = "dying"] /\ UNCHANGED <<running, ready, asleep>>
    BY <1>8 DEF VMThreadTerminate, Step, sleepVars
  <2> QED
    BY <2>1, <2>2, <1>T DEF StatesFit
<1>9. CASE (\E x \in Users : VMThreadDelete(x)) \/ (\E n \in SleepTicks : VMThreadSleep(n)) \/ Yield
  <2>1. UNCHANGED <<running, state, ready, asleep>> /\ InUser
    BY <1>9 DEF VMThreadDelete, VMThreadSleep, Yield, sleepVars
  <2>2. \E l \in {"prio", "nap"} : pc' = [pc EXCEPT ![running] = l]
    BY <1>9 DEF VMThreadDelete, VMThreadSleep, Yield, Step
  <2>3. pc[running] = "user"
    BY <2>1, <1>T, HereBase DEF InUser, FrameLabels
  <2> QED
    BY <2>1, <2>2, <2>3, SameStates DEF BaseLabels
<1> QED
  BY <1>1, <1>2, <1>3, <1>4, <1>5, <1>6, <1>7, <1>8, <1>9 DEF Next, Kernel, Timer, ThreadCall

\* What holds of threads on their last way: one that nobody outranks is never
\* switched away from by a tick, so it keeps its mark.
Farewell(t) ==
    /\ pc[t] = "gone" => state[t] \in {"DEAD", "RUNNING"}
    /\ Unrivalled(t) =>
          /\ pc[t] # "swap" /\ irq[t] \in Seq({"prio", "ret"})
          /\ pc[t] = "dying" => t = running /\ state[t] = "DEAD"
          /\ pc[t] = "gone" => state[t] = "DEAD"
Farewells == \A t \in Threads : Farewell(t)

\* Frames of a stack none of which is about to exchange threads.
LEMMA CalmFrames ==
    ASSUME NEW s \in Seq({"prio", "ret"}), NEW f \in {"prio", "ret"}
    PROVE  /\ <<f>> \o s \in Seq({"prio", "ret"})
           /\ s # <<>> => /\ Tail(s) \in Seq({"prio", "ret"})
                          /\ Head(s) \in {"prio", "ret"}
                          /\ <<f>> \o Tail(s) \in Seq({"prio", "ret"})
OBVIOUS

\* A thread that does not run, whose state, label and frames stay.
LEMMA SameFarewell ==
    ASSUME NEW t \in Threads, Farewell(t), t # running,
           pc'[t] = pc[t], irq'[t] = irq[t],
           pc[t] = "gone" => state'[t] = state[t]
    PROVE  Farewell(t)'
BY DEF Farewell, Unrivalled

\* The running thread moves on within its code or its handlers, marked or not.
LEMMA MovedFarewell ==
    ASSUME NEW r \in Threads, r = running, Farewell(r),
           pc'[running] \notin {"swap", "gone", "dying"},
           \/ irq'[running] = irq[running]
           \/ irq[running] # <<>> /\ irq'[running] = <<"ret">> \o Tail(irq[running])
    PROVE  Farewell(r)'
<1>1. ASSUME irq[running] \in Seq({"prio", "ret"})
      PROVE  irq'[running] \in Seq({"prio", "ret"})
  BY <1>1, CalmFrames
<1> QED
  BY <1>1 DEF Farewell, Unrivalled

LEMMA FarewellStep ==
    ASSUME Inv, StatesFit, Farewells, [Next]_vars
    PROVE  Farewells'
<1> SUFFICES ASSUME NEW r \in Threads, r = running PROVE Farewells'
  BY DEF Inv, TypeOK, TypeOver
<1> USE ConstantFacts
<1>T. /\ running \in Threads /\ state \in [Threads -> ThreadStates]
      /\ pc \in [Threads -> BaseLabels] /\ irq \in [Threads -> Seq(FrameLabels)]
      /\ ready \in [Threads -> Nat] /\ LiveQueues /\ TypeOver(BaseLabels)
  BY DEF Inv, TypeOK, TypeOver, Accounts
<1>F. \A t \in Threads : Farewell(t)
  BY DEF Farewells
<1>S. \A t \in Threads \ {r} :
          pc'[t] = pc[t] /\ irq'[t] = irq[t] /\ (pc[t] = "gone" => state'[t] = state[t])
          => Farewell(t)'
  BY <1>F, SameFarewell
<1>1. CASE SchedCheck
  <2>1. UNCHANGED <<running, state>> /\ Here("prio")
    BY <1>1 DEF SchedCheck
  <2>2. CASE MoveTo("user", "ret")
    <3>1. CASE irq[running] = <<>> /\ pc' = [pc EXCEPT ![running] = "user"] /\ UNCHANGED irq
      BY <2>1, <3>1, <1>T, <1>F, <1>S, MovedFarewell DEF Farewells
    <3>2. CASE /\ irq[running] # <<>> /\ UNCHANGED pc
               /\ irq' = [irq EXCEPT ![running] = <<"ret">> \o Tail(@)]
      <4>1. Farewell(r)'
        <5>1. irq[running] \in Seq({"prio", "ret"}) => irq'[running] \in Seq({"prio", "ret"})
          BY <3>2, <1>T, CalmFrames
        <5> QED
          BY <2>1, <3>2, <5>1, <1>T, <1>F DEF Farewell, Unrivalled
      <4> QED
        BY <2>1, <3>2, <4>1, <1>T, <1>S DEF Farewells
    <3> QED
      BY <2>2, <3>1, <3>2 DEF MoveTo
  <2>3. CASE Outranked(ready') /\ MoveTo("swap", "swap")
    <3>1. ~Unrivalled(running)
      <4>1. PICK t \in Threads : Prio[running] < Prio[t]
        BY <2>3 DEF Outranked
      <4>2. Prio[running] \in Nat /\ Prio[t] \in Nat
        BY <1>T, Priorities
      <4> QED
        BY <4>1, <4>2 DEF Unrivalled
    <3>2. Farewell(r)'
      <4>1. pc'[running] = "gone" => pc[running] = "gone"
        BY <2>3, <1>T DEF MoveTo
      <4> QED
        BY <2>1, <3>1, <4>1, <1>T, <1>F DEF Farewell, Unrivalled
    <3> QED
      BY <2>1, <2>3, <3>2, <1>T, <1>S DEF MoveTo, Farewells
  <2> QED
    BY <1>1, <2>2, <2>3 DEF SchedCheck
<1>2. CASE Preempt
  <2>1. CASE Tops(ready) = {}
    <3>1. UNCHANGED <<running, state, pc, irq>>
      BY <1>2, <2>1 DEF Preempt
    <3> QED
      BY <3>1 DEF Farewells, Farewell, Unrivalled
  <2>2. CASE Tops(ready) # {}
    <3>1. PICK next \in Tops(ready) :
              /\ SwitchTo(next, Add(Drop(ready, next), running),
                          [state EXCEPT ![running] = "READY"])
              /\ MoveTo("user", "ret")
      BY <1>2, <2>2 DEF Preempt
    <3>2. /\ next \in Threads /\ ready[next] > 0
          /\ state' = [[state EXCEPT ![running] = "READY"] EXCEPT ![next] = "RUNNING"]
      BY <3>1 DEF SwitchTo, Tops
    <3>3. \A t \in Threads \ {r} : pc[t] = "gone" => state'[t] = state[t]
      <4>1. pc[next] # "gone"
        BY <3>2, UnbornIsOut
      <4> QED
        BY <3>2, <4>1, <1>T
    <3>4. ~Unrivalled(running)
      <4>1. irq[running] \in Seq({"prio", "ret"}) => At(running) # "swap" \/ irq[running] = <<>>
        BY CalmFrames DEF At
      <4> QED
        BY <1>2, <4>1, <1>T, <1>F DEF Preempt, Here, At, Farewell
    <3>5. Farewell(r)'
      <4>1. pc[running] # "gone"
        BY <1>T, UnbornIsOut
      <4>2. pc'[running] # "gone"
        BY <3>1, <4>1, <1>T DEF MoveTo
      <4> QED
        BY <3>4, <4>2 DEF Farewell, Unrivalled
    <3> QED
      BY <3>1, <3>3, <3>5, <1>T, <1>S DEF MoveTo, Farewells
  <2> QED
    BY <2>1, <2>2
<1>3. CASE SleepSwitch
  <2> DEFINE s == [state EXCEPT ![running] = "READY"]
  <2>1. /\ running' \in Threads /\ ready[running'] > 0
        /\ state' = [s EXCEPT ![running'] = "RUNNING"]
    BY <1>3, <1>T, HandsOver DEF SleepSwitch
  <2>2. pc' = [pc EXCEPT ![running] = "user"] /\ UNCHANGED irq
    BY <1>3 DEF SleepSwitch, Step
  <2>3. pc[running'] # "gone"
    BY <2>1, UnbornIsOut
  <2>4. Farewell(r)'
    BY <2>2, <1>T, <1>F DEF Farewell, Unrivalled
  <2> QED
    BY <2>1, <2>2, <2>3, <2>4, <1>T, <1>S DEF Farewells
<1>4. CASE ExitSwitch
  <2>1. /\ running' \in Threads /\ ready[running'] > 0
        /\ state' = [state EXCEPT ![running'] = "RUNNING"]
    BY <1>4, <1>T, HandsOver DEF ExitSwitch
  <2>2. pc' = [pc EXCEPT ![running] = "gone"] /\ UNCHANGED irq /\ pc[running] = "dying"
    BY <1>4, HereBase, <1>T DEF ExitSwitch, Step, FrameLabels
  <2>3. pc[running'] # "gone" /\ running' # running
    BY <2>1, UnbornIsOut, RunningIsOut
  <2>4. Farewell(r)'
    <3>1. state'[running] = state[running] /\ state[running] \in {"RUNNING", "DEAD"}
      BY <2>1, <2>3, <1>T DEF StatesFit
    <3> QED
      BY <2>2, <3>1, <1>T, <1>F DEF Farewell, Unrivalled
  <2> QED
    BY <2>1, <2>2, <2>3, <2>4, <1>T, <1>S DEF Farewells
<1>5. CASE \/ ContextSwitch \/ VMThreadCreate \/ MainReturns \/ Stopped \/ UNCHANGED vars
  <2>1. UNCHANGED <<running, state, pc, irq>>
    BY <1>5 DEF ContextSwitch, VMThreadCreate, MainReturns, Stopped, vars
  <2> QED
    BY <2>1 DEF Farewells, Farewell, Unrivalled
<1>6. CASE AlarmReturn
  <2>1. /\ UNCHANGED <<running, state, pc>> /\ irq[running] # <<>>
        /\ irq' = [irq EXCEPT ![running] = Tail(@)]
    BY <1>6, <1>T DEF AlarmReturn, Here, At, BaseLabels
  <2>2. Farewell(r)'
    <3>1. irq[running] \in Seq({"prio", "ret"}) => irq'[running] \in Seq({"prio", "ret"})
      BY <2>1, <1>T, CalmFrames
    <3> QED
      BY <2>1, <3>1, <1>T, <1>F DEF Farewell, Unrivalled
  <2> QED
    BY <2>1, <2>2, <1>T, <1>S DEF Farewells
<1>7. CASE Alarm \/ AlarmInSwitch
  <2>1. TickOnce /\ UNCHANGED <<running, pc>>
    BY <1>7 DEF Alarm, AlarmInSwitch
  <2>2. \A t \in Threads : t = running \/ pc[t] = "gone" => state'[t] = state[t]
    <3>1. CASE UNCHANGED state
      BY <3>1
    <3>2. CASE \E u \in Soonest : state' = [state EXCEPT ![u] = "READY"]
      <4>1. PICK u \in Soonest : state' = [state EXCEPT ![u] = "READY"]
        BY <3>2
      <4>2. u \in asleep /\ u \in Threads
        BY DEF Soonest, Inv, TypeOK, TypeOver
      <4>3. u # running /\ pc[u] # "gone"
        BY <4>2, RunningIsOut, UnbornIsOut
      <4> QED
        BY <4>1, <4>3, <1>T
    <3> QED
      BY <2>1, <3>1, <3>2 DEF TickOnce, WakeOne
  <2>3. Farewell(r)'
    <3>1. irq'[running] = irq[running] \/ irq'[running] = <<"prio">> \o irq[running]
      BY <1>7, <1>T DEF Alarm, AlarmInSwitch
    <3>2. irq[running] \in Seq({"prio", "ret"}) => irq'[running] \in Seq({"prio", "ret"})
      BY <3>1, CalmFrames
    <3> QED
      BY <2>1, <2>2, <3>2, <1>T, <1>F DEF Farewell, Unrivalled
  <2>4. \A t \in Threads \ {r} : irq'[t] = irq[t]
    BY <1>7, <1>T DEF Alarm, AlarmInSwitch
  <2> QED
    BY <2>1, <2>2, <2>3, <2>4, <1>S DEF Farewells
<1>8. CASE \E x \in Users : VMThreadActivate(x)
  <2>1. PICK x \in Users : VMThreadActivate(x)
    BY <1>8
  <2>2. pc[running] = "user"
    BY <2>1, <1>T, HereBase DEF VMThreadActivate, InUser, FrameLabels
  <2>3. x \in Threads /\ x # running /\ state[x] = "DEAD"
    BY <2>1, <2>2, <1>T DEF VMThreadActivate, StatesFit
  <2>4. /\ state' = [state EXCEPT ![x] = "READY"]
        /\ pc' = [pc EXCEPT ![x] = "user", ![running] = "prio"]
        /\ irq' = irq /\ running' = running
    BY <2>1 DEF VMThreadActivate
  <2>5. Farewell(r)'
    BY <2>2, <2>4, <1>T, <1>F, <2>3 DEF Farewell, Unrivalled
  <2>6. Farewell(x)'
    BY <2>3, <2>4, <1>T, <1>F DEF Farewell, Unrivalled
  <2> QED
    BY <2>3, <2>4, <2>5, <2>6, <1>T, <1>S DEF Farewells
<1>9. CASE \E x \in Threads : VMThreadTerminate(x)
  <2>1. /\ state' = [state EXCEPT ![running] = "DEAD"]
        /\ pc' = [pc EXCEPT ![running] = "dying"] /\ UNCHANGED <<running, irq>>
    BY <1>9 DEF VMThreadTerminate, Step
  <2>2. Farewell(r)'
    BY <2>1, <1>T, <1>F DEF Farewell, Unrivalled
  <2> QED
    BY <2>1, <2>2, <1>T, <1>S DEF Farewells
<1>10. CASE (\E x \in Users : VMThreadDelete(x)) \/ (\E n \in SleepTicks : VMThreadSleep(n)) \/ Yield
  <2>1. UNCHANGED <<running, state, irq>>
    BY <1>10 DEF VMThreadDelete, VMThreadSleep, Yield, Step
  <2>2. PICK l \in {"prio", "nap"} : pc' = [pc EXCEPT ![running] = l]
    BY <1>10 DEF VMThreadDelete, VMThreadSleep, Yield, Step
  <2>3. Farewell(r)'
    BY <2>1, <2>2, <1>T, <1>F DEF Farewell, Unrivalled
  <2> QED
    BY <2>1, <2>2, <2>3, <1>T, <1>S DEF Farewells
<1> QED
  BY <1>1, <1>2, <1>3, <1>4, <1>5, <1>6, <1>7, <1>8, <1>9, <1>10
     DEF Next, Kernel, Timer, ThreadCall

\* What VMThreadState reports agrees with the heaps, no dead thread is ever in
\* the ready heap, and a finished thread that nobody outranks is reported dead.
THEOREM StatesAgree == Spec => []StateAgrees
<1>1. Init => StatesFit /\ Farewells
  <2> SUFFICES ASSUME Init PROVE StatesFit /\ Farewells
    OBVIOUS
  <2>1. StatesFit
    BY ConstantFacts DEF Init, StatesFit, Idle, Main
  <2>2. \A t \in Threads : pc[t] \in {"user", "none"} /\ irq[t] = <<>>
    BY DEF Init
  <2>3. <<>> \in Seq({"prio", "ret"})
    OBVIOUS
  <2>4. ASSUME NEW t \in Threads PROVE Farewell(t)
    BY <2>2, <2>3 DEF Farewell
  <2> QED
    BY <2>1, <2>4 DEF Farewells
<1>2. StatesFit /\ Farewells => StateAgrees
  BY DEF StatesFit, Farewells, Farewell, StateAgrees
<1>3. Inv /\ StatesFit /\ Farewells /\ [Next]_vars => Farewells'
  BY FarewellStep
<1> QED
  BY <1>1, <1>2, <1>3, InitInv, InvStep, StateStep, PTL DEF Spec
=============================================================================
