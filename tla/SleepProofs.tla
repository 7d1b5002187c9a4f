----------------------------- MODULE SleepProofs -----------------------------
(***************************************************************************)
(* Proofs about SleepClock: how long sleepers wait while g_tick does not   *)
(* wrap.  A sleeper that is due has a finite queue before it, the threads  *)
(* that rest with a wake-up time no later than its own.  Nobody joins that *)
(* queue (who goes to sleep now has a later time) and every tick shortens  *)
(* it, so what remains of it and the ticks already lost never exceed the   *)
(* number of other threads.                                                *)
(***************************************************************************)
EXTENDS SleepClock, SchedulerProofs, FiniteSetTheorems, NaturalsInduction,
        WellFoundedInduction

\* For as long as the clock does not wrap.
NoWrap == /\ LastTick < TickMod
          /\ \A n \in SleepTicks : n > 0 /\ LastTick + n < TickMod

Ahead(t) == {u \in Users \ {t} : Resting(u) /\ timeup[u] <= timeup[t]}

\* What is known of the times of a thread that rests.
OnTime(t) ==
    /\ pc[t] = "nap" => timeup[t] = tick + due[t]
    /\ t \in asleep =>
          /\ t \in Users /\ pc[t] # "nap"
          /\ due[t] <= 1 \/ timeup[t] >= tick + due[t]
          /\ due[t] > 0 => timeup[t] <= tick + due[t]
          /\ due[t] <= 0 => /\ timeup[t] <= tick
                            /\ Cardinality(Ahead(t)) - due[t] <= NThreads - 3

ClockInv == /\ Inv /\ tick <= LastTick
            /\ due \in [Threads -> Int]
            /\ \A t \in Threads : OnTime(t)

\* A step of SleepClock is a step of Scheduler.
LEMMA ClockRefines == [ClockNext]_clockVars => [Next]_vars
BY DEF ClockNext, clockVars, SetDue, EnterHeap, PassTick, Timeless, Next, Kernel, ThreadCall

\* The number of threads that can sleep.
LEMMA UserCount ==
    /\ IsFiniteSet(Users) /\ Cardinality(Users) = NThreads - 1
    /\ \A t \in Users : \A S \in SUBSET (Users \ {t}) :
          /\ IsFiniteSet(S) /\ Cardinality(S) \in Nat /\ Cardinality(S) <= NThreads - 2
<1>1. Users = 1 .. NThreads - 1
  BY ThreadCount DEF Users, Threads, Idle
<1>2. IsFiniteSet(Users) /\ Cardinality(Users) = NThreads - 1
  BY <1>1, FS_Interval, ThreadCount
<1>3. ASSUME NEW t \in Users, NEW S \in SUBSET (Users \ {t})
      PROVE  IsFiniteSet(S) /\ Cardinality(S) \in Nat /\ Cardinality(S) <= NThreads - 2
  <2>1. IsFiniteSet(Users \ {t}) /\ Cardinality(Users \ {t}) = NThreads - 2
    BY <1>2, FS_RemoveElement, ThreadCount
  <2> QED
    BY <2>1, FS_Subset, FS_CardinalityType
<1> QED
  BY <1>2, <1>3

LEMMA LeastTime ==
    ASSUME NEW P \in SUBSET Nat, P # {}
    PROVE  \E m \in P : \A k \in P : m <= k
<1> DEFINE R == {p \in Nat \X Nat : p[1] < p[2]}
<1>1. IsWellFoundedOn(R, Nat)
  BY NatLessThanWellFounded DEF OpToRel
<1>2. \A x, y \in P : (y < x => <<y, x>> \in R) /\ (y < x \/ x <= y)
  OBVIOUS
<1> HIDE DEF R
<1>3. \E x \in P : \A y \in P : ~(<<y, x>> \in R)
  BY <1>1, WFMin
<1> QED
  BY <1>2, <1>3

\* Some sleeper is the soonest, so an alarm that wakes nobody finds nobody due.
LEMMA NobodyDue ==
    ASSUME Inv, NEW now \in Nat, \A t \in Soonest : timeup[t] > now, NEW t \in asleep
    PROVE  timeup[t] > now
<1> DEFINE times == {timeup[u] : u \in asleep}
<1>1. timeup \in [Threads -> Nat] /\ asleep \subseteq Threads
  BY DEF Inv, TypeOK, TypeOver
<1>2. times \in SUBSET Nat /\ times # {}
  BY <1>1
<1>3. PICK m \in times : \A k \in times : m <= k
  BY <1>2, LeastTime
<1>4. PICK u \in asleep : timeup[u] = m
  OBVIOUS
<1>5. u \in Soonest
  BY <1>3, <1>4 DEF Soonest
<1>6. timeup[u] > now /\ timeup[u] <= timeup[t]
  BY <1>3, <1>4, <1>5
<1> QED
  BY <1>1, <1>6

LEMMA ClockInitially == ClockInit => ClockInv
<1> SUFFICES ASSUME ClockInit PROVE ClockInv
  OBVIOUS
<1>1. Inv
  BY InitInv DEF ClockInit
<1>2. /\ asleep = {} /\ \A t \in Threads : pc[t] # "nap"
      /\ tick <= LastTick /\ due \in [Threads -> Int]
  BY ClockWidth DEF ClockInit, Init
<1> QED
  BY <1>1, <1>2 DEF ClockInv, OnTime

\* A step that neither moves the clock nor a thread that rests.
LEMMA StillOnTime ==
    ASSUME ClockInv, Inv', UNCHANGED <<tick, asleep, timeup, due>>,
           \A t \in Threads : pc'[t] = "nap" <=> pc[t] = "nap"
    PROVE  ClockInv'
<1>1. \A t \in Threads : Ahead(t)' = Ahead(t)
  BY ConstantFacts DEF Ahead, Resting
<1> QED
  BY <1>1 DEF ClockInv, OnTime

\* What takes no time starts and ends no rest.
LEMMA TimelessStep ==
    ASSUME ClockInv, Inv', Timeless
    PROVE  ClockInv'
<1> USE ConstantFacts
<1>T. /\ running \in Threads /\ pc \in [Threads -> BaseLabels]
      /\ irq \in [Threads -> Seq(FrameLabels)]
      /\ DeadIsDone /\ TypeOver(BaseLabels)
  BY DEF ClockInv, Inv, TypeOK, TypeOver, Accounts
<1>1. ASSUME NEW l \in {"user", "swap", "prio", "gone", "dying"},
             pc[running] # "nap", Step(l) \/ MoveTo(l, "swap") \/ MoveTo(l, "ret")
      PROVE  \A t \in Threads : pc'[t] = "nap" <=> pc[t] = "nap"
  BY <1>1, <1>T DEF Step, MoveTo
<1>2. ASSUME NEW l \in {"prio", "swap"}, Here(l),
             NEW m \in {"user", "swap"}, MoveTo(m, "swap") \/ MoveTo(m, "ret")
      PROVE  \A t \in Threads : pc'[t] = "nap" <=> pc[t] = "nap"
  BY <1>2, <1>T DEF Here, At, MoveTo
<1>3. CASE SchedCheck
  <2>1. \A t \in Threads : pc'[t] = "nap" <=> pc[t] = "nap"
    BY <1>2, <1>3 DEF SchedCheck
  <2> QED
    BY <1>3, <2>1, StillOnTime DEF SchedCheck, sleepVars, Timeless
<1>4. CASE Preempt
  <2>1. \A t \in Threads : pc'[t] = "nap" <=> pc[t] = "nap"
    BY <1>2, <1>4 DEF Preempt
  <2> QED
    BY <1>4, <2>1, StillOnTime DEF Preempt, sleepVars, Timeless
<1>5. CASE ExitSwitch
  <2>1. pc[running] = "dying"
    BY <1>5, <1>T, HereBase DEF ExitSwitch, FrameLabels
  <2> QED
    BY <1>1, <1>5, <2>1, StillOnTime DEF ExitSwitch, sleepVars, Timeless
<1>6. CASE ContextSwitch \/ AlarmReturn \/ VMThreadCreate \/ MainReturns \/ Stopped
  BY <1>6, StillOnTime DEF ContextSwitch, AlarmReturn, VMThreadCreate, MainReturns,
     Stopped, vars, sleepVars, Timeless
<1>7. CASE InUser /\ ((\E x \in Users : VMThreadDelete(x)) \/ Yield
                      \/ (\E x \in Threads : VMThreadTerminate(x)))
  <2>1. pc[running] = "user"
    BY <1>7, <1>T, HereBase DEF InUser, FrameLabels
  <2> QED
    BY <1>1, <1>7, <2>1, StillOnTime
       DEF VMThreadDelete, Yield, VMThreadTerminate, sleepVars, Timeless
<1>8. CASE \E x \in Users : VMThreadActivate(x)
  <2>1. PICK x \in Users : VMThreadActivate(x)
    BY <1>8
  <2>2. pc[running] = "user"
    BY <2>1, <1>T, HereBase DEF VMThreadActivate, InUser, FrameLabels
  <2>3. pc[x] \in {"none", "gone", "dying"}
    BY <2>1, <1>T DEF VMThreadActivate, DeadIsDone, Active
  <2>4. \A t \in Threads : pc'[t] = "nap" <=> pc[t] = "nap"
    BY <2>1, <2>2, <2>3, <1>T DEF VMThreadActivate
  <2> QED
    BY <2>1, <2>4, StillOnTime DEF VMThreadActivate, sleepVars, Timeless
<1> QED
  BY <1>3, <1>4, <1>5, <1>6, <1>7, <1>8
     DEF Timeless, VMThreadDelete, Yield, VMThreadTerminate

\* Who goes to sleep now joins no queue of threads that are due.
LEMMA SetDueStep ==
    ASSUME NoWrap, ClockInv, Inv', NEW n \in SleepTicks, SetDue(n)
    PROVE  ClockInv'
<1>T. /\ running \in Users /\ running \in Threads /\ pc \in [Threads -> BaseLabels]
      /\ timeup \in [Threads -> Nat] /\ tick \in Nat /\ n \in Nat /\ due \in [Threads -> Int]
      /\ TypeOver(BaseLabels) /\ \A t \in Threads : OnTime(t)
  BY ClockWidth DEF ClockInv, Inv, TypeOK, TypeOver, SetDue, VMThreadSleep, InUser, Users
<1>1. pc[running] = "user" /\ running \notin asleep
  BY <1>T, HereBase, RunningIsOut
     DEF SetDue, VMThreadSleep, InUser, FrameLabels, ClockInv
<1>2. (tick + n) % TickMod = tick + n
  BY <1>T, ClockWidth DEF NoWrap, ClockInv
<1>3. /\ timeup' = [timeup EXCEPT ![running] = tick + n]
      /\ pc' = [pc EXCEPT ![running] = "nap"]
      /\ due' = [due EXCEPT ![running] = n]
      /\ UNCHANGED <<tick, asleep>>
  BY <1>2 DEF SetDue, VMThreadSleep, Step
<1>4. ASSUME NEW t \in Threads PROVE OnTime(t)'
  <2>1. CASE t = running
    BY <1>T, <1>1, <1>3, <2>1 DEF OnTime
  <2>2. CASE t # running /\ t \notin asleep
    BY <1>T, <1>3, <2>2 DEF OnTime
  <2>3. CASE t # running /\ t \in asleep /\ due[t] > 0
    BY <1>T, <1>3, <2>3 DEF OnTime
  <2>4. CASE t # running /\ t \in asleep /\ ~(due[t] > 0)
    <3>1. t \in Users /\ timeup[t] <= tick /\ due[t] <= 0
          /\ Cardinality(Ahead(t)) - due[t] <= NThreads - 3
      BY <1>T, <2>4 DEF OnTime
    <3>2. tick + n > timeup[t] /\ timeup'[t] = timeup[t]
      BY <1>T, <1>3, <2>4, <3>1 DEF NoWrap
    <3>3. Ahead(t)' \subseteq Ahead(t)
      <4>1. running \notin Ahead(t)'
        BY <1>T, <1>3, <3>2 DEF Ahead
      <4>2. \A u \in Users \ {running} : (Resting(u)' <=> Resting(u)) /\ timeup'[u] = timeup[u]
        BY <1>T, <1>3, ConstantFacts DEF Resting
      <4> QED
        BY <4>1, <4>2, <3>2 DEF Ahead
    <3>4. Ahead(t) \in SUBSET (Users \ {t}) /\ Ahead(t)' \in SUBSET (Users \ {t})
      BY DEF Ahead
    <3>5. /\ Cardinality(Ahead(t)) \in Nat /\ Cardinality(Ahead(t)') \in Nat
          /\ Cardinality(Ahead(t)') <= Cardinality(Ahead(t))
      BY <3>1, <3>3, <3>4, UserCount, FS_Subset
    <3>6. Cardinality(Ahead(t)') - due'[t] <= NThreads - 3
      BY <1>T, <1>3, <2>4, <3>1, <3>5, ThreadCount
    <3> QED
      BY <1>T, <1>3, <2>4, <3>1, <3>6 DEF OnTime
  <2> QED
    BY <2>1, <2>2, <2>3, <2>4
<1> QED
  BY <1>T, <1>3, <1>4 DEF ClockInv

\* Entering the heap, on time or not.
LEMMA EnterHeapStep ==
    ASSUME ClockInv, Inv', EnterHeap
    PROVE  ClockInv'
<1>T. /\ running \in Threads /\ pc \in [Threads -> BaseLabels]
      /\ timeup \in [Threads -> Nat] /\ tick \in Nat /\ due \in [Threads -> Int]
      /\ TypeOver(BaseLabels) /\ pc[Idle] = "user" /\ \A t \in Threads : OnTime(t)
  BY DEF ClockInv, Inv, TypeOK, TypeOver, Accounts, IdleStays
<1>1. pc[running] = "nap" /\ running \in Users
  BY <1>T, HereBase DEF EnterHeap, SleepSwitch, FrameLabels, Users
<1>2. /\ asleep' = asleep \cup {running} /\ pc' = [pc EXCEPT ![running] = "user"]
      /\ due' = [due EXCEPT ![running] = IF @ > 0 THEN @ ELSE 1]
      /\ UNCHANGED <<tick, timeup>>
  BY DEF EnterHeap, SleepSwitch, Step
<1>3. \A t \in Threads : Ahead(t)' = Ahead(t)
  <2>1. \A u \in Users : Resting(u)' <=> Resting(u)
    BY <1>T, <1>1, <1>2, ConstantFacts DEF Resting
  <2> QED
    BY <1>2, <2>1 DEF Ahead
<1>4. OnTime(running) /\ timeup[running] = tick + due[running]
  BY <1>T, <1>1 DEF OnTime
<1>5. ASSUME NEW t \in Threads PROVE OnTime(t)'
  <2>1. CASE t = running
    BY <1>T, <1>1, <1>2, <1>4, <2>1 DEF OnTime
  <2>2. CASE t # running
    BY <1>T, <1>2, <1>3, <2>2 DEF OnTime
  <2> QED
    BY <2>1, <2>2
<1> QED
  BY <1>T, <1>2, <1>5 DEF ClockInv

\* An alarm wakes the first of every queue there is, or finds nobody due.
LEMMA PassTickStep ==
    ASSUME NoWrap, ClockInv, Inv', PassTick
    PROVE  /\ ClockInv'
           /\ \A t \in asleep \ asleep' : due'[t] <= 0
<1>T. /\ pc \in [Threads -> BaseLabels] /\ asleep \subseteq Threads
      /\ timeup \in [Threads -> Nat] /\ tick \in Nat /\ due \in [Threads -> Int]
      /\ LastTick \in Nat /\ TickMod \in Nat /\ NThreads \in Nat
      /\ Inv /\ \A t \in Threads : OnTime(t)
  BY ClockWidth, ThreadCount DEF ClockInv, Inv, TypeOK, TypeOver
<1>1. TickOnce /\ UNCHANGED pc
  BY DEF PassTick, Timer, Alarm, AlarmInSwitch
<1>2. tick' = tick + 1 /\ tick' <= LastTick
  <2>1. tick # LastTick /\ tick <= LastTick /\ LastTick < TickMod
    BY <1>1 DEF TickOnce, ClockInv, NoWrap
  <2>2. tick + 1 < TickMod /\ tick + 1 <= LastTick
    BY <2>1, <1>T
  <2>3. (tick + 1) % TickMod = tick + 1
    BY <2>2, <1>T
  <2> QED
    BY <1>1, <2>2, <2>3 DEF TickOnce
<1>3. /\ due' \in [Threads -> Int]
      /\ \A t \in Threads : due'[t] = IF Resting(t) THEN due[t] - 1 ELSE due[t]
  BY <1>T DEF PassTick
<1>4. CASE UNCHANGED sleepVars /\ \A t \in Soonest : timeup[t] > tick'
  <2>1. \A t \in asleep : timeup[t] > tick + 1
    BY <1>4, <1>2, <1>T, NobodyDue
  <2>2. ASSUME NEW t \in Threads PROVE OnTime(t)'
    <3>1. CASE t \in asleep
      <4>1. due'[t] = due[t] - 1 /\ due[t] \in Int /\ timeup[t] \in Nat
        BY <1>3, <1>T, <3>1 DEF Resting
      <4>2. due[t] > 0 /\ timeup[t] <= tick + due[t]
        BY <2>1, <3>1, <4>1, <1>T DEF OnTime
      <4>3. due[t] > 1
        BY <2>1, <3>1, <4>1, <4>2, <1>T
      <4> QED
        BY <1>1, <1>2, <1>4, <3>1, <4>1, <4>2, <4>3, <1>T DEF OnTime, sleepVars
    <3>2. CASE t \notin asleep
      <4>1. pc[t] = "nap" => due'[t] = due[t] - 1
        BY <1>3 DEF Resting
      <4> QED
        BY <1>1, <1>2, <1>4, <3>2, <4>1, <1>T DEF OnTime, sleepVars
    <3> QED
      BY <3>1, <3>2
  <2> QED
    BY <1>2, <1>3, <1>4, <2>2 DEF ClockInv, sleepVars
<1>5. CASE \E w \in Soonest : /\ timeup[w] <= tick'
                              /\ asleep' = asleep \ {w}
                              /\ timeup' = [timeup EXCEPT ![w] = 0]
  <2>1. PICK w \in Soonest : /\ timeup[w] <= tick'
                             /\ asleep' = asleep \ {w}
                             /\ timeup' = [timeup EXCEPT ![w] = 0]
    BY <1>5
  <2>2. w \in asleep /\ w \in Threads /\ w \in Users /\ pc[w] # "nap" /\ OnTime(w)
    BY <2>1, <1>T DEF Soonest, OnTime
  <2>3. due'[w] <= 0
    <3>1. due'[w] = due[w] - 1 /\ due[w] \in Int /\ timeup[w] \in Nat
      BY <1>3, <1>T, <2>2 DEF Resting
    <3>2. due[w] <= 1 \/ timeup[w] >= tick + due[w]
      BY <2>2 DEF OnTime
    <3> QED
      BY <3>1, <3>2, <2>1, <1>2, <1>T
  <2>4. ASSUME NEW t \in Threads PROVE OnTime(t)'
    <3>1. CASE t \notin asleep'
      <4>1. pc[t] = "nap" => due'[t] = due[t] - 1 /\ t # w
        BY <1>3, <2>2 DEF Resting
      <4> QED
        BY <1>1, <1>2, <2>1, <3>1, <4>1, <1>T DEF OnTime
    <3>2. CASE t \in asleep'
      <4>1. /\ t \in asleep /\ t # w /\ OnTime(t)
            /\ due'[t] = due[t] - 1 /\ due[t] \in Int /\ timeup'[t] = timeup[t]
            /\ timeup[t] \in Nat /\ t \in Users /\ pc'[t] # "nap"
        BY <1>1, <1>3, <2>1, <3>2, <1>T DEF Resting, OnTime
      <4>2. CASE due[t] > 1
        BY <4>1, <4>2, <1>2, <1>T DEF OnTime
      <4>3. CASE ~(due[t] > 1)
        <5>1. timeup[t] <= tick' /\ (due[t] <= 1)
          BY <4>1, <4>3, <1>2, <1>T DEF OnTime
        <5>2. Ahead(t)' \subseteq Ahead(t) \ {w}
          <6>1. ~Resting(w)'
            BY <1>1, <2>1, <2>2 DEF Resting
          <6>2. \A u \in Users \ {w} : (Resting(u)' <=> Resting(u)) /\ timeup'[u] = timeup[u]
            BY <1>1, <2>1, <1>T, ConstantFacts DEF Resting
          <6> QED
            BY <4>1, <6>1, <6>2 DEF Ahead
        <5>3. w \in Ahead(t)
          BY <2>1, <2>2, <4>1 DEF Ahead, Resting, Soonest
        <5>4. Ahead(t) \in SUBSET (Users \ {t})
          BY DEF Ahead
        <5>5. IsFiniteSet(Ahead(t)) /\ Cardinality(Ahead(t)) \in Nat
              /\ Cardinality(Ahead(t)) <= NThreads - 2
          BY <4>1, <5>4, UserCount
        <5>6. IsFiniteSet(Ahead(t) \ {w}) /\ Cardinality(Ahead(t) \ {w}) = Cardinality(Ahead(t)) - 1
          BY <5>3, <5>5, FS_RemoveElement
        <5>7. Cardinality(Ahead(t)') <= Cardinality(Ahead(t)) - 1 /\ Cardinality(Ahead(t)') \in Nat
          BY <5>2, <5>5, <5>6, FS_Subset, FS_CardinalityType
        <5>8. Cardinality(Ahead(t)') - due'[t] <= NThreads - 3
          <6>1. CASE due[t] = 1
            BY <4>1, <5>5, <5>7, <6>1, <1>T
          <6>2. CASE due[t] <= 0
            <7>1. Cardinality(Ahead(t)) - due[t] <= NThreads - 3
              BY <4>1, <6>2 DEF OnTime
            <7> QED
              BY <7>1, <4>1, <5>5, <5>7, <1>T
          <6> QED
            BY <6>1, <6>2, <5>1, <4>1
        <5> QED
          BY <4>1, <4>3, <5>1, <5>8, <1>2, <1>T DEF OnTime
      <4> QED
        BY <4>2, <4>3
    <3> QED
      BY <3>1, <3>2
  <2> QED
    BY <1>2, <1>3, <2>1, <2>3, <2>4 DEF ClockInv
<1> QED
  BY <1>1, <1>4, <1>5 DEF TickOnce, WakeOne

LEMMA ClockInductive ==
    ASSUME NoWrap, ClockInv, [ClockNext]_clockVars
    PROVE  /\ ClockInv'
           /\ \A t \in asleep \ asleep' : due'[t] <= 0
<1>1. Inv'
  BY ClockRefines, InvStep DEF ClockInv
<1>2. CASE \E n \in SleepTicks : SetDue(n)
  <2>1. ClockInv'
    BY <1>1, <1>2, SetDueStep
  <2> QED
    BY <1>2, <2>1 DEF SetDue, VMThreadSleep
<1>3. CASE EnterHeap
  <2>1. ClockInv'
    BY <1>1, <1>3, EnterHeapStep
  <2> QED
    BY <1>3, <2>1 DEF EnterHeap, SleepSwitch
<1>4. CASE PassTick
  BY <1>1, <1>4, PassTickStep
<1>5. CASE Timeless
  <2>1. ClockInv'
    BY <1>1, <1>5, TimelessStep
  <2>2. UNCHANGED asleep
    BY <1>5 DEF Timeless, SchedCheck, Preempt, ExitSwitch, ContextSwitch, AlarmReturn,
       VMThreadCreate, VMThreadActivate, VMThreadDelete, VMThreadTerminate, Yield,
       MainReturns, Stopped, vars, sleepVars
  <2> QED
    BY <2>1, <2>2
<1>6. CASE UNCHANGED clockVars
  <2>1. UNCHANGED <<tick, asleep, timeup, due, pc>>
    BY <1>6 DEF clockVars, vars
  <2> QED
    BY <1>1, <2>1, StillOnTime
<1> QED
  BY <1>2, <1>3, <1>4, <1>5, <1>6 DEF ClockNext

\* While the clock does not wrap, a thread that still sleeps is late by fewer
\* ticks than there are other threads that can sleep: for any number of threads,
\* any priorities and any nesting of handlers.
THEOREM LateByFew ==
    ASSUME NoWrap
    PROVE  ClockSpec => []LateByOthers
<1>1. ClockInv => LateByOthers
  <2> SUFFICES ASSUME ClockInv, NEW t \in asleep PROVE -due[t] < NThreads - 2 \/ due[t] > 0
    <3>1. ASSUME NEW t \in asleep, -due[t] < NThreads - 2 \/ due[t] > 0, ClockInv
          PROVE  -due[t] < NThreads - 2
      BY <3>1, ThreadCount DEF ClockInv, Inv, TypeOK, TypeOver
    <3> QED
      BY <3>1 DEF LateByOthers
  <2>1. t \in Threads /\ due[t] \in Int
    BY DEF ClockInv, Inv, TypeOK, TypeOver
  <2>2. CASE due[t] <= 0
    <3>1. t \in Users /\ Cardinality(Ahead(t)) - due[t] <= NThreads - 3
      BY <2>1, <2>2 DEF ClockInv, OnTime
    <3>2. Ahead(t) \in SUBSET (Users \ {t})
      BY DEF Ahead
    <3>3. Cardinality(Ahead(t)) \in Nat
      BY <3>1, <3>2, UserCount
    <3> QED
      BY <2>1, <3>1, <3>3, ThreadCount
  <2> QED
    BY <2>1, <2>2
<1>2. ClockInv /\ [ClockNext]_clockVars => ClockInv'
  BY ClockInductive
<1> QED
  BY <1>1, <1>2, ClockInitially, PTL DEF ClockSpec

\* While the clock does not wrap, no alarm wakes a thread before its time.
THEOREM NobodyWakesEarly ==
    ASSUME NoWrap
    PROVE  ClockSpec => SleepsLongEnough
<1>1. ClockInv /\ [ClockNext]_clockVars =>
          ClockInv' /\ [\A t \in asleep \ asleep' : due'[t] <= 0]_clockVars
  BY ClockInductive
<1> QED
  BY <1>1, ClockInitially, PTL DEF ClockSpec, SleepsLongEnough
=============================================================================
