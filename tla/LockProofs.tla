----------------------------- MODULE LockProofs -----------------------------
(***************************************************************************)
(* With user threads of one priority no tick switches away from a thread   *)
(* inside a mutex call, and the mutexes implement LockSpec.                *)
(***************************************************************************)
EXTENDS MutexProofs

SamePriority == \A t, u \in Users : Prio[t] = Prio[u]

\* No user thread, and no handler on its stack, is about to be exchanged.
Calm == \A t \in Users : pc[t] # "swap" /\ irq[t] \in Seq({"prio", "ret"})

\* A user thread is outranked by nobody.
LEMMA NobodyOutranks ==
    ASSUME SamePriority, running \in Users
    PROVE  ~Outranked(ready)
<1>1. \A t \in Threads : t = Idle \/ t \in Users
  BY DEF Users
<1> QED
  BY <1>1, Priorities DEF SamePriority, Outranked, Users

\* The scheduler takes the processor only from the idle thread, and from a thread
\* that sleeps or ends.
LEMMA CalmStep ==
    ASSUME SamePriority, NEW labels, BaseLabels \subseteq labels, "ret" \notin labels,
           TypeOver(labels), LiveQueues, IdleStays, Calm, [Next]_vars
    PROVE  /\ Calm'
           /\ running' = running \/ pc[running] \in {"user", "nap", "dying"}
<1> USE ConstantFacts
<1>T. /\ running \in Threads /\ pc \in [Threads -> labels]
      /\ irq \in [Threads -> Seq(FrameLabels)]
      /\ \A t \in Threads : t \in Users <=> t # Idle
  BY DEF TypeOver, Users
<1>1. ASSUME NEW base \in {"user", "nap", "dying", "gone", "prio"}, Step(base),
             running' = running \/ pc[running] \in {"user", "nap", "dying"}
      PROVE  /\ Calm'
             /\ running' = running \/ pc[running] \in {"user", "nap", "dying"}
  BY <1>1, <1>T DEF Step, Calm
<1>2. ASSUME MoveTo("user", "ret")
      PROVE  Calm'
  <2> SUFFICES ASSUME NEW t \in Users
               PROVE  pc'[t] # "swap" /\ irq'[t] \in Seq({"prio", "ret"})
    BY DEF Calm
  <2>1. CASE irq[running] = <<>>
    BY <1>2, <2>1, <1>T DEF MoveTo, Calm
  <2>2. CASE irq[running] # <<>>
    <3>1. pc' = pc /\ irq' = [irq EXCEPT ![running] = <<"ret">> \o Tail(@)]
      BY <1>2, <2>2 DEF MoveTo
    <3>2. CASE t = running
      BY <3>1, <3>2, <2>2, <1>T, CalmFrames DEF Calm
    <3>3. CASE t # running
      BY <3>1, <3>3, <1>T DEF Calm
    <3> QED
      BY <3>2, <3>3
  <2> QED
    BY <2>1, <2>2
<1>3. CASE SchedCheck
  <2>1. ready' = ready /\ running' = running
    BY <1>3, NothingToPop DEF SchedCheck
  <2>2. CASE running \in Users
    BY <1>2, <1>3, <2>1, <2>2, NobodyOutranks DEF SchedCheck, Outranked
  <2>3. CASE running = Idle
    <3>1. \A t \in Users : pc'[t] = pc[t] /\ irq'[t] = irq[t]
      BY <1>3, <2>3, <1>T DEF SchedCheck, MoveTo
    <3> QED
      BY <2>1, <3>1 DEF Calm
  <2> QED
    BY <2>2, <2>3, <1>T
<1>4. CASE Preempt
  <2>1. running = Idle
    <3> SUFFICES ASSUME running \in Users PROVE FALSE
      BY <1>T
    <3>1. At(running) = "swap"
      BY <1>4 DEF Preempt, Here
    <3> QED
      BY <3>1, CalmFrames DEF At, Calm
  <2>2. \A t \in Users : pc'[t] = pc[t] /\ irq'[t] = irq[t]
    BY <1>4, <2>1, <1>T DEF Preempt, MoveTo
  <2> QED
    BY <2>1, <2>2 DEF Calm, IdleStays
<1>5. CASE SleepSwitch \/ ExitSwitch
  <2>1. pc[running] \in {"nap", "dying"}
    BY <1>5, HereBase DEF SleepSwitch, ExitSwitch, FrameLabels
  <2> QED
    BY <1>1, <1>5, <2>1 DEF SleepSwitch, ExitSwitch
<1>6. CASE Alarm
  <2>1. /\ UNCHANGED <<running, pc>>
        /\ irq' = [irq EXCEPT ![running] = <<"prio">> \o @]
    BY <1>6 DEF Alarm
  <2> QED
    BY <2>1, <1>T, CalmFrames DEF Calm
<1>7. CASE AlarmReturn
  <2>1. /\ UNCHANGED <<running, pc>>
        /\ irq' = [irq EXCEPT ![running] = Tail(@)]
    BY <1>7 DEF AlarmReturn
  <2>2. irq[running] # <<>>
    BY <1>7, <1>T DEF AlarmReturn, Here, At
  <2> QED
    BY <2>1, <2>2, <1>T, CalmFrames DEF Calm
<1>8. CASE \E x \in Users : VMThreadActivate(x)
  <2>1. PICK x \in Users : VMThreadActivate(x)
    BY <1>8
  <2>2. /\ pc' = [pc EXCEPT ![x] = "user", ![running] = "prio"]
        /\ UNCHANGED <<running, irq>>
    BY <2>1 DEF VMThreadActivate
  <2> QED
    BY <2>2, <1>T DEF Calm
<1>9. CASE \/ (\E x \in Users : VMThreadDelete(x)) \/ (\E n \in SleepTicks : VMThreadSleep(n))
           \/ Yield \/ (\E x \in Threads : VMThreadTerminate(x))
  BY <1>9, <1>1 DEF VMThreadDelete, VMThreadSleep, Yield, VMThreadTerminate
<1>10. CASE \/ ContextSwitch \/ AlarmInSwitch \/ VMThreadCreate \/ MainReturns \/ Stopped
            \/ UNCHANGED vars
  BY <1>10 DEF ContextSwitch, AlarmInSwitch, VMThreadCreate, MainReturns, Stopped, vars, Calm
<1> QED
  BY <1>3, <1>4, <1>5, <1>6, <1>7, <1>8, <1>9, <1>10 DEF Next, Kernel, Timer, ThreadCall

-----------------------------------------------------------------------------
(* Between the steps of a call only its own thread runs.                   *)

\* The places inside a call at which a thread has not given up the processor.
Window == MutexLabels \ {"woken", "erase"}

WindowRuns  == \A t \in Threads : pc[t] \in Window => t = running
AskedIsMine == \A t \in Threads : InCall(t) => slots[it[t]] = asked[t]
LockFound   == \A t \in Threads : pc[t] = "lock" => ~locked[slots[it[t]]]
OwnerUnlocks == \A t \in Threads : pc[t] = "unlock" =>
                   locked[slots[it[t]]] /\ owner[slots[it[t]]] = t
FreeIsNobodys == \A m \in MutexIDs : ~locked[m] => owner[m] = Idle
WaiterSeen  == \A t \in Threads : pc[t] \in {"hand", "handP"} => Waiters(slots[it[t]]) # {}
NothingErased == \A t \in Threads : pc[t] # "erase"

EqInv == Calm /\ WindowRuns /\ AskedIsMine /\ LockFound /\ OwnerUnlocks
              /\ FreeIsNobodys /\ WaiterSeen /\ NothingErased

\* What the mutexes do as long as none is deleted, whatever limits are passed.
LockMove ==
    \/ (Next /\ UNCHANGED mutexVars) \/ UNCHANGED allVars
    \/ VMMutexCreate \/ MutexCall
    \/ \E m \in MutexIDs : Release(m) \/ \E n \in Nat : Acquire(m, n)

LEMMA NoneDeleted == Deletable = {} /\ [MNext]_allVars => LockMove
BY MutexArguments DEF MNext, MutexEntry, LockMove

\* A step of what is built upon the mutexes that they do not notice: it may switch away
\* from a thread that is in no call of theirs.
Unnoticed == UNCHANGED <<pc, mutexVars>> /\ (running' = running \/ pc[running] = "user")

\* It keeps what is said of the calls, if no handler breaks the calm.
LEMMA EqUnnoticed ==
    ASSUME EqInv, Unnoticed, Calm'
    PROVE  EqInv'
BY DEF EqInv, Unnoticed, WindowRuns, AskedIsMine, LockFound, OwnerUnlocks, FreeIsNobodys,
   WaiterSeen, NothingErased, InCall, Waiters, Window, MutexLabels, mutexVars, listVars,
   lockVars, callVars

LEMMA EqInit == MInit => EqInv
<1> SUFFICES ASSUME MInit PROVE EqInv
  OBVIOUS
<1>1. \A t \in Threads : pc[t] \in {"user", "none"} /\ irq[t] = <<>>
  BY DEF MInit, Init
<1>2. Calm
  <2>1. <<>> \in Seq({"prio", "ret"})
    OBVIOUS
  <2> QED
    BY <1>1, <2>1, ConstantFacts DEF Calm
<1>3. \A t \in Threads : pc[t] \notin MutexLabels
  BY <1>1 DEF MutexLabels
<1>4. FreeIsNobodys
  BY DEF MInit, FreeIsNobodys, Idle
<1> QED
  BY <1>2, <1>3, <1>4 DEF EqInv, WindowRuns, AskedIsMine, LockFound, OwnerUnlocks, WaiterSeen,
                          NothingErased, InCall, Window, MutexLabels

LEMMA EqSched ==
    ASSUME SamePriority, Sound, EqInv, [Next]_vars, UNCHANGED mutexVars
    PROVE  EqInv'
<1>1. /\ BaseLabels \subseteq Labels /\ "ret" \notin Labels /\ TypeOver(Labels)
      /\ MutexLabels \cap BaseLabels = {} /\ DeadIsDone /\ LiveQueues /\ IdleStays
  BY LabelFacts DEF Sound, MTypeOK, Labels
<1>2. UNCHANGED <<slots, size, mutexCnt, locked, owner, waitingOn, it, asked, timeout, deadline>>
  BY DEF mutexVars, listVars, lockVars, callVars
<1>3. \A t \in Threads : \/ pc'[t] = pc[t]
                         \/ (pc[t] \notin MutexLabels /\ pc'[t] \notin MutexLabels)
  BY <1>1, LabelStep
<1>4. Calm' /\ (running' = running \/ pc[running] \in {"user", "nap", "dying"})
  BY <1>1, CalmStep DEF EqInv
<1>5. WindowRuns'
  <2> SUFFICES ASSUME NEW t \in Threads, pc'[t] \in Window PROVE t = running'
    BY DEF WindowRuns
  <2>1. pc[t] \in Window /\ t = running
    BY <1>3 DEF Window, EqInv, WindowRuns
  <2> QED
    BY <1>4, <2>1 DEF Window, MutexLabels
<1>6. AskedIsMine'
  BY <1>2, <1>3 DEF EqInv, AskedIsMine, InCall
<1>7. LockFound' /\ OwnerUnlocks' /\ FreeIsNobodys' /\ WaiterSeen' /\ NothingErased'
  BY <1>2, <1>3 DEF EqInv, LockFound, OwnerUnlocks, FreeIsNobodys, WaiterSeen, NothingErased,
                    Waiters, MutexLabels
<1> QED
  BY <1>4, <1>5, <1>6, <1>7 DEF EqInv

\* A step of a call: the threads inside other calls are blocked or woken.
LEMMA EqLocal ==
    ASSUME Sound, EqInv, running' = running, UNCHANGED <<irq, slots>>,
           NEW l \in Labels \ {"swap", "erase"}, pc' = [pc EXCEPT ![running] = l],
           \A t \in Threads \ {running} : it'[t] = it[t] /\ asked'[t] = asked[t],
           l \in MutexLabels => slots[it'[running]] = asked'[running],
           l = "lock" => ~locked'[slots[it'[running]]],
           l = "unlock" => locked'[slots[it'[running]]] /\ owner'[slots[it'[running]]] = running,
           l \in {"hand", "handP"} => {t \in Threads : waitingOn'[t] = slots[it'[running]]} # {},
           FreeIsNobodys'
    PROVE  EqInv'
<1>1. running \in Threads /\ pc \in [Threads -> Labels]
  BY DEF Sound, MTypeOK, TypeOver, Labels
<1>2. \A t \in Threads \ {running} : pc'[t] = pc[t] /\ pc[t] \notin Window
  BY <1>1 DEF EqInv, WindowRuns
<1>3. pc'[running] = l
  BY <1>1
<1>4. Calm'
  BY <1>1, <1>3, <1>2, ConstantFacts DEF EqInv, Calm
<1>5. WindowRuns'
  BY <1>2 DEF WindowRuns
<1>6. AskedIsMine'
  BY <1>1, <1>2, <1>3 DEF EqInv, AskedIsMine, InCall
<1>7. LockFound' /\ OwnerUnlocks' /\ WaiterSeen' /\ NothingErased'
  BY <1>1, <1>2, <1>3 DEF EqInv, LockFound, OwnerUnlocks, WaiterSeen, NothingErased, Waiters,
                          Window, MutexLabels
<1> QED
  BY <1>4, <1>5, <1>6, <1>7 DEF EqInv

\* A step inside a call that does not leave the processor.
LEMMA EqInside ==
    ASSUME Sound, EqInv, pc[running] \in MutexLabels, running' = running, UNCHANGED slots,
           NEW l \in Labels \ {"swap", "erase"}, Advance(l) \/ (Leave(l) /\ l \notin MutexLabels),
           l = "lock" => ~locked'[Mine], l # "unlock",
           l \in {"hand", "handP"} => {t \in Threads : waitingOn'[t] = Mine} # {},
           FreeIsNobodys'
    PROVE  EqInv'
<1>1. /\ pc' = [pc EXCEPT ![running] = l] /\ UNCHANGED irq
      /\ running \in Threads /\ it \in [Threads -> MutexIDs]
      /\ asked \in [Threads -> MutexIDs \cup {NoMutex}]
  BY DEF Advance, Leave, Step, Sound, MTypeOK, TypeOver, MutexesTypeOK
<1>2. \A t \in Threads \ {running} : it'[t] = it[t] /\ asked'[t] = asked[t]
  BY <1>1 DEF Advance, Leave, callVars
<1>3. l \in MutexLabels => /\ slots[it'[running]] = asked'[running]
                           /\ slots[it'[running]] = Mine
  BY <1>1 DEF Advance, callVars, EqInv, AskedIsMine, InCall, Mine
<1>4. {"lock", "unlock", "hand", "handP"} \subseteq MutexLabels
  BY DEF MutexLabels
<1>5. l = "lock" => ~locked'[slots[it'[running]]]
  BY <1>3, <1>4
<1>6. l \in {"hand", "handP"} => {t \in Threads : waitingOn'[t] = slots[it'[running]]} # {}
  BY <1>3, <1>4
<1> QED
  BY <1>1, <1>2, <1>3, <1>5, <1>6, EqLocal

LEMMA EqStep ==
    ASSUME SamePriority, Sound, EqInv, LockMove
    PROVE  EqInv'
<1>T. /\ TypeOver(Labels) /\ \A l : l \notin FrameLabels /\ Here(l) => pc[running] = l
      /\ running \in Threads /\ it \in [Threads -> MutexIDs]
      /\ asked \in [Threads -> MutexIDs \cup {NoMutex}]
      /\ locked \in [MutexIDs -> BOOLEAN] /\ owner \in [MutexIDs -> Threads]
  BY HereBase DEF Sound, MTypeOK, TypeOver, MutexesTypeOK, Labels
<1>L. /\ (MutexLabels \ {"erase"}) \cup {"user", "prio"} \subseteq Labels \ {"swap", "erase"}
      /\ {"test", "lock", "park", "mwait", "woken", "unlock", "wake", "hand", "handP"}
           \subseteq MutexLabels \ {"erase"}
      /\ "user" \notin MutexLabels /\ "prio" \notin MutexLabels /\ "erase" \in MutexLabels
      /\ FrameLabels \cap MutexLabels = {} /\ "user" \notin FrameLabels
  BY LabelFacts DEF Labels, BaseLabels, MutexLabels, FrameLabels
<1>I. \A l \in MutexLabels : pc[running] = l => Mine \in MutexIDs
  BY <1>T DEF Sound, ListOK, Iterators, InCall, Mine
<1>F. UNCHANGED lockVars => FreeIsNobodys'
  BY DEF lockVars, EqInv, FreeIsNobodys
<1>1. CASE (Next /\ UNCHANGED mutexVars) \/ UNCHANGED allVars
  BY <1>1, EqSched DEF allVars
<1>2. CASE \E m \in MutexIDs : Release(m)
  <2>1. PICK m \in MutexIDs : Release(m)
    BY <1>2
  <2>2. PICK i \in MutexIDs : Listed(m, i) /\ it' = [it EXCEPT ![running] = i]
    BY <2>1 DEF Release
  <2>3. /\ owner[m] = running /\ asked' = [asked EXCEPT ![running] = m] /\ running # Idle
        /\ pc' = [pc EXCEPT ![running] = "unlock"]
        /\ UNCHANGED <<irq, running, slots, locked, owner>>
    BY <2>1 DEF Release, Step, schedRest, listVars, lockVars, InUser
  <2>4. locked[m]
    BY <2>3 DEF EqInv, FreeIsNobodys
  <2>5. it'[running] = i /\ slots[i] = m /\ asked'[running] = m
        /\ \A t \in Threads \ {running} : it'[t] = it[t] /\ asked'[t] = asked[t]
    BY <2>2, <2>3, <1>T DEF Listed
  <2>6. /\ slots[it'[running]] = asked'[running]
        /\ locked'[slots[it'[running]]] /\ owner'[slots[it'[running]]] = running
    BY <2>3, <2>4, <2>5, <1>T
  <2>7. FreeIsNobodys'
    BY <2>3, <1>F DEF lockVars
  <2>8. "unlock" \in Labels \ {"swap", "erase"}
    BY <1>L
  <2>9. \A t \in Threads \ {running} : it'[t] = it[t] /\ asked'[t] = asked[t]
    BY <2>5
  <2> HIDE <1>2
  <2> QED
    BY <2>3, <2>6, <2>7, <2>8, <2>9, EqLocal
<1>3. CASE \E m \in MutexIDs, n \in Nat : Acquire(m, n)
  <2>1. PICK m \in MutexIDs, n \in Nat : Acquire(m, n)
    BY <1>3
  <2>2. PICK i \in MutexIDs : Listed(m, i) /\ it' = [it EXCEPT ![running] = i]
    BY <2>1 DEF Acquire
  <2>3. /\ asked' = [asked EXCEPT ![running] = m]
        /\ pc' = [pc EXCEPT ![running] = "test"]
        /\ UNCHANGED <<irq, running, slots, locked, owner>>
    BY <2>1 DEF Acquire, Step, schedRest, listVars, lockVars
  <2>4. it'[running] = i /\ slots[i] = m /\ asked'[running] = m
        /\ \A t \in Threads \ {running} : it'[t] = it[t] /\ asked'[t] = asked[t]
    BY <2>2, <2>3, <1>T DEF Listed
  <2> QED
    BY <2>3, <2>4, <1>L, <1>F, EqLocal DEF lockVars
<1>4. CASE VMMutexCreate
  <2>1. /\ \A t \in Threads : pc[t] \notin MutexLabels
        /\ UNCHANGED <<running, pc, irq, locked, owner>>
    BY <1>4 DEF VMMutexCreate, InCall, vars, lockVars
  <2> QED
    BY <2>1, <1>L DEF EqInv, Calm, WindowRuns, AskedIsMine, LockFound, OwnerUnlocks,
                      FreeIsNobodys, WaiterSeen, NothingErased, InCall, Window
<1>5. CASE TestLocked
  <2>1. /\ pc[running] = "test" /\ UNCHANGED <<running, slots, lockVars>>
        /\ Advance(IF locked[Mine] THEN "park" ELSE "lock")
    BY <1>5, <1>L, <1>T DEF TestLocked, schedRest, listVars
  <2>2. CASE locked[Mine]
    BY <2>1, <2>2, <1>L, <1>F, EqInside
  <2>3. CASE ~locked[Mine]
    BY <2>1, <2>3, <1>L, <1>F, EqInside DEF lockVars
  <2> QED
    BY <2>2, <2>3
<1>6. CASE TakeLock
  <2>1. /\ pc[running] = "lock" /\ UNCHANGED <<running, slots>> /\ Leave("user")
        /\ owner' = [owner EXCEPT ![Mine] = running]
        /\ locked' = [locked EXCEPT ![Mine] = TRUE]
    BY <1>6, <1>L, <1>T DEF TakeLock, schedRest, listVars
  <2>2. FreeIsNobodys'
    BY <2>1, <1>T DEF EqInv, FreeIsNobodys
  <2> QED
    BY <2>1, <2>2, <1>L, EqInside
<1>7. CASE Park
  <2>1. /\ pc[running] = "park" /\ UNCHANGED <<running, slots, lockVars>> /\ Advance("mwait")
    BY <1>7, <1>L, <1>T DEF Park, schedRest, listVars
  <2> QED
    BY <2>1, <1>L, <1>F, EqInside
<1>8. CASE MutexSwitch
  <2>1. /\ pc[running] = "mwait" /\ pc' = [pc EXCEPT ![running] = "woken"]
        /\ UNCHANGED <<irq, slots, locked, owner, it, asked, waitingOn>>
    BY <1>8, <1>L, <1>T DEF MutexSwitch, Advance, Step, listVars, lockVars, callVars
  <2>2. \A t \in Threads : pc'[t] \notin Window /\ (pc'[t] = pc[t] \/ t = running)
    BY <2>1, <1>T DEF EqInv, WindowRuns, Window, TypeOver
  <2>3. Calm'
    BY <2>1, <1>T, ConstantFacts DEF EqInv, Calm, TypeOver
  <2>4. AskedIsMine'
    BY <2>1, <2>2, <1>L DEF EqInv, AskedIsMine, InCall
  <2>5. WindowRuns' /\ LockFound' /\ OwnerUnlocks' /\ WaiterSeen'
    BY <2>2, <1>L DEF WindowRuns, LockFound, OwnerUnlocks, WaiterSeen, Window
  <2>6. NothingErased'
    BY <2>1, <1>T DEF EqInv, NothingErased, TypeOver
  <2> QED
    BY <2>1, <2>3, <2>4, <2>5, <2>6, <1>F DEF EqInv, lockVars
<1>9. CASE GiveUp
  <2>1. /\ pc[running] = "woken" /\ UNCHANGED <<running, slots, lockVars>> /\ Leave("user")
    BY <1>9, <1>L, <1>T DEF GiveUp, schedRest, listVars
  <2> QED
    BY <2>1, <1>L, <1>F, EqInside
<1>10. CASE Retry
  <2>1. /\ pc[running] = "woken" /\ UNCHANGED <<running, slots, lockVars>> /\ Advance("test")
    BY <1>10, <1>L, <1>T DEF Retry, schedRest, listVars
  <2> QED
    BY <2>1, <1>L, <1>F, EqInside
<1>11. CASE Unlock
  <2>1. /\ pc[running] = "unlock" /\ UNCHANGED <<running, slots>> /\ Advance("wake")
        /\ owner' = [owner EXCEPT ![Mine] = 0]
        /\ locked' = [locked EXCEPT ![Mine] = FALSE]
    BY <1>11, <1>L, <1>T DEF Unlock, schedRest, listVars
  <2>2. FreeIsNobodys'
    BY <2>1, <1>T DEF EqInv, FreeIsNobodys, Idle
  <2> QED
    BY <2>1, <2>2, <1>L, EqInside
<1>12. CASE LookForWaiter
  <2>1. /\ pc[running] = "wake" /\ UNCHANGED <<running, slots, lockVars, waitingOn>>
        /\ \/ Leave("user")
           \/ Waiters(Mine) # {} /\ (Advance("hand") \/ Advance("handP"))
    BY <1>12, <1>L, <1>T DEF LookForWaiter, schedRest, listVars
  <2>2. Waiters(Mine) # {} => {t \in Threads : waitingOn'[t] = Mine} # {}
    BY <2>1 DEF Waiters
  <2> QED
    BY <2>1, <2>2, <1>L, <1>F, EqInside
<1>13. CASE HandOver("hand", "user") \/ HandOver("handP", "prio")
  <2>1. PICK label \in {"hand", "handP"}, after \in {"user", "prio"} : HandOver(label, after)
    BY <1>13
  <2>2. pc[running] = label /\ UNCHANGED <<running, slots, lockVars>>
    BY <2>1, <1>L, <1>T DEF HandOver, listVars
  <2>3. Leave(after)
    BY <2>1, <2>2, <1>T DEF HandOver, EqInv, WaiterSeen, Mine
  <2> QED
    BY <2>2, <2>3, <1>L, <1>F, EqInside
<1>14. CASE Erase
  <2>1. pc[running] = "erase"
    BY <1>14, <1>L, <1>T DEF Erase
  <2> QED
    BY <2>1, <1>T DEF EqInv, NothingErased
<1> QED
  BY <1>1, <1>2, <1>3, <1>4, <1>5, <1>6, <1>7, <1>8, <1>9, <1>10, <1>11, <1>12, <1>13, <1>14
  DEF LockMove, MutexCall

-----------------------------------------------------------------------------
(* The theorems.                                                           *)

Both == Sound /\ EqInv

\* The invariant of the mutexes, and what equal priorities add to it, hold throughout.
LEMMA SoundNext == MInv' => Sound'
BY MInvSound, PTL

LEMMA BothStep ==
    ASSUME SamePriority, Deletable = {}
    PROVE  /\ MInit => MInv /\ Both
           /\ MInv /\ Both /\ [MNext]_allVars => MInv' /\ Both' /\ LockMove
<1>1. MInit => MInv /\ Both
  BY MInitInv, MInvSound, EqInit DEF Both
<1>2. ASSUME MInv, Both, [MNext]_allVars
      PROVE  MInv' /\ Both' /\ LockMove
  <2>1. MInv' /\ LockMove
    BY <1>2, MInvStep, NoneDeleted
  <2>2. Sound' /\ EqInv'
    BY <1>2, <2>1, SoundNext, EqStep DEF Both
  <2> QED
    BY <2>1, <2>2 DEF Both
<1> QED
  BY <1>1, <1>2

\* If all user threads have one priority and no mutex is deleted, a thread about
\* to set `locked' finds it clear, although its test was not protected.
THEOREM LockTakenWhenFree ==
    ASSUME SamePriority, Deletable = {}
    PROVE  MSpec => []LockIsFree
<1>1. Both => LockIsFree
  <2> SUFFICES ASSUME Both, Here("lock") PROVE ~locked[Mine]
    BY DEF LockIsFree
  <2>1. pc[running] = "lock" /\ running \in Threads
    BY HereBase DEF Both, Sound, MTypeOK, TypeOver, FrameLabels
  <2> QED
    BY <2>1 DEF Both, EqInv, LockFound, Mine
<1> QED
  BY <1>1, BothStep, PTL DEF MSpec

\* Under the same assumptions a release that saw waiters finds one to wake.
THEOREM ReleaseFindsWaiter ==
    ASSUME SamePriority, Deletable = {}
    PROVE  MSpec => []HandFindsWaiter
<1>1. Both => HandFindsWaiter
  <2> SUFFICES ASSUME Both, Here("hand") \/ Here("handP") PROVE Waiters(Mine) # {}
    BY DEF HandFindsWaiter
  <2>1. pc[running] \in {"hand", "handP"} /\ running \in Threads
    BY HereBase DEF Both, Sound, MTypeOK, TypeOver, FrameLabels
  <2> QED
    BY <2>1 DEF Both, EqInv, WaiterSeen, Mine
<1> QED
  BY <1>1, BothStep, PTL DEF MSpec

\* What the abstract specification sees of a state.
AskingOf == [t \in Threads |-> IF Asking(t) THEN asked[t] ELSE NoMutex]
HolderOf == [m \in MutexIDs |-> IF locked[m] THEN owner[m] ELSE NoThread]

\* A step that changes neither is a switch, or a stuttering step.
LEMMA UnseenStep ==
    ASSUME Sound', UNCHANGED lockVars,
           \A t \in Threads : (Asking(t)' <=> Asking(t)) /\ (Asking(t) => asked'[t] = asked[t])
    PROVE  Lock!Switch
<1>1. running' \in Threads
  BY DEF Sound, MTypeOK, TypeOver
<1>2. AskingOf' = AskingOf /\ HolderOf' = HolderOf
  BY DEF AskingOf, HolderOf, lockVars
<1> QED
  BY <1>1, <1>2 DEF Lock!Switch, AskingOf, HolderOf

\* A step that changes what the running thread asks for, and nothing else asked.
LEMMA AskingMoves ==
    ASSUME running \in Threads, running' = running, NEW v,
           IF Asking(running)' THEN asked'[running] = v ELSE v = NoMutex,
           \A t \in Threads \ {running} : (Asking(t)' <=> Asking(t)) /\ asked'[t] = asked[t]
    PROVE  AskingOf' = [AskingOf EXCEPT ![running] = v]
<1> DEFINE new(t) == IF Asking(t)' THEN asked'[t] ELSE NoMutex
<1>1. AskingOf' = [t \in Threads |-> new(t)]
  BY DEF AskingOf
<1>2. new(running) = v
  OBVIOUS
<1>3. ASSUME NEW t \in Threads, t # running PROVE new(t) = AskingOf[t]
  BY <1>3 DEF AskingOf
<1>4. AskingOf = [t \in Threads |-> AskingOf[t]]
  BY DEF AskingOf
<1> HIDE DEF new
<1> QED
  BY <1>1, <1>2, <1>3, <1>4

\* Every step of the mutexes is one of LockSpec.
LEMMA LockStep ==
    ASSUME Both, Both', LockMove
    PROVE  Lock!Next
<1>T. /\ TypeOver(Labels) /\ \A l : l \notin FrameLabels /\ Here(l) => pc[running] = l
      /\ running \in Threads /\ it \in [Threads -> MutexIDs] /\ pc \in [Threads -> Labels]
      /\ asked \in [Threads -> MutexIDs \cup {NoMutex}]
      /\ locked \in [MutexIDs -> BOOLEAN] /\ owner \in [MutexIDs -> Threads]
      /\ Sound /\ Sound' /\ EqInv
  BY HereBase DEF Both, Sound, MTypeOK, TypeOver, MutexesTypeOK, Labels
<1>L. /\ FrameLabels \cap MutexLabels = {} /\ "user" \notin FrameLabels
      /\ {"test", "lock", "park", "mwait", "woken", "unlock", "wake", "hand", "handP", "erase"}
           \subseteq MutexLabels
  BY LabelFacts DEF MutexLabels, FrameLabels
<1>A. ASSUME NEW l, pc' = [pc EXCEPT ![running] = l], UNCHANGED lockVars,
             l \in {"test", "lock", "park", "mwait", "woken"}
               <=> pc[running] \in {"test", "lock", "park", "mwait", "woken"},
             \A t \in Threads \ {running} : asked'[t] = asked[t],
             Asking(running) => asked'[running] = asked[running]
      PROVE  Lock!Next
  <2>1. \A t \in Threads : (Asking(t)' <=> Asking(t)) /\ (Asking(t) => asked'[t] = asked[t])
    BY <1>A, <1>T DEF Asking
  <2> QED
    BY <1>A, <1>T, <2>1, UnseenStep DEF Lock!Next
<1>B. ASSUME NEW l, Advance(l) PROVE pc' = [pc EXCEPT ![running] = l] /\ UNCHANGED asked
  BY <1>B DEF Advance, Step, callVars
<1>C. ASSUME NEW l, Leave(l)
      PROVE  /\ pc' = [pc EXCEPT ![running] = l]
             /\ asked' = [asked EXCEPT ![running] = NoMutex]
  BY <1>C DEF Leave, Step
<1>1. CASE (Next /\ UNCHANGED mutexVars) \/ UNCHANGED allVars
  <2>1. [Next]_vars /\ UNCHANGED <<lockVars, asked>>
    BY <1>1 DEF allVars, mutexVars, callVars
  <2>2. \A t \in Threads : \/ pc'[t] = pc[t]
                           \/ (pc[t] \in BaseLabels /\ pc'[t] \in BaseLabels)
    BY <2>1, <1>T, LabelFacts, LabelStep DEF Sound
  <2>3. \A t \in Threads : Asking(t)' <=> Asking(t)
    BY <2>2 DEF Asking, BaseLabels
  <2> QED
    BY <2>1, <2>3, <1>T, UnseenStep DEF Lock!Next
<1>2. CASE \E m \in MutexIDs : Release(m)
  <2>1. PICK m \in MutexIDs : Release(m)
    BY <1>2
  <2>2. /\ pc[running] = "user" /\ pc' = [pc EXCEPT ![running] = "unlock"]
        /\ asked' = [asked EXCEPT ![running] = m] /\ UNCHANGED lockVars
    BY <2>1, <1>T, <1>L DEF Release, InUser, Step
  <2> QED
    BY <2>2, <1>T, <1>A DEF Asking
<1>3. CASE \E m \in MutexIDs, n \in Nat : Acquire(m, n)
  <2>1. PICK m \in MutexIDs, n \in Nat : Acquire(m, n)
    BY <1>3
  <2>2. /\ pc[running] = "user" /\ pc' = [pc EXCEPT ![running] = "test"]
        /\ asked' = [asked EXCEPT ![running] = m] /\ UNCHANGED <<running, lockVars>>
    BY <2>1, <1>T, <1>L DEF Acquire, InUser, Step, schedRest
  <2>3. ~Asking(running) /\ Asking(running)'
    BY <2>2, <1>T DEF Asking
  <2>4. AskingOf' = [AskingOf EXCEPT ![running] = m] /\ AskingOf[running] = NoMutex
    <3>1. \A t \in Threads \ {running} : (Asking(t)' <=> Asking(t)) /\ asked'[t] = asked[t]
      BY <2>2, <1>T DEF Asking
    <3>2. asked'[running] = m
      BY <2>2, <1>T
    <3>3. AskingOf' = [AskingOf EXCEPT ![running] = m]
      BY <2>2, <2>3, <3>1, <3>2, <1>T, AskingMoves
    <3> QED
      BY <2>3, <3>3, <1>T DEF AskingOf
  <2>5. HolderOf' = HolderOf
    BY <2>2 DEF HolderOf, lockVars
  <2>6. Lock!Ask(m)
    BY <2>2, <2>4, <2>5 DEF Lock!Ask, AskingOf, HolderOf
  <2> QED
    BY <2>6 DEF Lock!Next
<1>4. CASE VMMutexCreate
  <2>1. UNCHANGED <<pc, asked, lockVars>>
    BY <1>4 DEF VMMutexCreate, vars, callVars
  <2>2. \A t \in Threads : Asking(t)' <=> Asking(t)
    BY <2>1 DEF Asking
  <2> QED
    BY <2>1, <2>2, <1>T, UnseenStep DEF Lock!Next
<1>5. CASE TestLocked
  <2>1. pc[running] = "test" /\ UNCHANGED lockVars
    BY <1>5, <1>L, <1>T DEF TestLocked
  <2>2. PICK l \in {"park", "lock"} : Advance(l)
    BY <1>5 DEF TestLocked
  <2> QED
    BY <2>1, <2>2, <1>A, <1>B
<1>6. CASE TakeLock
  <2>1. /\ pc[running] = "lock" /\ Leave("user") /\ UNCHANGED running
        /\ owner' = [owner EXCEPT ![Mine] = running]
        /\ locked' = [locked EXCEPT ![Mine] = TRUE]
    BY <1>6, <1>L, <1>T DEF TakeLock, schedRest
  <2>2. asked[running] = Mine /\ Mine \in MutexIDs /\ ~locked[Mine]
    BY <2>1, <1>L, <1>T DEF EqInv, AskedIsMine, LockFound, InCall, Mine, Sound, ListOK, Iterators
  <2>3. AskingOf' = [AskingOf EXCEPT ![running] = NoMutex] /\ AskingOf[running] = Mine
    <3>1. \A t \in Threads \ {running} : (Asking(t)' <=> Asking(t)) /\ asked'[t] = asked[t]
      BY <2>1, <1>C, <1>T DEF Asking
    <3>2. Asking(running) /\ ~Asking(running)'
      BY <2>1, <1>C, <1>T DEF Asking
    <3>3. AskingOf' = [AskingOf EXCEPT ![running] = NoMutex]
      BY <2>1, <3>1, <3>2, <1>T, AskingMoves
    <3> QED
      BY <2>2, <3>2, <3>3, <1>T DEF AskingOf
  <2>4. HolderOf' = [HolderOf EXCEPT ![Mine] = running] /\ HolderOf[Mine] = NoThread
    BY <2>1, <2>2, <1>T DEF HolderOf
  <2>5. PICK m \in MutexIDs : m = Mine
    BY <2>2
  <2>6. Lock!Take(m)
    BY <2>1, <2>3, <2>4, <2>5 DEF Lock!Take, AskingOf, HolderOf
  <2> QED
    BY <2>6 DEF Lock!Next
<1>7. CASE Park \/ MutexSwitch \/ Retry
  <2>1. pc[running] \in {"park", "mwait", "woken"} /\ UNCHANGED lockVars
    BY <1>7, <1>L, <1>T DEF Park, MutexSwitch, Retry
  <2>2. PICK l \in {"mwait", "woken", "test"} : Advance(l)
    BY <1>7 DEF Park, MutexSwitch, Retry
  <2> QED
    BY <2>1, <2>2, <1>A, <1>B
<1>8. CASE GiveUp
  <2>1. pc[running] = "woken" /\ Leave("user") /\ UNCHANGED <<running, lockVars>>
    BY <1>8, <1>L, <1>T DEF GiveUp, schedRest
  <2>2. asked[running] \in MutexIDs
    BY <2>1, <1>L, <1>T DEF EqInv, AskedIsMine, InCall, Sound, ListOK, Iterators
  <2>3. AskingOf' = [AskingOf EXCEPT ![running] = NoMutex] /\ AskingOf[running] # NoMutex
    <3>1. \A t \in Threads \ {running} : (Asking(t)' <=> Asking(t)) /\ asked'[t] = asked[t]
      BY <2>1, <1>C, <1>T DEF Asking
    <3>2. Asking(running) /\ ~Asking(running)' /\ asked[running] # NoMutex
      BY <2>1, <2>2, <1>C, <1>T DEF Asking, MutexIDs, NoMutex
    <3>3. AskingOf' = [AskingOf EXCEPT ![running] = NoMutex]
      BY <2>1, <3>1, <3>2, <1>T, AskingMoves
    <3> QED
      BY <3>2, <3>3, <1>T DEF AskingOf
  <2>4. HolderOf' = HolderOf
    BY <2>1 DEF HolderOf, lockVars
  <2>5. Lock!Fail
    BY <2>1, <2>3, <2>4 DEF Lock!Fail, AskingOf, HolderOf
  <2> QED
    BY <2>5 DEF Lock!Next
<1>9. CASE Unlock
  <2>1. /\ pc[running] = "unlock" /\ Advance("wake") /\ UNCHANGED running
        /\ owner' = [owner EXCEPT ![Mine] = 0]
        /\ locked' = [locked EXCEPT ![Mine] = FALSE]
    BY <1>9, <1>L, <1>T DEF Unlock, schedRest
  <2>2. Mine \in MutexIDs /\ locked[Mine] /\ owner[Mine] = running
    BY <2>1, <1>L, <1>T DEF EqInv, OwnerUnlocks, InCall, Mine, Sound, ListOK, Iterators
  <2>3. AskingOf' = AskingOf
    <3>1. \A t \in Threads : (Asking(t)' <=> Asking(t)) /\ asked'[t] = asked[t]
      BY <2>1, <1>B, <1>T DEF Asking
    <3> QED
      BY <3>1 DEF AskingOf
  <2>4. HolderOf' = [HolderOf EXCEPT ![Mine] = NoThread] /\ HolderOf[Mine] = running
    BY <2>1, <2>2, <1>T DEF HolderOf
  <2>5. PICK m \in MutexIDs : m = Mine
    BY <2>2
  <2>6. Lock!Give(m)
    BY <2>1, <2>3, <2>4, <2>5 DEF Lock!Give, AskingOf, HolderOf
  <2> QED
    BY <2>6 DEF Lock!Next
<1>10. CASE LookForWaiter
  <2>1. pc[running] = "wake" /\ UNCHANGED lockVars
    BY <1>10, <1>L, <1>T DEF LookForWaiter
  <2>2. Leave("user") \/ Advance("hand") \/ Advance("handP")
    BY <1>10 DEF LookForWaiter
  <2> QED
    BY <2>1, <2>2, <1>A, <1>B, <1>C, <1>T DEF Asking
<1>11. CASE HandOver("hand", "user") \/ HandOver("handP", "prio")
  <2>1. PICK label \in {"hand", "handP"}, after \in {"user", "prio"} : HandOver(label, after)
    BY <1>11
  <2>2. pc[running] = label /\ UNCHANGED lockVars
    BY <2>1, <1>L, <1>T DEF HandOver
  <2>3. Leave(after)
    BY <2>1, <2>2, <1>T DEF HandOver, EqInv, WaiterSeen, Mine
  <2> QED
    BY <2>2, <2>3, <1>A, <1>C, <1>T DEF Asking
<1>12. CASE Erase
  <2>1. pc[running] = "erase"
    BY <1>12, <1>L, <1>T DEF Erase
  <2> QED
    BY <2>1, <1>T DEF EqInv, NothingErased
<1> QED
  BY <1>1, <1>2, <1>3, <1>4, <1>5, <1>6, <1>7, <1>8, <1>9, <1>10, <1>11, <1>12
  DEF LockMove, MutexCall

\* With user threads of one priority and no mutex deleted, the mutexes implement
\* LockSpec: a mutex is taken only while nobody holds it and only by the thread
\* that asked for it, and is given up only by its holder.
THEOREM EqualPrioritiesImplementLock ==
    ASSUME SamePriority, Deletable = {}
    PROVE  MSpec => LockRefined
<1>1. MInit => Lock!Init
  <2> SUFFICES ASSUME MInit PROVE Lock!Init
    OBVIOUS
  <2>1. running \in Threads
    BY ConstantFacts DEF MInit, Init
  <2>2. \A t \in Threads : ~Asking(t)
    BY DEF MInit, Init, Asking
  <2>3. \A m \in MutexIDs : ~locked[m]
    BY DEF MInit
  <2> QED
    BY <2>1, <2>2, <2>3 DEF Lock!Init
<1>2. Both /\ Both' /\ LockMove => [Lock!Next]_(Lock!vars)
  BY LockStep
<1> QED
  BY <1>1, <1>2, BothStep, PTL DEF MSpec, LockRefined, Lock!Spec

-----------------------------------------------------------------------------
(* Waiters are not stranded by a race.                                     *)

\* A waiter's iterator stays at the mutex it waits for, and a thread about to enter a
\* waitlist finds the mutex locked still.
WaitersHere == \A t \in Threads : waitingOn[t] # NoMutex => slots[it[t]] = waitingOn[t]
ParkLocked  == \A t \in Threads : pc[t] = "park" => locked[slots[it[t]]]
WaitInv == WaitersHere /\ ParkLocked

\* The running thread, inside a call, is in no waitlist but the one it is entering.
LEMMA RunnerWaitsNot ==
    ASSUME Both, pc[running] # "mwait"
    PROVE  running \in Threads /\ waitingOn[running] = NoMutex
BY DEF Both, Sound, WaitersOut, WaitersParked, MTypeOK, TypeOver

LEMMA WaitInvStep ==
    ASSUME Both, WaitInv, LockMove
    PROVE  WaitInv'
<1>T. /\ TypeOver(Labels) /\ \A l : l \notin FrameLabels /\ Here(l) => pc[running] = l
      /\ running \in Threads /\ it \in [Threads -> MutexIDs] /\ pc \in [Threads -> Labels]
      /\ locked \in [MutexIDs -> BOOLEAN]
      /\ waitingOn \in [Threads -> MutexIDs \cup {NoMutex}] /\ DeadIsDone
      /\ \A t \in Threads \ {running} : pc[t] # "park"
  BY HereBase DEF Both, Sound, MTypeOK, TypeOver, MutexesTypeOK, Labels, EqInv,
     WindowRuns, Window, MutexLabels
<1>L. /\ {"test", "lock", "park", "mwait", "woken", "unlock", "wake", "hand", "handP", "erase",
          "user"} \cap FrameLabels = {}
      /\ BaseLabels \subseteq Labels /\ "park" \notin BaseLabels
  BY DEF FrameLabels, Labels, BaseLabels
<1>1. CASE (Next /\ UNCHANGED mutexVars) \/ UNCHANGED allVars
  <2>1. [Next]_vars /\ UNCHANGED <<slots, locked, waitingOn, it>>
    BY <1>1 DEF allVars, mutexVars, listVars, lockVars, callVars
  <2>2. \A t \in Threads : pc'[t] = "park" => pc[t] = "park"
    BY <2>1, <1>T, <1>L, LabelStep
  <2> QED
    BY <2>1, <2>2 DEF WaitInv, WaitersHere, ParkLocked
\* Calls, and the steps inside one that leave the waitlists alone.
<1>2. ASSUME UNCHANGED <<slots, waitingOn>>, pc[running] # "mwait",
             NEW l, pc' = [pc EXCEPT ![running] = l],
             \A t \in Threads \ {running} : it'[t] = it[t],
             l = "park" => locked'[slots[it'[running]]]
      PROVE  WaitInv'
  BY <1>2, <1>T, RunnerWaitsNot DEF WaitInv, WaitersHere, ParkLocked
<1>3. CASE \E m \in MutexIDs : Release(m) \/ \E n \in Nat : Acquire(m, n)
  <2>1. /\ UNCHANGED <<slots, waitingOn>> /\ pc[running] = "user"
        /\ \E l \in {"test", "unlock"} : pc' = [pc EXCEPT ![running] = l]
        /\ \E i \in MutexIDs : it' = [it EXCEPT ![running] = i]
    BY <1>3, <1>T, <1>L DEF Release, Acquire, InUser, Step, listVars
  <2> QED
    BY <1>2, <1>T, <2>1
<1>4. CASE VMMutexCreate
  <2>1. /\ UNCHANGED <<waitingOn, pc>> /\ \A t \in Threads : ~InCall(t)
    BY <1>4 DEF VMMutexCreate, vars
  <2>2. \A t \in Threads : waitingOn[t] = NoMutex /\ pc[t] # "park"
    BY <2>1 DEF InCall, MutexLabels, Both, Sound, WaitersParked
  <2> QED
    BY <2>1, <2>2 DEF WaitInv, WaitersHere, ParkLocked
<1>5. CASE TestLocked \/ Retry
  <2>1. /\ UNCHANGED <<slots, waitingOn, it, locked>> /\ pc[running] \in {"test", "woken"}
        /\ \E l : /\ pc' = [pc EXCEPT ![running] = l]
                  /\ l = "park" => locked[Mine]
    BY <1>5, <1>T, <1>L DEF TestLocked, Retry, Advance, Step, callVars, listVars, lockVars
  <2> QED
    BY <1>2, <1>T, <2>1 DEF Mine
<1>6. CASE TakeLock \/ GiveUp \/ Unlock \/ LookForWaiter
  <2>1. /\ UNCHANGED <<slots, waitingOn>> /\ pc[running] \in {"lock", "woken", "unlock", "wake"}
        /\ \E l \in {"user", "wake", "hand", "handP"} : Leave(l) \/ Advance(l)
    BY <1>6, <1>T, <1>L DEF TakeLock, GiveUp, Unlock, LookForWaiter, listVars
  <2>2. /\ \E l \in {"user", "wake", "hand", "handP"} : pc' = [pc EXCEPT ![running] = l]
        /\ \A t \in Threads \ {running} : it'[t] = it[t]
    BY <2>1, <1>T DEF Leave, Advance, Step, callVars
  <2> QED
    BY <1>2, <2>1, <2>2
<1>7. CASE Park
  BY <1>7, <1>T DEF Park, Advance, Step, callVars, listVars, lockVars, Mine, WaitInv, WaitersHere,
     ParkLocked
<1>8. CASE MutexSwitch
  BY <1>8, <1>T DEF MutexSwitch, Advance, Step, callVars, listVars, lockVars, WaitInv, WaitersHere,
     ParkLocked
<1>9. CASE HandOver("hand", "user") \/ HandOver("handP", "prio")
  <2>1. pc[running] \in {"hand", "handP"} /\ running \in Threads
    BY <1>9, <1>T, <1>L DEF HandOver
  <2>2. waitingOn[running] = NoMutex
    BY <2>1, RunnerWaitsNot
  <2>3. /\ UNCHANGED <<slots, locked>>
        /\ \/ UNCHANGED <<pc, it, waitingOn>>
           \/ /\ \E t \in Threads : waitingOn' = [waitingOn EXCEPT ![t] = NoMutex]
              /\ \E l \in {"user", "prio"} : pc' = [pc EXCEPT ![running] = l]
              /\ \A t \in Threads \ {running} : it'[t] = it[t]
    BY <1>9, <1>T DEF HandOver, Leave, Step, callVars, listVars, lockVars, TopWaiters, Waiters
  <2> QED
    BY <2>2, <2>3, <1>T DEF WaitInv, WaitersHere, ParkLocked
<1>10. CASE Erase
  BY <1>10, <1>T, <1>L DEF Erase, Both, EqInv, NothingErased
<1> QED
  BY <1>1, <1>3, <1>4, <1>5, <1>6, <1>7, <1>8, <1>9, <1>10 DEF LockMove, MutexCall

\* Waiters are stranded only by a step that frees the mutex, brings one, or takes the
\* last thread out of the way.
LEMMA StrandedBefore ==
    ASSUME NEW m, locked'[m] = locked[m], \A t \in Threads : waitingOn'[t] = m => waitingOn[t] = m,
           \A t \in Threads : Underway(t, m) => Underway(t, m)', Stranded(m)'
    PROVE  Stranded(m)
BY DEF Stranded, Waiters

LEMMA StrandStep ==
    ASSUME Both, WaitInv, LockMove,
           NEW m \in MutexIDs, ~Stranded(m), Stranded(m)'
    PROVE  GiveUp
<1>T. /\ TypeOver(Labels) /\ \A l : l \notin FrameLabels /\ Here(l) => pc[running] = l
      /\ running \in Threads /\ it \in [Threads -> MutexIDs] /\ pc \in [Threads -> Labels]
      /\ locked \in [MutexIDs -> BOOLEAN] /\ owner \in [MutexIDs -> Threads]
      /\ waitingOn \in [Threads -> MutexIDs \cup {NoMutex}] /\ DeadIsDone
      /\ NoMutex \notin MutexIDs
  <2>1. NoMutex \notin MutexIDs
    BY MutexCount DEF NoMutex, MutexIDs
  <2> QED
    BY <2>1, HereBase DEF Both, Sound, MTypeOK, TypeOver, MutexesTypeOK, Labels,
       EqInv, WindowRuns, Window, MutexLabels
<1>L. /\ {"test", "lock", "park", "mwait", "woken", "unlock", "wake", "hand", "handP", "erase",
          "user"} \cap FrameLabels = {}
      /\ BaseLabels \subseteq Labels
      /\ {"test", "lock", "woken", "wake", "hand", "handP"} \cap BaseLabels = {}
      /\ "prio" \notin {"test", "lock", "woken", "wake", "hand", "handP"}
  BY DEF FrameLabels, Labels, BaseLabels
<1>S. ~(/\ locked'[m] = locked[m] /\ \A t \in Threads : waitingOn'[t] = m => waitingOn[t] = m
        /\ \A t \in Threads : Underway(t, m) => Underway(t, m)')
  BY StrandedBefore
<1>r. PICK r \in Threads : r = running
  BY <1>T
<1>M. \A l \in MutexLabels : pc[running] = l => Mine \in MutexIDs
  <2>1. ASSUME pc[running] \in MutexLabels PROVE Mine \in MutexIDs
    <3>1. InCall(r)
      BY <2>1, <1>r DEF InCall
    <3> QED
      BY <3>1, <1>r, <1>T DEF Both, Sound, ListOK, Iterators, Mine
  <2> QED
    BY <2>1
\* A step of the running thread's call that brings it to l, or out of the call.
<1>R. ASSUME UNCHANGED <<slots, waitingOn>>, NEW l, pc' = [pc EXCEPT ![running] = l],
             \A t \in Threads \ {running} : it'[t] = it[t],
             locked'[m] = locked[m], Underway(r, m) => Underway(r, m)'
      PROVE  FALSE
  <2>1. ASSUME NEW t \in Threads \ {running}, Underway(t, m) PROVE Underway(t, m)'
    BY <1>r, <1>R, <1>T, <2>1 DEF Underway
  <2> QED
    BY <1>r, <1>R, <1>S, <2>1
<1>1. CASE (Next /\ UNCHANGED mutexVars) \/ UNCHANGED allVars
  <2>1. [Next]_vars /\ UNCHANGED <<slots, locked, waitingOn, it>>
    BY <1>1 DEF allVars, mutexVars, listVars, lockVars, callVars
  <2>2. \A t \in Threads : Underway(t, m) => Underway(t, m)'
    <3>1. \A t \in Threads : pc'[t] = pc[t] \/ pc[t] \in BaseLabels
      BY <2>1, <1>T, <1>L, LabelStep
    <3> QED
      BY <1>r, <2>1, <3>1, <1>L DEF Underway
  <2> QED
    BY <1>S, <2>1, <2>2
<1>2. CASE \E x \in MutexIDs : Release(x) \/ \E n \in Nat : Acquire(x, n)
  <2>1. /\ UNCHANGED <<slots, waitingOn, locked>> /\ pc[running] = "user"
        /\ \E l \in {"test", "unlock"} : pc' = [pc EXCEPT ![running] = l]
        /\ \A t \in Threads \ {running} : it'[t] = it[t]
    BY <1>2, <1>T, <1>L DEF Release, Acquire, InUser, Step, listVars, lockVars
  <2> QED
    BY <1>r, <1>R, <2>1, <1>L DEF Underway
<1>3. CASE VMMutexCreate
  <2>1. /\ UNCHANGED waitingOn /\ \A t \in Threads : ~InCall(t)
    BY <1>3 DEF VMMutexCreate
  <2>2. \A t \in Threads : waitingOn[t] = NoMutex
    BY <2>1 DEF InCall, MutexLabels, Both, Sound, WaitersParked
  <2> QED
    BY <2>1, <2>2, <1>T DEF Stranded, Waiters
<1>4. CASE TestLocked
  <2>1. /\ UNCHANGED <<slots, waitingOn, it, locked>> /\ pc[running] = "test"
        /\ pc' = [pc EXCEPT ![running] = IF locked[Mine] THEN "park" ELSE "lock"]
    BY <1>4, <1>T, <1>L DEF TestLocked, Advance, Step, callVars, listVars, lockVars
  <2>2. Underway(r, m) => Underway(r, m)'
    <3>1. Underway(r, m) => m = Mine
      BY <1>r DEF Underway, Mine
    <3>2. m = Mine => ~locked[Mine]
      BY <2>1 DEF Stranded
    <3> QED
      BY <1>r, <2>1, <3>1, <3>2, <1>T DEF Underway
  <2> QED
    BY <1>r, <1>R, <2>1, <2>2
<1>5. CASE Retry
  <2>1. /\ UNCHANGED <<slots, waitingOn, it, locked>> /\ pc[running] = "woken"
        /\ pc' = [pc EXCEPT ![running] = "test"]
    BY <1>5, <1>T, <1>L DEF Retry, Advance, Step, callVars, listVars, lockVars
  <2> QED
    BY <1>r, <1>R, <2>1, <1>T DEF Underway
<1>6. CASE TakeLock
  <2>1. /\ UNCHANGED <<slots, waitingOn>> /\ pc[running] = "lock" /\ Leave("user")
        /\ locked' = [locked EXCEPT ![Mine] = TRUE]
    BY <1>6, <1>T, <1>L DEF TakeLock, listVars
  <2>2. m # Mine /\ locked'[m] = locked[m]
    BY <2>1, <1>T DEF Stranded
  <2>3. ~Underway(r, m)
    BY <1>r, <2>2 DEF Underway, Mine
  <2> QED
    BY <1>r, <1>R, <2>1, <2>2, <2>3, <1>T DEF Leave, Step
<1>7. CASE Park
  <2>1. /\ pc[running] = "park" /\ UNCHANGED <<slots, locked, it>>
        /\ waitingOn' = [waitingOn EXCEPT ![running] = Mine]
        /\ pc' = [pc EXCEPT ![running] = "mwait"]
    BY <1>7, <1>T, <1>L DEF Park, Advance, Step, callVars, listVars, lockVars
  <2>2. m # Mine
    BY <2>1, <1>T DEF WaitInv, ParkLocked, Stranded, Mine
  <2>3. \A t \in Threads : Underway(t, m) => t # running
    BY <1>r, <2>1 DEF Underway
  <2>4. \A t \in Threads : Underway(t, m) => Underway(t, m)'
    BY <1>r, <2>1, <2>3, <1>T DEF Underway
  <2> QED
    BY <1>S, <2>1, <2>2, <2>4, <1>T
<1>8. CASE MutexSwitch
  <2>1. /\ UNCHANGED <<slots, waitingOn, it, locked>> /\ pc[running] = "mwait"
        /\ pc' = [pc EXCEPT ![running] = "woken"]
    BY <1>8, <1>T, <1>L DEF MutexSwitch, Advance, Step, callVars, listVars, lockVars
  <2> QED
    BY <1>r, <1>R, <2>1 DEF Underway
<1>9. CASE Unlock
  <2>1. /\ UNCHANGED <<slots, waitingOn, it>> /\ pc[running] = "unlock"
        /\ pc' = [pc EXCEPT ![running] = "wake"]
        /\ locked' = [locked EXCEPT ![Mine] = FALSE]
    BY <1>9, <1>T, <1>L DEF Unlock, Advance, Step, callVars, listVars
  <2>2. m # Mine
    <3>1. waitingOn[running] = NoMutex
      BY <2>1, RunnerWaitsNot
    <3>2. m = Mine => Underway(r, m)'
      BY <2>1, <3>1, <1>r, <1>T DEF Underway, Mine
    <3> QED
      BY <3>2 DEF Stranded
  <2>3. locked'[m] = locked[m]
    BY <2>1, <2>2, <1>T
  <2> QED
    BY <1>r, <1>R, <2>1, <2>3 DEF Underway
<1>10. CASE LookForWaiter
  <2>1. /\ UNCHANGED <<slots, waitingOn, locked>> /\ pc[running] = "wake"
        /\ \A t \in Threads \ {running} : it'[t] = it[t]
    BY <1>10, <1>T, <1>L DEF LookForWaiter, Leave, Advance, callVars, listVars, lockVars
  <2>2. CASE Waiters(Mine) = {} /\ Leave("user")
    <3>1. m # Mine
      BY <2>1, <2>2 DEF Stranded, Waiters
    <3>2. ~Underway(r, m)
      BY <1>r, <3>1 DEF Underway, Mine
    <3> QED
      BY <1>r, <1>R, <2>1, <2>2, <3>2 DEF Leave, Step
  <2>3. CASE \E l \in {"hand", "handP"} : Advance(l)
    <3>1. UNCHANGED it /\ \E l \in {"hand", "handP"} : pc' = [pc EXCEPT ![running] = l]
      BY <2>3 DEF Advance, Step, callVars
    <3>2. Underway(r, m) => Underway(r, m)'
      BY <1>r, <2>1, <3>1, <1>T DEF Underway
    <3> QED
      BY <1>r, <1>R, <2>1, <3>1, <3>2
  <2> QED
    BY <1>10, <2>2, <2>3 DEF LookForWaiter
<1>11. CASE HandOver("hand", "user") \/ HandOver("handP", "prio")
  <2>1. pc[running] \in {"hand", "handP"}
    BY <1>11, <1>T, <1>L DEF HandOver
  <2>2. Waiters(Mine) # {}
    BY <2>1, <1>T DEF Both, EqInv, WaiterSeen, Mine
  <2>3. /\ UNCHANGED <<slots, locked>>
        /\ \E l \in {"user", "prio"} : Leave(l)
        /\ \E t \in Waiters(Mine) : waitingOn' = [waitingOn EXCEPT ![t] = NoMutex]
    BY <1>11, <2>2 DEF HandOver, listVars, lockVars, TopWaiters
  <2>4. PICK t \in Waiters(Mine) : waitingOn' = [waitingOn EXCEPT ![t] = NoMutex]
    BY <2>3
  <2>5. /\ t \in Threads /\ waitingOn[t] = Mine /\ Mine # NoMutex /\ t # running
        /\ pc[t] = "woken" /\ slots[it[t]] = Mine
    <3>1. t \in Threads /\ waitingOn[t] = Mine /\ Mine # NoMutex
      BY <2>1, <1>M, <1>T DEF Waiters, MutexLabels
    <3>2. pc[t] \in {"mwait", "woken"} /\ slots[it[t]] = Mine
      BY <3>1 DEF Both, Sound, WaitersParked, WaitInv, WaitersHere
    <3>3. t # running
      BY <2>1, <3>2
    <3>4. pc[t] # "mwait"
      BY <3>1, <3>3 DEF Both, EqInv, WindowRuns, Window, MutexLabels
    <3> QED
      BY <3>1, <3>2, <3>3, <3>4
  <2>6. /\ pc'[t] = pc[t] /\ it'[t] = it[t]
        /\ \A u \in Threads \ {running} : pc'[u] = pc[u] /\ it'[u] = it[u]
    BY <2>3, <2>5, <1>T DEF Leave, Step
  <2>7. m # Mine
    <3>1. PICK n : n = Mine
      OBVIOUS
    <3>2. Underway(t, n)'
      BY <2>3, <2>4, <2>5, <2>6, <3>1, <1>T DEF Underway
    <3> QED
      BY <2>5, <3>1, <3>2 DEF Stranded
  <2>8. \A u \in Threads : Underway(u, m) => u # running /\ u # t
    BY <2>5, <2>7, <1>T DEF Underway, Mine
  <2>9. \A u \in Threads : Underway(u, m) => Underway(u, m)'
    BY <2>3, <2>4, <2>6, <2>8, <1>T DEF Underway
  <2>10. \A u \in Threads : waitingOn'[u] = m => waitingOn[u] = m
    BY <2>4, <2>5, <1>T
  <2> QED
    BY <1>S, <2>3, <2>9, <2>10
<1>12. CASE Erase
  BY <1>12, <1>T, <1>L DEF Erase, Both, EqInv, NothingErased
<1> QED
  BY <1>1, <1>2, <1>3, <1>4, <1>5, <1>6, <1>7, <1>8, <1>9, <1>10, <1>11, <1>12
  DEF LockMove, MutexCall

\* With user threads of one priority and no mutex deleted, a thread that waits for a
\* mutex is left behind, with the mutex free and nobody on the way to it, by nothing but
\* a woken thread whose time is over: no interleaving of the unprotected test and look
\* with ticks loses a wake-up.
THEOREM OnlyGivingUpStrands ==
    ASSUME SamePriority, Deletable = {}
    PROVE  MSpec => StrandedOnlyByGivingUp
<1>1. MInit => WaitInv
  BY DEF MInit, Init, WaitInv, WaitersHere, ParkLocked
<1>2. Both /\ WaitInv /\ LockMove => WaitInv'
  BY WaitInvStep
<1>3. Both /\ WaitInv /\ LockMove
        => [\A m \in MutexIDs : ~Stranded(m) /\ Stranded(m)' => GiveUp]_allVars
  BY StrandStep
<1> QED
  BY <1>1, <1>2, <1>3, BothStep, PTL DEF MSpec, StrandedOnlyByGivingUp
=============================================================================
