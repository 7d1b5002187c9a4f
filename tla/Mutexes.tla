------------------------------- MODULE Mutexes -------------------------------
(***************************************************************************)
(* The mutexes of src/src/VirtualMachine.cpp on top of the scheduler.      *)
(*                                                                         *)
(* VMMutexAcquire tests `locked' outside the protected section that then   *)
(* sets it, and VMMutexRelease looks at the waiters outside the section    *)
(* that pops one: each label below is a point where a tick may switch to   *)
(* another thread.  Every call keeps an iterator into mutexList (`it')     *)
(* while it blocks; VMMutexDelete shifts the list under it.                *)
(***************************************************************************)
EXTENDS Scheduler

CONSTANTS
    NMutexes,    \* mutexes ever created
    Timeouts,    \* timeout arguments of VMMutexAcquire that are offered
    Deletable    \* mutexes the application deletes

MutexIDs == 0 .. NMutexes - 1
NoMutex == -1
Infinite == 0    \* VM_TIMEOUT_INFINITE

ASSUME MutexCount == NMutexes \in Nat \ {0}
ASSUME MutexArguments == Timeouts \subseteq Nat /\ Deletable \subseteq MutexIDs

VARIABLES
    slots,       \* the buffer of mutexList: slots[i] is the mutex at position i
    size,        \* mutexList.size()
    mutexCnt,    \* mutexCnt
    locked,      \* Mutex::locked
    owner,       \* Mutex::owner
    waitingOn,   \* waitingOn[t]: the mutex whose waitlist t is in
    it,          \* position each thread's iterator stands at during a call
    asked,       \* mutexID of the call
    timeout,     \* timeout of the call
    deadline     \* local timeup of VMMutexAcquire

callVars  == <<it, asked, timeout, deadline>>
listVars  == <<slots, size, mutexCnt>>
lockVars  == <<locked, owner>>
mutexVars == <<listVars, lockVars, waitingOn, callVars>>
allVars   == <<vars, mutexVars>>

MutexLabels == {"test", "lock", "park", "mwait", "woken",
                "unlock", "wake", "hand", "handP", "erase"}

\* Main creates the mutexes before it activates threads.
MInit ==
    /\ Init
    /\ slots = [m \in MutexIDs |-> NoMutex] /\ size = 0 /\ mutexCnt = 0
    /\ locked = [m \in MutexIDs |-> FALSE] /\ owner = [m \in MutexIDs |-> 0]
    /\ waitingOn = [t \in Threads |-> NoMutex]
    /\ it = [t \in Threads |-> 0] /\ asked = [t \in Threads |-> NoMutex]
    /\ timeout = [t \in Threads |-> 0] /\ deadline = [t \in Threads |-> 0]

-----------------------------------------------------------------------------
Mine == slots[it[running]]                \* the mutex *it names now
Listed(m, i) == i < size /\ slots[i] = m
InCall(t) == pc[t] \in MutexLabels
Waiters(m) == {t \in Threads : waitingOn[t] = m}
TopWaiters(m) == {t \in Waiters(m) : \A u \in Waiters(m) : Prio[u] <= Prio[t]}

\* A mutex call of the running thread moves on; its locals end with the call.
Advance(label) == Step(label) /\ UNCHANGED callVars
Leave(base) ==
    /\ Step(base)
    /\ it' = [it EXCEPT ![running] = 0]
    /\ asked' = [asked EXCEPT ![running] = NoMutex]
    /\ timeout' = [timeout EXCEPT ![running] = 0]
    /\ deadline' = [deadline EXCEPT ![running] = 0]

schedRest == <<vm, tick, running, leaving, state, sleepVars, tableVars>>

-----------------------------------------------------------------------------
(* VMMutexAcquire.                                                         *)

Acquire(m, n) ==
    /\ InUser
    /\ \E i \in MutexIDs :
         /\ Listed(m, i)
         /\ it' = [it EXCEPT ![running] = i]
    /\ asked' = [asked EXCEPT ![running] = m]
    /\ timeout' = [timeout EXCEPT ![running] = n]
    /\ deadline' = [deadline EXCEPT ![running] = (tick + n) % TickMod]
    /\ Step("test")
    /\ UNCHANGED <<schedRest, ready, listVars, lockVars, waitingOn>>

\* Fault: a thread that owns the mutex may take it again.
TestLockedReentrant ==
    /\ Here("test")
    /\ Advance(IF locked[Mine] /\ owner[Mine] # running THEN "park" ELSE "lock")
    /\ UNCHANGED <<schedRest, ready, listVars, lockVars, waitingOn>>

\* The test of `locked', with signals enabled.
TestLocked ==
    /\ Here("test")
    /\ Advance(IF locked[Mine] THEN "park" ELSE "lock")
    /\ UNCHANGED <<schedRest, ready, listVars, lockVars, waitingOn>>

TakeLock ==
    /\ Here("lock")
    /\ owner' = [owner EXCEPT ![Mine] = running]
    /\ locked' = [locked EXCEPT ![Mine] = TRUE]
    /\ Leave("user")
    /\ UNCHANGED <<schedRest, ready, listVars, waitingOn>>

Park ==
    /\ Here("park")
    /\ waitingOn' = [waitingOn EXCEPT ![running] = Mine]
    /\ Advance("mwait")
    /\ UNCHANGED <<schedRest, ready, listVars, lockVars>>

\* Fault: the blocked thread is reported ready.
MutexSwitchReady ==
    /\ Here("mwait")
    /\ \E next \in Tops(PopDead(ready)) :
         SwitchTo(next, Drop(PopDead(ready), next), [state EXCEPT ![running] = "READY"])
    /\ Advance("woken")
    /\ UNCHANGED <<vm, tick, sleepVars, tableVars, listVars, lockVars, waitingOn>>

\* threadSchedule(WAIT_FOR_MUTEX).
MutexSwitch ==
    /\ Here("mwait")
    /\ \E next \in Tops(PopDead(ready)) :
         SwitchTo(next, Drop(PopDead(ready), next),
                  [state EXCEPT ![running] = "WAITING"])
    /\ Advance("woken")
    /\ UNCHANGED <<vm, tick, sleepVars, tableVars, listVars, lockVars, waitingOn>>

\* Back from the switch: give up with VM_STATUS_FAILURE, or test again.
Expired == deadline[running] # Infinite /\ tick > deadline[running]

GiveUp ==
    /\ Here("woken") /\ Expired
    /\ Leave("user")
    /\ UNCHANGED <<schedRest, ready, listVars, lockVars, waitingOn>>

Retry ==
    /\ Here("woken") /\ ~Expired
    /\ Advance("test")
    /\ UNCHANGED <<schedRest, ready, listVars, lockVars, waitingOn>>

-----------------------------------------------------------------------------
(* VMMutexRelease.                                                         *)

\* Fault: any thread may release a locked mutex.
ReleaseByAnyone(m) ==
    /\ InUser
    /\ \E i \in MutexIDs :
         /\ Listed(m, i)
         /\ it' = [it EXCEPT ![running] = i]
    /\ locked[m]
    /\ asked' = [asked EXCEPT ![running] = m]
    /\ Step("unlock")
    /\ UNCHANGED <<schedRest, ready, listVars, lockVars, waitingOn, timeout, deadline>>

Release(m) ==
    /\ InUser
    /\ \E i \in MutexIDs :
         /\ Listed(m, i)
         /\ it' = [it EXCEPT ![running] = i]
    /\ owner[m] = running
    /\ asked' = [asked EXCEPT ![running] = m]
    /\ Step("unlock")
    /\ UNCHANGED <<schedRest, ready, listVars, lockVars, waitingOn, timeout, deadline>>

\* Fault: the owner is reset to -1 although ids are unsigned.
UnlockToMinusOne ==
    /\ Here("unlock")
    /\ locked' = [locked EXCEPT ![Mine] = FALSE]
    /\ owner' = [owner EXCEPT ![Mine] = -1]
    /\ Advance("wake")
    /\ UNCHANGED <<schedRest, ready, listVars, waitingOn>>

Unlock ==
    /\ Here("unlock")
    /\ locked' = [locked EXCEPT ![Mine] = FALSE]
    /\ owner' = [owner EXCEPT ![Mine] = 0]
    /\ Advance("wake")
    /\ UNCHANGED <<schedRest, ready, listVars, waitingOn>>

\* Fault: only a waiter that outranks the releasing thread is woken.
LookForHigherWaiter ==
    /\ Here("wake")
    /\ IF \E t \in Waiters(Mine) : Prio[t] > Prio[running]
       THEN Advance("handP") ELSE Leave("user")
    /\ UNCHANGED <<schedRest, ready, listVars, lockVars, waitingOn>>

\* Fault: the waitlist is not checked for being empty.
LookForNobody ==
    /\ Here("wake")
    /\ Advance(IF \E t \in Waiters(Mine) : Prio[t] > Prio[running]
               THEN "handP" ELSE "hand")
    /\ UNCHANGED <<schedRest, ready, listVars, lockVars, waitingOn>>

\* The look at the waiters, with signals enabled.
LookForWaiter ==
    /\ Here("wake")
    /\ \/ Waiters(Mine) = {} /\ Leave("user")
       \/ /\ Waiters(Mine) # {}
          /\ Advance(IF \E t \in Waiters(Mine) : Prio[t] > Prio[running]
                     THEN "handP" ELSE "hand")
    /\ UNCHANGED <<schedRest, ready, listVars, lockVars, waitingOn>>

\* Fault: the waiter is pushed to the ready heap and not popped.
HandOverKeepsWaiter(label, after) ==
    /\ Here(label)
    /\ \E t \in TopWaiters(Mine) : ready' = Add(ready, t)
    /\ Leave(after)
    /\ UNCHANGED <<schedRest, listVars, lockVars, waitingOn>>

\* The waiter is pushed to the ready heap; its state stays WAITING.
HandOver(label, after) ==
    /\ Here(label)
    /\ \/ \E t \in TopWaiters(Mine) :
            /\ ready' = Add(ready, t)
            /\ waitingOn' = [waitingOn EXCEPT ![t] = NoMutex]
            /\ Leave(after)
            /\ UNCHANGED vm
       \/ /\ Waiters(Mine) = {}     \* another thread popped it: top() of an empty heap
          /\ vm' = "wrecked"
          /\ UNCHANGED <<ready, waitingOn, pc, irq, callVars>>
    /\ UNCHANGED <<tick, running, leaving, state, sleepVars, tableVars, listVars, lockVars>>

-----------------------------------------------------------------------------
(* VMMutexCreate and VMMutexDelete, called by main as in src/apps: creation  *)
(* while no thread is inside a mutex call, since push_back may move the list *)

VMMutexCreate ==
    /\ InUser /\ running = Main
    /\ mutexCnt < NMutexes /\ \A t \in Threads : ~InCall(t)
    /\ slots' = [slots EXCEPT ![size] = mutexCnt]
    /\ size' = size + 1 /\ mutexCnt' = mutexCnt + 1
    /\ UNCHANGED <<vars, lockVars, waitingOn, callVars>>

VMMutexDelete(m) ==
    /\ InUser /\ running = Main
    /\ \E i \in MutexIDs :
         /\ Listed(m, i)
         /\ it' = [it EXCEPT ![running] = i]
    /\ ~locked[m]
    /\ asked' = [asked EXCEPT ![running] = m]
    /\ Step("erase")
    /\ UNCHANGED <<schedRest, ready, listVars, lockVars, waitingOn, timeout, deadline>>

\* vector::erase moves the later elements down; the last slot keeps its pointer.
Erase ==
    /\ Here("erase")
    /\ slots' = [i \in MutexIDs |-> IF it[running] <= i /\ i + 1 < size
                                  THEN slots[i + 1] ELSE slots[i]]
    /\ size' = size - 1
    /\ Leave("user")
    /\ UNCHANGED <<schedRest, ready, mutexCnt, lockVars, waitingOn>>

-----------------------------------------------------------------------------
MutexEntry ==
    \/ \E m \in MutexIDs : Release(m) \/ \E n \in Timeouts : Acquire(m, n)
    \/ VMMutexCreate
    \/ \E m \in Deletable : VMMutexDelete(m)

MutexCall ==
    \/ TestLocked \/ TakeLock \/ Park \/ MutexSwitch \/ GiveUp \/ Retry
    \/ Unlock \/ LookForWaiter \/ HandOver("hand", "user") \/ HandOver("handP", "prio")
    \/ Erase

MNext == (Next /\ UNCHANGED mutexVars) \/ MutexEntry \/ MutexCall

MSpec == MInit /\ [][MNext]_allVars

-----------------------------------------------------------------------------
(* Properties.                                                             *)

MutexesTypeOK ==
    /\ slots \in [MutexIDs -> MutexIDs \cup {NoMutex}]
    /\ size \in 0 .. NMutexes /\ mutexCnt \in 0 .. NMutexes
    /\ locked \in [MutexIDs -> BOOLEAN] /\ owner \in [MutexIDs -> Threads]
    /\ waitingOn \in [Threads -> MutexIDs \cup {NoMutex}]
    /\ it \in [Threads -> MutexIDs]
    /\ asked \in [Threads -> MutexIDs \cup {NoMutex}]
    /\ timeout \in [Threads -> Nat] /\ deadline \in [Threads -> Nat]

MTypeOK == TypeOver(BaseLabels \cup MutexLabels) /\ MutexesTypeOK

\* As OnePlace, with the waitlists: only a thread that has entered a waitlist
\* and has not yet switched away is in two places, and never in two waitlists.
MPlaces(t) == Places(t) + (IF waitingOn[t] # NoMutex THEN 1 ELSE 0)
MOnePlace ==
    \A t \in Threads :
        MPlaces(t) = IF ~Active(t) THEN 0 ELSE IF pc[t] = "mwait" THEN 2 ELSE 1

\* A thread that is about to set `locked' finds it clear.
LockIsFree == Here("lock") => ~locked[Mine]

\* A thread that saw waiters still finds one when it pops the waitlist.
HandFindsWaiter == Here("hand") \/ Here("handP") => Waiters(Mine) # {}

\* Waiters are stranded when the mutex is free and nobody who will take it or
\* wake one of them is under way.
Underway(t, m) ==
    /\ waitingOn[t] = NoMutex /\ slots[it[t]] = m
    /\ pc[t] \in {"test", "lock", "woken", "wake", "hand", "handP"}
Stranded(m) == ~locked[m] /\ Waiters(m) # {} /\ \A t \in Threads : ~Underway(t, m)

\* The only step that strands waiters is a woken thread giving up.
StrandedOnlyByGivingUp ==
    [][\A m \in MutexIDs : ~Stranded(m) /\ Stranded(m)' => GiveUp]_allVars

\* The mutexes keep the promise of LockSpec.
Asking(t) == pc[t] \in {"test", "lock", "park", "mwait", "woken"}
Lock == INSTANCE LockSpec WITH
    Thread <- Threads, Mutex <- MutexIDs, Nobody <- NoThread, Nothing <- NoMutex,
    cpu <- running,
    asking <- [t \in Threads |-> IF Asking(t) THEN asked[t] ELSE NoMutex],
    holder <- [m \in MutexIDs |-> IF locked[m] THEN owner[m] ELSE NoThread]
LockRefined == Lock!Spec

\* A thread blocked on a mutex is reported WAITING, whatever happened between
\* its entering the waitlist and its switching away.
BlockedIsWaiting ==
    \A t \in Threads : waitingOn[t] # NoMutex /\ pc[t] = "woken" => state[t] = "WAITING"
=============================================================================
