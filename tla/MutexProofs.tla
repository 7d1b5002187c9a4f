----------------------------- MODULE MutexProofs -----------------------------
(***************************************************************************)
(* Proofs about Mutexes: for all priorities, types and the place of every  *)
(* thread; for equal priorities, that the mutexes implement LockSpec.      *)
(***************************************************************************)
EXTENDS Mutexes, SchedulerProofs

Labels == BaseLabels \cup MutexLabels

\* The waitlists as places: a thread in one counts, a thread that has entered
\* one but not yet switched away is owed one place.
Elsewhere == [t \in Threads |->
    (IF waitingOn[t] # NoMutex THEN 1 ELSE 0) - (IF pc[t] = "mwait" THEN 1 ELSE 0)]

WaitersParked == \A t \in Threads : waitingOn[t] # NoMutex => pc[t] \in {"mwait", "woken"}

\* The slots below size hold mutexes, and so does the slot of every iterator.
SlotsFilled == size <= mutexCnt /\ \A i \in MutexIDs : i < size => slots[i] \in MutexIDs
Iterators   == \A t \in Threads : InCall(t) => slots[it[t]] \in MutexIDs
EraseOnce   == \A t \in Threads : pc[t] = "erase" => t = Main /\ size > 0

ListOK == SlotsFilled /\ Iterators /\ EraseOnce

MInv == MTypeOK /\ Accounts(Elsewhere) /\ WaitersParked /\ ListOK

\* Modules that extend Mutexes keep threads in places of their own again: more[t]
\* counts those, and no step of the mutexes changes it.
Beside(more) == [t \in Threads |-> Elsewhere[t] + more[t]]
MOver(more) == MTypeOK /\ Accounts(Beside(more)) /\ WaitersParked /\ ListOK

\* A step of such a module that the mutexes see; it may pass any limit.
MStep == [MNext]_allVars \/ \E m \in MutexIDs, n \in Nat : Acquire(m, n)

LEMMA LabelFacts ==
    /\ BaseLabels \subseteq Labels /\ MutexLabels \subseteq Labels
    /\ "ret" \notin Labels /\ "mwait" \notin BaseLabels
    /\ BaseLabels \cap MutexLabels = {} /\ FrameLabels \cap MutexLabels = {}
    /\ "none" \notin MutexLabels /\ "gone" \notin MutexLabels
BY DEF Labels, BaseLabels, MutexLabels, FrameLabels

LEMMA ElsewhereType ==
    /\ Elsewhere \in [Threads -> Int]
    /\ \A more \in [Threads -> Int] : Beside(more) \in [Threads -> Int]
    /\ Beside(Nowhere) = Elsewhere
BY DEF Elsewhere, Beside, Nowhere

LEMMA MInvOver == MInv <=> MOver(Nowhere)
BY ElsewhereType DEF MInv, MOver

LEMMA MInitInv == MInit => MInv
<1> SUFFICES ASSUME MInit PROVE MInv
  OBVIOUS
<1>1. TypeOver(Labels)
  BY InitType, LabelFacts DEF MInit, TypeOK, TypeOver
<1>2. MutexesTypeOK
  BY ConstantFacts, MutexCount DEF MInit, MutexesTypeOK, MutexIDs, NoMutex, Idle
<1>3. Accounts(Elsewhere)
  <2>1. Accounts(Nowhere)
    BY InitInv DEF MInit, Inv
  <2>2. \A t \in Threads : Elsewhere[t] = 0
    BY DEF MInit, Init, Elsewhere
  <2> QED
    BY <2>1, <2>2 DEF Accounts, Counted, Nowhere
<1>4. WaitersParked
  BY DEF MInit, WaitersParked
<1>5. ListOK
  BY MutexCount DEF MInit, Init, ListOK, SlotsFilled, Iterators, EraseOnce, InCall, MutexLabels, MutexIDs
<1> QED
  BY <1>1, <1>2, <1>3, <1>4, <1>5 DEF MInv, MTypeOK, Labels

-----------------------------------------------------------------------------
(* Facts about the thread that runs.                                       *)

\* A thread whose own code stands inside a call is not the idle thread, is in no
\* heap and, unless it has just entered a waitlist, in none of those.
LEMMA CallerIsOut ==
    ASSUME NEW more \in [Threads -> Int], MOver(more), more[running] >= 0,
           pc[running] \notin {"none", "gone"}
    PROVE  /\ running \in Threads
           /\ pc[running] # "user" => running # Idle
           /\ pc[running] # "mwait" => /\ ready[running] = 0 /\ running \notin asleep
                                        /\ waitingOn[running] = NoMutex
           /\ state[running] = "DEAD" => pc[running] = "dying"
<1>1. running \in Threads /\ ready[running] \in Nat
  BY DEF MOver, MTypeOK, TypeOver
<1>2. pc[running] # "user" => running # Idle
  BY DEF MOver, Accounts, IdleStays
<1>3. Places(running) + (Elsewhere[running] + more[running]) = 1
  BY <1>1 DEF MOver, Accounts, Counted, Active, Beside
<1>4. state[running] = "DEAD" => pc[running] = "dying"
  BY <1>1 DEF MOver, Accounts, DeadIsDone, Active
<1>5. CASE pc[running] = "mwait"
  BY <1>1, <1>2, <1>4, <1>5
<1>6. CASE pc[running] # "mwait"
  <2>1. Elsewhere[running] = IF waitingOn[running] # NoMutex THEN 1 ELSE 0
    BY <1>1, <1>6 DEF Elsewhere
  <2> QED
    BY <1>1, <1>2, <1>3, <1>4, <2>1 DEF Places
<1> QED
  BY <1>5, <1>6

\* Such a thread stands at the label that is looked at.
LEMMA StandsAt ==
    ASSUME NEW more \in [Threads -> Int], MOver(more), NEW l, l \notin FrameLabels, Here(l)
    PROVE  pc[running] = l /\ running \in Threads
<1>1. TypeOver(Labels)
  BY DEF MOver, MTypeOK, Labels
<1> QED
  BY <1>1, HereBase DEF TypeOver

-----------------------------------------------------------------------------
(* What a step inside a call keeps.                                        *)

\* A step of the running thread that only moves its label keeps the types.
LEMMA LocalType ==
    ASSUME TypeOver(Labels), NEW l \in Labels, Step(l), UNCHANGED <<schedRest, ready>>
    PROVE  TypeOver(Labels)'
BY DEF TypeOver, Step, schedRest, sleepVars, tableVars

\* The locals of a call keep their types.
LEMMA LocalsType ==
    ASSUME NEW more \in [Threads -> Int], MOver(more),
           NEW l, Advance(l) \/ Leave(l)
    PROVE  /\ it' \in [Threads -> MutexIDs]
           /\ asked' \in [Threads -> MutexIDs \cup {NoMutex}]
           /\ timeout' \in [Threads -> Nat] /\ deadline' \in [Threads -> Nat]
           /\ pc' = [pc EXCEPT ![running] = l]
           /\ UNCHANGED irq
           /\ \A t \in Threads : it'[t] = it[t] \/ (t = running /\ Leave(l))
<1>1. 0 \in MutexIDs
  BY MutexCount DEF MutexIDs
<1> QED
  BY <1>1 DEF MOver, MutexesTypeOK, Advance, Leave, Step, callVars, MTypeOK

\* It keeps the accounts, if it neither blocks nor ends the thread.
LEMMA LocalAccounts ==
    ASSUME NEW more \in [Threads -> Int], MOver(more),
           pc[running] \in MutexLabels => more[running] >= 0,
           UNCHANGED <<schedRest, ready, waitingOn>>,
           NEW l \in Labels \ {"none", "gone", "mwait"}, pc' = [pc EXCEPT ![running] = l],
           running # Idle, pc[running] \notin {"none", "gone", "dying", "mwait"}
    PROVE  Accounts(Beside(more))' /\ WaitersParked'
<1>1. running \in Threads /\ pc \in [Threads -> Labels]
  BY DEF MOver, MTypeOK, TypeOver, Labels
<1>2. Beside(more)' = Beside(more)
  BY <1>1 DEF Elsewhere, Beside
<1>3. PICK e : e = Beside(more)
  OBVIOUS
<1>4. Accounts(e)'
  BY <1>1, <1>3, SameAccounts DEF MOver, schedRest, sleepVars, MTypeOK, Labels
<1>5. Accounts(Beside(more))'
  BY <1>2, <1>3, <1>4 DEF Accounts, Counted
<1>6. WaitersParked'
  <2>1. waitingOn[running] = NoMutex
    BY <1>1, CallerIsOut DEF MOver, WaitersParked, MutexLabels
  <2> QED
    BY <1>1, <2>1 DEF MOver, WaitersParked
<1> QED
  BY <1>5, <1>6

\* It keeps the lists, if its iterator stays on a listed mutex.
LEMMA LocalList ==
    ASSUME NEW more \in [Threads -> Int], MOver(more),
           UNCHANGED listVars, NEW l \in Labels, pc' = [pc EXCEPT ![running] = l],
           \A t \in Threads \ {running} : it'[t] = it[t],
           l \in MutexLabels => slots[it'[running]] \in MutexIDs,
           l = "erase" => running = Main /\ size > 0
    PROVE  ListOK'
<1>1. running \in Threads /\ pc \in [Threads -> Labels]
  BY DEF MOver, MTypeOK, TypeOver, Labels
<1>2. SlotsFilled'
  BY DEF MOver, ListOK, SlotsFilled, listVars
<1>3. Iterators' /\ EraseOnce'
  BY <1>1 DEF MOver, ListOK, Iterators, EraseOnce, InCall, listVars
<1> QED
  BY <1>2, <1>3 DEF ListOK

-----------------------------------------------------------------------------
(* The steps.                                                              *)

\* A step inside a call, or out of it: it reads shared data, or writes the lock.
LEMMA InsideStep ==
    ASSUME NEW more \in [Threads -> Int], MOver(more), more[running] >= 0,
           UNCHANGED <<schedRest, ready, waitingOn, listVars>>,
           lockVars' \in [MutexIDs -> BOOLEAN] \X [MutexIDs -> Threads],
           NEW l \in Labels \ {"none", "gone", "mwait", "erase"},
           Advance(l) \/ (Leave(l) /\ l \notin MutexLabels),
           pc[running] \in MutexLabels \ {"mwait"}
    PROVE  MOver(more)'
<1>1. pc[running] \notin {"none", "gone", "user", "dying"}
  BY DEF MutexLabels
<1>2. running \in Threads /\ running # Idle
  BY <1>1, CallerIsOut
<1>3. /\ it' \in [Threads -> MutexIDs]
      /\ asked' \in [Threads -> MutexIDs \cup {NoMutex}]
      /\ timeout' \in [Threads -> Nat] /\ deadline' \in [Threads -> Nat]
      /\ pc' = [pc EXCEPT ![running] = l]
      /\ \A t \in Threads : it'[t] = it[t] \/ (t = running /\ Leave(l))
  BY LocalsType
<1>4. TypeOver(Labels)'
  BY LocalType DEF MOver, MTypeOK, Labels, Advance, Leave
<1>5. MutexesTypeOK'
  <2>1. locked' \in [MutexIDs -> BOOLEAN] /\ owner' \in [MutexIDs -> Threads]
    BY DEF lockVars
  <2>2. UNCHANGED <<slots, size, mutexCnt, waitingOn>>
    BY DEF listVars
  <2> QED
    BY <1>3, <2>1, <2>2 DEF MOver, MTypeOK, MutexesTypeOK
<1>6. Accounts(Beside(more))' /\ WaitersParked'
  BY <1>1, <1>2, <1>3, LocalAccounts
<1>7. ListOK'
  <2>1. slots[it[running]] \in MutexIDs
    BY <1>2 DEF MOver, ListOK, Iterators, InCall
  <2>2. l \in MutexLabels => slots[it'[running]] \in MutexIDs
    BY <1>2, <1>3, <2>1 DEF Advance, callVars
  <2> QED
    BY <1>3, <2>2, LocalList
<1> QED
  BY <1>4, <1>5, <1>6, <1>7 DEF MOver, MTypeOK, Labels

\* The first step of a call finds its mutex in the list.
LEMMA EntryStep ==
    ASSUME NEW more \in [Threads -> Int], MOver(more),
           UNCHANGED <<schedRest, ready, waitingOn, listVars, lockVars>>,
           NEW m \in MutexIDs, NEW i \in MutexIDs, Listed(m, i), InUser,
           it' = [it EXCEPT ![running] = i], asked' = [asked EXCEPT ![running] = m],
           NEW n \in Nat, timeout' = [timeout EXCEPT ![running] = n] \/ UNCHANGED timeout,
           NEW d \in Nat, deadline' = [deadline EXCEPT ![running] = d] \/ UNCHANGED deadline,
           NEW l \in MutexLabels \ {"mwait"}, Step(l), l = "erase" => running = Main
    PROVE  MOver(more)'
<1>1. pc[running] = "user" /\ running # Idle
  BY HereBase DEF InUser, FrameLabels, MOver, MTypeOK
<1>2. running \in Threads /\ l \in Labels \ {"none", "gone", "mwait"}
  BY LabelFacts DEF MOver, MTypeOK, TypeOver
<1>3. pc' = [pc EXCEPT ![running] = l]
  BY DEF Step
<1>4. TypeOver(Labels)'
  BY <1>2, LocalType DEF MOver, MTypeOK, Labels
<1>5. MutexesTypeOK'
  <2>0. MutexesTypeOK
    BY DEF MOver, MTypeOK
  <2>1. /\ it' \in [Threads -> MutexIDs]
        /\ asked' \in [Threads -> MutexIDs \cup {NoMutex}]
        /\ timeout' \in [Threads -> Nat] /\ deadline' \in [Threads -> Nat]
    <3>1. /\ it \in [Threads -> MutexIDs] /\ asked \in [Threads -> MutexIDs \cup {NoMutex}]
          /\ timeout \in [Threads -> Nat] /\ deadline \in [Threads -> Nat]
      BY <2>0 DEF MutexesTypeOK
    <3>2. it' \in [Threads -> MutexIDs] /\ asked' \in [Threads -> MutexIDs \cup {NoMutex}]
      BY <3>1
    <3>3. timeout' \in [Threads -> Nat]
      BY <3>1
    <3>4. deadline' \in [Threads -> Nat]
      BY <3>1
    <3> QED
      BY <3>2, <3>3, <3>4
  <2>2. UNCHANGED <<slots, size, mutexCnt, locked, owner, waitingOn>>
    BY DEF listVars, lockVars
  <2> QED
    BY <2>0, <2>1, <2>2 DEF MutexesTypeOK
<1>6. Accounts(Beside(more))' /\ WaitersParked'
  BY <1>1, <1>2, <1>3, LocalAccounts, LabelFacts DEF BaseLabels
<1>7. ListOK'
  <2>1. slots[it'[running]] \in MutexIDs /\ size > 0
    BY <1>2 DEF Listed, MOver, MTypeOK, MutexesTypeOK, MutexIDs
  <2> QED
    BY <1>2, <1>3, <2>1, LocalList DEF MOver, MTypeOK, MutexesTypeOK
<1> QED
  BY <1>4, <1>5, <1>6, <1>7 DEF MOver, MTypeOK, Labels

\* A step of the scheduler moves no thread into, out of or inside a mutex call.
LEMMA SchedStep ==
    ASSUME NEW more \in [Threads -> Int], MOver(more),
           Solvent(more), [Next]_vars, UNCHANGED mutexVars
    PROVE  MOver(more)'
<1>1. /\ BaseLabels \subseteq Labels /\ "ret" \notin Labels /\ TypeOver(Labels)
      /\ MutexLabels \cap BaseLabels = {} /\ DeadIsDone
  BY LabelFacts DEF MOver, MTypeOK, Labels, Accounts
<1>2. UNCHANGED <<slots, size, mutexCnt, locked, owner, waitingOn, it, asked, timeout, deadline>>
  BY DEF mutexVars, listVars, lockVars, callVars
<1>3. TypeOver(Labels)'
  BY <1>1, StepType
<1>4. MutexesTypeOK'
  BY <1>2 DEF MOver, MTypeOK, MutexesTypeOK
<1>5. \A t \in Threads : \/ pc'[t] = pc[t]
                         \/ (pc[t] \notin MutexLabels /\ pc'[t] \notin MutexLabels)
  BY <1>1, LabelStep
<1>6. Accounts(Beside(more))'
  <2>1. Beside(more)' = Beside(more)
    BY <1>2, <1>5 DEF Elsewhere, Beside, MutexLabels
  <2>2. PICK e : e = Beside(more)
    OBVIOUS
  <2>3. Solvent(e)
    <3>1. \A t \in Threads : pc[t] \in BaseLabels => e[t] >= more[t]
      BY <2>2, LabelFacts DEF Elsewhere, Beside
    <3>2. (\E x \in Threads : VMThreadTerminate(x)) => pc[running] = "user"
      BY <1>1, HereBase DEF VMThreadTerminate, InUser, FrameLabels
    <3>3. /\ running \in Threads /\ e \in [Threads -> Int]
          /\ {"nap", "dying", "user"} \subseteq BaseLabels
      BY <1>1, <2>2, ElsewhereType DEF TypeOver, BaseLabels
    <3> QED
      BY <3>1, <3>2, <3>3 DEF Solvent
  <2>4. Accounts(e)'
    BY <1>1, <2>2, <2>3, StepAccounts, ElsewhereType DEF MOver
  <2> QED
    BY <2>1, <2>2, <2>4 DEF Accounts, Counted
<1>7. WaitersParked'
  BY <1>2, <1>5 DEF MOver, WaitersParked, MutexLabels
<1>8. ListOK'
  BY <1>2, <1>5 DEF MOver, ListOK, SlotsFilled, Iterators, EraseOnce, InCall, MutexLabels
<1> QED
  BY <1>3, <1>4, <1>6, <1>7, <1>8 DEF MOver, MTypeOK, Labels

\* A thread enters a waitlist, and is owed a place from then on.
LEMMA ParkStep ==
    ASSUME NEW more \in [Threads -> Int], MOver(more), more[running] >= 0, Park
    PROVE  MOver(more)'
<1>1. pc[running] = "park" /\ running \in Threads
  BY StandsAt DEF Park, FrameLabels
<1>2. slots[it[running]] \in MutexIDs /\ running # Idle
  BY <1>1, CallerIsOut DEF MOver, ListOK, Iterators, InCall, MutexLabels
<1>3. /\ pc' = [pc EXCEPT ![running] = "mwait"]
      /\ waitingOn' = [waitingOn EXCEPT ![running] = Mine]
      /\ UNCHANGED <<schedRest, ready, listVars, lockVars, callVars>>
  BY DEF Park, Advance, Step
<1>4. "mwait" \in MutexLabels /\ "mwait" \in Labels
  BY DEF MutexLabels, Labels
<1>5. TypeOver(Labels)'
  BY <1>3, <1>4, LocalType DEF MOver, MTypeOK, Labels, Park, Advance
<1>6. MutexesTypeOK'
  BY <1>2, <1>3 DEF MOver, MTypeOK, MutexesTypeOK, listVars, lockVars, callVars, Mine
<1>7. Beside(more)' = Beside(more)
  <2>1. waitingOn[running] = NoMutex
    BY <1>1, CallerIsOut
  <2>2. pc \in [Threads -> Labels] /\ waitingOn \in [Threads -> MutexIDs \cup {NoMutex}]
    BY DEF MOver, MTypeOK, TypeOver, MutexesTypeOK, Labels
  <2>3. Mine # NoMutex
    BY <1>2 DEF Mine, MutexIDs, NoMutex
  <2>4. \A t \in Threads : Elsewhere'[t] = Elsewhere[t]
    <3> SUFFICES ASSUME NEW t \in Threads PROVE Elsewhere'[t] = Elsewhere[t]
      OBVIOUS
    <3>1. CASE t = running
      BY <1>1, <1>3, <2>1, <2>2, <2>3, <3>1 DEF Elsewhere
    <3>2. CASE t # running
      BY <1>3, <2>2, <3>2 DEF Elsewhere
    <3> QED
      BY <3>1, <3>2
  <2> QED
    BY <2>4 DEF Beside
<1>8. Accounts(Beside(more))'
  <2>1. PICK e : e = Beside(more)
    OBVIOUS
  <2>2. Accounts(e)'
    BY <1>1, <1>2, <1>3, <1>4, <2>1, SameAccounts DEF MOver, MTypeOK, Labels, schedRest, sleepVars
  <2> QED
    BY <1>7, <2>1, <2>2 DEF Accounts, Counted
<1>9. WaitersParked'
  BY <1>1, <1>3 DEF MOver, MTypeOK, TypeOver, WaitersParked, MutexesTypeOK
<1>10. ListOK'
  BY <1>2, <1>3, <1>4, LocalList DEF callVars
<1> QED
  BY <1>5, <1>6, <1>8, <1>9, <1>10 DEF MOver, MTypeOK, Labels

\* The waiting thread gives up the processor: the debt is paid.
LEMMA MutexSwitchStep ==
    ASSUME NEW more \in [Threads -> Int], MOver(more), more[running] >= 0, MutexSwitch
    PROVE  MOver(more)'
<1>0. pc[running] = "mwait" /\ running \in Threads
  BY StandsAt DEF MutexSwitch, FrameLabels
<1>1. pc[running] = "mwait" /\ running \in Threads /\ running # Idle
  BY <1>0, CallerIsOut
<1> DEFINE s == [state EXCEPT ![running] = "WAITING"]
<1>2. /\ ready' \in [Threads -> Nat]
      /\ running' \in Threads /\ ready[running'] > 0
      /\ state' = [s EXCEPT ![running'] = "RUNNING"]
      /\ \A t \in Threads : ready'[t] + (IF t = running' THEN 1 ELSE 0) = ready[t]
      /\ \A t \in Threads : ready'[t] > 0 => ready[t] > 0
  BY HandsOver DEF MutexSwitch, MOver, MTypeOK, Accounts
<1>3. /\ pc' = [pc EXCEPT ![running] = "woken"]
      /\ UNCHANGED <<vm, tick, asleep, timeup, threadList, threadCnt, irq,
                     listVars, lockVars, waitingOn, callVars>>
      /\ leaving' \in Threads \cup {NoThread}
  BY <1>1 DEF MutexSwitch, Advance, Step, sleepVars, tableVars, SwitchTo
<1>4. "woken" \in MutexLabels /\ "woken" \in Labels
  BY DEF MutexLabels, Labels
<1>5. /\ pc \in [Threads -> Labels] /\ ready \in [Threads -> Nat]
      /\ waitingOn \in [Threads -> MutexIDs \cup {NoMutex}]
      /\ state \in [Threads -> ThreadStates] /\ s \in [Threads -> ThreadStates]
  BY DEF MOver, MTypeOK, TypeOver, Labels, MutexesTypeOK, ThreadStates
<1>6. TypeOver(Labels)'
  <2>1. state' \in [Threads -> ThreadStates] /\ pc' \in [Threads -> Labels]
    BY <1>1, <1>2, <1>3, <1>4, <1>5 DEF ThreadStates
  <2> QED
    BY <1>2, <1>3, <2>1 DEF MOver, MTypeOK, TypeOver
<1>7. MutexesTypeOK'
  BY <1>3 DEF MOver, MTypeOK, MutexesTypeOK, listVars, lockVars, callVars
<1>8. \A t \in Threads : Active(t)' <=> Active(t)
  BY <1>1, <1>3, <1>5 DEF Active
<1>9. Counted(Beside(more))'
  <2>1. \A t \in Threads : Places(t)' + (IF t = running THEN 1 ELSE 0) = Places(t)
    BY <1>2, <1>3, <1>5 DEF Places
  <2>2. \A t \in Threads : Elsewhere'[t] = Elsewhere[t] + (IF t = running THEN 1 ELSE 0)
    BY <1>1, <1>3, <1>5 DEF Elsewhere
  <2>3. \A t \in Threads : Places(t)' \in Int /\ Places(t) \in Int /\ Elsewhere[t] \in Int
    BY <1>2, <1>5 DEF Places, Elsewhere
  <2> SUFFICES ASSUME NEW t \in Threads
               PROVE  Places(t)' + (Elsewhere'[t] + more[t]) = IF Active(t)' THEN 1 ELSE 0
    BY DEF Counted, Beside
  <2>4. Places(t) + (Elsewhere[t] + more[t]) = IF Active(t) THEN 1 ELSE 0
    BY DEF MOver, Accounts, Counted, Beside
  <2>5. Places(t)' + (Elsewhere'[t] + more[t]) = Places(t) + (Elsewhere[t] + more[t])
    <3>1. /\ Places(t)' + (IF t = running THEN 1 ELSE 0) = Places(t)
          /\ Elsewhere'[t] = Elsewhere[t] + (IF t = running THEN 1 ELSE 0)
          /\ Places(t)' \in Int /\ Places(t) \in Int /\ Elsewhere[t] \in Int /\ more[t] \in Int
      BY <2>1, <2>2, <2>3
    <3>2. \A p, q, e, m, d \in Int : p + d = q => p + ((e + d) + m) = q + (e + m)
      OBVIOUS
    <3> QED
      BY <3>1, <3>2
  <2> QED
    BY <1>8, <2>4, <2>5
<1>10. LiveQueues' /\ DeadIsDone'
  BY <1>1, <1>2, <1>3, <1>5, <1>8 DEF MOver, Accounts, LiveQueues, DeadIsDone
<1>11. IdleStays'
  BY <1>1, <1>3, <1>5, ConstantFacts DEF MOver, Accounts, IdleStays
<1>12. WaitersParked'
  BY <1>1, <1>3, <1>5 DEF MOver, WaitersParked
<1>13. ListOK'
  <2>1. slots[it[running]] \in MutexIDs
    BY <1>1 DEF MOver, ListOK, Iterators, InCall, MutexLabels
  <2> QED
    BY <1>3, <1>4, <2>1, LocalList DEF callVars
<1> QED
  BY <1>6, <1>7, <1>9, <1>10, <1>11, <1>12, <1>13 DEF MOver, MTypeOK, Labels, Accounts

\* A waiter moves from the waitlist to the ready heap.
LEMMA HandOverStep ==
    ASSUME NEW more \in [Threads -> Int], MOver(more), more[running] >= 0,
           NEW label \in {"hand", "handP"}, NEW after \in {"user", "prio"},
           HandOver(label, after)
    PROVE  MOver(more)'
<1>0. pc[running] = label /\ running \in Threads
  BY StandsAt DEF HandOver, FrameLabels
<1>1. pc[running] = label /\ running \in Threads /\ running # Idle
  BY <1>0, CallerIsOut
<1>2. CASE UNCHANGED <<ready, waitingOn, pc, irq, callVars>> /\ vm' = "wrecked"
  <2>1. /\ UNCHANGED <<running, state, asleep, tick, leaving, timeup, threadList, threadCnt>>
        /\ UNCHANGED <<slots, size, mutexCnt, locked, owner, it, asked, timeout, deadline>>
    BY <1>2 DEF HandOver, sleepVars, tableVars, listVars, lockVars, callVars
  <2>2. MTypeOK'
    BY <1>2, <2>1 DEF MOver, MTypeOK, TypeOver, MutexesTypeOK
  <2>3. Accounts(Beside(more))'
    BY <1>2, <2>1 DEF MOver, Accounts, Counted, LiveQueues, DeadIsDone, IdleStays, Places,
                      Active, Elsewhere, Beside
  <2>4. WaitersParked' /\ ListOK'
    BY <1>2, <2>1 DEF MOver, WaitersParked, ListOK, SlotsFilled, Iterators, EraseOnce, InCall
  <2> QED
    BY <2>2, <2>3, <2>4 DEF MOver
<1>3. CASE \E t \in TopWaiters(Mine) : /\ ready' = Add(ready, t)
                                      /\ waitingOn' = [waitingOn EXCEPT ![t] = NoMutex]
                                      /\ Leave(after) /\ UNCHANGED vm
  <2>1. PICK t \in TopWaiters(Mine) : /\ ready' = Add(ready, t)
                                     /\ waitingOn' = [waitingOn EXCEPT ![t] = NoMutex]
                                     /\ Leave(after) /\ UNCHANGED vm
    BY <1>3
  <2>2. /\ pc' = [pc EXCEPT ![running] = after]
        /\ ready' = [ready EXCEPT ![t] = @ + 1]
        /\ UNCHANGED <<tick, running, leaving, state, sleepVars, tableVars, irq,
                       listVars, lockVars>>
    BY <2>1 DEF HandOver, Leave, Step, Add
  <2>3. /\ pc \in [Threads -> Labels] /\ ready \in [Threads -> Nat]
        /\ waitingOn \in [Threads -> MutexIDs \cup {NoMutex}]
    BY DEF MOver, MTypeOK, TypeOver, Labels, MutexesTypeOK
  <2>4. slots[it[running]] \in MutexIDs
    BY <1>1 DEF MOver, ListOK, Iterators, InCall, MutexLabels
  <2>5. t \in Threads /\ waitingOn[t] \in MutexIDs /\ waitingOn[t] # NoMutex
    BY <2>4 DEF TopWaiters, Waiters, Mine, MutexIDs, NoMutex
  <2>6. pc[t] \in {"mwait", "woken"} /\ t # running /\ state[t] # "DEAD"
    <3>1. pc[t] \in {"mwait", "woken"}
      BY <2>5 DEF MOver, WaitersParked
    <3> QED
      BY <1>1, <2>5, <3>1 DEF MOver, Accounts, DeadIsDone, Active
  <2>7. after \in Labels \ {"none", "gone", "dying", "mwait", "woken"} /\ after \notin MutexLabels
    BY DEF Labels, BaseLabels, MutexLabels
  <2>8. TypeOver(Labels)'
    <3>1. pc' \in [Threads -> Labels]
      BY <2>2, <2>3, <2>7
    <3>2. ready' \in [Threads -> Nat]
      BY <2>1, <2>3, <2>5, HeapTypes
    <3>3. TypeOver(Labels)
      BY DEF MOver, MTypeOK, Labels
    <3> QED
      BY <2>1, <2>2, <3>1, <3>2, <3>3 DEF TypeOver, sleepVars, tableVars
  <2>9. MutexesTypeOK'
    <3>1. /\ it' \in [Threads -> MutexIDs]
          /\ asked' \in [Threads -> MutexIDs \cup {NoMutex}]
          /\ timeout' \in [Threads -> Nat] /\ deadline' \in [Threads -> Nat]
      BY <2>1, LocalsType
    <3> QED
      BY <2>1, <2>2, <2>3, <3>1 DEF MOver, MTypeOK, MutexesTypeOK, listVars, lockVars
  <2>10. \A u \in Threads : Active(u)' <=> Active(u)
    BY <1>1, <2>2, <2>3, <2>7 DEF Active
  <2>11. Counted(Beside(more))'
    <3>1. \A u \in Threads : Places(u)' = Places(u) + (IF u = t THEN 1 ELSE 0)
      BY <2>2, <2>3, <2>5 DEF Places, sleepVars
    <3>2. \A u \in Threads : Elsewhere'[u] = Elsewhere[u] - (IF u = t THEN 1 ELSE 0)
      <4>1. \A u \in Threads : pc'[u] = "mwait" <=> pc[u] = "mwait"
        BY <1>1, <2>2, <2>3, <2>7
      <4> QED
        BY <2>1, <2>3, <2>5, <4>1 DEF Elsewhere
    <3>3. \A u \in Threads : Places(u) \in Int /\ Elsewhere[u] \in Int
      BY <2>3 DEF Places, Elsewhere
    <3> QED
      BY <2>10, <3>1, <3>2, <3>3 DEF MOver, Accounts, Counted, Beside
  <2>12. LiveQueues'
    BY <2>2, <2>3, <2>6 DEF MOver, Accounts, LiveQueues, sleepVars
  <2>13. DeadIsDone' /\ IdleStays'
    BY <1>1, <2>2, <2>3, <2>10, ConstantFacts DEF MOver, Accounts, DeadIsDone, IdleStays, sleepVars
  <2>14. WaitersParked'
    <3>1. waitingOn[running] = NoMutex
      BY <1>1, CallerIsOut
    <3> QED
      BY <2>1, <2>2, <2>3, <3>1 DEF MOver, WaitersParked
  <2>15. ListOK'
    BY <2>1, <2>2, <2>7, LocalList, LocalsType
  <2> QED
    BY <2>8, <2>9, <2>11, <2>12, <2>13, <2>14, <2>15 DEF MOver, MTypeOK, Labels, Accounts
<1> QED
  BY <1>2, <1>3 DEF HandOver

\* A mutex is appended while no thread is inside a call.
LEMMA CreateStep ==
    ASSUME NEW more \in [Threads -> Int], MOver(more), VMMutexCreate
    PROVE  MOver(more)'
<1>1. /\ slots' = [slots EXCEPT ![size] = mutexCnt]
      /\ size' = size + 1 /\ mutexCnt' = mutexCnt + 1 /\ mutexCnt < NMutexes
      /\ UNCHANGED <<vars, lockVars, waitingOn, callVars>>
  BY DEF VMMutexCreate
<1>2. mutexCnt \in MutexIDs /\ size \in MutexIDs /\ size <= mutexCnt
  BY <1>1, MutexCount DEF MOver, MTypeOK, MutexesTypeOK, ListOK, SlotsFilled, MutexIDs
<1>3. MTypeOK'
  <2>1. /\ slots' \in [MutexIDs -> MutexIDs \cup {NoMutex}]
        /\ size' \in 0 .. NMutexes /\ mutexCnt' \in 0 .. NMutexes
    BY <1>1, <1>2, MutexCount DEF MOver, MTypeOK, MutexesTypeOK, MutexIDs
  <2> QED
    BY <1>1, <2>1 DEF MOver, MTypeOK, TypeOver, MutexesTypeOK, vars, lockVars, callVars
<1>4. Accounts(Beside(more))' /\ WaitersParked'
  BY <1>1 DEF MOver, Accounts, Counted, LiveQueues, DeadIsDone, IdleStays, Places, Active,
              Elsewhere, Beside, WaitersParked, vars
<1>5. ListOK'
  <2>1. SlotsFilled'
    BY <1>1, <1>2 DEF MOver, MTypeOK, MutexesTypeOK, ListOK, SlotsFilled, MutexIDs
  <2>2. Iterators'
    BY <1>1 DEF Iterators, VMMutexCreate, InCall, vars
  <2>3. EraseOnce'
    BY <1>1 DEF EraseOnce, VMMutexCreate, InCall, MutexLabels, vars
  <2> QED
    BY <2>1, <2>2, <2>3 DEF ListOK
<1> QED
  BY <1>3, <1>4, <1>5 DEF MOver

\* The list shifts: iterators may name another mutex, but always one.
LEMMA EraseStep ==
    ASSUME NEW more \in [Threads -> Int], MOver(more), more[running] >= 0, Erase
    PROVE  MOver(more)'
<1>0. pc[running] = "erase" /\ running \in Threads
  BY StandsAt DEF Erase, FrameLabels
<1>1. pc[running] = "erase" /\ running \in Threads /\ running # Idle
  BY <1>0, CallerIsOut
<1>2. running = Main /\ size > 0
  BY <1>1 DEF MOver, ListOK, EraseOnce
<1>3. /\ slots' = [i \in MutexIDs |-> IF it[running] <= i /\ i + 1 < size
                                   THEN slots[i + 1] ELSE slots[i]]
      /\ size' = size - 1 /\ Leave("user")
      /\ UNCHANGED <<schedRest, ready, mutexCnt, lockVars, waitingOn>>
  BY DEF Erase
<1>4. "user" \in Labels \ {"none", "gone", "mwait", "erase"} /\ "user" \notin MutexLabels
  BY DEF Labels, BaseLabels, MutexLabels
<1>5. TypeOver(Labels)'
  BY <1>3, <1>4, LocalType DEF MOver, MTypeOK, Labels, Leave
<1>6. /\ it' \in [Threads -> MutexIDs]
      /\ asked' \in [Threads -> MutexIDs \cup {NoMutex}]
      /\ timeout' \in [Threads -> Nat] /\ deadline' \in [Threads -> Nat]
      /\ pc' = [pc EXCEPT ![running] = "user"]
      /\ \A t \in Threads : it'[t] = it[t] \/ t = running
  BY <1>3, LocalsType
<1>7. /\ size \in 0 .. NMutexes /\ mutexCnt \in 0 .. NMutexes /\ NMutexes \in Nat
      /\ it \in [Threads -> MutexIDs] /\ pc \in [Threads -> Labels]
      /\ slots \in [MutexIDs -> MutexIDs \cup {NoMutex}]
      /\ size <= mutexCnt /\ \A i \in MutexIDs : i < size => slots[i] \in MutexIDs
  BY MutexCount DEF MOver, MTypeOK, TypeOver, MutexesTypeOK, ListOK, SlotsFilled, Labels
<1>8. \A i \in MutexIDs : i + 1 < size => i + 1 \in MutexIDs
  BY <1>7 DEF MutexIDs
<1>9. \A i \in MutexIDs : slots'[i] = slots[i] \/ slots'[i] \in MutexIDs
  BY <1>3, <1>7, <1>8
<1>10. MutexesTypeOK'
  <2>1. slots' \in [MutexIDs -> MutexIDs \cup {NoMutex}]
    BY <1>3, <1>7, <1>9
  <2>2. size' \in 0 .. NMutexes
    BY <1>2, <1>3, <1>7
  <2> QED
    BY <1>3, <1>6, <2>1, <2>2 DEF MOver, MTypeOK, MutexesTypeOK, lockVars
<1>11. Accounts(Beside(more))' /\ WaitersParked'
  BY <1>1, <1>3, <1>4, <1>6, LocalAccounts
<1>12. ListOK'
  <2>1. SlotsFilled'
    <3>1. \A i \in MutexIDs : i < size - 1 => slots'[i] \in MutexIDs
      BY <1>7, <1>9 DEF MutexIDs
    <3> QED
      BY <1>3, <1>7, <3>1 DEF SlotsFilled
  <2>2. Iterators'
    <3> SUFFICES ASSUME NEW t \in Threads, InCall(t)' PROVE slots'[it'[t]] \in MutexIDs
      BY DEF Iterators
    <3>1. t # running /\ InCall(t) /\ it'[t] = it[t]
      BY <1>4, <1>6, <1>7 DEF InCall
    <3>2. slots[it[t]] \in MutexIDs
      BY <3>1 DEF MOver, ListOK, Iterators
    <3> QED
      BY <1>7, <1>9, <3>1, <3>2
  <2>3. EraseOnce'
    BY <1>2, <1>4, <1>6, <1>7 DEF MOver, ListOK, EraseOnce
  <2> QED
    BY <2>1, <2>2, <2>3 DEF ListOK
<1> QED
  BY <1>5, <1>10, <1>11, <1>12 DEF MOver, MTypeOK, Labels

LEMMA MOverStep ==
    ASSUME NEW more \in [Threads -> Int], MOver(more), Solvent(more),
           pc[running] \in MutexLabels => more[running] >= 0,
           MStep
    PROVE  MOver(more)'
<1>T. /\ TypeOver(Labels) /\ \A l : l \notin FrameLabels /\ Here(l) => pc[running] = l
      /\ it \in [Threads -> MutexIDs] /\ running \in Threads
      /\ locked \in [MutexIDs -> BOOLEAN] /\ owner \in [MutexIDs -> Threads]
  BY HereBase DEF MOver, MTypeOK, TypeOver, MutexesTypeOK, Labels
<1>L. /\ {"test", "lock", "park", "woken", "unlock", "wake", "hand", "handP"}
           \subseteq Labels \ {"none", "gone", "mwait", "erase"}
      /\ "user" \in Labels \ {"none", "gone", "mwait", "erase"}
      /\ {"test", "lock", "park", "woken", "unlock", "wake", "hand", "handP", "erase"}
           \subseteq MutexLabels \ {"mwait"}
      /\ "user" \notin MutexLabels /\ FrameLabels \cap MutexLabels = {}
  BY LabelFacts DEF Labels, BaseLabels, MutexLabels
<1>1. CASE Next /\ UNCHANGED mutexVars
  BY <1>1, SchedStep
<1>2. CASE UNCHANGED allVars
  BY <1>2, SchedStep DEF allVars
<1>3. CASE \E m \in MutexIDs : Release(m)
  <2>1. PICK m \in MutexIDs : Release(m)
    BY <1>3
  <2>2. PICK i \in MutexIDs : Listed(m, i) /\ it' = [it EXCEPT ![running] = i]
    BY <2>1 DEF Release
  <2> QED
    BY <2>1, <2>2, <1>L, EntryStep DEF Release
<1>4. CASE \E m \in MutexIDs, n \in Nat : Acquire(m, n)
  <2>1. PICK m \in MutexIDs, n \in Nat : Acquire(m, n)
    BY <1>4
  <2>2. PICK i \in MutexIDs : Listed(m, i) /\ it' = [it EXCEPT ![running] = i]
    BY <2>1 DEF Acquire
  <2>3. n \in Nat /\ (tick + n) % TickMod \in Nat
    <3>1. tick \in Nat
      BY <1>T DEF TypeOver
    <3> QED
      BY <3>1, WrapIsNat
  <2> QED
    BY <2>1, <2>2, <2>3, <1>L, EntryStep DEF Acquire
<1>5. CASE \E m \in Deletable : VMMutexDelete(m)
  <2>1. PICK m \in MutexIDs : VMMutexDelete(m)
    BY <1>5, MutexArguments
  <2>2. PICK i \in MutexIDs : Listed(m, i) /\ it' = [it EXCEPT ![running] = i]
    BY <2>1 DEF VMMutexDelete
  <2> QED
    BY <2>1, <2>2, <1>L, EntryStep DEF VMMutexDelete
<1>6. CASE VMMutexCreate
  BY <1>6, CreateStep
<1>7. CASE TestLocked
  <2>1. pc[running] = "test"
    BY <1>7, <1>L, <1>T DEF TestLocked
  <2>2. PICK l \in {"park", "lock"} : Advance(l)
    BY <1>7 DEF TestLocked
  <2> QED
    BY <1>7, <2>1, <2>2, <1>L, <1>T, InsideStep DEF TestLocked, lockVars
<1>8. CASE TakeLock
  <2>1. pc[running] = "lock"
    BY <1>8, <1>L, <1>T DEF TakeLock
  <2>2. lockVars' \in [MutexIDs -> BOOLEAN] \X [MutexIDs -> Threads]
    BY <1>8, <1>T DEF TakeLock, lockVars
  <2> QED
    BY <1>8, <2>1, <2>2, <1>L, InsideStep DEF TakeLock
<1>9. CASE GiveUp
  <2>1. pc[running] = "woken"
    BY <1>9, <1>L, <1>T DEF GiveUp
  <2> QED
    BY <1>9, <2>1, <1>L, <1>T, InsideStep DEF GiveUp, lockVars
<1>10. CASE Retry
  <2>1. pc[running] = "woken"
    BY <1>10, <1>L, <1>T DEF Retry
  <2> QED
    BY <1>10, <2>1, <1>L, <1>T, InsideStep DEF Retry, lockVars
<1>11. CASE Unlock
  <2>1. pc[running] = "unlock"
    BY <1>11, <1>L, <1>T DEF Unlock
  <2>2. lockVars' \in [MutexIDs -> BOOLEAN] \X [MutexIDs -> Threads]
    BY <1>11, <1>T, ConstantFacts DEF Unlock, lockVars, Idle
  <2> QED
    BY <1>11, <2>1, <2>2, <1>L, InsideStep DEF Unlock
<1>12. CASE LookForWaiter
  <2>1. pc[running] = "wake"
    BY <1>12, <1>L, <1>T DEF LookForWaiter
  <2>2. Leave("user") \/ Advance("hand") \/ Advance("handP")
    BY <1>12 DEF LookForWaiter
  <2> QED
    BY <1>12, <2>1, <2>2, <1>L, <1>T, InsideStep DEF LookForWaiter, lockVars
<1>13. CASE HandOver("hand", "user") \/ HandOver("handP", "prio")
  <2>1. pc[running] \in {"hand", "handP"}
    BY <1>13, <1>L, <1>T DEF HandOver
  <2> QED
    BY <1>13, <2>1, <1>L, HandOverStep
<1>14. CASE Park
  BY <1>14, <1>L, <1>T, ParkStep DEF Park
<1>15. CASE MutexSwitch
  <2>1. pc[running] = "mwait" /\ "mwait" \in MutexLabels
    BY <1>15, <1>T DEF MutexSwitch, FrameLabels, MutexLabels
  <2> QED
    BY <1>15, <2>1, MutexSwitchStep
<1>16. CASE Erase
  BY <1>16, <1>L, <1>T, EraseStep DEF Erase
<1> QED
  BY <1>1, <1>2, <1>3, <1>4, <1>5, <1>6, <1>7, <1>8, <1>9, <1>10, <1>11, <1>12, <1>13,
     <1>14, <1>15, <1>16, MutexArguments DEF MStep, MNext, MutexEntry, MutexCall

LEMMA MInvStep == MInv /\ [MNext]_allVars => MInv'
<1> SUFFICES ASSUME MInv, [MNext]_allVars PROVE MInv'
  OBVIOUS
<1>1. MOver(Nowhere) /\ Nowhere \in [Threads -> Int] /\ running \in Threads
  BY MInvOver DEF Nowhere, MInv, MTypeOK, TypeOver
<1>2. Solvent(Nowhere) /\ Nowhere[running] >= 0
  BY <1>1 DEF Solvent, Nowhere
<1>3. MOver(Nowhere)'
  BY <1>1, <1>2, MOverStep DEF MStep
<1>4. (MInv <=> MOver(Nowhere))'
  BY MInvOver, PTL
<1> QED
  BY <1>3, <1>4

\* The variables of the mutexes always hold values of their types: waitlists and
\* iterators name mutexes, owners are threads.
THEOREM MutexTypeCorrect == MSpec => []MTypeOK
<1>1. MInv => MTypeOK
  BY DEF MInv
<1> QED
  BY MInitInv, MInvStep, <1>1, PTL DEF MSpec

\* However priorities, ticks and calls interleave, no thread is lost between a
\* waitlist and the ready heap, and none is in two waitlists or queued twice.
THEOREM WaitersConserved == MSpec => []MOnePlace
<1>1. MInv => MOnePlace
  <2> SUFFICES ASSUME MInv, NEW t \in Threads
               PROVE  MPlaces(t) = IF ~Active(t) THEN 0 ELSE IF pc[t] = "mwait" THEN 2 ELSE 1
    BY DEF MOnePlace
  <2>1. Places(t) + Elsewhere[t] = IF Active(t) THEN 1 ELSE 0
    BY DEF MInv, Accounts, Counted
  <2>2. Places(t) \in Int /\ (pc[t] = "mwait" => Active(t))
    BY DEF MInv, MTypeOK, TypeOver, Places, Active
  <2> QED
    BY <2>1, <2>2 DEF MPlaces, Elsewhere
<1> QED
  BY MInitInv, MInvStep, <1>1, PTL DEF MSpec

\* The idle thread is in the ready heap unless it runs.
LEMMA IdleReadyOver ==
    ASSUME NEW more \in [Threads -> Int], MOver(more), more[Idle] = 0
    PROVE  IdleStandsBy
<1> SUFFICES ASSUME running # Idle PROVE ready[Idle] = 1
  BY DEF IdleStandsBy
<1>1. pc[Idle] = "user" /\ Idle \notin asleep /\ Idle \in Threads
  BY ConstantFacts DEF MOver, Accounts, IdleStays
<1>2. waitingOn[Idle] = NoMutex /\ ready[Idle] \in Nat
  BY <1>1 DEF MOver, WaitersParked, MTypeOK, TypeOver
<1>3. Places(Idle) + (Elsewhere[Idle] + more[Idle]) = 1
  BY <1>1 DEF MOver, Accounts, Counted, Active, Beside
<1> QED
  BY <1>1, <1>2, <1>3 DEF Places, Elsewhere

\* Whatever threads wait for mutexes, the idle thread is ready while another one
\* runs: a thread that blocks always finds a thread to switch to.
THEOREM BlockingFindsThread == MSpec => []IdleStandsBy
<1>1. MInv => IdleStandsBy
  BY MInvOver, IdleReadyOver, ConstantFacts DEF Nowhere
<1> QED
  BY MInitInv, MInvStep, <1>1, PTL DEF MSpec

-----------------------------------------------------------------------------
(* The state of a thread that waits for a mutex.                           *)

\* A thread in a waitlist is in no heap, and does not run once it has switched away.
WaitersOut ==
    \A t \in Threads : waitingOn[t] # NoMutex =>
        /\ t = running => ready[t] = 0
        /\ pc[t] = "woken" => t # running /\ ready[t] = 0 /\ t \notin asleep

\* What MOver says of the mutexes, without the account of all the places.
Sound == MTypeOK /\ LiveQueues /\ DeadIsDone /\ IdleStays /\ WaitersParked /\ ListOK /\ WaitersOut

\* Threads in the waitlists must be in no further place.
LEMMA SoundOver ==
    ASSUME NEW more \in [Threads -> Int], MOver(more),
           \A t \in Threads : pc[t] \in {"mwait", "woken"} => more[t] = 0
    PROVE  Sound
<1>1. ASSUME NEW t \in Threads, waitingOn[t] # NoMutex
      PROVE  /\ t = running => ready[t] = 0
             /\ pc[t] = "woken" => t # running /\ ready[t] = 0 /\ t \notin asleep
  <2>1. pc[t] \in {"mwait", "woken"} /\ more[t] = 0 /\ ready[t] \in Nat
    BY <1>1 DEF MOver, WaitersParked, MTypeOK, TypeOver
  <2>2. Places(t) + Elsewhere[t] = 1
    BY <2>1, ElsewhereType DEF MOver, Accounts, Counted, Active, Beside
  <2>3. Elsewhere[t] = IF pc[t] = "woken" THEN 1 ELSE 0
    BY <1>1, <2>1 DEF Elsewhere
  <2> QED
    BY <2>1, <2>2, <2>3 DEF Places
<1> QED
  BY <1>1 DEF MOver, Accounts, Sound, WaitersOut

LEMMA MInvSound == MInv => Sound
BY MInvOver, SoundOver DEF Nowhere

\* The scheduler and the calls of others leave such a thread's state alone.
LEMMA WaiterUntouched ==
    ASSUME Sound, [Next]_vars, NEW t \in Threads, state[t] = "WAITING",
           t # running, ready[t] = 0, t \notin asleep
    PROVE  state'[t] = "WAITING"
<1>T. /\ running \in Threads /\ state \in [Threads -> ThreadStates] /\ asleep \subseteq Threads
      /\ TypeOver(Labels) /\ LiveQueues
  BY DEF Sound, MTypeOK, TypeOver, Labels
<1>1. ASSUME NEW s, \E next \in Tops(PopDead(ready)) :
                      SwitchTo(next, Drop(PopDead(ready), next), s),
             s \in [Threads -> ThreadStates], s[t] = state[t]
      PROVE  state'[t] = "WAITING"
  BY <1>1, <1>T, HandsOver
<1>2. CASE Preempt
  <2>1. CASE UNCHANGED state
    BY <2>1
  <2>2. CASE \E next \in Tops(ready) :
               state' = [[state EXCEPT ![running] = "READY"] EXCEPT ![next] = "RUNNING"]
    BY <2>2, <1>T DEF Tops
  <2> QED
    BY <1>2, <2>1, <2>2 DEF Preempt, SwitchTo
<1>3. CASE SleepSwitch
  <2>1. /\ [state EXCEPT ![running] = "READY"] \in [Threads -> ThreadStates]
        /\ [state EXCEPT ![running] = "READY"][t] = state[t]
    BY <1>T DEF ThreadStates
  <2> QED
    BY <1>1, <1>3, <2>1 DEF SleepSwitch
<1>4. CASE ExitSwitch
  BY <1>1, <1>4, <1>T DEF ExitSwitch
<1>5. CASE Alarm \/ AlarmInSwitch
  <2>1. UNCHANGED state \/ \E x \in Soonest : state' = [state EXCEPT ![x] = "READY"]
    BY <1>5 DEF Alarm, AlarmInSwitch, TickOnce, WakeOne
  <2> QED
    BY <2>1, <1>T DEF Soonest
<1>6. CASE ThreadCall
  <2>1. \/ UNCHANGED state
        \/ state' = [state EXCEPT ![running] = "DEAD"]
        \/ \E x \in Users : state[x] = "DEAD" /\ state' = [state EXCEPT ![x] = "READY"]
    BY <1>6 DEF ThreadCall, VMThreadCreate, VMThreadActivate, VMThreadDelete,
       VMThreadTerminate, VMThreadSleep, Yield, MainReturns
  <2> QED
    BY <2>1, <1>T
<1>7. CASE SchedCheck \/ ContextSwitch \/ AlarmReturn \/ Stopped \/ UNCHANGED vars
  BY <1>7 DEF SchedCheck, ContextSwitch, AlarmReturn, Stopped, vars
<1> QED
  BY <1>2, <1>3, <1>4, <1>5, <1>6, <1>7 DEF Next, Kernel, Timer

LEMMA WaitingStep == Sound /\ BlockedIsWaiting /\ MStep => BlockedIsWaiting'
<1> SUFFICES ASSUME Sound, BlockedIsWaiting, MStep,
                    NEW t \in Threads, waitingOn'[t] # NoMutex, pc'[t] = "woken"
             PROVE  state'[t] = "WAITING"
  BY DEF BlockedIsWaiting
<1>T. /\ running \in Threads /\ state \in [Threads -> ThreadStates]
      /\ waitingOn \in [Threads -> MutexIDs \cup {NoMutex}]
      /\ TypeOver(Labels) /\ LiveQueues /\ DeadIsDone
      /\ pc \in [Threads -> Labels] /\ "woken" \notin BaseLabels
  BY DEF Sound, MTypeOK, TypeOver, Labels, MutexesTypeOK, BaseLabels
<1>1. ASSUME waitingOn[t] # NoMutex, pc[t] = "woken"
      PROVE  state[t] = "WAITING" /\ t # running /\ ready[t] = 0 /\ t \notin asleep
  BY <1>1 DEF BlockedIsWaiting, Sound, WaitersOut
<1>2. CASE (Next /\ UNCHANGED mutexVars) \/ UNCHANGED allVars
  <2>1. [Next]_vars /\ UNCHANGED waitingOn
    BY <1>2 DEF allVars, mutexVars
  <2>2. pc[t] = "woken"
    BY <2>1, <1>T, LabelStep, LabelFacts
  <2> QED
    BY <1>1, <2>1, <2>2, WaiterUntouched
<1>3. CASE MutexSwitch
  <2> DEFINE s == [state EXCEPT ![running] = "WAITING"]
  <2>1. /\ running' \in Threads /\ ready[running'] > 0
        /\ state' = [s EXCEPT ![running'] = "RUNNING"]
    BY <1>3, <1>T, HandsOver DEF MutexSwitch
  <2>2. UNCHANGED waitingOn /\ pc' = [pc EXCEPT ![running] = "woken"]
    BY <1>3 DEF MutexSwitch, Advance, Step
  <2>3. s[t] = "WAITING"
    BY <1>1, <2>2, <1>T
  <2>4. ready[t] = 0
    BY <1>1, <2>2, <1>T DEF Sound, WaitersOut
  <2>5. s \in [Threads -> ThreadStates] /\ t # running'
    BY <2>1, <2>4, <1>T DEF ThreadStates
  <2> HIDE DEF s
  <2> QED
    BY <2>1, <2>3, <2>5
<1>4. CASE \/ MutexEntry \/ (MutexCall /\ ~MutexSwitch)
           \/ \E m \in MutexIDs, n \in Nat : Acquire(m, n)
  <2>1. UNCHANGED state
    BY <1>4 DEF MutexEntry, MutexCall, Release, Acquire, VMMutexCreate, VMMutexDelete, TestLocked,
       TakeLock, Park, GiveUp, Retry, Unlock, LookForWaiter, HandOver, Erase, schedRest, vars
  <2>2. UNCHANGED pc \/ \E l : l # "woken" /\ pc' = [pc EXCEPT ![running] = l]
    BY <1>4 DEF MutexEntry, MutexCall, Release, Acquire, VMMutexCreate, VMMutexDelete, TestLocked,
       TakeLock, Park, GiveUp, Retry, Unlock, LookForWaiter, HandOver, Erase, Advance, Leave,
       Step, vars
  <2>3. \/ UNCHANGED waitingOn
        \/ Park
        \/ \E x \in Threads : waitingOn' = [waitingOn EXCEPT ![x] = NoMutex]
    BY <1>4 DEF MutexEntry, MutexCall, Release, Acquire, VMMutexCreate, VMMutexDelete, TestLocked,
       TakeLock, GiveUp, Retry, Unlock, LookForWaiter, HandOver, Erase, TopWaiters, Waiters
  <2>4. pc[t] = "woken" /\ waitingOn[t] # NoMutex
    <3>1. CASE Park
      BY <3>1, <1>T DEF Park, Advance, Step
    <3> QED
      BY <2>2, <2>3, <3>1, <1>T
  <2> QED
    BY <1>1, <2>1, <2>4
<1> QED
  BY <1>2, <1>3, <1>4 DEF MStep, MNext

\* Whatever happens between a thread's entering a waitlist and its switching away (it may
\* be preempted, or popped and pushed to the ready heap), and whoever runs while it
\* waits, VMThreadState reports a thread that is blocked on a mutex WAITING.
THEOREM BlockedReportedWaiting == MSpec => []BlockedIsWaiting
<1>1. MInit => BlockedIsWaiting
  BY DEF MInit, BlockedIsWaiting
<1>2. MInv /\ BlockedIsWaiting /\ [MNext]_allVars => BlockedIsWaiting'
  BY MInvSound, WaitingStep DEF MStep
<1> QED
  BY <1>1, <1>2, MInitInv, MInvStep, PTL DEF MSpec
=============================================================================
