------------------------------- MODULE FileIO -------------------------------
(***************************************************************************)
(* Blocking file requests of src/src/VirtualMachine.cpp over the scheduler *)
(* and the mutexes, with the parent's half of src/src/Machine.cpp: the map *)
(* of callbacks, the reply queue, SIGUSR2 and the signal mask.             *)
(*                                                                         *)
(* A file call is code of a thread that the scheduler sees at "user";      *)
(* `fpc' is where that call stands.  The processor has one signal mask and *)
(* a context switch (setjmp, longjmp) does not change it: only the return  *)
(* from a handler restores the mask its frame saved, and a protected       *)
(* section restores what it found.  Both handlers run with SIGUSR2         *)
(* blocked, so a thread switched to from inside a handler inherits a mask  *)
(* that keeps answers out.                                                 *)
(***************************************************************************)
EXTENDS Mutexes, FiniteSets

CONSTANTS
    NChunks,     \* chunks of 512 bytes in the shared memory
    ReadLengths, WriteLengths,   \* lengths that are offered, in chunks
    Results,     \* what the child may answer
    StrayIDs,    \* ids of no thread that programs pass to VMThreadActivate
    MaxAlarms    \* bound: alarm handlers on one stack, file handlers not counted

ASSUME ChunkCount == NChunks \in Nat \ {0}
ASSUME FileArguments == /\ ReadLengths \cup WriteLengths \subseteq Nat
                        /\ Results \subseteq Int
                        /\ MaxAlarms \in Nat

Chunks   == 1 .. NChunks
NoChunk  == 0
Requests == Threads      \* request ids: as many as can be outstanding at once
NoRequest == -1
SharedMemMutex == 0      \* the mutex VMStart creates first

Message == [id : Requests, result : Results]
NoMessage == [id |-> NoRequest, result |-> 0]

VARIABLES
    mask,        \* signals held back: "open" none, "answers" SIGUSR2, "all"
    sigState,    \* the one global the sections of VirtualMachine.cpp save it in
    saved,       \* per handler frame of irq: its kind, the mask it restores and
                 \* the message it is handling
    fpc,         \* where a thread's file call stands
    op,          \* which call it is
    left,        \* chunks the call has still to transfer
    chunk,       \* mem of the call
    pool,        \* sharedMem->memChunks, its back first
    req,         \* id of the call's request
    fileResult,  \* Thread::fileResult
    callbacks,   \* MachinePendingCallbacks
    inbox,       \* requests the child has not answered
    replies,     \* the reply queue
    signalling,  \* the child is between msgsnd and kill
    usr2         \* SIGUSR2 is pending

maskVars  == <<mask, sigState, saved>>
fcallVars == <<fpc, op, left, chunk, pool, req>>
replyVars == <<inbox, replies, signalling, usr2>>
fileVars  == <<maskVars, fcallVars, fileResult, callbacks, replyVars>>
fvars     == <<allVars, fileVars>>

Masks == {"open", "answers", "all"}
Kinds == {"alarm", "reply", "map", "call"}
FileLabels == {"app", "take", "pop", "send", "wait", "back", "first", "unlock"}
Ops == {"none", "one", "read", "write"}

\* VMStart at line 496: main is about to send its first request, FileOpen of
\* the image; the memory mutex exists and the idle thread has not run yet.
FInit ==
    /\ Init
    /\ slots = [m \in MutexIDs |-> IF m = 0 THEN SharedMemMutex ELSE NoMutex]
    /\ size = 1 /\ mutexCnt = 1
    /\ locked = [m \in MutexIDs |-> FALSE] /\ owner = [m \in MutexIDs |-> 0]
    /\ waitingOn = [t \in Threads |-> NoMutex]
    /\ it = [t \in Threads |-> 0] /\ asked = [t \in Threads |-> NoMutex]
    /\ timeout = [t \in Threads |-> 0] /\ deadline = [t \in Threads |-> 0]
    /\ mask = "open" /\ sigState = "open" /\ saved = [t \in Threads |-> <<>>]
    /\ fpc = [t \in Threads |-> IF t = Main THEN "send" ELSE "app"]
    /\ op = [t \in Threads |-> IF t = Main THEN "one" ELSE "none"]
    /\ left = [t \in Threads |-> 0]
    /\ chunk = [t \in Threads |-> NoChunk]
    /\ pool = [i \in 1 .. NChunks |-> i]
    /\ req = [t \in Threads |-> NoRequest] /\ fileResult = [t \in Threads |-> 0]
    /\ callbacks = [i \in Requests |-> NoThread]
    /\ inbox = {} /\ replies = <<>> /\ signalling = FALSE /\ usr2 = FALSE

-----------------------------------------------------------------------------
(* Where a file call stands.                                               *)

FHere(label) == InUser /\ fpc[running] = label
GoTo(label) == fpc' = [fpc EXCEPT ![running] = label]
Begin(o, n, label) ==
    /\ FHere("app")
    /\ op' = [op EXCEPT ![running] = o]
    /\ left' = [left EXCEPT ![running] = n]
    /\ GoTo(label)
\* The call returns; its locals end, and fileResult is not read before the
\* callback sets it again.
End ==
    /\ GoTo("app")
    /\ op' = [op EXCEPT ![running] = "none"]
    /\ left' = [left EXCEPT ![running] = 0]
    /\ chunk' = [chunk EXCEPT ![running] = NoChunk]
    /\ fileResult' = [fileResult EXCEPT ![running] = 0]

\* A handler in the middle of its edit of the map of callbacks.
MapInUse == \E t \in Threads : \E i \in DOMAIN saved[t] : saved[t][i].kind = "map"

\* MachineFileOpen, Close, Read, Write and Seek: a new entry in the map and a
\* message in the queue.
SendRequest ==
    /\ ~MapInUse
    /\ \E i \in Requests :
         /\ callbacks[i] = NoThread /\ \A j \in Requests : j < i => callbacks[j] # NoThread
         /\ req' = [req EXCEPT ![running] = i]
         /\ callbacks' = [callbacks EXCEPT ![i] = running]
         /\ inbox' = inbox \cup {i}

schedButVm == <<tick, running, leaving, state, ready, sleepVars, pc, irq, tableVars>>

-----------------------------------------------------------------------------
(* FileOpen, FileClose, FileSeek, FileRead and FileWrite.                  *)

FileOne ==                  \* open, close, seek
    /\ Begin("one", 0, "send")
    /\ UNCHANGED <<allVars, maskVars, chunk, pool, req, fileResult, callbacks, replyVars>>

FileRead(n) ==
    /\ n > 0                \* for length 0 only the last result is looked at
    /\ Begin("read", n, "take")
    /\ UNCHANGED <<allVars, maskVars, chunk, pool, req, fileResult, callbacks, replyVars>>

\* Bound: a pool with chunks in it twice grows with every write that found it
\* empty; no write is begun once it has more entries than there are chunks.
PoolBound == Len(pool) <= NChunks

\* The acquire has no time limit, and its result is not looked at.
FileWrite(n) ==
    /\ PoolBound
    /\ Begin("write", n, "first")
    /\ Acquire(SharedMemMutex, Infinite)
    /\ UNCHANGED <<maskVars, chunk, pool, req, fileResult, callbacks, replyVars>>

\* mem = memChunks.back(), with signals enabled.  FileRead does not test for
\* an empty pool; FileWrite then goes on with the chunk it had before.
TakeChunk ==
    /\ FHere("take")
    /\ \/ /\ pool # <<>>
          /\ chunk' = [chunk EXCEPT ![running] = Head(pool)]
          /\ GoTo("pop") /\ UNCHANGED vm
       \/ /\ pool = <<>> /\ op[running] = "write"
          /\ GoTo("send") /\ UNCHANGED <<chunk, vm>>
       \/ /\ pool = <<>> /\ op[running] = "read"
          /\ vm' = "wrecked" /\ UNCHANGED <<fpc, chunk>>
    /\ UNCHANGED <<schedButVm, mutexVars, maskVars, op, left, pool, req, fileResult,
                   callbacks, replyVars>>

\* Fault: memChunks.pop_back() is forgotten.
PoolKept == pool

PoolPopped == Tail(pool)

PopChunk ==
    /\ FHere("pop")
    /\ IF pool # <<>> THEN pool' = PoolPopped /\ GoTo("send") /\ UNCHANGED vm
                      ELSE vm' = "wrecked" /\ UNCHANGED <<pool, fpc>>
    /\ UNCHANGED <<schedButVm, mutexVars, maskVars, op, left, chunk, req, fileResult,
                   callbacks, replyVars>>

\* The request is sent; FileWrite then restores the mask from sigState, which
\* after its first chunk holds what the section before saved, of any thread.
Send ==
    /\ FHere("send")
    /\ SendRequest
    /\ GoTo("wait")
    /\ mask' = IF op[running] = "write" THEN sigState ELSE mask
    /\ UNCHANGED <<allVars, sigState, saved, op, left, chunk, pool, fileResult, replies,
                   signalling, usr2>>

\* FileWrite's first chunk is taken and sent with signals suspended.  A write of
\* nothing suspends them and does not resume them.
FirstChunk ==
    /\ FHere("first")
    /\ sigState' = mask
    /\ \/ /\ left[running] = 0
          /\ mask' = "all" /\ GoTo("unlock")
          /\ UNCHANGED <<vm, chunk, pool, req, callbacks, inbox>>
       \/ /\ left[running] > 0 /\ pool # <<>>
          /\ chunk' = [chunk EXCEPT ![running] = Head(pool)]
          /\ pool' = PoolPopped
          /\ SendRequest
          /\ GoTo("wait") /\ UNCHANGED <<vm, mask>>
       \/ /\ left[running] > 0 /\ pool = <<>>      \* memcpy to NULL
          /\ vm' = "wrecked"
          /\ UNCHANGED <<fpc, mask, chunk, pool, req, callbacks, inbox>>
    /\ UNCHANGED <<schedButVm, mutexVars, saved, op, left, fileResult, replies,
                   signalling, usr2>>

\* An entry is added while a handler that was interrupted is editing the map.
MapCorrupted ==
    /\ FHere("send") \/ (FHere("first") /\ left[running] > 0)
    /\ MapInUse
    /\ vm' = "wrecked"
    /\ UNCHANGED <<schedButVm, mutexVars, fileVars>>

\* Fault: the blocked thread is pushed back as by WAIT_FOR_PRIO.
BlockedInHeap(next) == Add(Drop(PopDead(ready), next), running)

BlockedOut(next) == Drop(PopDead(ready), next)

\* threadSchedule(WAIT_FOR_FILE).
FileSwitch ==
    /\ FHere("wait")
    /\ \E next \in Tops(PopDead(ready)) :
         SwitchTo(next, BlockedOut(next), [state EXCEPT ![running] = "WAITING"])
    /\ sigState' = mask
    /\ GoTo("back")
    /\ UNCHANGED <<vm, tick, sleepVars, pc, irq, tableVars, mutexVars, mask, saved, op,
                   left, chunk, pool, req, fileResult, callbacks, replyVars>>

\* Fault: the loop tests i != 0, which a last chunk of less than 512 bytes skips.
LoopPastEnd == TRUE

MoreChunks == left[running] > 1

\* After the switch back: the chunk is returned to the pool and the next one, if
\* any, transferred.
Back ==
    /\ FHere("back")
    /\ req' = [req EXCEPT ![running] = NoRequest]
    /\ \/ /\ op[running] = "one" /\ End /\ UNCHANGED pool
       \/ /\ op[running] # "one"
          /\ pool' = <<chunk[running]>> \o pool
          /\ \/ /\ MoreChunks
                /\ left' = [left EXCEPT ![running] = @ - 1]
                /\ GoTo("take") /\ UNCHANGED <<op, chunk, fileResult>>
             \/ ~MoreChunks /\ op[running] = "read" /\ End
             \/ /\ ~MoreChunks /\ op[running] = "write"
                /\ GoTo("unlock") /\ UNCHANGED <<op, left, chunk, fileResult>>
    /\ UNCHANGED <<allVars, maskVars, callbacks, replyVars>>

\* VMMutexRelease, which refuses if the acquire had failed.
UnlockPool ==
    /\ FHere("unlock")
    /\ End
    /\ \/ Release(SharedMemMutex)
       \/ owner[SharedMemMutex] # running /\ UNCHANGED allVars
    /\ UNCHANGED <<maskVars, pool, req, callbacks, replyVars>>

-----------------------------------------------------------------------------
(* The child process, as far as its parent can tell: it answers each       *)
(* request once, then raises SIGUSR2.                                      *)

ChildAnswers ==
    /\ vm = "up" /\ ~signalling
    /\ \E i \in inbox, r \in Results :
         /\ inbox' = inbox \ {i}
         /\ replies' = Append(replies, [id |-> i, result |-> r])
    /\ signalling' = TRUE
    /\ UNCHANGED <<allVars, maskVars, fcallVars, fileResult, callbacks, usr2>>

ChildSignals ==
    /\ vm = "up" /\ signalling
    /\ signalling' = FALSE /\ usr2' = TRUE
    /\ UNCHANGED <<allVars, maskVars, fcallVars, fileResult, callbacks, inbox, replies>>

-----------------------------------------------------------------------------
(* MachineReplySignalHandler and FileCallback.                             *)

Frame(kind, m) == [kind |-> kind, mask |-> m, mess |-> NoMessage]
TopFrame == saved[running][1]
Push(kind) == saved' = [saved EXCEPT ![running] = <<Frame(kind, mask)>> \o @]
SetFrame(kind, mess) ==
    saved' = [saved EXCEPT ![running][1].kind = kind, ![running][1].mess = mess]
InHandler(kind) == Here("ret") /\ saved[running] # <<>> /\ TopFrame.kind = kind

ReplySignal ==
    /\ vm = "up" /\ leaving = NoThread /\ usr2 /\ mask = "open"
    /\ usr2' = FALSE /\ mask' = "answers"
    /\ irq' = [irq EXCEPT ![running] = <<"ret">> \o @]
    /\ Push("reply")
    /\ UNCHANGED <<vm, tick, running, leaving, state, ready, sleepVars, pc, tableVars,
                   mutexVars, sigState, fcallVars, fileResult, callbacks, inbox, replies,
                   signalling>>

\* Fault: msgrcv is asked for another message than the first of the queue.
LastReply == Len(replies)

FirstReply == 1

\* msgrcv and the look into the map.
Receive ==
    /\ InHandler("reply") /\ replies # <<>>
    /\ replies' = SubSeq(replies, 1, FirstReply - 1) \o SubSeq(replies, FirstReply + 1, Len(replies))
    /\ SetFrame("map", replies[FirstReply])
    /\ UNCHANGED <<allVars, mask, sigState, fcallVars, fileResult, callbacks, inbox,
                   signalling, usr2>>

EraseCallback ==
    /\ InHandler("map")
    /\ callbacks' = [callbacks EXCEPT ![TopFrame.mess.id] = NoThread]
    /\ SetFrame("call", [TopFrame.mess EXCEPT !.id = callbacks[TopFrame.mess.id]])
    /\ UNCHANGED <<allVars, mask, sigState, fcallVars, fileResult, replyVars>>

\* Fault: the result is not stored.
ResultLost(t) == fileResult

ResultFor(t) == [fileResult EXCEPT ![t] = TopFrame.mess.result]

\* From here the message names the thread, Callinfo.DCalldata.
FileCallback ==
    /\ InHandler("call")
    /\ LET t == TopFrame.mess.id IN
         /\ state' = [state EXCEPT ![t] = "READY"]
         /\ fileResult' = ResultFor(t)
         /\ ready' = Add(ready, t)
    /\ sigState' = mask
    /\ irq' = [irq EXCEPT ![running] = <<"prio">> \o Tail(@)]
    /\ SetFrame("reply", NoMessage)
    /\ UNCHANGED <<vm, tick, running, leaving, sleepVars, pc, tableVars, mutexVars, mask,
                   fcallVars, callbacks, replyVars>>

\* A handler returns: the mask of what it interrupted comes back.
HandlerReturns ==
    /\ \/ InHandler("alarm")
       \/ InHandler("reply") /\ replies = <<>>
    /\ AlarmReturn
    /\ mask' = TopFrame.mask
    /\ saved' = [saved EXCEPT ![running] = Tail(@)]
    /\ UNCHANGED <<mutexVars, sigState, fcallVars, fileResult, callbacks, replyVars>>

\* SIGUSR2 between Resume and the context switch: the callbacks run on the old
\* stack; if one preempts, a context is saved over another thread's.
ReplyInSwitch ==
    /\ vm = "up" /\ leaving # NoThread /\ usr2 /\ mask = "open" /\ replies # <<>>
    /\ LET ids == {replies[i].id : i \in DOMAIN replies}
           callers == {callbacks[i] : i \in ids}
       IN /\ ready' = [t \in Threads |-> ready[t] + IF t \in callers THEN 1 ELSE 0]
          /\ state' = [t \in Threads |-> IF t \in callers THEN "READY" ELSE state[t]]
          /\ callbacks' = [i \in Requests |-> IF i \in ids THEN NoThread ELSE callbacks[i]]
          /\ \E f \in [Threads -> Results \cup {0}] :
               /\ \A t \in Threads \ callers : f[t] = fileResult[t]
               /\ \A i \in DOMAIN replies : f[callbacks[replies[i].id]] = replies[i].result
               /\ fileResult' = f
          /\ vm' = IF \E t \in callers : Prio[running] < Prio[t] THEN "wrecked" ELSE vm
    /\ replies' = <<>> /\ usr2' = FALSE /\ sigState' = "answers"
    /\ UNCHANGED <<tick, running, leaving, sleepVars, pc, irq, tableVars, mutexVars,
                   mask, saved, fcallVars, inbox, signalling>>

-----------------------------------------------------------------------------
(* The scheduler and the mutexes under the signal mask.                    *)

FileRest == UNCHANGED <<fcallVars, fileResult, callbacks, replyVars>>

\* A protected section of VirtualMachine.cpp saves the mask in sigState.
Section ==
    /\ \/ (Preempt \/ SleepSwitch \/ ExitSwitch) /\ UNCHANGED mutexVars
       \/ MutexSwitch \/ TakeLock \/ Park \/ Unlock
       \/ HandOver("hand", "user") \/ HandOver("handP", "prio")
    /\ sigState' = mask
    /\ UNCHANGED <<mask, saved>> /\ FileRest

Look ==
    /\ \/ (SchedCheck \/ ContextSwitch) /\ UNCHANGED mutexVars
       \/ TestLocked \/ GiveUp \/ Retry \/ LookForWaiter
    /\ UNCHANGED maskVars /\ FileRest

\* Fault: sa_mask of the alarm is left empty.
AlarmMaskEmpty == mask

AlarmMask == "answers"

AlarmSignal ==
    /\ mask # "all"
    /\ \/ /\ Cardinality({i \in DOMAIN saved[running] : saved[running][i].kind = "alarm"})
               < MaxAlarms
          /\ Alarm /\ Push("alarm") /\ mask' = AlarmMask
       \/ AlarmInSwitch /\ UNCHANGED <<mask, saved>>
    /\ sigState' = AlarmMask
    /\ UNCHANGED mutexVars /\ FileRest

\* Calls that are not about files are made between file calls.
VMThreadActivateFile(x) ==
    /\ FHere("app") /\ VMThreadActivate(x)
    /\ sigState' = mask
    /\ UNCHANGED <<mutexVars, mask, saved>> /\ FileRest

\* The activation of an unknown thread resumes what it never suspended.
ActivateUnknown(x) ==
    /\ FHere("app") /\ x \notin Threads
    /\ mask' = sigState
    /\ UNCHANGED <<allVars, sigState, saved>> /\ FileRest

OtherCall ==
    /\ FHere("app")
    /\ \/ VMThreadCreate \/ Yield \/ MainReturns
       \/ \E x \in Users : VMThreadDelete(x)
       \/ \E x \in Threads : VMThreadTerminate(x)
       \/ \E n \in SleepTicks : VMThreadSleep(n)
    /\ UNCHANGED <<mutexVars, maskVars>> /\ FileRest

\* The machine is down, or IdleMain spins with every signal held back.
FStopped ==
    /\ vm # "up" \/ (running = Idle /\ Here("user") /\ mask = "all")
    /\ UNCHANGED fvars

-----------------------------------------------------------------------------
FileCall ==
    \/ FileOne
    \/ \E n \in ReadLengths : FileRead(n)
    \/ \E n \in WriteLengths : FileWrite(n)

Handler == Receive \/ EraseCallback \/ FileCallback \/ HandlerReturns
FileStep ==
    \/ TakeChunk \/ PopChunk \/ Send \/ FirstChunk \/ MapCorrupted \/ FileSwitch \/ Back
    \/ UnlockPool
Child == ChildAnswers \/ ChildSignals
AppCall ==
    \/ FileCall
    \/ OtherCall
    \/ \E x \in Users : VMThreadActivateFile(x)
    \/ \E x \in StrayIDs : ActivateUnknown(x)

FNext == Section \/ Look \/ AlarmSignal \/ ReplySignal \/ ReplyInSwitch \/ Handler
         \/ FileStep \/ Child \/ AppCall \/ FStopped

FSpec == FInit /\ [][FNext]_fvars

\* As Fairness of Scheduler; the child goes on serving, and the kernel delivers a pending
\* signal that is not blocked before anything else runs.
FKernel == Section \/ Look \/ Handler \/ FileStep
FFairness ==
    /\ WF_fvars(FKernel)
    /\ \A t \in Threads : SF_fvars(running = t /\ irq[t] = <<>> /\ FKernel)
    /\ SF_fvars(AlarmSignal) /\ SF_fvars(ReplySignal)
    /\ WF_fvars(ChildAnswers) /\ WF_fvars(ChildSignals)

FLiveSpec == FSpec /\ FFairness

-----------------------------------------------------------------------------
(* Properties.                                                             *)

FrameOK(f) ==
    /\ f.kind \in Kinds /\ f.mask \in Masks
    /\ f.mess.id \in Threads \cup {NoRequest} /\ f.mess.result \in Results \cup {0}

FTypeOK ==
    /\ MTypeOK
    /\ mask \in Masks /\ sigState \in Masks
    /\ \A t \in Threads : /\ Len(saved[t]) = Len(irq[t])
                          /\ \A i \in DOMAIN saved[t] : FrameOK(saved[t][i])
    /\ fpc \in [Threads -> FileLabels] /\ op \in [Threads -> Ops]
    /\ left \in [Threads -> Nat]
    /\ chunk \in [Threads -> Chunks \cup {NoChunk}]
    /\ pool \in Seq(Chunks)
    /\ req \in [Threads -> Requests \cup {NoRequest}]
    /\ fileResult \in [Threads -> Results \cup {0}]
    /\ callbacks \in [Requests -> Threads \cup {NoThread}]
    /\ inbox \subseteq Requests /\ replies \in Seq(Message)
    /\ signalling \in BOOLEAN /\ usr2 \in BOOLEAN

\* Where t's request is: in the map of callbacks, or taken from it and being told
\* to t by a handler (which then names t); the answer, once the child gave it.
Registered(t) == req[t] # NoRequest /\ callbacks[req[t]] = t
Telling(kind, id) ==
    UNION {{saved[u][i].mess : i \in {j \in DOMAIN saved[u] :
                saved[u][j].kind = kind /\ saved[u][j].mess.id = id}} : u \in Threads}
Outstanding(t) == Registered(t) \/ Telling("call", t) # {}
Answers(t) ==
    IF Registered(t)
    THEN {m \in {replies[i] : i \in DOMAIN replies} : m.id = req[t]} \cup Telling("map", req[t])
    ELSE Telling("call", t)

\* As MOnePlace, with the threads that wait for an answer: a thread is in two
\* places only between an answer that came early and its switch.
FPlaces(t) == MPlaces(t) + (IF fpc[t] = "back" /\ Outstanding(t) THEN 1 ELSE 0)
FOnePlace ==
    vm = "up" =>
    \A t \in Threads :
        FPlaces(t) = IF ~Active(t) THEN 0
                     ELSE IF \/ pc[t] = "mwait"
                             \/ fpc[t] = "wait" /\ ~Outstanding(t) THEN 2 ELSE 1

\* Once the idle thread has run, it is the only one that hears the child.
OnlyIdleHears ==
    vm = "up" /\ leaving = NoThread /\ mask = "open" /\ running # Idle => irq[Idle] = <<>>

\* A chunk that a request is using is in no other thread's hands, and not in
\* the pool.
Using(t) == fpc[t] \in {"pop", "send", "wait", "back"} /\ op[t] # "one"
ChunksApart ==
    vm = "up" =>
    \A t \in Threads :
        /\ Using(t) /\ fpc[t] # "pop" => \A i \in DOMAIN pool : pool[i] # chunk[t]
        /\ \A u \in Threads \ {t} : Using(t) /\ Using(u) => chunk[t] # chunk[u]

\* An answer of the child reaches the thread that waits for it, as src/apps/preempt.c
\* expects of the prints it makes while threads of lower priority compute.
AnswersArrive ==
    \A t \in Users : Answers(t) # {} ~> Answers(t) = {} \/ vm # "up"

\* File requests keep the promise of FileSpec.
StageOf(t) ==
    IF fpc[t] \notin {"wait", "back"} THEN [stage |-> "none", result |-> 0]
    ELSE IF Registered(t) /\ req[t] \in inbox THEN [stage |-> "asked", result |-> 0]
    ELSE [stage |-> "served",
          result |-> IF Answers(t) = {} THEN fileResult[t]
                     ELSE (CHOOSE m \in Answers(t) : TRUE).result]
File == INSTANCE FileSpec WITH
    Thread <- Threads, Result <- Results, NoResult <- 0, cpu <- running,
    request <- [t \in Threads |-> StageOf(t)]
FileCallsRefined == File!Spec

\* To the parent the child is a FileServer: an id is used again only when nothing
\* of its last request is left, and answers are taken in their order.
Server == INSTANCE FileServer WITH
    Request <- Requests, replies <- [k \in DOMAIN replies |-> replies[k].id]
ServerUsed == Server!Spec
=============================================================================
