# A verification of the ECS150 virtual machine

The program is a user-level operating system in one Unix process: preemptive
threads on one processor, mutexes, blocking file requests served by a forked
child process, and a read/write FAT16 image on top.  This directory holds TLA+
models of it, TLC instances that check them and TLAPS proofs.  Paths below are
relative to the repository root (`src/` there).

## Inventory

| Component | State | Operations | Interacts with |
|---|---|---|---|
| Threads, scheduler, alarm (`src/src/VirtualMachine.cpp` 26-49, 187-323, 666-786) | `threadList`, `readyThreadList` (heap by priority), `waitingThreadList` (heap by `timeup`), `runningThread`, `g_tick`, `Thread::state` | `threadSchedule` with five reasons, `AlarmCallback`, `VMThreadCreate/Delete/Activate/Terminate/Sleep` | SIGALRM from Machine; mutexes and file requests switch through `threadSchedule` |
| Mutexes (792-900) | `mutexList`, per mutex `owner`, `locked`, `waitlist` | `VMMutexCreate/Delete/Acquire/Release/Query` | push woken threads on the ready heap |
| Blocking file requests (307-316, 358-457) | shared memory chunks, `fileResult` | `FileOpen/Close/Read/Write/Seek`, `FileCallback` | requests to Machine, answers by SIGUSR2 |
| Machine (`src/src/Machine.cpp`) | message queues, map of callbacks, signal mask; in the child the pipe its handler writes to, the list of deferred reads and the descriptors it polls | `MachineFile*`, reply handler, child loop, `MachineTerminate` | parent and child exchange SIGUSR1/2 and System V messages |
| FAT files and directory (71-182, 326-353, 557-659, 902-983) | FAT cache, root entries, open files, one directory cursor | `VMFile*`, `VMDirectory*` | file requests on the mounted image |
| Paths (`src/src/VirtualMachineUtils.c` 98-374) | none of their own | `VMFileSystem*`: simplify, make relative, consolidate, split, mount test | used by nothing in the repository but declared for applications |
| Strings, printing (the rest of that file) | none | `VMString*`, `VMFilePrint` | used by every application |
| Copyfile (`src/apps/copyfile.c`, `copyfile2.c`) | a ring of bytes, two semaphores with lists of waiters, two buffers, counters | `Down`, `Up`, `Enqueue`, `Dequeue`, producer, consumer, main | mutexes, file calls and thread states of the machine |
| Other applications (`src/apps`) | their own | test programs, a shell | the callers of everything above |

What makes it hard: a timer signal may interrupt any code that is not between
`MachineSuspendSignals` and `MachineResumeSignals`; its handler is entered again
while it runs (`SA_NODEFER`) and switches threads from inside itself; file
answers arrive by another signal; threads block half way through calls while
others change what those calls looked at.

Correctness, per component: no thread is lost or queued twice, the reported state
is true, that of a finished thread too, a switch always has somewhere to go, sleepers
wake when they are due (scheduler); one owner per mutex, no lost or double wake-up, time
limits hold, a call takes the mutex it was made for (mutexes); one answer per request, to
the thread that asked, chunks conserved (files); no message stranded and no read that
blocks the child (machine); every transfer at its own place, no entry of the directory
overwritten, a file at the clusters of its entry, listings complete and of entries only
(FAT); paths that lead where their names say (paths).  Some of these the code keeps, some
under conditions, and some not: see Runs, What is proved and Findings.

## Plan

1. `Scheduler` - threads, heaps, alarm; proofs in `SchedulerProofs`.  `SleepClock` - how
   late sleepers wake; proofs in `SleepProofs`.  Done.
2. `LockSpec`, `Mutexes` - mutexes over the scheduler, refinement of `LockSpec`;
   proofs in `MutexProofs` and `LockProofs`.  Done.
3. `FileSpec`, `FileServer`, `FileIO` - file requests over scheduler and mutexes:
   early answers, the signal mask, the pool of chunks; proofs in `FileIOProofs`,
   the two refinements in `FileRefinement`.  Done.
4. `Machine` - the child process, its deferred reads, the end of either side;
   implements `FileServer`; proofs in `MachineProofs`.  Done.
5. `FATFiles` - root entries, open files, shared offset, directory cursor, restarts;
   proofs in `FATProofs`.  Done.
6. `Paths` - every path function against a reference on names.  Done.

Left: the properties of `Paths`, which rest on what folds over sequences
compute, and those under fairness; the provers can treat neither.

How the modules depend on each other:

```
Scheduler <- Mutexes <- FileIO          extends: one machine, more of it
Scheduler <- SleepClock                 extends: a measure beside it
LockSpec   : implemented by Mutexes
FileSpec   : implemented by FileIO
FileServer : implemented by Machine, all that FileIO does with its child
SchedulerProofs <- MutexProofs <- LockProofs <- FileIOProofs <- FileRefinement
SchedulerProofs <- SleepProofs
FATFiles, Paths : stand alone; FATFiles asks a child that serves the requests of
             different threads in any order, as FileServer allows
```

## What is modelled

`Scheduler` - one action per protected section (between suspend and resume
nothing can happen) and one per unprotected look at shared data.  Each thread
has a program counter `pc` and a stack `irq` of handler frames; the processor
executes the top frame of `running`.  `SchedCheck` is the unprotected comparison
of `WAIT_FOR_PRIO`, `Preempt` the protected exchange after it; `SleepSwitch`,
`ExitSwitch` and (in `Mutexes`) `MutexSwitch` are the other reasons; `Alarm` is
the handler up to its own call of `threadSchedule`.  `MachineResumeSignals` comes
before `MachineContextSwitch`, so after a switch the processor stays on the stack
of the thread that is `leaving` until `ContextSwitch`; a tick in that window is
`AlarmInSwitch`, and when it preempts it overwrites a saved context: from then on
the behaviour is undefined and the model stops with `vm = "wrecked"`.  Priority
heaps leave ties open, so `Tops` is a set.  The calls of `ThreadCall` are made by
any thread at any time, except that creation, activation and deletion are made by
main, as in every program of `src/apps`.

`SleepClock` - the scheduler with a measure of time that does not wrap: `due` counts the
alarms still to come up to the first that may wake a sleeper, and goes below zero while
the sleeper is late.  No action reads it, so the threads behave as in `Scheduler`
(`ClockRefines`).

`Mutexes` - extends the scheduler with labels for the points inside
`VMMutexAcquire` (`test`, `lock`, `park`, `mwait`, `woken`) and `VMMutexRelease`
(`unlock`, `wake`, `hand`, `handP`) between which a tick may come.  `it` is the
iterator into `mutexList` each call keeps while it blocks, `slots` the buffer of
that vector, which `Erase` shifts.  The two mutexes `VMStart` creates for itself
come first in the list, are never deleted and are left out.

`LockSpec` - what a caller may expect: a mutex is taken while nobody holds it, by
the thread that asked for it; only its holder gives it up.  `Mutexes!Lock` maps
`locked` and `owner` to the holder.

`FileIO` - extends both.  A file call is code of a thread the scheduler sees at
`user`; `fpc` is where the call stands (`take`, `pop`, `send`, `wait`, `back`,
`first`, `unlock`).  `mask` is the one signal mask of the process, `sigState` the
global its sections save it in, `saved` what each handler frame will restore.  A
context switch changes none of them; `HandlerReturns` restores the mask of the
frame, so a thread first run from inside a handler goes on with SIGUSR2 blocked.
`ReplySignal` enters the handler, `Receive`, `EraseCallback` and `FileCallback` are
its loop, and the exchange of `WAIT_FOR_PRIO` follows on the same frame.  An alarm
between `Receive` and `EraseCallback` may switch to a thread that adds a request to
the half edited map (`MapCorrupted`).  The child is two actions, answer and signal, and
does no more than `FileServer` allows (`ServerUsed`).
Request ids are the least free ones instead of an unbounded counter.

`FileSpec` - what a caller may expect: it asks, does nothing until its own request
is served, and goes on with that result.

`Machine` - the child of `Machine.cpp` and its parent's half of the protocol.  A
request is named by the thread that makes it; `want` is what it asks for: `Now`
stands for every request that is answered when it is received, a descriptor for a
read, which is put off (`pending`) until poll reports the descriptor (`hit`).
`msgsnd` and `kill` are two steps on either side (`sending`, `signalling`).  `told`
and `bytes` are the ways a request makes itself heard, a pending SIGUSR2 and the
pipe `WriteByte` fills, and `usr2`, `hearing` those of an answer: signals coalesce, so
each stands for any number of messages.  `watched` is `PollFDs`, and `hit` the positions
of it that poll has reported and the pass has not come to.  A pass makes one
`ServeRead` at each of them, then drops what nobody waits to read any more (`Unwatch`),
and ends (`EndPass`), where the child leaves and removes the queues if it must.  `parent`
may crash or end by `MachineTerminate` at any point.  A poll that a signal interrupts is as if the
signal had come before it: the kernel writes zero `revents` back, so nothing stale
is read.

`FileServer` - what the child is to its parent: a set of outstanding requests,
answered in any order, each once, with a signal after each answer.  `Machine!Server`
maps the request queue and the deferred reads to that set, `FileIO!Server` its own.

`FATFiles` - the calls of `VirtualMachine.cpp` that work on the mounted image.  All
threads share the one offset of the host file; a thread has one request (a seek, a
read or a write) with the child at a time, and what it does between two requests is
one action, labelled by what it waits for (`fatSeek`, `fatRead`, `rootSeek`, ...).  The
`at` of a request is history: where the caller means it to go.  The image is counted in
records; an entry of the directory is its kind, name and cluster.  The data of cluster 2
follow the last slot, so the sectors of clusters 0 and 1 are the last
`2 * SlotsPerSector` slots of the directory: a transfer there reads and writes entries
(`Covered`), and what data look like as an entry is any member of `Junk`.  In a full
directory `FindFreeRootEntry` returns -1 (`NoSlot`), the seek to it is refused, and the
entry is written where the search ended.  What the code reads
uninitialised is any value: the second word of `tempEntry` (`unread`) and the attribute
byte of a new entry, which decides its kind in later listings.  Files are loaded in the
order of their positions (`InOrder` of `FileSlots`).
`LoadedCluster` keeps the factor 16 of line 524, `FatOffset` that an offset is returned
for an index (twice the entry) and cut to 16 bits (`Words`), and `FatRead` that no entry
of the table is ever marked.  The table stays as it is: a single thread never writes
there, and where several threads share the offset the model stops short of what a
misplaced write does to the table.  `Restart` ends the machine in the middle of any call
and starts it on the image again; a write that the old child still has in hand then is
left out.

`Paths` - every `VMFileSystem` function as an operator on sequences of characters, and
a caller that keeps an absolute path (`Go`, `Beside`).  `Resolve` is the reference: it
knows names and dots only.

An error return changes no state and is a stuttering step.  `timeup` is reset
when a thread wakes, which no code reads, to keep the state space small.

## Runs

| Run | Instance | What it shows |
|---|---|---|
| `sched` | idle, main and two threads below and above main, two handlers on a stack, a clock of five ticks | `OnePlace`, `StateAgrees`, `IdleStandsBy`: interleavings of ticks with the unprotected parts of `threadSchedule` and with each other's handlers lose no thread and queue none twice; a dead thread is never in the ready heap; a finished thread that nobody outranks is reported dead; a thread that sleeps or ends finds another to switch to.  `SleepsLongEnough`: nobody wakes early; `LateByOthers`: although each tick wakes one sleeper at most, none is late by as many ticks as there are other threads that can sleep |
| `sched_live` | idle, main and a thread below it, two handlers on a stack, clock wrapping at 4 | `InversionResolved`, `SleepQueueMoves`: a switch made on a stale comparison is put right by a later tick, and the head of the sleep heap moves, even with wrapped deadlines |
| `mutex_equal` | three threads of one priority, one mutex, limit 0 ("infinite", which fails once a tick has passed, so `GiveUp` happens) | the unprotected tests are safe when no tick can switch, the mutexes refine `LockSpec`, and waiters are stranded only by a woken thread that gives up |
| `mutex_mixed` | idle, main and one thread below it, two mutexes, the first may be deleted | `MOnePlace`, `BlockedIsWaiting`: a thread preempted between entering a waitlist and switching away is never lost or queued twice |
| `file_equal` | idle, main and a thread of the same priority, two chunks, reads of one chunk, writes of none and of two, an id of no thread | `ChunksApart`: the unprotected `back()` and `pop_back()` give no two requests one chunk; `OnlyIdleHears`: after the idle thread first runs, answers are taken by nobody else |
| `file_mixed` | idle, main and a thread below it, one chunk, so the pool is found empty | `FOnePlace`: a thread answered before it has switched away is not lost or doubled; `FileCallsRefined`: calls keep the promise of `FileSpec` even when chunks are shared and handlers are interrupted; `ServerUsed`: the child is used as a `FileServer` |
| `machine` | two threads, a file and a terminal, two bytes in the pipe | `NoneUnheard`: nobody is left untold of a message although signals coalesce; `ReadsDontBlock`; `ServerRefined`; `AnswersFollow`, `ReadsFollow`, `ChildEnds`: what need not wait is answered, reads of files too unless requests never stop, and the child survives neither `MachineTerminate` nor a crash |
| `fat` | one thread; three directories of three slots: two long slots and a file, which is full; an empty file, a deleted slot and a subdirectory, which becomes full; a deleted slot before the end; a slot is a sector, so the last two slots are those of clusters 0 and 1; a table with its last entry free; restarts | `AtOwnPlace`: transfers happen where the call sought, the misplaced entry of a full directory included; `EntriesSpared`: entries are overwritten by nothing but data of clusters 0 and 1; `DescriptorNames`: descriptors lead to their files; `ListingComplete`: listings pass over nothing that stays, whatever long names and deleted slots there are |
| `paths` | every path of up to four characters out of `/`, `.`, a letter and an invalid one, room for six | `WalksRight`: a relative path leads where its names say, or fails because it leaves the root or is too long; `WayBack`: relative paths lead back, and the mount test is true |
| `mutex_two_owners`, `answer_held_up`, `fat_two_threads` | two to four threads | the disagreements listed under Findings |

Bounds.  Three user threads are the least with a thread below, at and above
another; two are enough for every two-thread race.  The clock wraps
(`TickMod`), and `LastTick = TickMod` puts no bound on it; in `sched` it does not
reach the wrap (`LastTick < TickMod`), which alone makes it a measure of time, and the alarm
stops after five ticks, longer than three threads can sleep one after the other.  The
machine may then have nothing left to do, so that run does not look for deadlocks;
`sched_live`, whose clock wraps and does not stop, does.
`MaxNest` bounds the handler frames on one stack: two are the least
with a tick inside a handler (`SA_NODEFER`, `Machine.cpp:526-527`), and the proofs hold
for any number; the runs of mutexes, with one frame, rely on that.  `NThreads` bounds
creations.  One mutex suffices for the races of one mutex.  In `FileIO` the mutex is the one
that guards the shared memory and `PoolBound` starts no write while the pool holds
more entries than there are chunks (each write that finds it empty adds one);
`MaxAlarms` bounds the alarm frames of one stack and `MaxNest` all of them, two
being enough for an alarm inside the reply handler.  Writes of two chunks are the
least that resume from a `sigState` others have used.

In `machine` two clients are the least that find a queue with more than one message and
two reads of one descriptor; `MaxBytes` is the capacity of the pipe, which the code never
reaches with one signal per byte.  In `fat`, three slots are the least with a directory
slot before the two that are also data, and the three directories are full from the start,
after one new file and after two.  `LastCursor` lets a listing go one read behind the last slot,
where there is data.  `MaxChunks` of two sectors is the least with a second transfer at a
place the first one leads to, `MaxOpen` of two the least with a file opened twice.  In `paths`,
`MaxPath` is six, so that every test of a length is met by paths of four characters.

Fairness.  `Kernel` steps are weakly fair (the processor runs), a thread's own
pending half of a call is strongly fair (`OwnStep`: the tick period is orders of
magnitude longer than the handler, so not every instruction is interrupted), and
the alarm is strongly fair (`ualarm` repeats).  In `FileIO` the child is
weakly fair and a pending SIGUSR2 that is not blocked again and again is delivered
(`ReplySignal`, strongly fair, as the kernel delivers it before it returns to the
process).  No call of an application is fair: a thread may compute for ever.  Equal priorities share nothing, in the code or here.
In `Machine` the child's loop, its start and its signals are weakly fair (it is a process of
the host, and a pending signal is delivered), and so is `KillChild`, the second half of
a call the parent has begun with signals suspended; that the parent's handler runs is not
assumed.  `ReadsFollow` has as its premise that the child polls again and again: the loop
at `Machine.cpp:343` leaves the queue only when it finds it empty, so requests that never
stop starve the deferred reads.  `SleepClock`,
`FATFiles` and `Paths` assume no fairness.

## Findings

1. `LockIsFree` (run `mutex_two_owners`) - two owners: the test of `locked` at
   `VirtualMachine.cpp:842` is not protected.
2. `AnswersArrive` (run `answer_held_up`) - a file answer is held up while a thread of
   lower priority computes, since that thread was reached from inside a handler and
   inherited its mask.  Only the idle thread runs with SIGUSR2 open.
3. `AtOwnPlace` (run `fat_two_threads`) - two threads share the offset of the mounted
   image, and the mutex around seek and transfer is commented out
   (`VirtualMachine.cpp:606`): a transfer is made where the other thread has sought.

## Also seen

Met while modelling; the models have these outcomes, unless it says otherwise.  The
properties leave room for them, as named here, and none says that they do not happen.

*Threads.*  Signals are resumed before `MachineContextSwitch`
(`VirtualMachine.cpp:252`, 265): a tick in between that preempts overwrites a saved context
(`vm = "wrecked"`).  The comparison of `WAIT_FOR_PRIO` (242) is made with signals enabled, and
handlers nest (`Machine.cpp:526-527`): a tick inside the handler may take the last ready
thread away, and `top()` of the empty heap at 245 is then undefined (wrecked again).  A tick
between the marking of a thread as dead and its last switch undoes the mark (740): the
thread leaves as RUNNING and is reported so for ever, and the loops of
`src/apps/preempt.c:43` and `copyfile.c:240`, which wait for DEAD, then never end; `StateAgrees`
says which threads this spares, those nobody outranks.  `VMThreadTerminate` of
another thread ends the caller (`badprogram.c:248` expects otherwise).  Near the wrap of
`g_tick` a sleeper is woken by the next tick (296); `SleepsLongEnough` is stated for a clock
that does not wrap.  Threads of one priority never take turns by themselves.

*Mutexes.*  `VM_TIMEOUT_INFINITE` is 0 and becomes a deadline of now: an infinite
acquire that had to wait fails once a tick has passed (839, 855).  A time limit is looked at
only after a release (854), so a wait may never end (`badprogram.c:207` expects it to).  A
thread that ends keeps its mutexes locked (734-747; `badprogram.c:261` expects it
not to).  Deleting a mutex moves the list under the iterators of blocked calls (813): such
a call takes the next mutex.

*Files.*  A `FileWrite` of length 0 leaves all signals blocked; `FileWrite` copies the
first 512 bytes of its data into every chunk and returns the length of the last one.

*Machine.*  A child that is killed, by SIGPIPE in its write (`Machine.cpp:386`) say, answers
nothing and leaves its callers waiting for ever (489); in `Machine` it is not killed.

*FAT.*  The comment at `VirtualMachine.cpp:340` says index where the function returns an
offset, so the cluster of a new file is twice its entry of the table; no entry is ever
marked, so two new files get one cluster.  The cluster of a loaded file has a factor of
16 for its high byte (524), so one behind cluster 255 is read and written elsewhere.  An
existing empty file has cluster 0, and its data are computed to lie in the last sectors of
the root directory (632), whose entries a write destroys: the exception in
`EntriesSpared`.  In a full directory the entry of a new file goes right behind it, into
data (337, 579-581).  Of a name with two or more long slots, any of more than 13
characters, `VMDirectoryRead` passes over the first one and shows the second one as an entry
(945-952), and behind deleted slots it does not look for the end again (935-941)
and shows it as an entry too: `ListingComplete` says that nothing is missed, not that nothing
is added.  Two threads that list at once skip entries of each other.  Every `VMFileRead` and
`VMFileWrite` begins at the first sector of the file (611, 632), whatever was transferred
before: a file written in pieces keeps the last one, and one read until nothing is left has no
end.

*Paths.*  An absolute destination is kept as it is (`VirtualMachineUtils.c:127-136`), with
its dots: a mount test or a `..` after it then takes `..` for a name.  An empty name
(`a//b`) is kept, and a mount point with a delimiter at its end is no prefix of its
own directory.  Therefore `WalksRight` and `WayBack` speak of tidy paths.  A path of exactly
`VM_FILE_SYSTEM_MAX_PATH` characters is terminated one place behind it (305), and
`./` is not counted as part of a relative path (369).  `VMFileSystemPathIsOnMount` reads a
buffer that nothing has set when no relative path was found.

## What is proved

All proofs are for every value of the constants that the named assumptions of the
modules admit (numbers of threads, mutexes and clients, priorities, clock width, time
limits, nesting of handlers, sizes and contents of directories), and none assumes
fairness.

| Theorem | States | Needs |
|---|---|---|
| `SchedulerProofs!TypeCorrect` | `Spec => []TypeOK` | |
| `SchedulerProofs!ThreadsConserved` | `Spec => []OnePlace` | |
| `SchedulerProofs!IdleAlwaysThere` | `Spec => []IdleStandsBy` | |
| `SchedulerProofs!StatesAgree` | `Spec => []StateAgrees` | |
| `SleepProofs!LateByFew` | `ClockSpec => []LateByOthers` | the clock does not wrap |
| `SleepProofs!NobodyWakesEarly` | `ClockSpec => SleepsLongEnough` | the clock does not wrap |
| `MutexProofs!MutexTypeCorrect` | `MSpec => []MTypeOK` | |
| `MutexProofs!WaitersConserved` | `MSpec => []MOnePlace` | |
| `MutexProofs!BlockingFindsThread` | `MSpec => []IdleStandsBy` | |
| `MutexProofs!BlockedReportedWaiting` | `MSpec => []BlockedIsWaiting` | |
| `LockProofs!LockTakenWhenFree` | `MSpec => []LockIsFree` | equal priorities, no deletion |
| `LockProofs!ReleaseFindsWaiter` | `MSpec => []HandFindsWaiter` | equal priorities, no deletion |
| `LockProofs!EqualPrioritiesImplementLock` | `MSpec => LockRefined` | equal priorities, no deletion |
| `LockProofs!OnlyGivingUpStrands` | `MSpec => StrandedOnlyByGivingUp` | equal priorities, no deletion |
| `FileIOProofs!FileTypeCorrect` | `FSpec => []FTypeOK` | |
| `FileIOProofs!RequestsConserved` | `FSpec => []FOnePlace` | |
| `FileIOProofs!ChunksStayApart` | `FSpec => []ChunksApart` | equal priorities |
| `FileIOProofs!IdleHearsAlone` | `FSpec => []OnlyIdleHears` | equal priorities |
| `FileIOProofs!FileSwitchFindsThread` | `FSpec => []IdleStandsBy` | |
| `FileIOProofs!FileMutexesImplementLock` | `FSpec => LockRefined` | equal priorities |
| `FileIOProofs!OnlyGivingUpStrandsWriters` | `FSpec => StrandedOnlyByGivingUp` | equal priorities |
| `FileIOProofs!FileWaitersReported` | `FSpec => []BlockedIsWaiting` | |
| `FileRefinement!ChildUsedAsServer` | `FSpec => ServerUsed` | |
| `FileRefinement!RequestsServed` | `FSpec => FileCallsRefined` | |
| `MachineProofs!EveryMessageHeard` | `MachineSpec => []NoneUnheard` | |
| `MachineProofs!MachineTypeCorrect` | `MachineSpec => []MachineTypeOK` | |
| `MachineProofs!ChildNeverBlocks` | `MachineSpec => []ReadsDontBlock` | |
| `MachineProofs!ChildIsServer` | `MachineSpec => ServerRefined` | |
| `FATProofs!TransfersInPlace` | `FATSpec => []AtOwnPlace` | one thread uses the image |
| `FATProofs!EntriesAreSpared` | `FATSpec => EntriesSpared` | one thread uses the image |
| `FATProofs!DescriptorsKeepTheirFiles` | `FATSpec => []DescriptorNames` | |
| `FATProofs!FATTypeCorrect` | `FATSpec => []FATTypeOK` | |
| `FATProofs!ListingsAreComplete` | `FATSpec => []ListingComplete` | one thread uses the image |

*Threads.* `OnePlace` is not inductive: that a switch does not lose or double a
thread needs that no dead thread is in a heap (`LiveQueues`, so the popping loop
removes nothing), that a dead thread is either finished or about to switch away
(`DeadIsDone`, so activation adds a thread that is nowhere) and that the idle
thread neither sleeps nor calls (`IdleStays`).  `Accounts` is their conjunction,
stated with a parameter `extra` for the places other modules keep threads in, and
every scheduler action preserves it whatever labels those modules add; such a module owes
only that a thread about to sleep or to end is kept nowhere else (`Solvent`).

*Finished threads.* `StateAgrees` says of a finished thread that it is reported dead if nobody
outranks it (`Unrivalled`).  That needs to know how it left: no handler on the stack of such
a thread ever comes to an exchange, so a tick between its mark and its last switch takes
nothing from it (`Farewell`).  The rest is `StatesFit`, what the last assignment to each
state was, with `OnePlace`.

*Sleepers.* `OnTime` puts a sleeper that is due behind a finite queue (`Ahead`): the threads
that rest with a wake-up time no later than its own.  Nobody joins the queue any more, since who
goes to sleep now has a later time, and each tick takes one from it, so that what is left of
it and the ticks already lost are together fewer than the other threads.  Both need that the
clock does not wrap (`NoWrap`), and that the top of the heap is the earliest one.

*Waitlists.* `MInv` is `Accounts` with the waitlists as `extra`, the types, and
that every iterator in use points into the list (`ListOK`).  The one exception to
"one place" is the thread between `Park` and `MutexSwitch`: a tick may preempt it
there, and the proof shows that it is then ready and in one waitlist, and that no
release can have popped it twice.  `MOver` is the same with places of further modules
added (`Beside`).

*Locks.* With different priorities the unprotected tests are wrong (run
`mutex_two_owners`).  With equal ones they are right because no tick can switch
from one user thread to another, so a user thread that does not run stands at a point
where it gave up the processor itself (`Calm`): never between a test and the
assignment that relies on it (`Window`).  `EqInv` adds to this what the running
thread has seen (`LockFound`, `WaiterSeen`, `OwnerUnlocks`).  That argument is the
whole content of the two safety theorems; the refinement then maps each action to
one of `LockSpec` or to a switch.  For `OnlyGivingUpStrands`, `WaitInv` adds that the
iterator of a waiter stays at the mutex it waits for and that a thread about to enter a
waitlist finds the mutex locked still; the steps that free a mutex then either wake a
waiter, who is on its way, or found none.

*File requests.* A blocked thread is answered before or after it has switched away.
`Awaited` counts both as places: one too many while a thread still runs with its answer
outstanding, one too few once it is gone, so that `MOver(Awaited)` stays true through
every step of scheduler and mutexes.  The content is in `Letters`: a registered request is
in one of the child's queue, the replies (`Queued`) or the frame of a handler (`Looked`);
a callback belongs to the blocked thread that made the request (`Own`); a handler about
to call back names a blocked thread that no other callback names (`Told`); and no two
frames on any stacks are about the same request (`Once`).  Frames are counted from the
bottom of their stack, so that a push or a pop moves none of the others.  A stray answer
would break each part: it would push a thread that is ready already.

The refinement of `FileSpec` rests on the same invariant: where a request stands follows
from the one place its letter is in, each step moves one letter at most, and a result is
handed to the thread whose letter it was.  `ServerUsed` says that `FileIO` is a parent as
`FileServer` allows, `ServerRefined` that `Machine` is the child: together they join the
two modules, which no run could do at once.

*Chunks.* `back()` and `pop_back()` of `FileRead` and of all but the first chunk of a write
are unprotected, so `ChunksApart` needs that no other thread is between them.  That is
`Steady`: with equal priorities a user thread that does not run has no handler on its stack
and left the processor for the child or between file calls, hence holds a chunk for its
request or none (`Calm` of the mutexes says as much of their calls).  `Shared` then accounts
for each chunk: in the pool once, or in the hands of one call.  With different priorities a
tick switches between `back()` and `pop_back()`, and two calls hold one chunk.

*The memory mutex.* What holds of the mutexes alone holds on the whole machine.  `Sound`
is the part of `MInv` that does not count places, and follows from `FInv` too, since a
file call is in a waitlist only while it acquires the memory mutex, when nothing is
`Awaited` for it.  `FileMoves` sorts the steps of `FileIO`: each is a step of the mutexes
with none deleted (`LockMove`), or changes neither a label nor a mutex and switches away
only from user code (`Unnoticed`).  The first kind keeps `EqInv` and `WaitInv` by the
lemmas of `LockProofs`, the second by `Steady`.  `FileWrite` passes a limit that the
applications of a run need not offer, so the lemmas take any (`Nat`).  The runs check
`LockRefined`, `StrandedOnlyByGivingUp`, `BlockedIsWaiting` and `IdleStandsBy` on the
components below; that they hold of `FSpec` is left to these theorems.

*Who hears.* `setjmp` and `longjmp` do not save the mask, so a thread that a handler
switches to runs under the handler's.  `Deaf` says how this lasts: while a handler is on the
stack of the idle thread no mask lets SIGUSR2 in, neither the one in force, nor `sigState` or
those on the stack of the user thread that runs, nor those of frames above the first one.
It uses `Steady` where a user thread gets the processor with no handler on its stack.

*Messages.* `NoneUnheard` is inductive with the type of `bytes`: a message is sent under
`sending` or `signalling`, each of which ends in a signal, a signal becomes a byte or a
handler that runs, and the handler and the loop over the queue are left only when they
find it empty.

*Child.* `ChildInv` adds that no queue holds a request twice (`Single`) and no two of them
the same one (`Apart`), so that a request is in one place from its arrival to its answer
although reads are put off; and that a descriptor is in `PollFDs` once and is ready still
while poll's report of it is pending (`Announced`), since a pass reads it once.

*Image.* `FATInv` follows the one offset through the requests of a call: each label has
the place it waits for (`Course`), the offset is there, or one record further once a
transfer was served (`Stands`), and while a file is created what was read is what is
there, and the slot that was found stays free until it is written (`Creates`).  A refused seek
leaves the offset where the search ended (`Spot`), which is right behind the directory, so
that the entry of a full one goes into no slot.  A transfer only moves on from the first sector of
its file, so one of a cluster from 2 on stays behind the directory (`Course` again).
`Stands` is what a second thread destroys (run `fat_two_threads`).

*Descriptors.* `Types` and `Opened` hold for any number of threads: numbers are given in
the order of openings, so the k-th opening has number k + 2, a later one of the same
object takes its old number away, and the look-up finds the object that has the number now.

*Listings.* `Walked` says that what was shown lies before the cursor, that everything there
that is to be shown has been, and that what is to be shown is still there: data that
overwrite a slot take it out of the account (`atOpen`).  `Cursor` says where the cursor is while a read is on its
way.  A slot that a call passes over without showing it is deleted or a long one, and neither
is ever to be shown; a created file puts an entry in place of one that is not live.  No
layout is left out: what a second long slot or an end behind deleted slots does is to
show too much.  Facts about all positions of a sequence, which a program would prove by
induction, are proved by their least counterexample (`Least`).

Only model-checked: all of `Paths`, which rests on what folds over sequences
compute for every input; and everything temporal under fairness
(`InversionResolved`, `SleepQueueMoves`, `AnswersFollow`, `ReadsFollow`, `ChildEnds`), which
the proof system cannot treat.

## What is not modelled

Printing and strings (formatting with no state), the test programs and the shell (their
calls are the environment of the models), the second entry point, option parsing and
module loading, and failures of the system calls that set up queues and shared memory,
which end the program.  The copyfile applications: an acquire they take for granted may fail
(839, 855, and `copyfile.c:42`, 52, 64, 77, 85 ignore it), main and their workers differ in
priority, so a mutex may have two owners (`mutex_two_owners`), a worker that has ended may be
reported RUNNING for ever (740), and each of their transfers on a mounted file begins at its
first sector (611, 632).  A model in which they copy would have to assume all of this away.
In `FileIO`, the bytes transferred and the
results of single chunks; a read of length 0, which touches nothing but an old
result; and an alarm between two of the callbacks that SIGUSR2 makes in the window
between `MachineResumeSignals` and the context switch (`ReplyInSwitch` is one step).  In
`FATFiles`, the bytes of files, sizes and dates.  Of `Scheduler` and `Mutexes`: the search of
`threadList` and `mutexList` is one look, since only main changes them in any
program of `src/apps`; creating a mutex while another thread is inside a mutex call
is left out, because `push_back` may then leave that thread a dangling iterator; a
tick before `VMStart` has a first thread is left out, because the first period of
`ualarm` ends later.
