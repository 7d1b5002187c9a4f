------------------------------ MODULE Machine ------------------------------
(***************************************************************************)
(* The child process of src/src/Machine.cpp and the calls of its parent:   *)
(* two message queues, a signal in each direction, the pipe the child's    *)
(* handler writes to, and the reads the child defers until poll says that  *)
(* they will not block.                                                    *)
(*                                                                         *)
(* A thread of the parent has one request at a time, so a request is       *)
(* named by its thread.  What the request does to a host file is left out. *)
(***************************************************************************)
EXTENDS Naturals, Sequences, FiniteSets, SequencesExt

CONSTANTS
    Clients,     \* threads of the parent that make requests
    Files,       \* descriptors that can always be read
    Terminals,   \* descriptors a read may block on
    MaxBytes     \* bound: unread bytes in the child's pipe


Stop == "stop"       \* MACHINE_REQUEST_TERMINATE; not a client
Now == "now"         \* a request that is answered when it is received: open, write,
                     \* seek, close, a read to an address outside the shared memory
Nothing == "nothing"

ASSUME Descriptors ==
    /\ Files \cap Terminals = {} /\ {Now, Nothing} \cap (Files \cup Terminals) = {}
    /\ MaxBytes \in Nat \ {0}

VARIABLES
    parent,      \* "up", "ending" in MachineTerminate, "gone" ended or crashed
    want,        \* what a client has asked for: Now, a descriptor to read, or Nothing
    sending,     \* the parent is between msgsnd and kill, signals suspended
    requests,    \* the request queue
    replies,     \* the reply queue
    signalling,  \* the child is between msgsnd and kill
    usr2,        \* SIGUSR2 is pending in the parent
    hearing,     \* the parent is in its reply handler
    child,       \* where the child stands
    told,        \* SIGUSR2 is pending in the child
    bytes,       \* in MachineSignalPipe
    pending,     \* PendingReads
    watched,     \* descriptors of PollFDs after the pipe
    hit,         \* positions in watched with revents this pass has still to serve
    terminated,  \* Terminated
    ready        \* descriptors a read of which would not block

parentVars == <<parent, want, sending, hearing>>
childVars  == <<child, bytes, pending, watched, hit, terminated>>
mvars == <<parentVars, requests, replies, signalling, usr2, childVars, told, ready>>

MachineInit ==
    /\ parent = "up" /\ want = [c \in Clients |-> Nothing]
    /\ sending = FALSE /\ hearing = FALSE
    /\ requests = <<>> /\ replies = <<>> /\ signalling = FALSE /\ usr2 = FALSE
    /\ child = "boot" /\ told = FALSE /\ bytes = 0
    /\ pending = <<>> /\ watched = <<>> /\ hit = {} /\ terminated = FALSE
    /\ ready = Files

-----------------------------------------------------------------------------
(* The parent.                                                             *)

\* MachineFileOpen, Close, Read, Write and Seek.
MachineFile(c, w) ==
    /\ parent = "up" /\ ~sending /\ want[c] = Nothing
    /\ want' = [want EXCEPT ![c] = w]
    /\ requests' = Append(requests, c)
    /\ sending' = TRUE
    /\ UNCHANGED <<parent, hearing, replies, signalling, usr2, childVars, told, ready>>

KillChild ==
    /\ sending
    /\ sending' = FALSE /\ told' = TRUE
    /\ UNCHANGED <<parent, want, hearing, requests, replies, signalling, usr2, childVars, ready>>

\* MachineTerminate up to its kill; signals stay suspended while it waits.
MachineTerminate ==
    /\ parent = "up" /\ ~sending
    /\ parent' = "ending"
    /\ requests' = Append(requests, Stop)
    /\ sending' = TRUE
    /\ UNCHANGED <<want, hearing, replies, signalling, usr2, childVars, told, ready>>

Waited ==
    /\ parent = "ending" /\ ~sending /\ child = "gone"
    /\ parent' = "gone"
    /\ UNCHANGED <<want, sending, hearing, requests, replies, signalling, usr2, childVars,
                   told, ready>>

Crash ==
    /\ parent # "gone"
    /\ parent' = "gone" /\ sending' = FALSE /\ hearing' = FALSE
    /\ UNCHANGED <<want, requests, replies, signalling, usr2, childVars, told, ready>>

\* MachineReplySignalHandler: entered, one turn of its loop, left.
Hear ==
    /\ parent = "up" /\ ~sending /\ ~hearing /\ usr2
    /\ usr2' = FALSE /\ hearing' = TRUE
    /\ UNCHANGED <<parent, want, sending, requests, replies, signalling, childVars, told, ready>>

Take ==
    /\ parent = "up" /\ ~sending /\ hearing /\ replies # <<>>
    /\ replies' = Tail(replies)
    /\ want' = [want EXCEPT ![Head(replies)] = Nothing]
    /\ UNCHANGED <<parent, sending, hearing, requests, signalling, usr2, childVars, told, ready>>

Heard ==
    /\ parent = "up" /\ ~sending /\ hearing /\ replies = <<>>
    /\ hearing' = FALSE
    /\ UNCHANGED <<parent, want, sending, requests, replies, signalling, usr2, childVars,
                   told, ready>>

-----------------------------------------------------------------------------
(* The child.                                                              *)

childElse == <<parentVars, ready>>

\* Fault: the child is forked with signals enabled, and one that comes before the
\* handler is set ends it.
BootUnmasked ==
    /\ child = "boot"
    /\ child' = IF told THEN "killed" ELSE "poll"
    /\ UNCHANGED <<bytes, pending, watched, hit, terminated, requests, replies, signalling,
                   usr2, told, childElse>>

\* Up to MachineEnableSignals: until then all signals are blocked.
Boot ==
    /\ child = "boot"
    /\ child' = "poll"
    /\ UNCHANGED <<bytes, pending, watched, hit, terminated, requests, replies, signalling,
                   usr2, told, childElse>>

\* MachineRequestSignalHandler, at any point of the child.
WriteByte ==
    /\ told /\ child \notin {"boot", "gone"} /\ bytes < MaxBytes
    /\ told' = FALSE /\ bytes' = bytes + 1
    /\ UNCHANGED <<child, pending, watched, hit, terminated, requests, replies, signalling,
                   usr2, childElse>>

\* Fault: the parent is not looked for.
ParentUnchecked(timedOut) == FALSE

\* poll timed out and kill(parent, 0) says that there is no such process.
ParentMissing(timedOut) == timedOut /\ parent = "gone"

\* poll, and the byte it announces.  A poll that a signal interrupts leaves every
\* revents zero and is as if the signal had come before.
Poll ==
    /\ child = "poll" /\ ~signalling
    /\ hit' = {i \in DOMAIN watched : watched[i] \in ready}
    /\ IF bytes > 0
       THEN child' = "drain" /\ bytes' = bytes - 1 /\ UNCHANGED terminated
       ELSE /\ child' = "serve" /\ UNCHANGED bytes
            /\ terminated' = (terminated \/ ParentMissing(hit' = {}))
    /\ UNCHANGED <<pending, watched, requests, replies, signalling, usr2, told, childElse>>

\* MachineSendReply as far as its msgsnd.
SendReply(c) == replies' = Append(replies, c) /\ signalling' = TRUE

Drained(label) ==
    /\ child = "drain" /\ ~signalling /\ requests # <<>>
    /\ requests' = Tail(requests) /\ child' = label
    /\ UNCHANGED <<bytes, hit, usr2, told, childElse>>

\* Fault: one message is taken for each byte.
DrainOnce == "serve"

DrainOn == "drain"

DrainNow ==
    /\ Drained(DrainOn)
    /\ Head(requests) # Stop /\ want[Head(requests)] = Now
    /\ SendReply(Head(requests))
    /\ UNCHANGED <<pending, watched, terminated>>

\* A read is put off until poll has seen its descriptor.
DrainRead ==
    /\ Drained(DrainOn)
    /\ Head(requests) # Stop /\ want[Head(requests)] # Now
    /\ pending' = Append(pending, Head(requests))
    /\ LET fd == want[Head(requests)] IN
         watched' = IF Contains(watched, fd) THEN watched ELSE Append(watched, fd)
    /\ UNCHANGED <<terminated, replies, signalling>>

DrainStop ==
    /\ Drained(DrainOn)
    /\ Head(requests) = Stop
    /\ terminated' = TRUE
    /\ UNCHANGED <<pending, watched, replies, signalling>>

DrainEnd ==
    /\ child = "drain" /\ ~signalling /\ requests = <<>>
    /\ child' = "serve"
    /\ UNCHANGED <<bytes, pending, watched, hit, terminated, requests, replies, signalling,
                   usr2, told, childElse>>

Reads(r, fd) == want[pending[r]] = fd
Readers(fd) == {r \in DOMAIN pending : Reads(r, fd)}
First(n, positions) == n \in positions /\ \A k \in positions : n <= k

\* Fault: the break at 433 is missing, and every read of the descriptor is made.
HitKept(i) == IF Cardinality(Readers(watched[i])) > 1 THEN hit ELSE hit \ {i}

HitNext(i) == hit \ {i}

\* Fault: a read that was answered is not erased.
Unerased(r) == pending

PutOff(r) == RemoveAt(pending, r)

\* One read for each descriptor that poll reported.
ServeRead ==
    /\ child = "serve" /\ ~signalling
    /\ \E i \in DOMAIN watched, r \in DOMAIN pending :
         LET fd == watched[i] IN
         /\ First(i, hit) /\ First(r, Readers(fd)) /\ fd \in ready
         /\ SendReply(pending[r])
         /\ pending' = PutOff(r)
         /\ hit' = HitNext(i)
         /\ ready' \in {ready} \cup IF fd \in Terminals THEN {ready \ {fd}} ELSE {}
    /\ UNCHANGED <<parentVars, child, bytes, watched, terminated, requests, usr2, told>>

\* The kill of MachineSendReply.
ChildSignals ==
    /\ signalling
    /\ signalling' = FALSE /\ usr2' = TRUE
    /\ UNCHANGED <<childVars, requests, replies, told, childElse>>

\* Fault: a descriptor is dropped once it was read.
WatchedOnce(fd) == fd \notin ready

StillWatched(fd) == Readers(fd) # {}

\* Descriptors nobody waits to read are dropped, one after another,
Unwatch ==
    /\ child = "serve" /\ ~signalling /\ hit = {}
    /\ \E i \in DOMAIN watched :
         /\ First(i, {k \in DOMAIN watched : ~StillWatched(watched[k])})
         /\ watched' = RemoveAt(watched, i)
    /\ UNCHANGED <<child, bytes, pending, hit, terminated, requests, replies, signalling,
                   usr2, told, childElse>>

\* and the loop ends if it must; the child then removes the queues.
EndPass ==
    /\ child = "serve" /\ ~signalling /\ hit = {}
    /\ \A i \in DOMAIN watched : StillWatched(watched[i])
    /\ IF terminated THEN child' = "gone" /\ requests' = <<>> /\ replies' = <<>>
                     ELSE child' = "poll" /\ UNCHANGED <<requests, replies>>
    /\ UNCHANGED <<bytes, pending, watched, hit, terminated, signalling, usr2, told, childElse>>

\* Input arrives at a terminal or a pipe.
Input(fd) ==
    /\ fd \in Terminals \ ready
    /\ ready' = ready \cup {fd}
    /\ UNCHANGED <<parentVars, requests, replies, signalling, usr2, childVars, told>>

BothGone == parent = "gone" /\ child = "gone" /\ UNCHANGED mvars

-----------------------------------------------------------------------------
ParentStep ==
    \/ \E c \in Clients, w \in Files \cup Terminals \cup {Now} : MachineFile(c, w)
    \/ KillChild \/ MachineTerminate \/ Waited \/ Crash \/ Hear \/ Take \/ Heard
ChildLoop == Poll \/ DrainNow \/ DrainRead \/ DrainStop \/ DrainEnd \/ ServeRead \/ Unwatch \/ EndPass
ChildStep == Boot \/ WriteByte \/ ChildLoop \/ ChildSignals

MachineNext == ParentStep \/ ChildStep \/ (\E fd \in Terminals : Input(fd)) \/ BothGone

\* The child runs, its signals are delivered, and the parent ends a call of
\* msgsnd, kill and wait it has begun.
MachineFairness ==
    /\ WF_mvars(ChildLoop) /\ WF_mvars(Boot) /\ WF_mvars(WriteByte) /\ WF_mvars(ChildSignals)
    /\ WF_mvars(KillChild)

MachineSpec == MachineInit /\ [][MachineNext]_mvars /\ MachineFairness

-----------------------------------------------------------------------------
(* Properties.                                                             *)

\* The types of the variables.
MachineTypeOK ==
    /\ parent \in {"up", "ending", "gone"}
    /\ want \in [Clients -> Files \cup Terminals \cup {Now, Nothing}]
    /\ sending \in BOOLEAN /\ hearing \in BOOLEAN /\ signalling \in BOOLEAN
    /\ usr2 \in BOOLEAN /\ told \in BOOLEAN /\ terminated \in BOOLEAN
    /\ requests \in Seq(Clients \cup {Stop}) /\ replies \in Seq(Clients)
    /\ child \in {"boot", "poll", "drain", "serve", "gone"}
    /\ bytes \in 0 .. MaxBytes
    /\ pending \in Seq(Clients)
    /\ watched \in Seq(Files \cup Terminals) /\ hit \subseteq DOMAIN watched
    /\ ready \in SUBSET (Files \cup Terminals)

\* The read at 427 never blocks the child: poll has reported the descriptor, and
\* nothing has read from it since.
ReadsDontBlock == child = "serve" => \A i \in hit : watched[i] \in ready

\* No message is left in a queue with nobody told of it: a request is followed by
\* a signal, a byte in the pipe or a loop that will still see it, and so is an
\* answer, although one signal may stand for many messages.
NoneUnheard ==
    /\ requests # <<>> /\ ~sending /\ parent # "gone" =>
         told \/ bytes > 0 \/ child = "drain"
    /\ replies # <<>> /\ ~signalling /\ parent # "gone" => usr2 \/ hearing

\* Each client is in one place: its request in a queue or put off, or its answer.
Waiting == (ToSet(requests) \ {Stop}) \cup ToSet(pending)

\* The child implements the server that FileIO uses.
Server == INSTANCE FileServer WITH
    Request <- Clients,
    inbox <- IF child = "gone" THEN {} ELSE Waiting
ServerRefined == Server!Spec

Answered(c) == want[c] = Nothing \/ Contains(replies, c) \/ parent # "up"

\* A request that need not wait is answered, whatever the other threads ask for.
AnswersFollow == \A c \in Clients : want[c] = Now ~> Answered(c)

\* So is the read of a file, unless requests come so fast that the loop at 343
\* never finds the queue empty.
ReadsFollow ==
    []<>(child = "poll") => \A c \in Clients : want[c] \in Files ~> Answered(c)

\* The child outlives neither MachineTerminate nor a crash of its parent.
ChildEnds == parent # "up" ~> child = "gone"
=============================================================================
