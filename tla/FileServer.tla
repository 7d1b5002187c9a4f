----------------------------- MODULE FileServer -----------------------------
(***************************************************************************)
(* What the child process of src/src/Machine.cpp is to its parent: a       *)
(* server with a set of outstanding requests, which it answers in any      *)
(* order, each once, and a signal after every answer.  The parent takes    *)
(* the answers in the order they were given.  FileIO uses this server,     *)
(* Machine implements it.                                                  *)
(***************************************************************************)
EXTENDS Naturals, Sequences

CONSTANT Request     \* ids of requests

VARIABLES
    inbox,       \* requests without an answer
    replies,     \* answers the parent has not taken
    signalling,  \* the last answer has still to be signalled
    usr2         \* the parent has a signal pending

vars == <<inbox, replies, signalling, usr2>>

Init == inbox = {} /\ replies = <<>> /\ ~signalling /\ ~usr2

Post(i) ==
    /\ i \notin inbox /\ \A k \in DOMAIN replies : replies[k] # i
    /\ inbox' = inbox \cup {i}
    /\ UNCHANGED <<replies, signalling, usr2>>

Answer(i) ==
    /\ i \in inbox /\ ~signalling
    /\ inbox' = inbox \ {i}
    /\ replies' = Append(replies, i)
    /\ signalling' = TRUE
    /\ UNCHANGED usr2

Signal ==
    /\ signalling
    /\ signalling' = FALSE /\ usr2' = TRUE
    /\ UNCHANGED <<inbox, replies>>

\* The handler is entered, perhaps to take what there is at once; Take is a turn
\* of its loop.
Hear ==
    /\ usr2 /\ usr2' = FALSE
    /\ replies' \in {replies, <<>>}
    /\ UNCHANGED <<inbox, signalling>>

Take ==
    /\ replies # <<>> /\ replies' = Tail(replies)
    /\ UNCHANGED <<inbox, signalling, usr2>>

\* The server ends and takes the queues with it.
Close ==
    /\ ~signalling
    /\ inbox' = {} /\ replies' = <<>>
    /\ UNCHANGED <<signalling, usr2>>

Next == (\E i \in Request : Post(i) \/ Answer(i)) \/ Signal \/ Hear \/ Take \/ Close

Spec == Init /\ [][Next]_vars
=============================================================================
