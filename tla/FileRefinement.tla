---------------------------- MODULE FileRefinement ----------------------------
(***************************************************************************)
(* Proofs that FileIO keeps two promises, for all priorities and numbers   *)
(* of threads, chunks and mutexes: it uses the child as FileServer lets a  *)
(* parent, and its file requests implement FileSpec.                       *)
(***************************************************************************)
EXTENDS FileIOProofs

-----------------------------------------------------------------------------
(* The parent's half of FileServer.                                        *)

\* The reply queue as FileServer sees it.
Ids(q) == [k \in DOMAIN q |-> q[k].id]

LEMMA IdsType ==
    ASSUME NEW q \in Seq(Message)
    PROVE  /\ Ids(q) \in Seq(Requests) /\ Len(Ids(q)) = Len(q)
           /\ DOMAIN Ids(q) = DOMAIN q
           /\ \A k \in 1 .. Len(q) : Ids(q)[k] = q[k].id
           /\ q # <<>> <=> Ids(q) # <<>>
<1>1. Len(q) \in Nat /\ DOMAIN q = 1 .. Len(q) /\ \A k \in DOMAIN q : q[k].id \in Requests
  <2>1. \A k \in DOMAIN q : q[k] \in Message
    OBVIOUS
  <2> QED
    BY <2>1 DEF Message
<1>2. Ids(q) \in [1 .. Len(q) -> Requests]
  BY <1>1 DEF Ids
<1>3. Ids(q) \in Seq(Requests)
  BY <1>1, <1>2, SeqDef
<1>4. Len(Ids(q)) = Len(q)
  BY <1>1, <1>2, <1>3, LenProperties
<1> QED
  BY <1>1, <1>2, <1>3, <1>4, EmptySeq DEF Ids

LEMMA IdsMoves ==
    ASSUME NEW q \in Seq(Message)
    PROVE  /\ q # <<>> => Ids(Tail(q)) = Tail(Ids(q))
           /\ \A m \in Message : Ids(Append(q, m)) = Append(Ids(q), m.id)
           /\ Ids(<<>>) = <<>>
<1>1. ASSUME q # <<>> PROVE Ids(Tail(q)) = Tail(Ids(q))
  <2>1. /\ Tail(q) \in Seq(Message) /\ Len(Tail(q)) = Len(q) - 1
        /\ \A i \in 1 .. Len(q) - 1 : Tail(q)[i] = q[i + 1]
        /\ Len(q) \in Nat \ {0}
    BY <1>1, Popped
  <2>2. /\ Ids(q) \in Seq(Requests) /\ Len(Ids(q)) = Len(q) /\ Ids(q) # <<>>
        /\ \A k \in 1 .. Len(q) : Ids(q)[k] = q[k].id
    BY <1>1, IdsType
  <2>3. /\ Tail(Ids(q)) \in Seq(Requests) /\ Len(Tail(Ids(q))) = Len(q) - 1
        /\ \A i \in 1 .. Len(q) - 1 : Tail(Ids(q))[i] = Ids(q)[i + 1]
    BY <2>2, Popped
  <2>4. /\ Ids(Tail(q)) \in Seq(Requests) /\ Len(Ids(Tail(q))) = Len(q) - 1
        /\ \A i \in 1 .. Len(q) - 1 : Ids(Tail(q))[i] = Tail(q)[i].id
    BY <2>1, IdsType
  <2>5. \A i \in 1 .. Len(q) - 1 : Ids(Tail(q))[i] = Tail(Ids(q))[i]
    <3> SUFFICES ASSUME NEW i \in 1 .. Len(q) - 1 PROVE Ids(Tail(q))[i] = Tail(Ids(q))[i]
      OBVIOUS
    <3>1. i + 1 \in 1 .. Len(q)
      BY <2>1
    <3> QED
      BY <2>1, <2>2, <2>3, <2>4, <3>1
  <2> QED
    BY <2>3, <2>4, <2>5, SeqEqual
<1>2. ASSUME NEW m \in Message PROVE Ids(Append(q, m)) = Append(Ids(q), m.id)
  <2>1. /\ Append(q, m) \in Seq(Message) /\ Len(Append(q, m)) = Len(q) + 1
        /\ Append(q, m)[Len(q) + 1] = m
        /\ \A i \in 1 .. Len(q) : Append(q, m)[i] = q[i]
        /\ Len(q) \in Nat /\ m.id \in Requests
    BY Appended DEF Message
  <2>2. /\ Ids(q) \in Seq(Requests) /\ Len(Ids(q)) = Len(q)
        /\ \A k \in 1 .. Len(q) : Ids(q)[k] = q[k].id
    BY IdsType
  <2>3. /\ Append(Ids(q), m.id) \in Seq(Requests) /\ Len(Append(Ids(q), m.id)) = Len(q) + 1
        /\ Append(Ids(q), m.id)[Len(q) + 1] = m.id
        /\ \A i \in 1 .. Len(q) : Append(Ids(q), m.id)[i] = Ids(q)[i]
    BY <2>1, <2>2, Appended
  <2>4. /\ Ids(Append(q, m)) \in Seq(Requests) /\ Len(Ids(Append(q, m))) = Len(q) + 1
        /\ \A i \in 1 .. Len(q) + 1 : Ids(Append(q, m))[i] = Append(q, m)[i].id
    BY <2>1, IdsType
  <2>5. \A i \in 1 .. Len(q) + 1 : Ids(Append(q, m))[i] = Append(Ids(q), m.id)[i]
    <3> SUFFICES ASSUME NEW i \in 1 .. Len(q) + 1
                 PROVE  Ids(Append(q, m))[i] = Append(Ids(q), m.id)[i]
      OBVIOUS
    <3>1. i \in 1 .. Len(q) \/ i = Len(q) + 1
      BY <2>1
    <3> QED
      BY <2>1, <2>2, <2>3, <2>4, <3>1
  <2> QED
    BY <2>3, <2>4, <2>5, SeqEqual
<1>3. Ids(<<>>) = <<>>
  <2>1. <<>> \in Seq(Message)
    OBVIOUS
  <2> QED
    BY <2>1, IdsType
<1> QED
  BY <1>1, <1>2, <1>3

\* A request is posted under an id that is nowhere in the server.
LEMMA PostStep ==
    ASSUME FInv, SendRequest, UNCHANGED <<replies, signalling, usr2>>
    PROVE  \E i \in Requests : Server!Post(i)
<1>1. PICK i \in Requests : callbacks[i] = NoThread /\ inbox' = inbox \cup {i}
  BY DEF SendRequest
<1>2. i \notin inbox /\ \A k \in DOMAIN replies : replies[k].id # i
  BY <1>1 DEF FInv, Letters, Queued, Asked
<1>3. DOMAIN Ids(replies) = DOMAIN replies /\ \A k \in DOMAIN replies : Ids(replies)[k] # i
  BY <1>2, IdsType DEF FInv, FilesTypeOK, Ids
<1> QED
  BY <1>1, <1>2, <1>3 DEF Server!Post, Ids

LEMMA ServerStep == FInv /\ [FNext]_fvars => [Server!Next]_(Server!vars)
<1> SUFFICES ASSUME FInv, [FNext]_fvars PROVE Server!Next \/ UNCHANGED Server!vars
  OBVIOUS
<1>1. replies \in Seq(Message)
  BY DEF FInv, FilesTypeOK
<1>2. ASSUME UNCHANGED replyVars PROVE UNCHANGED Server!vars
  BY <1>2 DEF replyVars, Server!vars
<1>3. CASE UNCHANGED fvars
  BY <1>2, <1>3 DEF fvars, fileVars
<1>4. CASE Section \/ Look \/ AlarmSignal
  BY <1>2, <1>4 DEF Section, Look, AlarmSignal, FileRest
<1>5. CASE OtherCall \/ (\E x \in Users : VMThreadActivateFile(x))
           \/ (\E x \in StrayIDs : ActivateUnknown(x)) \/ FStopped
  BY <1>2, <1>5 DEF OtherCall, VMThreadActivateFile, ActivateUnknown, FStopped, FileRest, fvars,
                    fileVars
<1>6. CASE FileCall
  BY <1>2, <1>6 DEF FileCall, FileOne, FileRead, FileWrite
<1>7. CASE TakeChunk \/ PopChunk \/ MapCorrupted \/ FileSwitch \/ Back \/ UnlockPool
  BY <1>2, <1>7 DEF TakeChunk, PopChunk, MapCorrupted, FileSwitch, Back, UnlockPool, fileVars
<1>8. CASE EraseCallback \/ FileCallback \/ HandlerReturns
  BY <1>2, <1>8 DEF EraseCallback, FileCallback, HandlerReturns
<1>9. CASE Send \/ FirstChunk
  <2>1. UNCHANGED <<replies, signalling, usr2>> /\ (SendRequest \/ UNCHANGED inbox)
    BY <1>9 DEF Send, FirstChunk
  <2> QED
    BY <1>2, <2>1, PostStep DEF replyVars, Server!Next
<1>10. CASE ChildAnswers
  <2>1. PICK i \in inbox, r \in Results : /\ inbox' = inbox \ {i}
                                          /\ replies' = Append(replies, [id |-> i, result |-> r])
    BY <1>10 DEF ChildAnswers
  <2>2. i \in Requests /\ [id |-> i, result |-> r] \in Message
    BY DEF FInv, FilesTypeOK, Message
  <2>3. Ids(replies') = Append(Ids(replies), i)
    BY <1>1, <2>1, <2>2, IdsMoves
  <2>4. Server!Answer(i)
    BY <1>10, <2>1, <2>3 DEF ChildAnswers, Server!Answer, Ids
  <2> QED
    BY <2>2, <2>4 DEF Server!Next
<1>11. CASE ChildSignals
  BY <1>11 DEF ChildSignals, Server!Next, Server!Signal
<1>12. CASE ReplySignal \/ ReplyInSwitch
  <2>1. usr2 /\ usr2' = FALSE /\ replies' \in {replies, <<>>} /\ UNCHANGED <<inbox, signalling>>
    BY <1>12 DEF ReplySignal, ReplyInSwitch
  <2>2. Ids(replies') \in {Ids(replies), <<>>}
    BY <1>1, <2>1, IdsMoves
  <2>3. Server!Hear
    BY <2>1, <2>2 DEF Server!Hear, Ids
  <2> QED
    BY <2>3 DEF Server!Next
<1>13. CASE Receive
  <2>1. replies # <<>> /\ UNCHANGED <<inbox, signalling, usr2>>
    BY <1>13 DEF Receive
  <2>2. replies' = Tail(replies)
    BY <1>1, <1>13, <2>1, WithoutFirst DEF Receive
  <2>3. Ids(replies') = Tail(Ids(replies)) /\ Ids(replies) # <<>>
    BY <1>1, <2>1, <2>2, IdsMoves, IdsType
  <2>4. Server!Take
    BY <2>1, <2>3 DEF Server!Take, Ids
  <2> QED
    BY <2>4 DEF Server!Next
<1> QED
  BY <1>3, <1>4, <1>5, <1>6, <1>7, <1>8, <1>9, <1>10, <1>11, <1>12, <1>13
     DEF FNext, Handler, FileStep, Child, AppCall

\* The parent posts a request only under an id that is neither with the child nor in
\* the reply queue, and takes replies in the order in which they were given, whatever
\* nests and whichever handler interrupts which: what Machine implements is all it
\* needs.
THEOREM ChildUsedAsServer == FSpec => ServerUsed
<1>1. FInit => Server!Init
  BY IdsMoves DEF FInit, Server!Init
<1> QED
  BY <1>1, FInitInv, FInvStep, ServerStep, PTL DEF FSpec, ServerUsed, Server!Spec

-----------------------------------------------------------------------------
(* Where a request stands.                                                 *)

\* The answer that t is owed: in the reply queue, in the frame of the handler that
\* took it from there, or about to be handed to t.
Letter(t, m) ==
    IF Registered(t)
    THEN /\ m.id = req[t]
         /\ \/ \E k \in DOMAIN replies : replies[k] = m
            \/ \E u \in Threads, k \in Nat : Held("map", u, k, m)
    ELSE m.id = t /\ \E u \in Threads, k \in Nat : Held("call", u, k, m)
InInbox(t) == Registered(t) /\ req[t] \in inbox

LEMMA OneLetter ==
    ASSUME FInv, NEW t \in Threads
    PROVE  /\ Answers(t) = {m \in Mess : Letter(t, m)}
           /\ \A m, n \in Mess : Letter(t, m) /\ Letter(t, n) => m = n
<1>1. FilesTypeOK /\ \A k \in DOMAIN replies : replies[k] \in Mess
  <2>1. \A m \in Message : m \in Mess
    BY DEF Message, Mess, Requests
  <2> QED
    BY <2>1, ReplyType DEF FInv
<1>2. Answers(t) = {m \in Mess : Letter(t, m)}
  <2>1. CASE Registered(t)
    <3>1. Telling("map", req[t]) =
            {m \in Mess : m.id = req[t] /\ \E u \in Threads, k \in Nat : Held("map", u, k, m)}
      BY <1>1, TellingIs
    <3> QED
      BY <1>1, <2>1, <3>1 DEF Answers, Letter
  <2>2. CASE ~Registered(t)
    <3>1. Telling("call", t) =
            {m \in Mess : m.id = t /\ \E u \in Threads, k \in Nat : Held("call", u, k, m)}
      BY <1>1, TellingIs
    <3> QED
      BY <2>2, <3>1 DEF Answers, Letter
  <2> QED
    BY <2>1, <2>2
<1>3. ASSUME NEW kind \in {"map", "call"}, NEW m \in Mess, NEW n \in Mess, m.id = n.id,
             \E u \in Threads, k \in Nat : Held(kind, u, k, m),
             \E u \in Threads, k \in Nat : Held(kind, u, k, n)
      PROVE  m = n
  BY <1>3 DEF FInv, Letters, Once, Held
<1>4. ASSUME NEW m \in Mess, NEW n \in Mess, Letter(t, m), Letter(t, n) PROVE m = n
  <2>1. CASE ~Registered(t)
    BY <1>3, <1>4, <2>1 DEF Letter
  <2>2. CASE Registered(t)
    <3>1. \A k, l \in DOMAIN replies : replies[k].id = replies[l].id => k = l
      BY DEF FInv, Letters, Queued
    <3>2. \A u \in Threads, k \in Nat, x \in Mess : Held("map", u, k, x) =>
            \A l \in DOMAIN replies : replies[l].id # x.id
      BY DEF FInv, Letters, Looked
    <3> QED
      BY <1>3, <1>4, <2>2, <3>1, <3>2 DEF Letter
  <2> QED
    BY <2>1, <2>2
<1> QED
  BY <1>2, <1>4

LEMMA OnlyChoice ==
    ASSUME NEW S, NEW m \in S, \A x \in S : x = m
    PROVE  (CHOOSE x \in S : TRUE) = m
OBVIOUS

None   == [stage |-> "none", result |-> 0]
InWork == [stage |-> "asked", result |-> 0]
Served(r) == [stage |-> "served", result |-> r]

\* What FileSpec sees of a thread.
StageReads(t) ==
    /\ ~Blocked(t) => StageOf(t) = None
    /\ Blocked(t) /\ InInbox(t) => StageOf(t) = InWork
    /\ Blocked(t) /\ ~InInbox(t) =>
         /\ \A m \in Mess : Letter(t, m) => StageOf(t) = Served(m.result)
         /\ (\A m \in Mess : ~Letter(t, m)) => StageOf(t) = Served(fileResult[t])

LEMMA StageIs == FInv => \A x \in Threads : StageReads(x)
<1> SUFFICES ASSUME FInv, NEW t \in Threads PROVE StageReads(t)
  OBVIOUS
<1>1. /\ ~Blocked(t) => StageOf(t) = None
      /\ Blocked(t) /\ InInbox(t) => StageOf(t) = InWork
  BY DEF Blocked, InInbox, StageOf, None, InWork
<1>2. ASSUME Blocked(t), ~InInbox(t)
      PROVE  StageOf(t) = Served(IF Answers(t) = {} THEN fileResult[t]
                                 ELSE (CHOOSE m \in Answers(t) : TRUE).result)
  BY <1>2 DEF Blocked, InInbox, StageOf, Served
<1>3. ASSUME NEW m \in Mess, Letter(t, m)
      PROVE  Answers(t) # {} /\ (CHOOSE x \in Answers(t) : TRUE) = m
  <2>1. m \in Answers(t) /\ \A x \in Answers(t) : x = m
    BY <1>3, OneLetter
  <2> QED
    BY <2>1, OnlyChoice
<1>4. (\A m \in Mess : ~Letter(t, m)) => Answers(t) = {}
  BY OneLetter
<1> QED
  BY <1>1, <1>2, <1>3, <1>4 DEF StageReads

\* What a step must keep of a thread's request for FileSpec not to see it: the answer
\* may move, and become the result that the thread finds.
Stays(t) ==
    /\ Blocked(t)' <=> Blocked(t)
    /\ Blocked(t) =>
         /\ InInbox(t)' <=> InInbox(t)
         /\ ~InInbox(t) =>
              /\ \A m \in Mess : Letter(t, m) =>
                   \/ \E n \in Mess : Letter(t, n)' /\ n.result = m.result
                   \/ (\A n \in Mess : ~Letter(t, n)') /\ fileResult'[t] = m.result
              /\ (\A m \in Mess : ~Letter(t, m)) =>
                   (\A n \in Mess : ~Letter(t, n)') /\ fileResult'[t] = fileResult[t]

LEMMA StageKept ==
    ASSUME FInv, FInv', NEW t \in Threads, Stays(t)
    PROVE  StageOf(t)' = StageOf(t)
<1>1. (\A x \in Threads : StageReads(x))' /\ StageReads(t)
  <2>1. (\A x \in Threads : StageReads(x))'
    BY StageIs, PTL
  <2> QED
    BY <2>1, StageIs
<1>2. CASE ~Blocked(t)
  BY <1>1, <1>2 DEF StageReads, Stays, None
<1>3. CASE Blocked(t) /\ InInbox(t)
  BY <1>1, <1>3 DEF StageReads, Stays, InWork
<1>4. CASE Blocked(t) /\ ~InInbox(t)
  <2>1. /\ \A m \in Mess : Letter(t, m) => StageOf(t) = Served(m.result)
        /\ (\A m \in Mess : ~Letter(t, m)) => StageOf(t) = Served(fileResult[t])
    BY <1>1, <1>4 DEF StageReads
  <2>2. /\ \A m \in Mess : Letter(t, m)' => StageOf(t)' = Served(m.result)
        /\ (\A m \in Mess : ~Letter(t, m)') => StageOf(t)' = Served(fileResult'[t])
    BY <1>1, <1>4 DEF StageReads, Stays, Served
  <2> QED
    BY <1>4, <2>1, <2>2 DEF Stays
<1> QED
  BY <1>2, <1>3, <1>4

-----------------------------------------------------------------------------
(* File requests implement FileSpec.                                       *)

\* Where no answer moves, a request stays where it is.
LEMMA Untouched ==
    ASSUME SameFrames("map"), SameFrames("call"), UNCHANGED <<callbacks, replies>>,
           NEW t \in Threads, Blocked(t)' <=> Blocked(t),
           Blocked(t) => req'[t] = req[t] /\ fileResult'[t] = fileResult[t],
           Registered(t) => (req[t] \in inbox' <=> req[t] \in inbox)
    PROVE  Stays(t)
<1>1. CASE ~Blocked(t)
  BY <1>1 DEF Stays
<1>2. CASE Blocked(t)
  <2>1. (Registered(t)' <=> Registered(t)) /\ (InInbox(t)' <=> InInbox(t))
    BY <1>2 DEF Registered, InInbox
  <2>2. \A m \in Mess : Letter(t, m)' <=> Letter(t, m)
    BY <1>2, <2>1 DEF Letter, SameFrames
  <2> QED
    BY <1>2, <2>1, <2>2 DEF Stays
<1> QED
  BY <1>1, <1>2

\* If no thread's request moves, at most the processor has been switched.
LEMMA NothingSeen ==
    ASSUME FInv, FInv', \A t \in Threads : Stays(t)
    PROVE  File!Next \/ UNCHANGED File!vars
<1>1. \A t \in Threads : StageOf(t)' = StageOf(t)
  BY StageKept
<1>2. UNCHANGED [t \in Threads |-> StageOf(t)]
  BY <1>1
<1>3. running' \in Threads
  BY FInvTypes DEF FInv, MOver, MTypeOK, TypeOver
<1> QED
  BY <1>2, <1>3 DEF File!Next, File!Switch

\* One thread's request moves.
LEMMA OneSeen ==
    ASSUME FInv, FInv', NEW c \in Threads, \A t \in Threads \ {c} : Stays(t),
           NEW s, StageOf(c)' = s
    PROVE  [t \in Threads |-> StageOf(t)]' = [[t \in Threads |-> StageOf(t)] EXCEPT ![c] = s]
<1>1. \A t \in Threads \ {c} : StageOf(t)' = StageOf(t)
  BY StageKept
<1> QED
  BY <1>1

LEMMA QuietFiles ==
    ASSUME FInv, FInv', SameFrames("map"), SameFrames("call"),
           UNCHANGED <<callbacks, req, inbox, replies>>,
           \A t \in Threads : /\ Blocked(t)' <=> Blocked(t)
                              /\ Blocked(t) => fileResult'[t] = fileResult[t]
    PROVE  File!Next \/ UNCHANGED File!vars
<1>1. \A t \in Threads : Stays(t)
  BY Untouched
<1> QED
  BY <1>1, NothingSeen

\* The steps that neither make a request nor move an answer.
LEMMA QuietFileStep ==
    ASSUME FInv, FInv',
           \/ Section \/ Look \/ AlarmSignal \/ HandlerReturns \/ ReplySignal \/ OtherCall
           \/ (\E x \in Users : VMThreadActivateFile(x))
           \/ (\E x \in StrayIDs : ActivateUnknown(x))
           \/ FStopped \/ ChildSignals \/ UNCHANGED fvars
    PROVE  File!Next \/ UNCHANGED File!vars
<1>1. UNCHANGED <<fpc, req, fileResult, callbacks, inbox, replies>>
  <2>1. CASE ChildSignals
    BY <2>1 DEF ChildSignals, fcallVars
  <2>2. CASE ReplySignal
    BY <2>2 DEF ReplySignal, fcallVars
  <2>3. CASE FStopped \/ UNCHANGED fvars
    BY <2>3 DEF FStopped, fvars, fileVars, fcallVars, replyVars
  <2>4. CASE FileRest
    BY <2>4 DEF FileRest, fcallVars, replyVars
  <2> QED
    BY <2>1, <2>2, <2>3, <2>4 DEF Section, Look, AlarmSignal, HandlerReturns, OtherCall,
       VMThreadActivateFile, ActivateUnknown, FileRest
<1>2. SameFrames("map") /\ SameFrames("call")
  <2>1. running \in Threads /\ FilesTypeOK
    BY FInvTypes
  <2>2. CASE UNCHANGED saved
    BY <2>2 DEF SameFrames, Held, Frame1
  <2>3. CASE \E kind \in {"alarm", "reply"} : Push(kind)
    BY <2>1, <2>3, PushedFrame
  <2>4. CASE HandlerReturns
    <3>1. /\ saved[running] # <<>> /\ TopFrame.kind \in {"alarm", "reply"}
          /\ saved' = [saved EXCEPT ![running] = Tail(@)]
      BY <2>4 DEF HandlerReturns, InHandler
    <3> QED
      BY <2>1, <3>1, PoppedFrame
  <2>5. \/ UNCHANGED saved \/ (\E kind \in {"alarm", "reply"} : Push(kind)) \/ HandlerReturns
    BY DEF Section, Look, AlarmSignal, ReplySignal, OtherCall, VMThreadActivateFile,
           ActivateUnknown, FStopped, ChildSignals, fvars, fileVars, maskVars
  <2> QED
    BY <2>2, <2>3, <2>4, <2>5
<1> QED
  BY <1>1, <1>2, QuietFiles DEF Blocked

\* The steps of a file call that make no request, and the switch away.
LEMMA QuietCallStep ==
    ASSUME FInv, FInv',
           \/ FileCall \/ TakeChunk \/ PopChunk \/ MapCorrupted \/ UnlockPool \/ FileSwitch
           \/ (FirstChunk /\ UNCHANGED <<req, callbacks, inbox>>)
    PROVE  File!Next \/ UNCHANGED File!vars
<1>1. UNCHANGED <<saved, callbacks, req, inbox, replies>>
  BY DEF FileCall, FileOne, FileRead, FileWrite, TakeChunk, PopChunk, MapCorrupted, UnlockPool,
         FileSwitch, FirstChunk, fileVars, maskVars, fcallVars, replyVars
<1>2. SameFrames("map") /\ SameFrames("call")
  BY <1>1 DEF SameFrames, Held, Frame1
<1>3. fpc \in [Threads -> FileLabels] /\ running \in Threads
      /\ fileResult \in [Threads -> Results \cup {0}]
  BY FInvTypes DEF FilesTypeOK
<1>4. \A t \in Threads : /\ Blocked(t)' <=> Blocked(t)
                         /\ Blocked(t) => fileResult'[t] = fileResult[t]
  <2>1. CASE FileSwitch
    <3>1. /\ fpc[running] = "wait" /\ fpc' = [fpc EXCEPT ![running] = "back"]
          /\ UNCHANGED fileResult
      BY <2>1, FHereIs DEF FileSwitch, GoTo
    <3> QED
      BY <1>3, <3>1 DEF Blocked
  <2>2. CASE MapCorrupted
    BY <2>2 DEF MapCorrupted, fileVars, fcallVars, Blocked
  <2>3. CASE ~FileSwitch /\ ~MapCorrupted
    <3>1. PICK a \in {"app", "take", "pop", "unlock", "first"} : FHere(a)
      BY <2>3 DEF FileCall, FileOne, FileRead, FileWrite, Begin, TakeChunk, PopChunk, UnlockPool,
                  FirstChunk
    <3>2. (\E b \in FileLabels \ {"wait", "back"} : GoTo(b)) \/ UNCHANGED fpc
      <4>1. CASE FileCall
        BY <4>1 DEF FileCall, FileOne, FileRead, FileWrite, Begin, FileLabels
      <4>2. CASE TakeChunk \/ PopChunk \/ UnlockPool
        BY <4>2 DEF TakeChunk, PopChunk, UnlockPool, End, FileLabels
      <4>3. CASE FirstChunk /\ UNCHANGED <<req, callbacks, inbox>>
        <5>1. ~SendRequest
          <6> SUFFICES ASSUME SendRequest PROVE FALSE
            OBVIOUS
          <6>1. PICK i \in Requests : callbacks[i] = NoThread /\ callbacks' = [callbacks EXCEPT ![i] = running]
            BY DEF SendRequest
          <6>2. callbacks \in [Requests -> Threads \cup {NoThread}] /\ NoThread \notin Threads
            BY ConstantFacts DEF FInv, FilesTypeOK
          <6> QED
            BY <1>3, <4>3, <6>1, <6>2
        <5> QED
          BY <4>3, <5>1 DEF FirstChunk, FileLabels
      <4> QED
        BY <2>3, <4>1, <4>2, <4>3
    <3>3. \A t \in Threads \ {running} : fileResult'[t] = fileResult[t]
      BY <1>3, <2>3 DEF FileCall, FileOne, FileRead, FileWrite, TakeChunk, PopChunk,
                        UnlockPool, End, FirstChunk
    <3>4. fpc[running] = a
      BY <3>1, FHereIs
    <3> QED
      BY <1>3, <3>1, <3>2, <3>3, <3>4 DEF Blocked, GoTo
  <2> QED
    BY <2>1, <2>2, <2>3
<1> QED
  BY <1>1, <1>2, <1>4, QuietFiles

\* A request is made: the thread asks.
LEMMA AskStep ==
    ASSUME FInv, FInv', SendRequest, UNCHANGED <<running, saved, replies, fileResult>>,
           running \in Threads, ~Blocked(running), fpc' = [fpc EXCEPT ![running] = "wait"]
    PROVE  File!Next
<1>1. PICK r \in Threads : r = running
  OBVIOUS
<1>2. PICK i \in Requests :
         /\ callbacks[i] = NoThread
         /\ req' = [req EXCEPT ![r] = i]
         /\ callbacks' = [callbacks EXCEPT ![i] = r]
         /\ inbox' = inbox \cup {i}
  BY <1>1 DEF SendRequest
<1>3. /\ fpc \in [Threads -> FileLabels] /\ req \in [Threads -> Requests \cup {NoRequest}]
      /\ callbacks \in [Requests -> Threads \cup {NoThread}] /\ NoThread \notin Threads
      /\ Requests = Threads /\ NoRequest \notin Requests
  BY ConstantFacts DEF FInv, FilesTypeOK, Requests, NoRequest, NoThread
<1>4. SameFrames("map") /\ SameFrames("call")
  BY DEF SameFrames, Held, Frame1
<1>5. ASSUME NEW t \in Threads \ {r} PROVE Stays(t)
  <2>1. Blocked(t)' <=> Blocked(t)
    BY <1>1, <1>3, <1>5 DEF Blocked
  <2>2. CASE ~Blocked(t)
    BY <2>1, <2>2 DEF Stays
  <2>3. CASE Blocked(t)
    <3>1. req'[t] = req[t]
      BY <1>2, <1>3, <1>5
    <3>2. Registered(t) => req[t] # i
      BY <1>2, <1>3, <1>5 DEF Registered
    <3>3. (Registered(t)' <=> Registered(t)) /\ (InInbox(t)' <=> InInbox(t))
      BY <1>2, <1>3, <1>5, <3>1, <3>2 DEF Registered, InInbox
    <3>4. \A m \in Mess : Letter(t, m)' <=> Letter(t, m)
      BY <1>4, <3>1, <3>3 DEF Letter, SameFrames
    <3> QED
      BY <2>1, <2>3, <3>3, <3>4 DEF Stays
  <2> QED
    BY <2>2, <2>3
<1>6. StageOf(r) = None
  BY <1>1, StageIs DEF StageReads
<1>7. StageOf(r)' = InWork
  <2>1. (\A x \in Threads : StageReads(x))'
    BY StageIs, PTL
  <2>2. Blocked(r)' /\ InInbox(r)'
    BY <1>1, <1>2, <1>3 DEF Blocked, InInbox, Registered
  <2> QED
    BY <2>1, <2>2 DEF StageReads, InWork
<1>8. [t \in Threads |-> StageOf(t)]' = [[t \in Threads |-> StageOf(t)] EXCEPT ![r] = InWork]
  BY <1>5, <1>7, OneSeen
<1>9. File!Ask
  BY <1>1, <1>6, <1>8 DEF File!Ask, File!Stage, None, InWork
<1> QED
  BY <1>9 DEF File!Next

\* A thread that is back has been served, and goes on.
LEMMA GoOnStep == FInv /\ FInv' /\ Back => File!Next
<1> SUFFICES ASSUME FInv, FInv', Back PROVE File!Next
  OBVIOUS
<1>1. PICK r \in Threads : r = running
  BY FInvTypes
<1>2. /\ fpc[r] = "back"
      /\ UNCHANGED <<allVars, saved, callbacks, inbox, replies>>
      /\ req' = [req EXCEPT ![r] = NoRequest]
      /\ \E b \in {"app", "take", "unlock"} : fpc' = [fpc EXCEPT ![r] = b]
      /\ fileResult' = [fileResult EXCEPT ![r] = 0] \/ UNCHANGED fileResult
  BY <1>1, FHereIs DEF Back, End, GoTo, maskVars, replyVars
<1>3. /\ fpc \in [Threads -> FileLabels] /\ req \in [Threads -> Requests \cup {NoRequest}]
      /\ fileResult \in [Threads -> Results \cup {0}]
  BY DEF FInv, FilesTypeOK
<1>4. SameFrames("map") /\ SameFrames("call")
  BY <1>2 DEF SameFrames, Held, Frame1
<1>5. ASSUME NEW t \in Threads \ {r} PROVE Stays(t)
  <2>1. (Blocked(t)' <=> Blocked(t)) /\ req'[t] = req[t] /\ fileResult'[t] = fileResult[t]
    BY <1>2, <1>3, <1>5 DEF Blocked
  <2> QED
    BY <1>2, <1>4, <2>1, Untouched
<1>6. StageOf(r).stage = "served"
  <2>1. Blocked(r) /\ ~InInbox(r)
    BY <1>1, <1>2, BackIsAnswered DEF Blocked, InInbox, Outstanding
  <2> QED
    BY <2>1, StageIs DEF StageReads, Served
<1>7. StageOf(r)' = None
  <2>1. (\A x \in Threads : StageReads(x))'
    BY StageIs, PTL
  <2>2. ~Blocked(r)'
    BY <1>2, <1>3 DEF Blocked
  <2> QED
    BY <2>1, <2>2 DEF StageReads, None
<1>8. [t \in Threads |-> StageOf(t)]' = [[t \in Threads |-> StageOf(t)] EXCEPT ![r] = None]
  BY <1>5, <1>7, OneSeen
<1>9. File!GoOn
  <2>1. UNCHANGED running
    BY <1>2 DEF allVars, vars
  <2> QED
    BY <1>1, <1>6, <1>8, <2>1 DEF File!GoOn, File!Stage, None
<1> QED
  BY <1>9 DEF File!Next

\* The child serves one thread's request.
LEMMA ServeStep == FInv /\ FInv' /\ ChildAnswers => File!Next
<1> SUFFICES ASSUME FInv, FInv', ChildAnswers PROVE File!Next
  OBVIOUS
<1> DEFINE new(j, x) == [id |-> j, result |-> x]
<1>1. PICK i \in inbox, r \in Results :
        inbox' = inbox \ {i} /\ replies' = Append(replies, new(i, r))
  BY DEF ChildAnswers
<1>2. UNCHANGED <<running, saved, fpc, req, fileResult, callbacks>>
  BY DEF ChildAnswers, allVars, vars, maskVars, fcallVars
<1>3. /\ i \in Requests /\ new(i, r) \in Message /\ replies \in Seq(Message)
      /\ new(i, r).id = i /\ new(i, r).result = r /\ new(i, r) \in Mess
  BY DEF FInv, FilesTypeOK, Message, Mess, Requests
<1> HIDE DEF new
<1>4. \A m : (\E k \in DOMAIN replies' : replies'[k] = m)
               <=> (\E k \in DOMAIN replies : replies[k] = m) \/ m = new(i, r)
  <2>1. /\ replies' \in Seq(Message) /\ Len(replies') = Len(replies) + 1
        /\ replies'[Len(replies) + 1] = new(i, r)
        /\ \A k \in 1 .. Len(replies) : replies'[k] = replies[k]
    BY <1>1, <1>3, Appended
  <2>2. /\ DOMAIN replies' = 1 .. Len(replies) + 1 /\ DOMAIN replies = 1 .. Len(replies)
        /\ Len(replies) \in Nat
    BY <1>3, <2>1
  <2> QED
    BY <2>1, <2>2
<1>5. SameFrames("map") /\ SameFrames("call")
  BY <1>2 DEF SameFrames, Held, Frame1
<1>6. PICK c : c = callbacks[i]
  OBVIOUS
<1>7. /\ c \in Threads /\ req[c] = i /\ Blocked(c) /\ Registered(c)
  <2>1. Asked(i) /\ callbacks \in [Requests -> Threads \cup {NoThread}]
    BY DEF FInv, Letters, Queued, FilesTypeOK
  <2>2. NoRequest \notin Requests
    BY ConstantFacts DEF Requests, NoRequest
  <2> QED
    BY <1>3, <1>6, <2>1, <2>2 DEF FInv, Letters, Own, Asked, Registered
<1>8. ASSUME NEW t \in Threads \ {c} PROVE Stays(t)
  <2>1. Registered(t) => req[t] # i
    BY <1>6, <1>8 DEF Registered
  <2>2. (Blocked(t)' <=> Blocked(t)) /\ (Registered(t)' <=> Registered(t))
    BY <1>2 DEF Blocked, Registered
  <2>3. InInbox(t)' <=> InInbox(t)
    BY <1>1, <1>2, <2>1, <2>2 DEF InInbox
  <2>4. \A m \in Mess : Letter(t, m)' <=> Letter(t, m)
    BY <1>2, <1>3, <1>4, <1>5, <2>1, <2>2 DEF Letter, SameFrames
  <2> QED
    BY <1>2, <2>2, <2>3, <2>4 DEF Stays
<1>9. StageOf(c) = InWork
  BY <1>7, StageIs DEF StageReads, InInbox
<1>10. StageOf(c)' = Served(r)
  <2>1. (\A x \in Threads : StageReads(x))'
    BY StageIs, PTL
  <2>2. Blocked(c)' /\ ~InInbox(c)' /\ Letter(c, new(i, r))'
    BY <1>1, <1>2, <1>3, <1>4, <1>7 DEF Blocked, InInbox, Registered, Letter
  <2> QED
    BY <1>3, <1>7, <2>1, <2>2 DEF StageReads, Served
<1>11. [t \in Threads |-> StageOf(t)]' = [[t \in Threads |-> StageOf(t)] EXCEPT ![c] = Served(r)]
  BY <1>7, <1>8, <1>10, OneSeen
<1>12. File!Serve(c, r)
  BY <1>2, <1>7, <1>9, <1>11 DEF File!Serve, File!Stage, InWork, Served
<1> QED
  BY <1>7, <1>12 DEF File!Next

\* The handler takes an answer from the queue: it is still that thread's.
LEMMA TakeLetter == FInv /\ FInv' /\ Receive => File!Next \/ UNCHANGED File!vars
<1> SUFFICES ASSUME FInv, FInv', Receive PROVE File!Next \/ UNCHANGED File!vars
  OBVIOUS
<1> DEFINE top == Len(saved[running])
           first == replies[1]
<1>1. /\ UNCHANGED <<fpc, req, fileResult, callbacks, inbox>>
      /\ InHandler("reply") /\ replies # <<>> /\ SetFrame("map", first)
  BY DEF Receive, fcallVars, FirstReply
<1>2. /\ replies \in Seq(Message) /\ first \in Message
      /\ replies' = Tail(replies) /\ replies' \in Seq(Message)
      /\ Len(replies) \in Nat \ {0} /\ Len(replies') = Len(replies) - 1
      /\ \A k \in 1 .. Len(replies') : replies'[k] = replies[k + 1]
  <2>1. replies \in Seq(Message)
    BY DEF FInv, FilesTypeOK
  <2>2. replies' = Tail(replies)
    BY <1>1, <2>1, WithoutFirst DEF Receive
  <2> QED
    BY <1>1, <2>1, <2>2, Popped
<1>3. first \in Mess
  BY <1>2 DEF Message, Mess, Requests
<1>4. /\ SameFrames("call") /\ running \in Threads /\ top \in Nat
      /\ \A u \in Threads, k \in Nat, m \in Mess :
           Held("map", u, k, m)' <=> \/ Held("map", u, k, m)
                                     \/ u = running /\ k = top /\ m = first
  BY <1>1, <1>3, TopBecomes DEF Kinds, SameFrames
<1>5. \A m : (\E k \in DOMAIN replies : replies[k] = m)
               <=> (\E k \in DOMAIN replies' : replies'[k] = m) \/ m = first
  <2>1. DOMAIN replies = 1 .. Len(replies) /\ DOMAIN replies' = 1 .. Len(replies) - 1
    BY <1>2
  <2>2. ASSUME NEW m, NEW k \in DOMAIN replies, replies[k] = m, m # first
        PROVE  \E l \in DOMAIN replies' : replies'[l] = m
    <3>1. k - 1 \in 1 .. Len(replies') /\ (k - 1) + 1 = k
      BY <1>2, <2>1, <2>2
    <3>2. replies'[k - 1] = replies[k]
      BY <1>2, <3>1
    <3> QED
      BY <1>2, <2>1, <2>2, <3>1, <3>2
  <2>3. ASSUME NEW k \in DOMAIN replies' PROVE k + 1 \in DOMAIN replies /\ replies'[k] = replies[k + 1]
    BY <1>2, <2>1, <2>3
  <2>4. 1 \in DOMAIN replies
    BY <1>2, <2>1
  <2> QED
    BY <2>2, <2>3, <2>4
<1>6. ASSUME NEW t \in Threads PROVE Stays(t)
  <2>1. /\ Blocked(t)' <=> Blocked(t)
        /\ Registered(t)' <=> Registered(t)
        /\ InInbox(t)' <=> InInbox(t)
    BY <1>1 DEF Blocked, Registered, InInbox
  <2>2. ASSUME NEW m \in Mess PROVE Letter(t, m)' <=> Letter(t, m)
    <3>1. CASE Registered(t)
      <4>1. (\E u \in Threads, k \in Nat : Held("map", u, k, m)')
              <=> (\E u \in Threads, k \in Nat : Held("map", u, k, m)) \/ m = first
        BY <1>4
      <4> QED
        BY <1>1, <1>5, <2>1, <3>1, <4>1 DEF Letter
    <3>2. CASE ~Registered(t)
      BY <1>1, <1>4, <2>1, <3>2 DEF Letter, SameFrames
    <3> QED
      BY <3>1, <3>2
  <2> QED
    BY <1>1, <2>1, <2>2 DEF Stays
<1> QED
  BY <1>6, NothingSeen

\* The entry is erased: the answer goes with the frame that will call its thread.
LEMMA EraseSeen == FInv /\ FInv' /\ EraseCallback => File!Next \/ UNCHANGED File!vars
<1> SUFFICES ASSUME FInv, FInv', EraseCallback PROVE File!Next \/ UNCHANGED File!vars
  OBVIOUS
<1>1. PICK r, c \in Threads, top \in Nat, old, new \in Mess : Erases(r, c, top, old, new)
  BY Erased
<1>2. /\ UNCHANGED <<fpc, req, fileResult, inbox, replies>>
      /\ old.id \notin inbox /\ callbacks[old.id] = c /\ req[c] = old.id
      /\ new.id = c /\ new.result = old.result /\ Blocked(c) /\ Registered(c)
  BY <1>1 DEF Erases
<1>3. /\ Held("map", r, top, old) /\ Held("call", r, top, new)'
      /\ \A u \in Threads, k \in Nat, m \in Mess :
           /\ Held("map", u, k, m)' <=> Held("map", u, k, m) /\ m.id # old.id
           /\ Held("call", u, k, m)' <=> \/ Held("call", u, k, m)
                                         \/ u = r /\ k = top /\ m = new
  BY <1>1 DEF Erases
<1>4. ~Registered(c)' /\ \A t \in Threads \ {c} : Registered(t)' <=> Registered(t)
  BY <1>1, ErasedNames
<1>5. \A t : Blocked(t)' <=> Blocked(t)
  BY <1>2 DEF Blocked
<1>6. Stays(c)
  <2>1. ~InInbox(c) /\ ~InInbox(c)'
    BY <1>2, <1>4 DEF InInbox
  <2>2. Letter(c, old)
    BY <1>2, <1>3 DEF Letter
  <2>3. \A m \in Mess : Letter(c, m) => m = old
    BY <2>2, OneLetter
  <2>4. Letter(c, new)'
    BY <1>2, <1>3, <1>4 DEF Letter
  <2> QED
    BY <1>2, <1>5, <2>1, <2>2, <2>3, <2>4 DEF Stays
<1>7. ASSUME NEW t \in Threads \ {c} PROVE Stays(t)
  <2>1. (Registered(t)' <=> Registered(t)) /\ (Registered(t) => req[t] # old.id)
    BY <1>2, <1>4 DEF Registered
  <2>2. InInbox(t)' <=> InInbox(t)
    BY <1>2, <2>1 DEF InInbox
  <2>3. ASSUME NEW m \in Mess PROVE Letter(t, m)' <=> Letter(t, m)
    <3>1. CASE Registered(t)
      <4>1. m.id = req[t] => \A u \in Threads, k \in Nat : Held("map", u, k, m)' <=> Held("map", u, k, m)
        BY <1>3, <2>1, <3>1
      <4> QED
        BY <1>2, <2>1, <3>1, <4>1 DEF Letter
    <3>2. CASE ~Registered(t)
      <4>1. m.id = t => \A u \in Threads, k \in Nat : Held("call", u, k, m)' <=> Held("call", u, k, m)
        BY <1>2, <1>3
      <4> QED
        BY <2>1, <3>2, <4>1 DEF Letter
    <3> QED
      BY <3>1, <3>2
  <2> QED
    BY <1>2, <1>5, <2>2, <2>3 DEF Stays
<1>8. \A t \in Threads : Stays(t)
  BY <1>6, <1>7
<1> QED
  BY <1>8, NothingSeen

\* The callback: the answer becomes the result that its thread finds.
LEMMA CallbackSeen == FInv /\ FInv' /\ FileCallback => File!Next \/ UNCHANGED File!vars
<1> SUFFICES ASSUME FInv, FInv', FileCallback PROVE File!Next \/ UNCHANGED File!vars
  OBVIOUS
<1>1. /\ UNCHANGED <<fpc, req, callbacks, inbox, replies>>
      /\ InHandler("call") /\ SetFrame("reply", NoMessage)
      /\ fileResult' = [fileResult EXCEPT ![TopFrame.mess.id] = TopFrame.mess.result]
  BY DEF FileCallback, fcallVars, replyVars, ResultFor
<1>2. PICK r \in Threads : r = running
  BY FInvTypes
<1>3. NoMessage \in Mess
  BY DEF NoMessage, Mess
<1>4. TopFrame.mess \in Mess /\ Len(saved[running]) \in Nat
  BY <1>1, <1>3, TopBecomes DEF Kinds
<1>5. PICK old \in Mess, l \in Nat : old = TopFrame.mess /\ l = Len(saved[running])
  BY <1>4
<1>6. /\ Held("call", r, l, old) /\ SameFrames("map")
      /\ \A u \in Threads, k \in Nat, m \in Mess :
           Held("call", u, k, m)' <=> Held("call", u, k, m) /\ ~(u = r /\ k = l)
  <2>1. Held("call", r, l, old)
    BY <1>1, <1>2, <1>3, <1>5, TopBecomes DEF Kinds
  <2>2. \A m \in Mess : ~Held("map", r, l, m)
    BY <1>1, <1>2, <1>3, <1>5, TopBecomes DEF Kinds
  <2>3. \A u \in Threads, k \in Nat, m \in Mess :
          \A k2 \in {"map", "call"} : Held(k2, u, k, m)' <=> Held(k2, u, k, m) /\ ~(u = r /\ k = l)
    BY <1>1, <1>2, <1>3, <1>5, TopBecomes DEF Kinds
  <2> QED
    BY <2>1, <2>2, <2>3 DEF SameFrames
<1>7. PICK c : c = old.id
  OBVIOUS
<1>8. /\ c \in Threads /\ Blocked(c) /\ ~Registered(c)
      /\ fileResult' = [fileResult EXCEPT ![c] = old.result]
      /\ fileResult \in [Threads -> Results \cup {0}]
  <2>1. c \in Threads /\ Blocked(c) /\ \A j \in Requests : callbacks[j] # c
    BY <1>6, <1>7 DEF FInv, Letters, Told
  <2>2. req[c] # NoRequest => req[c] \in Requests
    BY <2>1 DEF FInv, FilesTypeOK
  <2> QED
    BY <1>1, <1>5, <1>7, <2>1, <2>2 DEF Registered, FInv, FilesTypeOK
<1>9. \A t : (Blocked(t)' <=> Blocked(t)) /\ (Registered(t)' <=> Registered(t))
              /\ (InInbox(t)' <=> InInbox(t))
  BY <1>1 DEF Blocked, Registered, InInbox
<1>10. Stays(c)
  <2>1. Letter(c, old)
    BY <1>6, <1>7, <1>8 DEF Letter
  <2>2. \A m \in Mess : Letter(c, m) => m = old
    BY <1>8, <2>1, OneLetter
  <2>3. ASSUME NEW n \in Mess, Letter(c, n)' PROVE FALSE
    <3>1. PICK u \in Threads, k \in Nat : Held("call", u, k, n)' /\ n.id = c
      BY <1>8, <1>9, <2>3 DEF Letter
    <3>2. Held("call", u, k, n) /\ ~(u = r /\ k = l)
      BY <1>6, <3>1
    <3> QED
      BY <1>6, <1>7, <3>1, <3>2 DEF FInv, Letters, Once
  <2>4. fileResult'[c] = old.result
    BY <1>8
  <2>5. ~InInbox(c) /\ ~InInbox(c)'
    BY <1>8, <1>9 DEF InInbox
  <2> QED
    BY <1>9, <2>1, <2>2, <2>3, <2>4, <2>5 DEF Stays
<1>11. ASSUME NEW t \in Threads \ {c} PROVE Stays(t)
  <2>1. \A m \in Mess, u \in Threads, k \in Nat : m.id = t =>
          (Held("call", u, k, m)' <=> Held("call", u, k, m))
    <3>1. \A m \in Mess : Held("call", r, l, m) => m = old
      BY <1>6 DEF Held
    <3> QED
      BY <1>6, <1>7, <3>1
  <2>2. \A m \in Mess : Letter(t, m)' <=> Letter(t, m)
    BY <1>1, <1>6, <1>9, <2>1 DEF Letter, SameFrames
  <2>3. fileResult'[t] = fileResult[t]
    BY <1>8
  <2> QED
    BY <1>9, <2>2, <2>3 DEF Stays
<1>12. \A t \in Threads : Stays(t)
  BY <1>10, <1>11
<1> QED
  BY <1>12, NothingSeen

\* Answers that are taken during a switch become results at once.
LEMMA SwitchSeen == FInv /\ FInv' /\ ReplyInSwitch => File!Next \/ UNCHANGED File!vars
<1> SUFFICES ASSUME FInv, FInv', ReplyInSwitch PROVE File!Next \/ UNCHANGED File!vars
  OBVIOUS
<1>1. PICK ids : ids = {replies[k].id : k \in DOMAIN replies}
  OBVIOUS
<1>2. PICK C : C = {callbacks[i] : i \in ids}
  OBVIOUS
<1>3. /\ callbacks' = [i \in Requests |-> IF i \in ids THEN NoThread ELSE callbacks[i]]
      /\ \A t \in Threads \ C : fileResult'[t] = fileResult[t]
      /\ \A k \in DOMAIN replies : fileResult'[callbacks[replies[k].id]] = replies[k].result
      /\ replies' = <<>> /\ UNCHANGED <<saved, fpc, req, inbox>>
  BY <1>1, <1>2 DEF ReplyInSwitch, fcallVars
<1>4. /\ callbacks \in [Requests -> Threads \cup {NoThread}] /\ NoThread \notin Threads
      /\ \A t \in Threads : req[t] # NoRequest => req[t] \in Requests
      /\ \A k \in DOMAIN replies : replies[k] \in Mess /\ replies[k].id \in Requests
  BY ConstantFacts, ReplyType DEF FInv, FilesTypeOK, NoThread, Message, Mess, Requests
<1>5. \A i \in ids : /\ i \in Requests /\ Asked(i) /\ i \notin inbox /\ callbacks[i] \in Threads
                     /\ req[callbacks[i]] = i /\ Blocked(callbacks[i])
  <2>1. \A i \in ids : i \in Requests /\ Asked(i) /\ i \notin inbox
    BY <1>1, <1>4 DEF FInv, Letters, Queued
  <2> QED
    BY <1>4, <2>1 DEF FInv, Letters, Own, Asked
<1>6. SameFrames("map") /\ SameFrames("call")
  BY <1>3 DEF SameFrames, Held, Frame1
<1>7. \A t \in Threads : Blocked(t)' <=> Blocked(t)
  BY <1>3 DEF Blocked
<1>8. \A i \in Requests : callbacks'[i] = IF i \in ids THEN NoThread ELSE callbacks[i]
  BY <1>3
<1>9. ASSUME NEW t \in C PROVE Stays(t)
  <2>1. PICK k \in DOMAIN replies : t = callbacks[replies[k].id]
    BY <1>1, <1>2
  <2>2. /\ t \in Threads /\ req[t] = replies[k].id /\ Blocked(t)
        /\ req[t] \in ids /\ req[t] \in Requests /\ req[t] \notin inbox
    BY <1>1, <1>5, <2>1
  <2>3. Registered(t) /\ ~Registered(t)'
    <3>1. NoRequest \notin Requests
      BY ConstantFacts DEF Requests, NoRequest
    <3> QED
      BY <1>3, <1>4, <1>8, <2>1, <2>2, <3>1 DEF Registered
  <2>4. PICK m \in Mess : m = replies[k]
    BY <1>4
  <2>5. Letter(t, m) /\ \A x \in Mess : Letter(t, x) => x = m
    <3>1. Letter(t, m)
      BY <2>2, <2>3, <2>4 DEF Letter
    <3> QED
      BY <2>2, <3>1, OneLetter
  <2>6. \A n \in Mess : ~Letter(t, n)'
    <3>1. \A u \in Threads, l \in Nat, n \in Mess : n.id = t => ~Held("call", u, l, n)
      BY <1>4, <2>1 DEF FInv, Letters, Told
    <3> QED
      BY <1>6, <2>3, <3>1 DEF Letter, SameFrames
  <2>7. fileResult'[t] = m.result
    BY <1>3, <2>1, <2>4
  <2>8. ~InInbox(t) /\ ~InInbox(t)'
    BY <2>2, <2>3 DEF InInbox
  <2> QED
    BY <1>7, <2>2, <2>5, <2>6, <2>7, <2>8 DEF Stays
<1>10. ASSUME NEW t \in Threads \ C PROVE Stays(t)
  <2>1. Registered(t) => req[t] \in Requests /\ req[t] \notin ids
    BY <1>2, <1>4 DEF Registered
  <2>2. Registered(t)' <=> Registered(t)
    BY <1>3, <1>4, <1>8, <2>1 DEF Registered
  <2>3. InInbox(t)' <=> InInbox(t)
    BY <1>3, <2>2 DEF InInbox
  <2>4. ASSUME NEW m \in Mess PROVE Letter(t, m)' <=> Letter(t, m)
    <3>1. DOMAIN replies' = {}
      BY <1>3
    <3>2. Registered(t) /\ m.id = req[t] => \A k \in DOMAIN replies : replies[k] # m
      BY <1>1, <2>1
    <3> QED
      BY <1>3, <1>6, <2>2, <3>1, <3>2 DEF Letter, SameFrames
  <2>5. fileResult'[t] = fileResult[t]
    BY <1>3
  <2> QED
    BY <1>7, <2>3, <2>4, <2>5 DEF Stays
<1>11. \A t \in Threads : Stays(t)
  BY <1>9, <1>10
<1> QED
  BY <1>11, NothingSeen

LEMMA FileStepSeen == FInv /\ FInv' /\ [FNext]_fvars => [File!Next]_(File!vars)
<1> SUFFICES ASSUME FInv, FInv', [FNext]_fvars PROVE File!Next \/ UNCHANGED File!vars
  OBVIOUS
<1>1. CASE \/ Section \/ Look \/ AlarmSignal \/ HandlerReturns \/ ReplySignal \/ OtherCall
           \/ (\E x \in Users : VMThreadActivateFile(x))
           \/ (\E x \in StrayIDs : ActivateUnknown(x))
           \/ FStopped \/ ChildSignals \/ UNCHANGED fvars
  BY <1>1, QuietFileStep
<1>2. CASE \/ FileCall \/ TakeChunk \/ PopChunk \/ MapCorrupted \/ UnlockPool \/ FileSwitch
           \/ (FirstChunk /\ UNCHANGED <<req, callbacks, inbox>>)
  BY <1>2, QuietCallStep
<1>3. CASE Send \/ (FirstChunk /\ ~UNCHANGED <<req, callbacks, inbox>>)
  <2>1. running \in Threads /\ fpc \in [Threads -> FileLabels]
    BY FInvTypes DEF FilesTypeOK
  <2>2. SendRequest /\ GoTo("wait") /\ (FHere("send") \/ FHere("first"))
    BY <1>3 DEF Send, FirstChunk
  <2>3. ~Blocked(running)
    BY <2>2, FHereIs DEF Blocked
  <2>4. UNCHANGED <<running, saved, replies, fileResult>>
    BY <1>3 DEF Send, FirstChunk, allVars, vars, schedButVm
  <2> QED
    BY <2>1, <2>2, <2>3, <2>4, AskStep DEF GoTo
<1>4. CASE Back \/ ChildAnswers
  BY <1>4, GoOnStep, ServeStep
<1>5. CASE Receive \/ EraseCallback \/ FileCallback \/ ReplyInSwitch
  BY <1>5, TakeLetter, EraseSeen, CallbackSeen, SwitchSeen
<1> QED
  BY <1>1, <1>2, <1>3, <1>4, <1>5 DEF FNext, Handler, FileStep, Child, AppCall

\* Every file request keeps the promise of FileSpec for all priorities and numbers of
\* threads and chunks: from the call that makes it until that thread goes on, only its
\* own answer changes where it stands, and the thread goes on once, with the result the
\* child gave to that very request, whatever handlers nest and threads switch while
\* the answer is in the queue, in a handler's frame or handed over.
THEOREM RequestsServed == FSpec => FileCallsRefined
<1>1. FInit => File!Init
  <2> SUFFICES ASSUME FInit PROVE File!Init
    OBVIOUS
  <2>1. \A t \in Threads : StageOf(t) = None
    BY DEF FInit, StageOf, None
  <2>2. running \in Threads
    BY FInitInv, FInvTypes DEF FInv, MOver, MTypeOK, TypeOver
  <2> QED
    BY <2>1, <2>2 DEF File!Init, File!Stage, None
<1> QED
  BY <1>1, FInitInv, FInvStep, FileStepSeen, PTL DEF FSpec, FileCallsRefined, File!Spec
=============================================================================
