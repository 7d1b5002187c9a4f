----------------------------- MODULE FileIOProofs -----------------------------
(***************************************************************************)
(* Proofs about FileIO, for all priorities and numbers of threads, chunks  *)
(* and mutexes: types and the place of every thread; and for user threads  *)
(* of one priority, whose chunks stay apart and who alone hears the child. *)
(***************************************************************************)
EXTENDS FileIO, LockProofs, SequenceTheorems

-----------------------------------------------------------------------------
(* Sequences.                                                              *)

\* Pushing onto a stack, popping it, replacing its top.
LEMMA Pushed ==
    ASSUME NEW S, NEW s \in Seq(S), NEW f \in S
    PROVE  /\ <<f>> \o s \in Seq(S) /\ Len(<<f>> \o s) = Len(s) + 1
           /\ (<<f>> \o s)[1] = f
           /\ \A i \in 1 .. Len(s) : (<<f>> \o s)[i + 1] = s[i]
OBVIOUS

LEMMA Popped ==
    ASSUME NEW S, NEW s \in Seq(S), s # <<>>
    PROVE  /\ Tail(s) \in Seq(S) /\ Len(Tail(s)) = Len(s) - 1
           /\ Len(s) \in Nat \ {0} /\ s[1] \in S /\ Head(s) = s[1]
           /\ \A i \in 1 .. Len(s) - 1 : Tail(s)[i] = s[i + 1]
OBVIOUS

LEMMA Replaced ==
    ASSUME NEW S, NEW s \in Seq(S), s # <<>>, NEW f \in S
    PROVE  LET r == [s EXCEPT ![1] = f]
           IN  /\ r \in Seq(S) /\ Len(r) = Len(s)
               /\ r[1] = f
               /\ \A i \in 2 .. Len(s) : r[i] = s[i]
OBVIOUS

LEMMA Appended ==
    ASSUME NEW S, NEW s \in Seq(S), NEW f \in S
    PROVE  /\ Append(s, f) \in Seq(S) /\ Len(Append(s, f)) = Len(s) + 1
           /\ Append(s, f)[Len(s) + 1] = f
           /\ \A i \in 1 .. Len(s) : Append(s, f)[i] = s[i]
OBVIOUS

\* What Receive leaves of the queue.
LEMMA WithoutFirst ==
    ASSUME NEW S, NEW s \in Seq(S), s # <<>>
    PROVE  SubSeq(s, 1, FirstReply - 1) \o SubSeq(s, FirstReply + 1, Len(s)) = Tail(s)
<1>1. SubSeq(s, 1, FirstReply - 1) = <<>>
  BY SubSeqEmpty DEF FirstReply
<1>2. SubSeq(s, FirstReply + 1, Len(s)) = Tail(s)
  BY TailIsSubSeq DEF FirstReply
<1>3. Tail(s) \in Seq(S)
  OBVIOUS
<1>4. <<>> \o Tail(s) = Tail(s)
  BY <1>3, ConcatEmptySeq
<1> QED
  BY <1>1, <1>2, <1>4

-----------------------------------------------------------------------------
(* The inductive invariant.                                                *)

Mess   == [id : Threads \cup {NoRequest}, result : Results \cup {0}]
Frames == [kind : Kinds, mask : Masks, mess : Mess]

FilesTypeOK ==
    /\ mask \in Masks /\ sigState \in Masks
    /\ saved \in [Threads -> Seq(Frames)]
    /\ \A t \in Threads : Len(saved[t]) = Len(irq[t])
    /\ fpc \in [Threads -> FileLabels] /\ op \in [Threads -> Ops]
    /\ left \in [Threads -> Nat]
    /\ chunk \in [Threads -> Chunks \cup {NoChunk}]
    /\ pool \in Seq(Chunks)
    /\ req \in [Threads -> Requests \cup {NoRequest}]
    /\ fileResult \in [Threads -> Results \cup {0}]
    /\ callbacks \in [Requests -> Threads \cup {NoThread}]
    /\ inbox \subseteq Requests /\ replies \in Seq(Message)
    /\ signalling \in BOOLEAN /\ usr2 \in BOOLEAN

\* The frames on a stack, counted from its bottom: a push or a pop moves none of
\* the others.  Held(kind, u, k, m): the k-th frame of u is a `kind' about m.
Frame1(u, k) == saved[u][Len(saved[u]) + 1 - k]
Held(kind, u, k, m) ==
    k \in 1 .. Len(saved[u]) /\ Frame1(u, k).kind = kind /\ Frame1(u, k).mess = m

\* A blocked thread that is owed nothing yet counts as a place it does not have;
\* one that has switched away, and waits for its answer, is in one.
Awaited == [t \in Threads |->
    (IF fpc[t] = "back" /\ Outstanding(t) THEN 1 ELSE 0)
        - (IF fpc[t] = "wait" /\ ~Outstanding(t) THEN 1 ELSE 0)]

\* A file call stands where the scheduler sees user code, but for the first
\* section of a write, which the acquire of the memory mutex precedes.
Inside == {"user", "test", "lock", "park", "mwait", "woken"}
Placed ==
    /\ fpc[Idle] = "app"
    /\ \A t \in Threads : /\ fpc[t] \notin {"app", "first"} => pc[t] = "user"
                          /\ fpc[t] = "first" => pc[t] \in Inside
\* A transfer that has begun has a chunk.
Equipped ==
    \A t \in Threads :
        \/ fpc[t] \in {"pop", "send", "wait", "back"} /\ op[t] # "one"
        \/ fpc[t] = "take" /\ op[t] = "write"
        => chunk[t] \in Chunks

\* A callback is of the blocked thread whose request it is.
Blocked(t) == fpc[t] \in {"wait", "back"}
Asked(i) == callbacks[i] # NoThread
Own == \A i \in Requests : Asked(i) => req[callbacks[i]] = i /\ Blocked(callbacks[i])

\* A registered request is in one place: the child's queue, the replies, or the
\* frame of the handler that looks at the map.
Queued ==
    /\ \A i \in inbox : Asked(i)
    /\ \A k \in DOMAIN replies : Asked(replies[k].id) /\ replies[k].id \notin inbox
    /\ \A k, l \in DOMAIN replies : replies[k].id = replies[l].id => k = l
Looked ==
    \A u \in Threads, k \in Nat, m \in Mess : Held("map", u, k, m) =>
        /\ m.id \in Requests /\ Asked(m.id) /\ m.id \notin inbox
        /\ \A l \in DOMAIN replies : replies[l].id # m.id
\* A handler about to call back names a blocked thread without a callback.
Told ==
    \A u \in Threads, k \in Nat, m \in Mess : Held("call", u, k, m) =>
        /\ m.id \in Threads /\ Blocked(m.id)
        /\ \A i \in Requests : callbacks[i] # m.id
Once(kind) ==
    \A u, v \in Threads, k, l \in Nat, m, n \in Mess :
        Held(kind, u, k, m) /\ Held(kind, v, l, n) /\ m.id = n.id => u = v /\ k = l

Letters == Own /\ Queued /\ Looked /\ Told /\ Once("map") /\ Once("call")
FInv == FilesTypeOK /\ MOver(Awaited) /\ Placed /\ Equipped /\ Letters

-----------------------------------------------------------------------------
(* Frames.                                                                 *)

\* A frame is about one message.
LEMMA HeldMess ==
    ASSUME FilesTypeOK, NEW u \in Threads, NEW k, NEW m, NEW kind, Held(kind, u, k, m)
    PROVE  /\ m \in Mess /\ k \in Nat /\ m = Frame1(u, k).mess
           /\ Frame1(u, k) \in Frames
<1>1. saved[u] \in Seq(Frames) /\ k \in 1 .. Len(saved[u])
  BY DEF FilesTypeOK, Held
<1>2. Len(saved[u]) + 1 - k \in 1 .. Len(saved[u])
  BY <1>1
<1>3. Frame1(u, k) \in Frames
  BY <1>1, <1>2 DEF Frame1
<1> QED
  BY <1>1, <1>3 DEF Held, Frames

LEMMA TellingIs ==
    ASSUME FilesTypeOK, NEW kind, NEW id
    PROVE  Telling(kind, id) =
             {m \in Mess : m.id = id /\ \E u \in Threads, k \in Nat : Held(kind, u, k, m)}
<1> DEFINE T == {m \in Mess : m.id = id /\ \E u \in Threads, k \in Nat : Held(kind, u, k, m)}
<1>1. ASSUME NEW m \in Telling(kind, id) PROVE m \in T
  <2>0. PICK u \in Threads : \E j \in DOMAIN saved[u] :
            saved[u][j].kind = kind /\ saved[u][j].mess.id = id /\ m = saved[u][j].mess
    BY <1>1 DEF Telling
  <2>1. PICK j \in DOMAIN saved[u] :
            saved[u][j].kind = kind /\ saved[u][j].mess.id = id /\ m = saved[u][j].mess
    BY <2>0
  <2>2. saved[u] \in Seq(Frames) /\ j \in 1 .. Len(saved[u])
    BY <2>1 DEF FilesTypeOK
  <2> DEFINE k == Len(saved[u]) + 1 - j
  <2>3. k \in 1 .. Len(saved[u]) /\ Len(saved[u]) + 1 - k = j
    BY <2>2
  <2>4. Held(kind, u, k, m)
    BY <2>1, <2>3 DEF Held, Frame1
  <2> QED
    BY <2>1, <2>4, HeldMess
<1>2. ASSUME NEW m \in T PROVE m \in Telling(kind, id)
  <2>1. PICK u \in Threads, k \in Nat : Held(kind, u, k, m)
    BY <1>2
  <2>2. saved[u] \in Seq(Frames) /\ k \in 1 .. Len(saved[u])
    BY <2>1 DEF FilesTypeOK, Held
  <2>3. Len(saved[u]) + 1 - k \in DOMAIN saved[u]
    BY <2>2
  <2> QED
    BY <1>2, <2>1, <2>3 DEF Telling, Held, Frame1
<1> HIDE DEF T
<1>3. Telling(kind, id) = T
  BY <1>1, <1>2
<1> QED
  BY <1>3 DEF T

\* The handler frames that a step neither enters nor leaves stay as they are.
SameFrames(kind) ==
    \A u \in Threads, k \in Nat, m \in Mess : Held(kind, u, k, m)' <=> Held(kind, u, k, m)

LEMMA PushedFrame ==
    ASSUME FilesTypeOK, running \in Threads, NEW kind \in {"alarm", "reply"}, Push(kind)
    PROVE  /\ saved' \in [Threads -> Seq(Frames)]
           /\ \A t \in Threads : Len(saved'[t]) = Len(saved[t]) + (IF t = running THEN 1 ELSE 0)
           /\ SameFrames("map") /\ SameFrames("call")
<1> DEFINE f == Frame(kind, mask)
<1>1. saved \in [Threads -> Seq(Frames)] /\ f \in Frames /\ f.kind = kind
  BY DEF FilesTypeOK, Frames, Frame, Kinds, Mess, NoMessage
<1>2. saved' = [saved EXCEPT ![running] = <<f>> \o saved[running]]
  BY DEF Push
<1> HIDE DEF f
<1>3. saved' \in [Threads -> Seq(Frames)]
  BY <1>1, <1>2, Pushed
<1>4. \A t \in Threads : Len(saved'[t]) = Len(saved[t]) + (IF t = running THEN 1 ELSE 0)
  BY <1>1, <1>2, Pushed
<1>5. ASSUME NEW k2 \in {"map", "call"} PROVE SameFrames(k2)
  <2> SUFFICES ASSUME NEW u \in Threads, NEW k \in Nat, NEW m \in Mess
               PROVE  Held(k2, u, k, m)' <=> Held(k2, u, k, m)
    BY DEF SameFrames
  <2>1. CASE u # running
    BY <1>1, <1>2, <2>1 DEF Held, Frame1
  <2>2. CASE u = running
    <3> DEFINE s == saved[running]
               r == <<f>> \o s
    <3>1. saved'[running] = r /\ s \in Seq(Frames)
      BY <1>1, <1>2
    <3>2. /\ Len(r) = Len(s) + 1 /\ r[1] = f
          /\ \A i \in 1 .. Len(s) : r[i + 1] = s[i]
      BY <1>1, <3>1, Pushed
    <3>3. \A i \in 1 .. Len(s) : r[Len(r) + 1 - i] = s[Len(s) + 1 - i]
      BY <3>1, <3>2
    <3>4. r[Len(r) + 1 - Len(r)].kind # k2
      BY <1>1, <3>1, <3>2
    <3>7. Len(s) \in Nat /\ Len(r) = Len(s) + 1
      BY <3>1, <3>2
    <3> HIDE DEF r, s
    <3>8. /\ Held(k2, u, k, m) <=> k \in 1 .. Len(s) /\ s[Len(s) + 1 - k].kind = k2
                                   /\ s[Len(s) + 1 - k].mess = m
          /\ Held(k2, u, k, m)' <=> k \in 1 .. Len(r) /\ r[Len(r) + 1 - k].kind = k2
                                    /\ r[Len(r) + 1 - k].mess = m
      BY <2>2, <3>1 DEF Held, Frame1, s
    <3>5. CASE k \in 1 .. Len(s)
      <4>1. k \in 1 .. Len(r) /\ r[Len(r) + 1 - k] = s[Len(s) + 1 - k]
        BY <3>3, <3>5, <3>7
      <4> QED
        BY <3>5, <3>8, <4>1
    <3>6. CASE k \notin 1 .. Len(s)
      <4>1. k \in 1 .. Len(r) => k = Len(r)
        BY <3>6, <3>7
      <4> QED
        BY <3>4, <3>6, <3>8, <4>1
    <3> QED
      BY <3>5, <3>6
  <2> QED
    BY <2>1, <2>2
<1> QED
  BY <1>3, <1>4, <1>5

LEMMA PoppedFrame ==
    ASSUME FilesTypeOK, running \in Threads, saved[running] # <<>>,
           TopFrame.kind \in {"alarm", "reply"},
           saved' = [saved EXCEPT ![running] = Tail(@)]
    PROVE  /\ saved' \in [Threads -> Seq(Frames)] /\ TopFrame.mask \in Masks
           /\ \A t \in Threads : Len(saved'[t]) = Len(saved[t]) - (IF t = running THEN 1 ELSE 0)
           /\ SameFrames("map") /\ SameFrames("call")
<1>1. saved \in [Threads -> Seq(Frames)] /\ TopFrame \in Frames
  BY Popped DEF FilesTypeOK, TopFrame
<1>2. saved' \in [Threads -> Seq(Frames)]
  BY <1>1, Popped
<1>3. \A t \in Threads : Len(saved'[t]) = Len(saved[t]) - (IF t = running THEN 1 ELSE 0)
  BY <1>1, Popped
<1>4. ASSUME NEW k2 \in {"map", "call"} PROVE SameFrames(k2)
  <2> SUFFICES ASSUME NEW u \in Threads, NEW k \in Nat, NEW m \in Mess
               PROVE  Held(k2, u, k, m)' <=> Held(k2, u, k, m)
    BY DEF SameFrames
  <2>1. CASE u # running
    BY <1>1, <2>1 DEF Held, Frame1
  <2>2. CASE u = running
    <3> DEFINE s == saved[running]
               r == Tail(s)
    <3>1. saved'[running] = r /\ s \in Seq(Frames)
      BY <1>1
    <3>2. /\ Len(r) = Len(s) - 1 /\ Len(s) \in Nat \ {0}
          /\ \A i \in 1 .. Len(s) - 1 : r[i] = s[i + 1]
      BY <3>1, Popped
    <3>3. \A i \in 1 .. Len(r) : r[Len(r) + 1 - i] = s[Len(s) + 1 - i]
      BY <3>1, <3>2
    <3>4. s[Len(s) + 1 - Len(s)].kind # k2
      BY <3>2 DEF TopFrame
    <3> HIDE DEF r
    <3>5. CASE k \in 1 .. Len(r)
      BY <2>2, <3>1, <3>2, <3>3, <3>5 DEF Held, Frame1
    <3>6. CASE k \notin 1 .. Len(r)
      BY <2>2, <3>1, <3>2, <3>4, <3>6 DEF Held, Frame1
    <3> QED
      BY <3>5, <3>6
  <2> QED
    BY <2>1, <2>2
<1> QED
  BY <1>1, <1>2, <1>3, <1>4, Popped DEF Frames

\* A handler rewrites the frame it runs in.
LEMMA SetTop ==
    ASSUME FilesTypeOK, running \in Threads, saved[running] # <<>>,
           NEW kind \in Kinds, NEW mess \in Mess, SetFrame(kind, mess)
    PROVE  LET top == Len(saved[running])
           IN  /\ saved' \in [Threads -> Seq(Frames)]
               /\ \A t \in Threads : Len(saved'[t]) = Len(saved[t])
               /\ top \in Nat \ {0} /\ TopFrame.mess \in Mess
               /\ \A k2, m : \A u \in Threads, k \in Nat :
                    IF u = running /\ k = top
                    THEN /\ Held(k2, u, k, m) <=> k2 = TopFrame.kind /\ m = TopFrame.mess
                         /\ Held(k2, u, k, m)' <=> k2 = kind /\ m = mess
                    ELSE Held(k2, u, k, m)' <=> Held(k2, u, k, m)
<1> DEFINE s   == saved[running]
           f   == [kind |-> kind, mask |-> TopFrame.mask, mess |-> mess]
           g   == [s EXCEPT ![1] = [s[1] EXCEPT !.kind = kind]]
           r   == [s EXCEPT ![1] = f]
           top == Len(s)
<1>1. saved \in [Threads -> Seq(Frames)] /\ s \in Seq(Frames) /\ s # <<>> /\ TopFrame \in Frames
  BY Popped DEF FilesTypeOK, TopFrame
<1>2. f \in Frames /\ f.kind = kind /\ f.mess = mess
  BY <1>1 DEF Frames
<1>3. saved' = [saved EXCEPT ![running] = r]
  <2>1. saved' = [saved EXCEPT ![running] = [g EXCEPT ![1] = [g[1] EXCEPT !.mess = mess]]]
    BY <1>1 DEF SetFrame
  <2>2. g[1] = [s[1] EXCEPT !.kind = kind] /\ s[1] \in Frames
    BY <1>1, Popped
  <2>3. [g[1] EXCEPT !.mess = mess] = f
    BY <2>2 DEF TopFrame, Frames
  <2>4. [g EXCEPT ![1] = f] = r
    BY <1>1
  <2> QED
    BY <2>1, <2>3, <2>4
<1>4. /\ r \in Seq(Frames) /\ Len(r) = Len(s) /\ r[1] = f
      /\ \A i \in 2 .. Len(s) : r[i] = s[i]
      /\ top \in Nat \ {0}
  BY <1>1, <1>2, Replaced, Popped
<1> HIDE DEF f, r
<1>5. saved'[running] = r /\ \A t \in Threads \ {running} : saved'[t] = saved[t]
  BY <1>1, <1>3
<1>6. saved' \in [Threads -> Seq(Frames)] /\ \A t \in Threads : Len(saved'[t]) = Len(saved[t])
  BY <1>1, <1>3, <1>4
<1>7. ASSUME NEW k2, NEW m, NEW u \in Threads, NEW k \in Nat, u = running /\ k = top
      PROVE  /\ Held(k2, u, k, m) <=> k2 = TopFrame.kind /\ m = TopFrame.mess
             /\ Held(k2, u, k, m)' <=> k2 = kind /\ m = mess
  BY <1>1, <1>2, <1>4, <1>5, <1>7 DEF Held, Frame1, TopFrame
<1>8. ASSUME NEW k2, NEW m, NEW u \in Threads, NEW k \in Nat, u # running \/ k # top
      PROVE  Held(k2, u, k, m)' <=> Held(k2, u, k, m)
  <2>1. CASE u # running
    BY <1>5, <2>1 DEF Held, Frame1
  <2>2. CASE u = running /\ k \in 1 .. Len(s)
    <3>1. Len(s) + 1 - k \in 2 .. Len(s)
      BY <1>4, <1>8, <2>2
    <3>2. r[Len(r) + 1 - k] = s[Len(s) + 1 - k]
      BY <1>4, <3>1
    <3> QED
      BY <1>4, <1>5, <2>2, <3>2 DEF Held, Frame1
  <2>3. CASE u = running /\ k \notin 1 .. Len(s)
    BY <1>4, <1>5, <2>3 DEF Held
  <2> QED
    BY <2>1, <2>2, <2>3
<1> QED
  BY <1>1, <1>4, <1>6, <1>7, <1>8 DEF Frames

-----------------------------------------------------------------------------
(* What a blocked thread waits for.                                        *)

LEMMA OutstandingIs ==
    FilesTypeOK => \A t \in Threads :
        Outstanding(t) <=> \/ Registered(t)
                           \/ \E u \in Threads, k \in Nat, m \in Mess :
                                Held("call", u, k, m) /\ m.id = t
<1> SUFFICES ASSUME FilesTypeOK, NEW t \in Threads
             PROVE  Telling("call", t) # {} <=>
                      \E u \in Threads, k \in Nat, m \in Mess : Held("call", u, k, m) /\ m.id = t
  BY DEF Outstanding
<1>1. Telling("call", t) =
        {m \in Mess : m.id = t /\ \E u \in Threads, k \in Nat : Held("call", u, k, m)}
  BY TellingIs
<1> QED
  BY <1>1

\* While requests and callbacks stay, and no handler takes or drops a callback,
\* whatever is outstanding stays so.
LEMMA OutstandingKept ==
    ASSUME FilesTypeOK, FilesTypeOK', SameFrames("call"), UNCHANGED <<callbacks, req>>
    PROVE  \A t \in Threads : Outstanding(t)' <=> Outstanding(t)
<1>1. (\A t \in Threads :
        Outstanding(t) <=> \/ Registered(t)
                           \/ \E u \in Threads, k \in Nat, m \in Mess :
                                Held("call", u, k, m) /\ m.id = t)'
  BY OutstandingIs, PTL
<1>2. \A t \in Threads : Registered(t)' <=> Registered(t)
  BY DEF Registered
<1> QED
  BY <1>1, <1>2, OutstandingIs DEF SameFrames

LEMMA AwaitedKept ==
    ASSUME FilesTypeOK, FilesTypeOK', SameFrames("call"), UNCHANGED <<callbacks, req>>,
           \A t \in Threads : fpc'[t] = fpc[t] \/ ~(Blocked(t) \/ Blocked(t)')
    PROVE  Awaited' = Awaited
<1>1. \A t \in Threads : Outstanding(t)' <=> Outstanding(t)
  BY OutstandingKept
<1>2. \A t \in Threads : Awaited'[t] = Awaited[t]
  BY <1>1 DEF Awaited, Blocked
<1> QED
  BY <1>2 DEF Awaited

LEMMA LettersKept ==
    ASSUME Letters, SameFrames("map"), SameFrames("call"),
           UNCHANGED <<callbacks, req, inbox, replies>>,
           \A t \in Threads : Blocked(t) => Blocked(t)',
           callbacks \in [Requests -> Threads \cup {NoThread}]
    PROVE  Letters'
<1>1. Own' /\ Queued'
  BY DEF Letters, Own, Queued, Asked
<1>2. Looked'
  BY DEF Letters, Looked, SameFrames, Asked
<1>3. Told'
  BY DEF Letters, Told, SameFrames
<1>4. Once("map")' /\ Once("call")'
  BY DEF Letters, Once, SameFrames
<1> QED
  BY <1>1, <1>2, <1>3, <1>4 DEF Letters

-----------------------------------------------------------------------------
(* The accounts of the scheduler and the mutexes.                          *)

LEMMA AwaitedType ==
    FilesTypeOK => /\ Awaited \in [Threads -> Int]
                   /\ \A t \in Threads : fpc[t] # "wait" => Awaited[t] >= 0
BY DEF Awaited

LEMMA Carried ==
    ASSUME NEW more
    PROVE  /\ Awaited = more => (MOver(Awaited) <=> MOver(more))
           /\ Awaited' = more => (MOver(Awaited)' <=> MOver(more)')
BY DEF MOver, Accounts, Counted, Beside

\* A step of the scheduler or the mutexes that no blocked thread notices.
LEMMA BelowStep ==
    ASSUME FInv, Awaited' = Awaited,
           MStep,
           (\E x \in Threads : VMThreadTerminate(x)) => fpc[running] # "wait"
    PROVE  MOver(Awaited)'
<1>1. PICK more : more = Awaited
  OBVIOUS
<1>2. /\ running \in Threads /\ pc \in [Threads -> Labels] /\ fpc \in [Threads -> FileLabels]
      /\ MOver(more) /\ more \in [Threads -> Int]
  BY <1>1, AwaitedType DEF FInv, MOver, MTypeOK, TypeOver, FilesTypeOK, Labels
<1>3. \A t \in Threads : pc[t] # "user" => more[t] >= 0
  BY <1>1, AwaitedType DEF FInv, Placed
<1>4. Solvent(more) /\ (pc[running] \in MutexLabels => more[running] >= 0)
  <2>1. (\E x \in Threads : VMThreadTerminate(x)) => more[running] >= 0
    BY <1>1, <1>2, AwaitedType DEF FInv
  <2> QED
    BY <1>2, <1>3, <2>1 DEF Solvent, MutexLabels
<1>5. MOver(more)'
  BY <1>2, <1>4, MOverStep
<1> QED
  BY <1>1, <1>5, Carried

\* A step that only breaks the machine, or enters or leaves a handler.
LEMMA OutsideStep ==
    ASSUME FInv, Awaited' = Awaited,
           UNCHANGED <<tick, running, leaving, state, ready, sleepVars, pc, tableVars, mutexVars>>,
           vm' \in {vm, "wrecked"}, irq' \in [Threads -> Seq(FrameLabels)]
    PROVE  MOver(Awaited)'
<1>1. MTypeOK'
  BY DEF FInv, MOver, MTypeOK, TypeOver, MutexesTypeOK, sleepVars, tableVars, mutexVars,
         listVars, lockVars, callVars
<1>2. Accounts(Beside(Awaited))'
  BY DEF FInv, MOver, Accounts, Counted, LiveQueues, DeadIsDone, IdleStays, Places, Active,
         Beside, Elsewhere, sleepVars, mutexVars
<1>3. WaitersParked' /\ ListOK'
  BY DEF FInv, MOver, WaitersParked, ListOK, SlotsFilled, Iterators, EraseOnce, InCall,
         mutexVars, listVars, callVars
<1> QED
  BY <1>1, <1>2, <1>3 DEF MOver

-----------------------------------------------------------------------------
(* Steps below the file calls.                                             *)

\* A thread inside a file call stays where that call needs it to be.
CodeStays ==
    \A t \in Threads : fpc[t] # "app" => /\ pc[t] = "user" => pc'[t] = "user"
                                         /\ pc[t] \in Inside => pc'[t] \in Inside
SameDepth == \A t \in Threads : Len(irq'[t]) = Len(irq[t])
NoFileCallEnds == (\E x \in Threads : VMThreadTerminate(x)) => fpc[running] = "app"

LEMMA FInvTypes ==
    FInv => /\ FilesTypeOK /\ TypeOver(Labels) /\ MTypeOK /\ running \in Threads
            /\ pc \in [Threads -> Labels] /\ irq \in [Threads -> Seq(FrameLabels)]
            /\ fpc[Idle] = "app" /\ Idle \in Threads
BY ConstantFacts DEF FInv, MOver, MTypeOK, TypeOver, Labels, Placed

\* What neither moves a file call nor a letter is a step of what is below.
LEMMA PassStep ==
    ASSUME FInv, [MNext]_allVars, FileRest, mask' \in Masks, sigState' \in Masks,
           saved' \in [Threads -> Seq(Frames)], SameFrames("map"), SameFrames("call"),
           \A t \in Threads : Len(saved'[t]) = Len(irq'[t]),
           CodeStays, NoFileCallEnds
    PROVE  FInv'
<1>1. UNCHANGED <<fpc, op, left, chunk, pool, req, fileResult, callbacks, inbox, replies,
                  signalling, usr2>>
  BY DEF FileRest, fcallVars, replyVars
<1>2. FilesTypeOK'
  BY <1>1 DEF FInv, FilesTypeOK
<1>3. Awaited' = Awaited
  BY <1>1, <1>2, AwaitedKept DEF FInv
<1>4. MOver(Awaited)'
  BY <1>3, BelowStep DEF NoFileCallEnds, MStep
<1>5. Placed' /\ Equipped'
  BY <1>1 DEF FInv, Placed, Equipped, CodeStays
<1>6. Letters'
  BY <1>1, LettersKept DEF FInv, FilesTypeOK, Blocked
<1> QED
  BY <1>2, <1>4, <1>5, <1>6 DEF FInv

\* A step from one label to another, in the thread's own code.
LEMMA StepStays ==
    ASSUME FInv, NEW l, l \notin FrameLabels, l # "user", Here(l),
           NEW base, Step(base), l \in Inside => base \in Inside
    PROVE  CodeStays /\ SameDepth /\ NoFileCallEnds
<1>1. pc[running] = l /\ running \in Threads /\ pc \in [Threads -> Labels]
  BY FInvTypes, HereBase
<1>2. CodeStays /\ SameDepth
  BY <1>1 DEF FInv, Placed, CodeStays, SameDepth, Step
<1>3. ~InUser
  BY DEF InUser, Here
<1> QED
  BY <1>2, <1>3 DEF NoFileCallEnds, VMThreadTerminate

\* A step of threadSchedule, in the thread's own code or in a handler.
LEMMA MoveStays ==
    ASSUME FInv, NEW l \in {"prio", "swap"}, Here(l), NEW base, NEW frame \in FrameLabels,
           MoveTo(base, frame)
    PROVE  CodeStays /\ SameDepth /\ NoFileCallEnds
<1>1. running \in Threads /\ pc \in [Threads -> Labels] /\ irq \in [Threads -> Seq(FrameLabels)]
  BY FInvTypes
<1>2. ~InUser
  BY DEF InUser, Here
<1>3. CASE irq[running] = <<>> /\ pc' = [pc EXCEPT ![running] = base] /\ UNCHANGED irq
  <2>1. pc[running] = l
    BY <1>3 DEF Here, At
  <2>2. fpc[running] = "app"
    BY <1>1, <2>1 DEF FInv, Placed, Inside
  <2> QED
    BY <1>1, <1>2, <1>3, <2>2 DEF CodeStays, SameDepth, NoFileCallEnds, VMThreadTerminate
<1>4. CASE /\ irq[running] # <<>> /\ UNCHANGED pc
           /\ irq' = [irq EXCEPT ![running] = <<frame>> \o Tail(@)]
  <2>1. Len(<<frame>> \o Tail(irq[running])) = Len(irq[running])
    <3>1. irq[running] \in Seq(FrameLabels) /\ irq[running] # <<>>
      BY <1>1, <1>4
    <3>2. Tail(irq[running]) \in Seq(FrameLabels)
      BY <3>1, Popped
    <3>3. /\ Len(<<frame>> \o Tail(irq[running])) = Len(Tail(irq[running])) + 1
          /\ Len(Tail(irq[running])) = Len(irq[running]) - 1 /\ Len(irq[running]) \in Nat
      BY <3>1, <3>2, Pushed, Popped
    <3> QED
      BY <3>3
  <2> QED
    BY <1>1, <1>2, <1>4, <2>1 DEF CodeStays, SameDepth, NoFileCallEnds, VMThreadTerminate
<1> QED
  BY <1>3, <1>4 DEF MoveTo

\* A step that leaves every stack and every label.
LEMMA StillStays ==
    ASSUME FInv, UNCHANGED <<pc, irq>>, running' = running \/ ~InUser
    PROVE  CodeStays /\ SameDepth /\ NoFileCallEnds
<1>1. CodeStays /\ SameDepth
  BY DEF CodeStays, SameDepth
<1>2. \A x \in Threads : ~VMThreadTerminate(x)
  <2> SUFFICES ASSUME NEW x \in Threads, VMThreadTerminate(x) PROVE FALSE
    OBVIOUS
  <2>1. pc[running] = "user" /\ running \in Threads /\ pc \in [Threads -> Labels]
    BY FInvTypes, HereBase DEF VMThreadTerminate, InUser, FrameLabels
  <2>2. pc' = [pc EXCEPT ![running] = "dying"]
    BY DEF VMThreadTerminate, Step
  <2> QED
    BY <2>1, <2>2
<1> QED
  BY <1>1, <1>2 DEF NoFileCallEnds

\* PassStep where no handler is entered or left.
LEMMA QuietStep ==
    ASSUME FInv, [MNext]_allVars, FileRest, mask' \in Masks, sigState' \in Masks,
           UNCHANGED saved, CodeStays, SameDepth, NoFileCallEnds
    PROVE  FInv'
<1>1. SameFrames("map") /\ SameFrames("call")
  BY DEF SameFrames, Held, Frame1
<1>2. /\ saved' \in [Threads -> Seq(Frames)]
      /\ \A t \in Threads : Len(saved'[t]) = Len(irq'[t])
  BY DEF FInv, FilesTypeOK, SameDepth
<1> QED
  BY <1>1, <1>2, PassStep

LEMMA SectionStep == FInv /\ Section => FInv'
<1> SUFFICES ASSUME FInv, Section PROVE FInv'
  OBVIOUS
<1> USE DEF Inside, FrameLabels
<1>1. FileRest /\ mask' \in Masks /\ sigState' \in Masks /\ UNCHANGED saved
  BY DEF Section, FInv, FilesTypeOK
<1>2. CASE Preempt /\ UNCHANGED mutexVars
  <2>1. [MNext]_allVars
    BY <1>2 DEF MNext, Next, Kernel
  <2>2. MoveTo("user", "ret") \/ UNCHANGED <<running, pc, irq>>
    BY <1>2 DEF Preempt
  <2>3. CodeStays /\ SameDepth /\ NoFileCallEnds
    BY <1>2, <2>2, MoveStays, StillStays DEF Preempt
  <2> QED
    BY <1>1, <2>1, <2>3, QuietStep
<1>3. CASE (SleepSwitch \/ ExitSwitch) /\ UNCHANGED mutexVars
  <2>1. [MNext]_allVars
    BY <1>3 DEF MNext, Next, Kernel
  <2>2. CodeStays /\ SameDepth /\ NoFileCallEnds
    BY <1>3, StepStays DEF SleepSwitch, ExitSwitch
  <2> QED
    BY <1>1, <2>1, <2>2, QuietStep
<1>4. CASE MutexSwitch \/ TakeLock \/ Park \/ Unlock
  <2>1. [MNext]_allVars
    BY <1>4 DEF MNext, MutexCall
  <2>2. CodeStays /\ SameDepth /\ NoFileCallEnds
    BY <1>4, StepStays DEF MutexSwitch, TakeLock, Park, Unlock, Advance, Leave
  <2> QED
    BY <1>1, <2>1, <2>2, QuietStep
<1>5. CASE HandOver("hand", "user") \/ HandOver("handP", "prio")
  <2>1. [MNext]_allVars
    BY <1>5 DEF MNext, MutexCall
  <2>2. PICK label \in {"hand", "handP"}, after \in {"user", "prio"} : HandOver(label, after)
    BY <1>5
  <2>3. Step(after) \/ UNCHANGED <<running, pc, irq>>
    BY <2>2 DEF HandOver, Leave
  <2>4. CodeStays /\ SameDepth /\ NoFileCallEnds
    BY <2>2, <2>3, StepStays, StillStays DEF HandOver
  <2> QED
    BY <1>1, <2>1, <2>4, QuietStep
<1> QED
  BY <1>2, <1>3, <1>4, <1>5 DEF Section

LEMMA LookStep == FInv /\ Look => FInv'
<1> SUFFICES ASSUME FInv, Look PROVE FInv'
  OBVIOUS
<1> USE DEF Inside, FrameLabels
<1>1. FileRest /\ mask' \in Masks /\ sigState' \in Masks /\ UNCHANGED saved
  BY DEF Look, maskVars, FInv, FilesTypeOK
<1>2. CASE SchedCheck /\ UNCHANGED mutexVars
  <2>1. [MNext]_allVars
    BY <1>2 DEF MNext, Next, Kernel
  <2>2. CodeStays /\ SameDepth /\ NoFileCallEnds
    BY <1>2, MoveStays DEF SchedCheck
  <2> QED
    BY <1>1, <2>1, <2>2, QuietStep
<1>3. CASE ContextSwitch /\ UNCHANGED mutexVars
  <2>1. [MNext]_allVars
    BY <1>3 DEF MNext, Next, Kernel
  <2>2. CodeStays /\ SameDepth /\ NoFileCallEnds
    BY <1>3, StillStays DEF ContextSwitch
  <2> QED
    BY <1>1, <2>1, <2>2, QuietStep
<1>4. CASE TestLocked \/ GiveUp \/ Retry \/ LookForWaiter
  <2>1. [MNext]_allVars
    BY <1>4 DEF MNext, MutexCall
  <2>2. PICK l \in {"test", "woken", "wake"}, base \in {"park", "lock", "user", "test", "handP", "hand"} :
          Here(l) /\ Step(base) /\ (l # "wake" => base \in Inside)
    BY <1>4 DEF TestLocked, GiveUp, Retry, LookForWaiter, Advance, Leave
  <2>3. CodeStays /\ SameDepth /\ NoFileCallEnds
    BY <2>2, StepStays
  <2> QED
    BY <1>1, <2>1, <2>3, QuietStep
<1> QED
  BY <1>2, <1>3, <1>4 DEF Look

LEMMA AlarmSignalStep == FInv /\ AlarmSignal => FInv'
<1> SUFFICES ASSUME FInv, AlarmSignal PROVE FInv'
  OBVIOUS
<1>1. FileRest /\ mask' \in Masks /\ sigState' \in Masks /\ UNCHANGED mutexVars
  BY DEF AlarmSignal, AlarmMask, Masks, FInv, FilesTypeOK
<1>2. CASE Alarm /\ Push("alarm")
  <2>1. [MNext]_allVars
    BY <1>1, <1>2 DEF MNext, Next, Timer
  <2>2. /\ irq' = [irq EXCEPT ![running] = <<"prio">> \o @]
        /\ UNCHANGED pc /\ running \in Threads /\ FilesTypeOK
        /\ irq \in [Threads -> Seq(FrameLabels)]
    BY <1>2, FInvTypes DEF Alarm
  <2>3. \A t \in Threads : Len(irq'[t]) = Len(irq[t]) + (IF t = running THEN 1 ELSE 0)
    BY <2>2, Pushed DEF FrameLabels
  <2>4. /\ saved' \in [Threads -> Seq(Frames)] /\ SameFrames("map") /\ SameFrames("call")
        /\ \A t \in Threads : Len(saved'[t]) = Len(irq'[t])
    BY <1>2, <2>2, <2>3, PushedFrame DEF FilesTypeOK
  <2>5. CodeStays
    BY <2>2 DEF CodeStays
  <2>6. NoFileCallEnds
    <3> SUFFICES ASSUME NEW x \in Threads, VMThreadTerminate(x) PROVE FALSE
      BY DEF NoFileCallEnds
    <3>1. irq[running] = <<>> /\ irq' = irq
      BY FInvTypes, HereBase DEF VMThreadTerminate, InUser, FrameLabels, Step
    <3> QED
      BY <2>2, <2>3, <3>1
  <2> QED
    BY <1>1, <2>1, <2>4, <2>5, <2>6, PassStep
<1>3. CASE AlarmInSwitch /\ UNCHANGED saved
  <2>1. [MNext]_allVars
    BY <1>1, <1>3 DEF MNext, Next, Timer
  <2>2. CodeStays /\ SameDepth /\ NoFileCallEnds
    BY <1>3, StillStays DEF AlarmInSwitch
  <2> QED
    BY <1>1, <1>3, <2>1, <2>2, QuietStep
<1> QED
  BY <1>2, <1>3 DEF AlarmSignal

LEMMA HandlerReturnsStep == FInv /\ HandlerReturns => FInv'
<1> SUFFICES ASSUME FInv, HandlerReturns PROVE FInv'
  OBVIOUS
<1>1. /\ FileRest /\ UNCHANGED mutexVars /\ AlarmReturn /\ sigState' \in Masks
      /\ mask' = TopFrame.mask /\ saved' = [saved EXCEPT ![running] = Tail(@)]
  BY DEF HandlerReturns, FileRest, FInv, FilesTypeOK
<1>2. [MNext]_allVars
  BY <1>1 DEF MNext, Next, Kernel
<1>3. /\ irq' = [irq EXCEPT ![running] = Tail(@)] /\ saved[running] # <<>>
      /\ TopFrame.kind \in {"alarm", "reply"}
      /\ UNCHANGED <<pc, running>> /\ Here("ret") /\ running \in Threads /\ FilesTypeOK
      /\ irq \in [Threads -> Seq(FrameLabels)]
  BY <1>1, FInvTypes DEF HandlerReturns, InHandler, AlarmReturn
<1>4. irq[running] # <<>>
  BY <1>3 DEF FilesTypeOK
<1>5. \A t \in Threads : Len(irq'[t]) = Len(irq[t]) - (IF t = running THEN 1 ELSE 0)
  BY <1>3, <1>4, Popped
<1>6. /\ saved' \in [Threads -> Seq(Frames)] /\ SameFrames("map") /\ SameFrames("call")
      /\ \A t \in Threads : Len(saved'[t]) = Len(irq'[t])
      /\ mask' \in Masks
  BY <1>1, <1>3, <1>5, PoppedFrame DEF FilesTypeOK
<1>7. CodeStays
  BY <1>3 DEF CodeStays
<1>8. NoFileCallEnds
  BY <1>3 DEF NoFileCallEnds, VMThreadTerminate, InUser, Here
<1> QED
  BY <1>1, <1>2, <1>6, <1>7, <1>8, PassStep

\* Calls that are not about files are made where no file call is under way.
LEMMA OtherCallStep ==
    FInv /\ (OtherCall \/ (\E x \in Users : VMThreadActivateFile(x))
                       \/ (\E x \in StrayIDs : ActivateUnknown(x)) \/ FStopped) => FInv'
<1> SUFFICES ASSUME FInv,
                    OtherCall \/ (\E x \in Users : VMThreadActivateFile(x))
                              \/ (\E x \in StrayIDs : ActivateUnknown(x)) \/ FStopped
             PROVE  FInv'
  OBVIOUS
<1>T. /\ TypeOver(Labels) /\ running \in Threads /\ pc \in [Threads -> Labels]
      /\ mask \in Masks /\ sigState \in Masks
  BY FInvTypes DEF FilesTypeOK
<1>1. CASE OtherCall
  <2>1. [MNext]_allVars /\ FileRest /\ UNCHANGED maskVars /\ fpc[running] = "app"
    BY <1>1 DEF OtherCall, FHere, MNext, Next, ThreadCall
  <2>2. UNCHANGED irq /\ \A t \in Threads \ {running} : pc'[t] = pc[t]
    BY <1>1, <1>T DEF OtherCall, VMThreadCreate, Yield, MainReturns, VMThreadDelete,
                      VMThreadTerminate, VMThreadSleep, Step
  <2>3. CodeStays /\ SameDepth /\ NoFileCallEnds
    BY <2>1, <2>2 DEF CodeStays, SameDepth, NoFileCallEnds
  <2> QED
    BY <2>1, <2>3, <1>T, QuietStep DEF maskVars
<1>2. CASE \E x \in Users : VMThreadActivateFile(x)
  <2>1. PICK x \in Users : VMThreadActivateFile(x)
    BY <1>2
  <2>2. /\ [MNext]_allVars /\ FileRest /\ UNCHANGED <<mask, saved>> /\ sigState' = mask
        /\ fpc[running] = "app" /\ VMThreadActivate(x)
    BY <2>1 DEF VMThreadActivateFile, FHere, MNext, Next, ThreadCall
  <2>3. /\ UNCHANGED irq /\ pc' = [pc EXCEPT ![x] = "user", ![running] = "prio"]
        /\ state[x] = "DEAD" /\ x \in Threads /\ pc[running] = "user"
    BY <2>2, <1>T, HereBase, ConstantFacts DEF VMThreadActivate, InUser, FrameLabels
  <2>4. fpc[x] = "app"
    <3>1. pc[x] \in {"none", "gone", "dying"}
      BY <2>3 DEF FInv, MOver, Accounts, DeadIsDone, Active
    <3> QED
      BY <2>3, <3>1 DEF FInv, Placed, Inside
  <2>5. CodeStays /\ SameDepth /\ NoFileCallEnds
    BY <2>2, <2>3, <2>4, <1>T DEF CodeStays, SameDepth, NoFileCallEnds
  <2> QED
    BY <2>2, <2>5, <1>T, QuietStep
<1>3. CASE (\E x \in StrayIDs : ActivateUnknown(x)) \/ FStopped
  <2>1. /\ [MNext]_allVars /\ FileRest /\ UNCHANGED <<pc, irq, saved, running>>
        /\ mask' \in Masks /\ sigState' \in Masks
    BY <1>3, <1>T DEF ActivateUnknown, FStopped, fvars, fileVars, maskVars, FileRest, allVars, vars
  <2>2. CodeStays /\ SameDepth /\ NoFileCallEnds
    BY <2>1, StillStays
  <2> QED
    BY <2>1, <2>2, QuietStep
<1> QED
  BY <1>1, <1>2, <1>3

-----------------------------------------------------------------------------
(* File calls.                                                             *)

\* A file call steps while its thread runs its own code.
LEMMA FHereIs ==
    ASSUME FInv, NEW label, FHere(label)
    PROVE  /\ running \in Threads /\ running # Idle /\ fpc[running] = label
           /\ pc[running] = "user" /\ irq[running] = <<>> /\ vm = "up" /\ leaving = NoThread
BY FInvTypes, HereBase DEF FHere, InUser, FrameLabels

\* It moves between places where the thread waits for nothing.
LEMMA UnblockedMove ==
    ASSUME FInv, FilesTypeOK', UNCHANGED <<saved, callbacks, req, inbox, replies>>,
           NEW a \in FileLabels \ {"wait", "back"}, NEW b \in FileLabels \ {"wait", "back"},
           fpc[running] = a, fpc' = [fpc EXCEPT ![running] = b] \/ UNCHANGED fpc
    PROVE  Awaited' = Awaited /\ Letters'
<1>1. SameFrames("map") /\ SameFrames("call")
  BY DEF SameFrames, Held, Frame1
<1>2. \A t \in Threads : fpc'[t] = fpc[t] \/ ~(Blocked(t) \/ Blocked(t)')
  BY DEF FInv, FilesTypeOK, Blocked
<1>3. \A t \in Threads : Blocked(t) => Blocked(t)'
  BY DEF FInv, FilesTypeOK, Blocked
<1> QED
  BY <1>1, <1>2, <1>3, AwaitedKept, LettersKept DEF FInv, FilesTypeOK

LEMMA FileCallStep == FInv /\ FileCall => FInv'
<1> SUFFICES ASSUME FInv, FileCall PROVE FInv'
  OBVIOUS
<1>1. PICK o \in {"one", "read", "write"}, n \in Nat, label \in {"send", "take", "first"} :
        /\ Begin(o, n, label)
        /\ UNCHANGED <<maskVars, chunk, pool, req, fileResult, callbacks, replyVars>>
        /\ \/ UNCHANGED allVars /\ label # "first" /\ (o = "one" <=> label = "send")
              /\ (o = "read" <=> label = "take")
           \/ Acquire(SharedMemMutex, Infinite) /\ label = "first"
  BY FileArguments DEF FileCall, FileOne, FileRead, FileWrite
<1>2. /\ running \in Threads /\ running # Idle /\ fpc[running] = "app" /\ pc[running] = "user"
      /\ fpc' = [fpc EXCEPT ![running] = label] /\ op' = [op EXCEPT ![running] = o]
      /\ left' = [left EXCEPT ![running] = n]
  BY <1>1, FHereIs DEF Begin, GoTo
<1>3. UNCHANGED irq /\ \A t \in Threads : pc'[t] = pc[t] \/ (t = running /\ pc'[t] = "test" /\ label = "first")
  BY <1>1, FInvTypes DEF allVars, vars, Acquire, Step
<1>4. FilesTypeOK'
  BY <1>1, <1>2, <1>3 DEF FInv, FilesTypeOK, maskVars, replyVars, FileLabels, Ops
<1>5. Awaited' = Awaited /\ Letters'
  BY <1>1, <1>2, <1>4, UnblockedMove DEF FileLabels, maskVars, replyVars
<1>6. MOver(Awaited)'
  <2>1. [MNext]_allVars \/ \E m \in MutexIDs, k \in Nat : Acquire(m, k)
    BY <1>1, MutexCount DEF SharedMemMutex, MutexIDs, Infinite
  <2>2. fpc[running] # "wait"
    BY <1>2
  <2> QED
    BY <1>5, <2>1, <2>2, BelowStep DEF MStep
<1>7. Placed'
  BY <1>2, <1>3, FInvTypes DEF FInv, Placed, Inside, FilesTypeOK
<1>8. Equipped'
  BY <1>1, <1>2 DEF FInv, Equipped, FilesTypeOK
<1> QED
  BY <1>4, <1>5, <1>6, <1>7, <1>8 DEF FInv

\* Taking a chunk.
LEMMA TakeStep == FInv /\ (TakeChunk \/ PopChunk) => FInv'
<1> SUFFICES ASSUME FInv, TakeChunk \/ PopChunk PROVE FInv'
  OBVIOUS
<1>1. PICK a \in {"take", "pop"} : FHere(a)
  BY DEF TakeChunk, PopChunk
<1>2. /\ running \in Threads /\ running # Idle /\ fpc[running] = a /\ pc[running] = "user"
  BY <1>1, FHereIs
<1>3. /\ UNCHANGED <<schedButVm, mutexVars, maskVars, op, left, req, fileResult, callbacks,
                     replyVars>>
      /\ vm' \in {vm, "wrecked"}
      /\ (\E b \in {"pop", "send"} : fpc' = [fpc EXCEPT ![running] = b]) \/ UNCHANGED fpc
  BY DEF TakeChunk, PopChunk, GoTo
<1>4. pool' \in Seq(Chunks)
  <2>1. pool \in Seq(Chunks) /\ (pool # <<>> => Tail(pool) \in Seq(Chunks))
    BY Popped DEF FInv, FilesTypeOK
  <2> QED
    BY <2>1 DEF TakeChunk, PopChunk, PoolPopped
<1>5. /\ chunk' \in [Threads -> Chunks \cup {NoChunk}]
      /\ \A t \in Threads : chunk'[t] = chunk[t] \/ chunk'[t] \in Chunks
  <2>1. /\ chunk \in [Threads -> Chunks \cup {NoChunk}]
        /\ pool # <<>> => Head(pool) \in Chunks
    BY Popped DEF FInv, FilesTypeOK
  <2>2. UNCHANGED chunk \/ (pool # <<>> /\ chunk' = [chunk EXCEPT ![running] = Head(pool)])
    BY DEF TakeChunk, PopChunk
  <2> QED
    BY <2>1, <2>2
<1>6. FilesTypeOK'
  BY <1>3, <1>4, <1>5 DEF FInv, FilesTypeOK, maskVars, replyVars, FileLabels, schedButVm
<1>7. Awaited' = Awaited /\ Letters'
  <2>1. UNCHANGED <<saved, callbacks, req, inbox, replies>>
    BY <1>3 DEF maskVars, replyVars
  <2> QED
    BY <2>1, <1>2, <1>3, <1>6, UnblockedMove DEF FileLabels
<1>8. MOver(Awaited)'
  <2>1. irq' \in [Threads -> Seq(FrameLabels)]
    BY <1>3, FInvTypes DEF schedButVm
  <2> QED
    BY <2>1, <1>3, <1>7, OutsideStep DEF schedButVm
<1>9. \A t \in Threads : fpc'[t] = fpc[t] \/ (t = running /\ fpc'[t] \in {"pop", "send"})
  BY <1>3 DEF FInv, FilesTypeOK
<1>10. Placed'
  BY <1>2, <1>3, <1>9, FInvTypes DEF FInv, Placed, schedButVm
<1>11. Equipped'
  <2>2. ASSUME fpc'[running] \in {"pop", "send"}, fpc'[running] # fpc[running], op[running] # "one"
        PROVE  chunk'[running] \in Chunks
    <3>1. CASE TakeChunk
      <4>1. (pool # <<>> /\ chunk' = [chunk EXCEPT ![running] = Head(pool)])
            \/ (op[running] = "write" /\ UNCHANGED chunk)
        BY <2>2, <3>1 DEF TakeChunk
      <4>2. pool # <<>> => Head(pool) \in Chunks
        BY Popped DEF FInv, FilesTypeOK
      <4>3. op[running] = "write" => chunk[running] \in Chunks
        BY <3>1, FHereIs DEF FInv, Equipped, TakeChunk
      <4> QED
        BY <1>2, <4>1, <4>2, <4>3 DEF FInv, FilesTypeOK
    <3>2. CASE PopChunk
      <4>1. UNCHANGED chunk /\ fpc[running] = "pop"
        BY <1>1, <1>2, <3>2, FHereIs DEF PopChunk
      <4> QED
        BY <1>2, <2>2, <4>1 DEF FInv, Equipped
    <3> QED
      BY <3>1, <3>2
  <2> QED
    BY <1>3, <1>5, <1>9, <2>2 DEF FInv, Equipped
<1> QED
  BY <1>6, <1>7, <1>8, <1>10, <1>11 DEF FInv

LEMMA ReplyType ==
    FilesTypeOK =>
        /\ DOMAIN replies = 1 .. Len(replies) /\ Len(replies) \in Nat
        /\ \A k \in DOMAIN replies : /\ replies[k] \in Message /\ replies[k].id \in Requests
                                     /\ replies[k].result \in Results
<1> SUFFICES ASSUME FilesTypeOK, NEW k \in DOMAIN replies
             PROVE  replies[k] \in Message
  BY DEF FilesTypeOK, Message
<1> QED
  BY DEF FilesTypeOK

\* A request is registered by the thread that will block on it.
LEMMA RequestSent ==
    ASSUME FInv, FilesTypeOK', SendRequest, UNCHANGED <<saved, replies>>,
           running \in Threads, ~Blocked(running), fpc' = [fpc EXCEPT ![running] = "wait"]
    PROVE  Awaited' = Awaited /\ Letters'
<1>1. PICK i \in Requests :
         /\ callbacks[i] = NoThread
         /\ req' = [req EXCEPT ![running] = i]
         /\ callbacks' = [callbacks EXCEPT ![i] = running]
         /\ inbox' = inbox \cup {i}
  BY DEF SendRequest
<1>2. SameFrames("map") /\ SameFrames("call")
  BY DEF SameFrames, Held, Frame1
<1>3. /\ fpc \in [Threads -> FileLabels] /\ req \in [Threads -> Requests \cup {NoRequest}]
      /\ callbacks \in [Requests -> Threads \cup {NoThread}] /\ NoThread \notin Threads
      /\ Requests = Threads /\ NoRequest \notin Requests /\ inbox \subseteq Requests
  BY ConstantFacts DEF FInv, FilesTypeOK, Requests, NoRequest, NoThread
<1>4. \A t \in Threads \ {running} : (Blocked(t)' <=> Blocked(t)) /\ fpc'[t] = fpc[t]
  BY <1>3 DEF Blocked
<1>5. fpc'[running] = "wait"
  BY <1>3
<1>6. Own'
  <2> SUFFICES ASSUME NEW j \in Requests, Asked(j)'
               PROVE  (req[callbacks[j]])' = j /\ Blocked(callbacks[j])'
    BY DEF Own
  <2>1. CASE j = i
    <3>1. callbacks'[j] = running /\ req'[running] = j
      BY <1>1, <1>3, <2>1
    <3> QED
      BY <3>1, <1>5 DEF Blocked
  <2>2. CASE j # i
    <3>1. callbacks'[j] = callbacks[j] /\ callbacks[j] \in Threads
      BY <1>1, <1>3, <2>2 DEF Asked
    <3>2. req[callbacks[j]] = j /\ Blocked(callbacks[j])
      BY <1>3, <3>1 DEF FInv, Letters, Own, Asked
    <3>3. callbacks[j] # running
      BY <3>2
    <3> QED
      BY <1>1, <1>3, <3>1, <3>2, <3>3 DEF Blocked
  <2> QED
    BY <2>1, <2>2
<1>7. ~Asked(i) /\ \A j \in Requests : Asked(j) => Asked(j)'
  BY <1>1, <1>3 DEF Asked
<1>8. Queued'
  <2>1. \A k \in DOMAIN replies : replies[k].id \in Requests
    BY ReplyType DEF FInv
  <2>2. \A j \in Requests : j = i => Asked(j)'
    BY <1>1, <1>3 DEF Asked
  <2>3. \A k \in DOMAIN replies : replies[k].id # i
    BY <1>7 DEF FInv, Letters, Queued
  <2>4. /\ \A j \in inbox : Asked(j)
        /\ \A k \in DOMAIN replies : Asked(replies[k].id) /\ replies[k].id \notin inbox
        /\ \A k, l \in DOMAIN replies : replies[k].id = replies[l].id => k = l
    BY DEF FInv, Letters, Queued
  <2>5. \A j \in inbox' : Asked(j)'
    BY <1>1, <1>3, <1>7, <2>2, <2>4
  <2>6. \A k \in DOMAIN replies : replies[k].id \in Requests => Asked(replies[k].id)'
    BY <1>7, <2>4 DEF Asked
  <2> QED
    BY <1>1, <2>1, <2>3, <2>4, <2>5, <2>6 DEF Queued, Asked
<1>9. Looked'
  BY <1>1, <1>2, <1>7 DEF FInv, Letters, Looked, SameFrames
<1>10. Told'
  <2> SUFFICES ASSUME NEW u \in Threads, NEW k \in Nat, NEW m \in Mess, Held("call", u, k, m)
               PROVE  /\ m.id \in Threads /\ Blocked(m.id)'
                      /\ \A j \in Requests : callbacks'[j] # m.id
    BY <1>2 DEF Told, SameFrames
  <2>1. m.id \in Threads /\ Blocked(m.id) /\ \A j \in Requests : callbacks[j] # m.id
    BY DEF FInv, Letters, Told
  <2>2. m.id # running
    BY <2>1
  <2> QED
    BY <1>1, <1>3, <2>1, <2>2 DEF Blocked
<1>11. Once("map")' /\ Once("call")'
  BY <1>2 DEF FInv, Letters, Once, SameFrames
<1>12. Awaited' = Awaited
  <2>1. (\A t \in Threads :
          Outstanding(t) <=> \/ Registered(t)
                             \/ \E u \in Threads, k \in Nat, m \in Mess :
                                  Held("call", u, k, m) /\ m.id = t)'
    BY OutstandingIs, PTL
  <2>2. \A t \in Threads \ {running} : Registered(t)' <=> Registered(t)
    BY <1>1, <1>3 DEF Registered
  <2>3. \A t \in Threads \ {running} : Outstanding(t)' <=> Outstanding(t)
    BY <1>2, <2>1, <2>2, OutstandingIs DEF FInv, SameFrames
  <2>4. \A t \in Threads : t = running => Outstanding(t)'
    BY <1>1, <1>3 DEF Outstanding, Registered
  <2>5. \A t \in Threads : Awaited'[t] = Awaited[t]
    <3> SUFFICES ASSUME NEW t \in Threads PROVE Awaited'[t] = Awaited[t]
      OBVIOUS
    <3>1. CASE t = running
      BY <3>1, <1>3, <2>4 DEF Awaited, Blocked
    <3>2. CASE t # running
      BY <3>2, <1>4, <2>3 DEF Awaited
    <3> QED
      BY <3>1, <3>2
  <2> QED
    BY <2>5 DEF Awaited
<1> QED
  BY <1>6, <1>8, <1>9, <1>10, <1>11, <1>12 DEF Letters

\* SendRequest gives values of the types.
LEMMA RequestType ==
    ASSUME FilesTypeOK, running \in Threads, SendRequest
    PROVE  /\ req' \in [Threads -> Requests \cup {NoRequest}]
           /\ callbacks' \in [Requests -> Threads \cup {NoThread}]
           /\ inbox' \subseteq Requests
BY DEF SendRequest, FilesTypeOK

LEMMA SendStep == FInv /\ Send => FInv'
<1> SUFFICES ASSUME FInv, Send PROVE FInv'
  OBVIOUS
<1>1. /\ running \in Threads /\ running # Idle /\ fpc[running] = "send" /\ pc[running] = "user"
  BY FHereIs DEF Send
<1>2. /\ SendRequest /\ fpc' = [fpc EXCEPT ![running] = "wait"]
      /\ UNCHANGED <<allVars, sigState, saved, op, left, chunk, pool, fileResult, replies,
                     signalling, usr2>>
      /\ mask' \in {mask, sigState}
  BY DEF Send, GoTo
<1>3. FilesTypeOK'
  BY <1>1, <1>2, RequestType DEF FInv, FilesTypeOK, allVars, vars, FileLabels
<1>4. Awaited' = Awaited /\ Letters'
  BY <1>1, <1>2, <1>3, RequestSent DEF Blocked
<1>5. MOver(Awaited)'
  <2>1. [MNext]_allVars /\ fpc[running] # "wait"
    BY <1>1, <1>2
  <2> QED
    BY <1>4, <2>1, BelowStep DEF MStep
<1>6. \A t \in Threads : fpc'[t] = fpc[t] \/ (t = running /\ fpc'[t] = "wait")
  BY <1>2 DEF FInv, FilesTypeOK
<1>7. Placed' /\ Equipped'
  <2>1. UNCHANGED pc
    BY <1>2 DEF allVars, vars
  <2> QED
    BY <1>1, <1>2, <1>6, <2>1, FInvTypes DEF FInv, Placed, Equipped
<1> QED
  BY <1>3, <1>4, <1>5, <1>7 DEF FInv

LEMMA FirstChunkStep == FInv /\ FirstChunk => FInv'
<1> SUFFICES ASSUME FInv, FirstChunk PROVE FInv'
  OBVIOUS
<1>1. /\ running \in Threads /\ running # Idle /\ fpc[running] = "first" /\ pc[running] = "user"
  BY FHereIs DEF FirstChunk
<1>2. /\ UNCHANGED <<tick, running, leaving, state, ready, sleepVars, pc, irq, tableVars,
                     mutexVars, saved, op, left, fileResult, replies, signalling, usr2>>
      /\ sigState' = mask /\ mask' \in {mask, "all"} /\ vm' \in {vm, "wrecked"}
  BY DEF FirstChunk, schedButVm
<1>3. /\ chunk' \in [Threads -> Chunks \cup {NoChunk}] /\ pool' \in Seq(Chunks)
      /\ \A t \in Threads : chunk'[t] = chunk[t] \/ chunk'[t] \in Chunks
  <2>1. /\ pool \in Seq(Chunks) /\ chunk \in [Threads -> Chunks \cup {NoChunk}]
        /\ pool # <<>> => Head(pool) \in Chunks /\ Tail(pool) \in Seq(Chunks)
    BY Popped DEF FInv, FilesTypeOK
  <2>2. \/ UNCHANGED <<chunk, pool>>
        \/ pool # <<>> /\ chunk' = [chunk EXCEPT ![running] = Head(pool)] /\ pool' = Tail(pool)
    BY DEF FirstChunk, PoolPopped
  <2> QED
    BY <2>1, <2>2
<1>4. \/ /\ UNCHANGED <<req, callbacks, inbox>>
         /\ fpc' = [fpc EXCEPT ![running] = "unlock"] \/ UNCHANGED fpc
      \/ /\ SendRequest /\ fpc' = [fpc EXCEPT ![running] = "wait"]
         /\ chunk'[running] \in Chunks
  <2>1. pool # <<>> => Head(pool) \in Chunks
    BY Popped DEF FInv, FilesTypeOK
  <2> QED
    BY <1>1, <2>1 DEF FirstChunk, GoTo, FInv, FilesTypeOK
<1>5. FilesTypeOK'
  <2>1. /\ req' \in [Threads -> Requests \cup {NoRequest}]
        /\ callbacks' \in [Requests -> Threads \cup {NoThread}]
        /\ inbox' \subseteq Requests /\ fpc' \in [Threads -> FileLabels]
    BY <1>1, <1>4, RequestType DEF FInv, FilesTypeOK, FileLabels
  <2> QED
    BY <1>2, <1>3, <2>1 DEF FInv, FilesTypeOK, Masks
<1>6. Awaited' = Awaited /\ Letters'
  BY <1>1, <1>2, <1>4, <1>5, UnblockedMove, RequestSent DEF Blocked, FileLabels
<1>7. MOver(Awaited)'
  <2>1. irq' \in [Threads -> Seq(FrameLabels)]
    BY <1>2, FInvTypes
  <2> QED
    BY <2>1, <1>2, <1>6, OutsideStep
<1>8. \A t \in Threads : \/ fpc'[t] = fpc[t]
                         \/ t = running /\ fpc'[t] = "unlock"
                         \/ t = running /\ fpc'[t] = "wait" /\ chunk'[t] \in Chunks
  BY <1>4 DEF FInv, FilesTypeOK
<1>9. Placed' /\ Equipped'
  BY <1>1, <1>2, <1>3, <1>8, FInvTypes DEF FInv, Placed, Equipped
<1> QED
  BY <1>5, <1>6, <1>7, <1>9 DEF FInv

LEMMA MapCorruptedStep == FInv /\ MapCorrupted => FInv'
<1> SUFFICES ASSUME FInv, MapCorrupted PROVE FInv'
  OBVIOUS
<1>1. /\ running \in Threads /\ fpc[running] \in {"send", "first"}
      /\ UNCHANGED <<tick, running, leaving, state, ready, sleepVars, pc, irq, tableVars,
                     mutexVars>>
      /\ UNCHANGED fileVars /\ vm' = "wrecked"
  BY FHereIs DEF MapCorrupted, schedButVm
<1>2. UNCHANGED <<mask, sigState, saved, fpc, op, left, chunk, pool, req, fileResult, callbacks,
                  inbox, replies, signalling, usr2>>
  BY <1>1 DEF fileVars, maskVars, fcallVars, replyVars
<1>3. FilesTypeOK' /\ Placed' /\ Equipped'
  BY <1>1, <1>2 DEF FInv, FilesTypeOK, Placed, Equipped
<1>4. Awaited' = Awaited /\ Letters'
  BY <1>1, <1>2, <1>3, UnblockedMove DEF FileLabels
<1>5. MOver(Awaited)'
  <2>1. irq' \in [Threads -> Seq(FrameLabels)]
    BY <1>1, FInvTypes
  <2> QED
    BY <2>1, <1>1, <1>4, OutsideStep
<1> QED
  BY <1>3, <1>4, <1>5 DEF FInv

\* A thread that runs after its switch has its answer.
LEMMA BackIsAnswered ==
    ASSUME FInv, running \in Threads, fpc[running] = "back"
    PROVE  ~Outstanding(running)
<1>1. pc[running] = "user" /\ waitingOn[running] = NoMutex
  BY DEF FInv, Placed, MOver, WaitersParked
<1>2. Places(running) + (Elsewhere[running] + Awaited[running]) = 1
  BY <1>1 DEF FInv, MOver, Accounts, Counted, Beside, Active
<1>3. Elsewhere[running] = 0
  BY <1>1 DEF Elsewhere
<1>4. Places(running) >= 1 /\ Places(running) \in Int
  BY FInvTypes DEF Places, TypeOver
<1>5. Awaited[running] = IF Outstanding(running) THEN 1 ELSE 0
  BY DEF Awaited
<1> QED
  BY <1>2, <1>3, <1>4, <1>5

LEMMA BackStep == FInv /\ Back => FInv'
<1> SUFFICES ASSUME FInv, Back PROVE FInv'
  OBVIOUS
<1>1. /\ running \in Threads /\ running # Idle /\ fpc[running] = "back" /\ pc[running] = "user"
  BY FHereIs DEF Back
<1>2. /\ UNCHANGED <<allVars, mask, sigState, saved, callbacks, inbox, replies, signalling, usr2>>
      /\ req' = [req EXCEPT ![running] = NoRequest]
  BY DEF Back, maskVars, replyVars
<1>3. PICK b \in {"app", "take", "unlock"} : fpc' = [fpc EXCEPT ![running] = b]
  BY DEF Back, End, GoTo
<1>4. UNCHANGED <<pc, irq>>
  BY <1>2 DEF allVars, vars
<1>5. /\ op' \in [Threads -> Ops] /\ left' \in [Threads -> Nat]
      /\ chunk' \in [Threads -> Chunks \cup {NoChunk}]
      /\ fileResult' \in [Threads -> Results \cup {0}]
      /\ \A t \in Threads \ {running} : op'[t] = op[t] /\ chunk'[t] = chunk[t]
      /\ b = "take" => op[running] # "one" /\ UNCHANGED <<op, chunk>>
  <2>1. /\ op \in [Threads -> Ops] /\ left \in [Threads -> Nat]
        /\ chunk \in [Threads -> Chunks \cup {NoChunk}]
        /\ fileResult \in [Threads -> Results \cup {0}] /\ fpc \in [Threads -> FileLabels]
    BY DEF FInv, FilesTypeOK
  <2>2. CASE End
    <3>1. b = "app"
      BY <1>1, <1>3, <2>1, <2>2 DEF End, GoTo
    <3> QED
      BY <2>1, <2>2, <3>1 DEF End, Ops, NoChunk
  <2>3. CASE MoreChunks /\ op[running] # "one" /\ left' = [left EXCEPT ![running] = @ - 1]
             /\ UNCHANGED <<op, chunk, fileResult>>
    BY <1>1, <2>1, <2>3 DEF MoreChunks
  <2>4. CASE GoTo("unlock") /\ UNCHANGED <<op, left, chunk, fileResult>>
    <3>1. b = "unlock"
      BY <1>1, <1>3, <2>1, <2>4 DEF GoTo
    <3> QED
      BY <2>1, <2>4, <3>1
  <2> QED
    BY <2>2, <2>3, <2>4 DEF Back
<1>6. pool' \in Seq(Chunks)
  <2>1. pool \in Seq(Chunks) /\ (op[running] # "one" => chunk[running] \in Chunks)
    BY <1>1 DEF FInv, FilesTypeOK, Equipped
  <2> QED
    BY <2>1, Pushed DEF Back
<1>7. FilesTypeOK'
  BY <1>1, <1>2, <1>3, <1>4, <1>5, <1>6 DEF FInv, FilesTypeOK, FileLabels
<1>8. SameFrames("map") /\ SameFrames("call")
  BY <1>2 DEF SameFrames, Held, Frame1
<1>9. /\ \A j \in Requests : callbacks[j] # running
      /\ \A u \in Threads, k \in Nat, m \in Mess : Held("call", u, k, m) => m.id # running
  <2>1. ~Outstanding(running) /\ FilesTypeOK /\ Own
    BY <1>1, BackIsAnswered DEF FInv, Letters
  <2>2. \A j \in Requests : callbacks[j] = running => Registered(running)
    BY <1>1, <2>1, ConstantFacts DEF Own, Asked, Registered, Requests, NoRequest, NoThread
  <2> QED
    BY <1>1, <2>1, <2>2, OutstandingIs
<1>10. /\ fpc \in [Threads -> FileLabels] /\ req \in [Threads -> Requests \cup {NoRequest}]
       /\ callbacks \in [Requests -> Threads \cup {NoThread}]
  BY DEF FInv, FilesTypeOK
<1>11. Letters'
  <2>1. Own'
    BY <1>2, <1>3, <1>9, <1>10 DEF FInv, Letters, Own, Asked, Blocked
  <2>2. Queued'
    BY <1>2 DEF FInv, Letters, Queued, Asked
  <2>3. Looked'
    BY <1>2, <1>8 DEF FInv, Letters, Looked, SameFrames, Asked
  <2>4. Told'
    BY <1>2, <1>3, <1>8, <1>9, <1>10 DEF FInv, Letters, Told, SameFrames, Blocked
  <2>5. Once("map")' /\ Once("call")'
    BY <1>8 DEF FInv, Letters, Once, SameFrames
  <2> QED
    BY <2>1, <2>2, <2>3, <2>4, <2>5 DEF Letters
<1>12. Awaited' = Awaited
  <2>1. (\A t \in Threads :
          Outstanding(t) <=> \/ Registered(t)
                             \/ \E u \in Threads, k \in Nat, m \in Mess :
                                  Held("call", u, k, m) /\ m.id = t)'
    BY <1>7, OutstandingIs, PTL
  <2>2. \A t \in Threads \ {running} : Registered(t)' <=> Registered(t)
    BY <1>2, <1>10 DEF Registered
  <2>3. \A t \in Threads \ {running} : Outstanding(t)' <=> Outstanding(t)
    BY <1>8, <2>1, <2>2, OutstandingIs DEF FInv, SameFrames
  <2>4. \A t \in Threads : Awaited'[t] = Awaited[t]
    <3> SUFFICES ASSUME NEW t \in Threads PROVE Awaited'[t] = Awaited[t]
      OBVIOUS
    <3>1. CASE t = running
      BY <3>1, <1>1, <1>3, <1>10, BackIsAnswered DEF Awaited
    <3>2. CASE t # running
      BY <3>2, <1>3, <1>10, <2>3 DEF Awaited
    <3> QED
      BY <3>1, <3>2
  <2> QED
    BY <2>4 DEF Awaited
<1>13. MOver(Awaited)'
  <2>1. [MNext]_allVars /\ fpc[running] # "wait"
    BY <1>1, <1>2
  <2> QED
    BY <1>12, <2>1, BelowStep DEF MStep
<1>14. Placed' /\ Equipped'
  BY <1>1, <1>3, <1>4, <1>5, <1>10, FInvTypes DEF FInv, Placed, Equipped
<1> QED
  BY <1>7, <1>11, <1>13, <1>14 DEF FInv

LEMMA UnlockPoolStep == FInv /\ UnlockPool => FInv'
<1> SUFFICES ASSUME FInv, UnlockPool PROVE FInv'
  OBVIOUS
<1>1. /\ running \in Threads /\ running # Idle /\ fpc[running] = "unlock" /\ pc[running] = "user"
  BY FHereIs DEF UnlockPool
<1>2. /\ UNCHANGED <<mask, sigState, saved, pool, req, callbacks, inbox, replies, signalling, usr2>>
      /\ fpc' = [fpc EXCEPT ![running] = "app"]
      /\ op' = [op EXCEPT ![running] = "none"] /\ left' = [left EXCEPT ![running] = 0]
      /\ chunk' = [chunk EXCEPT ![running] = NoChunk]
      /\ fileResult' = [fileResult EXCEPT ![running] = 0]
      /\ Release(SharedMemMutex) \/ UNCHANGED allVars
  BY DEF UnlockPool, End, GoTo, maskVars, replyVars
<1>3. UNCHANGED irq /\ \A t \in Threads \ {running} : pc'[t] = pc[t]
  BY <1>2, FInvTypes DEF allVars, vars, Release, Step
<1>4. FilesTypeOK'
  BY <1>1, <1>2, <1>3 DEF FInv, FilesTypeOK, FileLabels, Ops, NoChunk
<1>5. Awaited' = Awaited /\ Letters'
  BY <1>1, <1>2, <1>4, UnblockedMove DEF FileLabels
<1>6. MOver(Awaited)'
  <2>1. [MNext]_allVars
    BY <1>2, MutexCount DEF MNext, MutexEntry, SharedMemMutex, MutexIDs
  <2>2. fpc[running] # "wait"
    BY <1>1
  <2> QED
    BY <1>5, <2>1, <2>2, BelowStep DEF MStep
<1>7. fpc'[running] = "app" /\ \A t \in Threads \ {running} : fpc'[t] = fpc[t]
  BY <1>1, <1>2 DEF FInv, FilesTypeOK
<1>8. Placed'
  BY <1>1, <1>3, <1>7, FInvTypes DEF FInv, Placed
<1>9. Equipped'
  BY <1>1, <1>2, <1>7 DEF FInv, FilesTypeOK, Equipped
<1> QED
  BY <1>4, <1>5, <1>6, <1>8, <1>9 DEF FInv

\* WAIT_FOR_FILE: a thread whose answer is outstanding leaves its last place.
LEMMA FileSwitchStep == FInv /\ FileSwitch => FInv'
<1> SUFFICES ASSUME FInv, FileSwitch PROVE FInv'
  OBVIOUS
<1>1. /\ running \in Threads /\ running # Idle /\ fpc[running] = "wait" /\ pc[running] = "user"
  BY FHereIs DEF FileSwitch
<1> DEFINE s == [state EXCEPT ![running] = "WAITING"]
<1>2. /\ \E next \in Tops(PopDead(ready)) : SwitchTo(next, Drop(PopDead(ready), next), s)
      /\ UNCHANGED <<vm, tick, sleepVars, pc, irq, tableVars, mutexVars, mask, saved, op,
                     left, chunk, pool, req, fileResult, callbacks, replyVars>>
      /\ sigState' = mask /\ fpc' = [fpc EXCEPT ![running] = "back"]
  BY DEF FileSwitch, BlockedOut, GoTo
<1>3. /\ TypeOver(Labels) /\ MTypeOK /\ state \in [Threads -> ThreadStates]
      /\ s \in [Threads -> ThreadStates] /\ ready \in [Threads -> Nat]
      /\ fpc \in [Threads -> FileLabels] /\ pc \in [Threads -> Labels]
      /\ pc[Idle] = "user"
  BY FInvTypes DEF FInv, FilesTypeOK, TypeOver, ThreadStates, MOver, Accounts, IdleStays
<1> HIDE DEF s
<1>4. /\ ready' \in [Threads -> Nat]
      /\ running' \in Threads /\ ready[running'] > 0
      /\ state' = [s EXCEPT ![running'] = "RUNNING"]
      /\ \A t \in Threads : ready'[t] + (IF t = running' THEN 1 ELSE 0) = ready[t]
      /\ \A t \in Threads : ready'[t] > 0 => ready[t] > 0
  BY <1>2, <1>3, HandsOver DEF FInv, MOver, Accounts
<1>5. leaving' \in Threads \cup {NoThread}
  BY <1>1, <1>2 DEF SwitchTo
<1>6. FilesTypeOK'
  BY <1>1, <1>2 DEF FInv, FilesTypeOK, FileLabels, replyVars
<1>7. \A t \in Threads : Outstanding(t)' <=> Outstanding(t)
  <2>1. SameFrames("call")
    BY <1>2 DEF SameFrames, Held, Frame1
  <2> QED
    BY <1>2, <1>6, <2>1, OutstandingKept DEF FInv
<1>8. Letters'
  <2>1. SameFrames("map") /\ SameFrames("call")
    BY <1>2 DEF SameFrames, Held, Frame1
  <2>2. \A t \in Threads : Blocked(t) => Blocked(t)'
    BY <1>2, <1>3 DEF Blocked
  <2> QED
    BY <1>2, <2>1, <2>2, LettersKept DEF FInv, FilesTypeOK, replyVars
<1>9. MTypeOK'
  <2>1. state' \in [Threads -> ThreadStates]
    BY <1>3, <1>4 DEF ThreadStates
  <2> QED
    BY <1>2, <1>3, <1>4, <1>5, <2>1
       DEF MTypeOK, TypeOver, MutexesTypeOK, sleepVars, tableVars, mutexVars, listVars,
           lockVars, callVars
<1>10. Counted(Beside(Awaited))'
  <2> SUFFICES ASSUME NEW t \in Threads
               PROVE  Places(t)' + (Elsewhere'[t] + Awaited'[t]) = IF Active(t)' THEN 1 ELSE 0
    BY DEF Counted, Beside
  <2>1. Places(t) + (Elsewhere[t] + Awaited[t]) = IF Active(t) THEN 1 ELSE 0
    BY DEF FInv, MOver, Accounts, Counted, Beside
  <2>2. Places(t)' + (IF t = running THEN 1 ELSE 0) = Places(t)
    BY <1>2, <1>3, <1>4 DEF Places, sleepVars
  <2>3. Elsewhere'[t] = Elsewhere[t] /\ (Active(t)' <=> Active(t))
    BY <1>2 DEF Elsewhere, Active, mutexVars
  <2>4. Awaited'[t] = Awaited[t] + (IF t = running THEN 1 ELSE 0)
    <3>1. CASE t = running
      BY <3>1, <1>1, <1>2, <1>3, <1>7 DEF Awaited
    <3>2. CASE t # running
      BY <3>2, <1>2, <1>3, <1>7 DEF Awaited
    <3> QED
      BY <3>1, <3>2
  <2>5. /\ Places(t) \in Int /\ Places(t)' \in Int /\ Elsewhere[t] \in Int /\ Awaited[t] \in Int
    BY <1>3, <1>4 DEF Places, Elsewhere, Awaited
  <2>6. Places(t)' + (Elsewhere'[t] + Awaited'[t]) = Places(t) + (Elsewhere[t] + Awaited[t])
    <3>1. \A p, q, e, a, d \in Int : p + d = q => p + (e + (a + d)) = q + (e + a)
      OBVIOUS
    <3> QED
      BY <2>2, <2>3, <2>4, <2>5, <3>1
  <2> QED
    BY <2>1, <2>3, <2>6
<1>11. LiveQueues' /\ DeadIsDone' /\ IdleStays'
  <2>1. \A t \in Threads : state'[t] = IF t = running' THEN "RUNNING"
                                       ELSE IF t = running THEN "WAITING" ELSE state[t]
    BY <1>3, <1>4 DEF s
  <2>2. LiveQueues'
    BY <1>2, <1>4, <2>1 DEF FInv, MOver, Accounts, LiveQueues, sleepVars
  <2>3. DeadIsDone'
    BY <1>1, <1>2, <2>1 DEF FInv, MOver, Accounts, DeadIsDone, Active
  <2>4. IdleStays'
    BY <1>2 DEF FInv, MOver, Accounts, IdleStays, sleepVars
  <2> QED
    BY <2>2, <2>3, <2>4
<1>12. WaitersParked' /\ ListOK'
  BY <1>2 DEF FInv, MOver, WaitersParked, ListOK, SlotsFilled, Iterators, EraseOnce, InCall,
              mutexVars, listVars, callVars
<1>13. \A t \in Threads : fpc'[t] = fpc[t] \/ (t = running /\ fpc'[t] = "back")
  BY <1>2, <1>3
<1>14. Placed' /\ Equipped'
  BY <1>1, <1>2, <1>13, FInvTypes DEF FInv, Placed, Equipped
<1> QED
  BY <1>6, <1>8, <1>9, <1>10, <1>11, <1>12, <1>14 DEF FInv, MOver, Accounts

\* The child moves a request from its queue to the replies.
LEMMA ChildStep == FInv /\ Child => FInv'
<1> SUFFICES ASSUME FInv, Child PROVE FInv'
  OBVIOUS
<1>1. /\ UNCHANGED <<allVars, mask, sigState, saved, fpc, op, left, chunk, pool, req, fileResult,
                     callbacks>>
      /\ signalling' \in BOOLEAN /\ usr2' \in BOOLEAN
  BY DEF Child, ChildAnswers, ChildSignals, maskVars, fcallVars, FInv, FilesTypeOK
<1>2. UNCHANGED <<pc, irq>> /\ SameFrames("map") /\ SameFrames("call")
  BY <1>1 DEF allVars, vars, SameFrames, Held, Frame1
<1>3. inbox' \subseteq Requests /\ replies' \in Seq(Message) /\ Queued' /\ Looked'
  <2>1. CASE ChildSignals
    BY <1>1, <1>2, <2>1 DEF ChildSignals, FInv, FilesTypeOK, Letters, Queued, Looked, SameFrames, Asked
  <2>2. CASE ChildAnswers
    <3> DEFINE new(i, r) == [id |-> i, result |-> r]
    <3>1. PICK i \in inbox, r \in Results :
            inbox' = inbox \ {i} /\ replies' = Append(replies, new(i, r))
      BY <2>2 DEF ChildAnswers
    <3>2. /\ i \in Requests /\ new(i, r) \in Message /\ replies \in Seq(Message)
          /\ new(i, r).id = i
      BY DEF FInv, FilesTypeOK, Message
    <3> HIDE DEF new
    <3>3. /\ replies' \in Seq(Message) /\ Len(replies') = Len(replies) + 1
          /\ replies'[Len(replies) + 1] = new(i, r)
          /\ \A k \in 1 .. Len(replies) : replies'[k] = replies[k]
      BY <3>1, <3>2, Appended
    <3>4. /\ DOMAIN replies' = 1 .. Len(replies) + 1 /\ DOMAIN replies = 1 .. Len(replies)
          /\ Len(replies) \in Nat
      BY <3>2, <3>3
    <3>5. \A k \in DOMAIN replies' : \/ k \in DOMAIN replies /\ replies'[k] = replies[k]
                                     \/ k = Len(replies) + 1 /\ replies'[k].id = i
      BY <3>2, <3>3, <3>4
    <3>6. /\ \A j \in inbox : Asked(j)
          /\ \A k \in DOMAIN replies : Asked(replies[k].id) /\ replies[k].id \notin inbox
          /\ \A k, l \in DOMAIN replies : replies[k].id = replies[l].id => k = l
      BY DEF FInv, Letters, Queued
    <3>7. Queued'
      <4>1. \A j : Asked(j)' <=> Asked(j)
        BY <1>1 DEF Asked
      <4>2. \A j \in inbox' : Asked(j)'
        BY <3>1, <3>6, <4>1
      <4>3. ASSUME NEW k \in DOMAIN replies'
            PROVE  Asked(replies'[k].id) /\ replies'[k].id \notin inbox'
        BY <3>1, <3>5, <3>6
      <4>4. ASSUME NEW k \in DOMAIN replies', NEW l \in DOMAIN replies',
                   replies'[k].id = replies'[l].id
            PROVE  k = l
        BY <3>1, <3>5, <3>6, <4>4
      <4> QED
        BY <1>1, <4>2, <4>3, <4>4 DEF Queued, Asked
    <3>8. Looked'
      <4> SUFFICES ASSUME NEW u \in Threads, NEW k \in Nat, NEW m \in Mess, Held("map", u, k, m)
                   PROVE  /\ m.id \in Requests /\ Asked(m.id)' /\ m.id \notin inbox'
                          /\ \A l \in DOMAIN replies' : replies'[l].id # m.id
        BY <1>2 DEF Looked, SameFrames
      <4>1. /\ m.id \in Requests /\ Asked(m.id) /\ m.id \notin inbox
            /\ \A l \in DOMAIN replies : replies[l].id # m.id
        BY DEF FInv, Letters, Looked
      <4>2. \A l \in DOMAIN replies' : replies'[l].id # m.id
        BY <3>1, <3>5, <4>1
      <4> QED
        BY <1>1, <3>1, <4>1, <4>2 DEF Asked
    <3>9. inbox' \subseteq Requests
      BY <3>1 DEF FInv, FilesTypeOK
    <3> QED
      BY <3>3, <3>7, <3>8, <3>9
  <2> QED
    BY <2>1, <2>2 DEF Child
<1>4. FilesTypeOK'
  BY <1>1, <1>2, <1>3 DEF FInv, FilesTypeOK
<1>5. Awaited' = Awaited
  BY <1>1, <1>2, <1>4, AwaitedKept DEF FInv
<1>6. MOver(Awaited)'
  <2>1. irq' \in [Threads -> Seq(FrameLabels)]
    BY <1>2, FInvTypes
  <2> QED
    BY <2>1, <1>1, <1>5, OutsideStep DEF allVars, vars, sleepVars, tableVars
<1>7. Letters'
  <2>1. Own'
    BY <1>1 DEF FInv, Letters, Own, Asked, Blocked
  <2>2. Told'
    BY <1>1, <1>2 DEF FInv, Letters, Told, SameFrames, Blocked
  <2>3. Once("map")' /\ Once("call")'
    BY <1>2 DEF FInv, Letters, Once, SameFrames
  <2> QED
    BY <1>3, <2>1, <2>2, <2>3 DEF Letters
<1>8. Placed' /\ Equipped'
  BY <1>1, <1>2 DEF FInv, Placed, Equipped
<1> QED
  BY <1>4, <1>6, <1>7, <1>8 DEF FInv

-----------------------------------------------------------------------------
(* Handlers.                                                               *)

LEMMA ReplySignalStep == FInv /\ ReplySignal => FInv'
<1> SUFFICES ASSUME FInv, ReplySignal PROVE FInv'
  OBVIOUS
<1>1. /\ running \in Threads /\ FilesTypeOK /\ irq \in [Threads -> Seq(FrameLabels)]
  BY FInvTypes
<1>2. /\ UNCHANGED <<vm, tick, running, leaving, state, ready, sleepVars, pc, tableVars,
                     mutexVars, sigState, fpc, op, left, chunk, pool, req, fileResult,
                     callbacks, inbox, replies, signalling>>
      /\ usr2' \in BOOLEAN /\ mask' \in Masks /\ Push("reply")
      /\ irq' = [irq EXCEPT ![running] = <<"ret">> \o @]
  BY DEF ReplySignal, fcallVars, Masks
<1>3. /\ irq' \in [Threads -> Seq(FrameLabels)]
      /\ \A t \in Threads : Len(irq'[t]) = Len(irq[t]) + (IF t = running THEN 1 ELSE 0)
  BY <1>1, <1>2, Pushed DEF FrameLabels
<1>4. /\ saved' \in [Threads -> Seq(Frames)] /\ SameFrames("map") /\ SameFrames("call")
      /\ \A t \in Threads : Len(saved'[t]) = Len(irq'[t])
  BY <1>1, <1>2, <1>3, PushedFrame DEF FilesTypeOK
<1>5. FilesTypeOK'
  BY <1>1, <1>2, <1>4 DEF FilesTypeOK
<1>6. Awaited' = Awaited
  BY <1>2, <1>4, <1>5, AwaitedKept DEF FInv
<1>7. MOver(Awaited)'
  BY <1>2, <1>3, <1>6, OutsideStep
<1>8. Letters'
  BY <1>2, <1>4, LettersKept DEF FInv, FilesTypeOK, Blocked
<1>9. Placed' /\ Equipped'
  BY <1>2 DEF FInv, Placed, Equipped
<1> QED
  BY <1>5, <1>7, <1>8, <1>9 DEF FInv

\* What the top frame of the running handler becomes, and what else is held.
LEMMA TopBecomes ==
    ASSUME FInv, NEW old \in Kinds, InHandler(old),
           NEW new \in Kinds, NEW mess \in Mess, SetFrame(new, mess)
    PROVE  LET top == Len(saved[running])
               here(u, k) == u = running /\ k = top
           IN  /\ saved' \in [Threads -> Seq(Frames)] /\ running \in Threads
               /\ \A t \in Threads : Len(saved'[t]) = Len(saved[t])
               /\ top \in Nat /\ TopFrame.mess \in Mess /\ Held(old, running, top, TopFrame.mess)
               /\ irq[running] # <<>> /\ vm = "up" /\ leaving = NoThread
               /\ \A u \in Threads, k \in Nat, m \in Mess :
                    /\ here(u, k) => (Held(old, u, k, m) <=> m = TopFrame.mess)
                    /\ \A k2 : Held(k2, u, k, m)' <=> \/ ~here(u, k) /\ Held(k2, u, k, m)
                                                      \/ here(u, k) /\ k2 = new /\ m = mess
                    /\ \A k2 : here(u, k) /\ Held(k2, u, k, m) => k2 = old
<1>1. FilesTypeOK /\ running \in Threads /\ saved[running] # <<>> /\ TopFrame.kind = old
  BY FInvTypes DEF InHandler
<1>2. vm = "up" /\ leaving = NoThread /\ irq[running] # <<>>
  BY <1>1, FInvTypes DEF InHandler, Here, FilesTypeOK
<1>3. LET top == Len(saved[running])
      IN  /\ saved' \in [Threads -> Seq(Frames)]
          /\ \A t \in Threads : Len(saved'[t]) = Len(saved[t])
          /\ top \in Nat \ {0} /\ TopFrame.mess \in Mess
          /\ \A k2, m : \A u \in Threads, k \in Nat :
               IF u = running /\ k = top
               THEN /\ Held(k2, u, k, m) <=> k2 = TopFrame.kind /\ m = TopFrame.mess
                    /\ Held(k2, u, k, m)' <=> k2 = new /\ m = mess
               ELSE Held(k2, u, k, m)' <=> Held(k2, u, k, m)
  BY <1>1, SetTop
<1> QED
  BY <1>1, <1>2, <1>3

LEMMA ReceiveStep == FInv /\ Receive => FInv'
<1> SUFFICES ASSUME FInv, Receive PROVE FInv'
  OBVIOUS
<1> DEFINE top == Len(saved[running])
           first == replies[1]
<1>1. /\ UNCHANGED <<allVars, mask, sigState, fpc, op, left, chunk, pool, req, fileResult,
                     callbacks, inbox, signalling, usr2>>
      /\ InHandler("reply") /\ replies # <<>> /\ SetFrame("map", first)
  BY DEF Receive, fcallVars, FirstReply
<1>2. /\ replies \in Seq(Message) /\ first \in Message
      /\ replies' = Tail(replies) /\ replies' \in Seq(Message)
      /\ Len(replies) \in Nat \ {0} /\ Len(replies') = Len(replies) - 1
      /\ \A k \in 1 .. Len(replies') : replies'[k] = replies[k + 1]
  <2>1. replies \in Seq(Message) /\ replies # <<>>
    BY <1>1 DEF FInv, FilesTypeOK
  <2>2. replies' = Tail(replies)
    BY <2>1, WithoutFirst DEF Receive
  <2> QED
    BY <2>1, <2>2, Popped
<1>3. first \in Mess /\ first.id \in Requests
  BY <1>2 DEF Message, Mess, Requests
<1>4. /\ saved' \in [Threads -> Seq(Frames)] /\ running \in Threads /\ top \in Nat
      /\ \A t \in Threads : Len(saved'[t]) = Len(saved[t])
      /\ SameFrames("call")
      /\ \A u \in Threads, k \in Nat, m \in Mess :
           Held("map", u, k, m)' <=> \/ Held("map", u, k, m)
                                     \/ u = running /\ k = top /\ m = first
  BY <1>1, <1>3, TopBecomes DEF Kinds, SameFrames
<1>5. UNCHANGED <<pc, irq>>
  BY <1>1 DEF allVars, vars
<1>6. FilesTypeOK'
  BY <1>1, <1>2, <1>4, <1>5 DEF FInv, FilesTypeOK
<1>7. Awaited' = Awaited
  BY <1>1, <1>4, <1>6, AwaitedKept DEF FInv
<1>8. MOver(Awaited)'
  <2>1. irq' \in [Threads -> Seq(FrameLabels)]
    BY <1>5, FInvTypes
  <2> QED
    BY <2>1, <1>1, <1>7, OutsideStep DEF allVars, vars, sleepVars, tableVars
<1>9. /\ DOMAIN replies = 1 .. Len(replies) /\ DOMAIN replies' = 1 .. Len(replies) - 1
      /\ \A k \in DOMAIN replies' :
           k + 1 \in DOMAIN replies /\ replies'[k] = replies[k + 1] /\ k + 1 # 1
      /\ 1 \in DOMAIN replies
  BY <1>2
<1>10. /\ \A k \in DOMAIN replies : Asked(replies[k].id) /\ replies[k].id \notin inbox
       /\ \A k, l \in DOMAIN replies : replies[k].id = replies[l].id => k = l
  BY DEF FInv, Letters, Queued
<1>11. Queued'
  <2>1. \A k, l \in DOMAIN replies' : replies'[k].id = replies'[l].id => k = l
    <3> SUFFICES ASSUME NEW k \in DOMAIN replies', NEW l \in DOMAIN replies',
                        replies'[k].id = replies'[l].id
                 PROVE  k = l
      OBVIOUS
    <3>1. k + 1 = l + 1
      BY <1>9, <1>10
    <3> QED
      BY <1>9, <3>1
  <2> QED
    BY <1>1, <1>9, <1>10, <2>1 DEF FInv, Letters, Queued, Asked
<1>12. Looked'
  <2> SUFFICES ASSUME NEW u \in Threads, NEW k \in Nat, NEW m \in Mess, Held("map", u, k, m)'
               PROVE  /\ m.id \in Requests /\ Asked(m.id) /\ m.id \notin inbox
                      /\ \A l \in DOMAIN replies' : replies'[l].id # m.id
    BY <1>1 DEF Looked, Asked
  <2>1. CASE Held("map", u, k, m)
    BY <1>9, <2>1 DEF FInv, Letters, Looked
  <2>2. CASE m = first
    BY <1>3, <1>9, <1>10, <2>2
  <2> QED
    BY <1>4, <2>1, <2>2
<1>13. Once("map")'
  <2>1. \A u \in Threads, k \in Nat, m \in Mess : Held("map", u, k, m) => m.id # first.id
    BY <1>9 DEF FInv, Letters, Looked
  <2>2. \A u, v \in Threads, k, l \in Nat, m, n \in Mess :
          Held("map", u, k, m) /\ Held("map", v, l, n) /\ m.id = n.id => u = v /\ k = l
    BY DEF FInv, Letters, Once
  <2> QED
    BY <1>4, <2>1, <2>2 DEF Once
<1>14. Own' /\ Told' /\ Once("call")'
  <2>1. Own'
    BY <1>1 DEF FInv, Letters, Own, Asked, Blocked
  <2>2. Told'
    BY <1>1, <1>4 DEF FInv, Letters, Told, SameFrames, Blocked
  <2>3. Once("call")'
    BY <1>4 DEF FInv, Letters, Once, SameFrames
  <2> QED
    BY <2>1, <2>2, <2>3
<1>15. Placed' /\ Equipped'
  BY <1>1, <1>5 DEF FInv, Placed, Equipped
<1> QED
  BY <1>6, <1>8, <1>11, <1>12, <1>13, <1>14, <1>15 DEF FInv, Letters

\* EraseCallback: the frame that looks at request `old.id' of thread c becomes one
\* that calls c back.
Erases(r, c, top, old, new) ==
    /\ r = running /\ old.id \in Requests /\ c = callbacks[old.id]
    /\ new.id = c /\ new.result = old.result
    /\ UNCHANGED <<allVars, mask, sigState, fpc, op, left, chunk, pool, req, fileResult,
                  inbox, replies, signalling, usr2>>
    /\ callbacks' \in [Requests -> Threads \cup {NoThread}]
    /\ \A j \in Requests : callbacks'[j] = IF j = old.id THEN NoThread ELSE callbacks[j]
    /\ old.id \notin inbox /\ \A l \in DOMAIN replies : replies[l].id # old.id
    /\ req[c] = old.id /\ Blocked(c) /\ Registered(c)
    /\ \A j \in Requests : callbacks[j] = c => j = old.id
    /\ saved' \in [Threads -> Seq(Frames)]
    /\ \A t \in Threads : Len(saved'[t]) = Len(saved[t])
    /\ Held("map", r, top, old) /\ Held("call", r, top, new)'
    /\ \A u \in Threads, k \in Nat, m \in Mess :
         /\ Held("map", u, k, m)' <=> Held("map", u, k, m) /\ m.id # old.id
         /\ Held("call", u, k, m)' <=> \/ Held("call", u, k, m)
                                       \/ u = r /\ k = top /\ m = new

LEMMA Erased ==
    ASSUME FInv, EraseCallback
    PROVE  \E r, c \in Threads, top \in Nat, old, new \in Mess : Erases(r, c, top, old, new)
<1> DEFINE top == Len(saved[running])
           old == TopFrame.mess
           new == [TopFrame.mess EXCEPT !.id = callbacks[TopFrame.mess.id]]
<1>1. /\ UNCHANGED <<allVars, mask, sigState, fpc, op, left, chunk, pool, req, fileResult,
                     inbox, replies, signalling, usr2>>
      /\ callbacks' = [callbacks EXCEPT ![old.id] = NoThread]
      /\ InHandler("map") /\ SetFrame("call", new)
  BY DEF EraseCallback, fcallVars, replyVars
<1>2. /\ running \in Threads /\ top \in Nat /\ old \in Mess /\ Held("map", running, top, old)
  <2>1. saved[running] \in Seq(Frames) /\ saved[running] # <<>> /\ running \in Threads
        /\ TopFrame.kind = "map"
    BY <1>1, FInvTypes DEF FilesTypeOK, InHandler
  <2>2. Len(saved[running]) \in Nat \ {0} /\ TopFrame \in Frames
    BY <2>1, Popped DEF TopFrame
  <2> QED
    BY <2>1, <2>2 DEF Held, Frame1, TopFrame, Frames
<1>3. /\ callbacks \in [Requests -> Threads \cup {NoThread}] /\ req \in [Threads -> Requests \cup {NoRequest}]
      /\ Requests = Threads /\ NoThread \notin Threads /\ NoRequest \notin Requests
  BY ConstantFacts DEF FInv, FilesTypeOK, Requests, NoRequest, NoThread
<1>4. /\ old.id \in Requests /\ Asked(old.id) /\ old.id \notin inbox
      /\ \A l \in DOMAIN replies : replies[l].id # old.id
  BY <1>2 DEF FInv, Letters, Looked
<1>5. callbacks[old.id] \in Threads
  BY <1>3, <1>4 DEF Asked
<1>6. new \in Mess /\ new.id = callbacks[old.id] /\ new.result = old.result
  BY <1>2, <1>5 DEF Mess
<1> HIDE DEF new
<1>7. /\ saved' \in [Threads -> Seq(Frames)]
      /\ \A t \in Threads : Len(saved'[t]) = Len(saved[t])
      /\ \A u \in Threads, k \in Nat, m \in Mess :
           /\ Held("map", u, k, m)' <=> Held("map", u, k, m) /\ ~(u = running /\ k = top)
           /\ u = running /\ k = top => (Held("map", u, k, m) <=> m = old)
           /\ Held("call", u, k, m)' <=> \/ Held("call", u, k, m)
                                         \/ u = running /\ k = top /\ m = new
  BY <1>1, <1>6, TopBecomes DEF Kinds
<1>8. \A u \in Threads, k \in Nat, m \in Mess : Held("map", u, k, m) =>
        (u = running /\ k = top <=> m.id = old.id)
  BY <1>2, <1>7 DEF FInv, Letters, Once
<1>9. \A j \in Requests : callbacks'[j] = IF j = old.id THEN NoThread ELSE callbacks[j]
  BY <1>1, <1>3
<1>10. /\ req[callbacks[old.id]] = old.id /\ Blocked(callbacks[old.id])
       /\ Registered(callbacks[old.id])
  BY <1>3, <1>4 DEF FInv, Letters, Own, Registered
<1>11. \A j \in Requests : callbacks[j] = callbacks[old.id] => j = old.id
  BY <1>3, <1>4, <1>5, <1>10 DEF FInv, Letters, Own, Asked
<1> HIDE DEF top, old
<1>12. PICK r, c \in Threads : r = running /\ c = callbacks[old.id]
  BY <1>2, <1>5
<1>13. PICK l \in Nat, o, n \in Mess : l = top /\ o = old /\ n = new
  BY <1>2, <1>6
<1>14. callbacks' \in [Requests -> Threads \cup {NoThread}]
  BY <1>1, <1>3
<1>15. \A u \in Threads, k \in Nat, m \in Mess :
         /\ Held("map", u, k, m)' <=> Held("map", u, k, m) /\ m.id # o.id
         /\ Held("call", u, k, m)' <=> \/ Held("call", u, k, m)
                                       \/ u = r /\ k = l /\ m = n
  BY <1>7, <1>8, <1>12, <1>13
<1>16. Held("call", r, l, n)'
  BY <1>12, <1>13, <1>15
<1>17. Held("map", r, l, o)
  BY <1>2, <1>12, <1>13
<1>18. Erases(r, c, l, o, n)
  BY <1>1, <1>4, <1>6, <1>7, <1>9, <1>10, <1>11, <1>12, <1>13, <1>14, <1>15, <1>16, <1>17
     DEF Erases
<1> QED
  BY <1>18

\* The thread of the erased entry is registered no more, and no other one loses its
\* entry.
LEMMA ErasedNames ==
    ASSUME FInv, NEW r \in Threads, NEW c \in Threads, NEW top, NEW old, NEW new,
           Erases(r, c, top, old, new)
    PROVE  /\ ~Registered(c)'
           /\ \A t \in Threads \ {c} : Registered(t)' <=> Registered(t)
<1>1. /\ UNCHANGED req /\ callbacks[old.id] = c /\ req[c] = old.id /\ old.id \in Requests
      /\ \A j \in Requests : callbacks'[j] = IF j = old.id THEN NoThread ELSE callbacks[j]
  BY DEF Erases
<1>2. NoThread \notin Threads /\ req \in [Threads -> Requests \cup {NoRequest}]
  BY ConstantFacts DEF FInv, FilesTypeOK, NoThread
<1>3. \A t \in Threads : req[t] # NoRequest => req[t] \in Requests
  BY <1>2
<1> QED
  BY <1>1, <1>2, <1>3 DEF Registered

\* The first look at what it takes from the queue is the last: the entry of the
\* request is erased, and the thread it named is about to be called back.
LEMMA EraseCallbackStep == FInv /\ EraseCallback => FInv'
<1> SUFFICES ASSUME FInv, EraseCallback PROVE FInv'
  OBVIOUS
<1>1. PICK r, c \in Threads, top \in Nat, old, new \in Mess : Erases(r, c, top, old, new)
  BY Erased
<1>2. UNCHANGED <<pc, irq>>
  BY <1>1 DEF allVars, vars, Erases
<1>3. Requests = Threads /\ NoThread \notin Threads
  BY ConstantFacts DEF Requests
<1>4. FilesTypeOK'
  BY <1>1, <1>2 DEF FInv, FilesTypeOK, Erases
<1>5. Own' /\ Queued'
  <2>1. Own'
    <3>1. Own
      BY DEF FInv, Letters
    <3>2. UNCHANGED <<req, fpc>>
      BY <1>1 DEF Erases
    <3>3. \A j \in Requests : callbacks'[j] # NoThread => callbacks'[j] = callbacks[j]
      BY <1>1 DEF Erases
    <3> QED
      BY <3>1, <3>2, <3>3 DEF Own, Asked, Blocked
  <2>2. /\ \A j \in inbox : Asked(j) /\ j \in Requests
        /\ \A k \in DOMAIN replies : Asked(replies[k].id) /\ replies[k].id \notin inbox
        /\ \A k, l \in DOMAIN replies : replies[k].id = replies[l].id => k = l
        /\ \A k \in DOMAIN replies : replies[k].id \in Requests
    BY ReplyType DEF FInv, FilesTypeOK, Letters, Queued
  <2>3. \A j \in inbox : Asked(j)'
    BY <1>1, <2>2 DEF Asked, Erases
  <2>4. \A k \in DOMAIN replies : callbacks[replies[k].id] # NoThread /\ replies[k].id # old.id
    BY <1>1, <2>2 DEF Asked, Erases
  <2>5. \A k \in DOMAIN replies : callbacks'[replies[k].id] # NoThread
    BY <1>1, <2>2, <2>4 DEF Erases
  <2> QED
    BY <1>1, <2>1, <2>2, <2>3, <2>5 DEF Queued, Asked, Erases
<1>6. Looked' /\ Once("map")'
  <2>1. Once("map")'
    BY <1>1 DEF FInv, Letters, Once, Erases
  <2>2. \A u \in Threads, k \in Nat, m \in Mess : Held("map", u, k, m)' =>
          /\ m.id # old.id /\ m.id \in Requests /\ Asked(m.id) /\ m.id \notin inbox
          /\ \A l \in DOMAIN replies : replies[l].id # m.id
    <3>1. Looked /\ \A u \in Threads, k \in Nat, m \in Mess :
            Held("map", u, k, m)' => Held("map", u, k, m) /\ m.id # old.id
      BY <1>1 DEF FInv, Letters, Erases
    <3> QED
      BY <3>1 DEF Looked
  <2>3. /\ UNCHANGED <<inbox, replies>>
        /\ \A j \in Requests : j # old.id => callbacks'[j] = callbacks[j]
    BY <1>1 DEF Erases
  <2>4. Looked'
    BY <2>2, <2>3 DEF Looked, Asked
  <2> QED
    BY <2>1, <2>4
<1>7. Told' /\ Once("call")'
  <2>1. \A u \in Threads, k \in Nat, m \in Mess : Held("call", u, k, m) =>
          /\ m.id \in Threads /\ Blocked(m.id)
          /\ \A j \in Requests : callbacks[j] # m.id
    BY DEF FInv, Letters, Told
  <2>2. \A t \in Threads : (\A j \in Requests : callbacks[j] # t)
                             => \A j \in Requests : callbacks'[j] # t
    <3>1. \A j \in Requests : callbacks'[j] # NoThread => callbacks'[j] = callbacks[j]
      BY <1>1 DEF Erases
    <3> QED
      BY <1>3, <3>1
  <2>3. \A j \in Requests : callbacks'[j] # new.id
    <3>1. \A j \in Requests : callbacks[j] = c => j = old.id
      BY <1>1 DEF Erases
    <3>2. \A j \in Requests : callbacks'[j] = IF j = old.id THEN NoThread ELSE callbacks[j]
      BY <1>1 DEF Erases
    <3>3. new.id = c /\ c # NoThread
      BY <1>1, <1>3 DEF Erases
    <3> QED
      BY <3>1, <3>2, <3>3
  <2>4. \A t : Blocked(t)' <=> Blocked(t)
    BY <1>1 DEF Blocked, Erases
  <2>5. Told'
    <3>1. /\ new.id = c /\ Blocked(c)
          /\ \A u \in Threads, k \in Nat, m \in Mess :
               Held("call", u, k, m)' => Held("call", u, k, m) \/ m = new
      BY <1>1 DEF Erases
    <3> SUFFICES ASSUME NEW u \in Threads, NEW k \in Nat, NEW m \in Mess, Held("call", u, k, m)'
                 PROVE  /\ m.id \in Threads /\ Blocked(m.id)'
                        /\ \A j \in Requests : callbacks'[j] # m.id
      BY DEF Told
    <3>2. CASE m = new
      BY <2>3, <2>4, <3>1, <3>2
    <3>3. CASE Held("call", u, k, m)
      BY <2>1, <2>2, <2>4, <3>3
    <3> QED
      BY <3>1, <3>2, <3>3
  <2>6. \A u, v \in Threads, k, l \in Nat, m, n \in Mess :
          Held("call", u, k, m) /\ Held("call", v, l, n) /\ m.id = n.id => u = v /\ k = l
    BY DEF FInv, Letters, Once
  <2>7. \A u \in Threads, k \in Nat, m \in Mess : Held("call", u, k, m) => m.id # new.id
    BY <1>1, <2>1 DEF Erases
  <2>8. Once("call")'
    BY <1>1, <2>6, <2>7 DEF Once, Erases
  <2> QED
    BY <2>5, <2>8
<1>8. Awaited' = Awaited
  <2>1. (\A t \in Threads :
          Outstanding(t) <=> \/ Registered(t)
                             \/ \E u \in Threads, k \in Nat, m \in Mess :
                                  Held("call", u, k, m) /\ m.id = t)'
    BY <1>4, OutstandingIs, PTL
  <2>2. \A t \in Threads \ {c} : Registered(t)' <=> Registered(t)
    BY <1>1, ErasedNames
  <2>3. \A t \in Threads \ {c} : Outstanding(t)' <=> Outstanding(t)
    BY <1>1, <2>1, <2>2, OutstandingIs DEF FInv, Erases
  <2>4. Outstanding(c)' /\ Outstanding(c)
    BY <1>1, <2>1 DEF Outstanding, Erases
  <2>5. \A t \in Threads : Awaited'[t] = Awaited[t]
    BY <1>1, <2>3, <2>4 DEF Awaited, Erases
  <2> QED
    BY <2>5 DEF Awaited
<1>9. MOver(Awaited)'
  <2>1. irq' \in [Threads -> Seq(FrameLabels)]
    BY <1>2, FInvTypes
  <2> QED
    BY <2>1, <1>1, <1>8, OutsideStep DEF allVars, vars, sleepVars, tableVars, Erases
<1>10. Placed' /\ Equipped'
  BY <1>1, <1>2 DEF FInv, Placed, Equipped, Erases
<1> QED
  BY <1>4, <1>5, <1>6, <1>7, <1>9, <1>10 DEF FInv, Letters

\* Threads whose answer has come go to the ready heap.
LEMMA WokenAccounts ==
    ASSUME FInv, NEW C \in SUBSET Threads,
           ready' \in [Threads -> Nat], state' \in [Threads -> ThreadStates],
           \A t \in Threads : /\ ready'[t] = ready[t] + (IF t \in C THEN 1 ELSE 0)
                              /\ state'[t] = IF t \in C THEN "READY" ELSE state[t]
                              /\ Awaited'[t] = Awaited[t] - (IF t \in C THEN 1 ELSE 0)
                              /\ t \in C => Active(t) /\ pc[t] # "dying",
           UNCHANGED <<tick, running, leaving, sleepVars, pc, tableVars, mutexVars>>,
           vm' \in {vm, "wrecked"}, irq' \in [Threads -> Seq(FrameLabels)]
    PROVE  MOver(Awaited)'
<1>1. MTypeOK'
  BY DEF FInv, MOver, MTypeOK, TypeOver, MutexesTypeOK, sleepVars, tableVars, mutexVars,
         listVars, lockVars, callVars
<1>2. Counted(Beside(Awaited))'
  <2> SUFFICES ASSUME NEW t \in Threads
               PROVE  Places(t)' + (Elsewhere'[t] + Awaited'[t]) = IF Active(t)' THEN 1 ELSE 0
    BY DEF Counted, Beside
  <2>1. Places(t) + (Elsewhere[t] + Awaited[t]) = IF Active(t) THEN 1 ELSE 0
    BY DEF FInv, MOver, Accounts, Counted, Beside
  <2> DEFINE d == IF t \in C THEN 1 ELSE 0
  <2>2. Places(t)' = Places(t) + d
    <3>0. ready \in [Threads -> Nat]
      BY FInvTypes DEF TypeOver
    <3>1. ready[t] \in Int /\ ready'[t] = ready[t] + d /\ UNCHANGED <<running, asleep>>
      BY <3>0 DEF sleepVars
    <3>2. d \in Int
      OBVIOUS
    <3> HIDE DEF d
    <3> QED
      BY <3>1, <3>2 DEF Places
  <2>3. Elsewhere'[t] = Elsewhere[t] /\ (Active(t)' <=> Active(t))
    BY DEF Elsewhere, Active, mutexVars
  <2>4. /\ Places(t) \in Int /\ Elsewhere[t] \in Int /\ Awaited[t] \in Int /\ d \in Int
        /\ Awaited'[t] = Awaited[t] - d
    <3>1. ready[t] \in Int
      BY FInvTypes DEF TypeOver
    <3> QED
      BY <3>1 DEF Places, Elsewhere, Awaited
  <2> HIDE DEF d
  <2>5. \A p, e, a, x \in Int : (p + x) + (e + (a - x)) = p + (e + a)
    OBVIOUS
  <2>6. Places(t)' + (Elsewhere'[t] + Awaited'[t]) = Places(t) + (Elsewhere[t] + Awaited[t])
    BY <2>2, <2>3, <2>4, <2>5
  <2> QED
    BY <2>1, <2>3, <2>6
<1>3. LiveQueues' /\ DeadIsDone' /\ IdleStays'
  <2>1. LiveQueues'
    <3>1. \A t \in Threads : ready[t] \in Nat /\ (t \notin C => ready'[t] = ready[t])
      BY FInvTypes DEF TypeOver
    <3> QED
      BY <3>1 DEF FInv, MOver, Accounts, LiveQueues, sleepVars
  <2>2. DeadIsDone'
    BY DEF FInv, MOver, Accounts, DeadIsDone, Active
  <2>3. IdleStays'
    BY DEF FInv, MOver, Accounts, IdleStays, sleepVars
  <2> QED
    BY <2>1, <2>2, <2>3
<1>4. WaitersParked' /\ ListOK'
  BY DEF FInv, MOver, WaitersParked, ListOK, SlotsFilled, Iterators, EraseOnce, InCall,
         mutexVars, listVars, callVars
<1> QED
  BY <1>1, <1>2, <1>3, <1>4 DEF MOver, Accounts

\* A blocked thread is alive.
LEMMA BlockedLives ==
    FInv => \A t \in Threads : Blocked(t) => /\ pc[t] = "user" /\ Active(t) /\ t # Idle
BY FInvTypes DEF FInv, Placed, Blocked, Active

\* FileCallback wakes the thread that the message names.
LEMMA FileCallbackStep == FInv /\ FileCallback => FInv'
<1> SUFFICES ASSUME FInv, FileCallback PROVE FInv'
  OBVIOUS
<1> DEFINE top == Len(saved[running])
           old == TopFrame.mess
<1>1. PICK t0 : t0 = old.id
  OBVIOUS
<1>2. /\ UNCHANGED <<vm, tick, running, leaving, sleepVars, pc, tableVars, mutexVars, mask,
                     fpc, op, left, chunk, pool, req, callbacks, inbox, replies, signalling, usr2>>
      /\ InHandler("call") /\ SetFrame("reply", NoMessage)
      /\ state' = [state EXCEPT ![t0] = "READY"] /\ ready' = Add(ready, t0)
      /\ fileResult' = [fileResult EXCEPT ![t0] = old.result]
      /\ irq' = [irq EXCEPT ![running] = <<"prio">> \o Tail(@)] /\ sigState' = mask
  BY <1>1 DEF FileCallback, fcallVars, replyVars, ResultFor
<1>3. NoMessage \in Mess
  BY DEF NoMessage, Mess
<1>4. /\ saved' \in [Threads -> Seq(Frames)] /\ running \in Threads
      /\ \A t \in Threads : Len(saved'[t]) = Len(saved[t])
      /\ top \in Nat /\ old \in Mess /\ Held("call", running, top, old)
      /\ irq[running] # <<>>
      /\ \A u \in Threads, k \in Nat, m \in Mess :
           /\ u = running /\ k = top => (Held("call", u, k, m) <=> m = old)
           /\ Held("map", u, k, m)' <=> Held("map", u, k, m)
           /\ Held("call", u, k, m)' <=> Held("call", u, k, m) /\ ~(u = running /\ k = top)
  <2>1. /\ saved' \in [Threads -> Seq(Frames)] /\ running \in Threads
        /\ \A t \in Threads : Len(saved'[t]) = Len(saved[t])
        /\ top \in Nat /\ old \in Mess /\ Held("call", running, top, old)
        /\ irq[running] # <<>>
    BY <1>2, <1>3, TopBecomes DEF Kinds
  <2>2. \A u \in Threads, k \in Nat, m \in Mess :
          /\ u = running /\ k = top => (Held("call", u, k, m) <=> m = old)
          /\ \A k2 : u = running /\ k = top /\ Held(k2, u, k, m) => k2 = "call"
    BY <1>2, <1>3, TopBecomes DEF Kinds
  <2>3. \A u \in Threads, k \in Nat, m \in Mess :
          \A k2 \in {"map", "call"} :
             Held(k2, u, k, m)' <=> Held(k2, u, k, m) /\ ~(u = running /\ k = top)
    BY <1>2, <1>3, TopBecomes DEF Kinds
  <2> QED
    BY <2>1, <2>2, <2>3
<1>5. SameFrames("map")
  BY <1>4 DEF SameFrames
<1>6. /\ t0 \in Threads /\ Blocked(t0) /\ \A j \in Requests : callbacks[j] # t0
  BY <1>1, <1>4 DEF FInv, Letters, Told
<1>7. /\ irq' \in [Threads -> Seq(FrameLabels)]
      /\ \A t \in Threads : Len(irq'[t]) = Len(irq[t])
  <2>1. irq \in [Threads -> Seq(FrameLabels)] /\ "prio" \in FrameLabels
    BY FInvTypes DEF FrameLabels
  <2>2. Tail(irq[running]) \in Seq(FrameLabels) /\ Len(irq[running]) \in Nat
        /\ Len(Tail(irq[running])) = Len(irq[running]) - 1
    BY <1>4, <2>1, Popped
  <2>3. <<"prio">> \o Tail(irq[running]) \in Seq(FrameLabels)
        /\ Len(<<"prio">> \o Tail(irq[running])) = Len(Tail(irq[running])) + 1
    BY <2>1, <2>2, Pushed
  <2>4. Len(<<"prio">> \o Tail(irq[running])) = Len(irq[running])
    BY <2>2, <2>3
  <2> QED
    BY <1>2, <1>4, <2>1, <2>3, <2>4
<1>8. FilesTypeOK'
  <2>1. fileResult' \in [Threads -> Results \cup {0}]
    BY <1>2, <1>4 DEF FInv, FilesTypeOK, Mess
  <2> QED
    BY <1>2, <1>4, <1>7, <2>1 DEF FInv, FilesTypeOK
<1>9. \A t \in Threads : /\ t # t0 => (Outstanding(t)' <=> Outstanding(t))
                         /\ t = t0 => Outstanding(t) /\ ~Outstanding(t)'
  <2>1. (\A t \in Threads :
          Outstanding(t) <=> \/ Registered(t)
                             \/ \E u \in Threads, k \in Nat, m \in Mess :
                                  Held("call", u, k, m) /\ m.id = t)'
    BY <1>8, OutstandingIs, PTL
  <2>2. \A t \in Threads : Registered(t)' <=> Registered(t)
    BY <1>2 DEF Registered
  <2>3. \A u \in Threads, k \in Nat, m \in Mess :
          m.id # t0 => (Held("call", u, k, m)' <=> Held("call", u, k, m))
    BY <1>1, <1>4
  <2>4. \A u \in Threads, k \in Nat, m \in Mess : m.id = t0 => ~Held("call", u, k, m)'
    BY <1>1, <1>4 DEF FInv, Letters, Once
  <2>5. ~Registered(t0)
    BY <1>6 DEF Registered, FInv, FilesTypeOK
  <2>6. \E u \in Threads, k \in Nat, m \in Mess : Held("call", u, k, m) /\ m.id = t0
    BY <1>1, <1>4
  <2> QED
    BY <2>1, <2>2, <2>3, <2>4, <2>5, <2>6, OutstandingIs DEF FInv
<1>10. MOver(Awaited)'
  <2>1. /\ ready \in [Threads -> Nat] /\ state \in [Threads -> ThreadStates]
    BY FInvTypes DEF TypeOver
  <2>2. /\ ready' \in [Threads -> Nat] /\ state' \in [Threads -> ThreadStates]
        /\ \A t \in Threads : /\ ready'[t] = ready[t] + (IF t \in {t0} THEN 1 ELSE 0)
                              /\ state'[t] = IF t \in {t0} THEN "READY" ELSE state[t]
    BY <1>2, <1>6, <2>1 DEF Add, ThreadStates
  <2>3. \A t \in Threads : Awaited'[t] = Awaited[t] - (IF t \in {t0} THEN 1 ELSE 0)
    <3> SUFFICES ASSUME NEW t \in Threads
                 PROVE  Awaited'[t] = Awaited[t] - (IF t \in {t0} THEN 1 ELSE 0)
      OBVIOUS
    <3>1. CASE t = t0
      BY <3>1, <1>2, <1>6, <1>9 DEF Awaited, Blocked
    <3>2. CASE t # t0
      BY <3>2, <1>2, <1>9 DEF Awaited
    <3> QED
      BY <3>1, <3>2
  <2>4. Active(t0) /\ pc[t0] # "dying"
    BY <1>6, BlockedLives
  <2>5. /\ UNCHANGED <<tick, running, leaving, sleepVars, pc, tableVars, mutexVars>>
        /\ vm' \in {vm, "wrecked"} /\ irq' \in [Threads -> Seq(FrameLabels)]
        /\ {t0} \in SUBSET Threads
    BY <1>2, <1>6, <1>7
  <2>6. \A t \in Threads : /\ ready'[t] = ready[t] + (IF t \in {t0} THEN 1 ELSE 0)
                           /\ state'[t] = IF t \in {t0} THEN "READY" ELSE state[t]
                           /\ Awaited'[t] = Awaited[t] - (IF t \in {t0} THEN 1 ELSE 0)
                           /\ t \in {t0} => Active(t) /\ pc[t] # "dying"
    BY <2>2, <2>3, <2>4
  <2>7. ready' \in [Threads -> Nat] /\ state' \in [Threads -> ThreadStates]
    BY <2>2
  <2> QED
    BY <2>5, <2>6, <2>7, WokenAccounts
<1>11. Letters'
  <2>0. UNCHANGED <<fpc, req, callbacks, inbox, replies>>
    BY <1>2
  <2>1. Own' /\ Queued'
    <3>1. Own /\ Queued
      BY DEF FInv, Letters
    <3>2. Own'
      BY <2>0, <3>1 DEF Own, Asked, Blocked
    <3>3. Queued'
      BY <2>0, <3>1 DEF Queued, Asked
    <3> QED
      BY <3>2, <3>3
  <2>2. Looked' /\ Once("map")'
    <3>1. Looked /\ Once("map")
      BY DEF FInv, Letters
    <3>2. \A u \in Threads, k \in Nat, m \in Mess : Held("map", u, k, m)' <=> Held("map", u, k, m)
      BY <1>5 DEF SameFrames
    <3>3. Looked'
      BY <2>0, <3>1, <3>2 DEF Looked, Asked
    <3>4. Once("map")'
      BY <3>1, <3>2 DEF Once
    <3> QED
      BY <3>3, <3>4
  <2>3. Told'
    <3>1. \A t : Blocked(t)' <=> Blocked(t)
      BY <2>0 DEF Blocked
    <3>2. Told
      BY DEF FInv, Letters
    <3>3. ASSUME NEW u \in Threads, NEW k \in Nat, NEW m \in Mess, Held("call", u, k, m)'
          PROVE  Held("call", u, k, m)
      BY <1>4, <3>3
    <3> QED
      BY <2>0, <3>1, <3>2, <3>3 DEF Told
  <2>4. Once("call")'
    <3>1. Once("call")
      BY DEF FInv, Letters
    <3>2. \A u \in Threads, k \in Nat, m \in Mess : Held("call", u, k, m)' => Held("call", u, k, m)
      BY <1>4
    <3> QED
      BY <3>1, <3>2 DEF Once
  <2> QED
    BY <2>1, <2>2, <2>3, <2>4 DEF Letters
<1>12. Placed' /\ Equipped'
  BY <1>2 DEF FInv, Placed, Equipped
<1> QED
  BY <1>8, <1>10, <1>11, <1>12 DEF FInv

\* A handler that runs during a switch takes all replies there are.
LEMMA ReplyInSwitchStep == FInv /\ ReplyInSwitch => FInv'
<1> SUFFICES ASSUME FInv, ReplyInSwitch PROVE FInv'
  OBVIOUS
<1>1. PICK ids : ids = {replies[k].id : k \in DOMAIN replies}
  OBVIOUS
<1>2. PICK C : C = {callbacks[i] : i \in ids}
  OBVIOUS
<1>3. /\ ready' = [t \in Threads |-> ready[t] + IF t \in C THEN 1 ELSE 0]
      /\ state' = [t \in Threads |-> IF t \in C THEN "READY" ELSE state[t]]
      /\ callbacks' = [i \in Requests |-> IF i \in ids THEN NoThread ELSE callbacks[i]]
      /\ fileResult' \in [Threads -> Results \cup {0}]
      /\ vm' \in {vm, "wrecked"}
      /\ replies' = <<>> /\ usr2' = FALSE /\ sigState' = "answers"
      /\ UNCHANGED <<tick, running, leaving, sleepVars, pc, irq, tableVars, mutexVars, mask,
                     saved, fpc, op, left, chunk, pool, req, inbox, signalling>>
  BY <1>1, <1>2 DEF ReplyInSwitch, fcallVars
<1>4. /\ callbacks \in [Requests -> Threads \cup {NoThread}] /\ req \in [Threads -> Requests \cup {NoRequest}]
      /\ Requests = Threads /\ NoThread \notin Threads /\ NoRequest \notin Requests
  BY ConstantFacts DEF FInv, FilesTypeOK, Requests, NoRequest, NoThread
<1>5. \A i \in ids : /\ i \in Requests /\ Asked(i) /\ i \notin inbox /\ callbacks[i] \in Threads
                     /\ req[callbacks[i]] = i /\ Blocked(callbacks[i])
  <2>1. \A k \in DOMAIN replies : replies[k].id \in Requests
    BY ReplyType DEF FInv
  <2>2. \A i \in ids : i \in Requests /\ Asked(i) /\ i \notin inbox
    BY <1>1, <2>1 DEF FInv, Letters, Queued
  <2> QED
    BY <1>4, <2>2 DEF FInv, Letters, Own, Asked
<1>6. \A t \in C : t \in Threads /\ Blocked(t) /\ req[t] \in ids /\ callbacks[req[t]] = t
  BY <1>2, <1>5
<1>7. SameFrames("map") /\ SameFrames("call")
  BY <1>3 DEF SameFrames, Held, Frame1
<1>8. FilesTypeOK'
  <2>1. callbacks' \in [Requests -> Threads \cup {NoThread}]
    BY <1>3, <1>4
  <2>2. replies' \in Seq(Message) /\ sigState' \in Masks /\ usr2' \in BOOLEAN
    <3>1. <<>> \in Seq(Message)
      OBVIOUS
    <3> QED
      BY <1>3, <3>1 DEF Masks
  <2> QED
    BY <1>3, <2>1, <2>2 DEF FInv, FilesTypeOK
<1>9. \A i \in Requests : callbacks'[i] = IF i \in ids THEN NoThread ELSE callbacks[i]
  BY <1>3
<1>10. \A u \in Threads, k \in Nat, m \in Mess : Held("call", u, k, m) => m.id \notin C
  BY <1>2, <1>5 DEF FInv, Letters, Told
<1>11. \A t \in Threads : IF t \in C THEN Outstanding(t) /\ ~Outstanding(t)'
                                    ELSE Outstanding(t)' <=> Outstanding(t)
  <2>1. (\A t \in Threads :
          Outstanding(t) <=> \/ Registered(t)
                             \/ \E u \in Threads, k \in Nat, m \in Mess :
                                  Held("call", u, k, m) /\ m.id = t)'
    BY <1>8, OutstandingIs, PTL
  <2>2. \A t \in C : Registered(t) /\ ~Registered(t)'
    BY <1>3, <1>4, <1>5, <1>6, <1>9 DEF Registered
  <2>3. \A t \in Threads \ C : Registered(t)' <=> Registered(t)
    BY <1>2, <1>3, <1>4, <1>9 DEF Registered
  <2> QED
    BY <1>7, <1>10, <2>1, <2>2, <2>3, OutstandingIs DEF FInv, SameFrames
<1>12. MOver(Awaited)'
  <2>1. ready \in [Threads -> Nat] /\ state \in [Threads -> ThreadStates]
        /\ irq \in [Threads -> Seq(FrameLabels)]
    BY FInvTypes DEF TypeOver
  <2>2. /\ ready' \in [Threads -> Nat] /\ state' \in [Threads -> ThreadStates]
        /\ \A t \in Threads : /\ ready'[t] = ready[t] + (IF t \in C THEN 1 ELSE 0)
                              /\ state'[t] = IF t \in C THEN "READY" ELSE state[t]
    BY <1>3, <2>1 DEF ThreadStates
  <2>3. \A t \in Threads : Awaited'[t] = Awaited[t] - (IF t \in C THEN 1 ELSE 0)
    <3> SUFFICES ASSUME NEW t \in Threads
                 PROVE  Awaited'[t] = Awaited[t] - (IF t \in C THEN 1 ELSE 0)
      OBVIOUS
    <3>1. CASE t \in C
      BY <3>1, <1>3, <1>6, <1>11 DEF Awaited, Blocked
    <3>2. CASE t \notin C
      BY <3>2, <1>3, <1>11 DEF Awaited
    <3> QED
      BY <3>1, <3>2
  <2>4. \A t \in C : Active(t) /\ pc[t] # "dying"
    BY <1>6, BlockedLives
  <2>5. C \in SUBSET Threads
    BY <1>6
  <2> QED
    BY <1>3, <2>1, <2>2, <2>3, <2>4, <2>5, WokenAccounts
<1>13. Letters'
  <2>1. Own'
    BY <1>3, <1>4, <1>9 DEF FInv, Letters, Own, Asked, Blocked
  <2>2. Queued'
    <3>1. \A i \in inbox : i \in Requests /\ Asked(i) /\ i \notin ids
      BY <1>5 DEF FInv, FilesTypeOK, Letters, Queued
    <3>2. DOMAIN replies' = {}
      BY <1>3
    <3> QED
      BY <1>3, <1>9, <3>1, <3>2 DEF Queued, Asked
  <2>3. Looked'
    <3>1. \A u \in Threads, k \in Nat, m \in Mess : Held("map", u, k, m) =>
            m.id \in Requests /\ Asked(m.id) /\ m.id \notin inbox /\ m.id \notin ids
      BY <1>1 DEF FInv, Letters, Looked
    <3>2. DOMAIN replies' = {}
      BY <1>3
    <3> QED
      BY <1>3, <1>7, <1>9, <3>1, <3>2 DEF Looked, SameFrames, Asked
  <2>4. Told'
    BY <1>3, <1>4, <1>7, <1>9 DEF FInv, Letters, Told, SameFrames, Blocked
  <2>5. Once("map")' /\ Once("call")'
    BY <1>7 DEF FInv, Letters, Once, SameFrames
  <2> QED
    BY <2>1, <2>2, <2>3, <2>4, <2>5 DEF Letters
<1>14. Placed' /\ Equipped'
  BY <1>3 DEF FInv, Placed, Equipped
<1> QED
  BY <1>8, <1>12, <1>13, <1>14 DEF FInv

-----------------------------------------------------------------------------
(* The invariant.                                                          *)

LEMMA FInitInv == FInit => FInv
<1> SUFFICES ASSUME FInit PROVE FInv
  OBVIOUS
<1>1. TypeOver(Labels)
  BY InitType, LabelFacts DEF FInit, TypeOK, TypeOver
<1>2. MutexesTypeOK
  BY ConstantFacts, MutexCount DEF FInit, MutexesTypeOK, MutexIDs, NoMutex, SharedMemMutex, Idle
<1>3. pool \in Seq(Chunks)
  BY ChunkCount DEF FInit, Chunks
<1>4. FilesTypeOK
  <2>1. /\ saved \in [Threads -> Seq(Frames)] /\ \A t \in Threads : Len(saved[t]) = Len(irq[t])
    BY DEF FInit, Init
  <2>2. fpc \in [Threads -> FileLabels] /\ op \in [Threads -> Ops]
    BY DEF FInit, FileLabels, Ops
  <2>3. /\ callbacks \in [Requests -> Threads \cup {NoThread}]
        /\ inbox \subseteq Requests /\ replies \in Seq(Message)
    BY DEF FInit
  <2> QED
    BY <1>3, <2>1, <2>2, <2>3
       DEF FInit, FilesTypeOK, Masks, NoChunk, NoRequest, Requests
<1>5. \A t \in Threads : Awaited[t] = 0 /\ Elsewhere[t] = 0
  BY DEF FInit, Init, Awaited, Elsewhere
<1>6. Accounts(Beside(Awaited))
  <2>1. Accounts(Nowhere)
    BY InitInv DEF FInit, Inv
  <2>2. \A t \in Threads : Beside(Awaited)[t] = 0
    BY <1>5 DEF Beside
  <2> QED
    BY <2>1, <2>2 DEF Accounts, Counted, Nowhere
<1>7. WaitersParked /\ ListOK
  <2>1. \A t \in Threads : ~InCall(t) /\ pc[t] # "erase"
    BY DEF FInit, Init, InCall, MutexLabels
  <2>2. SlotsFilled
    <3>1. \A i \in MutexIDs : i < 1 => i = 0
      BY MutexCount DEF MutexIDs
    <3>2. 0 \in MutexIDs
      BY MutexCount DEF MutexIDs
    <3> QED
      BY <3>1, <3>2 DEF FInit, SlotsFilled, SharedMemMutex
  <2> QED
    BY <2>1, <2>2 DEF FInit, WaitersParked, ListOK, Iterators, EraseOnce
<1>8. Placed /\ Equipped
  BY ConstantFacts DEF FInit, Init, Placed, Equipped, Idle, Main
<1>9. Letters
  <2>1. \A u \in Threads, k \in Nat : \A kind, m : ~Held(kind, u, k, m)
    BY DEF FInit, Held
  <2>2. DOMAIN replies = {}
    BY DEF FInit
  <2> QED
    BY <2>1, <2>2 DEF FInit, Letters, Own, Queued, Looked, Told, Once, Asked
<1> QED
  BY <1>1, <1>2, <1>4, <1>6, <1>7, <1>8, <1>9 DEF FInv, MOver, MTypeOK, Labels

LEMMA FInvStep == FInv /\ [FNext]_fvars => FInv'
<1>1. FInv /\ UNCHANGED fvars => FInv'
  <2> SUFFICES ASSUME FInv, UNCHANGED fvars PROVE FInv'
    OBVIOUS
  <2>1. /\ [MNext]_allVars /\ FileRest /\ UNCHANGED <<pc, irq, saved, running, mask, sigState>>
    BY DEF fvars, fileVars, maskVars, FileRest, allVars, vars
  <2>2. mask' \in Masks /\ sigState' \in Masks
    BY <2>1 DEF FInv, FilesTypeOK
  <2>3. CodeStays /\ SameDepth /\ NoFileCallEnds
    BY <2>1, StillStays
  <2> QED
    BY <2>1, <2>2, <2>3, QuietStep
<1>2. FInv /\ Handler => FInv'
  BY ReceiveStep, EraseCallbackStep, FileCallbackStep, HandlerReturnsStep DEF Handler
<1>3. FInv /\ FileStep => FInv'
  BY TakeStep, SendStep, FirstChunkStep, MapCorruptedStep, FileSwitchStep, BackStep,
     UnlockPoolStep DEF FileStep
<1>4. FInv /\ AppCall => FInv'
  BY FileCallStep, OtherCallStep DEF AppCall
<1> QED
  BY <1>1, <1>2, <1>3, <1>4, SectionStep, LookStep, AlarmSignalStep, ReplySignalStep,
     ReplyInSwitchStep, ChildStep, OtherCallStep DEF FNext

\* The variables of the file calls always hold values of their types, and every
\* stack has a saved mask for each of its handler frames: a handler that returns
\* finds what its frame saved, whatever was nested above it.
THEOREM FileTypeCorrect == FSpec => []FTypeOK
<1>1. FInv => FTypeOK
  <2> SUFFICES ASSUME FInv PROVE FTypeOK
    OBVIOUS
  <2>1. \A t \in Threads : \A i \in DOMAIN saved[t] : FrameOK(saved[t][i])
    <3> SUFFICES ASSUME NEW t \in Threads, NEW i \in DOMAIN saved[t] PROVE FrameOK(saved[t][i])
      OBVIOUS
    <3>1. saved[t] \in Seq(Frames)
      BY DEF FInv, FilesTypeOK
    <3>2. saved[t][i] \in Frames
      BY <3>1
    <3> QED
      BY <3>2 DEF Frames, Mess, FrameOK
  <2> QED
    BY <2>1 DEF FInv, FilesTypeOK, MOver, FTypeOK
<1> QED
  BY FInitInv, FInvStep, <1>1, PTL DEF FSpec

\* No interleaving of answers, ticks, preemptions and switches loses a thread that
\* waits for the child or wakes it twice: while its answer is outstanding the
\* blocked thread is nowhere else, and afterwards it is in one place.
THEOREM RequestsConserved == FSpec => []FOnePlace
<1>1. FInv => FOnePlace
  <2> SUFFICES ASSUME FInv, NEW t \in Threads
               PROVE  FPlaces(t) = IF ~Active(t) THEN 0
                                   ELSE IF \/ pc[t] = "mwait"
                                           \/ fpc[t] = "wait" /\ ~Outstanding(t) THEN 2 ELSE 1
    BY DEF FOnePlace
  <2>1. Places(t) + (Elsewhere[t] + Awaited[t]) = IF Active(t) THEN 1 ELSE 0
    BY DEF FInv, MOver, Accounts, Counted, Beside
  <2>2. Places(t) \in Int
    <3>1. ready[t] \in Nat
      BY FInvTypes DEF TypeOver
    <3> QED
      BY <3>1 DEF Places
  <2>3. /\ pc[t] = "mwait" => Active(t) /\ fpc[t] # "wait"
        /\ fpc[t] \in {"wait", "back"} => Active(t)
    BY DEF FInv, Placed, Active
  <2>4. /\ Elsewhere[t] = (IF waitingOn[t] # NoMutex THEN 1 ELSE 0) - (IF pc[t] = "mwait" THEN 1 ELSE 0)
        /\ Awaited[t] = (IF fpc[t] = "back" /\ Outstanding(t) THEN 1 ELSE 0)
                          - (IF fpc[t] = "wait" /\ ~Outstanding(t) THEN 1 ELSE 0)
    BY DEF Elsewhere, Awaited
  <2> HIDE DEF Outstanding
  <2> QED
    BY <2>1, <2>2, <2>3, <2>4 DEF FPlaces, MPlaces
<1> QED
  BY FInitInv, FInvStep, <1>1, PTL DEF FSpec

-----------------------------------------------------------------------------
(* User threads of one priority.                                           *)

\* A user thread that does not run is in no handler, and its file call has not taken a
\* chunk or waits for the child.
Settled(t) == irq[t] = <<>> /\ fpc[t] \in {"app", "first", "back"}
Steady == Calm /\ \A t \in Users : t # running => Settled(t)

\* Stacks and file calls of other threads stay, and the running user thread leaves the
\* processor only settled.
OthersStay == \A t \in Users : t # running => irq'[t] = irq[t] /\ fpc'[t] = fpc[t]
LeavesSettled == running' # running => \A t \in Users : t = running => Settled(t)'

LEMMA SteadyBy ==
    ASSUME Steady, Calm', OthersStay, LeavesSettled
    PROVE  Steady'
BY DEF Steady, Settled, OthersStay, LeavesSettled

\* A thread that stays in its own code keeps the calm.
LEMMA CalmLabel ==
    ASSUME Calm, NEW base, base # "swap", Step(base), pc \in [Threads -> Labels]
    PROVE  Calm'
BY DEF Calm, Step

\* What CalmStep says of the steps that are the scheduler's.
LEMMA CalmBelow ==
    ASSUME SamePriority, FInv, Calm, [Next]_vars
    PROVE  /\ Calm'
           /\ running' = running \/ pc[running] \in {"user", "nap", "dying"}
<1>1. TypeOver(Labels) /\ LiveQueues /\ IdleStays /\ BaseLabels \subseteq Labels /\ "ret" \notin Labels
  BY FInvTypes, LabelFacts DEF FInv, MOver, Accounts
<1> QED
  BY <1>1, CalmStep

\* Only the frames of the running thread come and go.
LEMMA StackStays ==
    ASSUME FInv, Next
    PROVE  \A t \in Threads : t # running => irq'[t] = irq[t]
<1>1. irq \in [Threads -> Seq(FrameLabels)]
  BY FInvTypes
<1> QED
  BY <1>1 DEF Next, Kernel, Timer, ThreadCall, SchedCheck, Preempt, SleepSwitch, ExitSwitch,
     ContextSwitch, AlarmReturn, Alarm, AlarmInSwitch, VMThreadCreate, VMThreadActivate,
     VMThreadDelete, VMThreadTerminate, VMThreadSleep, Yield, MainReturns, Stopped, vars, MoveTo, Step

\* A switch away from a user thread by the scheduler: only it sleeps or ends.
LEMMA SectionSteady ==
    ASSUME SamePriority, FInv, Steady, Section
    PROVE  Steady'
<1>1. FileRest /\ running \in Threads /\ fpc \in [Threads -> FileLabels] /\ pc \in [Threads -> Labels]
      /\ irq \in [Threads -> Seq(FrameLabels)]
  BY FInvTypes DEF Section, FilesTypeOK
<1>2. fpc' = fpc
  BY <1>1 DEF FileRest, fcallVars
<1>3. CASE Preempt
  <2>1. Calm' /\ \A t \in Threads : t # running => irq'[t] = irq[t]
    BY <1>3, CalmBelow, StackStays DEF Next, Kernel, Steady
  <2>2. \A t \in Users : t # running
    <3> SUFFICES ASSUME running \in Users PROVE FALSE
      OBVIOUS
    <3>1. At(running) = "swap" /\ pc[running] # "swap" /\ irq[running] \in Seq({"prio", "ret"})
      BY <1>3 DEF Preempt, Here, Steady, Calm
    <3>2. irq[running] # <<>> => Head(irq[running]) \in {"prio", "ret"}
      BY <3>1, CalmFrames
    <3> QED
      BY <3>1, <3>2 DEF At
  <2>3. OthersStay
    BY <1>2, <2>1, ConstantFacts DEF OthersStay
  <2> QED
    BY <2>1, <2>2, <2>3, SteadyBy DEF LeavesSettled
<1>4. CASE SleepSwitch \/ ExitSwitch
  <2>1. Calm' /\ irq' = irq
    BY <1>4, CalmBelow DEF Next, Kernel, Steady, SleepSwitch, ExitSwitch, Step
  <2>2. irq[running] = <<>> /\ fpc[running] \in {"app", "first"}
    <3>1. irq[running] = <<>> /\ pc[running] \in {"nap", "dying"}
      BY <1>4, FInvTypes, HereBase DEF SleepSwitch, ExitSwitch, FrameLabels
    <3> QED
      BY <1>1, <3>1 DEF FInv, Placed
  <2> QED
    BY <1>2, <2>1, <2>2, SteadyBy DEF OthersStay, LeavesSettled, Settled
<1>5. CASE MutexSwitch
  <2>1. Calm' /\ irq' = irq
    BY <1>1, <1>5, CalmLabel DEF MutexSwitch, Advance, Step, Steady
  <2>2. irq[running] = <<>> /\ fpc[running] \in {"app", "first"}
    <3>1. irq[running] = <<>> /\ pc[running] = "mwait"
      BY <1>5, FInvTypes, HereBase DEF MutexSwitch, FrameLabels
    <3> QED
      BY <1>1, <3>1 DEF FInv, Placed
  <2> QED
    BY <1>2, <2>1, <2>2, SteadyBy DEF OthersStay, LeavesSettled, Settled
<1>6. CASE TakeLock \/ Park \/ Unlock \/ HandOver("hand", "user") \/ HandOver("handP", "prio")
  <2>1. /\ UNCHANGED running
        /\ \/ \E base \in {"user", "mwait", "wake", "prio"} : Step(base)
           \/ UNCHANGED <<pc, irq>>
    BY <1>6 DEF TakeLock, Park, Unlock, HandOver, Leave, Advance, schedRest
  <2>2. Calm' /\ irq' = irq
    BY <1>1, <2>1, CalmLabel DEF Steady, Calm, Step
  <2> QED
    BY <1>2, <2>1, <2>2, SteadyBy DEF OthersStay, LeavesSettled
<1> QED
  BY <1>3, <1>4, <1>5, <1>6 DEF Section

LEMMA LookSteady ==
    ASSUME SamePriority, FInv, Steady, Look
    PROVE  Steady'
<1>1. FileRest /\ running \in Threads /\ pc \in [Threads -> Labels]
  BY FInvTypes DEF Look
<1>2. fpc' = fpc
  BY <1>1 DEF FileRest, fcallVars
<1>3. UNCHANGED running
  BY DEF Look, SchedCheck, ContextSwitch, TestLocked, GiveUp, Retry, LookForWaiter, schedRest
<1>4. CASE SchedCheck \/ ContextSwitch
  <2>1. Calm' /\ \A t \in Threads : t # running => irq'[t] = irq[t]
    BY <1>4, CalmBelow, StackStays DEF Next, Kernel, Steady
  <2> QED
    BY <1>2, <1>3, <2>1, SteadyBy, ConstantFacts DEF OthersStay, LeavesSettled
<1>5. CASE TestLocked \/ GiveUp \/ Retry \/ LookForWaiter
  <2>1. \E base \in {"park", "lock", "user", "test", "handP", "hand"} : Step(base)
    BY <1>5 DEF TestLocked, GiveUp, Retry, LookForWaiter, Advance, Leave
  <2>2. Calm' /\ irq' = irq
    BY <1>1, <2>1, CalmLabel DEF Steady, Step
  <2> QED
    BY <1>2, <1>3, <2>2, SteadyBy DEF OthersStay, LeavesSettled
<1> QED
  BY <1>4, <1>5 DEF Look

\* The handlers.
LEMMA HandlerSteady ==
    ASSUME SamePriority, FInv, Steady,
           AlarmSignal \/ ReplySignal \/ ReplyInSwitch \/ Handler
    PROVE  Steady'
<1>1. /\ running \in Threads /\ pc \in [Threads -> Labels]
      /\ irq \in [Threads -> Seq(FrameLabels)]
  BY FInvTypes
<1>2. UNCHANGED <<running, fpc>>
  BY DEF AlarmSignal, Alarm, AlarmInSwitch, ReplySignal, ReplyInSwitch, Handler, Receive,
         EraseCallback, FileCallback, HandlerReturns, AlarmReturn, FileRest, fcallVars, allVars, vars
<1>3. CASE AlarmSignal \/ HandlerReturns
  <2>1. Next
    BY <1>3 DEF AlarmSignal, HandlerReturns, Next, Kernel, Timer
  <2>2. Calm' /\ \A t \in Threads : t # running => irq'[t] = irq[t]
    BY <2>1, CalmBelow, StackStays DEF Steady
  <2> QED
    BY <1>2, <2>2, SteadyBy, ConstantFacts DEF OthersStay, LeavesSettled
<1>4. CASE ReplySignal
  <2>1. pc' = pc /\ irq' = [irq EXCEPT ![running] = <<"ret">> \o @]
    BY <1>4 DEF ReplySignal
  <2>2. running \in Users => irq'[running] \in Seq({"prio", "ret"})
    <3>1. running \in Users => irq[running] \in Seq({"prio", "ret"})
      BY DEF Steady, Calm
    <3> QED
      BY <1>1, <2>1, <3>1, CalmFrames
  <2>3. Calm'
    BY <1>1, <2>1, <2>2, ConstantFacts DEF Steady, Calm
  <2> QED
    BY <1>1, <1>2, <2>1, <2>3, SteadyBy, ConstantFacts DEF OthersStay, LeavesSettled
<1>5. CASE FileCallback
  <2>1. pc' = pc /\ irq' = [irq EXCEPT ![running] = <<"prio">> \o Tail(@)]
    BY <1>5 DEF FileCallback
  <2>2. irq[running] # <<>>
    <3>1. pc[running] # "ret" /\ At(running) = "ret"
      BY <1>1, <1>5, LabelFacts DEF FileCallback, InHandler, Here
    <3> QED
      BY <3>1 DEF At
  <2>3. running \in Users => irq'[running] \in Seq({"prio", "ret"})
    <3>1. running \in Users => irq[running] \in Seq({"prio", "ret"})
      BY DEF Steady, Calm
    <3> QED
      BY <1>1, <2>1, <2>2, <3>1, CalmFrames
  <2>4. Calm'
    BY <1>1, <2>1, <2>3, ConstantFacts DEF Steady, Calm
  <2> QED
    BY <1>1, <1>2, <2>1, <2>4, SteadyBy, ConstantFacts DEF OthersStay, LeavesSettled
<1>6. CASE ReplyInSwitch \/ Receive \/ EraseCallback
  <2>1. UNCHANGED <<pc, irq>>
    BY <1>6 DEF ReplyInSwitch, Receive, EraseCallback, allVars, vars
  <2> QED
    BY <1>2, <2>1, SteadyBy DEF Steady, Calm, OthersStay, LeavesSettled
<1> QED
  BY <1>3, <1>4, <1>5, <1>6 DEF Handler

\* The file calls.
LEMMA FileSteady ==
    ASSUME FInv, Steady, FileStep \/ FileCall
    PROVE  Steady'
<1>1. /\ running \in Threads /\ pc \in [Threads -> Labels] /\ irq[running] = <<>>
      /\ fpc \in [Threads -> FileLabels]
  BY FInvTypes, FHereIs DEF FileStep, FileCall, FileOne, FileRead, FileWrite, Begin, TakeChunk,
     PopChunk, Send, FirstChunk, MapCorrupted, FileSwitch, Back, UnlockPool, FilesTypeOK
<1>2. \A t \in Threads : t # running => fpc'[t] = fpc[t]
  BY <1>1 DEF FileStep, FileCall, FileOne, FileRead, FileWrite, Begin, TakeChunk,
     PopChunk, Send, FirstChunk, MapCorrupted, FileSwitch, Back, UnlockPool, GoTo, End, fileVars, fcallVars
<1>3. \/ UNCHANGED <<pc, irq>>
      \/ Step("test")
      \/ Step("unlock")
  BY DEF FileStep, FileCall, FileOne, FileRead, FileWrite, Begin, TakeChunk,
     PopChunk, Send, FirstChunk, MapCorrupted, FileSwitch, Back, UnlockPool, Acquire, Release,
     schedButVm, allVars, vars
<1>4. Calm' /\ irq' = irq
  BY <1>1, <1>3, CalmLabel DEF Steady, Calm, Step
<1>5. running' = running \/ fpc'[running] = "back"
  BY <1>1 DEF FileStep, FileCall, FileOne, FileRead, FileWrite, Begin, TakeChunk,
     PopChunk, Send, FirstChunk, MapCorrupted, FileSwitch, Back, UnlockPool, Acquire, Release,
     schedButVm, schedRest, allVars, vars, GoTo
<1> QED
  BY <1>1, <1>2, <1>4, <1>5, SteadyBy, ConstantFacts DEF OthersStay, LeavesSettled, Settled

\* The other calls.
LEMMA CallSteady ==
    ASSUME SamePriority, FInv, Steady,
           \/ OtherCall \/ (\E x \in Users : VMThreadActivateFile(x))
           \/ (\E x \in StrayIDs : ActivateUnknown(x)) \/ Child \/ UNCHANGED fvars
    PROVE  Steady'
<1>1. UNCHANGED <<running, fpc>>
  BY DEF OtherCall, VMThreadActivateFile, ActivateUnknown, Child, ChildAnswers, ChildSignals,
     VMThreadCreate, VMThreadActivate, VMThreadDelete, VMThreadTerminate, VMThreadSleep, Yield,
     MainReturns, FileRest, fcallVars, fvars, fileVars, allVars, vars
<1>2. Next \/ UNCHANGED <<pc, irq>>
  BY DEF OtherCall, VMThreadActivateFile, ActivateUnknown, Child, ChildAnswers, ChildSignals,
     Next, ThreadCall, fvars, allVars, vars
<1>3. CASE Next
  <2>1. Calm' /\ \A t \in Threads : t # running => irq'[t] = irq[t]
    BY <1>3, CalmBelow, StackStays DEF Steady
  <2> QED
    BY <1>1, <2>1, SteadyBy, ConstantFacts DEF OthersStay, LeavesSettled
<1>4. CASE UNCHANGED <<pc, irq>>
  BY <1>1, <1>4, SteadyBy DEF Steady, Calm, OthersStay, LeavesSettled
<1> QED
  BY <1>2, <1>3, <1>4

LEMMA SteadyStep ==
    ASSUME SamePriority, FInv, Steady, [FNext]_fvars
    PROVE  Steady'
BY SectionSteady, LookSteady, HandlerSteady, FileSteady, CallSteady
   DEF FNext, AppCall, FStopped

LEMMA SteadyInit == FInit => Steady
<1> SUFFICES ASSUME FInit PROVE Steady
  OBVIOUS
<1>1. \A t \in Threads : pc[t] \in {"user", "none"} /\ irq[t] = <<>> /\ (t # Main => fpc[t] = "app")
  BY DEF FInit, Init
<1>2. <<>> \in Seq({"prio", "ret"}) /\ running = Main
  BY DEF FInit, Init
<1> QED
  BY <1>1, <1>2, ConstantFacts DEF Steady, Calm, Settled

-----------------------------------------------------------------------------
(* Chunks, when user threads have one priority.                            *)

\* The pool has no chunk twice and none that a call uses; two calls use different
\* chunks; a thread about to pop the pool has its top, and one about to take the next
\* chunk of a write finds one.
Single(q) == \A i, j \in DOMAIN q : q[i] = q[j] => i = j
Without(q, c) == \A i \in DOMAIN q : q[i] # c
Shared ==
    /\ Single(pool)
    /\ \A t \in Threads : Using(t) /\ fpc[t] # "pop" => Without(pool, chunk[t])
    /\ \A t, u \in Threads : t # u /\ Using(t) /\ Using(u) => chunk[t] # chunk[u]
    /\ \A t \in Threads : fpc[t] = "pop" => pool # <<>> /\ Head(pool) = chunk[t]
    /\ \A t \in Threads : fpc[t] = "take" /\ op[t] = "write" => pool # <<>>

LEMMA PoolTaken ==
    ASSUME NEW q \in Seq(Chunks), q # <<>>, Single(q)
    PROVE  /\ Single(Tail(q)) /\ Without(Tail(q), Head(q)) /\ Head(q) \in Chunks
           /\ \A c : Without(q, c) => Without(Tail(q), c) /\ Head(q) # c
<1>1. /\ Tail(q) \in Seq(Chunks) /\ Len(Tail(q)) = Len(q) - 1
      /\ Len(q) \in Nat \ {0} /\ q[1] \in Chunks /\ Head(q) = q[1]
      /\ \A i \in 1 .. Len(q) - 1 : Tail(q)[i] = q[i + 1]
  BY Popped
<1>2. DOMAIN q = 1 .. Len(q) /\ DOMAIN Tail(q) = 1 .. Len(q) - 1
  BY <1>1
<1>3. \A i \in 1 .. Len(q) - 1 : i + 1 \in DOMAIN q /\ i + 1 # 1
  BY <1>1, <1>2
<1>4. 1 \in DOMAIN q
  BY <1>1, <1>2
<1> QED
  BY <1>1, <1>2, <1>3, <1>4 DEF Single, Without

LEMMA PoolGiven ==
    ASSUME NEW q \in Seq(Chunks), NEW c \in Chunks, Single(q), Without(q, c)
    PROVE  /\ Single(<<c>> \o q) /\ <<c>> \o q # <<>>
           /\ \A d : Without(q, d) /\ d # c => Without(<<c>> \o q, d)
<1>1. /\ <<c>> \o q \in Seq(Chunks) /\ Len(<<c>> \o q) = Len(q) + 1 /\ Len(q) \in Nat
      /\ (<<c>> \o q)[1] = c
      /\ \A i \in 1 .. Len(q) : (<<c>> \o q)[i + 1] = q[i]
  BY Pushed
<1> DEFINE r == <<c>> \o q
<1>2. DOMAIN q = 1 .. Len(q) /\ DOMAIN r = 1 .. Len(q) + 1 /\ r # <<>>
  BY <1>1
<1>3. \A i \in DOMAIN r : i = 1 \/ (i - 1 \in DOMAIN q /\ r[i] = q[i - 1])
  <2> SUFFICES ASSUME NEW i \in DOMAIN r, i # 1 PROVE i - 1 \in DOMAIN q /\ r[i] = q[i - 1]
    OBVIOUS
  <2>1. i - 1 \in 1 .. Len(q) /\ (i - 1) + 1 = i
    BY <1>1, <1>2
  <2> QED
    BY <1>1, <1>2, <2>1
<1> HIDE DEF r
<1>4. ASSUME NEW i \in DOMAIN r, NEW j \in DOMAIN r, r[i] = r[j] PROVE i = j
  <2>1. i \in Nat /\ j \in Nat
    BY <1>1, <1>2
  <2> QED
    BY <1>1, <1>3, <1>4, <2>1 DEF Single, Without, r
<1>5. ASSUME NEW d, Without(q, d), d # c, NEW i \in DOMAIN r PROVE r[i] # d
  BY <1>1, <1>3, <1>5 DEF Without, r
<1> QED
  BY <1>2, <1>4, <1>5 DEF Single, Without, r

\* A call that holds a chunk for a moment only is of the running thread.
LEMMA OthersWait ==
    ASSUME FInv, Steady
    PROVE  \A t \in Threads : t # running => fpc[t] \in {"app", "first", "back"}
BY FInvTypes DEF Steady, Settled, Users

\* What a step of the running thread's call must show.
LEMMA SharedBy ==
    ASSUME FInv, Steady, Shared, NEW r \in Threads, r = running,
           \A t \in Threads \ {r} : fpc'[t] = fpc[t] /\ op'[t] = op[t] /\ chunk'[t] = chunk[t],
           Single(pool'),
           \A t \in Threads \ {r} : Using(t) => Without(pool', chunk[t]),
           Using(r)' => /\ fpc'[r] # "pop" => Without(pool', chunk'[r])
                        /\ \A t \in Threads \ {r} : Using(t) => chunk[t] # chunk'[r],
           fpc'[r] = "pop" => pool' # <<>> /\ Head(pool') = chunk'[r],
           fpc'[r] = "take" /\ op'[r] = "write" => pool' # <<>>
    PROVE  Shared'
<1>1. \A t \in Threads \ {r} : Using(t)' <=> Using(t)
  BY DEF Using
<1>2. \A t \in Threads \ {r} : fpc'[t] \in {"app", "first", "back"}
  BY OthersWait
<1>3. \A t \in Threads : Using(t)' /\ fpc'[t] # "pop" => Without(pool', chunk'[t])
  BY <1>1
<1>4. \A t, u \in Threads : t # u /\ Using(t)' /\ Using(u)' => chunk'[t] # chunk'[u]
  BY <1>1 DEF Shared
<1>5. \A t \in Threads : /\ fpc'[t] = "pop" => pool' # <<>> /\ Head(pool') = chunk'[t]
                         /\ fpc'[t] = "take" /\ op'[t] = "write" => pool' # <<>>
  BY <1>2
<1> QED
  BY <1>3, <1>4, <1>5 DEF Shared

\* A chunk of the running call that no other one uses, in the pool or not.
LEMMA OwnChunk ==
    ASSUME FInv, Steady, Shared, NEW r \in Threads, r = running
    PROVE  /\ pool \in Seq(Chunks) /\ Single(pool)
           /\ \A t \in Threads \ {r} : Using(t) =>
                  /\ Without(pool, chunk[t])
                  /\ Using(r) => chunk[t] # chunk[r]
           /\ Using(r) /\ fpc[r] # "pop" => Without(pool, chunk[r]) /\ chunk[r] \in Chunks
<1>1. \A t \in Threads \ {r} : fpc[t] # "pop"
  BY OthersWait
<1>2. Using(r) /\ fpc[r] # "pop" => chunk[r] \in Chunks
  BY DEF FInv, Equipped, Using
<1> QED
  BY <1>1, <1>2 DEF Shared, FInv, FilesTypeOK

\* Chunks that were taken, with signals enabled and in the section of a write.
LEMMA TakenApart ==
    ASSUME FInv, Steady, Shared, TakeChunk \/ PopChunk \/ FirstChunk
    PROVE  Shared'
<1>0. PICK r \in Threads : r = running
  BY FInvTypes
<1>1. /\ pool \in Seq(Chunks) /\ Single(pool)
      /\ \A t \in Threads \ {r} : Using(t) =>
                  /\ Without(pool, chunk[t])
                  /\ Using(r) => chunk[t] # chunk[r]
      /\ Using(r) /\ fpc[r] # "pop" => Without(pool, chunk[r]) /\ chunk[r] \in Chunks
      /\ fpc \in [Threads -> FileLabels] /\ op \in [Threads -> Ops]
      /\ chunk \in [Threads -> Chunks \cup {NoChunk}]
  BY <1>0, OwnChunk DEF FInv, FilesTypeOK
<1>2. op' = op
  BY DEF TakeChunk, PopChunk, FirstChunk
<1>3. pool # <<>> => /\ Single(Tail(pool)) /\ Without(Tail(pool), Head(pool))
                     /\ \A c : Without(pool, c) => Without(Tail(pool), c) /\ Head(pool) # c
  BY <1>1, PoolTaken
<1>4. CASE UNCHANGED <<fpc, chunk, pool>>
  BY <1>2, <1>4 DEF Shared, Using
<1>5. CASE /\ pool # <<>> /\ UNCHANGED pool
           /\ chunk' = [chunk EXCEPT ![r] = Head(pool)] /\ fpc' = [fpc EXCEPT ![r] = "pop"]
  BY <1>0, <1>1, <1>2, <1>3, <1>5, SharedBy DEF Using
<1>6. CASE /\ pool = <<>> /\ op[r] = "write" /\ fpc[r] = "take"
  BY <1>0, <1>6 DEF Shared
<1>7. CASE /\ fpc[r] = "pop" /\ pool # <<>> /\ pool' = Tail(pool)
           /\ fpc' = [fpc EXCEPT ![r] = "send"] /\ UNCHANGED chunk
  <2>1. Head(pool) = chunk[r]
    BY <1>7 DEF Shared
  <2> QED
    BY <1>0, <1>1, <1>2, <1>3, <1>7, <2>1, SharedBy DEF Using
<1>8. CASE /\ pool # <<>> /\ pool' = Tail(pool)
           /\ chunk' = [chunk EXCEPT ![r] = Head(pool)] /\ fpc' = [fpc EXCEPT ![r] = "wait"]
  BY <1>0, <1>1, <1>2, <1>3, <1>8, SharedBy DEF Using
<1>9. CASE UNCHANGED <<chunk, pool>> /\ fpc' = [fpc EXCEPT ![r] = "unlock"]
  BY <1>0, <1>1, <1>2, <1>9, SharedBy DEF Using
<1> QED
  BY <1>0, <1>4, <1>5, <1>6, <1>7, <1>8, <1>9
     DEF TakeChunk, PopChunk, PoolPopped, FirstChunk, GoTo, FHere

\* A chunk that is given back.
LEMMA GivenApart ==
    ASSUME FInv, Steady, Shared, Back
    PROVE  Shared'
<1>0. PICK r \in Threads : r = running
  BY FInvTypes
<1>1. /\ pool \in Seq(Chunks) /\ Single(pool)
      /\ \A t \in Threads \ {r} : Using(t) =>
                  /\ Without(pool, chunk[t])
                  /\ Using(r) => chunk[t] # chunk[r]
      /\ Using(r) /\ fpc[r] # "pop" => Without(pool, chunk[r]) /\ chunk[r] \in Chunks
      /\ fpc \in [Threads -> FileLabels] /\ op \in [Threads -> Ops]
      /\ chunk \in [Threads -> Chunks \cup {NoChunk}]
  BY <1>0, OwnChunk DEF FInv, FilesTypeOK
<1>2. /\ fpc[r] = "back"
      /\ \A t \in Threads \ {r} : fpc'[t] = fpc[t] /\ op'[t] = op[t] /\ chunk'[t] = chunk[t]
      /\ fpc'[r] \in {"app", "take", "unlock"}
      /\ \/ UNCHANGED pool /\ fpc'[r] = "app"
         \/ op[r] # "one" /\ pool' = <<chunk[r]>> \o pool
  BY <1>0, <1>1 DEF Back, FHere, GoTo, End
<1>3. ~Using(r)'
  BY <1>2 DEF Using
<1>4. CASE UNCHANGED pool /\ fpc'[r] = "app"
  BY <1>0, <1>1, <1>2, <1>3, <1>4, SharedBy
<1>5. CASE op[r] # "one" /\ pool' = <<chunk[r]>> \o pool
  <2>1. Using(r) /\ fpc[r] # "pop"
    BY <1>2, <1>5 DEF Using
  <2>2. /\ Single(pool') /\ pool' # <<>>
        /\ \A d : Without(pool, d) /\ d # chunk[r] => Without(pool', d)
    BY <1>1, <1>5, <2>1, PoolGiven
  <2> QED
    BY <1>0, <1>1, <1>2, <1>3, <2>1, <2>2, SharedBy
<1> QED
  BY <1>2, <1>4, <1>5

\* The other steps of file calls.
LEMMA CallApart ==
    ASSUME FInv, Steady, Shared,
           FileCall \/ Send \/ MapCorrupted \/ FileSwitch \/ UnlockPool
    PROVE  Shared'
<1>0. PICK r \in Threads : r = running
  BY FInvTypes
<1>1. /\ pool \in Seq(Chunks) /\ Single(pool)
      /\ \A t \in Threads \ {r} : Using(t) =>
                  /\ Without(pool, chunk[t])
                  /\ Using(r) => chunk[t] # chunk[r]
      /\ Using(r) /\ fpc[r] # "pop" => Without(pool, chunk[r]) /\ chunk[r] \in Chunks
      /\ fpc \in [Threads -> FileLabels] /\ op \in [Threads -> Ops]
      /\ chunk \in [Threads -> Chunks \cup {NoChunk}]
  BY <1>0, OwnChunk DEF FInv, FilesTypeOK
<1>2. CASE FileCall
  <2>1. PICK o \in {"one", "read", "write"}, label \in {"send", "take", "first"} :
          /\ fpc' = [fpc EXCEPT ![r] = label] /\ op' = [op EXCEPT ![r] = o]
          /\ UNCHANGED <<chunk, pool>>
          /\ label = "send" => o = "one"
          /\ label = "take" => o = "read"
    BY <1>0, <1>2 DEF FileCall, FileOne, FileRead, FileWrite, Begin, GoTo
  <2> QED
    BY <1>0, <1>1, <2>1, SharedBy DEF Using
<1>3. CASE Send \/ FileSwitch
  <2>1. /\ fpc[r] \in {"send", "wait"} /\ fpc' = [fpc EXCEPT ![r] = IF fpc[r] = "send" THEN "wait" ELSE "back"]
        /\ UNCHANGED <<op, chunk, pool>>
    BY <1>0, <1>3 DEF Send, FileSwitch, FHere, GoTo
  <2> QED
    BY <1>0, <1>1, <2>1, SharedBy DEF Using
<1>4. CASE MapCorrupted
  BY <1>4 DEF MapCorrupted, fileVars, fcallVars, Shared, Using
<1>5. CASE UnlockPool
  <2>1. /\ \A t \in Threads \ {r} : fpc'[t] = fpc[t] /\ op'[t] = op[t] /\ chunk'[t] = chunk[t]
        /\ fpc'[r] = "app" /\ UNCHANGED pool
    BY <1>0, <1>1, <1>5 DEF UnlockPool, End, GoTo
  <2> QED
    BY <1>0, <1>1, <2>1, SharedBy DEF Using
<1> QED
  BY <1>2, <1>3, <1>4, <1>5

LEMMA SharedStep ==
    ASSUME FInv, Steady, Shared, [FNext]_fvars
    PROVE  Shared'
<1>1. CASE UNCHANGED <<fpc, op, chunk, pool>>
  BY <1>1 DEF Shared, Using
<1>2. CASE FileStep \/ FileCall
  BY <1>2, TakenApart, GivenApart, CallApart DEF FileStep
<1>3. CASE ~(FileStep \/ FileCall)
  <2>1. UNCHANGED <<fpc, op, chunk, pool>>
    BY <1>3 DEF FNext, Section, Look, AlarmSignal, ReplySignal, ReplyInSwitch, Handler, Receive,
       EraseCallback, FileCallback, HandlerReturns, Child, ChildAnswers, ChildSignals, AppCall,
       OtherCall, VMThreadActivateFile, ActivateUnknown, FStopped, FileRest, fcallVars, fileVars, fvars
  <2> QED
    BY <1>1, <2>1
<1> QED
  BY <1>2, <1>3

LEMMA SharedInit == FInit => Shared
<1> SUFFICES ASSUME FInit PROVE Shared
  OBVIOUS
<1>1. /\ pool = [i \in 1 .. NChunks |-> i]
      /\ \A t \in Threads : fpc[t] \in {"send", "app"} /\ (fpc[t] = "send" => op[t] = "one")
  BY DEF FInit
<1> QED
  BY <1>1 DEF Shared, Single, Using

\* With one priority for all user threads, the unprotected back() and pop_back() of
\* FileRead and FileWrite (VirtualMachine.cpp:386-457) never give one chunk to two
\* requests: for all numbers of threads and chunks, and whatever lengths are transferred.
THEOREM ChunksStayApart ==
    ASSUME SamePriority
    PROVE  FSpec => []ChunksApart
<1>1. FInv /\ Shared /\ Steady => ChunksApart
  <2> SUFFICES ASSUME FInv, Shared, Steady PROVE ChunksApart
    OBVIOUS
  <2>1. \A t, u \in Threads : t # u /\ Using(t) /\ Using(u) => chunk[t] # chunk[u]
    BY DEF Shared
  <2>2. \A t \in Threads : Using(t) /\ fpc[t] # "pop" => \A i \in DOMAIN pool : pool[i] # chunk[t]
    BY DEF Shared, Without
  <2> QED
    BY <2>1, <2>2 DEF ChunksApart
<1>2. FInv /\ Shared /\ Steady /\ [FNext]_fvars => (FInv /\ Shared /\ Steady)'
  BY FInvStep, SharedStep, SteadyStep
<1>3. FInit => FInv /\ Shared /\ Steady
  BY FInitInv, SharedInit, SteadyInit
<1> QED
  BY <1>1, <1>2, <1>3, PTL DEF FSpec

-----------------------------------------------------------------------------
(* Answers are for the idle thread, when user threads have one priority.   *)

\* No mask that a handler will bring back lets SIGUSR2 in: of the frames of a stack
\* that lie on another one, or of all of them.
Deep(s) == \A i \in 1 .. Len(s) - 1 : s[i].mask # "open"
Shut(s) == \A i \in 1 .. Len(s) : s[i].mask # "open"

\* While a handler is on the stack of the idle thread, the mask holds SIGUSR2 back, and
\* so does every mask by which the user thread that runs may replace it.
Deaf ==
    /\ Deep(saved[Idle])
    /\ saved[Idle] # <<>> => /\ mask # "open"
                             /\ running # Idle => sigState # "open" /\ Shut(saved[running])

LEMMA PushShut ==
    ASSUME NEW s \in Seq(Frames), NEW f \in Frames
    PROVE  /\ <<f>> \o s # <<>>
           /\ Shut(s) /\ f.mask # "open" => Shut(<<f>> \o s)
           /\ Deep(s) /\ (s # <<>> => f.mask # "open") => Deep(<<f>> \o s)
<1> DEFINE r == <<f>> \o s
<1>1. /\ Len(r) = Len(s) + 1 /\ r[1] = f /\ Len(s) \in Nat /\ r # <<>>
      /\ \A i \in 1 .. Len(s) : r[i + 1] = s[i]
  BY Pushed
<1>2. s = <<>> <=> Len(s) = 0
  OBVIOUS
<1> HIDE DEF r
<1>3. ASSUME NEW i \in 1 .. Len(r), i # 1
      PROVE  i - 1 \in 1 .. Len(s) /\ r[i] = s[i - 1]
  <2>1. i - 1 \in 1 .. Len(s) /\ (i - 1) + 1 = i
    BY <1>1, <1>3
  <2> QED
    BY <1>1, <2>1
<1>4. Shut(s) /\ f.mask # "open" => Shut(r)
  BY <1>1, <1>3 DEF Shut
<1>5. ASSUME Deep(s), s # <<>> => f.mask # "open", NEW i \in 1 .. Len(r) - 1
      PROVE  r[i].mask # "open"
  <2>1. i \in 1 .. Len(r) /\ Len(s) # 0
    BY <1>1, <1>5
  <2>2. CASE i = 1
    BY <1>1, <1>2, <1>5, <2>1, <2>2
  <2>3. CASE i # 1
    <3>1. i - 1 \in 1 .. Len(s) - 1
      BY <1>1, <1>5, <2>3
    <3> QED
      BY <1>3, <1>5, <2>1, <2>3, <3>1 DEF Deep
  <2> QED
    BY <2>2, <2>3
<1> QED
  BY <1>1, <1>4, <1>5 DEF Deep, r

LEMMA PopShut ==
    ASSUME NEW s \in Seq(Frames), s # <<>>
    PROVE  /\ Shut(s) => Shut(Tail(s)) /\ s[1].mask # "open"
           /\ Deep(s) => Deep(Tail(s)) /\ (Tail(s) # <<>> => s[1].mask # "open")
<1>1. /\ Len(Tail(s)) = Len(s) - 1 /\ Len(s) \in Nat \ {0}
      /\ \A i \in 1 .. Len(s) - 1 : Tail(s)[i] = s[i + 1]
  BY Popped
<1>2. Tail(s) # <<>> => Len(s) - 1 # 0
  <2>1. Tail(s) \in Seq(Frames)
    BY Popped
  <2> QED
    BY <1>1, <2>1
<1>3. /\ 1 \in 1 .. Len(s)
      /\ \A i \in 1 .. Len(s) - 1 : i + 1 \in 1 .. Len(s)
      /\ \A i \in 1 .. (Len(s) - 1) - 1 : i + 1 \in 1 .. Len(s) - 1 /\ i \in 1 .. Len(s) - 1
      /\ Len(s) - 1 # 0 => 1 \in 1 .. Len(s) - 1
  BY <1>1
<1> QED
  BY <1>1, <1>2, <1>3 DEF Shut, Deep

\* A step that changes no frame, and the masks at most as a section does.
LEMMA DeafBy ==
    ASSUME Deaf, UNCHANGED saved,
           \/ mask' \in {mask, "answers", "all"}
           \/ mask' = sigState /\ running # Idle,
           \/ sigState' \in {mask, "answers"}
           \/ sigState' = sigState /\ running' = running,
           running' # running => running' = Idle \/ saved[running'] = <<>>
    PROVE  Deaf'
<1>1. saved[Idle] # <<>> => mask' # "open"
  BY DEF Deaf
<1>2. ASSUME saved[Idle] # <<>>, running' # Idle
      PROVE  sigState' # "open"
  BY <1>2 DEF Deaf
<1>3. ASSUME saved[Idle] # <<>>, running' # Idle
      PROVE  Shut(saved[running'])
  <2>1. CASE running' = running
    <3>1. running # Idle
      BY <1>3, <2>1
    <3>2. Shut(saved[running])
      BY <1>3, <3>1 DEF Deaf
    <3> QED
      BY <2>1, <3>2
  <2>2. CASE saved[running'] = <<>>
    BY <2>2 DEF Shut
  <2> QED
    BY <1>3, <2>1, <2>2
<1> QED
  BY <1>1, <1>2, <1>3 DEF Deaf

\* A thread that gets the processor from the scheduler has no handler on its stack.
LEMMA FreshStack ==
    ASSUME FInv, Steady, [FNext]_fvars
    PROVE  running' # running => running' = Idle \/ saved[running'] = <<>>
<1> SUFFICES ASSUME running' # running, running' # Idle PROVE saved[running'] = <<>>
  OBVIOUS
<1>1. running' \in Users
  <2>1. FInv'
    BY FInvStep
  <2>2. (running \in Threads)'
    BY <2>1, FInvTypes, PTL
  <2> QED
    BY <2>2 DEF Users
<1>2. PICK u \in Users : u = running'
  BY <1>1
<1>3. irq[u] = <<>> /\ u \in Threads
  BY <1>2 DEF Steady, Settled, Users
<1>4. Len(saved[u]) = Len(irq[u]) /\ saved[u] \in Seq(Frames)
  BY <1>3 DEF FInv, FilesTypeOK
<1>5. Len(saved[u]) = 0
  BY <1>3, <1>4
<1> QED
  BY <1>2, <1>4, <1>5

\* A new frame on the stack of the running thread, with the mask before the signal.
LEMMA PushDeaf ==
    ASSUME FInv, Deaf, NEW kind \in Kinds, Push(kind), UNCHANGED running,
           mask' = "answers", sigState' \in {sigState, "answers"}
    PROVE  Deaf'
<1>1. PICK f : f = Frame(kind, mask)
  OBVIOUS
<1>2. /\ running \in Threads /\ saved \in [Threads -> Seq(Frames)] /\ Idle \in Threads
      /\ f \in Frames /\ f.mask = mask
  <2>1. mask \in Masks /\ saved \in [Threads -> Seq(Frames)]
    BY DEF FInv, FilesTypeOK
  <2>2. NoMessage \in Mess
    BY DEF NoMessage, Mess
  <2>3. f \in Frames /\ f.mask = mask
    BY <1>1, <2>1, <2>2 DEF Frame, Frames
  <2> QED
    BY <2>1, <2>3, FInvTypes, ConstantFacts
<1>3. /\ saved'[running] = <<f>> \o saved[running]
      /\ running # Idle => saved'[Idle] = saved[Idle]
  BY <1>1, <1>2 DEF Push
<1>4. CASE running = Idle
  <2>1. Deep(saved[Idle]) /\ (saved[Idle] # <<>> => f.mask # "open")
    BY <1>2 DEF Deaf
  <2>2. Deep(saved'[Idle])
    BY <1>2, <1>3, <1>4, <2>1, PushShut
  <2> QED
    BY <1>4, <2>2 DEF Deaf
<1>5. CASE running # Idle
  <2>1. saved[Idle] # <<>> => sigState # "open" /\ Shut(saved[running]) /\ f.mask # "open"
    BY <1>2, <1>5 DEF Deaf
  <2>2. saved[Idle] # <<>> => Shut(saved'[running])
    BY <1>2, <1>3, <2>1, PushShut
  <2>3. saved'[Idle] = saved[Idle] /\ Deep(saved[Idle])
    BY <1>3, <1>5 DEF Deaf
  <2> QED
    BY <1>5, <2>1, <2>2, <2>3 DEF Deaf
<1> QED
  BY <1>4, <1>5

\* The frame on top changes what it is about, not the mask it keeps.
LEMMA TopDeaf ==
    ASSUME FInv, Deaf, NEW kind, NEW m, SetFrame(kind, m),
           UNCHANGED <<running, mask>>, sigState' \in {sigState, mask}
    PROVE  Deaf'
<1>1. saved \in [Threads -> Seq(Frames)] /\ running \in Threads /\ Idle \in Threads
  BY FInvTypes, ConstantFacts DEF FInv, FilesTypeOK
<1>2. ASSUME NEW t \in Threads
      PROVE  /\ Len(saved'[t]) = Len(saved[t])
             /\ \A i \in 1 .. Len(saved[t]) : saved'[t][i].mask = saved[t][i].mask
             /\ saved'[t] = <<>> <=> saved[t] = <<>>
  <2>1. CASE t # running
    BY <1>1, <2>1 DEF SetFrame
  <2>2. CASE t = running
    <3> DEFINE s == saved[running]
    <3>1. s \in Seq(Frames) /\ saved'[t] = [[s EXCEPT ![1].kind = kind] EXCEPT ![1].mess = m]
      BY <1>1, <2>2 DEF SetFrame
    <3>2. \A i \in 1 .. Len(s) : s[i] \in Frames
      BY <3>1
    <3> QED
      BY <2>2, <3>1, <3>2 DEF Frames
  <2> QED
    BY <2>1, <2>2
<1>3. /\ Deep(saved'[Idle]) <=> Deep(saved[Idle])
      /\ Shut(saved'[running]) <=> Shut(saved[running])
  <2>1. \A t \in Threads : \A i \in 1 .. Len(saved[t]) - 1 : i \in 1 .. Len(saved[t])
    BY <1>1
  <2> QED
    BY <1>1, <1>2, <2>1 DEF Deep, Shut
<1>4. saved'[Idle] = <<>> <=> saved[Idle] = <<>>
  BY <1>1, <1>2
<1> QED
  BY <1>3, <1>4 DEF Deaf

\* A handler returns with the mask of what it interrupted.
LEMMA ReturnDeaf ==
    ASSUME FInv, Deaf, HandlerReturns
    PROVE  Deaf'
<1>1. /\ saved \in [Threads -> Seq(Frames)] /\ running \in Threads /\ Idle \in Threads
      /\ saved[running] # <<>>
  BY FInvTypes, ConstantFacts DEF FInv, FilesTypeOK, HandlerReturns, InHandler
<1>2. /\ UNCHANGED <<running, sigState>> /\ mask' = saved[running][1].mask
      /\ saved'[running] = Tail(saved[running])
      /\ running # Idle => saved'[Idle] = saved[Idle]
  BY <1>1 DEF HandlerReturns, AlarmReturn, TopFrame
<1>3. CASE running = Idle
  <2>1. Deep(saved[Idle])
    BY DEF Deaf
  <2>2. Deep(saved'[Idle]) /\ (saved'[Idle] # <<>> => mask' # "open")
    BY <1>1, <1>2, <1>3, <2>1, PopShut
  <2> QED
    BY <1>2, <1>3, <2>2 DEF Deaf
<1>4. CASE running # Idle
  <2>1. saved[Idle] # <<>> => sigState # "open" /\ Shut(saved[running])
    BY <1>4 DEF Deaf
  <2>2. saved[Idle] # <<>> => Shut(saved'[running]) /\ mask' # "open"
    BY <1>1, <1>2, <2>1, PopShut
  <2>3. saved'[Idle] = saved[Idle] /\ Deep(saved[Idle])
    BY <1>2, <1>4 DEF Deaf
  <2> QED
    BY <1>2, <1>4, <2>1, <2>2, <2>3 DEF Deaf
<1> QED
  BY <1>3, <1>4

LEMMA DeafStep ==
    ASSUME FInv, Steady, Deaf, [FNext]_fvars
    PROVE  Deaf'
<1>1. running' # running => running' = Idle \/ saved[running'] = <<>>
  BY FreshStack
<1>2. CASE UNCHANGED maskVars /\ UNCHANGED running
  BY <1>1, <1>2, DeafBy DEF maskVars
<1>3. CASE Section
  BY <1>1, <1>3, DeafBy DEF Section
<1>4. CASE Look \/ OtherCall \/ Child \/ FileCall \/ TakeChunk \/ PopChunk \/ MapCorrupted
           \/ Back \/ UnlockPool \/ FStopped \/ UNCHANGED fvars
  <2>1. UNCHANGED <<mask, sigState, saved>>
    BY <1>4 DEF Look, OtherCall, Child, ChildAnswers, ChildSignals, FileCall, FileOne, FileRead,
       FileWrite, TakeChunk, PopChunk, MapCorrupted, Back, UnlockPool, FStopped, maskVars,
       fileVars, fvars
  <2>2. UNCHANGED running
    BY <1>4 DEF Look, SchedCheck, ContextSwitch, TestLocked, GiveUp, Retry, LookForWaiter,
       OtherCall, VMThreadCreate, Yield, MainReturns, VMThreadDelete, VMThreadTerminate,
       VMThreadSleep, Child, ChildAnswers, ChildSignals, FileCall, FileOne, FileRead, FileWrite,
       Acquire, Release, TakeChunk, PopChunk, MapCorrupted, Back, UnlockPool, FStopped,
       schedRest, schedButVm, allVars, vars, fvars
  <2> QED
    BY <1>1, <2>1, <2>2, DeafBy
<1>5. CASE Send \/ (\E x \in StrayIDs : ActivateUnknown(x))
  BY <1>1, <1>5, DeafBy DEF Send, ActivateUnknown, FHere, InUser, allVars, vars
<1>6. CASE FirstChunk \/ FileSwitch \/ (\E x \in Users : VMThreadActivateFile(x)) \/ ReplyInSwitch
  <2>1. /\ saved' = saved /\ mask' \in {mask, "all"}
        /\ sigState' \in {mask, "answers"}
    BY <1>6 DEF FirstChunk, FileSwitch, VMThreadActivateFile, ReplyInSwitch
  <2> QED
    BY <1>1, <2>1, DeafBy
<1>7. CASE AlarmSignal
  <2>1. CASE AlarmInSwitch /\ UNCHANGED <<mask, saved>>
    BY <1>1, <1>7, <2>1, DeafBy DEF AlarmSignal, AlarmMask
  <2>2. CASE Alarm /\ Push("alarm") /\ mask' = AlarmMask
    <3>1. UNCHANGED running /\ "alarm" \in Kinds
      BY <2>2 DEF Alarm, Kinds
    <3> QED
      BY <1>7, <2>2, <3>1, PushDeaf DEF AlarmSignal, AlarmMask
  <2> QED
    BY <1>7, <2>1, <2>2 DEF AlarmSignal
<1>8. CASE ReplySignal
  <2>1. "reply" \in Kinds
    BY DEF Kinds
  <2> QED
    BY <1>8, <2>1, PushDeaf DEF ReplySignal
<1>9. CASE Receive \/ EraseCallback \/ FileCallback
  BY <1>9, TopDeaf DEF Receive, EraseCallback, FileCallback, allVars, vars
<1>10. CASE HandlerReturns
  BY <1>10, ReturnDeaf
<1> QED
  BY <1>3, <1>4, <1>5, <1>6, <1>7, <1>8, <1>9, <1>10 DEF FNext, Handler, FileStep, AppCall

LEMMA DeafInit == FInit => Deaf
<1> SUFFICES ASSUME FInit PROVE Deaf
  OBVIOUS
<1>1. saved[Idle] = <<>>
  BY ConstantFacts DEF FInit
<1> QED
  BY <1>1 DEF Deaf, Deep

\* With one priority for all user threads, the first SIGUSR2 that interrupts IdleMain is
\* the last that any other thread could have heard: MachineContextSwitch
\* (Machine.h:26-34) keeps the mask of the handler, so answers wait until no user thread
\* is ready.  For all numbers of threads and nested signals.
THEOREM IdleHearsAlone ==
    ASSUME SamePriority
    PROVE  FSpec => []OnlyIdleHears
<1>1. FInv /\ Steady /\ Deaf => OnlyIdleHears
  <2> SUFFICES ASSUME FInv, Deaf, mask = "open" PROVE irq[Idle] = <<>>
    BY DEF OnlyIdleHears
  <2>1. saved[Idle] = <<>>
    BY DEF Deaf
  <2>2. Len(irq[Idle]) = 0 /\ irq[Idle] \in Seq(FrameLabels)
    BY <2>1, FInvTypes, ConstantFacts DEF FInv, FilesTypeOK
  <2> QED
    BY <2>2
<1>2. FInv /\ Steady /\ Deaf /\ [FNext]_fvars => (FInv /\ Steady /\ Deaf)'
  BY FInvStep, SteadyStep, DeafStep
<1>3. FInit => FInv /\ Steady /\ Deaf
  BY FInitInv, SteadyInit, DeafInit
<1> QED
  BY <1>1, <1>2, <1>3, PTL DEF FSpec

-----------------------------------------------------------------------------
(* The mutexes, with the file calls above them.                            *)

\* A file call is in a waitlist only while it acquires the memory mutex.
LEMMA FileSound == FInv => Sound /\ IdleStandsBy
<1> SUFFICES ASSUME FInv PROVE Sound /\ IdleStandsBy
  OBVIOUS
<1>1. Awaited \in [Threads -> Int] /\ MOver(Awaited)
  BY AwaitedType DEF FInv
<1>2. \A t \in Threads : pc[t] \in {"mwait", "woken"} => Awaited[t] = 0
  BY DEF Awaited, FInv, Placed
<1>3. Awaited[Idle] = 0
  BY ConstantFacts DEF Awaited, FInv, Placed
<1> QED
  BY <1>1, <1>2, <1>3, SoundOver, IdleReadyOver

LEMMA FileSoundNext == FInv' => Sound'
BY FileSound, PTL

\* Every step is one of the mutexes, or goes unnoticed by them.
FileOnly == \/ TakeChunk \/ PopChunk \/ FirstChunk \/ MapCorrupted \/ FileSwitch
            \/ ReplySignal \/ FileCallback \/ ReplyInSwitch

LEMMA FileMoves == FInv /\ [FNext]_fvars => LockMove \/ (FileOnly /\ Unnoticed)
<1> SUFFICES ASSUME FInv, [FNext]_fvars PROVE LockMove \/ (FileOnly /\ Unnoticed)
  OBVIOUS
<1>1. CASE Section \/ Look
  BY <1>1 DEF Section, Look, LockMove, MutexCall, Next, Kernel
<1>2. CASE AlarmSignal \/ HandlerReturns \/ OtherCall \/ \E x \in Users : VMThreadActivateFile(x)
  <2>1. Next /\ UNCHANGED mutexVars
    BY <1>2 DEF AlarmSignal, HandlerReturns, OtherCall, VMThreadActivateFile, Next, Kernel, Timer,
       ThreadCall
  <2> QED
    BY <2>1 DEF LockMove
<1>3. CASE \/ Send \/ Back \/ Receive \/ EraseCallback \/ Child \/ UNCHANGED fvars
           \/ \E x \in StrayIDs : ActivateUnknown(x)
  <2>1. UNCHANGED allVars
    BY <1>3 DEF Send, Back, Receive, EraseCallback, Child, ChildAnswers, ChildSignals, fvars,
       ActivateUnknown
  <2> QED
    BY <2>1 DEF LockMove
<1>4. CASE FileCall \/ UnlockPool
  <2>1. \/ UNCHANGED allVars
        \/ Acquire(SharedMemMutex, Infinite) \/ Release(SharedMemMutex)
    BY <1>4 DEF FileCall, FileOne, FileRead, FileWrite, UnlockPool
  <2>2. SharedMemMutex \in MutexIDs /\ Infinite \in Nat
    BY MutexCount DEF SharedMemMutex, MutexIDs, Infinite
  <2> QED
    BY <2>1, <2>2 DEF LockMove
<1>5. CASE FileOnly /\ ~FileSwitch
  BY <1>5 DEF FileOnly, TakeChunk, PopChunk, FirstChunk, MapCorrupted, ReplySignal, FileCallback,
     ReplyInSwitch, schedButVm, Unnoticed
<1>6. CASE FileSwitch
  <2>1. pc[running] = "user"
    BY <1>6, FInvTypes DEF FileSwitch, FHere, FInv, Placed
  <2> QED
    BY <1>6, <2>1 DEF FileOnly, FileSwitch, Unnoticed
<1> QED
  BY <1>1, <1>2, <1>3, <1>4, <1>5, <1>6 DEF FNext, Handler, FileStep, AppCall, FStopped, FileOnly

\* The idle thread is ready while another one runs, whatever threads wait for mutexes or
\* for the child: threadSchedule always finds a thread to switch to.
THEOREM FileSwitchFindsThread == FSpec => []IdleStandsBy
BY FInitInv, FInvStep, FileSound, PTL DEF FSpec

\* What the memory mutex keeps with user threads of one priority.
PoolInv == EqInv /\ WaitInv

LEMMA PoolInit == FInit => PoolInv
<1> SUFFICES ASSUME FInit PROVE PoolInv
  OBVIOUS
<1>1. \A t \in Threads : pc[t] \notin MutexLabels /\ waitingOn[t] = NoMutex
  BY DEF FInit, Init, MutexLabels
<1>2. Calm /\ FreeIsNobodys
  BY SteadyInit DEF Steady, FInit, FreeIsNobodys, Idle
<1>3. WaitInv
  BY <1>1 DEF WaitInv, WaitersHere, ParkLocked, MutexLabels
<1> QED
  BY <1>1, <1>2, <1>3 DEF PoolInv, EqInv, WindowRuns, AskedIsMine, LockFound, OwnerUnlocks,
     WaiterSeen, NothingErased, InCall, Window, MutexLabels

LEMMA PoolStep ==
    ASSUME SamePriority, FInv, Steady, PoolInv, [FNext]_fvars
    PROVE  PoolInv'
<1>1. Both /\ Calm'
  BY FileSound, SteadyStep DEF Both, PoolInv, Steady
<1>2. CASE LockMove
  BY <1>1, <1>2, EqStep, WaitInvStep DEF Both, PoolInv
<1>3. CASE Unnoticed
  <2>1. WaitInv'
    BY <1>3 DEF Unnoticed, PoolInv, WaitInv, WaitersHere, ParkLocked, mutexVars, listVars,
       lockVars, callVars
  <2> QED
    BY <1>1, <1>3, <2>1, EqUnnoticed DEF PoolInv
<1> QED
  BY <1>2, <1>3, FileMoves

\* What the theorems about the memory mutex carry along.
Guarded == FInv /\ Steady /\ PoolInv

LEMMA GuardedStep ==
    ASSUME SamePriority
    PROVE  /\ FInit => Guarded
           /\ Guarded /\ [FNext]_fvars => Guarded' /\ Both /\ Both' /\ (LockMove \/ Unnoticed)
<1>1. FInit => Guarded
  BY FInitInv, SteadyInit, PoolInit DEF Guarded
<1>2. ASSUME Guarded, [FNext]_fvars
      PROVE  Guarded' /\ Both /\ Both' /\ (LockMove \/ Unnoticed)
  <2>1. Guarded'
    BY <1>2, FInvStep, SteadyStep, PoolStep DEF Guarded
  <2>2. Both /\ Both'
    BY <1>2, <2>1, FileSound, FileSoundNext DEF Guarded, PoolInv, Both
  <2> QED
    BY <1>2, <2>1, <2>2, FileMoves DEF Guarded
<1> QED
  BY <1>1, <1>2

\* With one priority for all user threads the memory mutex of FileWrite, and every other
\* one, is taken only while nobody holds it and given up only by its holder, under all
\* signals, answers and switches of the file calls.
THEOREM FileMutexesImplementLock ==
    ASSUME SamePriority
    PROVE  FSpec => LockRefined
<1>1. FInit => Lock!Init
  <2> SUFFICES ASSUME FInit PROVE Lock!Init
    OBVIOUS
  <2>1. running \in Threads
    BY ConstantFacts DEF FInit, Init
  <2>2. (\A t \in Threads : ~Asking(t)) /\ \A m \in MutexIDs : ~locked[m]
    BY DEF FInit, Init, Asking
  <2> QED
    BY <2>1, <2>2 DEF Lock!Init
<1>2. ASSUME Both, Both', LockMove \/ Unnoticed
      PROVE  [Lock!Next]_(Lock!vars)
  <2>1. CASE LockMove
    BY <1>2, <2>1, LockStep
  <2>2. CASE Unnoticed
    <3>1. UNCHANGED <<pc, lockVars, asked>>
      BY <2>2 DEF Unnoticed, mutexVars, callVars
    <3>2. \A t \in Threads : Asking(t)' <=> Asking(t)
      BY <3>1 DEF Asking
    <3> QED
      BY <1>2, <3>1, <3>2, UnseenStep DEF Both, Lock!Next
  <2> QED
    BY <1>2, <2>1, <2>2
<1> QED
  BY <1>1, <1>2, GuardedStep, PTL DEF FSpec, LockRefined, Lock!Spec

\* And a writer that waits for the memory mutex is left behind, with the mutex free and
\* nobody on the way to it, by nothing but another writer's giving up: no answer, signal
\* or switch loses the wake-up of a release.
THEOREM OnlyGivingUpStrandsWriters ==
    ASSUME SamePriority
    PROVE  FSpec => StrandedOnlyByGivingUp
<1>1. ASSUME Guarded, Both, LockMove \/ Unnoticed
      PROVE  [\A m \in MutexIDs : ~Stranded(m) /\ Stranded(m)' => GiveUp]_allVars
  <2>1. CASE LockMove
    BY <1>1, <2>1, StrandStep DEF Guarded, PoolInv
  <2>2. CASE Unnoticed
    <3>1. UNCHANGED <<pc, locked, waitingOn, slots, it>>
      BY <2>2 DEF Unnoticed, mutexVars, listVars, lockVars, callVars
    <3>2. \A m \in MutexIDs : Stranded(m)' => Stranded(m)
      BY <3>1 DEF Stranded, Waiters, Underway
    <3> QED
      BY <3>2
  <2> QED
    BY <1>1, <2>1, <2>2
<1> QED
  BY <1>1, GuardedStep, PTL DEF FSpec, StrandedOnlyByGivingUp

-----------------------------------------------------------------------------
(* The state of a thread that waits for a mutex.                           *)

\* Callbacks are of threads that wait for the child, in no call of the mutexes.
LEMMA CallersOutside ==
    ASSUME FInv, NEW i \in Requests, Asked(i)
    PROVE  callbacks[i] \in Threads /\ pc[callbacks[i]] = "user"
BY BlockedLives DEF FInv, FilesTypeOK, Letters, Own, Asked

LEMMA FileWaiting ==
    ASSUME FInv, BlockedIsWaiting, [FNext]_fvars
    PROVE  BlockedIsWaiting'
<1>T. /\ Sound /\ running \in Threads /\ state \in [Threads -> ThreadStates]
      /\ TypeOver(Labels) /\ LiveQueues /\ FilesTypeOK
  BY FileSound, FInvTypes DEF Sound, TypeOver
<1>1. CASE LockMove
  <2>1. MStep
    BY <1>1, MutexArguments DEF LockMove, MStep, MNext, MutexEntry
  <2> QED
    BY <1>T, <2>1, WaitingStep
<1>2. ASSUME Unnoticed,
             \A t \in Threads : pc[t] = "woken" /\ waitingOn[t] # NoMutex => state'[t] = state[t]
      PROVE  BlockedIsWaiting'
  BY <1>2 DEF Unnoticed, mutexVars, BlockedIsWaiting
<1>3. CASE FileSwitch
  <2> DEFINE s == [state EXCEPT ![running] = "WAITING"]
  <2>1. PICK next \in Tops(PopDead(ready)) : SwitchTo(next, BlockedOut(next), s)
    BY <1>3 DEF FileSwitch
  <2>2. running' \in Threads /\ ready[running'] > 0 /\ state' = [s EXCEPT ![running'] = "RUNNING"]
    BY <2>1, <1>T, HandsOver DEF BlockedOut
  <2>3. pc[running] = "user" /\ Unnoticed
    BY <1>3, <1>T DEF FileSwitch, FHere, FInv, Placed, Unnoticed
  <2>4. ASSUME NEW t \in Threads, pc[t] = "woken", waitingOn[t] # NoMutex
        PROVE  state'[t] = state[t]
    <3>1. t # running /\ t # running'
      BY <2>2, <2>3, <2>4, <1>T DEF Sound, WaitersOut
    <3> QED
      BY <2>2, <3>1, <1>T
  <2> QED
    BY <1>2, <2>3, <2>4
<1>4. CASE FileCallback
  <2>1. PICK x : x = TopFrame.mess.id
    OBVIOUS
  <2>2. state' = [state EXCEPT ![x] = "READY"] /\ Unnoticed
    BY <1>4, <2>1 DEF FileCallback, Unnoticed
  <2>3. pc[x] = "user"
    <3>1. /\ Held("call", running, Len(saved[running]), TopFrame.mess)
          /\ Len(saved[running]) \in Nat /\ TopFrame.mess \in Mess
      BY <1>4, TopBecomes DEF FileCallback, Kinds, NoMessage, Mess
    <3>2. x \in Threads /\ Blocked(x)
      BY <1>T, <2>1, <3>1 DEF FInv, Letters, Told
    <3> QED
      BY <3>2, BlockedLives
  <2> QED
    BY <1>2, <2>2, <2>3, <1>T
<1>5. CASE ReplyInSwitch
  <2>1. Unnoticed
    BY <1>5 DEF ReplyInSwitch, Unnoticed
  <2>2. \A i \in DOMAIN replies : pc[callbacks[replies[i].id]] = "user"
    <3> SUFFICES ASSUME NEW i \in DOMAIN replies PROVE pc[callbacks[replies[i].id]] = "user"
      OBVIOUS
    <3>1. replies \in Seq(Message)
      BY <1>T DEF FilesTypeOK
    <3>2. replies[i] \in Message
      BY <3>1
    <3>3. replies[i].id \in Requests /\ Asked(replies[i].id)
      BY <3>2 DEF Message, FInv, Letters, Queued
    <3> QED
      BY <3>3, CallersOutside
  <2>3. ASSUME NEW t \in Threads, pc[t] = "woken" PROVE state'[t] = state[t]
    BY <1>5, <2>2, <2>3 DEF ReplyInSwitch
  <2> QED
    BY <1>2, <2>1, <2>3
<1>6. CASE TakeChunk \/ PopChunk \/ FirstChunk \/ MapCorrupted \/ ReplySignal
  BY <1>2, <1>6 DEF TakeChunk, PopChunk, FirstChunk, MapCorrupted, ReplySignal, schedButVm,
     Unnoticed
<1> QED
  BY <1>1, <1>3, <1>4, <1>5, <1>6, FileMoves DEF FileOnly

\* Whatever answers and signals arrive while it waits, and for all priorities, a thread
\* that is blocked on a mutex is reported WAITING: no callback makes it READY.
THEOREM FileWaitersReported == FSpec => []BlockedIsWaiting
<1>1. FInit => BlockedIsWaiting
  BY DEF FInit, BlockedIsWaiting
<1> QED
  BY <1>1, FInitInv, FInvStep, FileWaiting, PTL DEF FSpec
=============================================================================
