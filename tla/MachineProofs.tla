--------------------------- MODULE MachineProofs ---------------------------
(***************************************************************************)
(* Proofs about Machine, for any number of clients, descriptors and bytes  *)
(* in the pipe: whoever has a message to take has been or will be told; a  *)
(* request is in one place, so the child is the server FileIO relies on;   *)
(* and it reads only what poll has announced.                              *)
(***************************************************************************)
EXTENDS Machine, TLAPS

\* NoneUnheard and that bytes are counted.
Heeded == NoneUnheard /\ bytes \in Nat

\* Every step of the parent keeps it: a request it sends is followed by its signal, and
\* its handler is left only when there is no answer.
LEMMA ParentHeeds ==
    ASSUME Heeded, ParentStep
    PROVE  Heeded'
<1>. USE DEF Heeded, NoneUnheard
<1>1. UNCHANGED <<childVars, signalling>>
  BY DEF ParentStep, MachineFile, KillChild, MachineTerminate, Waited, Crash, Hear, Take, Heard
<1>2. ASSUME NEW c, NEW w, MachineFile(c, w)
      PROVE  Heeded'
  BY <1>1, <1>2 DEF MachineFile, childVars
<1>3. CASE KillChild
  BY <1>1, <1>3 DEF KillChild, childVars
<1>4. CASE MachineTerminate
  BY <1>1, <1>4 DEF MachineTerminate, childVars
<1>5. CASE Waited
  BY <1>1, <1>5 DEF Waited, childVars
<1>6. CASE Crash
  BY <1>1, <1>6 DEF Crash, childVars
<1>7. CASE Hear
  BY <1>1, <1>7 DEF Hear, childVars
<1>8. CASE Take
  BY <1>1, <1>8 DEF Take, childVars
<1>9. CASE Heard
  BY <1>1, <1>9 DEF Heard, childVars
<1>. QED
  BY <1>2, <1>3, <1>4, <1>5, <1>6, <1>7, <1>8, <1>9 DEF ParentStep

\* So does every step of the child: a byte it takes sends it to the queue, which it
\* leaves only empty.
LEMMA ChildHeeds ==
    ASSUME Heeded, ChildStep
    PROVE  Heeded'
<1>. USE DEF Heeded, NoneUnheard
<1>1. UNCHANGED <<parent, sending, hearing>>
  BY DEF ChildStep, ChildLoop, Boot, WriteByte, Poll, DrainNow, DrainRead, DrainStop, DrainEnd,
     Drained, ServeRead, Unwatch, EndPass, ChildSignals, childElse, parentVars
<1>2. CASE Boot
  BY <1>1, <1>2 DEF Boot
<1>3. CASE WriteByte
  BY <1>1, <1>3 DEF WriteByte
<1>4. CASE Poll
  BY <1>1, <1>4 DEF Poll
<1>5. CASE DrainNow
  BY <1>1, <1>5 DEF DrainNow, Drained, DrainOn, SendReply
<1>6. CASE DrainRead
  BY <1>1, <1>6 DEF DrainRead, Drained, DrainOn
<1>7. CASE DrainStop
  BY <1>1, <1>7 DEF DrainStop, Drained, DrainOn
<1>8. CASE DrainEnd
  BY <1>1, <1>8 DEF DrainEnd
<1>9. CASE ServeRead
  BY <1>1, <1>9 DEF ServeRead, SendReply
<1>10. CASE Unwatch \/ EndPass
  BY <1>1, <1>10 DEF Unwatch, EndPass
<1>11. CASE ChildSignals
  BY <1>1, <1>11 DEF ChildSignals, childVars
<1>. QED
  BY <1>2, <1>3, <1>4, <1>5, <1>6, <1>7, <1>8, <1>9, <1>10, <1>11 DEF ChildStep, ChildLoop

\* No request and no answer is ever left in its queue with nobody told of it, although
\* signals coalesce and one byte in the pipe stands for many requests (Machine.cpp:216-239,
\* 342-412).
THEOREM EveryMessageHeard == MachineSpec => []NoneUnheard
<1>1. MachineInit => Heeded
  BY DEF MachineInit, Heeded, NoneUnheard
<1>2. Heeded /\ [MachineNext]_mvars => Heeded'
  <2>. SUFFICES ASSUME Heeded, [MachineNext]_mvars PROVE Heeded'
    OBVIOUS
  <2>1. ASSUME NEW fd, Input(fd)
        PROVE  Heeded'
    BY <2>1 DEF Input, Heeded, NoneUnheard, parentVars, childVars
  <2>2. CASE UNCHANGED mvars
    BY <2>2 DEF mvars, Heeded, NoneUnheard, parentVars, childVars
  <2>. QED
    BY <2>1, <2>2, ParentHeeds, ChildHeeds DEF MachineNext, BothGone
<1>3. Heeded => NoneUnheard
  BY DEF Heeded
<1>. QED
  BY <1>1, <1>2, <1>3, PTL DEF MachineSpec

-----------------------------------------------------------------------------
(* Where a request is.                                                     *)

\* A sequence holds nothing but the request to stop twice.
Single(s) == \A i, j \in DOMAIN s : s[i] = s[j] /\ s[i] # Stop => i = j
Among(s, c) == \E i \in DOMAIN s : s[i] = c

\* Its thread waits for it, and it is in one of the three places.
Apart ==
    \A c \in Clients :
        /\ Among(pending, c) => c # Stop /\ want[c] # Nothing
                               /\ ~Among(requests, c) /\ ~Among(replies, c)
        /\ Among(replies, c) => c # Stop /\ want[c] # Nothing /\ ~Among(requests, c)
        /\ Among(requests, c) /\ c # Stop => want[c] # Nothing

\* PollFDs has a descriptor once, and what it has reported can still be read.
Announced ==
    /\ \A i, j \in DOMAIN watched : watched[i] = watched[j] => i = j
    /\ \A i \in hit : watched[i] \in ready

ChildInv ==
    /\ MachineTypeOK
    /\ Single(requests) /\ Single(pending) /\ Single(replies) /\ Apart
    /\ Announced

\* What the operators on sequences do.
LEMMA Shorter ==
    ASSUME NEW S, NEW s \in Seq(S), s # <<>>
    PROVE  /\ Tail(s) \in Seq(S) /\ Head(s) \in S /\ Head(s) = s[1] /\ 1 \in DOMAIN s
           /\ Single(s) => Single(Tail(s))
           /\ \A c : Among(Tail(s), c) => Among(s, c)
           /\ \A c : Among(s, c) => Among(Tail(s), c) \/ c = Head(s)
           /\ Single(s) /\ Head(s) # Stop => ~Among(Tail(s), Head(s))
<1>1. /\ Tail(s) \in Seq(S) /\ Head(s) \in S /\ Head(s) = s[1] /\ Len(s) \in Nat \ {0}
      /\ DOMAIN s = 1 .. Len(s) /\ DOMAIN Tail(s) = 1 .. Len(s) - 1
      /\ \A i \in 1 .. Len(s) - 1 : Tail(s)[i] = s[i + 1]
  OBVIOUS
<1>2. Single(s) => Single(Tail(s))
  BY <1>1 DEF Single
<1>3. \A c : Among(Tail(s), c) => Among(s, c)
  BY <1>1 DEF Among
<1>4. \A c : Among(s, c) => Among(Tail(s), c) \/ c = Head(s)
  <2>1. ASSUME NEW i \in DOMAIN s, i # 1 PROVE i - 1 \in DOMAIN Tail(s) /\ Tail(s)[i - 1] = s[i]
    BY <1>1, <2>1
  <2>. QED
    BY <1>1, <2>1 DEF Among
<1>5. Single(s) /\ Head(s) # Stop => ~Among(Tail(s), Head(s))
  BY <1>1 DEF Single, Among
<1>. QED
  BY <1>1, <1>2, <1>3, <1>4, <1>5

LEMMA Longer ==
    ASSUME NEW S, NEW s \in Seq(S), NEW e \in S
    PROVE  /\ Append(s, e) \in Seq(S) /\ DOMAIN s \subseteq DOMAIN Append(s, e)
           /\ \A i \in DOMAIN s : Append(s, e)[i] = s[i]
           /\ \A c : Among(Append(s, e), c) <=> Among(s, c) \/ c = e
           /\ Single(s) /\ (e # Stop => ~Among(s, e)) => Single(Append(s, e))
<1>1. /\ Append(s, e) \in Seq(S) /\ Len(s) \in Nat
      /\ DOMAIN s = 1 .. Len(s) /\ DOMAIN Append(s, e) = 1 .. Len(s) + 1
      /\ \A i \in 1 .. Len(s) : Append(s, e)[i] = s[i]
      /\ Append(s, e)[Len(s) + 1] = e
  OBVIOUS
<1>2. \A i \in DOMAIN Append(s, e) : i \in DOMAIN s \/ i = Len(s) + 1
  BY <1>1
<1>3. \A c : Among(Append(s, e), c) <=> Among(s, c) \/ c = e
  BY <1>1, <1>2 DEF Among
<1>4. Single(s) /\ (e # Stop => ~Among(s, e)) => Single(Append(s, e))
  BY <1>1, <1>2 DEF Among, Single
<1>. QED
  BY <1>1, <1>3, <1>4

LEMMA Without ==
    ASSUME NEW S, NEW s \in Seq(S), NEW r \in DOMAIN s
    PROVE  /\ RemoveAt(s, r) \in Seq(S) /\ s[r] \in S
           /\ (\A i, j \in DOMAIN s : s[i] = s[j] => i = j) =>
                \A i, j \in DOMAIN RemoveAt(s, r) : RemoveAt(s, r)[i] = RemoveAt(s, r)[j] => i = j
           /\ Single(s) => Single(RemoveAt(s, r))
           /\ \A c : Among(RemoveAt(s, r), c) => Among(s, c)
           /\ \A c : Among(s, c) => Among(RemoveAt(s, r), c) \/ c = s[r]
           /\ Single(s) /\ s[r] # Stop => ~Among(RemoveAt(s, r), s[r])
<1>. DEFINE w == RemoveAt(s, r)
<1>1. Len(s) \in Nat /\ DOMAIN s = 1 .. Len(s) /\ r \in 1 .. Len(s) /\ s[r] \in S
  OBVIOUS
<1>2. /\ w \in Seq(S) /\ DOMAIN w = 1 .. Len(s) - 1
      /\ \A i \in 1 .. Len(s) - 1 : w[i] = IF i < r THEN s[i] ELSE s[i + 1]
  <2>1. /\ SubSeq(s, 1, r - 1) \in Seq(S) /\ Len(SubSeq(s, 1, r - 1)) = r - 1
        /\ \A i \in 1 .. r - 1 : SubSeq(s, 1, r - 1)[i] = s[i]
    BY <1>1
  <2>2. /\ SubSeq(s, r + 1, Len(s)) \in Seq(S) /\ Len(SubSeq(s, r + 1, Len(s))) = Len(s) - r
        /\ \A i \in 1 .. Len(s) - r : SubSeq(s, r + 1, Len(s))[i] = s[i + r]
    BY <1>1
  <2>3. PICK a \in Seq(S) : a = SubSeq(s, 1, r - 1)
    BY <2>1
  <2>4. PICK b \in Seq(S) : b = SubSeq(s, r + 1, Len(s))
    BY <2>2
  <2>5. w = a \o b
    BY <2>3, <2>4 DEF RemoveAt
  <2>6. Len(a) = r - 1 /\ Len(b) = Len(s) - r
    BY <2>1, <2>2, <2>3, <2>4
  <2>7. /\ a \o b \in Seq(S) /\ DOMAIN (a \o b) = 1 .. Len(a) + Len(b)
        /\ \A i \in 1 .. Len(a) + Len(b) : (a \o b)[i] = IF i <= Len(a) THEN a[i] ELSE b[i - Len(a)]
    OBVIOUS
  <2>8. \A i \in 1 .. Len(s) - 1 : (a \o b)[i] = IF i < r THEN s[i] ELSE s[i + 1]
    <3>. SUFFICES ASSUME NEW i \in 1 .. Len(s) - 1
                  PROVE  (a \o b)[i] = IF i < r THEN s[i] ELSE s[i + 1]
      OBVIOUS
    <3>0. i \in 1 .. Len(a) + Len(b) /\ (i <= Len(a) <=> i < r) /\ i - Len(a) = i - (r - 1)
      BY <1>1, <2>6
    <3>1. CASE i < r
      <4>1. i \in 1 .. r - 1
        BY <1>1, <3>1
      <4>2. a[i] = s[i]
        BY <2>1, <2>3, <4>1
      <4>3. (a \o b)[i] = a[i]
        BY <2>7, <3>0, <3>1
      <4>. QED
        BY <3>1, <4>2, <4>3
    <3>2. CASE ~(i < r)
      <4>1. i - (r - 1) \in 1 .. Len(s) - r /\ i - (r - 1) + r = i + 1
        BY <1>1, <3>2
      <4>2. b[i - (r - 1)] = s[i + 1]
        BY <2>2, <2>4, <4>1
      <4>3. (a \o b)[i] = b[i - (r - 1)]
        BY <2>7, <3>0, <3>2
      <4>. QED
        BY <3>2, <4>2, <4>3
    <3>. QED
      BY <3>1, <3>2
  <2>9. Len(a) + Len(b) = Len(s) - 1
    BY <1>1, <2>6
  <2>. QED
    BY <2>5, <2>7, <2>8, <2>9
<1>. HIDE DEF w
<1>3. \A i, j \in DOMAIN w : w[i] = w[j] /\ i # j =>
        \E k, l \in DOMAIN s : s[k] = s[l] /\ k # l /\ s[k] = w[i]
  <2>. SUFFICES ASSUME NEW i \in DOMAIN w, NEW j \in DOMAIN w, w[i] = w[j], i # j
                PROVE  \E k, l \in DOMAIN s : s[k] = s[l] /\ k # l /\ s[k] = w[i]
    OBVIOUS
  <2>1. PICK k \in DOMAIN s : s[k] = w[i] /\ k = IF i < r THEN i ELSE i + 1
    BY <1>1, <1>2
  <2>2. PICK l \in DOMAIN s : s[l] = w[j] /\ l = IF j < r THEN j ELSE j + 1
    BY <1>1, <1>2
  <2>. QED
    BY <1>1, <1>2, <2>1, <2>2
<1>4. \A c : Among(w, c) => \E k \in DOMAIN s : s[k] = c /\ k # r
  <2>. SUFFICES ASSUME NEW i \in DOMAIN w PROVE \E k \in DOMAIN s : s[k] = w[i] /\ k # r
    BY DEF Among
  <2>1. PICK k \in DOMAIN s : s[k] = w[i] /\ k = IF i < r THEN i ELSE i + 1
    BY <1>1, <1>2
  <2>. QED
    BY <1>1, <1>2, <2>1
<1>5. \A k \in DOMAIN s : k # r => Among(w, s[k])
  <2>. SUFFICES ASSUME NEW k \in DOMAIN s, k # r PROVE \E i \in DOMAIN w : w[i] = s[k]
    BY DEF Among
  <2>1. CASE k < r
    BY <1>1, <1>2, <2>1
  <2>2. CASE k > r
    <3>1. k - 1 \in DOMAIN w /\ w[k - 1] = s[k]
      BY <1>1, <1>2, <2>2
    <3>. QED
      BY <3>1
  <2>. QED
    BY <1>1, <2>1, <2>2
<1>6. Single(s) => Single(w)
  BY <1>3 DEF Single
<1>7. (\A i, j \in DOMAIN s : s[i] = s[j] => i = j) => \A i, j \in DOMAIN w : w[i] = w[j] => i = j
  BY <1>3
<1>8. /\ \A c : Among(w, c) => Among(s, c)
      /\ \A c : Among(s, c) => Among(w, c) \/ c = s[r]
  BY <1>4, <1>5 DEF Among
<1>9. Single(s) /\ s[r] # Stop => ~Among(w, s[r])
  BY <1>4 DEF Single
<1>. QED
  BY <1>1, <1>2, <1>6, <1>7, <1>8, <1>9 DEF w

\* The parent posts a request for a thread that has none, and takes the answers.
LEMMA ParentPlaces ==
    ASSUME ChildInv, ParentStep
    PROVE  ChildInv'
<1>. USE DEF ChildInv
<1>1. /\ UNCHANGED <<childVars, signalling, ready>>
      /\ requests \in Seq(Clients \cup {Stop}) /\ replies \in Seq(Clients)
      /\ want \in [Clients -> Files \cup Terminals \cup {Now, Nothing}]
      /\ \A c : Among(replies, c) => c \in Clients
  BY DEF ParentStep, MachineFile, KillChild, MachineTerminate, Waited, Crash, Hear, Take, Heard,
     MachineTypeOK, Among
<1>2. Announced'
  BY <1>1 DEF Announced, childVars
<1>3. ASSUME UNCHANGED <<want, requests, replies>>,
             parent' \in {"up", "ending", "gone"}, sending' \in BOOLEAN, hearing' \in BOOLEAN,
             usr2' \in BOOLEAN, told' \in BOOLEAN
      PROVE  ChildInv'
  BY <1>1, <1>2, <1>3 DEF MachineTypeOK, Single, Apart, Among, childVars
<1>4. ASSUME NEW c \in Clients, NEW w \in Files \cup Terminals \cup {Now}, MachineFile(c, w)
      PROVE  ChildInv'
  <2>1. /\ want[c] = Nothing /\ want' = [want EXCEPT ![c] = w]
        /\ requests' = Append(requests, c) /\ UNCHANGED <<replies, pending>>
    BY <1>1, <1>4 DEF MachineFile, childVars
  <2>2. /\ requests' \in Seq(Clients \cup {Stop})
        /\ \A d : Among(requests', d) <=> Among(requests, d) \/ d = c
        /\ (c # Stop => ~Among(requests, c)) => Single(requests')
    BY <1>1, <2>1, Longer
  <2>3. Single(requests')
    BY <2>1, <2>2 DEF Apart
  <2>4. Apart'
    <3>1. w # Nothing
      BY Descriptors DEF Now, Nothing
    <3>. QED
      BY <1>1, <2>1, <2>2, <3>1 DEF Apart
  <2>5. MachineTypeOK'
    BY <1>1, <1>4, <2>1, <2>2 DEF MachineTypeOK, MachineFile, childVars
  <2>. QED
    BY <1>2, <2>1, <2>3, <2>4, <2>5 DEF Single
<1>5. CASE MachineTerminate
  <2>1. requests' = Append(requests, Stop) /\ UNCHANGED <<replies, pending, want>>
    BY <1>1, <1>5 DEF MachineTerminate, childVars
  <2>2. /\ requests' \in Seq(Clients \cup {Stop}) /\ Single(requests')
        /\ \A d : Among(requests', d) <=> Among(requests, d) \/ d = Stop
    BY <1>1, <2>1, Longer
  <2>3. Apart'
    BY <2>1, <2>2 DEF Apart
  <2>4. MachineTypeOK'
    BY <1>1, <1>5, <2>1, <2>2 DEF MachineTypeOK, MachineTerminate, childVars
  <2>. QED
    BY <1>2, <2>1, <2>2, <2>3, <2>4 DEF Single
<1>6. CASE Take
  <2>1. /\ replies # <<>> /\ replies' = Tail(replies) /\ UNCHANGED <<requests, pending>>
        /\ want' = [want EXCEPT ![Head(replies)] = Nothing]
    BY <1>1, <1>6 DEF Take, childVars
  <2>2. PICK h : h = Head(replies)
    OBVIOUS
  <2>3. /\ replies' \in Seq(Clients) /\ h \in Clients /\ Single(replies') /\ Among(replies, h)
        /\ \A d : Among(replies', d) => Among(replies, d)
        /\ h # Stop => ~Among(replies', h)
    BY <1>1, <2>1, <2>2, Shorter DEF Among
  <2>4. h # Stop /\ ~Among(requests, h) /\ ~Among(pending, h) /\ ~Among(replies', h)
    BY <2>3 DEF Apart
  <2>5. Apart'
    <3>1. \A d \in Clients : d # h => want'[d] = want[d]
      BY <1>1, <2>1, <2>2
    <3>. QED
      BY <2>1, <2>3, <2>4, <3>1 DEF Apart
  <2>6. MachineTypeOK'
    BY <1>1, <1>6, <2>1, <2>2, <2>3 DEF MachineTypeOK, Take, childVars
  <2>. QED
    BY <1>2, <2>1, <2>3, <2>5, <2>6 DEF Single
<1>7. CASE KillChild \/ Waited \/ Crash \/ Hear \/ Heard
  <2>1. /\ UNCHANGED <<want, requests, replies>>
        /\ parent' \in {"up", "ending", "gone"} /\ sending' \in BOOLEAN /\ hearing' \in BOOLEAN
        /\ usr2' \in BOOLEAN /\ told' \in BOOLEAN
    BY <1>7 DEF KillChild, Waited, Crash, Hear, Heard, MachineTypeOK
  <2>. QED
    BY <1>3, <2>1
<1>. QED
  BY <1>4, <1>5, <1>6, <1>7 DEF ParentStep

\* The child moves a request from the queue to the reads it puts off, or answers it.
LEMMA ChildPlaces ==
    ASSUME ChildInv, ChildStep
    PROVE  ChildInv'
<1>. USE DEF ChildInv
<1>1. /\ UNCHANGED parentVars
      /\ want \in [Clients -> Files \cup Terminals \cup {Now, Nothing}]
      /\ requests \in Seq(Clients \cup {Stop}) /\ replies \in Seq(Clients)
      /\ pending \in Seq(Clients) /\ watched \in Seq(Files \cup Terminals)
      /\ hit \subseteq DOMAIN watched
  BY DEF ChildStep, ChildLoop, Boot, WriteByte, Poll, DrainNow, DrainRead, DrainStop, DrainEnd,
     Drained, ServeRead, Unwatch, EndPass, ChildSignals, childElse, MachineTypeOK
\* Steps that touch neither the queues nor what is watched.
<1>2. ASSUME UNCHANGED <<requests, replies, pending, watched, ready>>,
             child' \in {"boot", "poll", "drain", "serve", "gone"}, bytes' \in 0 .. MaxBytes,
             signalling' \in BOOLEAN, usr2' \in BOOLEAN, told' \in BOOLEAN,
             terminated' \in BOOLEAN, hit' \subseteq DOMAIN watched,
             \A i \in hit' : watched[i] \in ready
      PROVE  ChildInv'
  BY <1>1, <1>2 DEF MachineTypeOK, Single, Apart, Among, Announced, parentVars
<1>3. CASE Boot \/ WriteByte \/ DrainEnd \/ ChildSignals
  <2>1. UNCHANGED <<requests, replies, pending, watched, ready, hit, terminated>>
    BY <1>3 DEF Boot, WriteByte, DrainEnd, ChildSignals, childElse, childVars
  <2>2. bytes' \in 0 .. MaxBytes
    BY <1>3, Descriptors
       DEF Boot, WriteByte, DrainEnd, ChildSignals, childVars, MachineTypeOK
  <2>3. /\ child' \in {"boot", "poll", "drain", "serve", "gone"}
        /\ signalling' \in BOOLEAN /\ usr2' \in BOOLEAN /\ told' \in BOOLEAN
    BY <1>3 DEF Boot, WriteByte, DrainEnd, ChildSignals, childVars, MachineTypeOK
  <2>4. terminated' \in BOOLEAN /\ hit' \subseteq DOMAIN watched /\ \A i \in hit' : watched[i] \in ready
    BY <1>1, <2>1 DEF MachineTypeOK, Announced
  <2>. QED
    BY <1>2, <2>1, <2>2, <2>3, <2>4
<1>4. CASE Poll
  <2>1. /\ UNCHANGED <<requests, replies, pending, watched, ready, signalling, usr2, told>>
        /\ hit' = {i \in DOMAIN watched : watched[i] \in ready}
    BY <1>4 DEF Poll, childElse
  <2>2. bytes' \in 0 .. MaxBytes /\ child' \in {"drain", "serve"}
    BY <1>4, Descriptors DEF Poll, MachineTypeOK
  <2>3. terminated' \in BOOLEAN
    <3>1. \/ terminated' = terminated
          \/ \E b : terminated' = (terminated \/ ParentMissing(b))
      BY <1>4 DEF Poll
    <3>. QED
      BY <3>1 DEF MachineTypeOK
  <2>4. signalling' \in BOOLEAN /\ usr2' \in BOOLEAN /\ told' \in BOOLEAN
    BY <2>1 DEF MachineTypeOK
  <2>. QED
    BY <1>2, <2>1, <2>2, <2>3, <2>4
\* The head of the request queue.
<1>5. ASSUME Drained("drain")
      PROVE  /\ requests' \in Seq(Clients \cup {Stop}) /\ Head(requests) \in Clients \cup {Stop}
             /\ Single(requests') /\ Among(requests, Head(requests))
             /\ \A c : Among(requests', c) => Among(requests, c)
             /\ Head(requests) # Stop => ~Among(requests', Head(requests))
             /\ UNCHANGED <<bytes, hit, usr2, told, ready>> /\ child' = "drain"
  BY <1>1, <1>5, Shorter DEF Drained, childElse, Among
<1>6. CASE DrainNow
  <2>1. PICK h : h = Head(requests)
    OBVIOUS
  <2>2. /\ h # Stop /\ replies' = Append(replies, h) /\ signalling' = TRUE
        /\ UNCHANGED <<pending, watched, terminated>> /\ Drained("drain")
    BY <1>6, <2>1 DEF DrainNow, SendReply, DrainOn
  <2>3. /\ h \in Clients /\ Among(requests, h) /\ want[h] # Nothing
        /\ ~Among(replies, h) /\ ~Among(pending, h) /\ ~Among(requests', h)
    BY <1>5, <2>1, <2>2 DEF Apart
  <2>4. /\ replies' \in Seq(Clients) /\ Single(replies')
        /\ \A c : Among(replies', c) <=> Among(replies, c) \/ c = h
    BY <1>1, <2>2, <2>3, Longer
  <2>5. Apart'
    BY <1>1, <1>5, <2>2, <2>3, <2>4 DEF Apart, parentVars
  <2>6. MachineTypeOK'
    BY <1>1, <1>5, <2>2, <2>4 DEF MachineTypeOK, parentVars
  <2>. QED
    BY <1>5, <2>2, <2>4, <2>5, <2>6 DEF Single, Announced
<1>7. CASE DrainRead
  <2>1. PICK h : h = Head(requests)
    OBVIOUS
  <2>2. PICK fd : fd = want[h]
    OBVIOUS
  <2>3. /\ h # Stop /\ fd # Now /\ pending' = Append(pending, h)
        /\ watched' = IF Contains(watched, fd) THEN watched ELSE Append(watched, fd)
        /\ UNCHANGED <<replies, signalling, terminated>> /\ Drained("drain")
    BY <1>7, <2>1, <2>2 DEF DrainRead, DrainOn
  <2>4. /\ h \in Clients /\ Among(requests, h) /\ want[h] # Nothing
        /\ ~Among(replies, h) /\ ~Among(pending, h) /\ ~Among(requests', h)
    BY <1>5, <2>1, <2>3 DEF Apart
  <2>5. fd \in Files \cup Terminals
    BY <1>1, <2>2, <2>3, <2>4
  <2>6. /\ pending' \in Seq(Clients) /\ Single(pending')
        /\ \A c : Among(pending', c) <=> Among(pending, c) \/ c = h
    BY <1>1, <2>3, <2>4, Longer
  <2>7. /\ watched' \in Seq(Files \cup Terminals) /\ hit' \subseteq DOMAIN watched'
        /\ \A i \in hit' : watched'[i] = watched[i]
        /\ \A i, j \in DOMAIN watched' : watched'[i] = watched'[j] => i = j
    <3>1. CASE Contains(watched, fd)
      BY <1>1, <1>5, <2>3, <3>1 DEF Announced
    <3>2. CASE ~Contains(watched, fd)
      <4>1. watched' = Append(watched, fd) /\ hit' = hit
        BY <1>5, <2>3, <3>2
      <4>2. \A i \in DOMAIN watched : watched[i] # fd
        BY <1>1, <3>2 DEF Contains
      <4>3. /\ watched' \in Seq(Files \cup Terminals) /\ DOMAIN watched \subseteq DOMAIN watched'
            /\ \A i \in DOMAIN watched : watched'[i] = watched[i]
        BY <1>1, <2>5, <4>1, Longer
      <4>4. /\ DOMAIN watched' = DOMAIN watched \cup {Len(watched) + 1}
            /\ watched'[Len(watched) + 1] = fd
        BY <1>1, <2>5, <4>1
      <4>. QED
        BY <1>1, <4>1, <4>2, <4>3, <4>4 DEF Announced
    <3>. QED
      BY <3>1, <3>2
  <2>8. Announced'
    BY <1>5, <2>3, <2>7 DEF Announced
  <2>9. Apart'
    BY <1>1, <1>5, <2>3, <2>4, <2>6 DEF Apart, parentVars
  <2>10. MachineTypeOK'
    BY <1>1, <1>5, <2>3, <2>6, <2>7 DEF MachineTypeOK, parentVars
  <2>. QED
    BY <1>5, <2>3, <2>6, <2>8, <2>9, <2>10 DEF Single
<1>8. CASE DrainStop
  <2>1. UNCHANGED <<pending, watched, replies, signalling>> /\ Drained("drain") /\ terminated'
    BY <1>8 DEF DrainStop, DrainOn
  <2>2. Apart'
    BY <1>1, <1>5, <2>1 DEF Apart, parentVars
  <2>3. MachineTypeOK'
    <3>1. terminated' \in BOOLEAN
      BY <1>8 DEF DrainStop
    <3>. QED
      BY <1>1, <1>5, <2>1, <3>1 DEF MachineTypeOK, parentVars
  <2>. QED
    BY <1>5, <2>1, <2>2, <2>3 DEF Single, Announced
<1>9. CASE ServeRead
  <2>1. PICK i \in DOMAIN watched, r \in DOMAIN pending :
          /\ First(i, hit) /\ SendReply(pending[r]) /\ pending' = RemoveAt(pending, r)
          /\ hit' = hit \ {i} /\ ready' \in {ready, ready \ {watched[i]}}
    BY <1>9 DEF ServeRead, PutOff, HitNext
  <2>2. UNCHANGED <<child, bytes, watched, terminated, requests, usr2, told>>
    BY <1>9 DEF ServeRead
  <2>3. PICK c : c = pending[r]
    OBVIOUS
  <2>4. /\ c \in Clients /\ Among(pending, c) /\ c # Stop /\ want[c] # Nothing
        /\ ~Among(requests, c) /\ ~Among(replies, c)
    BY <1>1, <2>3 DEF Apart, Among
  <2>5. replies' = Append(replies, c) /\ signalling' = TRUE
    BY <2>1, <2>3 DEF SendReply
  <2>6. /\ pending' \in Seq(Clients) /\ Single(pending') /\ ~Among(pending', c)
        /\ \A d : Among(pending', d) => Among(pending, d)
    BY <1>1, <2>1, <2>3, <2>4, Without
  <2>7. /\ replies' \in Seq(Clients) /\ Single(replies')
        /\ \A d : Among(replies', d) <=> Among(replies, d) \/ d = c
    BY <1>1, <2>4, <2>5, Longer
  <2>8. Announced'
    BY <1>1, <2>1, <2>2 DEF Announced
  <2>9. Apart'
    BY <1>1, <2>2, <2>4, <2>6, <2>7 DEF Apart, parentVars
  <2>10. MachineTypeOK'
    BY <1>1, <2>1, <2>2, <2>5, <2>6, <2>7 DEF MachineTypeOK, parentVars
  <2>. QED
    BY <2>2, <2>6, <2>7, <2>8, <2>9, <2>10 DEF Single
<1>10. CASE Unwatch
  <2>1. PICK i \in DOMAIN watched : watched' = RemoveAt(watched, i)
    BY <1>10 DEF Unwatch
  <2>2. /\ hit' = {} /\ UNCHANGED <<ready, child, bytes, pending, terminated, requests, replies,
                                    signalling, usr2, told>>
    BY <1>10 DEF Unwatch, childElse
  <2>3. /\ watched' \in Seq(Files \cup Terminals)
        /\ \A k, l \in DOMAIN watched' : watched'[k] = watched'[l] => k = l
    <3>1. PICK W : W = RemoveAt(watched, i)
      OBVIOUS
    <3>2. \A k, l \in DOMAIN watched : watched[k] = watched[l] => k = l
      BY DEF Announced
    <3>3. PICK v \in Seq(Files \cup Terminals) : v = watched
      BY <1>1
    <3>4. /\ W \in Seq(Files \cup Terminals)
          /\ (\A k, l \in DOMAIN v : v[k] = v[l] => k = l) =>
               \A k, l \in DOMAIN W : W[k] = W[l] => k = l
      <4>1. W = RemoveAt(v, i) /\ i \in DOMAIN v
        BY <3>1, <3>3
      <4>. HIDE <2>1, <1>10, <3>1, <3>2, <3>3
      <4>2. RemoveAt(v, i) \in Seq(Files \cup Terminals)
        BY <4>1, Without
      <4>3. (\A k, l \in DOMAIN v : v[k] = v[l] => k = l) =>
               \A k, l \in DOMAIN RemoveAt(v, i) : RemoveAt(v, i)[k] = RemoveAt(v, i)[l] => k = l
        BY <4>1, Without
      <4>. QED
        BY <4>1, <4>2, <4>3
    <3>. QED
      BY <2>1, <3>1, <3>2, <3>3, <3>4
  <2>4. MachineTypeOK'
    BY <1>1, <2>2, <2>3 DEF MachineTypeOK, parentVars
  <2>. QED
    BY <1>1, <2>2, <2>3, <2>4 DEF Announced, Single, Apart, Among, parentVars
<1>11. CASE EndPass
  <2>1. /\ UNCHANGED <<bytes, pending, watched, hit, terminated, signalling, usr2, told, ready>>
        /\ child' \in {"gone", "poll"}
        /\ UNCHANGED <<requests, replies>> \/ (requests' = <<>> /\ replies' = <<>>)
    BY <1>11 DEF EndPass, childElse
  <2>2. /\ requests' \in Seq(Clients \cup {Stop}) /\ replies' \in Seq(Clients)
        /\ Single(requests') /\ Single(replies')
        /\ \A c : Among(requests', c) => Among(requests, c)
        /\ \A c : Among(replies', c) => Among(replies, c)
    <3>1. CASE UNCHANGED <<requests, replies>>
      BY <1>1, <3>1 DEF Single, Among
    <3>2. CASE requests' = <<>> /\ replies' = <<>>
      <4>1. \A S : <<>> \in Seq(S)
        OBVIOUS
      <4>2. DOMAIN <<>> = {}
        OBVIOUS
      <4>. QED
        BY <3>2, <4>1, <4>2 DEF Single, Among
    <3>. QED
      BY <2>1, <3>1, <3>2
  <2>3. MachineTypeOK'
    BY <1>1, <2>1, <2>2 DEF MachineTypeOK, parentVars
  <2>. QED
    BY <1>1, <2>1, <2>2, <2>3 DEF Announced, Single, Apart, Among, parentVars
<1>. QED
  BY <1>3, <1>4, <1>6, <1>7, <1>8, <1>9, <1>10, <1>11 DEF ChildStep, ChildLoop

LEMMA ChildInvHolds == MachineSpec => []ChildInv
<1>1. MachineInit => ChildInv
  <2>. SUFFICES ASSUME MachineInit PROVE ChildInv
    OBVIOUS
  <2>1. \A S : <<>> \in Seq(S)
    OBVIOUS
  <2>2. DOMAIN <<>> = {}
    OBVIOUS
  <2>3. MachineTypeOK
    <3>1. want \in [Clients -> Files \cup Terminals \cup {Now, Nothing}]
      BY DEF MachineInit
    <3>2. bytes \in 0 .. MaxBytes /\ ready \in SUBSET (Files \cup Terminals)
      BY Descriptors DEF MachineInit
    <3>3. /\ requests \in Seq(Clients \cup {Stop}) /\ replies \in Seq(Clients)
          /\ pending \in Seq(Clients) /\ watched \in Seq(Files \cup Terminals)
          /\ hit \subseteq DOMAIN watched
      BY <2>1 DEF MachineInit
    <3>. QED
      BY <3>1, <3>2, <3>3 DEF MachineInit, MachineTypeOK
  <2>. QED
    BY <2>2, <2>3 DEF MachineInit, ChildInv, Single, Apart, Among, Announced
<1>2. ChildInv /\ [MachineNext]_mvars => ChildInv'
  <2>. SUFFICES ASSUME ChildInv, [MachineNext]_mvars PROVE ChildInv'
    OBVIOUS
  <2>1. ASSUME NEW fd \in Terminals, Input(fd)
        PROVE  ChildInv'
    <3>1. /\ UNCHANGED <<parentVars, requests, replies, signalling, usr2, childVars, told>>
          /\ ready' = ready \cup {fd}
      BY <2>1 DEF Input
    <3>2. MachineTypeOK'
      BY <3>1 DEF ChildInv, MachineTypeOK, parentVars, childVars
    <3>. QED
      BY <3>1, <3>2 DEF ChildInv, Single, Apart, Among, Announced, parentVars, childVars
  <2>2. CASE UNCHANGED mvars
    BY <2>2 DEF mvars, ChildInv, MachineTypeOK, Single, Apart, Among, Announced, parentVars,
       childVars
  <2>. QED
    BY <2>1, <2>2, ParentPlaces, ChildPlaces DEF MachineNext, BothGone
<1>. QED
  BY <1>1, <1>2, PTL DEF MachineSpec

\* The variables keep their types, whatever the number of threads and descriptors.
THEOREM MachineTypeCorrect == MachineSpec => []MachineTypeOK
<1>1. ChildInv => MachineTypeOK
  BY DEF ChildInv
<1>. QED
  BY <1>1, ChildInvHolds, PTL

\* The child never blocks in the read at Machine.cpp:427: a descriptor is in PollFDs once
\* and one read is made of it in a pass, so what poll has announced is still there.
THEOREM ChildNeverBlocks == MachineSpec => []ReadsDontBlock
<1>1. ChildInv => ReadsDontBlock
  BY DEF ChildInv, Announced, ReadsDontBlock
<1>. QED
  BY <1>1, ChildInvHolds, PTL

-----------------------------------------------------------------------------
(* The child is the server of FileServer.                                  *)

LEMMA InWaiting ==
    \A c : c \in Waiting <=> (Among(requests, c) /\ c # Stop) \/ Among(pending, c)
BY DEF Waiting, ToSet, Among

\* A step that leaves the server, its queue of answers and its signal as they are.
LEMMA ServerRests ==
    ASSUME UNCHANGED <<child, replies, signalling, usr2>>,
           \A c : c \in Waiting' <=> c \in Waiting
    PROVE  UNCHANGED Server!vars
<1>1. Waiting' = Waiting
  OBVIOUS
<1>. QED
  BY <1>1 DEF Server!vars

LEMMA ServerAnswers ==
    ASSUME NEW h \in Clients, child # "gone", child' = child, ~signalling, signalling' = TRUE,
           usr2' = usr2, replies' = Append(replies, h), h \in Waiting,
           \A c : c \in Waiting' <=> c \in Waiting /\ c # h
    PROVE  Server!Next
<1>1. Waiting' = Waiting \ {h}
  OBVIOUS
<1>2. Server!Answer(h)
  BY <1>1 DEF Server!Answer
<1>. QED
  BY <1>2 DEF Server!Next

LEMMA ParentServes ==
    ASSUME ChildInv, ParentStep
    PROVE  [Server!Next]_(Server!vars)
<1>1. /\ UNCHANGED <<pending, signalling, child>>
      /\ requests \in Seq(Clients \cup {Stop}) /\ replies \in Seq(Clients)
  BY DEF ParentStep, MachineFile, KillChild, MachineTerminate, Waited, Crash, Hear, Take, Heard,
     ChildInv, MachineTypeOK, childVars
<1>2. ASSUME NEW x \in Clients, NEW w, MachineFile(x, w)
      PROVE  [Server!Next]_(Server!vars)
  <2>1. want[x] = Nothing /\ requests' = Append(requests, x) /\ UNCHANGED <<replies, usr2>>
    BY <1>2 DEF MachineFile
  <2>2. \A d : Among(requests', d) <=> Among(requests, d) \/ d = x
    BY <1>1, <2>1, Longer
  <2>3. \A d : d \in Waiting' <=> d \in Waiting \/ (d = x /\ x # Stop)
    <3>1. (\A c : c \in Waiting <=> (Among(requests, c) /\ c # Stop) \/ Among(pending, c))'
      BY InWaiting, PTL
    <3>2. \A d : Among(pending', d) <=> Among(pending, d)
      BY <1>1
    <3>. QED
      BY <2>2, <3>1, <3>2, InWaiting
  <2>4. CASE x = Stop \/ child = "gone"
    <3>1. CASE x = Stop
      BY <1>1, <2>1, <2>3, <3>1, ServerRests
    <3>2. CASE child = "gone"
      BY <1>1, <2>1, <3>2 DEF Server!vars
    <3>. QED
      BY <2>4, <3>1, <3>2
  <2>5. CASE x # Stop /\ child # "gone"
    <3>1. x \notin Waiting /\ ~Among(replies, x)
      BY <2>1, <2>5, InWaiting DEF ChildInv, Apart
    <3>2. Waiting' = Waiting \cup {x}
      BY <2>3, <2>5
    <3>3. Server!Post(x)
      BY <1>1, <2>1, <2>5, <3>1, <3>2 DEF Server!Post, Among
    <3>. QED
      BY <3>3 DEF Server!Next
  <2>. QED
    BY <2>4, <2>5
<1>3. CASE MachineTerminate
  <2>1. requests' = Append(requests, Stop) /\ UNCHANGED <<replies, usr2>>
    BY <1>3 DEF MachineTerminate
  <2>2. \A d : Among(requests', d) <=> Among(requests, d) \/ d = Stop
    BY <1>1, <2>1, Longer
  <2>3. \A d : d \in Waiting' <=> d \in Waiting
    <3>1. (\A c : c \in Waiting <=> (Among(requests, c) /\ c # Stop) \/ Among(pending, c))'
      BY InWaiting, PTL
    <3>2. \A d : Among(pending', d) <=> Among(pending, d)
      BY <1>1
    <3>. QED
      BY <2>2, <3>1, <3>2, InWaiting
  <2>. QED
    BY <1>1, <2>1, <2>3, ServerRests
<1>4. CASE Hear
  <2>1. usr2 /\ usr2' = FALSE /\ UNCHANGED <<requests, replies>>
    BY <1>4 DEF Hear
  <2>2. Waiting' = Waiting
    BY <1>1, <2>1 DEF Waiting
  <2>3. Server!Hear
    BY <1>1, <2>1, <2>2 DEF Server!Hear
  <2>. QED
    BY <2>3 DEF Server!Next
<1>5. CASE Take
  <2>1. replies # <<>> /\ replies' = Tail(replies) /\ UNCHANGED <<requests, usr2>>
    BY <1>5 DEF Take
  <2>2. Waiting' = Waiting
    BY <1>1, <2>1 DEF Waiting
  <2>3. Server!Take
    BY <1>1, <2>1, <2>2 DEF Server!Take
  <2>. QED
    BY <2>3 DEF Server!Next
<1>6. CASE KillChild \/ Waited \/ Crash \/ Heard
  <2>1. UNCHANGED <<requests, replies, usr2>>
    BY <1>6 DEF KillChild, Waited, Crash, Heard
  <2>2. Waiting' = Waiting
    BY <1>1, <2>1 DEF Waiting
  <2>. QED
    BY <1>1, <2>1, <2>2 DEF Server!vars
<1>. QED
  BY <1>2, <1>3, <1>4, <1>5, <1>6 DEF ParentStep

LEMMA ChildServes ==
    ASSUME ChildInv, ChildStep
    PROVE  [Server!Next]_(Server!vars)
<1>1. /\ requests \in Seq(Clients \cup {Stop}) /\ replies \in Seq(Clients)
      /\ pending \in Seq(Clients)
  BY DEF ChildInv, MachineTypeOK
<1>2. CASE Boot \/ WriteByte \/ Poll \/ DrainEnd \/ Unwatch
  <2>1. /\ UNCHANGED <<requests, pending, replies, signalling, usr2>>
        /\ child' = "gone" <=> child = "gone"
    BY <1>2 DEF Boot, WriteByte, Poll, DrainEnd, Unwatch
  <2>2. Waiting' = Waiting
    BY <2>1 DEF Waiting
  <2>. QED
    BY <2>1, <2>2 DEF Server!vars
\* What is taken from the queue is no longer there.
<1>3. ASSUME Drained("drain"), NEW h, h = Head(requests)
      PROVE  /\ h \in Clients \cup {Stop} /\ Among(requests, h)
             /\ \A c : c # Stop => (Among(requests', c) <=> Among(requests, c) /\ c # h)
             /\ child = "drain" /\ child' = "drain" /\ ~signalling /\ usr2' = usr2
  <2>1. /\ requests # <<>> /\ requests' = Tail(requests)
        /\ child = "drain" /\ child' = "drain" /\ ~signalling /\ usr2' = usr2
    BY <1>3 DEF Drained
  <2>2. /\ h \in Clients \cup {Stop} /\ h = requests[1] /\ 1 \in DOMAIN requests
        /\ \A c : Among(requests', c) => Among(requests, c)
        /\ \A c : Among(requests, c) => Among(requests', c) \/ c = h
        /\ h # Stop => ~Among(requests', h)
    BY <1>1, <1>3, <2>1, Shorter DEF ChildInv
  <2>. QED
    BY <2>1, <2>2 DEF Among
<1>4. (\A c : c \in Waiting <=> (Among(requests, c) /\ c # Stop) \/ Among(pending, c))'
  BY InWaiting, PTL
<1>5. CASE DrainNow
  <2>1. PICK h : h = Head(requests)
    OBVIOUS
  <2>2. /\ h # Stop /\ replies' = Append(replies, h) /\ signalling' = TRUE
        /\ pending' = pending /\ Drained("drain")
    BY <1>5, <2>1 DEF DrainNow, SendReply, DrainOn
  <2>3. h \in Clients /\ Among(requests, h) /\ ~Among(pending, h)
    BY <1>3, <2>1, <2>2 DEF ChildInv, Apart
  <2>4. \A c : c \in Waiting' <=> c \in Waiting /\ c # h
    BY <1>3, <1>4, <2>1, <2>2, <2>3, InWaiting
  <2>5. h \in Waiting
    BY <2>2, <2>3, InWaiting
  <2>. QED
    BY <1>3, <2>1, <2>2, <2>3, <2>4, <2>5, ServerAnswers
<1>6. CASE DrainRead
  <2>1. PICK h : h = Head(requests)
    OBVIOUS
  <2>2. /\ h # Stop /\ pending' = Append(pending, h) /\ UNCHANGED <<replies, signalling>>
        /\ Drained("drain")
    BY <1>6, <2>1 DEF DrainRead, DrainOn
  <2>3. h \in Clients /\ Among(requests, h)
    BY <1>3, <2>1, <2>2
  <2>4. \A c : Among(pending', c) <=> Among(pending, c) \/ c = h
    BY <1>1, <2>2, <2>3, Longer
  <2>5. \A c : c \in Waiting' <=> c \in Waiting
    BY <1>3, <1>4, <2>1, <2>2, <2>3, <2>4, InWaiting
  <2>. QED
    BY <1>3, <2>1, <2>2, <2>5, ServerRests
<1>7. CASE DrainStop
  <2>1. PICK h : h = Head(requests)
    OBVIOUS
  <2>2. h = Stop /\ UNCHANGED <<pending, replies, signalling>> /\ Drained("drain")
    BY <1>7, <2>1 DEF DrainStop, DrainOn
  <2>3. \A c : c \in Waiting' <=> c \in Waiting
    BY <1>3, <1>4, <2>1, <2>2, InWaiting
  <2>. QED
    BY <1>3, <2>1, <2>2, <2>3, ServerRests
<1>8. CASE ServeRead
  <2>1. PICK r \in DOMAIN pending : SendReply(pending[r]) /\ pending' = RemoveAt(pending, r)
    BY <1>8 DEF ServeRead, PutOff
  <2>2. child = "serve" /\ ~signalling /\ UNCHANGED <<child, requests, usr2>>
    BY <1>8 DEF ServeRead
  <2>3. PICK h : h = pending[r]
    OBVIOUS
  <2>4. h \in Clients /\ Among(pending, h) /\ h # Stop /\ ~Among(requests, h)
    BY <1>1, <2>3 DEF ChildInv, Apart, Among
  <2>5. /\ ~Among(pending', h) /\ \A c : Among(pending', c) => Among(pending, c)
        /\ \A c : Among(pending, c) => Among(pending', c) \/ c = h
    BY <1>1, <2>1, <2>3, <2>4, Without DEF ChildInv
  <2>6. \A c : Among(requests', c) <=> Among(requests, c)
    BY <2>2
  <2>7. \A c : c \in Waiting' <=> c \in Waiting /\ c # h
    BY <1>4, <2>4, <2>5, <2>6, InWaiting
  <2>8. h \in Waiting
    BY <2>4, InWaiting
  <2>9. replies' = Append(replies, h) /\ signalling' = TRUE
    BY <2>1, <2>3 DEF SendReply
  <2>. QED
    BY <2>2, <2>4, <2>7, <2>8, <2>9, ServerAnswers
<1>9. CASE EndPass
  <2>1. CASE terminated
    <3>1. /\ child' = "gone" /\ replies' = <<>> /\ ~signalling
          /\ UNCHANGED <<signalling, usr2>>
      BY <1>9, <2>1 DEF EndPass
    <3>2. Server!Close
      BY <3>1 DEF Server!Close
    <3>. QED
      BY <3>2 DEF Server!Next
  <2>2. CASE ~terminated
    <3>1. /\ child' = "poll" /\ child = "serve"
          /\ UNCHANGED <<requests, pending, replies, signalling, usr2>>
      BY <1>9, <2>2 DEF EndPass
    <3>2. Waiting' = Waiting
      BY <3>1 DEF Waiting
    <3>. QED
      BY <3>1, <3>2 DEF Server!vars
  <2>. QED
    BY <2>1, <2>2
<1>10. CASE ChildSignals
  <2>1. /\ signalling /\ signalling' = FALSE /\ usr2' = TRUE
        /\ UNCHANGED <<child, requests, pending, replies>>
    BY <1>10 DEF ChildSignals, childVars
  <2>2. Waiting' = Waiting
    BY <2>1 DEF Waiting
  <2>3. Server!Signal
    BY <2>1, <2>2 DEF Server!Signal
  <2>. QED
    BY <2>3 DEF Server!Next
<1>. QED
  BY <1>2, <1>5, <1>6, <1>7, <1>8, <1>9, <1>10 DEF ChildStep, ChildLoop

\* The child is a FileServer: whatever it defers and whenever it ends, it answers a
\* request it has received, each once, and signals after every answer
\* (Machine.cpp:245-262, 332-461).  FileIO relies on no more.
THEOREM ChildIsServer == MachineSpec => ServerRefined
<1>1. MachineInit => Server!Init
  <2>. SUFFICES ASSUME MachineInit PROVE Server!Init
    OBVIOUS
  <2>1. \A c : ~Among(requests, c) /\ ~Among(pending, c)
    <3>1. DOMAIN <<>> = {}
      OBVIOUS
    <3>. QED
      BY <3>1 DEF MachineInit, Among
  <2>2. Waiting = {}
    BY <2>1, InWaiting
  <2>. QED
    BY <2>2 DEF MachineInit, Server!Init
<1>2. ChildInv /\ [MachineNext]_mvars => [Server!Next]_(Server!vars)
  <2>. SUFFICES ASSUME ChildInv, [MachineNext]_mvars PROVE [Server!Next]_(Server!vars)
    OBVIOUS
  <2>1. CASE (\E fd \in Terminals : Input(fd)) \/ UNCHANGED mvars
    <3>1. UNCHANGED <<requests, pending, replies, signalling, usr2, child>>
      BY <2>1 DEF Input, mvars, childVars
    <3>2. Waiting' = Waiting
      BY <3>1 DEF Waiting
    <3>. QED
      BY <3>1, <3>2 DEF Server!vars
  <2>. QED
    BY <2>1, ParentServes, ChildServes DEF MachineNext, BothGone
<1>. QED
  BY <1>1, <1>2, ChildInvHolds, PTL DEF MachineSpec, ServerRefined, Server!Spec
=============================================================================
