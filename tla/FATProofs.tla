----------------------------- MODULE FATProofs -----------------------------
(***************************************************************************)
(* Proofs about FATFiles, for an image and a directory of any size and     *)
(* content.  The types and what the descriptors lead to are proved for any *)
(* number of threads.  For one thread FATInv follows the one offset of the *)
(* image through the requests of a call: each label has its own place, and *)
(* the offset is there, or one record further once the request was served; *)
(* with two threads that is false.  The listings rest on it.  A fact about *)
(* every position of a sequence is proved by its least counterexample      *)
(* (Least), because an induction rule is out of the provers' reach.        *)
(***************************************************************************)
EXTENDS FATFiles, FiniteSetTheorems, WellFoundedInduction, TLAPS

-----------------------------------------------------------------------------
(* Sets of positions.                                                      *)

LEMMA Least ==
    ASSUME NEW P \in SUBSET Nat, P # {}
    PROVE  \E m \in P : \A k \in P : m <= k
<1>. DEFINE R == {p \in Nat \X Nat : p[1] < p[2]}
<1>1. IsWellFoundedOn(R, Nat)
  BY NatLessThanWellFounded DEF OpToRel
<1>2. \A x, y \in P : y < x => <<y, x>> \in R
  OBVIOUS
<1>3. \A x, y \in P : y < x \/ x <= y
  OBVIOUS
<1>. HIDE DEF R
<1>4. \E x \in P : \A y \in P : ~(<<y, x>> \in R)
  BY <1>1, WFMin
<1>. QED
  BY <1>2, <1>3, <1>4

\* InOrder names members of the set: a position has as rank the number of members up
\* to it, and different ones have different ranks, so that every rank is taken.
LEMMA InOrderPicks ==
    ASSUME NEW n \in Nat, NEW P \in SUBSET (1 .. n)
    PROVE  /\ Cardinality(P) \in Nat /\ DOMAIN InOrder(P) = 1 .. Cardinality(P)
           /\ \A k \in DOMAIN InOrder(P) : InOrder(P)[k] \in P
<1>. DEFINE upto(i) == {j \in P : j <= i}
            rank == [i \in P |-> Cardinality(upto(i))]
            c == Cardinality(P)
<1>1. IsFiniteSet(P) /\ c \in Nat
  <2>1. IsFiniteSet(1 .. n)
    BY FS_Interval
  <2>. QED
    BY <2>1, FS_Subset, FS_CardinalityType
<1>2. \A i \in P : /\ upto(i) \subseteq P /\ IsFiniteSet(upto(i)) /\ Cardinality(upto(i)) \in Nat
                   /\ Cardinality(upto(i)) <= c
  BY <1>1, FS_Subset, FS_CardinalityType
<1>3. \A i \in P : Cardinality(upto(i)) # 0
  <2>1. \A i \in P : i \in upto(i)
    OBVIOUS
  <2>. QED
    BY <1>2, <2>1, FS_EmptySet
<1>4. \A i, j \in P : i < j => Cardinality(upto(i)) # Cardinality(upto(j))
  <2>. SUFFICES ASSUME NEW i \in P, NEW j \in P, i < j, Cardinality(upto(i)) = Cardinality(upto(j))
                PROVE  FALSE
    OBVIOUS
  <2>0. /\ i \in Int /\ j \in Int /\ ~(j <= i)
        /\ \A x \in P : x <= i => x <= j
    OBVIOUS
  <2>1. upto(i) \subseteq upto(j) /\ j \in upto(j) /\ j \notin upto(i)
    <3>1. \A x \in upto(i) : x \in upto(j)
      BY <2>0
    <3>2. j \in upto(j)
      OBVIOUS
    <3>3. j \notin upto(i)
      BY <2>0
    <3>. QED
      BY <3>1, <3>2, <3>3
  <2>. HIDE DEF upto
  <2>2. upto(j) = upto(i)
    BY <1>2, <2>1, FS_Subset
  <2>. QED
    BY <2>1, <2>2
<1>5. rank \in Injection(P, 1 .. c)
  <2>1. rank \in [P -> 1 .. c]
    BY <1>1, <1>2, <1>3
  <2>2. \A i, j \in P : rank[i] = rank[j] => i = j
    BY <1>4
  <2>. QED
    BY <2>1, <2>2 DEF Injection, IsInjective
<1>6. rank \in Surjection(P, 1 .. c)
  <2>1. IsFiniteSet(1 .. c) /\ Cardinality(1 .. c) = c
    BY <1>1, FS_Interval
  <2>. HIDE DEF rank, c
  <2>2. Cardinality(P) = Cardinality(1 .. c)
    BY <2>1 DEF c
  <2>. QED
    BY <1>5, <2>1, <2>2, FS_Injection
<1>7. \A k \in 1 .. c : \E i \in P : Cardinality(upto(i)) = k
  BY <1>6 DEF Surjection
<1>. QED
  BY <1>1, <1>7 DEF InOrder

-----------------------------------------------------------------------------
(* What the variables hold, for any number of threads.                     *)

Objects == [name : AllNames, cluster : Words, fd : Nat]
Calls == [name : AllNames, unread : BOOLEAN, i : Nat, cluster : Words, slot : {NoSlot} \cup 0 .. RootCnt,
          left : Int, what : {"none", "read", "write"}]
Places == {"none", "fat", "root", "data"} \X Int
Requests == [stage : {"none", "asked", "served"}, what : {"none", "seek", "read", "write"},
             at : Places]

DiskTypes == slots \in [1 .. RootCnt -> AnyEntry]

HeapTypes ==
    /\ files \in Seq(Objects) /\ cached \in 0 .. Len(files) /\ dirIndex \in Nat \ {0}
    /\ openFiles \in Seq(Nat) /\ \A k \in DOMAIN openFiles : openFiles[k] \in DOMAIN files
    /\ names \in Seq(Nat \X AllNames) /\ Len(names) = Len(openFiles)

\* Slots are numbered in the directory while one is looked for.
Looks(u) ==
    /\ pc[u] = "rootSeek" => call[u].i = 1
    /\ pc[u] = "rootRead" => call[u].i \in 1 .. RootCnt

ThreadTypes ==
    /\ pc \in [Threads -> Labels] /\ request \in [Threads -> Requests]
    /\ call \in [Threads -> Calls] /\ got \in [Threads -> AnyEntry]
    /\ \A u \in Threads : (request[u].stage = "none" <=> pc[u] = "idle") /\ Looks(u)

\* The numbers of the descriptors follow the list of open files, and an object has
\* the descriptor of its last opening.
Opened ==
    \A k \in DOMAIN openFiles :
        /\ names[k] = <<k + 2, files[openFiles[k]].name>>
        /\ files[openFiles[k]].fd \in 3 .. Len(openFiles) + 2
        /\ openFiles[files[openFiles[k]].fd - 2] = openFiles[k]

Types == DiskTypes /\ HeapTypes /\ ThreadTypes /\ Opened

LEMMA RootSize ==
    /\ RootCnt \in Nat /\ RootCnt >= 1 /\ SlotsPerSector \in Nat \ {0}
    /\ RootCnt >= 2 * SlotsPerSector
<1>1. /\ RootCnt \in Nat /\ SlotsPerSector \in Nat \ {0} /\ RootCnt >= 2 * SlotsPerSector
  BY Image
<1>. QED
  BY <1>1

LEMMA Fillers ==
    /\ Zero \in AnyEntry /\ Entry("file", NoName, 0) \in AnyEntry
    /\ Idle \in Calls /\ NoRequest \in Requests
<1>1. NoName \in AllNames /\ RootCnt \in Nat /\ 0 \in Words
  BY RootSize DEF AllNames, Words
<1>2. Zero \in AnyEntry /\ Entry("file", NoName, 0) \in AnyEntry
  BY <1>1 DEF Zero, Entry, AnyEntry, Kinds
<1>3. Idle \in Calls
  BY <1>1 DEF Idle, Calls
<1>4. NoRequest \in Requests
  BY DEF NoRequest, NoPlace, Places, Requests
<1>. QED
  BY <1>2, <1>3, <1>4

\* What is on the image at the start, and what data may look like.
LEMMA Entries ==
    /\ \A l \in Layouts : l \in [1 .. RootCnt -> AnyEntry]
    /\ Junk \subseteq AnyEntry
<1>1. ASSUME NEW e, IsEntry(e), e.name \in AllNames PROVE e \in AnyEntry
  BY <1>1 DEF IsEntry, Entry, AnyEntry
<1>2. ASSUME NEW l \in Layouts PROVE l \in [1 .. RootCnt -> AnyEntry]
  <2>1. l = [i \in 1 .. RootCnt |-> l[i]] /\ \A i \in DOMAIN l : IsEntry(l[i])
    BY Image
  <2>2. DOMAIN l = 1 .. RootCnt
    BY <2>1
  <2>3. \A i \in 1 .. RootCnt : l[i].name \in AllNames
    BY DEF AllNames
  <2>4. \A i \in 1 .. RootCnt : l[i] \in AnyEntry
    BY <1>1, <2>1, <2>2, <2>3
  <2>. QED
    BY <2>1, <2>4
<1>3. ASSUME NEW e \in Junk PROVE e \in AnyEntry
  <2>1. IsEntry(e)
    BY Image
  <2>2. e.name \in AllNames
    BY DEF AllNames
  <2>. QED
    BY <1>1, <2>1, <2>2
<1>. QED
  BY <1>2, <1>3

\* The factor of the high byte is 16, so that 16 bits are enough.
LEMMA LoadedClusters ==
    ASSUME NEW c \in Words
    PROVE  LoadedCluster(c) \in Words
<1>1. c \in Nat /\ c < 65536
  BY DEF Words
<1>2. PICK low \in Int, high \in Int : low = c % 256 /\ high = c \div 256
  BY <1>1
<1>3. 0 <= low /\ low <= 255 /\ 0 <= high /\ high <= 255
  BY <1>1, <1>2
<1>4. PICK n \in Nat : n = low + high * 16 /\ n < 65536
  BY <1>3
<1>5. LoadedCluster(c) = n
  BY <1>2, <1>4 DEF LoadedCluster
<1>. QED
  BY <1>4, <1>5 DEF Words

\* A directory is loaded as its files before the end.
LEMMA Loads ==
    ASSUME NEW s \in [1 .. RootCnt -> AnyEntry]
    PROVE  LoadedFrom(s) \in Seq(Objects)
<1>. DEFINE read == InOrder(FileSlots(s))
            n == Cardinality(FileSlots(s))
            F == LoadedFrom(s)
<1>1. RootCnt \in Nat /\ FileSlots(s) \in SUBSET (1 .. RootCnt)
  BY RootSize DEF FileSlots
<1>2. n \in Nat /\ DOMAIN read = 1 .. n /\ \A k \in 1 .. n : read[k] \in 1 .. RootCnt
  <2>. HIDE DEF n, read
  <2>1. \A P \in SUBSET (1 .. RootCnt) :
            /\ Cardinality(P) \in Nat /\ DOMAIN InOrder(P) = 1 .. Cardinality(P)
            /\ \A k \in DOMAIN InOrder(P) : InOrder(P)[k] \in P
    BY <1>1, InOrderPicks
  <2>. QED
    BY <1>1, <2>1 DEF n, read
<1>. HIDE DEF read, n
<1>3. F = [k \in 1 .. n |-> [name |-> s[read[k]].name, fd |-> 0,
                             cluster |-> LoadedCluster(s[read[k]].cluster)]]
  BY <1>2 DEF LoadedFrom, read
<1>. HIDE DEF F
<1>4. \A c \in Words : LoadedCluster(c) \in Words
  BY LoadedClusters
<1>5. ASSUME NEW k \in 1 .. n PROVE F[k] \in Objects
  <2>1. s[read[k]] \in AnyEntry
    BY <1>2
  <2>2. s[read[k]].name \in AllNames /\ LoadedCluster(s[read[k]].cluster) \in Words
    BY <1>4, <2>1 DEF AnyEntry
  <2>. QED
    BY <1>3, <2>2 DEF Objects
<1>6. F \in [1 .. n -> Objects]
  BY <1>3, <1>5
<1>. QED
  BY <1>2, <1>6 DEF F

\* A descriptor that is found is that of the object that is returned.
LEMMA LookupFinds ==
    ASSUME HeapTypes, NEW fd, Lookup(fd) # 0
    PROVE  \E k \in DOMAIN openFiles : /\ Lookup(fd) = openFiles[k]
                                       /\ files[openFiles[k]].fd = fd
<1>. DEFINE held == {k \in DOMAIN openFiles : files[openFiles[k]].fd = fd}
<1>1. held # {}
  BY DEF Lookup
<1>2. held \in SUBSET Nat
  BY DEF HeapTypes
<1>3. \E k \in held : \A j \in held : k <= j
  BY <1>1, <1>2, Least
<1>. DEFINE m == CHOOSE k \in held : \A j \in held : k <= j
<1>4. Lookup(fd) = openFiles[m]
  BY <1>1 DEF Lookup
<1>5. m \in held
  BY <1>3
<1>. QED
  BY <1>4, <1>5

Notes(t, c) == call' = [call EXCEPT ![t] = c]

\* A thread that asks waits, with what it has noted.
LEMMA Asking ==
    ASSUME ThreadTypes, NEW t \in Threads, NEW what \in {"none", "seek", "read", "write"},
           NEW at \in Places, NEW label \in Labels \ {"idle"}, Ask(t, what, at, label),
           NEW c \in Calls, Notes(t, c), UNCHANGED got,
           label = "rootSeek" => c.i = 1, label = "rootRead" => c.i \in 1 .. RootCnt
    PROVE  ThreadTypes'
<1>. DEFINE r == [stage |-> "asked", what |-> what, at |-> at]
<1>1. r \in Requests
  BY DEF Requests
<1>2. request' = [request EXCEPT ![t] = r] /\ pc' = [pc EXCEPT ![t] = label]
  BY DEF Ask
<1>3. r.stage = "asked"
  OBVIOUS
<1>. HIDE DEF r
<1>4. /\ pc' \in [Threads -> Labels] /\ request' \in [Threads -> Requests]
      /\ call' \in [Threads -> Calls] /\ got' \in [Threads -> AnyEntry]
  BY <1>1, <1>2 DEF ThreadTypes, Notes
<1>5. \A u \in Threads : (request'[u].stage = "none" <=> pc'[u] = "idle") /\ Looks(u)'
  BY <1>2, <1>3 DEF ThreadTypes, Looks, Notes
<1>. QED
  BY <1>4, <1>5 DEF ThreadTypes

LEMMA Returning ==
    ASSUME ThreadTypes, NEW t \in Threads, Return(t)
    PROVE  ThreadTypes'
<1>1. Idle \in Calls /\ NoRequest \in Requests /\ Zero \in AnyEntry /\ "idle" \in Labels
  BY Fillers DEF Labels
<1>2. NoRequest.stage = "none"
  BY DEF NoRequest
<1>3. /\ pc' \in [Threads -> Labels] /\ request' \in [Threads -> Requests]
      /\ call' \in [Threads -> Calls] /\ got' \in [Threads -> AnyEntry]
  BY <1>1 DEF ThreadTypes, Return
<1>4. \A u \in Threads : (request'[u].stage = "none" <=> pc'[u] = "idle") /\ Looks(u)'
  BY <1>2 DEF ThreadTypes, Looks, Return
<1>. QED
  BY <1>3, <1>4 DEF ThreadTypes

\* What a call notes keeps its type.
LEMMA NotedIndex ==
    ASSUME NEW c \in Calls, NEW i \in Nat, NEW d, d = [c EXCEPT !.i = i]
    PROVE  d \in Calls /\ d.i = i
  BY DEF Calls

LEMMA NotedSlot ==
    ASSUME NEW c \in Calls, NEW s \in {NoSlot} \cup 0 .. RootCnt, NEW d, d = [c EXCEPT !.slot = s]
    PROVE  d \in Calls
  BY DEF Calls

LEMMA NotedLeft ==
    ASSUME NEW c \in Calls, NEW n \in Int, NEW d, d = [c EXCEPT !.left = n]
    PROVE  d \in Calls
  BY DEF Calls

LEMMA NotedCluster ==
    ASSUME NEW c \in Calls, NEW w \in Words, NEW d, d = [c EXCEPT !.cluster = w]
    PROVE  d \in Calls
  BY DEF Calls

\* The machine starts with what the directory holds.
LEMMA Starting ==
    /\ FATInit => Types
    /\ Types /\ Restart => Types'
<1>1. /\ Idle \in Calls /\ NoRequest \in Requests /\ Zero \in AnyEntry /\ "idle" \in Labels
      /\ NoRequest.stage = "none"
  BY Fillers DEF Labels, NoRequest
<1>2. ASSUME NEW s \in [1 .. RootCnt -> AnyEntry]
      PROVE  /\ LoadedFrom(s) \in Seq(Objects)
             /\ Len(LoadedFrom(s)) \in 0 .. Len(LoadedFrom(s))
  BY <1>2, Loads
<1>3. \A S : <<>> \in Seq(S)
  OBVIOUS
<1>4. DOMAIN <<>> = {} /\ Len(<<>>) = 0
  OBVIOUS
<1>5. ASSUME FATInit PROVE Types
  <2>1. slots \in [1 .. RootCnt -> AnyEntry]
    BY <1>5, Entries DEF FATInit
  <2>2. HeapTypes
    BY <1>2, <1>3, <1>4, <1>5, <2>1 DEF FATInit, HeapTypes
  <2>3. ThreadTypes
    BY <1>1, <1>5 DEF FATInit, ThreadTypes, Looks
  <2>. QED
    BY <1>4, <1>5, <2>1, <2>2, <2>3 DEF Types, DiskTypes, Opened, FATInit
<1>6. ASSUME Types, Restart PROVE Types'
  <2>1. slots' \in [1 .. RootCnt -> AnyEntry] /\ UNCHANGED slots
    BY <1>6 DEF Types, DiskTypes, Restart
  <2>2. HeapTypes'
    BY <1>2, <1>3, <1>4, <1>6, <2>1 DEF Restart, HeapTypes
  <2>3. ThreadTypes'
    BY <1>1, <1>6 DEF Restart, ThreadTypes, Looks
  <2>. QED
    BY <1>4, <1>6, <2>1, <2>2, <2>3 DEF Types, DiskTypes, Opened, Restart
<1>. QED
  BY <1>5, <1>6

LEMMA HeapStays ==
    ASSUME HeapTypes, Opened, UNCHANGED <<files, cached, openFiles, names>>,
           dirIndex' \in Nat \ {0}
    PROVE  HeapTypes' /\ Opened'
  BY DEF HeapTypes, Opened

\* The child answers with a record, and writes one.
LEMMA ChildTypes ==
    ASSUME Types, NEW t \in Threads, Child(t)
    PROVE  Types'
<1>. USE DEF Types
<1>1. /\ request[t].stage = "asked" /\ Served(t)
      /\ UNCHANGED <<heapVars, pc, call, names>>
  BY DEF Child, ServeSeek, ServeRead, ServeWrite, Asked, history
<1>2. HeapTypes' /\ Opened'
  <2>1. UNCHANGED <<files, cached, openFiles, names, dirIndex>>
    BY <1>1 DEF heapVars
  <2>. QED
    BY <2>1, HeapStays DEF HeapTypes
<1>3. got' \in [Threads -> AnyEntry] /\ slots' \in [1 .. RootCnt -> AnyEntry]
  <2>1. CASE ServeSeek(t)
    BY <2>1 DEF ServeSeek, ThreadTypes, DiskTypes
  <2>2. CASE ServeRead(t)
    <3>1. PICK e \in Contents(offset) : got' = [got EXCEPT ![t] = e]
      BY <2>2 DEF ServeRead
    <3>2. e \in AnyEntry
      BY <3>1, Fillers, Entries DEF Contents, DiskTypes
    <3>. QED
      BY <2>2, <3>1, <3>2 DEF ServeRead, ThreadTypes, DiskTypes
  <2>3. CASE ServeWrite(t)
    <3>1. ASSUME NEW S, NEW new, S \subseteq DOMAIN slots, \A i \in S : new[i] \in AnyEntry,
                 Overwrite(S, new)
          PROVE  slots' \in [1 .. RootCnt -> AnyEntry]
      BY <3>1 DEF Overwrite, DiskTypes
    <3>2. \A n : Covered(offset, n) \subseteq DOMAIN slots
      BY DEF Covered
    <3>3. slots' \in [1 .. RootCnt -> AnyEntry]
      <4>1. CASE WriteEntry(t)
        <5>1. call[t].name \in AllNames /\ call[t].cluster \in Words
          BY DEF ThreadTypes, Calls
        <5>2. PICK kind \in {"file", "dir", "long"} :
                  LET S == Covered(offset, 1) IN
                  Overwrite(S, [i \in S |-> Entry(kind, call[t].name, call[t].cluster)])
          BY <4>1 DEF WriteEntry
        <5>3. Entry(kind, call[t].name, call[t].cluster) \in AnyEntry
          BY <5>1 DEF Entry, AnyEntry, Kinds
        <5>. QED
          BY <3>1, <3>2, <5>2, <5>3
      <4>2. CASE WriteData(t)
        <5>0. PICK n \in 1 .. SlotsPerSector :
                  \E new \in [Covered(offset, n) -> Junk] : Overwrite(Covered(offset, n), new)
          BY <4>2 DEF WriteData
        <5>1. PICK new \in [Covered(offset, n) -> Junk] : Overwrite(Covered(offset, n), new)
          BY <5>0
        <5>2. \A i \in Covered(offset, n) : new[i] \in AnyEntry
          BY Entries
        <5>. QED
          BY <3>1, <3>2, <5>1, <5>2
      <4>. QED
        BY <2>3, <4>1, <4>2 DEF ServeWrite
    <3>. QED
      BY <2>3, <3>3 DEF ServeWrite, ThreadTypes
  <2>. QED
    BY <2>1, <2>2, <2>3 DEF Child
<1>4. request' \in [Threads -> Requests]
  <2>. DEFINE r == [request[t] EXCEPT !.stage = "served"]
  <2>1. request[t] \in Requests
    BY DEF ThreadTypes
  <2>2. r \in Requests
    BY <2>1 DEF Requests
  <2>3. request' = [request EXCEPT ![t] = r]
    BY <1>1 DEF Served
  <2>. QED
    BY <2>2, <2>3 DEF ThreadTypes
<1>5. \A u \in Threads : (request'[u].stage = "none" <=> pc'[u] = "idle") /\ Looks(u)'
  <2>1. request'[t].stage = "served"
    BY <1>1 DEF Served, ThreadTypes, Requests
  <2>2. \A u \in Threads \ {t} : request'[u] = request[u]
    BY <1>1 DEF Served, ThreadTypes
  <2>3. pc[t] # "idle"
    BY <1>1 DEF ThreadTypes
  <2>. QED
    BY <1>1, <2>1, <2>2, <2>3 DEF ThreadTypes, Looks
<1>. QED
  BY <1>1, <1>2, <1>3, <1>4, <1>5 DEF ThreadTypes, DiskTypes

LEMMA Appended ==
    ASSUME NEW S, NEW s \in Seq(S), NEW e \in S, NEW n, n = Len(s)
    PROVE  /\ n \in Nat /\ DOMAIN s = 1 .. n
           /\ Append(s, e) \in Seq(S) /\ Len(Append(s, e)) = n + 1
           /\ DOMAIN Append(s, e) = 1 .. n + 1 /\ Append(s, e)[n + 1] = e
           /\ \A k \in 1 .. n : Append(s, e)[k] = s[k]
  OBVIOUS

LEMMA Replaced ==
    ASSUME NEW S, NEW s \in Seq(S), NEW i \in DOMAIN s, NEW e \in S
    PROVE  /\ [s EXCEPT ![i] = e] \in Seq(S) /\ Len([s EXCEPT ![i] = e]) = Len(s)
           /\ DOMAIN [s EXCEPT ![i] = e] = DOMAIN s /\ [s EXCEPT ![i] = e][i] = e
           /\ \A j \in DOMAIN s : j # i => [s EXCEPT ![i] = e][j] = s[j]
  OBVIOUS

\* A descriptor has its place among n ones, and is one of n + 1.
LEMMA DescriptorRange ==
    ASSUME NEW n \in Nat, NEW d \in 3 .. n + 2
    PROVE  d - 2 \in 1 .. n /\ d \in 3 .. (n + 1) + 2
  OBVIOUS

\* A call begins; a file that is found gets the next descriptor.
LEMMA OpenedAgain ==
    ASSUME Types, NEW t \in Threads, NEW name, OpenCached(t, name)
    PROVE  /\ Types'
           /\ \E o \in 1 .. cached, fd \in Nat : files' = [files EXCEPT ![o].fd = fd]
<1>. USE DEF Types
<1>1. PICK n : n = Len(openFiles)
  OBVIOUS
<1>2. PICK p : p = CHOOSE u \in FoundIn(name) : \A v \in FoundIn(name) : u <= v
  OBVIOUS
<1>3. p \in FoundIn(name)
  <2>1. FoundIn(name) \in SUBSET Nat /\ FoundIn(name) # {}
    BY DEF OpenCached, FoundIn
  <2>2. \E u \in FoundIn(name) : \A v \in FoundIn(name) : u <= v
    BY <2>1, Least
  <2>. QED
    BY <1>2, <2>2
<1>4. /\ files' = [files EXCEPT ![p].fd = n + 3] /\ openFiles' = Append(openFiles, p)
      /\ names' = Append(names, <<n + 3, name>>)
      /\ UNCHANGED <<slots, cached, dirIndex, pc, call, request, got>>
  BY <1>1, <1>2 DEF OpenCached, OpenAs, NextFd, imageVars
<1>5. /\ n \in Nat /\ DOMAIN openFiles = 1 .. n /\ DOMAIN names = 1 .. n /\ Len(names) = n
      /\ Len(files) \in Nat /\ DOMAIN files = 1 .. Len(files) /\ cached \in 0 .. Len(files)
  BY <1>1 DEF HeapTypes
<1>6. p \in 1 .. cached /\ p \in DOMAIN files /\ files[p].name = name /\ p \in Nat
  BY <1>3, <1>5 DEF FoundIn
<1>7. files[p] \in Objects /\ name \in AllNames
  <2>1. files[p] \in Objects
    BY <1>6 DEF HeapTypes
  <2>. QED
    BY <1>6, <2>1 DEF Objects
<1>8. PICK f : f = [files[p] EXCEPT !.fd = n + 3] /\ f \in Objects /\ f.name = name /\ f.fd = n + 3
  <2>1. n + 3 \in Nat
    BY <1>5
  <2>2. \A d \in Objects, fd \in Nat : /\ [d EXCEPT !.fd = fd] \in Objects
                                     /\ [d EXCEPT !.fd = fd].name = d.name
                                     /\ [d EXCEPT !.fd = fd].fd = fd
    BY DEF Objects
  <2>3. /\ [files[p] EXCEPT !.fd = n + 3] \in Objects /\ [files[p] EXCEPT !.fd = n + 3].name = name
        /\ [files[p] EXCEPT !.fd = n + 3].fd = n + 3
    BY <1>6, <1>7, <2>1, <2>2, Zenon
  <2>. QED
    BY <2>3, Zenon
<1>9. files' = [files EXCEPT ![p] = f]
  BY <1>4, <1>8
<1>10. /\ files' \in Seq(Objects) /\ Len(files') = Len(files) /\ DOMAIN files' = DOMAIN files
       /\ files'[p] = f /\ \A u \in DOMAIN files : u # p => files'[u] = files[u]
  BY <1>6, <1>8, <1>9, Replaced DEF HeapTypes
<1>11. /\ openFiles' \in Seq(Nat) /\ Len(openFiles') = n + 1
       /\ DOMAIN openFiles' = 1 .. n + 1 /\ openFiles'[n + 1] = p
       /\ \A k \in 1 .. n : openFiles'[k] = openFiles[k]
  BY <1>1, <1>4, <1>6, Appended DEF HeapTypes
<1>12. /\ names' \in Seq(Nat \X AllNames) /\ Len(names') = n + 1
       /\ names'[n + 1] = <<n + 3, name>> /\ \A k \in 1 .. n : names'[k] = names[k]
  <2>1. <<n + 3, name>> \in Nat \X AllNames
    BY <1>5, <1>7
  <2>. QED
    BY <1>4, <1>5, <2>1, Appended DEF HeapTypes
<1>13. HeapTypes'
  <2>1. \A k \in 1 .. n : openFiles[k] \in DOMAIN files
    BY <1>5 DEF HeapTypes
  <2>2. \A k \in 1 .. n + 1 : k = n + 1 \/ k \in 1 .. n
    BY <1>5
  <2>3. \A k \in 1 .. n + 1 : openFiles'[k] \in DOMAIN files
    BY <1>6, <1>11, <2>1, <2>2
  <2>. QED
    BY <1>4, <1>5, <1>10, <1>11, <1>12, <2>3 DEF HeapTypes
<1>14. \A k \in 1 .. n : /\ openFiles[k] \in DOMAIN files
                         /\ names[k] = <<k + 2, files[openFiles[k]].name>>
                         /\ files[openFiles[k]].fd \in 3 .. n + 2
                         /\ openFiles[files[openFiles[k]].fd - 2] = openFiles[k]
  BY <1>1, <1>5 DEF Opened, HeapTypes
<1>15. ASSUME NEW k \in 1 .. n + 1
       PROVE  /\ names'[k] = <<k + 2, files'[openFiles'[k]].name>>
              /\ files'[openFiles'[k]].fd \in 3 .. (n + 1) + 2
              /\ openFiles'[files'[openFiles'[k]].fd - 2] = openFiles'[k]
  <2>0. n + 3 \in 3 .. (n + 1) + 2 /\ n + 3 - 2 = n + 1 /\ (n + 1) + 2 = n + 3
    BY <1>5
  <2>1. CASE k = n + 1
    <3>1. openFiles'[k] = p /\ names'[k] = <<n + 3, name>>
      BY <1>11, <1>12, <2>1
    <3>2. files'[openFiles'[k]].name = name /\ files'[openFiles'[k]].fd = n + 3
      BY <1>8, <1>10, <3>1
    <3>3. names'[k] = <<k + 2, name>>
      BY <2>0, <2>1, <3>1
    <3>. QED
      BY <1>11, <2>0, <3>1, <3>2, <3>3
  <2>2. CASE k \in 1 .. n /\ openFiles[k] = p
    <3>1. openFiles'[k] = p /\ names'[k] = <<k + 2, name>>
      BY <1>6, <1>11, <1>12, <1>14, <2>2
    <3>2. files'[openFiles'[k]].name = name /\ files'[openFiles'[k]].fd = n + 3
      BY <1>8, <1>10, <3>1
    <3>. QED
      BY <1>11, <2>0, <3>1, <3>2
  <2>3. CASE k \in 1 .. n /\ openFiles[k] # p
    <3>1. PICK q : q = openFiles[k]
      OBVIOUS
    <3>2. openFiles'[k] = q /\ files'[q] = files[q]
      BY <1>10, <1>11, <1>14, <2>3, <3>1
    <3>3. /\ names'[k] = <<k + 2, files[q].name>>
          /\ files[q].fd \in 3 .. n + 2 /\ openFiles[files[q].fd - 2] = q
      BY <1>12, <1>14, <2>3, <3>1
    <3>4. files[q].fd - 2 \in 1 .. n /\ files[q].fd \in 3 .. (n + 1) + 2
      BY <1>5, <3>3, DescriptorRange
    <3>. QED
      BY <1>11, <3>2, <3>3, <3>4
  <2>4. k = n + 1 \/ k \in 1 .. n
    BY <1>5
  <2>. QED
    BY <2>1, <2>2, <2>3, <2>4
<1>16. Opened'
  BY <1>11, <1>15 DEF Opened
<1>17. DiskTypes' /\ ThreadTypes'
  BY <1>4 DEF ThreadTypes, Looks, DiskTypes
<1>18. n + 3 \in Nat
  BY <1>5
<1>. QED
  BY <1>4, <1>6, <1>13, <1>16, <1>17, <1>18

\* The object of a new file comes behind the others, with the next descriptor.
LEMMA WrittenTypes ==
    ASSUME Types, NEW t \in Threads, SlotWritten(t)
    PROVE  Types' /\ \E f \in Objects : files' = Append(files, f) /\ f.name = call[t].name
<1>. USE DEF Types
<1>1. PICK n : n = Len(openFiles)
  OBVIOUS
<1>2. PICK p : p = Len(files) + 1
  OBVIOUS
<1>3. PICK f : f = [name |-> call[t].name, cluster |-> call[t].cluster, fd |-> n + 3]
  OBVIOUS
<1>4. /\ n \in Nat /\ DOMAIN openFiles = 1 .. n /\ DOMAIN names = 1 .. n /\ Len(names) = n
      /\ Len(files) \in Nat /\ DOMAIN files = 1 .. Len(files) /\ cached \in 0 .. Len(files)
  BY <1>1 DEF HeapTypes
<1>5. call[t].name \in AllNames /\ call[t].cluster \in Words
  BY DEF ThreadTypes, Calls
<1>6. f \in Objects /\ f.name = call[t].name /\ f.fd = n + 3
  BY <1>3, <1>4, <1>5 DEF Objects
<1>7. /\ files' = Append(files, f) /\ openFiles' = Append(openFiles, p)
      /\ names' = Append(names, <<n + 3, f.name>>)
      /\ UNCHANGED <<slots, cached, dirIndex>> /\ Return(t)
  BY <1>1, <1>2, <1>3, <1>6 DEF SlotWritten, OpenAs, NextFd, imageVars
<1>8. /\ files' \in Seq(Objects) /\ Len(files') = p /\ DOMAIN files' = 1 .. p
      /\ files'[p] = f /\ \A u \in DOMAIN files : files'[u] = files[u]
  BY <1>2, <1>4, <1>6, <1>7, Appended DEF HeapTypes
<1>9. p \in Nat
  BY <1>2, <1>4
<1>10. /\ openFiles' \in Seq(Nat) /\ Len(openFiles') = n + 1
       /\ DOMAIN openFiles' = 1 .. n + 1 /\ openFiles'[n + 1] = p
       /\ \A k \in 1 .. n : openFiles'[k] = openFiles[k]
  BY <1>1, <1>7, <1>9, Appended DEF HeapTypes
<1>11. /\ names' \in Seq(Nat \X AllNames) /\ Len(names') = n + 1
       /\ names'[n + 1] = <<n + 3, f.name>> /\ \A k \in 1 .. n : names'[k] = names[k]
  <2>1. <<n + 3, f.name>> \in Nat \X AllNames
    BY <1>4, <1>5, <1>6
  <2>2. names \in Seq(Nat \X AllNames) /\ Len(names) = n
    BY <1>4 DEF HeapTypes
  <2>. QED
    BY <1>7, <2>1, <2>2, Appended
<1>12. \A k \in 1 .. n : /\ openFiles[k] \in DOMAIN files
                         /\ names[k] = <<k + 2, files[openFiles[k]].name>>
                         /\ files[openFiles[k]].fd \in 3 .. n + 2
                         /\ openFiles[files[openFiles[k]].fd - 2] = openFiles[k]
  BY <1>1, <1>4 DEF Opened, HeapTypes
<1>13. \A k \in 1 .. n + 1 : k = n + 1 \/ k \in 1 .. n
  BY <1>4
<1>14. HeapTypes'
  <2>1. p \in 1 .. p /\ \A u \in DOMAIN files : u \in 1 .. p
    BY <1>2, <1>4
  <2>2. \A k \in 1 .. n + 1 : openFiles'[k] \in 1 .. p
    BY <1>10, <1>12, <1>13, <2>1
  <2>3. cached \in 0 .. p /\ dirIndex \in Nat \ {0}
    BY <1>2, <1>4 DEF HeapTypes
  <2>. QED
    BY <1>7, <1>8, <1>10, <1>11, <2>2, <2>3 DEF HeapTypes
<1>15. ASSUME NEW k \in 1 .. n + 1
       PROVE  /\ names'[k] = <<k + 2, files'[openFiles'[k]].name>>
              /\ files'[openFiles'[k]].fd \in 3 .. (n + 1) + 2
              /\ openFiles'[files'[openFiles'[k]].fd - 2] = openFiles'[k]
  <2>0. n + 3 \in 3 .. (n + 1) + 2 /\ n + 3 - 2 = n + 1 /\ (n + 1) + 2 = n + 3
    BY <1>4
  <2>1. CASE k = n + 1
    <3>1. openFiles'[k] = p /\ names'[k] = <<n + 3, f.name>>
      BY <1>10, <1>11, <2>1
    <3>2. files'[openFiles'[k]] = f /\ files'[openFiles'[k]].fd = n + 3
      BY <1>6, <1>8, <3>1
    <3>. QED
      BY <1>10, <2>0, <2>1, <3>1, <3>2
  <2>2. CASE k \in 1 .. n
    <3>1. PICK q : q = openFiles[k]
      OBVIOUS
    <3>2. openFiles'[k] = q /\ files'[q] = files[q]
      BY <1>8, <1>10, <1>12, <2>2, <3>1
    <3>3. /\ names'[k] = <<k + 2, files[q].name>>
          /\ files[q].fd \in 3 .. n + 2 /\ openFiles[files[q].fd - 2] = q
      BY <1>11, <1>12, <2>2, <3>1
    <3>4. files[q].fd - 2 \in 1 .. n /\ files[q].fd \in 3 .. (n + 1) + 2
      BY <1>4, <3>3, DescriptorRange
    <3>. QED
      BY <1>10, <3>2, <3>3, <3>4
  <2>. QED
    BY <1>13, <2>1, <2>2
<1>16. Opened'
  BY <1>10, <1>15 DEF Opened
<1>17. ThreadTypes' /\ DiskTypes'
  BY <1>7, Returning DEF DiskTypes
<1>. QED
  BY <1>6, <1>7, <1>14, <1>16, <1>17

\* What a call finds when it begins.
LEMMA BeginTypes ==
    ASSUME Types, NEW t \in Threads,
           \/ \E name \in NameSet : OpenNew(t, name)
           \/ VMFileReadWrite(t) \/ VMDirectoryOpen(t) \/ VMDirectoryRead(t)
    PROVE  Types'
<1>. USE DEF Types
<1>0. /\ {"fatSeek", "dataSeek", "dirSeek"} \subseteq Labels \ {"idle"}
      /\ Idle \in Calls /\ RootCnt \in Nat /\ 0 \in Words
      /\ HeapTypes' /\ Opened'
  <2>1. \A name : OpenNew(t, name) => Keep
    BY DEF OpenNew
  <2>2. VMFileReadWrite(t) \/ VMDirectoryRead(t) => Keep
    BY DEF VMFileReadWrite, VMFileMove, VMDirectoryRead
  <2>3. UNCHANGED <<files, cached, openFiles, names>> /\ dirIndex' \in Nat \ {0}
    BY <2>1, <2>2 DEF VMDirectoryOpen, Keep, heapVars, history, HeapTypes
  <2>4. HeapTypes' /\ Opened'
    BY <2>3, HeapStays
  <2>. QED
    BY <2>4, Fillers, RootSize DEF Labels, Words
<1>1. ASSUME NEW name \in NameSet, OpenNew(t, name)
      PROVE  Types'
  <2>1. PICK unread \in BOOLEAN :
            call' = [call EXCEPT ![t] = Creating(name, unread)]
    BY <1>1 DEF OpenNew
  <2>2. /\ UNCHANGED <<slots, got>> /\ Ask(t, "seek", Place("fat", 1), "fatSeek")
    BY <1>1 DEF OpenNew, Keep, imageVars
  <2>3. name \in AllNames
    <3>1. \A o \in 1 .. cached : o \in DOMAIN files /\ files[o].name \in AllNames
      <4>1. \A o \in 1 .. cached : o \in DOMAIN files
        BY DEF HeapTypes
      <4>2. \A o \in DOMAIN files : files[o] \in Objects
        BY DEF HeapTypes
      <4>. QED
        BY <4>1, <4>2 DEF Objects
    <3>. QED
      BY <1>1, <3>1 DEF NameSet, AllNames
  <2>4. Creating(name, unread) \in Calls
    BY <1>0, <2>3 DEF Creating, Idle, Calls
  <2>5. Place("fat", 1) \in Places
    BY DEF Place, Places
  <2>7. Notes(t, Creating(name, unread))
    BY <2>1 DEF Notes
  <2>8. ThreadTypes'
    BY <1>0, <2>2, <2>4, <2>5, <2>7, Asking
  <2>. QED
    BY <1>0, <2>2, <2>8 DEF DiskTypes
<1>2. CASE VMFileReadWrite(t)
  <2>1. PICK k \in DOMAIN names, n \in 1 .. MaxChunks, what \in {"read", "write"} :
            VMFileMove(t, names[k][1], n, what)
    BY <1>2 DEF VMFileReadWrite
  <2>2. PICK c : /\ c = files[Lookup(names[k][1])].cluster
                 /\ call' = [call EXCEPT ![t] = Moving(c, n, what)]
                 /\ Ask(t, "seek", Place("data", c), "dataSeek")
    BY <2>1 DEF VMFileMove, SeekFirst
  <2>3. UNCHANGED <<slots, got>>
    BY <2>1 DEF VMFileMove, Keep, imageVars
  <2>4. c \in Words
    <3>1. PICK j \in DOMAIN openFiles : Lookup(names[k][1]) = openFiles[j]
      BY <2>1, LookupFinds DEF VMFileMove
    <3>2. files[openFiles[j]] \in Objects
      BY <3>1 DEF HeapTypes
    <3>. QED
      BY <2>2, <3>1, <3>2 DEF Objects
  <2>5. Moving(c, n, what) \in Calls
    <3>1. NoName \in AllNames /\ n \in Int
      BY DEF AllNames
    <3>. QED
      BY <1>0, <2>4, <3>1 DEF Moving, Idle, Calls
  <2>6. Place("data", c) \in Places
    BY <2>4 DEF Place, Places, Words
  <2>7. Notes(t, Moving(c, n, what)) /\ Ask(t, "seek", Place("data", c), "dataSeek")
    BY <2>2 DEF Notes
  <2>8. ThreadTypes'
    BY <1>0, <2>3, <2>5, <2>6, <2>7, Asking
  <2>. QED
    BY <1>0, <2>3, <2>8 DEF DiskTypes
<1>3. CASE VMDirectoryOpen(t)
  BY <1>0, <1>3 DEF VMDirectoryOpen, imageVars, DiskTypes, ThreadTypes, Looks
<1>4. CASE VMDirectoryRead(t)
  <2>1. /\ UNCHANGED <<slots, got>> /\ Ask(t, "seek", Place("root", dirIndex), "dirSeek")
        /\ call' = [call EXCEPT ![t] = [Idle EXCEPT !.i = dirIndex]]
    BY <1>4 DEF VMDirectoryRead, Keep, imageVars
  <2>2. dirIndex \in Nat
    BY DEF HeapTypes
  <2>3. PICK c : c = [Idle EXCEPT !.i = dirIndex]
    OBVIOUS
  <2>4. /\ c \in Calls /\ Notes(t, c) /\ Place("root", dirIndex) \in Places
        /\ Ask(t, "seek", Place("root", dirIndex), "dirSeek") /\ UNCHANGED got
    BY <1>0, <2>1, <2>2, <2>3, NotedIndex DEF Notes, Place, Places
  <2>5. ThreadTypes'
    BY <1>0, <2>4, Asking
  <2>. QED
    BY <1>0, <2>1, <2>5 DEF DiskTypes
<1>. QED
  BY <1>1, <1>2, <1>3, <1>4

\* A call goes on: what it asks for next has a place, what it notes a type.
LEMMA CallTypes ==
    ASSUME Types, NEW t \in Threads,
           \/ FatSeek(t) \/ FatRead(t) \/ RootSeek(t) \/ RootRead(t) \/ SlotSeek(t)
           \/ DataSeek(t) \/ DataMoved(t)
    PROVE  Types' /\ UNCHANGED files
<1>. USE DEF Types
<1>0. /\ {"fatRead", "rootSeek", "rootRead", "slotSeek", "slotWrite", "dataMove"}
             \subseteq Labels \ {"idle"}
      /\ RootCnt \in Nat /\ RootCnt >= 1
      /\ \A i \in Int, region \in {"none", "fat", "root", "data"} : Place(region, i) \in Places
      /\ NoPlace \in Places /\ \A p \in Places : After(p) \in Places
  BY RootSize DEF Labels, Place, Places, NoPlace, After
<1>1. /\ call[t] \in Calls /\ call[t].i \in Nat
      /\ call[t].left \in Int /\ call[t].what \in {"none", "read", "write"}
      /\ request[t].at \in Places /\ Looks(t)
      /\ call \in [Threads -> Calls]
  <2>1. call[t] \in Calls /\ request[t] \in Requests
    BY DEF ThreadTypes
  <2>. QED
    BY <2>1 DEF ThreadTypes, Calls, Requests
<1>2. UNCHANGED <<slots, files>> /\ HeapTypes' /\ Opened'
  <2>1. UNCHANGED <<slots, heapVars, history>>
    BY DEF FatSeek, FatRead, RootSeek, RootRead, SlotSeek, DataSeek, DataMoved, Keep, imageVars
  <2>2. UNCHANGED <<files, cached, openFiles, names, dirIndex>>
    BY <2>1 DEF heapVars, history
  <2>. QED
    BY <2>1, <2>2, HeapStays DEF HeapTypes
<1>3. DiskTypes'
  BY <1>2 DEF DiskTypes
<1>4. UNCHANGED call => Notes(t, call[t])
  BY <1>1 DEF Notes
<1>6. CASE FatSeek(t)
  <2>1. /\ pc[t] = "fatSeek" /\ Ask(t, "read", Place("fat", 1), "fatRead")
        /\ UNCHANGED <<call, got>>
    BY <1>6 DEF FatSeek, At, Keep
  <2>2. ThreadTypes'
    BY <1>0, <1>1, <1>4, <2>1, Asking DEF Looks
  <2>. QED
    BY <1>2, <1>3, <2>2
<1>7. CASE FatRead(t)
  <2>. DEFINE i == call[t].i
  <2>1. pc[t] = "fatRead" /\ UNCHANGED got
    BY <1>7 DEF FatRead, At, Keep
  <2>2. ASSUME NEW w \in Words, call' = [call EXCEPT ![t].cluster = w, ![t].i = 1],
               Ask(t, "seek", Place("root", 1), "rootSeek")
        PROVE  ThreadTypes'
    <3>0. PICK b : b = [call[t] EXCEPT !.cluster = w]
      OBVIOUS
    <3>1. PICK c : c = [b EXCEPT !.i = 1]
      OBVIOUS
    <3>2. c \in Calls /\ c.i = 1
      BY <1>1, <3>0, <3>1, NotedCluster, NotedIndex
    <3>3. Notes(t, c)
      BY <1>1, <2>2, <3>0, <3>1 DEF Notes
    <3>4. "rootSeek" \in Labels \ {"idle"} /\ Place("root", 1) \in Places
      BY <1>0, <1>1
    <3>. QED
      BY <2>1, <2>2, <3>2, <3>3, <3>4, Asking
  <2>3. ASSUME call' = [call EXCEPT ![t].i = i + 1], Ask(t, "read", Place("fat", i + 1), "fatRead")
        PROVE  ThreadTypes'
    <3>1. PICK c : c = [call[t] EXCEPT !.i = i + 1]
      OBVIOUS
    <3>2. c \in Calls
      BY <1>1, <3>1, NotedIndex
    <3>3. Notes(t, c)
      BY <1>1, <2>3, <3>1 DEF Notes
    <3>4. "fatRead" \in Labels \ {"idle"} /\ Place("fat", i + 1) \in Places
      BY <1>0, <1>1
    <3>. QED
      BY <2>1, <2>3, <3>2, <3>3, <3>4, Asking
  <2>4. FatOffset(i) \in Words /\ 65535 \in Words
    BY <1>1 DEF FatOffset, Words
  <2>5. \/ /\ \E w \in Words : call' = [call EXCEPT ![t].cluster = w, ![t].i = 1]
           /\ Ask(t, "seek", Place("root", 1), "rootSeek")
        \/ /\ call' = [call EXCEPT ![t].i = i + 1]
           /\ Ask(t, "read", Place("fat", i + 1), "fatRead")
    BY <1>7, <2>4 DEF FatRead
  <2>6. ThreadTypes'
    BY <2>2, <2>3, <2>5
  <2>. QED
    BY <1>2, <1>3, <2>6
<1>8. CASE RootSeek(t)
  <2>1. /\ pc[t] = "rootSeek" /\ Ask(t, "read", Place("root", 1), "rootRead")
        /\ UNCHANGED <<call, got>>
    BY <1>8 DEF RootSeek, At, Keep
  <2>2. call[t].i \in 1 .. RootCnt
    BY <1>0, <1>1, <2>1 DEF Looks
  <2>3. ThreadTypes'
    BY <1>0, <1>1, <1>4, <2>1, <2>2, Asking DEF Looks
  <2>. QED
    BY <1>2, <1>3, <2>3
<1>9. CASE RootRead(t)
  <2>. DEFINE i == call[t].i
  <2>1. pc[t] = "rootRead" /\ UNCHANGED got /\ i \in 1 .. RootCnt
    BY <1>1, <1>9 DEF RootRead, At, Keep, Looks
  <2>2. ASSUME call' = [call EXCEPT ![t].slot = i], Ask(t, "seek", Place("root", i), "slotSeek")
        PROVE  ThreadTypes'
    <3>1. PICK c : c = [call[t] EXCEPT !.slot = i]
      OBVIOUS
    <3>2. i \in {NoSlot} \cup 0 .. RootCnt
      BY <1>0, <2>1
    <3>3. c \in Calls
      BY <1>1, <3>1, <3>2, NotedSlot
    <3>4. Notes(t, c)
      BY <1>1, <2>2, <3>1 DEF Notes
    <3>5. /\ "slotSeek" \in Labels \ {"idle"} /\ Place("root", i) \in Places
          /\ Ask(t, "seek", Place("root", i), "slotSeek")
      BY <1>0, <1>1, <2>2
    <3>. QED
      BY <2>1, <3>3, <3>4, <3>5, Asking
  <2>3. ASSUME call' = [call EXCEPT ![t].i = i + 1], i < RootCnt,
               Ask(t, "read", Place("root", i + 1), "rootRead")
        PROVE  ThreadTypes'
    <3>1. PICK c : c = [call[t] EXCEPT !.i = i + 1]
      OBVIOUS
    <3>2. c \in Calls /\ c.i = i + 1
      BY <1>1, <3>1, NotedIndex
    <3>3. Notes(t, c)
      BY <1>1, <2>3, <3>1 DEF Notes
    <3>4. /\ "rootRead" \in Labels \ {"idle"} /\ Place("root", i + 1) \in Places
          /\ Ask(t, "read", Place("root", i + 1), "rootRead")
      BY <1>0, <1>1, <2>1, <2>3 DEF Looks
    <3>5. c.i \in 1 .. RootCnt
      BY <1>0, <2>1, <2>3, <3>2
    <3>. QED
      BY <2>1, <3>2, <3>3, <3>4, <3>5, Asking
  <2>4. ASSUME call' = [call EXCEPT ![t].slot = NoSlot], Ask(t, "seek", NoPlace, "slotSeek")
        PROVE  ThreadTypes'
    <3>1. PICK c : c = [call[t] EXCEPT !.slot = NoSlot]
      OBVIOUS
    <3>2. c \in Calls
      BY <1>1, <3>1, NotedSlot
    <3>3. Notes(t, c)
      BY <1>1, <2>4, <3>1 DEF Notes
    <3>4. /\ "slotSeek" \in Labels \ {"idle"} /\ NoPlace \in Places
          /\ Ask(t, "seek", NoPlace, "slotSeek")
      BY <1>0, <2>4
    <3>. QED
      BY <2>1, <3>2, <3>3, <3>4, Asking
  <2>5. ThreadTypes'
    BY <1>9, <2>2, <2>3, <2>4 DEF RootRead, SlotFound
  <2>. QED
    BY <1>2, <1>3, <2>5
<1>10. CASE SlotSeek(t)
  <2>1. UNCHANGED <<call, got>>
    BY <1>10 DEF SlotSeek, Keep
  <2>2. PICK p \in Places : Ask(t, "write", p, "slotWrite")
    BY <1>0, <1>1, <1>10 DEF SlotSeek
  <2>3. ThreadTypes'
    BY <1>0, <1>1, <1>4, <2>1, <2>2, Asking
  <2>. QED
    BY <1>2, <1>3, <2>3
<1>11. CASE DataSeek(t)
  <2>1. UNCHANGED <<call, got>> /\ Ask(t, call[t].what, request[t].at, "dataMove")
    BY <1>11 DEF DataSeek, Keep
  <2>2. ThreadTypes'
    BY <1>0, <1>1, <1>4, <2>1, Asking
  <2>. QED
    BY <1>2, <1>3, <2>2
<1>12. CASE DataMoved(t)
  <2>1. CASE Return(t)
    BY <1>2, <1>3, <2>1, Returning
  <2>2. CASE /\ call' = [call EXCEPT ![t].left = @ - 1] /\ Keep
             /\ Ask(t, call[t].what, After(request[t].at), "dataMove")
    <3>1. PICK c : c = [call[t] EXCEPT !.left = call[t].left - 1]
      OBVIOUS
    <3>2. c \in Calls
      BY <1>1, <3>1, NotedLeft
    <3>3. Notes(t, c) /\ UNCHANGED got
      BY <1>1, <2>2, <3>1 DEF Keep, Notes
    <3>4. "dataMove" \in Labels \ {"idle"} /\ After(request[t].at) \in Places
          /\ call[t].what \in {"none", "seek", "read", "write"}
      BY <1>0, <1>1
    <3>5. ThreadTypes'
      BY <2>2, <3>2, <3>3, <3>4, Asking
    <3>. QED
      BY <1>2, <1>3, <3>5
  <2>. QED
    BY <1>12, <2>1, <2>2 DEF DataMoved
<1>. QED
  BY <1>6, <1>7, <1>8, <1>9, <1>10, <1>11, <1>12

LEMMA ListingTypes ==
    ASSUME Types, NEW t \in Threads, DirSeek(t) \/ DirRead(t)
    PROVE  Types' /\ UNCHANGED files
<1>. USE DEF Types
<1>0. /\ {"dirRead", "dirSkip", "dirLong"} \subseteq Labels \ {"idle"}
      /\ \A i \in Int : Place("root", i) \in Places
  BY DEF Labels, Place, Places
<1>1. /\ call[t] \in Calls /\ call[t].i \in Nat /\ call \in [Threads -> Calls]
  <2>1. call[t] \in Calls
    BY DEF ThreadTypes
  <2>. QED
    BY <2>1 DEF ThreadTypes, Calls
<1>2. UNCHANGED <<slots, files>> /\ HeapTypes' /\ Opened'
  <2>1. UNCHANGED <<slots, files, cached, openFiles, names>>
    BY DEF DirSeek, DirRead, Keep, imageVars, heapVars, history
  <2>2. dirIndex' \in Nat \ {0}
    <3>1. dirIndex \in Nat \ {0}
      BY DEF HeapTypes
    <3>2. dirIndex' \in {dirIndex, dirIndex + 1, dirIndex + 2}
      BY DEF DirSeek, DirRead, Show, LongSteps, Keep, heapVars
    <3>. QED
      BY <3>1, <3>2
  <2>. QED
    BY <2>1, <2>2, HeapStays
<1>3. DiskTypes'
  BY <1>2 DEF DiskTypes
<1>4. CASE DirSeek(t)
  <2>1. /\ Ask(t, "read", Place("root", call[t].i), "dirRead") /\ UNCHANGED got
        /\ Notes(t, call[t])
    BY <1>1, <1>4 DEF DirSeek, Keep, Notes
  <2>2. "dirRead" \in Labels \ {"idle"} /\ Place("root", call[t].i) \in Places
    BY <1>0, <1>1
  <2>3. ThreadTypes'
    BY <1>1, <2>1, <2>2, Asking
  <2>. QED
    BY <1>2, <1>3, <2>3
<1>5. CASE DirRead(t)
  <2>1. CASE Return(t)
    BY <1>2, <1>3, <2>1, Returning
  <2>2. ASSUME NEW label \in {"dirSkip", "dirLong"}, ReadNext(t, label), UNCHANGED got
        PROVE  ThreadTypes'
    <3>1. PICK c : c = [call[t] EXCEPT !.i = call[t].i + 1]
      OBVIOUS
    <3>2. c \in Calls
      BY <1>1, <3>1, NotedIndex
    <3>3. Notes(t, c) /\ Ask(t, "read", Place("root", call[t].i + 1), label)
      BY <1>1, <2>2, <3>1 DEF ReadNext, Notes
    <3>4. label \in Labels \ {"idle"} /\ Place("root", call[t].i + 1) \in Places
      BY <1>0, <1>1
    <3>5. label \notin {"fatSeek", "fatRead", "rootSeek", "rootRead"}
      OBVIOUS
    <3>. QED
      BY <2>2, <3>2, <3>3, <3>4, <3>5, Asking
  <2>3. CASE ~Return(t)
    <3>1. \E label \in {"dirSkip", "dirLong"} : ReadNext(t, label) /\ UNCHANGED got
      BY <1>5, <2>3 DEF DirRead, Show
    <3>2. ThreadTypes'
      BY <2>2, <3>1
    <3>. QED
      BY <1>2, <1>3, <3>2
  <2>. QED
    BY <2>1, <2>3
<1>. QED
  BY <1>4, <1>5

-----------------------------------------------------------------------------
LEMMA TypesInductive ==
    ASSUME Types, [FATNext]_fatVars
    PROVE  Types'
<1>1. CASE Restart
  BY <1>1, Starting
<1>2. ASSUME NEW t \in Threads,
             \/ Child(t) \/ VMFileOpen(t) \/ OpenStep(t)
             \/ VMFileReadWrite(t) \/ DataSeek(t) \/ DataMoved(t)
             \/ VMDirectoryOpen(t) \/ VMDirectoryRead(t) \/ DirSeek(t) \/ DirRead(t)
      PROVE  Types'
  <2>1. CASE Child(t)
    BY <2>1, ChildTypes
  <2>2. CASE VMFileOpen(t)
    <3>1. PICK name \in NameSet : OpenCached(t, name) \/ OpenNew(t, name)
      BY <2>2 DEF VMFileOpen
    <3>2. CASE OpenCached(t, name)
      BY <3>2, OpenedAgain
    <3>3. CASE OpenNew(t, name)
      BY <3>3, BeginTypes
    <3>. QED
      BY <3>1, <3>2, <3>3
  <2>3. CASE SlotWritten(t)
    BY <2>3, WrittenTypes
  <2>4. CASE VMFileReadWrite(t) \/ VMDirectoryOpen(t) \/ VMDirectoryRead(t)
    BY <2>4, BeginTypes
  <2>5. CASE \/ FatSeek(t) \/ FatRead(t) \/ RootSeek(t) \/ RootRead(t) \/ SlotSeek(t)
             \/ DataSeek(t) \/ DataMoved(t)
    BY <2>5, CallTypes
  <2>6. CASE DirSeek(t) \/ DirRead(t)
    BY <2>6, ListingTypes
  <2>. QED
    BY <1>2, <2>1, <2>2, <2>3, <2>4, <2>5, <2>6 DEF OpenStep
<1>3. CASE UNCHANGED fatVars
  BY <1>3 DEF fatVars, imageVars, heapVars, history, Types, DiskTypes, HeapTypes, ThreadTypes,
     Looks, Opened
<1>. QED
  BY <1>1, <1>2, <1>3 DEF FATNext

\* A descriptor leads to the file it was opened for, or nowhere once that file was
\* opened again, whichever threads open files and in whatever order
\* (VirtualMachine.cpp:557-599, 607-608): the object found under a number is the one
\* that was opened with it.
THEOREM DescriptorsKeepTheirFiles == FATSpec => []DescriptorNames
<1>1. ASSUME Types PROVE DescriptorNames
  <2>. SUFFICES ASSUME NEW k \in DOMAIN names, Lookup(names[k][1]) # 0
                PROVE  files[Lookup(names[k][1])].name = names[k][2]
    BY DEF DescriptorNames
  <2>1. /\ k \in DOMAIN openFiles /\ k \in Nat
        /\ names[k] = <<k + 2, files[openFiles[k]].name>>
    BY <1>1 DEF Types, HeapTypes, Opened
  <2>2. PICK j \in DOMAIN openFiles : /\ Lookup(names[k][1]) = openFiles[j]
                                      /\ files[openFiles[j]].fd = names[k][1]
    BY <1>1, LookupFinds DEF Types
  <2>3. openFiles[files[openFiles[j]].fd - 2] = openFiles[j]
    BY <1>1 DEF Types, Opened
  <2>4. names[k][1] = k + 2 /\ names[k][2] = files[openFiles[k]].name /\ (k + 2) - 2 = k
    BY <2>1
  <2>. QED
    BY <2>2, <2>3, <2>4
<1>. QED
  BY <1>1, Starting, TypesInductive, PTL DEF FATSpec

\* The types of the variables, for any number of threads: names and clusters that are
\* read are among those on the image, objects and descriptors point at something, and
\* a slot that is noted is one of the directory or none (VirtualMachine.cpp:326-337,
\* 512-532, 557-599).
THEOREM FATTypeCorrect == FATSpec => []FATTypeOK
<1>1. ASSUME Types PROVE FATTypeOK
  <2>. USE <1>1 DEF Types
  <2>1. slots \in [1 .. RootCnt -> AnyEntry]
    BY DEF DiskTypes
  <2>2. \A o \in DOMAIN files : files[o].name \in AllNames /\ files[o].cluster \in Words
    <3>1. \A o \in DOMAIN files : files[o] \in Objects
      BY DEF HeapTypes
    <3>. QED
      BY <3>1 DEF Objects
  <2>3. cached \in 0 .. Len(files) /\ dirIndex \in Nat \ {0} /\ Len(names) = Len(openFiles)
    BY DEF HeapTypes
  <2>4. openFiles \in Seq(DOMAIN files)
    <3>1. PICK n \in Nat : n = Len(openFiles)
      BY DEF HeapTypes
    <3>2. PICK S : S = DOMAIN files
      OBVIOUS
    <3>3. PICK s : s = openFiles
      OBVIOUS
    <3>4. s \in [1 .. n -> S]
      BY <3>1, <3>2, <3>3 DEF HeapTypes
    <3>5. s \in Seq(S)
      BY <3>1, <3>4
    <3>. QED
      BY <3>2, <3>3, <3>5
  <2>5. ASSUME NEW t \in Threads
        PROVE  /\ request[t].stage = "none" <=> pc[t] = "idle"
               /\ got[t] \in AnyEntry /\ call[t].slot \in {NoSlot} \cup 0 .. RootCnt
    <3>1. got[t] \in AnyEntry /\ call[t] \in Calls
      BY DEF ThreadTypes
    <3>. QED
      BY <3>1 DEF ThreadTypes, Calls
  <2>6. pc \in [Threads -> Labels]
    BY DEF ThreadTypes
  <2>. QED
    BY <2>1, <2>2, <2>3, <2>4, <2>5, <2>6 DEF FATTypeOK
<1>. QED
  BY <1>1, Starting, TypesInductive, PTL DEF FATSpec

-----------------------------------------------------------------------------
(* One thread: the offset of the image.                                    *)

\* The functions have the thread and the records their fields.
Shape(t) ==
    /\ DOMAIN slots = 1 .. RootCnt
    /\ t \in DOMAIN pc /\ t \in DOMAIN call /\ t \in DOMAIN request /\ t \in DOMAIN got
    /\ DOMAIN call[t] = {"name", "unread", "i", "cluster", "slot", "left", "what"}
    /\ DOMAIN request[t] = {"stage", "what", "at"}

Asks(t, what, at) ==
    /\ request[t].stage \in {"asked", "served"}
    /\ request[t].what = what /\ request[t].at = at

\* Where the entry of a new file is to go: nowhere, when no slot is free.
SlotPlace(t) == IF call[t].slot = NoSlot THEN NoPlace ELSE Place("root", call[t].slot)

\* What each label waits for, and where.  A transfer only moves on from the first
\* sector of its file.
Course(t) ==
    /\ pc[t] \in Labels
    /\ pc[t] = "idle" => request[t].stage = "none"
    /\ pc[t] = "fatSeek" => Asks(t, "seek", Place("fat", 1)) /\ call[t].i = 1
    /\ pc[t] = "fatRead" => Asks(t, "read", Place("fat", call[t].i))
    /\ pc[t] = "rootSeek" => Asks(t, "seek", Place("root", 1)) /\ call[t].i = 1
    /\ pc[t] = "rootRead" => Asks(t, "read", Place("root", call[t].i)) /\ call[t].i \in 1 .. RootCnt
    /\ pc[t] = "slotSeek" => Asks(t, "seek", SlotPlace(t))
    /\ pc[t] = "slotWrite" => Asks(t, "write", SlotPlace(t))
    /\ pc[t] \in {"slotSeek", "slotWrite"} => call[t].slot \in {NoSlot} \cup 1 .. RootCnt
    /\ pc[t] = "dataSeek" => Asks(t, "seek", request[t].at)
    /\ pc[t] = "dataMove" => Asks(t, call[t].what, request[t].at)
    /\ pc[t] \in {"dataSeek", "dataMove"} =>
           \E n \in Nat : /\ request[t].at = Place("data", n) /\ call[t].cluster <= n
                          /\ call[t].cluster \in Nat /\ call[t].what \in {"read", "write"}
    /\ pc[t] = "dirSeek" => Asks(t, "seek", Place("root", call[t].i))
    /\ pc[t] \in {"dirRead", "dirSkip", "dirLong"} => Asks(t, "read", Place("root", call[t].i))

\* Where a seek leaves the offset: when it is refused, where the search for a free
\* slot has ended.
Spot(p) == IF p = NoPlace THEN Place("root", RootCnt + 1) ELSE p

\* Where the offset is.
Stands(t) ==
    LET r == request[t] IN
    /\ r.stage = "asked" /\ (r.what # "seek" \/ r.at = NoPlace) => offset = Spot(r.at)
    /\ r.stage = "served" /\ r.what = "seek" => offset = Spot(r.at)
    /\ r.stage = "served" /\ r.what # "seek" => offset = After(Spot(r.at))

\* What was read of the directory is what is there, and the slot that was found stays
\* free until it is written.
Creates(t) ==
    /\ pc[t] = "rootRead" /\ request[t].stage = "served" => got[t] = slots[call[t].i]
    /\ pc[t] = "slotSeek" \/ (pc[t] = "slotWrite" /\ request[t].stage = "asked") =>
           call[t].slot = NoSlot \/ ~Live(slots[call[t].slot])

FATInv(t) == Shape(t) /\ Course(t) /\ Stands(t) /\ Creates(t)

Regions == {"fat", "root", "data"}

LEMMA Spots ==
    ASSUME NEW region \in Regions, NEW n
    PROVE  /\ Spot(Place(region, n)) = Place(region, n) /\ Place(region, n) # NoPlace
           /\ After(Place(region, n)) = Place(region, n + 1)
           /\ Place(region, n)[1] = region /\ Place(region, n)[2] = n
  BY DEF Regions, Spot, Place, NoPlace, After

\* The machine starts with every thread idle.
LEMMA FATInitially ==
    ASSUME NEW t, Threads = {t}
    PROVE  /\ FATInit => FATInv(t)
           /\ Shape(t) /\ Restart => FATInv(t)'
<1>1. ASSUME FATInit PROVE FATInv(t)
  <2>1. DOMAIN slots = 1 .. RootCnt
    BY <1>1, Image DEF FATInit
  <2>2. pc[t] = "idle" /\ call[t] = Idle /\ request[t] = NoRequest
    BY <1>1 DEF FATInit
  <2>3. Shape(t)
    BY <1>1, <2>1, <2>2 DEF FATInit, Shape, Idle, NoRequest
  <2>4. request[t].stage = "none"
    BY <2>2 DEF NoRequest
  <2>. QED
    BY <2>2, <2>3, <2>4 DEF FATInv, Course, Stands, Creates, Labels
<1>2. ASSUME Shape(t), Restart PROVE FATInv(t)'
  <2>2. pc'[t] = "idle" /\ call'[t] = Idle /\ request'[t] = NoRequest
    BY <1>2 DEF Restart
  <2>3. Shape(t)'
    BY <1>2, <2>2 DEF Restart, Shape, Idle, NoRequest
  <2>4. request'[t].stage = "none"
    BY <2>2 DEF NoRequest
  <2>. QED
    BY <2>2, <2>3, <2>4 DEF FATInv, Course, Stands, Creates, Labels
<1>. QED
  BY <1>1, <1>2

-----------------------------------------------------------------------------
\* What Ask and Served do to the request of a thread.
LEMMA AskedFor ==
    ASSUME NEW t, Shape(t), NEW what, NEW at, NEW label, Ask(t, what, at, label)
    PROVE  /\ request'[t].stage = "asked" /\ request'[t].what = what /\ request'[t].at = at
           /\ pc'[t] = label
           /\ t \in DOMAIN pc' /\ t \in DOMAIN request'
           /\ DOMAIN request'[t] = {"stage", "what", "at"}
  BY DEF Shape, Ask

LEMMA ServedIt ==
    ASSUME NEW t, Shape(t), Served(t)
    PROVE  /\ request'[t].stage = "served"
           /\ request'[t].what = request[t].what /\ request'[t].at = request[t].at
           /\ t \in DOMAIN request' /\ DOMAIN request'[t] = {"stage", "what", "at"}
  BY DEF Shape, Served


\* The child moves the offset to the place of a seek, and past that of a transfer; it
\* writes an entry into a free slot or behind the directory, and data where the file is.
LEMMA ChildKeeps ==
    ASSUME NEW t, t \in Threads, Types, FATInv(t), Child(t)
    PROVE  /\ FATInv(t)'
           /\ \A i \in DOMAIN slots :
                 Live(slots[i]) => slots'[i] = slots[i] \/ (pc[t] = "dataMove" /\ call[t].cluster < 2)
           /\ \/ UNCHANGED <<slots, atOpen>>
              \/ /\ pc[t] \in {"slotWrite", "dataMove"}
                 /\ \A i \in DOMAIN slots : Live(slots[i]) /\ i \in atOpen' => slots'[i] = slots[i]
                 /\ atOpen' \subseteq atOpen
<1>. USE DEF FATInv
<1>1. /\ request[t].stage = "asked" /\ Served(t)
      /\ UNCHANGED <<heapVars, pc, call, names, listed>>
  BY DEF Child, ServeSeek, ServeRead, ServeWrite, Asked, history
<1>2. /\ request'[t].stage = "served"
      /\ request'[t].what = request[t].what /\ request'[t].at = request[t].at
      /\ t \in DOMAIN request' /\ DOMAIN request'[t] = {"stage", "what", "at"}
  BY <1>1, ServedIt
<1>3. Course(t)'
  BY <1>1, <1>2 DEF Course, Asks, SlotPlace
<1>4. CASE ServeSeek(t)
  <2>1. request[t].what = "seek" /\ UNCHANGED <<slots, got, atOpen>>
    BY <1>4 DEF ServeSeek, Asked, history
  <2>2. offset' = Spot(request[t].at)
    <3>1. CASE request[t].at = NoPlace
      BY <1>1, <1>4, <3>1 DEF ServeSeek, Stands
    <3>2. CASE request[t].at # NoPlace
      BY <1>4, <3>2 DEF ServeSeek, Spot
    <3>. QED
      BY <3>1, <3>2
  <2>3. Shape(t)'
    BY <1>1, <1>2, <2>1 DEF Shape
  <2>4. Stands(t)'
    BY <1>2, <2>1, <2>2 DEF Stands
  <2>5. Creates(t)'
    <3>1. pc[t] # "rootRead" /\ pc[t] # "slotWrite"
      BY <2>1 DEF Course, Asks
    <3>. QED
      BY <1>1, <2>1, <3>1 DEF Creates
  <2>. QED
    BY <1>3, <2>1, <2>3, <2>4, <2>5
<1>5. CASE ServeRead(t)
  <2>1. /\ request[t].what = "read" /\ UNCHANGED <<slots, atOpen>> /\ offset' = After(offset)
        /\ offset = Spot(request[t].at)
    BY <1>5 DEF ServeRead, Asked, Stands, history
  <2>2. t \in DOMAIN got' /\ got'[t] \in Contents(offset)
    BY <1>5 DEF ServeRead, Shape
  <2>3. Shape(t)'
    BY <1>1, <1>2, <2>1, <2>2 DEF Shape
  <2>4. Stands(t)'
    BY <1>2, <2>1 DEF Stands
  <2>5. pc[t] = "rootRead" => got'[t] = slots[call[t].i]
    <3>. SUFFICES ASSUME pc[t] = "rootRead" PROVE got'[t] = slots[call[t].i]
      OBVIOUS
    <3>1. offset = Place("root", call[t].i) /\ call[t].i \in DOMAIN slots
      BY <2>1, Spots DEF Course, Asks, Regions, Shape
    <3>. QED
      BY <2>2, <3>1 DEF Contents, Place
  <2>6. Creates(t)'
    <3>1. pc[t] # "slotWrite"
      BY <2>1 DEF Course, Asks
    <3>. QED
      BY <1>1, <2>1, <2>5, <3>1 DEF Creates
  <2>. QED
    BY <1>3, <2>1, <2>3, <2>4, <2>6
<1>6. CASE ServeWrite(t)
  <2>1. /\ request[t].what = "write" /\ UNCHANGED got /\ offset' = After(offset)
        /\ offset = Spot(request[t].at)
    BY <1>6 DEF ServeWrite, Asked, Stands
  <2>2. pc[t] \in {"slotWrite", "dataMove"} /\ DOMAIN slots' = DOMAIN slots
    BY <1>6 DEF ServeWrite, WriteEntry, WriteData, Overwrite
  <2>3. Shape(t)'
    BY <1>1, <1>2, <2>1, <2>2 DEF Shape
  <2>4. Stands(t)'
    BY <1>2, <2>1 DEF Stands
  <2>5. Creates(t)'
    BY <1>1, <1>2, <2>2 DEF Creates
  <2>6. CASE WriteEntry(t)
    <3>1. /\ pc[t] = "slotWrite" /\ UNCHANGED atOpen
          /\ \A i \in DOMAIN slots : i \notin Covered(offset, 1) => slots'[i] = slots[i]
      BY <2>6 DEF WriteEntry, Overwrite
    <3>2. \A i \in Covered(offset, 1) : ~Live(slots[i])
      <4>1. CASE call[t].slot = NoSlot
        <5>1. offset = Place("root", RootCnt + 1)
          BY <2>1, <3>1, <4>1 DEF Course, Asks, SlotPlace, Spot
        <5>2. offset[1] = "root" /\ offset[2] = RootCnt + 1
          BY <5>1, Spots DEF Regions
        <5>3. DOMAIN slots = 1 .. RootCnt
          BY DEF Shape
        <5>. QED
          BY <5>2, <5>3, RootSize DEF Covered
      <4>2. CASE call[t].slot # NoSlot
        <5>1. offset = Place("root", call[t].slot) /\ call[t].slot \in 1 .. RootCnt
          BY <2>1, <3>1, <4>2, Spots DEF Course, Asks, SlotPlace, Regions
        <5>2. offset[1] = "root" /\ offset[2] = call[t].slot
          BY <5>1, Spots DEF Regions
        <5>3. DOMAIN slots = 1 .. RootCnt /\ ~Live(slots[call[t].slot])
          BY <1>1, <3>1, <4>2 DEF Shape, Creates
        <5>4. \A i \in Covered(offset, 1) : i = call[t].slot
          BY <5>1, <5>2, <5>3, RootSize DEF Covered
        <5>. QED
          BY <5>3, <5>4
      <4>. QED
        BY <4>1, <4>2
    <3>. QED
      BY <1>3, <2>3, <2>4, <2>5, <3>1, <3>2
  <2>7. CASE WriteData(t)
    <3>1. PICK n \in 1 .. SlotsPerSector :
              /\ \A i \in DOMAIN slots : i \notin Covered(offset, n) => slots'[i] = slots[i]
              /\ atOpen' = atOpen \ Covered(offset, n) /\ pc[t] = "dataMove"
      BY <2>7 DEF WriteData, Overwrite
    <3>2. \A i \in DOMAIN slots : i \in Covered(offset, n) => call[t].cluster < 2
      <4>1. PICK m \in Nat : /\ request[t].at = Place("data", m) /\ call[t].cluster <= m
                             /\ call[t].cluster \in Nat
        BY <3>1 DEF Course
      <4>2. offset[1] = "data" /\ offset[2] = m
        BY <2>1, <4>1, Spots DEF Regions
      <4>3. \A k \in Nat : k >= 2 => (k - 2) * SlotsPerSector >= 0
        BY RootSize, SMT
      <4>4. ASSUME NEW i \in Covered(offset, n), m >= 2 PROVE FALSE
        <5>1. i \in 1 .. RootCnt /\ RootCnt + (m - 2) * SlotsPerSector + 1 <= i
          BY <4>2, <4>4 DEF Covered, Shape
        <5>2. PICK d : d = (m - 2) * SlotsPerSector
          OBVIOUS
        <5>3. d \in Int /\ d >= 0
          BY <4>3, <4>4, <5>2, RootSize
        <5>. QED
          BY <5>1, <5>2, <5>3, RootSize
      <4>. QED
        BY <4>1, <4>4
    <3>. QED
      BY <1>3, <2>3, <2>4, <2>5, <3>1, <3>2
  <2>. QED
    BY <1>6, <2>6, <2>7 DEF ServeWrite
<1>. QED
  BY <1>4, <1>5, <1>6 DEF Child

-----------------------------------------------------------------------------
Fields == {"name", "unread", "i", "cluster", "slot", "left", "what"}

\* A thread may ask for a seek at any time, and for a transfer where the offset is.
LEMMA NextRequest ==
    ASSUME NEW t, Shape(t), NEW what, NEW at, NEW label, Ask(t, what, at, label),
           UNCHANGED <<slots, offset, got>>, t \in DOMAIN call', DOMAIN call'[t] = Fields,
           what # "seek" \/ at = NoPlace => offset = Spot(at)
    PROVE  /\ Shape(t)' /\ Stands(t)'
           /\ request'[t].stage = "asked" /\ request'[t].what = what /\ request'[t].at = at
           /\ pc'[t] = label
<1>1. /\ request'[t].stage = "asked" /\ request'[t].what = what /\ request'[t].at = at
      /\ pc'[t] = label /\ t \in DOMAIN pc' /\ t \in DOMAIN request'
      /\ DOMAIN request'[t] = {"stage", "what", "at"}
  BY AskedFor
<1>2. Shape(t)'
  BY <1>1 DEF Shape, Fields
<1>3. Stands(t)'
  BY <1>1 DEF Stands
<1>. QED
  BY <1>1, <1>2, <1>3

LEMMA NextPlace ==
    ASSUME NEW t, Shape(t), NEW what, NEW region \in Regions, NEW n, NEW label,
           Ask(t, what, Place(region, n), label),
           UNCHANGED <<slots, offset, got>>, t \in DOMAIN call', DOMAIN call'[t] = Fields,
           what # "seek" => offset = Place(region, n)
    PROVE  /\ Shape(t)' /\ Stands(t)' /\ pc'[t] = label
           /\ request'[t].stage = "asked" /\ request'[t].what = what
           /\ request'[t].at = Place(region, n)
<1>1. Spot(Place(region, n)) = Place(region, n) /\ Place(region, n) # NoPlace
  BY Spots
<1>. QED
  BY <1>1, NextRequest

\* After a request that was served the offset is at the place, or one record further.
LEMMA Stood ==
    ASSUME NEW t, FATInv(t), NEW region \in Regions, NEW n, request[t].at = Place(region, n),
           request[t].stage = "served"
    PROVE  /\ request[t].what = "seek" => offset = Place(region, n)
           /\ request[t].what # "seek" => offset = Place(region, n + 1)
  BY Spots DEF FATInv, Stands

\* A call that returns leaves an idle thread.
LEMMA Returned ==
    ASSUME NEW t, Shape(t), Return(t), UNCHANGED slots
    PROVE  FATInv(t)'
<1>1. pc'[t] = "idle" /\ call'[t] = Idle /\ request'[t] = NoRequest
  BY DEF Return, Shape
<1>2. Shape(t)'
  BY <1>1 DEF Return, Shape, Idle, NoRequest
<1>3. request'[t].stage = "none"
  BY <1>1 DEF NoRequest
<1>. QED
  BY <1>1, <1>2, <1>3 DEF FATInv, Course, Stands, Creates, Labels

\* A call begins.
LEMMA BeginKeeps ==
    ASSUME NEW t, t \in Threads, Types, FATInv(t),
           \/ VMFileOpen(t) \/ VMFileReadWrite(t)
           \/ VMDirectoryOpen(t) \/ VMDirectoryRead(t)
    PROVE  FATInv(t)'
<1>. USE DEF FATInv
<1>1. ASSUME NEW name, OpenCached(t, name)
      PROVE  FATInv(t)'
  <2>1. UNCHANGED <<slots, offset, pc, call, request, got>>
    BY <1>1 DEF OpenCached, imageVars
  <2>. QED
    BY <2>1 DEF Shape, Course, Stands, Creates, Asks, SlotPlace
<1>2. ASSUME NEW name, OpenNew(t, name)
      PROVE  FATInv(t)'
  <2>1. /\ UNCHANGED <<slots, offset, got>> /\ Ask(t, "seek", Place("fat", 1), "fatSeek")
    BY <1>2 DEF OpenNew, Keep, imageVars
  <2>2. t \in DOMAIN call' /\ DOMAIN call'[t] = Fields /\ call'[t].i = 1
    BY <1>2 DEF OpenNew, Creating, Shape, Idle, Fields
  <2>3. /\ Shape(t)' /\ Stands(t)' /\ pc'[t] = "fatSeek"
        /\ request'[t].stage = "asked" /\ request'[t].what = "seek"
        /\ request'[t].at = Place("fat", 1)
    BY <2>1, <2>2, NextPlace DEF Regions
  <2>4. Course(t)'
    BY <2>2, <2>3 DEF Course, Asks, Labels
  <2>6. Creates(t)'
    BY <2>3 DEF Creates
  <2>. QED
    BY <2>3, <2>4, <2>6
<1>3. CASE VMFileReadWrite(t)
  <2>1. PICK k \in DOMAIN names, n \in 1 .. MaxChunks, what \in {"read", "write"} :
            VMFileMove(t, names[k][1], n, what)
    BY <1>3 DEF VMFileReadWrite
  <2>2. PICK c \in Nat : /\ call' = [call EXCEPT ![t] = Moving(c, n, what)]
                        /\ Ask(t, "seek", Place("data", c), "dataSeek")
    <3>1. PICK j \in DOMAIN openFiles : Lookup(names[k][1]) = openFiles[j]
      BY <2>1, LookupFinds DEF VMFileMove, Types
    <3>2. files[openFiles[j]] \in Objects
      BY <3>1 DEF Types, HeapTypes
    <3>3. files[Lookup(names[k][1])].cluster \in Nat
      BY <3>1, <3>2 DEF Objects, Words
    <3>. QED
      BY <2>1, <3>3 DEF VMFileMove, SeekFirst
  <2>3. UNCHANGED <<slots, offset, got>>
    BY <2>1 DEF VMFileMove, Keep, imageVars
  <2>4. t \in DOMAIN call' /\ DOMAIN call'[t] = Fields /\ call'[t].what = what
        /\ call'[t].cluster = c
    BY <2>2 DEF Moving, Shape, Idle, Fields
  <2>5. /\ Shape(t)' /\ Stands(t)' /\ pc'[t] = "dataSeek"
        /\ request'[t].stage = "asked" /\ request'[t].what = "seek"
        /\ request'[t].at = Place("data", c)
    BY <2>2, <2>3, <2>4, NextPlace DEF Regions
  <2>6. Course(t)'
    <3>1. \E m \in Nat : /\ request'[t].at = Place("data", m) /\ call'[t].cluster <= m
                         /\ call'[t].cluster \in Nat /\ call'[t].what \in {"read", "write"}
      BY <2>4, <2>5
    <3>. QED
      BY <2>5, <3>1 DEF Course, Asks, Labels
  <2>. QED
    BY <2>5, <2>6 DEF Creates
<1>4. CASE VMDirectoryOpen(t)
  <2>1. UNCHANGED <<slots, offset, pc, call, request, got>>
    BY <1>4 DEF VMDirectoryOpen, imageVars
  <2>. QED
    BY <2>1 DEF Shape, Course, Stands, Creates, Asks, SlotPlace
<1>5. CASE VMDirectoryRead(t)
  <2>1. UNCHANGED <<slots, offset, got>> /\ Ask(t, "seek", Place("root", dirIndex), "dirSeek")
    BY <1>5 DEF VMDirectoryRead, Keep, imageVars
  <2>2. t \in DOMAIN call' /\ DOMAIN call'[t] = Fields /\ call'[t].i = dirIndex
    BY <1>5 DEF VMDirectoryRead, Shape, Idle, Fields
  <2>3. /\ Shape(t)' /\ Stands(t)' /\ pc'[t] = "dirSeek"
        /\ request'[t].stage = "asked" /\ request'[t].what = "seek"
        /\ request'[t].at = Place("root", dirIndex)
    BY <2>1, <2>2, NextPlace DEF Regions
  <2>4. Course(t)'
    BY <2>2, <2>3 DEF Course, Asks, Labels
  <2>. QED
    BY <2>3, <2>4 DEF Creates
<1>. QED
  BY <1>1, <1>2, <1>3, <1>4, <1>5 DEF VMFileOpen

\* Creating a file: the directory is read up to a slot that is free, or to its end.
LEMMA OpenStepKeeps ==
    ASSUME NEW t, t \in Threads, Types, FATInv(t), OpenStep(t)
    PROVE  FATInv(t)'
<1>. USE DEF FATInv
<1>0. /\ t \in DOMAIN call /\ DOMAIN call[t] = Fields /\ DOMAIN slots = 1 .. RootCnt
      /\ RootCnt \in Nat /\ RootCnt >= 1
  BY RootSize DEF Shape, Fields
<1>1. CASE FatSeek(t)
  <2>1. /\ pc[t] = "fatSeek" /\ request[t].stage = "served" /\ UNCHANGED <<slots, offset, got, call>>
        /\ Ask(t, "read", Place("fat", 1), "fatRead") /\ request[t].at = Place("fat", 1)
        /\ request[t].what = "seek" /\ call[t].i = 1
    BY <1>1 DEF FatSeek, Keep, imageVars, At, Course, Asks
  <2>2. offset = Place("fat", 1)
    BY <2>1, Stood DEF Regions
  <2>3. /\ Shape(t)' /\ Stands(t)' /\ pc'[t] = "fatRead"
        /\ request'[t].stage = "asked" /\ request'[t].what = "read"
        /\ request'[t].at = Place("fat", 1)
    BY <1>0, <2>1, <2>2, NextPlace DEF Regions
  <2>4. Course(t)'
    BY <2>1, <2>3 DEF Course, Asks, Labels
  <2>. QED
    BY <2>3, <2>4 DEF Creates
<1>2. CASE FatRead(t)
  <2>. DEFINE i == call[t].i
  <2>1. /\ pc[t] = "fatRead" /\ request[t].stage = "served" /\ UNCHANGED <<slots, offset, got>>
        /\ request[t].what = "read" /\ request[t].at = Place("fat", i)
    BY <1>2 DEF FatRead, Keep, imageVars, At, Course, Asks
  <2>2. offset = Place("fat", i + 1)
    BY <2>1, Stood DEF Regions
  <2>3. ASSUME NEW w \in Words, call' = [call EXCEPT ![t].cluster = w, ![t].i = 1],
               Ask(t, "seek", Place("root", 1), "rootSeek")
        PROVE  FATInv(t)'
    <3>1. t \in DOMAIN call' /\ DOMAIN call'[t] = Fields /\ call'[t].i = 1
      BY <1>0, <2>3 DEF Fields
    <3>2. /\ Shape(t)' /\ Stands(t)' /\ pc'[t] = "rootSeek"
          /\ request'[t].stage = "asked" /\ request'[t].what = "seek"
          /\ request'[t].at = Place("root", 1)
      BY <2>1, <2>3, <3>1, NextPlace DEF Regions
    <3>3. Course(t)'
      BY <3>1, <3>2 DEF Course, Asks, Labels
    <3>. QED
      BY <3>2, <3>3 DEF Creates
  <2>4. CASE /\ call' = [call EXCEPT ![t].i = i + 1]
             /\ Ask(t, "read", Place("fat", i + 1), "fatRead")
    <3>0. PICK j : j = i + 1
      OBVIOUS
    <3>1. t \in DOMAIN call' /\ DOMAIN call'[t] = Fields /\ call'[t].i = j
      BY <1>0, <2>4, <3>0 DEF Fields
    <3>2. /\ Shape(t)' /\ Stands(t)' /\ pc'[t] = "fatRead"
          /\ request'[t].stage = "asked" /\ request'[t].what = "read"
          /\ request'[t].at = Place("fat", j)
      <4>1. "fat" \in Regions /\ UNCHANGED <<slots, offset, got>>
        BY <2>1 DEF Regions
      <4>2. offset = Place("fat", j) /\ Ask(t, "read", Place("fat", j), "fatRead")
        BY <2>2, <2>4, <3>0
      <4>. QED
        BY <3>1, <4>1, <4>2, NextPlace
    <3>3. Course(t)'
      BY <3>1, <3>2 DEF Course, Asks, Labels
    <3>. QED
      BY <3>2, <3>3 DEF Creates
  <2>5. FatOffset(i) \in Words /\ 65535 \in Words
    <3>1. i \in Nat
      BY DEF Types, ThreadTypes, Calls
    <3>. QED
      BY <3>1 DEF FatOffset, Words
  <2>6. \/ /\ \E w \in Words : call' = [call EXCEPT ![t].cluster = w, ![t].i = 1]
           /\ Ask(t, "seek", Place("root", 1), "rootSeek")
        \/ /\ call' = [call EXCEPT ![t].i = i + 1]
           /\ Ask(t, "read", Place("fat", i + 1), "fatRead")
    BY <1>2, <2>5 DEF FatRead
  <2>. QED
    BY <2>3, <2>4, <2>6
<1>3. CASE RootSeek(t)
  <2>1. /\ pc[t] = "rootSeek" /\ request[t].stage = "served" /\ UNCHANGED <<slots, offset, got, call>>
        /\ Ask(t, "read", Place("root", 1), "rootRead") /\ request[t].at = Place("root", 1)
        /\ request[t].what = "seek" /\ call[t].i = 1
    BY <1>3 DEF RootSeek, Keep, imageVars, At, Course, Asks
  <2>2. offset = Place("root", 1)
    BY <2>1, Stood DEF Regions
  <2>3. /\ Shape(t)' /\ Stands(t)' /\ pc'[t] = "rootRead"
        /\ request'[t].stage = "asked" /\ request'[t].what = "read"
        /\ request'[t].at = Place("root", 1)
    BY <1>0, <2>1, <2>2, NextPlace DEF Regions
  <2>4. Course(t)'
    BY <1>0, <2>1, <2>3 DEF Course, Asks, Labels
  <2>. QED
    BY <2>3, <2>4 DEF Creates
<1>4. CASE RootRead(t)
  <2>. DEFINE i == call[t].i
  <2>1. /\ pc[t] = "rootRead" /\ request[t].stage = "served" /\ UNCHANGED <<slots, offset, got>>
        /\ i \in 1 .. RootCnt /\ got[t] = slots[i]
        /\ request[t].what = "read" /\ request[t].at = Place("root", i)
    BY <1>4 DEF RootRead, Keep, imageVars, At, Course, Asks, Creates
  <2>2. offset = Place("root", i + 1)
    BY <2>1, Stood DEF Regions
  <2>3. CASE /\ ~Live(got[t]) /\ call' = [call EXCEPT ![t].slot = i]
             /\ Ask(t, "seek", Place("root", i), "slotSeek")
    <3>1. /\ t \in DOMAIN call' /\ DOMAIN call'[t] = Fields /\ call'[t].slot = i
          /\ i # NoSlot
      BY <1>0, <2>1, <2>3 DEF Fields, NoSlot
    <3>2. /\ Shape(t)' /\ Stands(t)' /\ pc'[t] = "slotSeek"
          /\ request'[t].stage = "asked" /\ request'[t].what = "seek"
          /\ request'[t].at = Place("root", i)
      BY <2>1, <2>3, <3>1, NextPlace DEF Regions
    <3>3. Course(t)'
      BY <2>1, <3>1, <3>2 DEF Course, Asks, Labels, SlotPlace
    <3>4. Creates(t)'
      BY <2>1, <2>3, <3>1, <3>2 DEF Creates
    <3>. QED
      BY <3>2, <3>3, <3>4
  <2>4. CASE /\ Live(got[t]) /\ i < RootCnt
             /\ call' = [call EXCEPT ![t].i = i + 1]
             /\ Ask(t, "read", Place("root", i + 1), "rootRead")
    <3>1. t \in DOMAIN call' /\ DOMAIN call'[t] = Fields /\ call'[t].i = i + 1
      BY <1>0, <2>4 DEF Fields
    <3>2. /\ Shape(t)' /\ Stands(t)' /\ pc'[t] = "rootRead"
          /\ request'[t].stage = "asked" /\ request'[t].what = "read"
          /\ request'[t].at = Place("root", i + 1)
      BY <2>1, <2>2, <2>4, <3>1, NextPlace DEF Regions
    <3>3. i + 1 \in 1 .. RootCnt
      BY <1>0, <2>1, <2>4
    <3>4. Course(t)'
      BY <3>1, <3>2, <3>3 DEF Course, Asks, Labels
    <3>. QED
      BY <3>2, <3>4 DEF Creates
  <2>5. CASE /\ Live(got[t]) /\ i = RootCnt
             /\ call' = [call EXCEPT ![t].slot = NoSlot]
             /\ Ask(t, "seek", NoPlace, "slotSeek")
    <3>1. t \in DOMAIN call' /\ DOMAIN call'[t] = Fields /\ call'[t].slot = NoSlot
      BY <1>0, <2>5 DEF Fields
    <3>2. offset = Spot(NoPlace)
      BY <2>2, <2>5 DEF Spot
    <3>3. /\ Shape(t)' /\ Stands(t)' /\ pc'[t] = "slotSeek"
          /\ request'[t].stage = "asked" /\ request'[t].what = "seek"
          /\ request'[t].at = NoPlace
      BY <2>1, <2>5, <3>1, <3>2, NextRequest
    <3>4. Course(t)'
      BY <3>1, <3>3 DEF Course, Asks, Labels, SlotPlace
    <3>5. Creates(t)'
      BY <3>1, <3>3 DEF Creates
    <3>. QED
      BY <3>3, <3>4, <3>5
  <2>. QED
    BY <1>4, <2>3, <2>4, <2>5 DEF RootRead, SlotFound
<1>5. CASE SlotSeek(t)
  <2>1. /\ pc[t] = "slotSeek" /\ request[t].stage = "served" /\ UNCHANGED <<slots, offset, got, call>>
        /\ Ask(t, "write", request[t].at, "slotWrite") /\ request[t].at = SlotPlace(t)
        /\ request[t].what = "seek" /\ call[t].slot \in {NoSlot} \cup 1 .. RootCnt
    BY <1>5 DEF SlotSeek, Keep, imageVars, At, Course, Asks
  <2>2. offset = Spot(request[t].at)
    BY <2>1 DEF Stands
  <2>3. /\ Shape(t)' /\ Stands(t)' /\ pc'[t] = "slotWrite"
        /\ request'[t].stage = "asked" /\ request'[t].what = "write"
        /\ request'[t].at = SlotPlace(t)
    BY <1>0, <2>1, <2>2, NextRequest
  <2>4. Course(t)'
    BY <2>1, <2>3 DEF Course, Asks, Labels, SlotPlace
  <2>. QED
    BY <2>1, <2>3, <2>4 DEF Creates
<1>6. CASE SlotWritten(t)
  BY <1>6, Returned DEF SlotWritten, imageVars
<1>. QED
  BY <1>1, <1>2, <1>3, <1>4, <1>5, <1>6 DEF OpenStep

\* A transfer of several sectors goes from one to the next.
LEMMA TransferKeeps ==
    ASSUME NEW t, t \in Threads, Types, FATInv(t), DataSeek(t) \/ DataMoved(t)
    PROVE  FATInv(t)'
<1>. USE DEF FATInv
<1>. DEFINE what == call[t].what
            c == call[t].cluster
<1>1. /\ request[t].stage = "served" /\ pc[t] \in {"dataSeek", "dataMove"}
      /\ pc[t] = "dataSeek" => request[t].what = "seek"
      /\ pc[t] = "dataMove" => request[t].what = what
      /\ UNCHANGED <<slots, offset>>
      /\ t \in DOMAIN call /\ DOMAIN call[t] = Fields
  BY DEF DataSeek, DataMoved, Keep, imageVars, At, Course, Asks, Shape, Fields
<1>2. PICK m \in Nat : request[t].at = Place("data", m) /\ c <= m /\ c \in Nat
                       /\ what \in {"read", "write"}
  BY <1>1 DEF Course
<1>3. ASSUME NEW k \in Nat, c <= k, offset = Place("data", k),
             Ask(t, what, Place("data", k), "dataMove"), UNCHANGED got,
             t \in DOMAIN call', DOMAIN call'[t] = Fields, call'[t].what = what, call'[t].cluster = c
      PROVE  FATInv(t)'
  <2>0. UNCHANGED <<slots, offset, got>> /\ "data" \in Regions
    BY <1>1, <1>3 DEF Regions
  <2>. HIDE DEF what
  <2>1. /\ Shape(t)' /\ Stands(t)' /\ pc'[t] = "dataMove"
        /\ request'[t].stage = "asked" /\ request'[t].what = what
        /\ request'[t].at = Place("data", k)
    BY <1>3, <2>0, NextPlace
  <2>. USE DEF what
  <2>2. \E n \in Nat : /\ request'[t].at = Place("data", n) /\ call'[t].cluster <= n
                       /\ call'[t].cluster \in Nat /\ call'[t].what \in {"read", "write"}
    BY <1>2, <1>3, <2>1
  <2>3. Course(t)'
    BY <1>3, <2>1, <2>2 DEF Course, Asks, Labels
  <2>. QED
    BY <2>1, <2>3 DEF Creates
<1>4. CASE DataSeek(t)
  <2>1. /\ pc[t] = "dataSeek" /\ Ask(t, what, request[t].at, "dataMove") /\ UNCHANGED <<call, got>>
    BY <1>4 DEF DataSeek, Keep, At
  <2>2. offset = Place("data", m)
    BY <1>1, <1>2, <2>1, Stood DEF Regions
  <2>. QED
    BY <1>1, <1>2, <1>3, <2>1, <2>2
<1>5. CASE DataMoved(t)
  <2>1. CASE /\ call' = [call EXCEPT ![t].left = @ - 1]
             /\ Ask(t, what, After(request[t].at), "dataMove") /\ Keep
    <3>1. pc[t] = "dataMove" /\ After(request[t].at) = Place("data", m + 1) /\ UNCHANGED got
      BY <1>2, <1>5, <2>1, Spots DEF DataMoved, At, Regions, Keep
    <3>2. offset = Place("data", m + 1)
      BY <1>1, <1>2, <3>1, Stood DEF Regions
    <3>3. /\ t \in DOMAIN call' /\ DOMAIN call'[t] = Fields /\ call'[t].what = what
          /\ call'[t].cluster = c
      BY <1>1, <2>1 DEF Fields
    <3>4. m + 1 \in Nat /\ c <= m + 1
      BY <1>2
    <3>. QED
      BY <1>3, <2>1, <3>1, <3>2, <3>3, <3>4
  <2>2. CASE Return(t)
    BY <1>1, <2>2, Returned
  <2>. QED
    BY <1>5, <2>1, <2>2 DEF DataMoved
<1>. QED
  BY <1>4, <1>5

\* A listing reads slot after slot.
LEMMA DirectoryKeeps ==
    ASSUME NEW t, t \in Threads, Types, FATInv(t), DirSeek(t) \/ DirRead(t)
    PROVE  FATInv(t)'
<1>. USE DEF FATInv
<1>. DEFINE i == call[t].i
<1>0. t \in DOMAIN call /\ DOMAIN call[t] = Fields
  BY DEF Shape, Fields
<1>1. ASSUME NEW n, NEW label \in {"dirRead", "dirSkip", "dirLong"}, offset = Place("root", n),
             Ask(t, "read", Place("root", n), label), UNCHANGED <<slots, offset, got>>,
             t \in DOMAIN call', DOMAIN call'[t] = Fields, call'[t].i = n
      PROVE  FATInv(t)'
  <2>1. /\ Shape(t)' /\ Stands(t)' /\ pc'[t] = label
        /\ request'[t].stage = "asked" /\ request'[t].what = "read"
        /\ request'[t].at = Place("root", n)
    BY <1>1, NextPlace DEF Regions
  <2>2. Course(t)'
    BY <1>1, <2>1 DEF Course, Asks, Labels
  <2>. QED
    BY <2>1, <2>2 DEF Creates
<1>2. CASE DirSeek(t)
  <2>1. /\ Ask(t, "read", Place("root", i), "dirRead") /\ UNCHANGED <<slots, offset, got, call>>
        /\ request[t].at = Place("root", i) /\ request[t].stage = "served"
        /\ request[t].what = "seek"
    BY <1>2 DEF DirSeek, Keep, imageVars, At, Course, Asks
  <2>2. offset = Place("root", i)
    BY <2>1, Stood DEF Regions
  <2>. QED
    BY <1>0, <1>1, <2>1, <2>2
<1>3. CASE DirRead(t)
  <2>1. UNCHANGED <<slots, offset>>
    BY <1>3 DEF DirRead, imageVars
  <2>2. ASSUME NEW label \in {"dirSkip", "dirLong"}, ReadNext(t, label), UNCHANGED got,
               At(t, "dirRead") \/ At(t, "dirSkip")
        PROVE  FATInv(t)'
    <3>1. /\ request[t].at = Place("root", i) /\ request[t].stage = "served"
          /\ request[t].what = "read"
      BY <2>2 DEF At, Course, Asks
    <3>2. offset = Place("root", i + 1)
      BY <3>1, Stood DEF Regions
    <3>3. t \in DOMAIN call' /\ DOMAIN call'[t] = Fields /\ call'[t].i = i + 1
      BY <1>0, <2>2 DEF ReadNext, Fields
    <3>4. Ask(t, "read", Place("root", i + 1), label)
      BY <2>2 DEF ReadNext
    <3>. QED
      BY <1>1, <2>1, <2>2, <3>2, <3>3, <3>4
  <2>3. CASE Return(t)
    BY <2>1, <2>3, Returned
  <2>4. CASE /\ \E label \in {"dirSkip", "dirLong"} : ReadNext(t, label)
             /\ UNCHANGED got
             /\ At(t, "dirRead") \/ At(t, "dirSkip")
    BY <2>2, <2>4
  <2>. QED
    BY <1>3, <2>3, <2>4 DEF DirRead, Show
<1>. QED
  BY <1>2, <1>3

-----------------------------------------------------------------------------
\* What is not served by the child leaves the directory alone.
LEMMA ChildWrites ==
    ASSUME NEW t, \/ VMFileOpen(t) \/ OpenStep(t)
                  \/ VMFileReadWrite(t) \/ DataSeek(t) \/ DataMoved(t)
                  \/ VMDirectoryOpen(t) \/ VMDirectoryRead(t) \/ DirSeek(t) \/ DirRead(t)
    PROVE  UNCHANGED slots
<1>1. ASSUME NEW name, OpenCached(t, name) \/ OpenNew(t, name) PROVE UNCHANGED slots
  BY <1>1 DEF OpenCached, OpenNew, Keep, imageVars
<1>2. OpenStep(t) => UNCHANGED slots
  BY DEF OpenStep, FatSeek, FatRead, RootSeek, RootRead, SlotSeek, SlotWritten, Keep, imageVars
<1>3. VMFileReadWrite(t) \/ DataSeek(t) \/ DataMoved(t) => UNCHANGED slots
  BY DEF VMFileReadWrite, VMFileMove, DataSeek, DataMoved, Keep, imageVars
<1>4. VMDirectoryOpen(t) \/ VMDirectoryRead(t) \/ DirSeek(t) \/ DirRead(t) => UNCHANGED slots
  BY DEF VMDirectoryOpen, VMDirectoryRead, DirSeek, DirRead, Keep, imageVars
<1>. QED
  BY <1>1, <1>2, <1>3, <1>4 DEF VMFileOpen

Spares(t) ==
    \A i \in DOMAIN slots :
        Live(slots[i]) => slots'[i] = slots[i] \/ (pc[t] = "dataMove" /\ call[t].cluster < 2)

\* Every step keeps the invariant, and spares the entries.
LEMMA FATInductive ==
    ASSUME NEW t, Threads = {t}, Types, FATInv(t), [FATNext]_fatVars
    PROVE  FATInv(t)' /\ Spares(t)
<1>0. t \in Threads
  OBVIOUS
<1>1. CASE Restart
  BY <1>1, FATInitially DEF FATInv, Restart, Spares
<1>2. CASE Child(t)
  BY <1>0, <1>2, ChildKeeps DEF Spares
<1>3. CASE \/ VMFileOpen(t) \/ VMFileReadWrite(t)
           \/ VMDirectoryOpen(t) \/ VMDirectoryRead(t)
  BY <1>0, <1>3, BeginKeeps, ChildWrites DEF Spares
<1>4. CASE OpenStep(t)
  BY <1>0, <1>4, OpenStepKeeps, ChildWrites DEF Spares
<1>5. CASE DataSeek(t) \/ DataMoved(t)
  BY <1>0, <1>5, TransferKeeps, ChildWrites DEF Spares
<1>6. CASE DirSeek(t) \/ DirRead(t)
  BY <1>0, <1>6, DirectoryKeeps, ChildWrites DEF Spares
<1>7. CASE UNCHANGED fatVars
  <2>1. UNCHANGED <<slots, offset, pc, call, request, got>>
    BY <1>7 DEF fatVars, imageVars
  <2>. QED
    BY <2>1 DEF FATInv, Shape, Course, Stands, Creates, Asks, SlotPlace, Spares
<1>. QED
  BY <1>1, <1>2, <1>3, <1>4, <1>5, <1>6, <1>7 DEF FATNext

Alone(t) == Types /\ FATInv(t)

LEMMA AloneHolds ==
    ASSUME NEW t, Threads = {t}
    PROVE  /\ FATInit => Alone(t)
           /\ Alone(t) /\ [FATNext]_fatVars => Alone(t)'
  BY FATInitially, FATInductive, Starting, TypesInductive DEF Alone

\* One thread transfers what it asks for where it asks for it: the shared offset of the
\* image (VirtualMachine.cpp:606-659) stands there when the child serves the transfer,
\* in every call and for every directory and table.  In a full directory the entry of a
\* new file goes right behind it, where the search for a slot has ended (lines 337,
\* 579-581), into the first sector of data and never into a slot.
THEOREM TransfersInPlace ==
    ASSUME NEW t, Threads = {t}
    PROVE  FATSpec => []AtOwnPlace
<1>1. Alone(t) => AtOwnPlace
  BY DEF Alone, FATInv, AtOwnPlace, Asked, Stands, Spot
<1>. QED
  BY <1>1, AloneHolds, PTL DEF FATSpec

\* One thread overwrites an entry of the root directory only with the data of a file of
\* cluster 0 or 1, whose sectors VMFileWrite (VirtualMachine.cpp:632) computes to lie in
\* the directory: never with the entry of a new file, for which a free slot or none was
\* found (lines 326-337, 579-581), and never with data of another cluster.
THEOREM EntriesAreSpared ==
    ASSUME NEW t, Threads = {t}
    PROVE  FATSpec => EntriesSpared
<1>1. Alone(t) /\ [FATNext]_fatVars => [Sparing]_fatVars
  BY FATInductive DEF Alone, Spares, Sparing
<1>. QED
  BY <1>1, AloneHolds, PTL DEF FATSpec, EntriesSpared

-----------------------------------------------------------------------------
(* One thread: the listings.                                               *)

\* The slots before the cursor have been listed, in order, or need not be; what is to
\* be listed is still there.
Walked ==
    /\ listed \in Seq(Nat) /\ \A k \in DOMAIN listed : listed[k] < dirIndex
    /\ \A j, k \in DOMAIN listed : j < k => listed[j] < listed[k]
    /\ atOpen \subseteq ShownSlots(slots)
    /\ \A i \in atOpen : i < dirIndex => \E k \in DOMAIN listed : listed[k] = i

Reading == {"dirSeek", "dirRead", "dirSkip", "dirLong"}

\* A call reads the slot at the cursor, and after a long name the next one.
Cursor(t) ==
    /\ pc[t] \in {"dirSeek", "dirRead", "dirSkip"} => call[t].i = dirIndex
    /\ pc[t] = "dirLong" => call[t].i = dirIndex + 1 /\ dirIndex \notin atOpen
    /\ pc[t] \in {"dirRead", "dirSkip"} /\ request[t].stage = "served" /\ dirIndex \in atOpen =>
           Shown(got[t])

\* A slot is shown: it is the next of those that are to be.
LEMMA ShownNext ==
    ASSUME Walked, DOMAIN slots \subseteq Nat, NEW i \in Nat, dirIndex \in Nat,
           i \in {dirIndex, dirIndex + 1},
           i = dirIndex + 1 => dirIndex \notin atOpen,
           listed' = Append(listed, i), dirIndex' = i + 1, UNCHANGED <<slots, atOpen>>
    PROVE  Walked'
<1>1. PICK n : n = Len(listed)
  OBVIOUS
<1>2. /\ n \in Nat /\ DOMAIN listed = 1 .. n /\ listed' \in Seq(Nat)
      /\ DOMAIN listed' = 1 .. n + 1 /\ listed'[n + 1] = i
      /\ \A k \in 1 .. n : listed'[k] = listed[k]
  BY <1>1, Appended DEF Walked
<1>3. /\ \A k \in 1 .. n + 1 : k \in 1 .. n \/ k = n + 1
      /\ \A k \in 1 .. n : k \in 1 .. n + 1 /\ k < n + 1
  BY <1>2
<1>4. ASSUME NEW k \in 1 .. n PROVE listed[k] \in Nat /\ listed[k] < i
  <2>1. PICK m : m = listed[k]
    OBVIOUS
  <2>2. m \in Nat /\ m < dirIndex
    BY <1>2, <2>1 DEF Walked
  <2>3. m < i
    BY <2>2
  <2>. QED
    BY <2>1, <2>2, <2>3
<1>5. ASSUME NEW k \in 1 .. n + 1 PROVE listed'[k] < dirIndex'
  <2>1. CASE k = n + 1
    BY <1>2, <2>1
  <2>2. CASE k \in 1 .. n
    BY <1>2, <1>4, <2>2
  <2>. QED
    BY <1>3, <2>1, <2>2
<1>6. ASSUME NEW j \in 1 .. n + 1, NEW k \in 1 .. n + 1, j < k
      PROVE  listed'[j] < listed'[k]
  <2>1. j \in 1 .. n
    BY <1>2, <1>3, <1>6
  <2>2. CASE k = n + 1
    BY <1>2, <1>4, <2>1, <2>2
  <2>3. CASE k \in 1 .. n
    BY <1>2, <1>6, <2>1, <2>3 DEF Walked
  <2>. QED
    BY <1>3, <2>2, <2>3
<1>7. ASSUME NEW m \in atOpen, m < i + 1
      PROVE  \E k \in 1 .. n + 1 : listed'[k] = m
  <2>1. CASE m = i
    BY <1>2, <2>1
  <2>2. CASE m # i
    <3>1. m \in Nat /\ m # dirIndex
      <4>1. m \in DOMAIN slots /\ DOMAIN slots \subseteq Nat
        BY DEF Walked, ShownSlots
      <4>. QED
        BY <2>2, <4>1
    <3>2. m < dirIndex
      BY <1>7, <2>2, <3>1
    <3>3. PICK k \in 1 .. n : listed[k] = m
      BY <1>2, <3>2 DEF Walked
    <3>. QED
      BY <1>2, <1>3, <3>3
  <2>. QED
    BY <2>1, <2>2
<1>8. atOpen' \subseteq ShownSlots(slots)'
  BY DEF Walked
<1>. QED
  BY <1>2, <1>5, <1>6, <1>7, <1>8 DEF Walked

\* A slot is passed over that need not be shown.
LEMMA PassedOver ==
    ASSUME Walked, dirIndex \in Nat, DOMAIN slots \subseteq Nat, dirIndex \notin atOpen,
           dirIndex' = dirIndex + 1, UNCHANGED <<slots, listed, atOpen>>
    PROVE  Walked'
<1>1. \A m \in Nat : (m < dirIndex => m < dirIndex + 1)
                     /\ (m < dirIndex + 1 => m < dirIndex \/ m = dirIndex)
  OBVIOUS
<1>2. atOpen \subseteq Nat
  BY DEF Walked, ShownSlots
<1>3. \A k \in DOMAIN listed : listed[k] \in Nat
  BY DEF Walked
<1>. QED
  BY <1>1, <1>2, <1>3 DEF Walked

\* Calls that do not read the directory leave the listing alone.
LEMMA ListingAlone ==
    ASSUME NEW t, t \in Threads, Types, Walked,
           \/ VMFileOpen(t) \/ OpenStep(t) \/ VMFileReadWrite(t) \/ DataSeek(t) \/ DataMoved(t)
    PROVE  Walked' /\ (pc'[t] \notin Reading \/ UNCHANGED <<pc, call, request, got, dirIndex, atOpen>>)
<1>0. pc \in [Threads -> Labels]
  BY DEF Types, ThreadTypes
<1>1. \/ UNCHANGED <<slots, dirIndex, listed, atOpen>> /\ pc'[t] \notin Reading
      \/ UNCHANGED <<slots, dirIndex, listed, atOpen, pc, call, request, got>>
  <2>1. ASSUME NEW name, OpenCached(t, name)
        PROVE  UNCHANGED <<slots, dirIndex, listed, atOpen, pc, call, request, got>>
    BY <2>1 DEF OpenCached, imageVars
  <2>2. ASSUME NEW name, OpenNew(t, name)
        PROVE  UNCHANGED <<slots, dirIndex, listed, atOpen>> /\ pc'[t] \notin Reading
    BY <1>0, <2>2 DEF OpenNew, Ask, Keep, imageVars, heapVars, history, Reading
  <2>3. CASE OpenStep(t)
    <3>1. UNCHANGED <<slots, dirIndex, listed, atOpen>>
      BY <2>3 DEF OpenStep, FatSeek, FatRead, RootSeek, RootRead, SlotSeek, SlotWritten, Keep,
         imageVars, heapVars, history
    <3>2. pc'[t] \notin Reading
      BY <1>0, <2>3 DEF OpenStep, FatSeek, FatRead, RootSeek, RootRead, SlotSeek, SlotWritten,
         Ask, Return, Reading
    <3>. QED
      BY <3>1, <3>2
  <2>4. CASE VMFileReadWrite(t)
    BY <1>0, <2>4 DEF VMFileReadWrite, VMFileMove, SeekFirst, Ask, Keep, imageVars, heapVars,
       history, Reading
  <2>5. CASE DataSeek(t) \/ DataMoved(t)
    <3>1. UNCHANGED <<slots, dirIndex, listed, atOpen>>
      BY <2>5 DEF DataSeek, DataMoved, Keep, imageVars, heapVars, history
    <3>2. pc'[t] \notin Reading
      BY <1>0, <2>5 DEF DataSeek, DataMoved, Ask, Return, Reading
    <3>. QED
      BY <3>1, <3>2
  <2>. QED
    BY <2>1, <2>2, <2>3, <2>4, <2>5 DEF VMFileOpen
<1>. QED
  BY <1>1 DEF Walked

\* The child brings a listing the slot it has asked for; what it writes over is no
\* longer to be listed.
LEMMA ListingServed ==
    ASSUME NEW t, t \in Threads, Types, FATInv(t), Walked, Cursor(t), Child(t)
    PROVE  Walked' /\ Cursor(t)'
<1>1. /\ UNCHANGED <<dirIndex, listed, pc, call>> /\ request[t].stage = "asked"
      /\ got \in [Threads -> AnyEntry] /\ DOMAIN slots = 1 .. RootCnt
  BY DEF Child, ServeSeek, ServeRead, ServeWrite, heapVars, history, Asked, Types, ThreadTypes,
     FATInv, Shape
<1>2. Walked /\ UNCHANGED <<slots, atOpen>> => Walked'
  BY <1>1 DEF Walked
<1>3. CASE /\ pc[t] \in {"slotWrite", "dataMove"} /\ atOpen' \subseteq atOpen
           /\ \A i \in DOMAIN slots : Live(slots[i]) /\ i \in atOpen' => slots'[i] = slots[i]
  <2>1. DOMAIN slots' = 1 .. RootCnt
    BY ChildKeeps DEF FATInv, Shape
  <2>2. ASSUME NEW i \in atOpen' PROVE i \in DOMAIN slots' /\ Shown(slots'[i])
    <3>1. i \in DOMAIN slots /\ Shown(slots[i])
      BY <1>3 DEF Walked, ShownSlots
    <3>. QED
      BY <1>1, <1>3, <2>1, <3>1 DEF Shown, Live
  <2>3. Walked'
    BY <1>1, <1>3, <2>2 DEF Walked, ShownSlots
  <2>. QED
    BY <1>1, <1>3, <2>3 DEF Cursor
<1>4. CASE UNCHANGED <<slots, atOpen>>
  <2>1. CASE ServeRead(t) /\ pc[t] \in {"dirRead", "dirSkip"} /\ dirIndex \in atOpen
    <3>1. offset = Place("root", dirIndex)
      BY <2>1, Spots DEF ServeRead, Asked, FATInv, Stands, Course, Asks, Cursor, Regions
    <3>2. dirIndex \in DOMAIN slots /\ Shown(slots[dirIndex])
      BY <2>1 DEF Walked, ShownSlots
    <3>3. got'[t] = slots[dirIndex]
      BY <1>1, <2>1, <3>1, <3>2 DEF ServeRead, Contents, Place
    <3>. QED
      BY <1>1, <1>2, <1>4, <3>2, <3>3 DEF Cursor
  <2>2. CASE ~ServeRead(t)
    <3>1. pc[t] \notin {"dirRead", "dirSkip"}
      <4>1. request[t].what # "read"
        BY <2>2 DEF Child, ServeSeek, ServeWrite, Asked
      <4>. QED
        BY <4>1 DEF FATInv, Course, Asks
    <3>. QED
      BY <1>1, <1>2, <1>4, <3>1 DEF Cursor
  <2>3. CASE pc[t] \notin {"dirRead", "dirSkip"} \/ dirIndex \notin atOpen
    BY <1>1, <1>2, <1>4, <2>3 DEF Cursor
  <2>. QED
    BY <2>1, <2>2, <2>3
<1>. QED
  BY <1>3, <1>4, ChildKeeps

\* Reading the directory.
LEMMA DirectoryWalks ==
    ASSUME NEW t, t \in Threads, Types, FATInv(t), Walked, Cursor(t),
           VMDirectoryOpen(t) \/ VMDirectoryRead(t) \/ DirSeek(t) \/ DirRead(t)
    PROVE  Walked' /\ Cursor(t)'
<1>0. /\ dirIndex \in Nat \ {0} /\ DOMAIN slots = 1 .. RootCnt /\ DOMAIN slots \subseteq Nat
      /\ pc \in [Threads -> Labels] /\ request \in [Threads -> Requests]
      /\ call \in [Threads -> Calls]
  BY DEF Types, ThreadTypes, HeapTypes, FATInv, Shape
<1>1. UNCHANGED slots
  BY DEF VMDirectoryOpen, VMDirectoryRead, DirSeek, DirRead, Keep, imageVars
<1>2. CASE VMDirectoryOpen(t)
  <2>1. /\ dirIndex' = 1 /\ listed' = <<>> /\ atOpen' = ShownSlots(slots)
        /\ UNCHANGED <<pc, call, request, got>> /\ pc[t] = "idle"
    BY <1>2 DEF VMDirectoryOpen, At
  <2>2. <<>> \in Seq(Nat) /\ DOMAIN <<>> = {}
    OBVIOUS
  <2>3. \A i \in 1 .. RootCnt : ~(i < 1)
    OBVIOUS
  <2>4. Walked'
    BY <1>0, <1>1, <2>1, <2>2, <2>3 DEF Walked, ShownSlots
  <2>. QED
    BY <2>1, <2>4 DEF Cursor
<1>3. CASE VMDirectoryRead(t)
  <2>1. /\ UNCHANGED <<dirIndex, listed, atOpen>> /\ pc'[t] = "dirSeek" /\ call'[t].i = dirIndex
    BY <1>0, <1>3 DEF VMDirectoryRead, Ask, Keep, heapVars, history, Idle
  <2>. QED
    BY <1>1, <2>1 DEF Walked, Cursor
<1>4. CASE DirSeek(t)
  <2>1. /\ UNCHANGED <<dirIndex, listed, atOpen, call>> /\ pc'[t] = "dirRead"
        /\ request'[t].stage = "asked" /\ pc[t] = "dirSeek"
    BY <1>0, <1>4 DEF DirSeek, At, Ask, Keep, heapVars, history
  <2>. QED
    BY <1>1, <2>1 DEF Walked, Cursor
<1>5. CASE DirRead(t)
  <2>. DEFINE i == call[t].i
  <2>0. pc[t] \in {"dirRead", "dirSkip", "dirLong"} /\ request[t].stage = "served" /\ UNCHANGED atOpen
    BY <1>5 DEF DirRead, At, FATInv, Course, Asks
  <2>2. ASSUME Return(t) PROVE Cursor(t)'
    <3>1. pc'[t] = "idle"
      BY <1>0, <2>2 DEF Return
    <3>. QED
      BY <3>1 DEF Cursor
  <2>3. ASSUME NEW label, ReadNext(t, label)
        PROVE  pc'[t] = label /\ call'[t].i = i + 1 /\ request'[t].stage = "asked"
    <3>1. call[t] \in Calls
      BY <1>0
    <3>. QED
      BY <1>0, <2>3, <3>1 DEF ReadNext, Ask, Calls
  <2>4. CASE pc[t] = "dirRead" /\ got[t].kind = "end" /\ Return(t) /\ UNCHANGED <<dirIndex, listed>>
    <3>1. Walked'
      BY <1>1, <2>0, <2>4 DEF Walked
    <3>. QED
      BY <2>2, <2>4, <3>1
  <2>5. CASE /\ pc[t] \in {"dirRead", "dirSkip"} /\ got[t].kind = "deleted"
             /\ ReadNext(t, "dirSkip") /\ dirIndex' = dirIndex + 1 /\ UNCHANGED listed
    <3>1. i = dirIndex /\ dirIndex \notin atOpen
      BY <2>0, <2>5 DEF Cursor, Shown
    <3>2. Walked'
      BY <1>0, <1>1, <2>0, <2>5, <3>1, PassedOver
    <3>3. Cursor(t)'
      BY <2>3, <2>5, <3>1 DEF Cursor
    <3>. QED
      BY <3>2, <3>3
  <2>6. CASE /\ pc[t] \in {"dirRead", "dirSkip"} /\ got[t].kind = "long"
             /\ ReadNext(t, "dirLong") /\ UNCHANGED <<dirIndex, listed>>
    <3>1. i = dirIndex /\ dirIndex \notin atOpen
      BY <2>0, <2>6 DEF Cursor, Shown
    <3>2. Cursor(t)'
      BY <2>0, <2>3, <2>6, <3>1 DEF Cursor
    <3>3. Walked'
      BY <1>1, <2>0, <2>6 DEF Walked
    <3>. QED
      BY <3>2, <3>3
  <2>7. CASE pc[t] \in {"dirRead", "dirSkip"} /\ Show(t, 1)
    <3>1. i = dirIndex
      BY <2>7 DEF Cursor
    <3>2. listed' = Append(listed, i) /\ dirIndex' = i + 1 /\ Return(t) /\ i # dirIndex + 1
      BY <1>0, <2>7, <3>1 DEF Show
    <3>3. Walked'
      BY <1>0, <1>1, <2>0, <3>1, <3>2, ShownNext
    <3>. QED
      BY <2>2, <3>2, <3>3
  <2>8. CASE pc[t] = "dirLong" /\ Show(t, LongSteps)
    <3>1. i = dirIndex + 1 /\ dirIndex \notin atOpen
      BY <2>8 DEF Cursor
    <3>2. listed' = Append(listed, i) /\ dirIndex' = i + 1 /\ Return(t) /\ i \in Nat
      BY <1>0, <2>8, <3>1 DEF Show, LongSteps
    <3>3. Walked'
      BY <1>0, <1>1, <2>0, <3>1, <3>2, ShownNext
    <3>. QED
      BY <2>2, <3>2, <3>3
  <2>. QED
    BY <1>5, <2>4, <2>5, <2>6, <2>7, <2>8 DEF DirRead, At
<1>. QED
  BY <1>2, <1>3, <1>4, <1>5

Walk(t) == Alone(t) /\ Walked /\ Cursor(t)

LEMMA WalkHolds ==
    ASSUME NEW t, Threads = {t}
    PROVE  /\ FATInit => Walk(t)
           /\ Walk(t) /\ [FATNext]_fatVars => Walk(t)'
<1>0. <<>> \in Seq(Nat) /\ DOMAIN <<>> = {} /\ t \in Threads
  OBVIOUS
<1>1. FATInit => Walked /\ Cursor(t)
  BY <1>0 DEF FATInit, Walked, Cursor
<1>2. ASSUME Walk(t), FATNext PROVE Walked' /\ Cursor(t)'
  <2>0. Types /\ FATInv(t) /\ Walked /\ Cursor(t)
    BY <1>2 DEF Walk, Alone
  <2>1. CASE Restart
    BY <1>0, <2>1 DEF Restart, Walked, Cursor
  <2>2. CASE Child(t)
    BY <1>0, <2>0, <2>2, ListingServed
  <2>3. CASE \/ VMFileOpen(t) \/ OpenStep(t) \/ VMFileReadWrite(t) \/ DataSeek(t) \/ DataMoved(t)
    <3>1. /\ Walked'
          /\ pc'[t] \notin Reading \/ UNCHANGED <<pc, call, request, got, dirIndex, atOpen>>
      BY <1>0, <2>0, <2>3, ListingAlone
    <3>. QED
      BY <2>0, <3>1 DEF Cursor, Reading
  <2>4. CASE VMDirectoryOpen(t) \/ VMDirectoryRead(t) \/ DirSeek(t) \/ DirRead(t)
    BY <1>0, <2>0, <2>4, DirectoryWalks
  <2>. QED
    BY <1>2, <2>1, <2>2, <2>3, <2>4 DEF FATNext
<1>3. ASSUME Walk(t), UNCHANGED fatVars PROVE Walked' /\ Cursor(t)'
  BY <1>3 DEF Walk, Walked, Cursor, fatVars, imageVars, heapVars, history
<1>. QED
  BY <1>1, <1>2, <1>3, AloneHolds DEF Walk

\* A listing by one thread goes through the directory in its order, shows no slot twice
\* and passes over no entry that was there when it began (VirtualMachine.cpp:910-983):
\* for a directory of any size and content, whatever long names and deleted slots it
\* has and wherever it ends, though files are created between two reads of it and data
\* written over slots that have then not to be listed any more.
THEOREM ListingsAreComplete ==
    ASSUME NEW t, Threads = {t}
    PROVE  FATSpec => []ListingComplete
<1>1. Walk(t) => ListingComplete
  BY DEF Walk, Walked, ListingComplete
<1>. QED
  BY <1>1, WalkHolds, PTL DEF FATSpec

=============================================================================
