------------------------------ MODULE FATFiles ------------------------------
(***************************************************************************)
(* The FAT16 files and the root directory of src/src/VirtualMachine.cpp.   *)
(*                                                                         *)
(* Every call works on one host file, the mounted image, whose offset all  *)
(* threads share.  A thread asks the child process for one seek, read or   *)
(* write at a time (FileIO says how); the child serves requests of         *)
(* different threads in any order.  What a thread does between two         *)
(* requests is one action.                                                 *)
(*                                                                         *)
(* Records of the image are counted, not bytes: a place is an entry of the *)
(* table, a slot of the root directory or a sector of data.  The data of   *)
(* cluster 2 follow the last slot, so that the sectors of clusters 0 and 1 *)
(* are the last slots of the directory themselves.                         *)
(***************************************************************************)
EXTENDS Integers, Sequences, FiniteSets

CONSTANTS
    Threads,     \* the threads that use the image
    Layouts,     \* root directories the image may start with
    Table,       \* Table[k]: entry k of the FAT is used
    NewNames,    \* names of no entry, which VMFileOpen then creates
    Junk,        \* what data look like to one who takes them for an entry
    SlotsPerSector,  \* 512 / 32
    MaxChunks,   \* bound: sectors of one transfer
    MaxOpen,     \* bound: entries of openFiles
    LastCursor   \* bound: a read of the directory is not begun behind it

TableSize == Len(Table)
RootCnt == Len(CHOOSE l \in Layouts : TRUE)

\* The numbers of 16 bits.
Words == {n \in Nat : n < 65536}

Kinds == {"end", "deleted", "long", "dir", "file"}
NoName == "none"
Entry(kind, name, cluster) == [kind |-> kind, name |-> name, cluster |-> cluster]
Zero == Entry("end", NoName, 0)
Live(e) == e.kind \notin {"end", "deleted"}
Shown(e) == e.kind \in {"dir", "file"}

Place(region, i) == <<region, i>>
NoPlace == <<"none", 0>>
After(p) == <<p[1], p[2] + 1>>

\* The result of FindFreeRootEntry when no slot is free.
NoSlot == -1

IsEntry(e) ==
    /\ e = Entry(e.kind, e.name, e.cluster)
    /\ e.kind \in Kinds /\ e.cluster \in Words

\* The directory holds the sectors of clusters 0 and 1, as one of 512 slots does.
ASSUME Image ==
    /\ RootCnt \in Nat /\ TableSize \in Nat \ {0} /\ Layouts # {}
    /\ \A l \in Layouts : /\ l = [i \in 1 .. RootCnt |-> l[i]]
                           /\ \A i \in DOMAIN l : IsEntry(l[i]) /\ l[i].name \notin NewNames
    /\ Junk # {} /\ \A e \in Junk : IsEntry(e)
    /\ SlotsPerSector \in Nat \ {0} /\ RootCnt >= 2 * SlotsPerSector
    /\ MaxChunks \in Nat \ {0} /\ MaxOpen \in Nat /\ LastCursor \in Nat
    /\ NoName \notin NewNames

VARIABLES
    slots,       \* the root directory on the image
    offset,      \* where the host file FATFd stands
    files,       \* FATFile objects: name, cluster (FATindex) and fd
    cached,      \* the first of them, made by VMStart, are filesCache
    openFiles,   \* numbers of files, in the order they were opened
    dirIndex,    \* directoryByteIndex
    pc,          \* what a thread waits for
    call,        \* the locals of its call
    request,     \* its request: "none", "asked" or "served", what and where
    got,         \* the record a read has brought
    names,       \* history: names[k] was opened as descriptor k + 2
    listed,      \* history: slots shown since VMDirectoryOpen
    atOpen       \* history: slots to show when it was called

imageVars == <<slots, offset>>
heapVars  == <<files, cached, openFiles, dirIndex>>
history   == <<names, listed, atOpen>>
fatVars   == <<imageVars, heapVars, pc, call, request, got, history>>

Idle == [name |-> NoName, unread |-> FALSE, i |-> 0, cluster |-> 0, slot |-> 0, left |-> 0,
         what |-> "none"]
NoRequest == [stage |-> "none", what |-> "none", at |-> NoPlace]

-----------------------------------------------------------------------------
(* VMStart.                                                                *)

\* Bytes 26 and 27 of an entry; the factor of the high byte is 16.
LoadedCluster(c) == (c % 256) + (c \div 256) * 16

\* The members of a set of positions, the least first.
InOrder(P) ==
    [k \in 1 .. Cardinality(P) |-> CHOOSE i \in P : Cardinality({j \in P : j <= i}) = k]

\* The files before the end of the directory.
FileSlots(s) ==
    {i \in DOMAIN s : s[i].kind = "file" /\ \A j \in DOMAIN s : s[j].kind = "end" => i < j}
LoadedFrom(s) ==
    LET read == InOrder(FileSlots(s)) IN
       [k \in DOMAIN read |-> [name |-> s[read[k]].name, fd |-> 0,
                               cluster |-> LoadedCluster(s[read[k]].cluster)]]

ShownSlots(s) == {i \in DOMAIN s : Shown(s[i])}

FATInit ==
    /\ slots \in Layouts
    /\ offset = Place("root", 1)
    /\ files = LoadedFrom(slots) /\ cached = Len(files)
    /\ openFiles = <<>> /\ dirIndex = 1
    /\ pc = [t \in Threads |-> "idle"] /\ call = [t \in Threads |-> Idle]
    /\ request = [t \in Threads |-> NoRequest] /\ got = [t \in Threads |-> Zero]
    /\ names = <<>> /\ listed = <<>> /\ atOpen = {}

\* The machine ends, in the middle of any call, and is started on the image again.
Restart ==
    /\ offset' = Place("root", 1)
    /\ files' = LoadedFrom(slots) /\ cached' = Len(files')
    /\ openFiles' = <<>> /\ dirIndex' = 1
    /\ pc' = [t \in Threads |-> "idle"] /\ call' = [t \in Threads |-> Idle]
    /\ request' = [t \in Threads |-> NoRequest] /\ got' = [t \in Threads |-> Zero]
    /\ names' = <<>> /\ listed' = <<>> /\ atOpen' = {}
    /\ UNCHANGED slots

-----------------------------------------------------------------------------
(* The child process.                                                      *)

Served(t) == request' = [request EXCEPT ![t].stage = "served"]
Asked(t, what) == request[t].stage = "asked" /\ request[t].what = what

\* lseek refuses a negative offset, and nobody looks at the answer.
ServeSeek(t) ==
    /\ Asked(t, "seek") /\ Served(t)
    /\ offset' = IF request[t].at = NoPlace THEN offset ELSE request[t].at
    /\ UNCHANGED <<slots, heapVars, pc, call, got, history>>

\* A used entry of the table is no entry of a directory; behind the directory
\* there is data, which may look like anything.
Contents(p) ==
    CASE p[1] = "fat" -> {IF Table[p[2]] THEN Entry("file", NoName, 0) ELSE Zero}
      [] p[1] = "root" /\ p[2] \in DOMAIN slots -> {slots[p[2]]}
      [] OTHER -> Junk

ServeRead(t) ==
    /\ Asked(t, "read") /\ Served(t)
    /\ \E e \in Contents(offset) : got' = [got EXCEPT ![t] = e]
    /\ offset' = After(offset)
    /\ UNCHANGED <<slots, heapVars, pc, call, history>>

\* The first n slots at a place, as far as the directory goes; the sector of cluster 2
\* comes behind the last slot.  The table is taken to stay as it is.
Covered(p, n) ==
    LET first == IF p[1] = "data" THEN RootCnt + (p[2] - 2) * SlotsPerSector + 1 ELSE p[2] IN
    {i \in DOMAIN slots : p[1] # "fat" /\ first <= i /\ i < first + n}
Overwrite(S, new) == slots' = [i \in DOMAIN slots |-> IF i \in S THEN new[i] ELSE slots[i]]

\* The attributes of a new entry are not initialised.
WriteEntry(t) ==
    /\ pc[t] = "slotWrite"
    /\ \E kind \in {"file", "dir", "long"} :
          LET S == Covered(offset, 1) IN
          Overwrite(S, [i \in S |-> Entry(kind, call[t].name, call[t].cluster)])
    /\ UNCHANGED atOpen

\* A sector of data, or the beginning of one.
WriteData(t) ==
    /\ pc[t] = "dataMove"
    /\ \E n \in 1 .. SlotsPerSector :
          LET S == Covered(offset, n) IN
          /\ \E new \in [S -> Junk] : Overwrite(S, new)
          /\ atOpen' = atOpen \ S

ServeWrite(t) ==
    /\ Asked(t, "write") /\ Served(t)
    /\ WriteEntry(t) \/ WriteData(t)
    /\ offset' = After(offset)
    /\ UNCHANGED <<heapVars, pc, call, got, names, listed>>

-----------------------------------------------------------------------------
(* How a thread goes through a call: it asks, and goes on once served.     *)

At(t, label) == pc[t] = label /\ request[t].stage \in {"none", "served"}
Ask(t, what, at, label) ==
    /\ request' = [request EXCEPT ![t] = [stage |-> "asked", what |-> what, at |-> at]]
    /\ pc' = [pc EXCEPT ![t] = label]
Return(t) ==
    /\ request' = [request EXCEPT ![t] = NoRequest]
    /\ pc' = [pc EXCEPT ![t] = "idle"]
    /\ call' = [call EXCEPT ![t] = Idle]
    /\ got' = [got EXCEPT ![t] = Zero]
Keep == UNCHANGED <<imageVars, heapVars, got, history>>

-----------------------------------------------------------------------------
(* VMFileOpen.                                                             *)

FoundIn(n) == {o \in 1 .. cached : files[o].name = n}

\* Fault: the number of FATFile objects is used.
FdOfObjects == Len(files) + 3

NextFd == Len(openFiles) + 3

\* Fault: what is opened is taken to be a new object.
OpenAsNew(o, name) ==
    /\ openFiles' = Append(openFiles, Len(files) + 1)
    /\ names' = Append(names, <<NextFd, name>>)

OpenAs(o, name) ==
    /\ openFiles' = Append(openFiles, o)
    /\ names' = Append(names, <<NextFd, name>>)

\* A file VMStart has found: its object gets a new descriptor.
OpenCached(t, name) ==
    /\ At(t, "idle") /\ FoundIn(name) # {} /\ Len(openFiles) < MaxOpen
    /\ LET o == CHOOSE o \in FoundIn(name) : \A u \in FoundIn(name) : o <= u IN
         /\ files' = [files EXCEPT ![o].fd = NextFd]
         /\ OpenAs(o, name)
    /\ UNCHANGED <<imageVars, cached, dirIndex, pc, call, request, got, listed, atOpen>>

\* unread: the second word of tempEntry, which no read fills, is not zero.
Creating(name, unread) == [Idle EXCEPT !.name = name, !.unread = unread, !.i = 1]

OpenNew(t, name) ==
    /\ At(t, "idle") /\ FoundIn(name) = {} /\ Len(openFiles) < MaxOpen
    /\ \E unread \in BOOLEAN :
         call' = [call EXCEPT ![t] = Creating(name, unread)]
    /\ Ask(t, "seek", Place("fat", 1), "fatSeek")
    /\ Keep

\* FindFreeFATEntry: it returns the offset of the entry, twice its number, and -1
\* when it has seen none, of which 16 bits are kept.  Nothing ever marks the entry used.
FatOffset(i) == (2 * (i - 1)) % 65536

FatSeek(t) ==
    /\ At(t, "fatSeek")
    /\ Ask(t, "read", Place("fat", 1), "fatRead") /\ UNCHANGED call /\ Keep

FatRead(t) ==
    /\ At(t, "fatRead")
    /\ LET i == call[t].i
           free == got[t].kind = "end" /\ ~call[t].unread
       IN \/ /\ free \/ i = TableSize
             /\ call' = [call EXCEPT ![t].cluster = IF free THEN FatOffset(i) ELSE 65535,
                                     ![t].i = 1]
             /\ Ask(t, "seek", Place("root", 1), "rootSeek")
          \/ /\ ~free /\ i < TableSize
             /\ call' = [call EXCEPT ![t].i = i + 1]
             /\ Ask(t, "read", Place("fat", i + 1), "fatRead")
    /\ Keep

\* FindFreeRootEntry.  In a full directory it returns -1, the seek to which is
\* refused: the entry is written where the search ended, behind the directory.
RootSeek(t) ==
    /\ At(t, "rootSeek")
    /\ Ask(t, "read", Place("root", 1), "rootRead") /\ UNCHANGED call /\ Keep

\* Fault: the slot after the one that was read is returned.
SlotAfter(i) == i + 1

SlotFound(i) == i

RootRead(t) ==
    /\ At(t, "rootRead")
    /\ LET i == call[t].i IN
         \/ /\ ~Live(got[t])
            /\ call' = [call EXCEPT ![t].slot = SlotFound(i)]
            /\ Ask(t, "seek", Place("root", SlotFound(i)), "slotSeek")
         \/ /\ Live(got[t]) /\ i < RootCnt
            /\ call' = [call EXCEPT ![t].i = i + 1]
            /\ Ask(t, "read", Place("root", i + 1), "rootRead")
         \/ /\ Live(got[t]) /\ i = RootCnt
            /\ call' = [call EXCEPT ![t].slot = NoSlot]
            /\ Ask(t, "seek", NoPlace, "slotSeek")
    /\ Keep

SlotSeek(t) ==
    /\ At(t, "slotSeek")
    /\ Ask(t, "write", request[t].at, "slotWrite")
    /\ UNCHANGED call /\ Keep

\* The new object is not put into filesCache.
SlotWritten(t) ==
    /\ At(t, "slotWrite") /\ Return(t)
    /\ files' = Append(files, [name |-> call[t].name, cluster |-> call[t].cluster, fd |-> NextFd])
    /\ OpenAs(Len(files) + 1, call[t].name)
    /\ UNCHANGED <<imageVars, cached, dirIndex, listed, atOpen>>

-----------------------------------------------------------------------------
(* VMFileRead and VMFileWrite.  Both begin at the first sector of the file.*)

\* The first open file with that descriptor; 0 if its object has another by now.
Lookup(fd) ==
    LET held == {k \in DOMAIN openFiles : files[openFiles[k]].fd = fd} IN
    IF held = {} THEN 0 ELSE openFiles[CHOOSE k \in held : \A j \in held : k <= j]

\* Fault: a read goes on from where the last one ended.
SeekForWrite(what) == what = "write"

SeekFirst(what) == TRUE

Moving(c, n, what) == [Idle EXCEPT !.cluster = c, !.left = n, !.what = what]

\* An unknown descriptor changes nothing.
VMFileMove(t, fd, n, what) ==
    /\ At(t, "idle") /\ Lookup(fd) # 0
    /\ LET c == files[Lookup(fd)].cluster IN
         /\ call' = [call EXCEPT ![t] = Moving(c, n, what)]
         /\ IF SeekFirst(what) THEN Ask(t, "seek", Place("data", c), "dataSeek")
                               ELSE Ask(t, what, Place("data", c), "dataMove")
    /\ Keep

DataSeek(t) ==
    /\ At(t, "dataSeek")
    /\ Ask(t, call[t].what, request[t].at, "dataMove") /\ UNCHANGED call /\ Keep

\* FileRead and FileWrite ask for one chunk of 512 bytes after another.
DataMoved(t) ==
    /\ At(t, "dataMove")
    /\ \/ /\ call[t].left > 1
          /\ call' = [call EXCEPT ![t].left = @ - 1]
          /\ Ask(t, call[t].what, After(request[t].at), "dataMove") /\ Keep
       \/ /\ call[t].left = 1 /\ Return(t)
          /\ UNCHANGED <<imageVars, heapVars, history>>

-----------------------------------------------------------------------------
(* VMDirectoryOpen and VMDirectoryRead.                                    *)

VMDirectoryOpen(t) ==
    /\ At(t, "idle")
    /\ dirIndex' = 1 /\ listed' = <<>> /\ atOpen' = ShownSlots(slots)
    /\ UNCHANGED <<imageVars, files, cached, openFiles, pc, call, request, got, names>>

VMDirectoryRead(t) ==
    /\ At(t, "idle") /\ dirIndex <= LastCursor
    /\ call' = [call EXCEPT ![t] = [Idle EXCEPT !.i = dirIndex]]
    /\ Ask(t, "seek", Place("root", dirIndex), "dirSeek") /\ Keep

DirSeek(t) ==
    /\ At(t, "dirSeek")
    /\ Ask(t, "read", Place("root", call[t].i), "dirRead") /\ UNCHANGED call /\ Keep

ReadNext(t, label) ==
    /\ call' = [call EXCEPT ![t].i = @ + 1]
    /\ Ask(t, "read", Place("root", call[t].i + 1), label)

Show(t, steps) ==
    /\ Return(t)
    /\ listed' = Append(listed, call[t].i)
    /\ dirIndex' = dirIndex + steps

\* Fault: the cursor is moved past one of the two slots.
LongUncounted == 1

LongSteps == 2

\* The end of the directory is looked for before deleted slots are skipped, and not
\* again.
DirRead(t) ==
    /\ \/ At(t, "dirRead") /\ got[t].kind = "end" /\ Return(t) /\ UNCHANGED <<dirIndex, listed>>
       \/ /\ At(t, "dirRead") \/ At(t, "dirSkip")
          /\ got[t].kind = "deleted"
          /\ ReadNext(t, "dirSkip") /\ dirIndex' = dirIndex + 1 /\ UNCHANGED <<got, listed>>
       \/ /\ At(t, "dirRead") \/ At(t, "dirSkip")
          /\ got[t].kind = "long"
          /\ ReadNext(t, "dirLong") /\ UNCHANGED <<got, dirIndex, listed>>
       \/ /\ \/ At(t, "dirRead") /\ Shown(got[t])
             \/ At(t, "dirSkip") /\ got[t].kind \notin {"deleted", "long"}
          /\ Show(t, 1)
       \/ At(t, "dirLong") /\ Show(t, LongSteps)
    /\ UNCHANGED <<imageVars, files, cached, openFiles, names, atOpen>>

-----------------------------------------------------------------------------
NameSet == {files[o].name : o \in 1 .. cached} \cup NewNames

VMFileOpen(t) == \E n \in NameSet : OpenCached(t, n) \/ OpenNew(t, n)
OpenStep(t) == FatSeek(t) \/ FatRead(t) \/ RootSeek(t) \/ RootRead(t) \/ SlotSeek(t) \/ SlotWritten(t)
VMFileReadWrite(t) ==
    \E k \in DOMAIN names, n \in 1 .. MaxChunks, what \in {"read", "write"} :
        VMFileMove(t, names[k][1], n, what)
Child(t) == ServeSeek(t) \/ ServeRead(t) \/ ServeWrite(t)

FATNext ==
    \/ Restart
    \/ \E t \in Threads :
          \/ Child(t) \/ VMFileOpen(t) \/ OpenStep(t)
          \/ VMFileReadWrite(t) \/ DataSeek(t) \/ DataMoved(t)
          \/ VMDirectoryOpen(t) \/ VMDirectoryRead(t) \/ DirSeek(t) \/ DirRead(t)

FATSpec == FATInit /\ [][FATNext]_fatVars

-----------------------------------------------------------------------------
(* Properties.                                                             *)

Labels == {"idle", "fatSeek", "fatRead", "rootSeek", "rootRead", "slotSeek", "slotWrite",
           "dataSeek", "dataMove", "dirSeek", "dirRead", "dirSkip", "dirLong"}
AllNames == {l[i].name : l \in Layouts, i \in 1 .. RootCnt} \cup {e.name : e \in Junk}
            \cup NewNames \cup {NoName}
AnyEntry == [kind : Kinds, name : AllNames, cluster : Words]

\* The types of the variables; numbers of objects and descriptors point at something.
FATTypeOK ==
    /\ slots \in [1 .. RootCnt -> AnyEntry]
    /\ \A o \in DOMAIN files : files[o].name \in AllNames /\ files[o].cluster \in Words
    /\ cached \in 0 .. Len(files) /\ dirIndex \in Nat \ {0}
    /\ openFiles \in Seq(DOMAIN files) /\ Len(names) = Len(openFiles)
    /\ pc \in [Threads -> Labels]
    /\ \A t \in Threads : /\ request[t].stage = "none" <=> pc[t] = "idle"
                          /\ got[t] \in AnyEntry
                          /\ call[t].slot \in {NoSlot} \cup 0 .. RootCnt

\* A transfer is carried out where the call that asks for it has sought, although
\* another request may be served between the seek and it.  An entry for which no slot
\* was found goes where the search ended, right behind the directory.
AtOwnPlace ==
    \A t \in Threads :
        Asked(t, "read") \/ Asked(t, "write") =>
            offset = IF request[t].at = NoPlace THEN Place("root", RootCnt + 1)
                                                ELSE request[t].at

\* An entry of the directory is overwritten by nothing but the data of a file whose
\* cluster is 0 or 1: the slot a file gets is free when its entry is written, not only
\* when it was found, in a full directory its entry hits none of the others, and data
\* of other clusters stay out of the directory.
Sparing ==
    \A i \in DOMAIN slots :
        Live(slots[i]) => \/ slots'[i] = slots[i]
                          \/ \E t \in Threads : pc[t] = "dataMove" /\ call[t].cluster < 2
EntriesSpared == [][Sparing]_fatVars

\* A descriptor leads to the file it was opened for, or nowhere once the file was
\* opened again.
DescriptorNames ==
    \A k \in DOMAIN names :
        LET o == Lookup(names[k][1]) IN o # 0 => files[o].name = names[k][2]

\* A listing goes through the directory in its order, shows no slot twice and passes
\* over no entry that was there when it began, whatever long names and deleted slots
\* lie between, and though files are created meanwhile and data overwrite slots.
ListingComplete ==
    /\ \A j, k \in DOMAIN listed : j < k => listed[j] < listed[k]
    /\ \A i \in atOpen : i < dirIndex => \E k \in DOMAIN listed : listed[k] = i
=============================================================================
