---------------------------- MODULE FilesProofs ----------------------------
(***************************************************************************)
(* The descriptor table of a process and the objects behind it, on one     *)
(* processor and for any number of user threads, descriptors and objects:  *)
(* no system call uses an object that has been deleted, a descriptor is    *)
(* released with its bit clear, and the table and the reference counts are *)
(* exact.                                                                  *)
(***************************************************************************)
EXTENDS Files, FiniteSetTheorems, TLAPS

\* What a system call has to do with the descriptor and the object it carries.
Reserving == {"reserved", "bitLoaded"}
Opening == {"reserved", "bitLoaded", "bitSet"}
Using == {"using", "reading", "used", "lost"}
Removing == {"removed", "releasing"}
Owning == {"reserved", "bitLoaded", "removed", "releasing"}
Stages == {"user", "closing"} \cup Opening \cup Using \cup Removing

Calls == [at : Stages, fd : Fds, obj : 0..MaxObjects, seen : Int, bits : SUBSET Fds]

FilesTypeOK ==
  /\ index \in Nat /\ index <= MaxFd + 1 /\ capacity \in Nat /\ array \in Nat
  /\ freestack \in Seq(Fds) /\ checkbits \in SUBSET Fds
  /\ data \in [Fds -> 0..MaxObjects]
  /\ created \in 0..MaxObjects /\ deleted \in SUBSET Objects
  /\ count \in [Objects -> Nat] /\ waiting \in [Objects -> Seq(Users)]
  /\ offset \in [Objects -> Int] /\ olock \in [Objects -> BOOLEAN]
  /\ delivered \in [Objects -> Int] /\ sought \in SUBSET Objects
  /\ scall \in [Users -> Calls]
  /\ aborted \in BOOLEAN

\* One processor writes a word of the bitmap at a time.
WordInv ==
  \A t \in Users : scall[t].at = "bitLoaded" =>
    /\ scall[t].bits = checkbits
    /\ \A u \in Users : scall[u].at = "bitLoaded" => u = t

Free == {freestack[k] : k \in DOMAIN freestack}

\* A slot below index is valid, free, or with one open or one close.
SlotInv ==
  /\ \A k, m \in DOMAIN freestack : freestack[k] = freestack[m] => k = m
  /\ \A i \in Free : i < index /\ i \notin checkbits
  /\ \A i \in checkbits : i < index
  /\ \A t \in Users : scall[t].at \in Owning =>
       /\ scall[t].fd < index /\ scall[t].fd \notin checkbits /\ scall[t].fd \notin Free
       /\ \A u \in Users : scall[u].at \in Owning /\ scall[u].fd = scall[t].fd => u = t
  /\ \A i \in Fds : i < index =>
       i \in checkbits \/ i \in Free \/ \E t \in Users : scall[t].at \in Owning /\ scall[t].fd = i

\* An object is in one slot, which is Garbage again before it is free.
DataInv ==
  /\ \A i, j \in Fds : data[i] = data[j] => i = j \/ data[i] = Garbage
  /\ \A i \in Fds : data[i] <= created /\ (i >= index \/ i \in Free => data[i] = Garbage)
  /\ \A i \in checkbits : data[i] \notin deleted
  /\ \A o \in deleted : o <= created

\* The object of an open is in no slot yet, and its slot is Garbage.
OpenInv ==
  \A t \in Users :
    /\ scall[t].at \in Opening =>
         /\ scall[t].obj # Garbage /\ scall[t].obj <= created /\ scall[t].obj \notin deleted
         /\ data[scall[t].fd] = Garbage /\ \A j \in Fds : data[j] # scall[t].obj
         /\ \A u \in Users : scall[u].at \in Opening /\ scall[u].obj = scall[t].obj => u = t
    /\ scall[t].at = "bitSet" =>
         /\ scall[t].fd \in checkbits
         /\ \A u \in Users : scall[u].at = "bitSet" /\ scall[u].fd = scall[t].fd => u = t

\* A call that passed access() finds its object where it was, and so does the
\* close that took it out.
UseInv ==
  \A t \in Users :
    /\ scall[t].at \in Using => scall[t].fd \in checkbits
    /\ scall[t].at \in Using \cup Removing => data[scall[t].fd] = scall[t].obj /\ scall[t].obj # Garbage

\* The object for which a close sleeps is in its slot or in none.
CloseInv ==
  \A t \in Users : scall[t].at = "closing" =>
    /\ scall[t].obj # Garbage /\ scall[t].obj <= created
    /\ \A j \in Fds : data[j] = scall[t].obj => j = scall[t].fd
    /\ \A u \in Users : scall[u].at \in Opening => scall[u].obj # scall[t].obj

\* The closers of an object sleep on its queue, each once.
SleepInv ==
  \A o \in Objects : \A k \in DOMAIN waiting[o] :
    /\ scall[waiting[o][k]].at = "closing" /\ scall[waiting[o][k]].obj = o
    /\ \A m \in DOMAIN waiting[o] : waiting[o][k] = waiting[o][m] => k = m

\* access() and done() count the calls that use an object.
UsersOf(o) == {t \in Users : scall[t].at \in Using /\ scall[t].obj = o}
CountInv == \A o \in Objects : count[o] = Cardinality(UsersOf(o))

\* The lock of a file that is read is held; its offset stays, but for a seek.
ReadInv ==
  /\ \A t \in Users : scall[t].at = "reading" =>
       /\ scall[t].obj \in Objects /\ olock[scall[t].obj] /\ scall[t].seen >= 0
       /\ scall[t].obj \notin sought => offset[scall[t].obj] + scall[t].seen <= FileSize
       /\ \A u \in Users : scall[u].at = "reading" /\ scall[u].obj = scall[t].obj => u = t
  /\ \A o \in Objects \ sought : delivered[o] = offset[o] /\ offset[o] <= FileSize

FilesInv ==
  FilesTypeOK /\ WordInv /\ SlotInv /\ DataInv /\ OpenInv /\ UseInv /\ CloseInv /\ SleepInv /\ CountInv /\ ReadInv

-----------------------------------------------------------------------------
\* Thread t goes on with its system call; the other calls stay as they are.
Goes(t, p, f, o) ==
  /\ scall' \in [Users -> Calls]
  /\ scall'[t].at = p /\ scall'[t].fd = f /\ scall'[t].obj = o
  /\ \A u \in Users : u # t => scall'[u] = scall[u]

\* The stages are different.
LEMMA StageNames ==
  /\ "user" \in Stages /\ "closing" \in Stages
  /\ Opening \subseteq Stages /\ Using \subseteq Stages /\ Removing \subseteq Stages
  /\ "user" \notin Owning \cup Opening \cup Using \cup Removing
  /\ "closing" \notin Owning \cup Opening \cup Using \cup Removing
  /\ "bitSet" \in Opening \ Owning /\ Reserving = Opening \cap Owning /\ Owning = Reserving \cup Removing
  /\ Opening \cap Using = {} /\ Opening \cap Removing = {} /\ Using \cap Owning = {}
BY DEF Stages, Opening, Using, Removing, Owning, Reserving

\* Proceed: only the stage changes.
LEMMA Proceeds ==
  ASSUME FilesTypeOK, NEW t \in Users, NEW p \in Stages, Proceed(t, p)
  PROVE  Goes(t, p, scall[t].fd, scall[t].obj) /\ scall'[t].seen = scall[t].seen
<1>1. scall \in [Users -> Calls] /\ scall[t] \in Calls
  BY DEF FilesTypeOK
<1>2. PICK r \in Calls : r = [scall[t] EXCEPT !.at = p]
  BY Zenon, <1>1 DEF Calls
<1>3. r.at = p /\ r.fd = scall[t].fd /\ r.obj = scall[t].obj /\ r.seen = scall[t].seen
  BY <1>1, <1>2 DEF Calls
<1>4. scall' = [scall EXCEPT ![t] = r]
  BY <1>2 DEF Proceed
<1> QED
  BY <1>1, <1>3, <1>4 DEF Goes

\* A thread starts a system call, or goes on with it, with a record r.
LEMMA Becomes ==
  ASSUME FilesTypeOK, NEW t \in Users, NEW r \in Calls, scall' = [scall EXCEPT ![t] = r]
  PROVE  Goes(t, r.at, r.fd, r.obj) /\ scall'[t] = r
BY DEF FilesTypeOK, Goes

\* StartCall, and the records that removal starts with.
LEMMA Starts ==
  ASSUME FilesTypeOK, NEW t \in Users, NEW p \in Stages, NEW f \in Fds, NEW o \in 0..MaxObjects, NEW n \in Int,
         \/ StartCall(t, p, f, o)
         \/ scall' = [scall EXCEPT ![t] = [NoSyscall EXCEPT !.at = p, !.fd = f, !.obj = o, !.seen = n]]
  PROVE  Goes(t, p, f, o)
<1>1. PICK r : /\ scall' = [scall EXCEPT ![t] = r]
               /\ \/ r = [NoSyscall EXCEPT !.at = p, !.fd = f, !.obj = o]
                  \/ r = [NoSyscall EXCEPT !.at = p, !.fd = f, !.obj = o, !.seen = n]
  BY DEF StartCall
<1>2. PICK m \in Int : r = [at |-> p, fd |-> f, obj |-> o, seen |-> m, bits |-> {}]
  <2>1. CASE r = [NoSyscall EXCEPT !.at = p, !.fd = f, !.obj = o]
    <3>1. r = [at |-> p, fd |-> f, obj |-> o, seen |-> 0, bits |-> {}]
      BY Zenon, <2>1 DEF NoSyscall
    <3>2. 0 \in Int
      OBVIOUS
    <3> QED
      BY Zenon, <3>1, <3>2
  <2>2. CASE r = [NoSyscall EXCEPT !.at = p, !.fd = f, !.obj = o, !.seen = n]
    BY Zenon, <2>2 DEF NoSyscall
  <2> QED
    BY <1>1, <2>1, <2>2
<1>3. r \in Calls /\ r.at = p /\ r.fd = f /\ r.obj = o
  BY <1>2 DEF Calls
<1> QED
  BY Zenon, <1>1, <1>3, Becomes

\* EndCall: back in user mode.
LEMMA Ends ==
  ASSUME FilesTypeOK, NEW t \in Users, EndCall(t)
  PROVE  Goes(t, "user", 0, Garbage)
<1>1. scall \in [Users -> Calls]
  BY DEF FilesTypeOK
<1>2. 0 \in Fds /\ 0 \in 0..MaxObjects /\ "user" \in Stages
  BY FilesAssumption, StageNames DEF Fds
<1>3. NoSyscall \in Calls /\ NoSyscall.at = "user" /\ NoSyscall.fd = 0 /\ NoSyscall.obj = Garbage
  BY <1>2 DEF NoSyscall, Calls, Garbage
<1>4. scall' = [scall EXCEPT ![t] = NoSyscall]
  BY DEF EndCall
<1> QED
  BY <1>1, <1>3, <1>4 DEF Goes

-----------------------------------------------------------------------------
(* What the parts of the invariant depend on. *)

\* The owners of the slots stay.
LEMMA SlotsStay ==
  ASSUME SlotInv, UNCHANGED <<index, freestack, checkbits>>,
         \A u \in Users : /\ scall'[u].at \in Owning <=> scall[u].at \in Owning
                          /\ scall[u].at \in Owning => scall'[u].fd = scall[u].fd
  PROVE  SlotInv'
<1>1. index' = index /\ freestack' = freestack /\ checkbits' = checkbits
  OBVIOUS
<1>2. Free' = Free
  BY Zenon, <1>1 DEF Free
<1> QED
  BY ZenonT(60), <1>1, <1>2 DEF SlotInv

\* A close takes a valid slot.
LEMMA SlotTaken ==
  ASSUME FilesTypeOK, SlotInv, UNCHANGED <<index, freestack>>, NEW w \in Users, NEW i \in checkbits, checkbits' = checkbits \ {i},
         scall[w].at \notin Owning, scall'[w].at \in Owning, scall'[w].fd = i,
         \A u \in Users : u # w => /\ scall'[u].at \in Owning <=> scall[u].at \in Owning
                                   /\ scall[u].at \in Owning => scall'[u].fd = scall[u].fd
  PROVE  SlotInv'
<1>1. index' = index /\ freestack' = freestack
  OBVIOUS
<1>2. Free' = Free
  BY Zenon, <1>1 DEF Free
<1>3. i < index /\ i \notin Free
  BY Zenon DEF SlotInv
<1>4. ASSUME NEW u \in Users, scall'[u].at \in Owning
      PROVE  /\ scall'[u].fd < index /\ scall'[u].fd \notin checkbits' /\ scall'[u].fd \notin Free
             /\ \A v \in Users : scall'[v].at \in Owning /\ scall'[v].fd = scall'[u].fd => v = u
  <2>1. CASE u = w
    BY <1>3, <2>1 DEF SlotInv
  <2>2. CASE u # w
    BY <1>3, <1>4, <2>2 DEF SlotInv
  <2> QED
    BY <2>1, <2>2
<1>5. ASSUME NEW j \in Fds, j < index
      PROVE  j \in checkbits' \/ j \in Free \/ \E u \in Users : scall'[u].at \in Owning /\ scall'[u].fd = j
  <2>1. CASE j = i
    BY Zenon, <2>1
  <2>2. CASE j # i /\ (j \in checkbits \/ j \in Free)
    BY Zenon, <2>2
  <2>3. ASSUME NEW v \in Users, scall[v].at \in Owning, scall[v].fd = j
        PROVE  scall'[v].at \in Owning /\ scall'[v].fd = j
    BY Zenon, <2>3
  <2> QED
    BY Zenon, <1>5, <2>1, <2>2, <2>3 DEF SlotInv
<1>6. \A j \in checkbits' : j < index
  BY Zenon DEF SlotInv
<1>7. /\ \A k, m \in DOMAIN freestack : freestack[k] = freestack[m] => k = m
      /\ \A j \in Free : j < index /\ j \notin checkbits'
  BY Zenon DEF SlotInv
<1> QED
  BY <1>1, <1>2, <1>4, <1>5, <1>6, <1>7 DEF SlotInv

\* The data stay, and no slot becomes valid or free.
LEMMA DataStays ==
  ASSUME FilesTypeOK, FilesTypeOK', DataInv, data' = data, checkbits' \subseteq checkbits, deleted' = deleted,
         created' >= created, index' >= index, Free' \subseteq Free
  PROVE  DataInv'
<1>1. \A i \in Fds : data[i] \in Int /\ i \in Int
  BY FilesAssumption DEF FilesTypeOK, Fds
<1>2. created \in Int /\ created' \in Int /\ index \in Int /\ index' \in Int
  BY FilesAssumption DEF FilesTypeOK
<1>3. \A i \in Fds : data[i] <= created' /\ (i >= index' \/ i \in Free' => data[i] = Garbage)
  BY <1>1, <1>2 DEF DataInv
<1>4. \A o \in deleted : o \in Int
  BY FilesAssumption DEF FilesTypeOK, Objects
<1>5. \A o \in deleted : o <= created'
  BY <1>2, <1>4 DEF DataInv
<1> QED
  BY Zenon, <1>3, <1>5 DEF DataInv

\* The calls that use an object stay.
LEMMA CountStays ==
  ASSUME CountInv, count' = count,
         \A u \in Users : /\ scall'[u].at \in Using <=> scall[u].at \in Using
                          /\ scall[u].at \in Using => scall'[u].obj = scall[u].obj
  PROVE  CountInv'
<1>1. ASSUME NEW o \in Objects PROVE UsersOf(o)' = UsersOf(o)
  BY Zenon DEF UsersOf
<1> QED
  BY Zenon, <1>1 DEF CountInv

\* Sets of threads are finite, and gain or lose one thread at a time.
LEMMA UserSets ==
  ASSUME NEW S \in SUBSET Users
  PROVE  /\ Cardinality(S) \in Nat /\ (Cardinality(S) = 0 <=> S = {})
         /\ \A t \in Users \ S : Cardinality(S \cup {t}) = Cardinality(S) + 1
         /\ \A t \in S : Cardinality(S \ {t}) = Cardinality(S) - 1
<1>1. IsFiniteSet(S)
  BY FilesAssumption, FS_Subset
<1>2. Cardinality(S) \in Nat /\ (Cardinality(S) = 0 <=> S = {})
  BY <1>1, FS_CardinalityType, FS_EmptySet
<1>3. \A t \in Users \ S : Cardinality(S \cup {t}) = Cardinality(S) + 1
  BY <1>1, FS_AddElement
<1>4. \A t \in S : Cardinality(S \ {t}) = Cardinality(S) - 1
  BY <1>1, FS_RemoveElement
<1> QED
  BY <1>2, <1>3, <1>4

\* An object that nobody uses has count 0; the last user sees 1.
LEMMA CountSays ==
  ASSUME CountInv, NEW o \in Objects
  PROVE  /\ count[o] = 0 => \A t \in Users : ~(scall[t].at \in Using /\ scall[t].obj = o)
         /\ count[o] = 1 => \A t, u \in Users : scall[t].at \in Using /\ scall[t].obj = o
                                                /\ scall[u].at \in Using /\ scall[u].obj = o => t = u
<1> DEFINE S == UsersOf(o)
<1>1. S \in SUBSET Users /\ count[o] = Cardinality(S)
  BY DEF UsersOf, CountInv
<1>2. \A t \in Users : t \in S <=> scall[t].at \in Using /\ scall[t].obj = o
  BY DEF UsersOf
<1> HIDE DEF S
<1>3. count[o] = 0 => S = {}
  BY Zenon, <1>1, UserSets
<1>4. ASSUME count[o] = 1, NEW t \in S, NEW u \in S PROVE t = u
  <2>0. Cardinality(S) = 1 /\ Cardinality(S \ {t}) = Cardinality(S) - 1
    BY Zenon, <1>1, <1>4, UserSets
  <2>1. Cardinality(S \ {t}) = 0
    BY <2>0
  <2>2. S \ {t} \in SUBSET Users
    BY <1>1
  <2>3. S \ {t} = {}
    BY <2>1, <2>2, UserSets
  <2> QED
    BY <2>3
<1> QED
  BY Zenon, <1>2, <1>3, <1>4

\* Every call keeps its kind, its descriptor and its object.
Alike ==
  \A u \in Users :
    /\ scall'[u].fd = scall[u].fd /\ scall'[u].obj = scall[u].obj
    /\ scall'[u].at \in Opening <=> scall[u].at \in Opening
    /\ scall'[u].at \in Using <=> scall[u].at \in Using
    /\ scall'[u].at \in Removing <=> scall[u].at \in Removing
    /\ scall'[u].at \in Owning <=> scall[u].at \in Owning
    /\ scall'[u].at = "bitSet" <=> scall[u].at = "bitSet"
    /\ scall'[u].at = "closing" <=> scall[u].at = "closing"

\* A step that only moves calls on within their kind keeps the invariant.
LEMMA SameKind ==
  ASSUME FilesInv, FilesTypeOK', UNCHANGED <<arrayVars, objectVars>>, Alike
  PROVE  SlotInv' /\ DataInv' /\ OpenInv' /\ UseInv' /\ CloseInv' /\ SleepInv' /\ CountInv'
<1>1. /\ index' = index /\ freestack' = freestack /\ checkbits' = checkbits /\ data' = data
      /\ created' = created /\ deleted' = deleted /\ count' = count /\ waiting' = waiting
  BY Zenon DEF arrayVars, objectVars
<1>2. SlotInv'
  BY Zenon, <1>1, SlotsStay DEF FilesInv, Alike
<1>3. DataInv'
  <2>1. Free' = Free
    BY Zenon, <1>1 DEF Free
  <2> QED
    BY Zenon, <1>1, <2>1 DEF DataInv, FilesInv
<1>4. OpenInv'
  BY <1>1 DEF OpenInv, FilesInv, Alike
<1>5. UseInv'
  BY Zenon, <1>1 DEF UseInv, FilesInv, Alike
<1>6. CloseInv'
  BY <1>1 DEF CloseInv, FilesInv, Alike
<1>7. SleepInv'
  <2>1. \A o \in Objects : \A k \in DOMAIN waiting[o] : waiting[o][k] \in Users
    BY DEF FilesInv, FilesTypeOK
  <2> QED
    BY <1>1, <2>1 DEF SleepInv, FilesInv, Alike
<1>8. CountInv'
  BY Zenon, <1>1, CountStays DEF FilesInv, Alike
<1> QED
  BY <1>2, <1>3, <1>4, <1>5, <1>6, <1>7, <1>8

\* The state of the files stays, and no thread begins to read.
LEMMA ReadsStay ==
  ASSUME ReadInv, UNCHANGED fileVars,
         \A u \in Users : scall'[u].at = "reading" => scall'[u] = scall[u]
  PROVE  ReadInv'
<1>1. offset' = offset /\ olock' = olock /\ delivered' = delivered /\ sought' = sought
  BY Zenon DEF fileVars
<1> QED
  BY <1>1 DEF ReadInv

\* No thread is about to write the word.
LEMMA WordStays == ASSUME \A u \in Users : scall'[u].at # "bitLoaded" PROVE WordInv'
BY Zenon DEF WordInv

\* A call that uses its object goes on using it.
LEMMA UsingGoes ==
  ASSUME FilesInv, FilesTypeOK', UNCHANGED <<arrayVars, objectVars>>, NEW t \in Users, NEW p \in Using,
         scall[t].at \in Using, Goes(t, p, scall[t].fd, scall[t].obj),
         \A u \in Users : u # t => scall[u].at # "bitLoaded"
  PROVE  Alike /\ \A u \in Users : scall'[u].at # "bitLoaded"
BY DEF Goes, Alike, Using, Opening, Removing, Owning

-----------------------------------------------------------------------------
(* read, lseek and the other calls that use an object. *)

\* FileAccess::read, first part: at most what is left of the file.
LEMMA ReadBeginStep ==
  ASSUME FilesInv, NEW t \in Users, NEW n \in {1, FileSize}, ReadBegin(t, n),
         \A u \in Users : u # t => scall[u].at # "bitLoaded"
  PROVE  FilesInv'
<1> DEFINE o == scall[t].obj
           len == Pread(offset[o], n)
<1>1. /\ FilesTypeOK /\ scall[t].at = "using" /\ ~olock[o] /\ olock' = [olock EXCEPT ![o] = TRUE]
      /\ arrayVars' = arrayVars /\ objectVars' = objectVars /\ offset' = offset /\ delivered' = delivered
      /\ sought' = sought /\ aborted' = aborted
  BY DEF ReadBegin, InSyscall, FilesInv
<1>2. o \in Objects /\ offset[o] \in Int /\ n \in Nat /\ FileSize \in Nat /\ scall[t] \in Calls
  <2>1. o \in 0..MaxObjects /\ o # 0 /\ scall[t] \in Calls
    BY <1>1 DEF FilesTypeOK, Calls, FilesInv, UseInv, Using, Garbage
  <2> QED
    BY <1>1, <2>1, FilesAssumption DEF FilesTypeOK, Objects
<1>3. len \in Int /\ (o \notin sought => len >= 0 /\ offset[o] + len <= FileSize)
  <2>1. o \notin sought => offset[o] <= FileSize
    BY <1>2 DEF FilesInv, ReadInv
  <2> QED
    BY <1>2, <2>1 DEF Pread
<1> HIDE DEF len
<1>4. PICK p \in {"lost", "reading"} :
        /\ Goes(t, p, scall[t].fd, scall[t].obj)
        /\ p = "reading" => scall'[t].seen = len /\ len >= 0
  <2>1. CASE len < 0
    <3>1. Proceed(t, "lost")
      BY <2>1 DEF ReadBegin, len
    <3> QED
      BY <1>1, <3>1, StageNames, Proceeds DEF Using
  <2>2. CASE ~(len < 0)
    <3>1. PICK r : r = [scall[t] EXCEPT !.at = "reading", !.seen = len]
      OBVIOUS
    <3>2. r \in Calls /\ r.at = "reading" /\ r.fd = scall[t].fd /\ r.obj = scall[t].obj /\ r.seen = len
      BY Zenon, <1>2, <1>3, <3>1 DEF Calls, Stages, Using
    <3>3. scall' = [scall EXCEPT ![t] = r]
      BY Zenon, <2>2, <3>1 DEF ReadBegin, len
    <3>4. Goes(t, "reading", scall[t].fd, scall[t].obj) /\ scall'[t].seen = len
      BY <1>1, <3>2, <3>3 DEF Goes, FilesTypeOK
    <3> QED
      BY <1>3, <2>2, <3>4
  <2> QED
    BY <2>1, <2>2
<1>5. FilesTypeOK'
  <2>1. olock' \in [Objects -> BOOLEAN]
    BY <1>1, <1>2 DEF FilesTypeOK
  <2> QED
    BY Zenon, <1>1, <1>4, <2>1 DEF FilesTypeOK, arrayVars, objectVars, Goes
<1>6. Alike /\ \A u \in Users : scall'[u].at # "bitLoaded"
  BY <1>1, <1>4, <1>5, UsingGoes DEF Using
<1>7. SlotInv' /\ DataInv' /\ OpenInv' /\ UseInv' /\ CloseInv' /\ SleepInv' /\ CountInv' /\ WordInv'
  BY Zenon, <1>1, <1>5, <1>6, SameKind, WordStays
<1>8. ReadInv'
  <2>1. ASSUME NEW u \in Users, scall'[u].at = "reading"
        PROVE  /\ scall'[u].obj \in Objects /\ olock'[scall'[u].obj] /\ scall'[u].seen >= 0
               /\ scall'[u].obj \notin sought => offset[scall'[u].obj] + scall'[u].seen <= FileSize
               /\ \A v \in Users : scall'[v].at = "reading" /\ scall'[v].obj = scall'[u].obj => v = u
    <3>1. olock \in [Objects -> BOOLEAN]
      BY <1>1 DEF FilesTypeOK
    <3>2. \A v \in Users : scall[v].at = "reading" => scall[v].obj \in Objects /\ olock[scall[v].obj] /\ scall[v].obj # o
      BY <1>1 DEF FilesInv, ReadInv
    <3>3. CASE u = t
      BY <1>1, <1>2, <1>3, <1>4, <2>1, <3>1, <3>2, <3>3 DEF Goes
    <3>4. CASE u # t
      <4>1. scall'[u] = scall[u] /\ olock'[scall[u].obj]
        BY <1>1, <1>4, <2>1, <3>1, <3>2, <3>4 DEF Goes
      <4>2. \A v \in Users : scall'[v].at = "reading" /\ scall'[v].obj = scall[u].obj => v = u
        BY <1>4, <2>1, <3>2, <3>4, <4>1 DEF Goes, FilesInv, ReadInv
      <4> QED
        BY <2>1, <4>1, <4>2 DEF FilesInv, ReadInv
    <3> QED
      BY <3>3, <3>4
  <2> QED
    BY Zenon, <1>1, <2>1 DEF ReadInv, FilesInv
<1> QED
  BY <1>5, <1>7, <1>8 DEF FilesInv

\* FileAccess::read, second part: the offset moves by what was read.
LEMMA ReadEndStep ==
  ASSUME FilesInv, NEW t \in Users, ReadEnd(t),
         \A u \in Users : u # t => scall[u].at # "bitLoaded"
  PROVE  FilesInv'
<1> DEFINE o == scall[t].obj
           n == scall[t].seen
<1>1. /\ FilesTypeOK /\ scall[t].at = "reading" /\ olock' = [olock EXCEPT ![o] = FALSE]
      /\ arrayVars' = arrayVars /\ objectVars' = objectVars /\ offset' = [offset EXCEPT ![o] = offset[o] + n]
      /\ delivered' = IF o \in sought THEN delivered ELSE [delivered EXCEPT ![o] = delivered[o] + n]
      /\ sought' = sought /\ aborted' = aborted /\ Proceed(t, "used")
  BY DEF ReadEnd, InSyscall, FilesInv
<1>2. /\ o \in Objects /\ offset[o] \in Int /\ n \in Int /\ delivered[o] \in Int /\ n >= 0
      /\ o \notin sought => offset[o] + n <= FileSize /\ delivered[o] = offset[o]
      /\ \A u \in Users : scall[u].at = "reading" /\ scall[u].obj = o => u = t
  BY <1>1 DEF FilesInv, ReadInv, FilesTypeOK, Calls
<1>3. Goes(t, "used", scall[t].fd, scall[t].obj)
  BY <1>1, StageNames, Proceeds DEF Using
<1>4. FilesTypeOK'
  <2>1. olock' \in [Objects -> BOOLEAN] /\ offset' \in [Objects -> Int] /\ delivered' \in [Objects -> Int]
    BY <1>1, <1>2 DEF FilesTypeOK
  <2> QED
    BY Zenon, <1>1, <1>3, <2>1 DEF FilesTypeOK, arrayVars, objectVars, Goes
<1>5. Alike /\ \A u \in Users : scall'[u].at # "bitLoaded"
  BY <1>1, <1>3, <1>4, UsingGoes DEF Using
<1>6. SlotInv' /\ DataInv' /\ OpenInv' /\ UseInv' /\ CloseInv' /\ SleepInv' /\ CountInv' /\ WordInv'
  BY Zenon, <1>1, <1>4, <1>5, SameKind, WordStays
<1>7. ReadInv'
  <2>1. \A a \in Objects : a # o => offset'[a] = offset[a] /\ delivered'[a] = delivered[a] /\ olock'[a] = olock[a]
    BY <1>1 DEF FilesTypeOK
  <2>2. offset'[o] = offset[o] + n /\ (o \notin sought => delivered'[o] = delivered[o] + n)
    BY <1>1, <1>2 DEF FilesTypeOK
  <2>3. \A u \in Users : scall'[u].at = "reading" => u # t /\ scall'[u] = scall[u] /\ scall[u].obj # o
    BY <1>2, <1>3 DEF Goes
  <2>4. \A a \in Objects \ sought : delivered'[a] = offset'[a] /\ offset'[a] <= FileSize
    BY <1>2, <2>1, <2>2 DEF FilesInv, ReadInv
  <2> QED
    BY <1>1, <2>1, <2>3, <2>4 DEF FilesInv, ReadInv
<1> QED
  BY <1>4, <1>6, <1>7 DEF FilesInv

\* FileAccess::lseek: from now on reads may repeat or skip parts of the file.
LEMMA LseekStep ==
  ASSUME FilesInv, NEW t \in Users, NEW new, Lseek(t, new), new \in Int,
         \A u \in Users : u # t => scall[u].at # "bitLoaded"
  PROVE  FilesInv'
<1> DEFINE o == scall[t].obj
<1>1. /\ FilesTypeOK /\ scall[t].at = "using" /\ olock' = olock /\ delivered' = delivered
      /\ arrayVars' = arrayVars /\ objectVars' = objectVars /\ aborted' = aborted /\ Proceed(t, "used")
      /\ offset' = IF new >= 0 THEN [offset EXCEPT ![o] = new] ELSE offset
      /\ sought' = IF new >= 0 THEN sought \cup {o} ELSE sought
  BY DEF Lseek, InSyscall, FilesInv
<1>2. o \in Objects
  <2>1. o \in 0..MaxObjects /\ o # 0
    BY <1>1 DEF FilesTypeOK, Calls, FilesInv, UseInv, Using, Garbage
  <2> QED
    BY <2>1, FilesAssumption DEF Objects
<1>3. Goes(t, "used", scall[t].fd, scall[t].obj)
  BY <1>1, StageNames, Proceeds DEF Using
<1>4. FilesTypeOK'
  <2>1. offset' \in [Objects -> Int] /\ sought' \in SUBSET Objects
    BY <1>1, <1>2 DEF FilesTypeOK
  <2> QED
    BY Zenon, <1>1, <1>3, <2>1 DEF FilesTypeOK, arrayVars, objectVars, Goes
<1>5. Alike /\ \A u \in Users : scall'[u].at # "bitLoaded"
  BY <1>1, <1>3, <1>4, UsingGoes DEF Using
<1>6. SlotInv' /\ DataInv' /\ OpenInv' /\ UseInv' /\ CloseInv' /\ SleepInv' /\ CountInv' /\ WordInv'
  BY Zenon, <1>1, <1>4, <1>5, SameKind, WordStays
<1>7. ReadInv'
  <2>1. sought \subseteq sought' /\ \A a \in Objects : a \notin sought' => offset'[a] = offset[a]
    BY <1>1, <1>2 DEF FilesTypeOK
  <2>2. \A u \in Users : scall'[u].at = "reading" => u # t /\ scall'[u] = scall[u]
    BY <1>3 DEF Goes
  <2>3. \A u \in Users : scall'[u].at = "reading" =>
          /\ scall[u].at = "reading" /\ scall[u].obj \in Objects /\ olock[scall[u].obj] /\ scall[u].seen >= 0
          /\ scall[u].obj \notin sought' => offset'[scall[u].obj] + scall[u].seen <= FileSize
    BY <2>1, <2>2 DEF FilesInv, ReadInv
  <2>4. \A a \in Objects \ sought' : delivered[a] = offset'[a] /\ offset'[a] <= FileSize
    BY <2>1 DEF FilesInv, ReadInv
  <2> QED
    BY <1>1, <2>2, <2>3, <2>4 DEF FilesInv, ReadInv
<1> QED
  BY <1>4, <1>6, <1>7 DEF FilesInv

\* The other methods change nothing.
LEMMA OtherStep ==
  ASSUME FilesInv, NEW t \in Users, OtherAccess(t),
         \A u \in Users : u # t => scall[u].at # "bitLoaded"
  PROVE  FilesInv'
<1>1. /\ FilesTypeOK /\ scall[t].at = "using" /\ fileVars' = fileVars
      /\ arrayVars' = arrayVars /\ objectVars' = objectVars /\ aborted' = aborted /\ Proceed(t, "used")
  BY DEF OtherAccess, InSyscall, FilesInv
<1>2. Goes(t, "used", scall[t].fd, scall[t].obj)
  BY <1>1, StageNames, Proceeds DEF Using
<1>3. FilesTypeOK'
  BY Zenon, <1>1, <1>2 DEF FilesTypeOK, arrayVars, objectVars, fileVars, Goes
<1>4. Alike /\ \A u \in Users : scall'[u].at # "bitLoaded"
  BY <1>1, <1>2, <1>3, UsingGoes DEF Using
<1>5. SlotInv' /\ DataInv' /\ OpenInv' /\ UseInv' /\ CloseInv' /\ SleepInv' /\ CountInv' /\ WordInv'
  BY Zenon, <1>1, <1>3, <1>4, SameKind, WordStays
<1>6. ReadInv'
  <2>1. \A u \in Users : scall'[u].at = "reading" => scall'[u] = scall[u]
    BY <1>2 DEF Goes
  <2> QED
    BY Zenon, <1>1, <2>1, ReadsStay DEF FilesInv
<1> QED
  BY <1>3, <1>5, <1>6 DEF FilesInv

-----------------------------------------------------------------------------
(* open: reserve a slot, set the check bit, write the element. *)

\* An assertion that fails stops the kernel where it is.
LEMMA AbortStep == ASSUME FilesInv, AbortKernel PROVE FilesInv'
<1>1. /\ aborted' = TRUE /\ arrayVars' = arrayVars /\ objectVars' = objectVars /\ fileVars' = fileVars
      /\ scall' = scall
  BY Zenon DEF AbortKernel
<1>2. FilesTypeOK'
  BY <1>1 DEF FilesInv, FilesTypeOK, arrayVars, objectVars, fileVars
<1>3. Alike
  BY Zenon, <1>1 DEF Alike
<1>4. SlotInv' /\ DataInv' /\ OpenInv' /\ UseInv' /\ CloseInv' /\ SleepInv' /\ CountInv'
  BY Zenon, <1>1, <1>2, <1>3, SameKind
<1>5. ReadInv'
  BY Zenon, <1>1, ReadsStay DEF FilesInv
<1>6. WordInv'
  BY Zenon, <1>1 DEF WordInv, FilesInv, arrayVars
<1> QED
  BY <1>2, <1>4, <1>5, <1>6 DEF FilesInv

\* A new object gets a slot of its own.
LEMMA OpenStep ==
  ASSUME FilesInv, NEW t \in Users, OpenFile(t),
         \A u \in Users : u # t => scall[u].at # "bitLoaded"
  PROVE  FilesInv'
<1>1. PICK i \in Fds : ReserveFd(i) /\ StartCall(t, "reserved", i, created + 1)
  BY DEF OpenFile
<1>2. /\ scall[t].at = "user" /\ created < MaxObjects /\ created' = created + 1 /\ checkbits' = checkbits
      /\ data' = data /\ deleted' = deleted /\ count' = count /\ waiting' = waiting
      /\ fileVars' = fileVars /\ aborted' = aborted /\ FilesTypeOK
  BY DEF OpenFile, InSyscall, FilesInv
<1>3. created + 1 \in 1..MaxObjects /\ created \in Nat
  BY <1>2, FilesAssumption DEF FilesTypeOK
<1>4. Goes(t, "reserved", i, created + 1)
  <2>1. "reserved" \in Stages /\ created + 1 \in 0..MaxObjects /\ 0 \in Int
    BY <1>3 DEF Stages, Opening
  <2> QED
    BY Zenon, <1>1, <1>2, <2>1, Starts
<1>5. /\ freestack \in Seq(Fds) /\ index \in Nat /\ i \in Nat /\ capacity \in Nat /\ array \in Nat
  BY <1>2, FilesAssumption DEF FilesTypeOK, Fds
<1>6. /\ freestack' \in Seq(Fds) /\ index' \in Nat /\ index' >= index
      /\ Free' \subseteq Free /\ i < index' /\ i \notin Free' /\ i \notin checkbits
      /\ \A k, m \in DOMAIN freestack' : freestack'[k] = freestack'[m] => k = m
      /\ \A j \in Fds : j < index' => j < index \/ j = i
      /\ \A j \in Free : j \in Free' \/ j = i
      /\ i \in Free \/ i >= index
  <2>1. CASE freestack # <<>>
    <3>1. i = Head(freestack) /\ freestack' = Tail(freestack) /\ index' = index
      BY <1>1, <2>1 DEF ReserveFd
    <3>2. PICK n \in Nat : n = Len(freestack)
      BY <1>5
    <3>3. /\ n # 0 /\ Len(freestack') = n - 1 /\ \A k \in 1..(n - 1) : freestack'[k] = freestack[k + 1]
          /\ i = freestack[1] /\ freestack' \in Seq(Fds) /\ DOMAIN freestack = 1..n /\ DOMAIN freestack' = 1..(n - 1)
      BY <1>5, <2>1, <3>1, <3>2
    <3>4. \A k, m \in 1..n : freestack[k] = freestack[m] => k = m
      BY Zenon, <3>3 DEF FilesInv, SlotInv
    <3>5. \A k \in 1..(n - 1) : k + 1 \in 1..n /\ k + 1 # 1
      BY <3>2
    <3>6. \A k, m \in 1..(n - 1) : freestack'[k] = freestack'[m] => k = m
      BY <3>3, <3>4, <3>5
    <3>7. 1 \in 1..n
      BY <3>3
    <3>8. i \in Free
      BY <3>3, <3>7 DEF Free
    <3>9. Free' \subseteq Free /\ i \notin Free'
      BY <3>3, <3>4, <3>5, <3>7 DEF Free
    <3>10. ASSUME NEW j \in Free, j # i PROVE j \in Free'
      <4>1. PICK k \in 1..n : j = freestack[k]
        BY <3>3 DEF Free
      <4>2. k - 1 \in 1..(n - 1) /\ freestack'[k - 1] = j
        BY <3>3, <3>10, <4>1
      <4> QED
        BY Zenon, <3>3, <4>2 DEF Free
    <3>11. i < index /\ i \notin checkbits
      BY <3>8 DEF FilesInv, SlotInv
    <3> QED
      BY <1>5, <3>1, <3>3, <3>6, <3>8, <3>9, <3>10, <3>11
  <2>2. CASE freestack = <<>>
    <3>1. i = index /\ freestack' = freestack /\ index' = index + 1
      BY <1>1, <2>2 DEF ReserveFd
    <3>2. Free = {} /\ Free' = {}
      BY <2>2, <3>1 DEF Free
    <3>3. i \notin checkbits
      BY <1>5, <3>1 DEF FilesInv, SlotInv
    <3>4. \A j \in Fds : j \in Nat
      BY FilesAssumption DEF Fds
    <3> QED
      BY <1>5, <2>2, <3>1, <3>2, <3>3, <3>4
  <2> QED
    BY <2>1, <2>2
<1>7. data[i] = Garbage
  BY <1>5, <1>6 DEF FilesInv, DataInv
<1>8. FilesTypeOK'
  <2>1. capacity' \in Nat /\ array' \in Nat
    BY <1>1, <1>5 DEF ReserveFd
  <2>2. created' \in 0..MaxObjects
    BY <1>2, <1>3
  <2>3. scall' \in [Users -> Calls]
    BY <1>4 DEF Goes
  <2>4. index' <= MaxFd + 1
    <3>1. i <= MaxFd /\ MaxFd \in Nat /\ index <= MaxFd + 1
      BY <1>2, FilesAssumption DEF FilesTypeOK, Fds
    <3>2. index' = index \/ index' = i + 1
      BY <1>1 DEF ReserveFd
    <3> QED
      BY <1>5, <3>1, <3>2
  <2> QED
    BY Zenon, <1>2, <1>6, <2>1, <2>2, <2>3, <2>4 DEF FilesTypeOK, fileVars
<1>9. SlotInv'
  <2>1. ASSUME NEW u \in Users, scall'[u].at \in Owning
        PROVE  /\ scall'[u].fd < index' /\ scall'[u].fd \notin checkbits /\ scall'[u].fd \notin Free'
               /\ \A v \in Users : scall'[v].at \in Owning /\ scall'[v].fd = scall'[u].fd => v = u
    <3>0. \A v \in Users : v # t /\ scall'[v].at \in Owning =>
            /\ scall'[v] = scall[v] /\ scall[v].fd \in Nat /\ scall[v].fd < index /\ scall[v].fd \notin checkbits
            /\ scall[v].fd \notin Free /\ scall[v].fd # i
      <4>1. \A v \in Users : scall[v].fd \in Nat
        BY <1>2, FilesAssumption DEF FilesTypeOK, Calls, Fds
      <4> QED
        BY <1>4, <1>5, <1>6, <4>1 DEF Goes, FilesInv, SlotInv
    <3>1. CASE u = t
      BY <1>4, <1>6, <3>0, <3>1 DEF Goes
    <3>2. CASE u # t
      <4>1. scall'[u].fd < index' /\ scall'[u].fd \notin checkbits /\ scall'[u].fd \notin Free'
        BY <1>5, <1>6, <2>1, <3>0, <3>2
      <4>2. \A v \in Users : scall'[v].at \in Owning /\ scall'[v].fd = scall'[u].fd => v = u
        BY <1>4, <2>1, <3>0, <3>2 DEF Goes, FilesInv, SlotInv
      <4> QED
        BY <4>1, <4>2
    <3> QED
      BY <3>1, <3>2
  <2>2. ASSUME NEW j \in Fds, j < index'
        PROVE  j \in checkbits \/ j \in Free' \/ \E u \in Users : scall'[u].at \in Owning /\ scall'[u].fd = j
    <3>1. CASE j = i
      BY <1>4, <3>1 DEF Goes, Owning
    <3>2. CASE j # i
      <4>1. j \in checkbits \/ j \in Free \/ \E u \in Users : scall[u].at \in Owning /\ scall[u].fd = j
        BY <1>6, <2>2, <3>2 DEF FilesInv, SlotInv
      <4>2. \A u \in Users : scall[u].at \in Owning => scall'[u] = scall[u]
        BY <1>2, <1>4 DEF Goes, Owning
      <4> QED
        BY <1>6, <3>2, <4>1, <4>2
    <3> QED
      BY <3>1, <3>2
  <2>3. \A j \in Free' : j < index' /\ j \notin checkbits
    <3>1. \A j \in Free : j \in Nat
      BY <1>5, FilesAssumption DEF Free, Fds
    <3> QED
      BY <1>5, <1>6, <3>1 DEF FilesInv, SlotInv
  <2>4. \A j \in checkbits : j < index'
    <3>1. \A j \in checkbits : j \in Nat
      BY <1>2, FilesAssumption DEF FilesTypeOK, Fds
    <3> QED
      BY <1>5, <1>6, <3>1 DEF FilesInv, SlotInv
  <2> QED
    BY <1>2, <1>6, <2>1, <2>2, <2>3, <2>4 DEF SlotInv
<1>10. DataInv'
  <2>1. created' >= created
    BY <1>2, <1>3
  <2> QED
    BY <1>2, <1>6, <1>8, <2>1, DataStays DEF FilesInv
<1>11. OpenInv'
  <2>1. /\ \A j \in Fds : data[j] # created + 1 /\ data[j] \in Nat
        /\ created + 1 # Garbage /\ created + 1 \notin deleted
        /\ \A u \in Users : scall[u].at \in Opening => scall[u].obj # created + 1
    <3>1. \A j \in Fds : data[j] \in Nat /\ data[j] <= created
      BY <1>2, FilesAssumption DEF FilesTypeOK, FilesInv, DataInv
    <3>2. \A o \in deleted : o \in Nat /\ o <= created
      BY <1>2, FilesAssumption DEF FilesTypeOK, FilesInv, DataInv, Objects
    <3>3. \A u \in Users : scall[u].obj \in Nat
      BY <1>2, FilesAssumption DEF FilesTypeOK, Calls
    <3>4. \A u \in Users : scall[u].at \in Opening => scall[u].obj <= created
      BY DEF FilesInv, OpenInv
    <3> QED
      BY <1>3, <3>1, <3>2, <3>3, <3>4 DEF Garbage
  <2>2. \A u \in Users : u # t => scall'[u] = scall[u]
    BY <1>4 DEF Goes
  <2>3. \A u \in Users : scall[u].obj \in Nat
    BY <1>2, FilesAssumption DEF FilesTypeOK, Calls
  <2>4. ASSUME NEW u \in Users, scall'[u].at \in Opening
        PROVE  /\ scall'[u].obj # Garbage /\ scall'[u].obj <= created' /\ scall'[u].obj \notin deleted
               /\ data[scall'[u].fd] = Garbage /\ \A j \in Fds : data[j] # scall'[u].obj
               /\ \A v \in Users : scall'[v].at \in Opening /\ scall'[v].obj = scall'[u].obj => v = u
    <3>1. CASE u = t
      BY <1>2, <1>3, <1>4, <1>7, <2>1, <2>2, <3>1 DEF Goes
    <3>2. CASE u # t
      <4>1. scall'[u] = scall[u] /\ scall[u].obj <= created'
        BY <1>2, <1>3, <2>2, <2>3, <2>4, <3>2 DEF FilesInv, OpenInv
      <4> QED
        BY <1>4, <2>1, <2>2, <2>4, <3>2, <4>1 DEF Goes, FilesInv, OpenInv
    <3> QED
      BY <3>1, <3>2
  <2>5. \A u \in Users : scall'[u].at = "bitSet" => u # t
    BY <1>4 DEF Goes
  <2>6. ASSUME NEW u \in Users, scall'[u].at = "bitSet"
        PROVE  /\ scall'[u].fd \in checkbits
               /\ \A v \in Users : scall'[v].at = "bitSet" /\ scall'[v].fd = scall'[u].fd => v = u
    BY Zenon, <2>2, <2>5, <2>6 DEF FilesInv, OpenInv
  <2> QED
    BY Zenon, <1>2, <2>4, <2>6 DEF OpenInv
<1>12. UseInv'
  <2>1. \A u \in Users : scall'[u].at \in Using \cup Removing => scall'[u] = scall[u]
    BY <1>4 DEF Goes, Using, Removing
  <2> QED
    BY Zenon, <1>2, <2>1 DEF FilesInv, UseInv
<1>13. CloseInv'
  <2>1. \A u \in Users : scall'[u].at = "closing" => u # t /\ scall'[u] = scall[u]
    BY <1>4 DEF Goes
  <2>2. \A u \in Users : scall[u].obj \in Nat
    BY <1>2, FilesAssumption DEF FilesTypeOK, Calls
  <2>3. \A u \in Users : scall[u].at = "closing" => scall[u].obj <= created
    BY DEF FilesInv, CloseInv
  <2>4. \A u \in Users : scall[u].at = "closing" => scall[u].obj <= created' /\ scall[u].obj # created + 1
    BY <1>2, <1>3, <2>2, <2>3
  <2>5. \A u, v \in Users : scall'[u].at = "closing" /\ scall'[v].at \in Opening => scall'[v].obj # scall'[u].obj
    BY <1>4, <2>1, <2>4 DEF Goes, FilesInv, CloseInv
  <2> QED
    BY <1>2, <2>1, <2>4, <2>5 DEF FilesInv, CloseInv
<1>14. SleepInv'
  <2>1. \A o \in Objects : \A k \in DOMAIN waiting[o] : waiting[o][k] \in Users /\ waiting[o][k] # t
    BY <1>2 DEF FilesTypeOK, FilesInv, SleepInv
  <2> QED
    BY <1>2, <1>4, <2>1 DEF FilesInv, SleepInv, Goes
<1>15. CountInv' /\ ReadInv' /\ WordInv'
  <2>1. \A u \in Users : /\ scall'[u].at \in Using <=> scall[u].at \in Using
                         /\ scall[u].at \in Using => scall'[u].obj = scall[u].obj
    BY <1>2, <1>4 DEF Goes, Using
  <2>2. \A u \in Users : scall'[u].at # "bitLoaded" /\ (scall'[u].at = "reading" => scall'[u] = scall[u])
    BY <1>4 DEF Goes
  <2> QED
    BY Zenon, <1>2, <2>1, <2>2, CountStays, ReadsStay, WordStays DEF FilesInv
<1> QED
  BY <1>8, <1>9, <1>10, <1>11, <1>12, <1>13, <1>14, <1>15 DEF FilesInv

\* checkbits[idx] = true, first half.
LEMMA LoadStep ==
  ASSUME FilesInv, NEW t \in Users, LoadWord(t),
         \A u \in Users : u # t => scall[u].at # "bitLoaded"
  PROVE  FilesInv'
<1>1. /\ FilesTypeOK /\ scall[t].at = "reserved" /\ fileVars' = fileVars
      /\ arrayVars' = arrayVars /\ objectVars' = objectVars /\ aborted' = aborted
      /\ scall' = [scall EXCEPT ![t].at = "bitLoaded", ![t].bits = checkbits]
  BY DEF LoadWord, InSyscall, FilesInv
<1>2. scall \in [Users -> Calls] /\ scall[t] \in Calls /\ checkbits \in SUBSET Fds /\ "bitLoaded" \in Stages
  BY <1>1 DEF FilesTypeOK, Stages, Opening
<1>3. PICK r : r = [scall[t] EXCEPT !.at = "bitLoaded", !.bits = checkbits]
  OBVIOUS
<1>4. r \in Calls /\ r.at = "bitLoaded" /\ r.bits = checkbits /\ r.fd = scall[t].fd /\ r.obj = scall[t].obj
  BY Zenon, <1>2, <1>3 DEF Calls
<1>5. scall' = [scall EXCEPT ![t] = r]
  BY Zenon, <1>1, <1>3
<1>6. Goes(t, "bitLoaded", scall[t].fd, scall[t].obj) /\ scall'[t].bits = checkbits
  BY ZenonT(60), <1>1, <1>4, <1>5, Becomes
<1>7. FilesTypeOK'
  BY Zenon, <1>1, <1>6 DEF FilesTypeOK, arrayVars, objectVars, fileVars, Goes
<1>8. Alike
  BY <1>1, <1>6 DEF Alike, Goes, Using, Opening, Removing, Owning
<1>9. SlotInv' /\ DataInv' /\ OpenInv' /\ UseInv' /\ CloseInv' /\ SleepInv' /\ CountInv'
  BY Zenon, <1>1, <1>7, <1>8, SameKind
<1>10. WordInv'
  <2>1. \A u \in Users : scall'[u].at = "bitLoaded" => u = t
    BY Zenon, <1>6 DEF Goes
  <2>2. checkbits' = checkbits
    BY Zenon, <1>1 DEF arrayVars
  <2> QED
    BY Zenon, <1>6, <2>1, <2>2 DEF WordInv
<1>11. ReadInv'
  <2>1. \A u \in Users : scall'[u].at = "reading" => scall'[u] = scall[u]
    BY <1>6 DEF Goes
  <2> QED
    BY Zenon, <1>1, <2>1, ReadsStay DEF FilesInv
<1> QED
  BY <1>7, <1>9, <1>10, <1>11 DEF FilesInv

\* checkbits[idx] = true, second half: the word has not changed since.
LEMMA StoreStep ==
  ASSUME FilesInv, NEW t \in Users, StoreWord(t),
         \A u \in Users : u # t => scall[u].at # "bitLoaded"
  PROVE  FilesInv'
<1>1. /\ FilesTypeOK /\ scall[t].at = "bitLoaded" /\ fileVars' = fileVars /\ index' = index /\ capacity' = capacity
      /\ freestack' = freestack /\ data' = data /\ array' = array /\ objectVars' = objectVars /\ aborted' = aborted
      /\ checkbits' = scall[t].bits \cup {scall[t].fd}
      /\ scall' = [scall EXCEPT ![t].at = "bitSet", ![t].seen = array]
  BY DEF StoreWord, InSyscall, FilesInv
<1>2. PICK f \in Fds : f = scall[t].fd
  BY <1>1 DEF FilesTypeOK, Calls
<1>3. checkbits' = checkbits \cup {f}
  BY <1>1, <1>2 DEF FilesInv, WordInv
<1>4. Goes(t, "bitSet", f, scall[t].obj)
  <2>1. scall[t] \in Calls /\ array \in Int /\ "bitSet" \in Stages
    BY <1>1 DEF FilesTypeOK, Stages, Opening
  <2>2. PICK r : r = [scall[t] EXCEPT !.at = "bitSet", !.seen = array]
    OBVIOUS
  <2>3. r \in Calls /\ r.at = "bitSet" /\ r.fd = f /\ r.obj = scall[t].obj
    BY Zenon, <1>2, <2>1, <2>2 DEF Calls
  <2>4. scall' = [scall EXCEPT ![t] = r]
    BY Zenon, <1>1, <2>2
  <2>5. Goes(t, r.at, r.fd, r.obj)
    <3>1. FilesTypeOK
      BY Zenon, <1>1
    <3> QED
      BY Zenon, <2>3, <2>4, <3>1, Becomes
  <2> QED
    BY Zenon, <2>3, <2>5
<1>5. /\ f < index /\ f \notin checkbits /\ f \notin Free /\ data[f] = Garbage
      /\ \A u \in Users : u # t /\ scall[u].at \in Owning => scall[u].fd # f
  BY <1>1, <1>2 DEF FilesInv, SlotInv, OpenInv, Opening, Owning
<1>6. /\ created' = created /\ deleted' = deleted /\ count' = count /\ waiting' = waiting /\ Free' = Free
  BY Zenon, <1>1 DEF objectVars, Free
<1>7. FilesTypeOK'
  <2>1. checkbits' \in SUBSET Fds
    BY <1>1, <1>3 DEF FilesTypeOK
  <2> QED
    BY Zenon, <1>1, <1>4, <2>1 DEF FilesTypeOK, objectVars, fileVars, Goes
<1>8. SlotInv'
  <2>1. \A u \in Users : scall'[u].at \in Owning => u # t /\ scall'[u] = scall[u]
    BY <1>4 DEF Goes, Owning
  <2>2. \A u \in Users : scall[u].at \in Owning => u = t \/ scall'[u] = scall[u]
    BY <1>4 DEF Goes
  <2>3. ASSUME NEW u \in Users, scall'[u].at \in Owning
        PROVE  /\ scall'[u].fd < index' /\ scall'[u].fd \notin checkbits' /\ scall'[u].fd \notin Free'
               /\ \A v \in Users : scall'[v].at \in Owning /\ scall'[v].fd = scall'[u].fd => v = u
    <3>1. u # t /\ scall'[u] = scall[u] /\ scall[u].at \in Owning /\ scall[u].fd # f
      BY <1>5, <2>1, <2>3
    <3>2. scall[u].fd < index /\ scall[u].fd \notin checkbits /\ scall[u].fd \notin Free
      BY Zenon, <3>1 DEF FilesInv, SlotInv
    <3>3. \A v \in Users : scall'[v].at \in Owning /\ scall'[v].fd = scall'[u].fd => v = u
      BY Zenon, <2>1, <3>1 DEF FilesInv, SlotInv
    <3>4. scall'[u].fd \notin checkbits'
      BY Zenon, <1>3, <3>1, <3>2
    <3>5. index' = index /\ Free' = Free
      BY Zenon, <1>1, <1>6
    <3> QED
      BY <3>1, <3>2, <3>3, <3>4, <3>5
  <2>4. \A i \in Fds : i < index' =>
          i \in checkbits' \/ i \in Free' \/ \E u \in Users : scall'[u].at \in Owning /\ scall'[u].fd = i
    <3> SUFFICES ASSUME NEW i \in Fds, i < index', i \notin checkbits', i \notin Free'
                 PROVE  \E u \in Users : scall'[u].at \in Owning /\ scall'[u].fd = i
      OBVIOUS
    <3>1. PICK u \in Users : scall[u].at \in Owning /\ scall[u].fd = i
      BY <1>1, <1>3, <1>6 DEF FilesInv, SlotInv
    <3>2. u # t
      BY <1>2, <1>3, <3>1
    <3> QED
      BY <2>2, <3>1, <3>2
  <2>5. \A i \in checkbits' : i < index'
    BY <1>1, <1>3, <1>5, <1>6 DEF FilesInv, SlotInv
  <2>6. /\ \A k, m \in DOMAIN freestack' : freestack'[k] = freestack'[m] => k = m
        /\ \A i \in Free' : i < index' /\ i \notin checkbits'
    BY <1>1, <1>3, <1>5, <1>6 DEF FilesInv, SlotInv
  <2> QED
    BY Zenon, <2>3, <2>4, <2>5, <2>6 DEF SlotInv
<1>9. DataInv'
  <2>1. Garbage \notin deleted
    BY <1>1, FilesAssumption DEF FilesTypeOK, Objects, Garbage
  <2>2. \A i \in checkbits' : data[i] \notin deleted
    BY <1>3, <1>5, <2>1 DEF FilesInv, DataInv
  <2> QED
    BY <1>1, <1>6, <2>2 DEF FilesInv, DataInv
<1>10. OpenInv'
  <2>1. \A u \in Users : /\ scall'[u].fd = scall[u].fd /\ scall'[u].obj = scall[u].obj
                         /\ scall'[u].at \in Opening <=> scall[u].at \in Opening
                         /\ scall'[u].at = "bitSet" => u = t \/ scall[u].at = "bitSet"
    BY <1>1, <1>2, <1>4 DEF Goes, Opening
  <2>2. \A u \in Users : scall[u].at = "bitSet" => scall[u].fd \in checkbits
    BY DEF FilesInv, OpenInv
  <2>3. \A u \in Users : scall'[u].at = "bitSet" =>
          /\ scall'[u].fd \in checkbits'
          /\ \A v \in Users : scall'[v].at = "bitSet" /\ scall'[v].fd = scall'[u].fd => v = u
    BY <1>2, <1>3, <1>5, <2>1, <2>2 DEF FilesInv, OpenInv
  <2>4. ASSUME NEW u \in Users, scall'[u].at \in Opening
        PROVE  /\ scall'[u].obj # Garbage /\ scall'[u].obj <= created' /\ scall'[u].obj \notin deleted'
               /\ data'[scall'[u].fd] = Garbage /\ \A j \in Fds : data'[j] # scall'[u].obj
               /\ \A v \in Users : scall'[v].at \in Opening /\ scall'[v].obj = scall'[u].obj => v = u
    <3>1. scall'[u].fd = scall[u].fd /\ scall'[u].obj = scall[u].obj /\ scall[u].at \in Opening
      BY <2>1, <2>4
    <3>2. /\ scall[u].obj # Garbage /\ scall[u].obj <= created /\ scall[u].obj \notin deleted
          /\ data[scall[u].fd] = Garbage /\ \A j \in Fds : data[j] # scall[u].obj
          /\ \A v \in Users : scall[v].at \in Opening /\ scall[v].obj = scall[u].obj => v = u
      BY Zenon, <3>1 DEF FilesInv, OpenInv
    <3>3. \A v \in Users : scall'[v].at \in Opening /\ scall'[v].obj = scall'[u].obj => v = u
      BY <2>1, <3>1, <3>2
    <3>4. created' = created /\ deleted' = deleted /\ data' = data
      BY Zenon, <1>1, <1>6
    <3> QED
      BY <3>1, <3>2, <3>3, <3>4
  <2> QED
    BY Zenon, <2>3, <2>4 DEF OpenInv
<1>11. UseInv'
  <2>1. \A u \in Users : scall'[u].at \in Using \cup Removing => scall'[u] = scall[u]
    BY <1>4 DEF Goes, Using, Removing
  <2> QED
    BY Zenon, <1>1, <1>3, <2>1 DEF FilesInv, UseInv
<1>12. CloseInv'
  <2>1. \A u \in Users : /\ scall'[u].at = "closing" => scall'[u] = scall[u]
                         /\ scall'[u].at \in Opening => scall[u].at \in Opening /\ scall'[u].obj = scall[u].obj
    BY <1>1, <1>4 DEF Goes, Opening
  <2> QED
    <3> SUFFICES ASSUME NEW u \in Users, scall'[u].at = "closing"
                 PROVE  /\ scall'[u].obj # Garbage /\ scall'[u].obj <= created'
                        /\ \A j \in Fds : data'[j] = scall'[u].obj => j = scall'[u].fd
                        /\ \A v \in Users : scall'[v].at \in Opening => scall'[v].obj # scall'[u].obj
      BY Zenon DEF CloseInv
    <3>1. scall'[u] = scall[u] /\ scall[u].at = "closing"
      BY <2>1
    <3>2. /\ scall[u].obj # Garbage /\ scall[u].obj <= created
          /\ \A j \in Fds : data[j] = scall[u].obj => j = scall[u].fd
          /\ \A v \in Users : scall[v].at \in Opening => scall[v].obj # scall[u].obj
      BY Zenon, <3>1 DEF FilesInv, CloseInv
    <3>3. created' = created /\ data' = data
      BY Zenon, <1>1, <1>6
    <3>4. \A v \in Users : scall'[v].at \in Opening => scall'[v].obj # scall'[u].obj
      BY Zenon, <2>1, <3>1, <3>2
    <3> QED
      BY <3>1, <3>2, <3>3, <3>4
<1>13. SleepInv'
  <2>1. \A o \in Objects : \A k \in DOMAIN waiting[o] : waiting[o][k] \in Users /\ waiting[o][k] # t
    BY <1>1 DEF FilesTypeOK, FilesInv, SleepInv
  <2> QED
    BY <1>4, <1>6, <2>1 DEF FilesInv, SleepInv, Goes
<1>14. CountInv' /\ ReadInv' /\ WordInv'
  <2>1. \A u \in Users : /\ scall'[u].at \in Using <=> scall[u].at \in Using
                         /\ scall[u].at \in Using => scall'[u].obj = scall[u].obj
    BY <1>1, <1>4 DEF Goes, Using
  <2>2. \A u \in Users : scall'[u].at # "bitLoaded" /\ (scall'[u].at = "reading" => scall'[u] = scall[u])
    BY <1>4 DEF Goes
  <2> QED
    BY Zenon, <1>1, <1>6, <2>1, <2>2, CountStays, ReadsStay, WordStays DEF FilesInv
<1> QED
  BY <1>7, <1>8, <1>9, <1>10, <1>11, <1>12, <1>13, <1>14 DEF FilesInv

\* data[idx] = elem, which is lost if the array has been replaced meanwhile.
LEMMA SetStep ==
  ASSUME FilesInv, NEW t \in Users, SetElement(t),
         \A u \in Users : u # t => scall[u].at # "bitLoaded"
  PROVE  FilesInv'
<1>1. /\ FilesTypeOK /\ scall[t].at = "bitSet" /\ fileVars' = fileVars /\ index' = index /\ capacity' = capacity
      /\ freestack' = freestack /\ checkbits' = checkbits /\ array' = array /\ objectVars' = objectVars
      /\ aborted' = aborted /\ EndCall(t)
      /\ data' = data \/ data' = [data EXCEPT ![scall[t].fd] = scall[t].obj]
  BY DEF SetElement, InSyscall, FilesInv
<1>2. PICK f \in Fds, o \in 0..MaxObjects : f = scall[t].fd /\ o = scall[t].obj
  BY <1>1 DEF FilesTypeOK, Calls
<1>3. /\ o # Garbage /\ o <= created /\ o \notin deleted /\ data[f] = Garbage /\ f \in checkbits
      /\ \A j \in Fds : data[j] # o
      /\ \A u \in Users : u # t /\ scall[u].at \in Opening => scall[u].obj # o
      /\ \A u \in Users : u # t /\ scall[u].at = "bitSet" => scall[u].fd # f
      /\ \A u \in Users : scall[u].at = "closing" => scall[u].obj # o
  <2>1. scall[t].at \in Opening
    BY Zenon, <1>1 DEF Opening
  <2> QED
    BY Zenon, <1>1, <1>2, <2>1 DEF FilesInv, OpenInv, CloseInv
<1>4. Goes(t, "user", 0, Garbage)
  BY <1>1, Ends
<1>5. /\ created' = created /\ deleted' = deleted /\ count' = count /\ waiting' = waiting /\ Free' = Free
  BY Zenon, <1>1 DEF objectVars, Free
<1>6. data \in [Fds -> 0..MaxObjects] /\ data' \in [Fds -> 0..MaxObjects]
  BY <1>1, <1>2 DEF FilesTypeOK
<1>7. /\ data'[f] = Garbage \/ data'[f] = o
      /\ \A j \in Fds : j # f => data'[j] = data[j]
  BY <1>1, <1>2, <1>3, <1>6
<1>8. FilesTypeOK'
  BY Zenon, <1>1, <1>4, <1>6 DEF FilesTypeOK, objectVars, fileVars, Goes
<1>9. SlotInv'
  <2>1. \A u \in Users : /\ scall'[u].at \in Owning <=> scall[u].at \in Owning
                         /\ scall[u].at \in Owning => scall'[u].fd = scall[u].fd
    BY <1>1, <1>4 DEF Goes, Owning
  <2> QED
    BY Zenon, <1>1, <2>1, SlotsStay DEF FilesInv
<1>10. f \notin Free /\ f < index
  BY <1>3 DEF FilesInv, SlotInv
<1>11. DataInv'
  <2>1. \A i, j \in Fds : data'[i] = data'[j] => i = j \/ data'[i] = Garbage
    BY <1>3, <1>7 DEF FilesInv, DataInv
  <2>2. index \in Nat /\ f \in Nat /\ created \in Nat
    BY <1>1, FilesAssumption DEF FilesTypeOK, Fds
  <2>3. \A i \in Fds : data'[i] <= created /\ (i >= index \/ i \in Free => data'[i] = Garbage)
    <3>1. \A i \in Fds : i # f => data'[i] <= created /\ (i >= index \/ i \in Free => data'[i] = Garbage)
      BY <1>7 DEF FilesInv, DataInv
    <3>2. data'[f] <= created
      BY <1>3, <1>7, <2>2 DEF Garbage
    <3>3. ~(f >= index) /\ f \notin Free
      BY <1>10, <2>2
    <3> QED
      BY Zenon, <3>1, <3>2, <3>3
  <2>4. Garbage \notin deleted
    BY <1>1, FilesAssumption DEF FilesTypeOK, Objects, Garbage
  <2>5. \A i \in checkbits : i \in Fds /\ data'[i] \notin deleted
    BY <1>1, <1>3, <1>7, <2>4 DEF FilesInv, DataInv, FilesTypeOK
  <2> QED
    BY <1>1, <1>5, <2>1, <2>3, <2>5 DEF FilesInv, DataInv
<1>12. \A u \in Users : u # t => scall'[u] = scall[u]
  BY <1>4 DEF Goes
<1>13. \A u \in Users : scall'[u].at # "user" => u # t /\ scall'[u] = scall[u]
  BY <1>4 DEF Goes
<1>14. OpenInv'
  <2>1. ASSUME NEW u \in Users, scall'[u].at \in Opening
        PROVE  u # t /\ scall'[u] = scall[u] /\ scall[u].fd \in Fds /\ scall[u].at \in Opening
    BY Zenon, <1>1, <1>13, <2>1 DEF Opening, FilesTypeOK, Calls
  <2>2. ASSUME NEW u \in Users, scall'[u].at \in Opening
        PROVE  data'[scall[u].fd] = Garbage /\ \A j \in Fds : data'[j] # scall[u].obj
    <3>1. scall[u].fd # f
      <4>1. CASE scall[u].at = "bitSet"
        BY <1>3, <2>1, <2>2, <4>1
      <4>2. CASE scall[u].at \in Owning
        BY <1>3, <4>2 DEF FilesInv, SlotInv
      <4> QED
        BY Zenon, <2>1, <2>2, <4>1, <4>2 DEF Opening, Owning
    <3>2. /\ scall[u].obj # o /\ scall[u].obj # Garbage /\ data[scall[u].fd] = Garbage
          /\ \A j \in Fds : data[j] # scall[u].obj
      BY Zenon, <1>3, <2>1, <2>2 DEF FilesInv, OpenInv
    <3> QED
      BY Zenon, <1>7, <2>1, <2>2, <3>1, <3>2
  <2>3. \A u \in Users : scall'[u].at \in Opening =>
          /\ scall'[u].obj # Garbage /\ scall'[u].obj <= created /\ scall'[u].obj \notin deleted
          /\ \A v \in Users : scall'[v].at \in Opening /\ scall'[v].obj = scall'[u].obj => v = u
    BY <2>1 DEF FilesInv, OpenInv
  <2>4. \A u \in Users : scall'[u].at = "bitSet" =>
          /\ scall'[u].fd \in checkbits
          /\ \A v \in Users : scall'[v].at = "bitSet" /\ scall'[v].fd = scall'[u].fd => v = u
    BY <1>13 DEF FilesInv, OpenInv
  <2> QED
    BY Zenon, <1>1, <1>5, <2>1, <2>2, <2>3, <2>4 DEF OpenInv
<1>15. UseInv'
  <2>1. \A u \in Users : scall'[u].at \in Using \cup Removing => scall'[u] = scall[u]
    BY <1>4 DEF Goes, Using, Removing
  <2>2. \A u \in Users : scall[u].at \in Using \cup Removing => scall[u].fd \in Fds /\ scall[u].fd # f
    <3>1. \A u \in Users : scall[u].fd \in Fds
      BY <1>1 DEF FilesTypeOK, Calls
    <3> QED
      BY <1>3, <3>1 DEF FilesInv, UseInv
  <2> QED
    BY <1>1, <1>7, <2>1, <2>2 DEF FilesInv, UseInv
<1>16. CloseInv'
  <2>1. \A u \in Users : /\ scall'[u].at = "closing" => scall'[u] = scall[u]
                         /\ scall'[u].at \in Opening => scall'[u] = scall[u]
    BY <1>4 DEF Goes, Opening
  <2>2. \A u \in Users : scall[u].at = "closing" => \A j \in Fds : data'[j] = scall[u].obj => j = scall[u].fd
    BY <1>3, <1>7 DEF FilesInv, CloseInv
  <2> QED
    BY <1>5, <2>1, <2>2 DEF FilesInv, CloseInv
<1>17. SleepInv'
  <2>1. \A a \in Objects : \A k \in DOMAIN waiting[a] : waiting[a][k] \in Users /\ waiting[a][k] # t
    BY <1>1 DEF FilesTypeOK, FilesInv, SleepInv
  <2> QED
    BY <1>5, <1>12, <2>1 DEF FilesInv, SleepInv
<1>18. CountInv' /\ ReadInv' /\ WordInv'
  <2>1. \A u \in Users : /\ scall'[u].at \in Using <=> scall[u].at \in Using
                         /\ scall[u].at \in Using => scall'[u].obj = scall[u].obj
    BY Zenon, <1>1, <1>4 DEF Goes, Using
  <2>2. \A u \in Users : scall'[u].at # "bitLoaded" /\ (scall'[u].at = "reading" => scall'[u] = scall[u])
    BY <1>4 DEF Goes
  <2> QED
    BY Zenon, <1>1, <1>5, <2>1, <2>2, CountStays, ReadsStay, WordStays DEF FilesInv
<1> QED
  BY <1>8, <1>9, <1>11, <1>14, <1>15, <1>16, <1>17, <1>18 DEF FilesInv

-----------------------------------------------------------------------------
(* access, done, and close. *)

\* Nothing happens.
LEMMA IdleStep == ASSUME FilesInv, UNCHANGED filesVars PROVE FilesInv'
<1>1. /\ aborted' = aborted /\ arrayVars' = arrayVars /\ objectVars' = objectVars /\ fileVars' = fileVars
      /\ scall' = scall
  BY Zenon DEF filesVars
<1>2. FilesTypeOK'
  BY <1>1 DEF FilesInv, FilesTypeOK, arrayVars, objectVars, fileVars
<1>3. Alike
  BY Zenon, <1>1 DEF Alike
<1>4. SlotInv' /\ DataInv' /\ OpenInv' /\ UseInv' /\ CloseInv' /\ SleepInv' /\ CountInv'
  BY Zenon, <1>1, <1>2, <1>3, SameKind
<1>5. ReadInv'
  BY Zenon, <1>1, ReadsStay DEF FilesInv
<1>6. WordInv'
  BY Zenon, <1>1 DEF WordInv, FilesInv, arrayVars
<1> QED
  BY <1>2, <1>4, <1>5, <1>6 DEF FilesInv

\* No open begins or goes on, and no element but Garbage is written.
LEMMA OpenStays ==
  ASSUME FilesTypeOK, OpenInv, created' = created, \A j \in Fds : data'[j] = data[j] \/ data'[j] = Garbage,
         \A u \in Users : scall'[u].at \in Opening => scall'[u] = scall[u] /\ scall[u].obj \notin deleted',
         \A u \in Users : scall'[u].at = "bitSet" => scall[u].fd \in checkbits'
  PROVE  OpenInv'
<1>1. ASSUME NEW u \in Users, scall'[u].at \in Opening
      PROVE  /\ scall'[u].obj # Garbage /\ scall'[u].obj <= created' /\ scall'[u].obj \notin deleted'
             /\ data'[scall'[u].fd] = Garbage /\ \A j \in Fds : data'[j] # scall'[u].obj
             /\ \A v \in Users : scall'[v].at \in Opening /\ scall'[v].obj = scall'[u].obj => v = u
  <2>1. scall'[u] = scall[u] /\ scall[u].obj \notin deleted' /\ scall[u].at \in Opening
    BY Zenon, <1>1
  <2>2. /\ scall[u].obj # Garbage /\ scall[u].obj <= created
        /\ data[scall[u].fd] = Garbage /\ \A j \in Fds : data[j] # scall[u].obj
        /\ \A v \in Users : scall[v].at \in Opening /\ scall[v].obj = scall[u].obj => v = u
    BY Zenon, <2>1 DEF OpenInv
  <2>3. scall[u].fd \in Fds
    BY DEF FilesTypeOK, Calls
  <2>4. \A v \in Users : scall'[v].at \in Opening /\ scall'[v].obj = scall'[u].obj => v = u
    BY Zenon, <2>1, <2>2
  <2>5. data'[scall[u].fd] = Garbage
    BY Zenon, <2>2, <2>3
  <2>6. \A j \in Fds : data'[j] # scall[u].obj
    BY Zenon, <2>2
  <2> QED
    BY <2>1, <2>2, <2>4, <2>5, <2>6
<1>2. ASSUME NEW u \in Users, scall'[u].at = "bitSet"
      PROVE  /\ scall'[u].fd \in checkbits'
             /\ \A v \in Users : scall'[v].at = "bitSet" /\ scall'[v].fd = scall'[u].fd => v = u
  <2>1. \A v \in Users : scall'[v].at = "bitSet" => scall'[v] = scall[v]
    BY Zenon, StageNames
  <2> QED
    BY Zenon, <1>2, <2>1 DEF OpenInv
<1> QED
  BY Zenon, <1>1, <1>2 DEF OpenInv

\* No close begins to sleep, and no element but Garbage is written.
LEMMA CloseStays ==
  ASSUME CloseInv, created' = created, \A j \in Fds : data'[j] = data[j] \/ data'[j] = Garbage,
         \A u \in Users : scall'[u].at \in Opening \/ scall'[u].at = "closing" => scall'[u] = scall[u]
  PROVE  CloseInv'
<1> SUFFICES ASSUME NEW u \in Users, scall'[u].at = "closing"
             PROVE  /\ scall'[u].obj # Garbage /\ scall'[u].obj <= created'
                    /\ \A j \in Fds : data'[j] = scall'[u].obj => j = scall'[u].fd
                    /\ \A v \in Users : scall'[v].at \in Opening => scall'[v].obj # scall'[u].obj
  BY Zenon DEF CloseInv
<1>1. scall'[u] = scall[u] /\ scall[u].at = "closing"
  BY Zenon
<1>2. /\ scall[u].obj # Garbage /\ scall[u].obj <= created
      /\ \A j \in Fds : data[j] = scall[u].obj => j = scall[u].fd
      /\ \A v \in Users : scall[v].at \in Opening => scall[v].obj # scall[u].obj
  BY Zenon, <1>1 DEF CloseInv
<1>3. \A v \in Users : scall'[v].at \in Opening => scall'[v].obj # scall'[u].obj
  BY Zenon, <1>1, <1>2
<1>4. \A j \in Fds : data'[j] = scall[u].obj => j = scall[u].fd
  BY Zenon, <1>2
<1> QED
  BY <1>1, <1>2, <1>3, <1>4

\* The queues stay, and nobody who sleeps moves.
LEMMA SleepStays ==
  ASSUME FilesTypeOK, SleepInv, waiting' = waiting,
         \A u \in Users : scall[u].at = "closing" => scall'[u].at = "closing" /\ scall'[u].obj = scall[u].obj
  PROVE  SleepInv'
<1>1. \A o \in Objects : \A k \in DOMAIN waiting[o] : waiting[o][k] \in Users
  BY DEF FilesTypeOK
<1> QED
  BY ZenonT(60), <1>1 DEF SleepInv

\* access(): one more call uses the object.
LEMMA AccessStep ==
  ASSUME FilesInv, NEW t \in Users, NEW i \in Fds, AccessHandle(t, i),
         \A u \in Users : u # t => scall[u].at # "bitLoaded"
  PROVE  FilesInv'
<1>1. CASE ~ValidFd(i)
  <2>1. UNCHANGED filesVars
    BY Zenon, <1>1 DEF AccessHandle
  <2> QED
    BY Zenon, <2>1, IdleStep
<1>2. CASE ValidFd(i) /\ data[i] = Garbage
  <2>1. AbortKernel
    BY Zenon, <1>2 DEF AccessHandle
  <2> QED
    BY Zenon, <2>1, AbortStep
<1>3. CASE ValidFd(i) /\ data[i] # Garbage /\ waiting[data[i]] # <<>>
  <2>1. UNCHANGED filesVars
    BY Zenon, <1>3 DEF AccessHandle
  <2> QED
    BY Zenon, <2>1, IdleStep
<1>4. CASE ValidFd(i) /\ data[i] # Garbage /\ ~(waiting[data[i]] # <<>>)
  <2>1. PICK o \in Objects : o = data[i]
    BY <1>4, FilesAssumption DEF FilesInv, FilesTypeOK, Objects, Garbage
  <2>2. /\ FilesTypeOK /\ scall[t].at = "user" /\ count' = [count EXCEPT ![o] = @ + 1] /\ StartCall(t, "using", i, o)
        /\ arrayVars' = arrayVars /\ created' = created /\ deleted' = deleted /\ waiting' = waiting
        /\ fileVars' = fileVars /\ aborted' = aborted
    BY Zenon, <1>4, <2>1 DEF AccessHandle, InSyscall, FilesInv
  <2>3. Goes(t, "using", i, o)
    <3>1. "using" \in Stages /\ o \in 0..MaxObjects /\ 0 \in Int
      BY <2>1, FilesAssumption DEF Stages, Using, Objects
    <3> QED
      BY Zenon, <2>2, <3>1, Starts
  <2>4. \A u \in Users : /\ u # t => scall'[u] = scall[u]
                         /\ scall'[u].at = "using" \/ u # t
    BY Zenon, <2>3 DEF Goes
  <2>5. /\ index' = index /\ freestack' = freestack /\ checkbits' = checkbits /\ data' = data /\ Free' = Free
    BY Zenon, <2>2 DEF arrayVars, Free
  <2>6. FilesTypeOK'
    <3>1. count' \in [Objects -> Nat]
      BY <2>1, <2>2 DEF FilesTypeOK
    <3> QED
      BY Zenon, <2>2, <2>3, <3>1 DEF FilesTypeOK, arrayVars, fileVars, Goes
  <2>7. "using" \in Using /\ "using" \notin Opening \cup Owning \cup Removing /\ "user" \notin Opening \cup Owning \cup Using
    BY DEF Using, Opening, Owning, Removing
  <2>8. SlotInv'
    BY Zenon, <2>2, <2>3, <2>4, <2>5, <2>7, SlotsStay DEF FilesInv, Goes
  <2>9. DataInv'
    BY Zenon, <2>2, <2>5 DEF DataInv, FilesInv
  <2>10. \A u \in Users : scall'[u].at \in Opening \/ scall'[u].at = "closing" => scall'[u] = scall[u]
    BY <2>3, <2>4, <2>7 DEF Goes
  <2>11. OpenInv'
    <3>1. \A u \in Users : scall'[u].at \in Opening => scall'[u] = scall[u] /\ scall[u].obj \notin deleted'
      BY Zenon, <2>2, <2>10 DEF FilesInv, OpenInv
    <3>2. \A u \in Users : scall'[u].at = "bitSet" => scall[u].fd \in checkbits'
      BY Zenon, <2>3, <2>4, <2>5 DEF FilesInv, OpenInv, Goes
    <3> QED
      BY Zenon, <2>2, <2>5, <3>1, <3>2, OpenStays DEF FilesInv
  <2>12. UseInv'
    <3>1. \A u \in Users : scall'[u].at \in Using => scall'[u].fd \in checkbits
      BY Zenon, <1>4, <2>3, <2>4 DEF Goes, FilesInv, UseInv, ValidFd
    <3>2. \A u \in Users : scall'[u].at \in Using \cup Removing => data[scall'[u].fd] = scall'[u].obj /\ scall'[u].obj # Garbage
      BY Zenon, <1>4, <2>1, <2>3, <2>4 DEF Goes, FilesInv, UseInv
    <3> QED
      BY Zenon, <2>5, <3>1, <3>2 DEF UseInv
  <2>13. CloseInv'
    BY Zenon, <2>2, <2>5, <2>10, CloseStays DEF FilesInv
  <2>14. SleepInv'
    <3>1. \A u \in Users : scall[u].at = "closing" => u # t
      BY Zenon, <2>2
    <3> QED
      BY Zenon, <2>2, <2>4, <3>1, SleepStays DEF FilesInv
  <2>15. CountInv'
    <3>1. ASSUME NEW a \in Objects, a # o PROVE UsersOf(a)' = UsersOf(a)
      <4>1. \A u \in Users : scall'[u].at \in Using /\ scall'[u].obj = a <=> scall[u].at \in Using /\ scall[u].obj = a
        BY <2>2, <2>3, <2>7, <3>1 DEF Goes
      <4> QED
        BY Zenon, <4>1 DEF UsersOf
    <3>2. UsersOf(o)' = UsersOf(o) \cup {t} /\ t \notin UsersOf(o)
      <4>1. \A u \in Users : scall'[u].at \in Using /\ scall'[u].obj = o <=> u = t \/ (scall[u].at \in Using /\ scall[u].obj = o)
        BY <2>3, <2>7 DEF Goes
      <4>2. scall[t].at \notin Using
        BY <2>2, <2>7
      <4> QED
        BY <4>1, <4>2 DEF UsersOf
    <3>3. count'[o] = count[o] + 1 /\ \A a \in Objects : a # o => count'[a] = count[a]
      BY <2>2 DEF FilesTypeOK
    <3>4. UsersOf(o) \in SUBSET Users /\ t \in Users \ UsersOf(o) /\ count[o] = Cardinality(UsersOf(o))
      BY Zenon, <3>2 DEF UsersOf, FilesInv, CountInv
    <3>5. Cardinality(UsersOf(o)') = count[o] + 1
      BY Zenon, <3>2, <3>4, UserSets
    <3> QED
      BY Zenon, <3>1, <3>3, <3>5 DEF CountInv, FilesInv
  <2>16. ReadInv' /\ WordInv'
    <3>1. \A u \in Users : scall'[u].at # "bitLoaded" /\ (scall'[u].at = "reading" => scall'[u] = scall[u])
      BY <2>3 DEF Goes
    <3> QED
      BY Zenon, <2>2, <3>1, ReadsStay, WordStays DEF FilesInv
  <2> QED
    BY Zenon, <2>6, <2>8, <2>9, <2>11, <2>12, <2>13, <2>14, <2>15, <2>16 DEF FilesInv
<1> QED
  BY Zenon, <1>1, <1>2, <1>3, <1>4

\* One call less uses object o.
LEMMA CountLess ==
  ASSUME FilesInv, NEW t \in Users, NEW o \in Objects, scall[t].at \in Using, scall[t].obj = o,
         count' = [count EXCEPT ![o] = @ - 1], scall'[t].at \notin Using,
         \A u \in Users : u # t => /\ scall'[u].at \in Using <=> scall[u].at \in Using
                                   /\ scall[u].at \in Using => scall'[u].obj = scall[u].obj
  PROVE  CountInv' /\ count' \in [Objects -> Nat]
<1>1. ASSUME NEW a \in Objects, a # o PROVE UsersOf(a)' = UsersOf(a)
  <2>1. \A u \in Users : scall'[u].at \in Using /\ scall'[u].obj = a <=> scall[u].at \in Using /\ scall[u].obj = a
    BY Zenon, <1>1
  <2> QED
    BY Zenon, <2>1 DEF UsersOf
<1>2. UsersOf(o)' = UsersOf(o) \ {t} /\ t \in UsersOf(o)
  <2>1. \A u \in Users : scall'[u].at \in Using /\ scall'[u].obj = o <=> u # t /\ (scall[u].at \in Using /\ scall[u].obj = o)
    BY Zenon
  <2> QED
    BY Zenon, <2>1 DEF UsersOf
<1>3. count'[o] = count[o] - 1 /\ \A a \in Objects : a # o => count'[a] = count[a]
  BY DEF FilesInv, FilesTypeOK
<1>4. UsersOf(o) \in SUBSET Users /\ count[o] = Cardinality(UsersOf(o))
  BY Zenon DEF UsersOf, FilesInv, CountInv
<1>5. Cardinality(UsersOf(o)') = count[o] - 1
  BY Zenon, <1>2, <1>4, UserSets
<1>6. UsersOf(o)' \in SUBSET Users
  BY Zenon DEF UsersOf
<1>7. count[o] - 1 \in Nat
  BY Zenon, <1>5, <1>6, UserSets
<1>8. count' \in [Objects -> Nat]
  BY <1>7 DEF FilesInv, FilesTypeOK
<1> QED
  BY Zenon, <1>1, <1>3, <1>5, <1>8 DEF CountInv, FilesInv

\* WakeCloser: one call returns, and the close it wakes goes on.
LEMMA Wakes ==
  ASSUME FilesTypeOK, NEW t \in Users, NEW w \in Users, w # t, scall[w].at = "closing", WakeCloser(t, w)
  PROVE  /\ scall' \in [Users -> Calls] /\ scall'[t].at = "user"
         /\ scall'[w].at = "removed" /\ scall'[w].fd = scall[w].fd /\ scall'[w].obj = scall[w].obj
         /\ \A u \in Users : u # t /\ u # w => scall'[u] = scall[u]
<1>1. scall \in [Users -> Calls] /\ scall[w] \in Calls
  BY DEF FilesTypeOK
<1>2. PICK r : r = [scall[w] EXCEPT !.at = "removed"]
  BY Zenon
<1>3. "removed" \in Stages
  BY DEF Stages, Removing
<1>4. r \in Calls /\ r.at = "removed" /\ r.fd = scall[w].fd /\ r.obj = scall[w].obj
  BY Zenon, <1>1, <1>2, <1>3 DEF Calls
<1>5. NoSyscall \in Calls /\ NoSyscall.at = "user"
  <2>1. 0 \in Fds /\ 0 \in 0..MaxObjects /\ "user" \in Stages
    BY FilesAssumption, StageNames DEF Fds
  <2> QED
    BY <2>1 DEF NoSyscall, Calls, Garbage
<1>6. scall' = [scall EXCEPT ![t] = NoSyscall, ![w] = r]
  BY <1>1, <1>2 DEF WakeCloser
<1> QED
  BY Zenon, <1>1, <1>4, <1>5, <1>6

\* done(): the last call that uses an object hands it to a close that waits.
LEMMA DoneStep ==
  ASSUME FilesInv, NEW t \in Users, DoneHandle(t),
         \A u \in Users : u # t => scall[u].at # "bitLoaded"
  PROVE  FilesInv'
<1> DEFINE i == scall[t].fd
<1>1. FilesTypeOK /\ scall[t].at = "used" /\ scall[t].at \in Using /\ i \in Fds
  BY Zenon DEF DoneHandle, InSyscall, FilesInv, FilesTypeOK, Calls, Using
<1>2. PICK o \in Objects : o = data[i] /\ o = scall[t].obj /\ o # Garbage /\ i \in checkbits
  <2>1. data[i] = scall[t].obj /\ data[i] # Garbage /\ i \in checkbits
    BY Zenon, <1>1 DEF FilesInv, UseInv
  <2> QED
    BY <1>1, <2>1, FilesAssumption DEF FilesTypeOK, Objects, Garbage
<1> HIDE DEF i
<1>3. ~AbortKernel => /\ count' = [count EXCEPT ![o] = @ - 1]
                      /\ \/ /\ count[o] = 1 /\ waiting[o] # <<>> /\ checkbits' = checkbits \ {i}
                            /\ waiting' = [waiting EXCEPT ![o] = Tail(@)] /\ WakeCloser(t, Head(waiting[o]))
                         \/ EndCall(t) /\ checkbits' = checkbits /\ waiting' = waiting
                      /\ index' = index /\ capacity' = capacity /\ freestack' = freestack /\ data' = data /\ array' = array
                      /\ created' = created /\ deleted' = deleted /\ fileVars' = fileVars /\ aborted' = aborted
  BY Zenon, <1>2 DEF DoneHandle, i
<1>4. CASE AbortKernel
  BY Zenon, <1>4, AbortStep
<1>5. CASE /\ count' = [count EXCEPT ![o] = @ - 1] /\ EndCall(t) /\ checkbits' = checkbits /\ waiting' = waiting
           /\ index' = index /\ capacity' = capacity /\ freestack' = freestack /\ data' = data /\ array' = array
           /\ created' = created /\ deleted' = deleted /\ fileVars' = fileVars /\ aborted' = aborted
  <2>1. Goes(t, "user", 0, Garbage)
    BY Zenon, <1>1, <1>5, Ends
  <2>2. scall' \in [Users -> Calls] /\ scall'[t].at = "user" /\ \A u \in Users : u # t => scall'[u] = scall[u]
    BY Zenon, <2>1 DEF Goes
  <2>3. "used" \notin Opening \cup Owning \cup Removing /\ "user" \notin Opening \cup Owning \cup Using \cup Removing
    BY DEF Using, Opening, Owning, Removing
  <2>4. CountInv' /\ count' \in [Objects -> Nat]
    BY Zenon, <1>1, <1>2, <1>5, <2>2, <2>3, CountLess
  <2>5. FilesTypeOK'
    BY Zenon, <1>1, <1>5, <2>2, <2>4 DEF FilesTypeOK, fileVars
  <2>6. SlotInv'
    BY Zenon, <1>1, <1>5, <2>2, <2>3, SlotsStay DEF FilesInv
  <2>7. DataInv'
    <3>1. Free' = Free
      BY Zenon, <1>5 DEF Free
    <3> QED
      BY Zenon, <1>5, <3>1 DEF DataInv, FilesInv
  <2>8. \A u \in Users : scall'[u].at \in Opening \/ scall'[u].at = "closing" => scall'[u] = scall[u]
    BY Zenon, <2>2, <2>3
  <2>9. OpenInv'
    <3>1. \A u \in Users : scall'[u].at \in Opening => scall'[u] = scall[u] /\ scall[u].obj \notin deleted'
      BY Zenon, <1>5, <2>8 DEF FilesInv, OpenInv
    <3>2. \A u \in Users : scall'[u].at = "bitSet" => scall[u].fd \in checkbits'
      BY Zenon, <1>5, <2>2 DEF FilesInv, OpenInv
    <3> QED
      BY Zenon, <1>1, <1>5, <3>1, <3>2, OpenStays DEF FilesInv
  <2>10. UseInv'
    <3>1. \A u \in Users : scall'[u].at \in Using \cup Removing => scall'[u] = scall[u]
      BY Zenon, <2>2, <2>3
    <3> QED
      BY Zenon, <1>5, <3>1 DEF FilesInv, UseInv
  <2>11. CloseInv'
    BY Zenon, <1>5, <2>8, CloseStays DEF FilesInv
  <2>12. SleepInv'
    <3>1. \A u \in Users : scall[u].at = "closing" => u # t
      BY Zenon, <1>1
    <3> QED
      BY Zenon, <1>1, <1>5, <2>2, <3>1, SleepStays DEF FilesInv
  <2>13. ReadInv' /\ WordInv'
    <3>1. \A u \in Users : scall'[u].at # "bitLoaded" /\ (scall'[u].at = "reading" => scall'[u] = scall[u])
      BY <2>2
    <3> QED
      BY Zenon, <1>5, <3>1, ReadsStay, WordStays DEF FilesInv
  <2> QED
    BY Zenon, <2>4, <2>5, <2>6, <2>7, <2>9, <2>10, <2>11, <2>12, <2>13 DEF FilesInv
<1>6. CASE /\ count' = [count EXCEPT ![o] = @ - 1] /\ count[o] = 1 /\ waiting[o] # <<>> /\ checkbits' = checkbits \ {i}
           /\ waiting' = [waiting EXCEPT ![o] = Tail(@)] /\ WakeCloser(t, Head(waiting[o]))
           /\ index' = index /\ capacity' = capacity /\ freestack' = freestack /\ data' = data /\ array' = array
           /\ created' = created /\ deleted' = deleted /\ fileVars' = fileVars /\ aborted' = aborted
  <2>1. waiting[o] \in Seq(Users) /\ waiting[o] # <<>>
    BY Zenon, <1>1, <1>6 DEF FilesTypeOK
  <2>2. PICK w \in Users : w = Head(waiting[o]) /\ w = waiting[o][1] /\ 1 \in DOMAIN waiting[o]
    BY <2>1
  <2>3. scall[w].at = "closing" /\ scall[w].obj = o
    <3>1. scall[waiting[o][1]].at = "closing" /\ scall[waiting[o][1]].obj = o
      BY Zenon, <2>2 DEF FilesInv, SleepInv
    <3> QED
      BY Zenon, <2>2, <3>1
  <2>4. w # t
    BY <1>1, <2>3
  <2>5. scall[w].fd = i
    BY Zenon, <1>1, <1>2, <2>3 DEF FilesInv, CloseInv
  <2>6. /\ scall' \in [Users -> Calls] /\ scall'[t].at = "user"
        /\ scall'[w].at = "removed" /\ scall'[w].fd = i /\ scall'[w].obj = o
        /\ \A u \in Users : u # t /\ u # w => scall'[u] = scall[u]
    BY ZenonT(60), <1>1, <1>6, <2>2, <2>3, <2>4, <2>5, Wakes
  <2>7. /\ "used" \notin Opening \cup Owning \cup Removing /\ "user" \notin Opening \cup Owning \cup Using \cup Removing
        /\ "closing" \notin Opening \cup Owning \cup Using \cup Removing /\ "removed" \notin Opening \cup Using
        /\ "removed" \in Owning
    BY DEF Using, Opening, Owning, Removing
  <2>8. CountInv' /\ count' \in [Objects -> Nat]
    BY Zenon, <1>1, <1>2, <1>6, <2>3, <2>6, <2>7, CountLess
  <2>9. waiting' \in [Objects -> Seq(Users)]
    <3>1. Tail(waiting[o]) \in Seq(Users)
      BY <2>1
    <3> QED
      BY Zenon, <1>1, <1>6, <3>1 DEF FilesTypeOK
  <2>10. FilesTypeOK'
    <3>1. checkbits' \in SUBSET Fds
      BY Zenon, <1>1, <1>6 DEF FilesTypeOK
    <3> QED
      BY Zenon, <1>1, <1>6, <2>6, <2>8, <2>9, <3>1 DEF FilesTypeOK, fileVars
  <2>11. SlotInv'
    <3>1. \A u \in Users : u # w => /\ scall'[u].at \in Owning <=> scall[u].at \in Owning
                                    /\ scall[u].at \in Owning => scall'[u].fd = scall[u].fd
      BY Zenon, <1>1, <2>6, <2>7
    <3> QED
      BY Zenon, <1>1, <1>2, <1>6, <2>3, <2>6, <2>7, <3>1, SlotTaken DEF FilesInv
  <2>12. DataInv'
    <3>1. Free' = Free
      BY Zenon, <1>6 DEF Free
    <3> QED
      BY Zenon, <1>6, <3>1 DEF DataInv, FilesInv
  <2>13. \A u \in Users : scall'[u].at \in Opening \/ scall'[u].at = "closing" => scall'[u] = scall[u]
    BY <2>6, <2>7
  <2>14. OpenInv'
    <3>1. \A u \in Users : scall'[u].at \in Opening => scall'[u] = scall[u] /\ scall[u].obj \notin deleted'
      BY Zenon, <1>6, <2>13 DEF FilesInv, OpenInv
    <3>2. \A u \in Users : scall'[u].at = "bitSet" => scall[u].at = "bitSet"
      BY <2>6
    <3>3. \A u \in Users : scall[u].at = "bitSet" => scall[u].fd \in checkbits /\ data[scall[u].fd] = Garbage
      BY Zenon, StageNames DEF FilesInv, OpenInv
    <3>4. \A u \in Users : scall'[u].at = "bitSet" => scall[u].fd \in checkbits'
      BY Zenon, <1>2, <1>6, <3>2, <3>3
    <3> QED
      BY Zenon, <1>1, <1>6, <3>1, <3>4, OpenStays DEF FilesInv
  <2>15. UseInv'
    <3>1. \A u \in Users : scall'[u].at \in Using => u # t /\ u # w /\ scall'[u] = scall[u]
      BY Zenon, <2>6, <2>7
    <3>2. \A u \in Users : scall[u].at \in Using /\ scall[u].obj = o => u = t
      BY Zenon, <1>1, <1>2, <1>6, CountSays DEF FilesInv
    <3>3. ASSUME NEW u \in Users, scall'[u].at \in Using PROVE scall'[u].fd \in checkbits'
      <4>1. scall[u].fd \in checkbits /\ data[scall[u].fd] = scall[u].obj /\ scall[u].at \in Using /\ u # t
        BY Zenon, <3>1, <3>3 DEF FilesInv, UseInv
      <4>2. scall[u].obj # o
        BY Zenon, <3>2, <4>1
      <4>3. scall[u].fd # i
        BY Zenon, <1>2, <4>1, <4>2
      <4> QED
        BY Zenon, <1>6, <3>1, <3>3, <4>1, <4>3
    <3>4. \A u \in Users : u # w /\ scall'[u].at \in Using \cup Removing => scall'[u] = scall[u]
      BY Zenon, <2>6, <2>7
    <3>5. \A u \in Users : scall'[u].at \in Using \cup Removing => data'[scall'[u].fd] = scall'[u].obj /\ scall'[u].obj # Garbage
      BY Zenon, <1>2, <1>6, <2>6, <3>4 DEF FilesInv, UseInv
    <3> QED
      BY Zenon, <3>3, <3>5 DEF UseInv
  <2>16. CloseInv'
    BY Zenon, <1>6, <2>13, CloseStays DEF FilesInv
  <2>17. SleepInv'
    <3>1. ASSUME NEW a \in Objects, NEW k \in DOMAIN waiting'[a]
          PROVE  /\ scall'[waiting'[a][k]].at = "closing" /\ scall'[waiting'[a][k]].obj = a
                 /\ \A m \in DOMAIN waiting'[a] : waiting'[a][k] = waiting'[a][m] => k = m
      <4>1. CASE a # o
        <5>1. waiting'[a] = waiting[a]
          BY Zenon, <1>1, <1>6, <4>1 DEF FilesTypeOK
        <5>2. waiting[a][k] \in Users
          BY <1>1, <3>1, <5>1 DEF FilesTypeOK
        <5>3. /\ scall[waiting[a][k]].at = "closing" /\ scall[waiting[a][k]].obj = a
              /\ \A m \in DOMAIN waiting[a] : waiting[a][k] = waiting[a][m] => k = m
          BY Zenon, <3>1, <5>1 DEF FilesInv, SleepInv
        <5>4. waiting[a][k] # w /\ waiting[a][k] # t
          BY Zenon, <1>1, <2>3, <4>1, <5>3
        <5> QED
          BY Zenon, <2>6, <5>1, <5>2, <5>3, <5>4
      <4>2. CASE a = o
        <5>1. waiting'[a] = Tail(waiting[a])
          BY Zenon, <1>1, <1>6, <4>2 DEF FilesTypeOK
        <5>2. /\ k + 1 \in DOMAIN waiting[a] /\ k + 1 # 1 /\ waiting'[a][k] = waiting[a][k + 1]
              /\ \A m \in DOMAIN waiting'[a] : m + 1 \in DOMAIN waiting[a] /\ waiting'[a][m] = waiting[a][m + 1] /\ m \in Int /\ k \in Int
          BY <2>1, <3>1, <4>2, <5>1
        <5>3. /\ scall[waiting[a][k + 1]].at = "closing" /\ scall[waiting[a][k + 1]].obj = a
              /\ \A m \in DOMAIN waiting[a] : waiting[a][k + 1] = waiting[a][m] => k + 1 = m
          BY Zenon, <5>2 DEF FilesInv, SleepInv
        <5>4. waiting[a][k + 1] # w /\ waiting[a][k + 1] # t /\ waiting[a][k + 1] \in Users
          <6>1. waiting[a][k + 1] # w
            BY Zenon, <2>2, <4>2, <5>2, <5>3
          <6>2. waiting[a][k + 1] # t
            BY Zenon, <1>1, <5>3
          <6> QED
            BY <2>1, <4>2, <5>2, <6>1, <6>2
        <5>5. \A m \in DOMAIN waiting'[a] : waiting'[a][k] = waiting'[a][m] => k = m
          BY <5>2, <5>3
        <5> QED
          BY Zenon, <2>6, <5>2, <5>3, <5>4, <5>5
      <4> QED
        BY <4>1, <4>2
    <3> QED
      BY Zenon, <3>1 DEF SleepInv
  <2>18. ReadInv' /\ WordInv'
    <3>1. \A u \in Users : scall'[u].at # "bitLoaded" /\ (scall'[u].at = "reading" => scall'[u] = scall[u])
      BY Zenon, <2>6
    <3> QED
      BY Zenon, <1>6, <3>1, ReadsStay, WordStays DEF FilesInv
  <2> QED
    BY Zenon, <2>8, <2>10, <2>11, <2>12, <2>14, <2>15, <2>16, <2>17, <2>18 DEF FilesInv
<1> QED
  BY Zenon, <1>3, <1>4, <1>5, <1>6

\* close(): waits while the object is used, or takes the slot out.
LEMMA RemoveStep ==
  ASSUME FilesInv, NEW t \in Users, NEW i \in Fds, RemoveHandle(t, i),
         \A u \in Users : u # t => scall[u].at # "bitLoaded"
  PROVE  FilesInv'
<1>1. CASE ~ValidFd(i)
  <2>1. UNCHANGED filesVars
    BY Zenon, <1>1 DEF RemoveHandle
  <2> QED
    BY Zenon, <2>1, IdleStep
<1>2. CASE ValidFd(i) /\ data[i] = Garbage
  <2>1. AbortKernel
    BY Zenon, <1>2 DEF RemoveHandle
  <2> QED
    BY Zenon, <2>1, AbortStep
<1>3. ASSUME ValidFd(i), data[i] # Garbage
      PROVE  FilesInv'
  <2>1. PICK o \in Objects : o = data[i] /\ o # Garbage /\ i \in checkbits
    BY <1>3, FilesAssumption DEF FilesInv, FilesTypeOK, Objects, Garbage, ValidFd
  <2>2. /\ FilesTypeOK /\ scall[t].at = "user" /\ index' = index /\ capacity' = capacity /\ freestack' = freestack
        /\ data' = data /\ array' = array /\ created' = created /\ deleted' = deleted /\ count' = count
        /\ fileVars' = fileVars /\ aborted' = aborted /\ array \in Int
    BY <1>3 DEF RemoveHandle, InSyscall, FilesInv, FilesTypeOK, arrayVars, objectVars
  <2>3. PICK p \in {"closing", "removed"} :
          /\ Goes(t, p, i, o)
          /\ p = "closing" => checkbits' = checkbits /\ waiting' = [waiting EXCEPT ![o] = Append(@, t)]
          /\ p = "removed" => checkbits' = checkbits \ {i} /\ waiting' = waiting /\ ~(count[o] > 0)
    <3>1. "closing" \in Stages /\ "removed" \in Stages /\ o \in 0..MaxObjects
      BY <2>1, FilesAssumption DEF Stages, Removing, Objects
    <3>2. CASE count[o] > 0
      <4>1. /\ scall' = [scall EXCEPT ![t] = [NoSyscall EXCEPT !.at = "closing", !.fd = i, !.obj = o, !.seen = array]]
            /\ checkbits' = checkbits /\ waiting' = [waiting EXCEPT ![o] = Append(@, t)]
        BY Zenon, <1>3, <2>1, <3>2 DEF RemoveHandle, arrayVars
      <4>2. Goes(t, "closing", i, o)
        BY Zenon, <2>2, <3>1, <4>1, Starts
      <4> QED
        BY <4>1, <4>2
    <3>3. CASE ~(count[o] > 0)
      <4>1. /\ scall' = [scall EXCEPT ![t] = [NoSyscall EXCEPT !.at = "removed", !.fd = i, !.obj = o, !.seen = array]]
            /\ checkbits' = checkbits \ {i} /\ waiting' = waiting
        BY Zenon, <1>3, <2>1, <3>3 DEF RemoveHandle, objectVars
      <4>2. Goes(t, "removed", i, o)
        BY Zenon, <2>2, <3>1, <4>1, Starts
      <4> QED
        BY <3>3, <4>1, <4>2
    <3> QED
      BY Zenon, <3>2, <3>3
  <2>4. /\ scall' \in [Users -> Calls] /\ scall'[t].at = p /\ scall'[t].fd = i /\ scall'[t].obj = o
        /\ \A u \in Users : u # t => scall'[u] = scall[u]
    BY Zenon, <2>3 DEF Goes
  <2>5. /\ "user" \notin Opening \cup Owning \cup Using \cup Removing
        /\ "closing" \notin Opening \cup Owning \cup Using \cup Removing /\ "removed" \notin Opening \cup Using
        /\ "removed" \in Owning /\ "removed" \in Removing
    BY DEF Using, Opening, Owning, Removing
  <2>6. p \notin Opening \cup Using /\ p # "bitSet" /\ p # "bitLoaded" /\ p # "reading"
    BY <2>5
  <2>7. FilesTypeOK'
    <3>1. waiting' \in [Objects -> Seq(Users)]
      <4>1. Append(waiting[o], t) \in Seq(Users)
        BY <2>2 DEF FilesTypeOK
      <4> QED
        BY Zenon, <2>2, <2>3, <4>1 DEF FilesTypeOK
    <3>2. checkbits' \in SUBSET Fds
      BY <2>2, <2>3 DEF FilesTypeOK
    <3> QED
      BY Zenon, <2>2, <2>4, <3>1, <3>2 DEF FilesTypeOK, fileVars
  <2>8. SlotInv'
    <3>1. CASE p = "closing"
      BY Zenon, <2>2, <2>3, <2>4, <2>5, <3>1, SlotsStay DEF FilesInv
    <3>2. CASE p = "removed"
      <4>1. checkbits' = checkbits \ {i} /\ scall'[t].at \in Owning /\ scall'[t].fd = i /\ scall[t].at \notin Owning
        BY Zenon, <2>2, <2>3, <2>4, <2>5, <3>2
      <4>2. \A u \in Users : u # t => /\ scall'[u].at \in Owning <=> scall[u].at \in Owning
                                      /\ scall[u].at \in Owning => scall'[u].fd = scall[u].fd
        BY Zenon, <2>4
      <4> QED
        BY Zenon, <2>1, <2>2, <4>1, <4>2, SlotTaken DEF FilesInv
    <3> QED
      BY Zenon, <3>1, <3>2
  <2>9. DataInv'
    <3>1. Free' = Free
      BY Zenon, <2>2 DEF Free
    <3>2. checkbits' \subseteq checkbits
      BY <2>3
    <3> QED
      BY Zenon, <2>2, <3>1, <3>2 DEF DataInv, FilesInv
  <2>10. OpenInv'
    <3>1. \A u \in Users : scall'[u].at \in Opening => scall'[u] = scall[u] /\ scall[u].obj \notin deleted'
      BY Zenon, <2>2, <2>4, <2>6 DEF FilesInv, OpenInv
    <3>2. \A u \in Users : scall'[u].at = "bitSet" => scall[u].at = "bitSet"
      BY Zenon, <2>4, <2>6
    <3>3. \A u \in Users : scall[u].at = "bitSet" => scall[u].fd \in checkbits /\ data[scall[u].fd] = Garbage
      BY Zenon, StageNames DEF FilesInv, OpenInv
    <3>4. \A u \in Users : scall'[u].at = "bitSet" => scall[u].fd \in checkbits'
      BY Zenon, <2>1, <2>3, <3>2, <3>3
    <3> QED
      BY Zenon, <2>2, <3>1, <3>4, OpenStays DEF FilesInv
  <2>11. UseInv'
    <3>1. \A u \in Users : scall'[u].at \in Using => u # t /\ scall'[u] = scall[u]
      BY Zenon, <2>4, <2>6
    <3>2. ASSUME p = "removed", NEW u \in Users, scall[u].at \in Using PROVE scall[u].obj # o
      <4>1. count[o] = 0
        BY <2>2, <2>3, <3>2 DEF FilesTypeOK
      <4> QED
        BY Zenon, <3>2, <4>1, CountSays DEF FilesInv
    <3>3. ASSUME NEW u \in Users, scall'[u].at \in Using PROVE scall'[u].fd \in checkbits'
      <4>1. scall[u].fd \in checkbits /\ data[scall[u].fd] = scall[u].obj /\ scall[u].at \in Using
        BY Zenon, <3>1, <3>3 DEF FilesInv, UseInv
      <4>2. p = "removed" => scall[u].fd # i
        BY Zenon, <2>1, <3>2, <4>1
      <4> QED
        BY <2>3, <3>1, <3>3, <4>1, <4>2
    <3>4. \A u \in Users : scall'[u].at \in Using \cup Removing => data'[scall'[u].fd] = scall'[u].obj /\ scall'[u].obj # Garbage
      BY Zenon, <2>1, <2>2, <2>4 DEF FilesInv, UseInv
    <3> QED
      BY Zenon, <3>3, <3>4 DEF UseInv
  <2>12. CloseInv'
    <3> SUFFICES ASSUME NEW u \in Users, scall'[u].at = "closing"
                 PROVE  /\ scall'[u].obj # Garbage /\ scall'[u].obj <= created'
                        /\ \A j \in Fds : data'[j] = scall'[u].obj => j = scall'[u].fd
                        /\ \A v \in Users : scall'[v].at \in Opening => scall'[v].obj # scall'[u].obj
      BY Zenon DEF CloseInv
    <3>1. \A v \in Users : scall'[v].at \in Opening => scall'[v] = scall[v]
      BY Zenon, <2>4, <2>6
    <3>2. CASE u = t
      <4>1. o <= created /\ \A j \in Fds : data[j] = o => j = i
        BY Zenon, <2>1 DEF FilesInv, DataInv
      <4>2. \A v \in Users : scall[v].at \in Opening => scall[v].obj # o
        BY Zenon, <2>1 DEF FilesInv, OpenInv
      <4>3. \A v \in Users : scall'[v].at \in Opening => scall'[v].obj # o
        BY Zenon, <3>1, <4>2
      <4>4. created' = created /\ data' = data /\ scall'[u].obj = o /\ scall'[u].fd = i
        BY Zenon, <2>2, <2>4, <3>2
      <4> QED
        BY Zenon, <2>1, <4>1, <4>3, <4>4
    <3>3. CASE u # t
      <4>1. scall'[u] = scall[u] /\ scall[u].at = "closing" /\ created' = created /\ data' = data
        BY Zenon, <2>2, <2>4, <3>3
      <4>2. /\ scall[u].obj # Garbage /\ scall[u].obj <= created
            /\ \A j \in Fds : data[j] = scall[u].obj => j = scall[u].fd
            /\ \A v \in Users : scall[v].at \in Opening => scall[v].obj # scall[u].obj
        BY Zenon, <4>1 DEF FilesInv, CloseInv
      <4>3. \A v \in Users : scall'[v].at \in Opening => scall'[v].obj # scall'[u].obj
        BY Zenon, <3>1, <4>1, <4>2
      <4> QED
        BY Zenon, <4>1, <4>2, <4>3
    <3> QED
      BY Zenon, <3>2, <3>3
  <2>13. SleepInv'
    <3>1. \A u \in Users : scall[u].at = "closing" => u # t
      BY <2>2
    <3>2. CASE p = "removed"
      BY Zenon, <2>2, <2>3, <2>4, <3>1, <3>2, SleepStays DEF FilesInv
    <3>3. CASE p = "closing"
      <4>1. ASSUME NEW a \in Objects, NEW k \in DOMAIN waiting[a]
            PROVE  /\ waiting[a][k] \in Users /\ waiting[a][k] # t
                   /\ scall'[waiting[a][k]].at = "closing" /\ scall'[waiting[a][k]].obj = a
                   /\ \A m \in DOMAIN waiting[a] : waiting[a][k] = waiting[a][m] => k = m
        <5>1. waiting[a][k] \in Users
          BY <2>2 DEF FilesTypeOK
        <5>2. /\ scall[waiting[a][k]].at = "closing" /\ scall[waiting[a][k]].obj = a
              /\ \A m \in DOMAIN waiting[a] : waiting[a][k] = waiting[a][m] => k = m
          BY Zenon DEF FilesInv, SleepInv
        <5>3. waiting[a][k] # t
          BY Zenon, <3>1, <5>1, <5>2
        <5>4. scall'[waiting[a][k]] = scall[waiting[a][k]]
          BY Zenon, <2>4, <5>1, <5>3
        <5> QED
          BY Zenon, <5>1, <5>2, <5>3, <5>4
      <4>2. ASSUME NEW a \in Objects, NEW k \in DOMAIN waiting'[a]
            PROVE  /\ scall'[waiting'[a][k]].at = "closing" /\ scall'[waiting'[a][k]].obj = a
                   /\ \A m \in DOMAIN waiting'[a] : waiting'[a][k] = waiting'[a][m] => k = m
        <5>1. CASE a # o
          <6>1. waiting'[a] = waiting[a]
            BY <2>2, <2>3, <3>3, <5>1 DEF FilesTypeOK
          <6>2. k \in DOMAIN waiting[a]
            BY Zenon, <4>2, <6>1
          <6> QED
            BY <4>1, <6>1, <6>2
        <5>2. CASE a = o
          <6>1. waiting[o] \in Seq(Users) /\ waiting'[o] = Append(waiting[o], t)
            BY Zenon, <2>2, <2>3, <3>3 DEF FilesTypeOK
          <6>2. \A m \in DOMAIN waiting'[o] : \/ m \in DOMAIN waiting[o] /\ waiting'[o][m] = waiting[o][m]
                                              \/ m = Len(waiting[o]) + 1 /\ waiting'[o][m] = t
            BY <6>1
          <6>5. \A m \in DOMAIN waiting[o] : waiting[o][m] # t
            BY Zenon, <4>1
          <6>3. CASE k \in DOMAIN waiting[o] /\ waiting'[o][k] = waiting[o][k]
            <7>1. /\ scall'[waiting[o][k]].at = "closing" /\ scall'[waiting[o][k]].obj = o /\ waiting[o][k] # t
                  /\ \A m \in DOMAIN waiting[o] : waiting[o][k] = waiting[o][m] => k = m
              BY Zenon, <4>1, <6>3
            <7>2. ASSUME NEW m \in DOMAIN waiting'[o], waiting'[o][k] = waiting'[o][m] PROVE k = m
              <8>1. m \in DOMAIN waiting[o] /\ waiting'[o][m] = waiting[o][m]
                BY Zenon, <6>2, <6>3, <7>1, <7>2
              <8> QED
                BY <6>3, <7>1, <7>2, <8>1
            <7> QED
              BY Zenon, <5>2, <6>3, <7>1, <7>2
          <6>4. CASE k = Len(waiting[o]) + 1 /\ waiting'[o][k] = t
            <7>1. ASSUME NEW m \in DOMAIN waiting'[o], waiting'[o][k] = waiting'[o][m] PROVE k = m
              BY Zenon, <6>2, <6>4, <6>5, <7>1
            <7>2. scall'[t].at = "closing" /\ scall'[t].obj = o
              BY Zenon, <2>4, <3>3
            <7> QED
              BY Zenon, <5>2, <6>4, <7>1, <7>2
          <6> QED
            BY Zenon, <4>2, <5>2, <6>2, <6>3, <6>4
        <5> QED
          BY Zenon, <5>1, <5>2
      <4> QED
        BY Zenon, <4>2 DEF SleepInv
    <3> QED
      BY Zenon, <3>2, <3>3
  <2>14. CountInv' /\ ReadInv' /\ WordInv'
    <3>1. \A u \in Users : /\ scall'[u].at \in Using <=> scall[u].at \in Using
                           /\ scall[u].at \in Using => scall'[u].obj = scall[u].obj
      BY Zenon, <2>2, <2>4, <2>5, <2>6
    <3>2. \A u \in Users : scall'[u].at # "bitLoaded" /\ (scall'[u].at = "reading" => scall'[u] = scall[u])
      BY Zenon, <2>4, <2>6
    <3> QED
      BY Zenon, <2>2, <3>1, <3>2, CountStays, ReadsStay, WordStays DEF FilesInv
  <2> QED
    BY Zenon, <2>7, <2>8, <2>9, <2>10, <2>11, <2>12, <2>13, <2>14 DEF FilesInv
<1> QED
  BY Zenon, <1>1, <1>2, <1>3

\* The object is deleted, whose slot is in the hands of the close.
LEMMA DeleteStep ==
  ASSUME FilesInv, NEW t \in Users, DeleteHandle(t),
         \A u \in Users : u # t => scall[u].at # "bitLoaded"
  PROVE  FilesInv'
<1>1. FilesTypeOK /\ scall[t].at = "removed" /\ scall[t].at \in Removing /\ scall[t].at \in Owning /\ scall[t].fd \in Fds
  BY DEF DeleteHandle, InSyscall, FilesInv, FilesTypeOK, Calls, Removing, Owning
<1>2. PICK o \in Objects : /\ o = data[scall[t].fd] /\ o = scall[t].obj /\ o # Garbage
  <2>1. data[scall[t].fd] = scall[t].obj /\ scall[t].obj # Garbage
    BY Zenon, <1>1 DEF FilesInv, UseInv
  <2> QED
    BY <1>1, <2>1, FilesAssumption DEF FilesTypeOK, Objects, Garbage
<1>3. CASE AbortKernel
  BY Zenon, <1>3, AbortStep
<1>4. CASE /\ deleted' = deleted \cup {o} /\ Proceed(t, "releasing") /\ arrayVars' = arrayVars /\ created' = created
           /\ count' = count /\ waiting' = waiting /\ fileVars' = fileVars /\ aborted' = aborted
  <2>1. "releasing" \in Stages /\ "releasing" \in Removing /\ "releasing" \in Owning /\ "releasing" \notin Opening \cup Using
        /\ "removed" \notin Opening \cup Using
    BY Zenon DEF Stages, Removing, Owning, Opening, Using
  <2>2. Goes(t, "releasing", scall[t].fd, scall[t].obj)
    BY Zenon, <1>1, <1>4, <2>1, Proceeds
  <2>3. /\ scall' \in [Users -> Calls] /\ scall'[t].at = "releasing" /\ scall'[t].fd = scall[t].fd /\ scall'[t].obj = scall[t].obj
        /\ \A u \in Users : u # t => scall'[u] = scall[u]
    BY Zenon, <2>2 DEF Goes
  <2>4. index' = index /\ freestack' = freestack /\ checkbits' = checkbits /\ data' = data /\ Free' = Free
    BY Zenon, <1>4 DEF arrayVars, Free
  <2>5. FilesTypeOK'
    <3>1. deleted' \in SUBSET Objects
      BY <1>1, <1>4 DEF FilesTypeOK
    <3> QED
      BY Zenon, <1>1, <1>4, <2>3, <3>1 DEF FilesTypeOK, arrayVars, fileVars
  <2>6. SlotInv'
    BY Zenon, <1>1, <2>1, <2>3, <2>4, SlotsStay DEF FilesInv
  <2>7. DataInv'
    <3>0. data[scall[t].fd] <= created /\ scall[t].fd \notin checkbits
      BY Zenon, <1>1 DEF FilesInv, SlotInv, DataInv
    <3>1. scall[t].fd \notin checkbits /\ o <= created
      BY <1>2, <3>0
    <3>2. \A j \in checkbits : j \in Fds /\ data[j] \notin deleted
      BY <1>1 DEF FilesInv, DataInv, FilesTypeOK
    <3>3. \A j \in checkbits : data[j] # o
      BY Zenon, <1>1, <1>2, <3>1, <3>2 DEF FilesInv, DataInv
    <3>4. \A j \in checkbits : data[j] \notin deleted'
      BY Zenon, <1>4, <3>2, <3>3
    <3>5. \A a \in deleted' : a <= created
      BY Zenon, <1>4, <3>1 DEF FilesInv, DataInv
    <3> QED
      BY Zenon, <1>4, <2>4, <3>4, <3>5 DEF DataInv, FilesInv
  <2>8. \A u \in Users : scall'[u].at \in Opening \/ scall'[u].at = "closing" => u # t /\ scall'[u] = scall[u]
    BY <2>1, <2>3
  <2>9. OpenInv'
    <3>1. \A u \in Users : scall[u].at \in Opening => scall[u].obj # o /\ scall[u].obj \notin deleted
      BY Zenon, <1>1, <1>2 DEF FilesInv, OpenInv
    <3>2. \A u \in Users : scall'[u].at \in Opening => scall'[u] = scall[u] /\ scall[u].obj \notin deleted'
      BY Zenon, <1>4, <2>8, <3>1
    <3>3. \A u \in Users : scall'[u].at = "bitSet" => scall[u].fd \in checkbits'
      BY Zenon, <2>3, <2>4 DEF FilesInv, OpenInv
    <3> QED
      BY Zenon, <1>1, <1>4, <2>4, <3>2, <3>3, OpenStays DEF FilesInv
  <2>10. UseInv'
    BY Zenon, <1>1, <2>1, <2>3, <2>4 DEF FilesInv, UseInv
  <2>11. CloseInv'
    BY Zenon, <1>4, <2>4, <2>8, CloseStays DEF FilesInv
  <2>12. SleepInv'
    <3>1. \A u \in Users : scall[u].at = "closing" => u # t
      BY <1>1
    <3> QED
      BY Zenon, <1>1, <1>4, <2>3, <3>1, SleepStays DEF FilesInv
  <2>13. CountInv' /\ ReadInv' /\ WordInv'
    <3>1. \A u \in Users : /\ scall'[u].at \in Using <=> scall[u].at \in Using
                           /\ scall[u].at \in Using => scall'[u].obj = scall[u].obj
      BY Zenon, <1>1, <2>1, <2>3
    <3>2. \A u \in Users : scall'[u].at # "bitLoaded" /\ (scall'[u].at = "reading" => scall'[u] = scall[u])
      BY <2>3
    <3> QED
      BY Zenon, <1>4, <3>1, <3>2, CountStays, ReadsStay, WordStays DEF FilesInv
  <2> QED
    BY Zenon, <2>5, <2>6, <2>7, <2>9, <2>10, <2>11, <2>12, <2>13 DEF FilesInv
<1> QED
  BY Zenon, <1>2, <1>3, <1>4 DEF DeleteHandle

\* release(): the slot is Garbage again and goes on the free stack.
LEMMA ReleaseStep ==
  ASSUME FilesInv, NEW t \in Users, ReleaseHandle(t),
         \A u \in Users : u # t => scall[u].at # "bitLoaded"
  PROVE  FilesInv'
<1>1. FilesTypeOK /\ scall[t].at = "releasing" /\ scall[t].at \in Removing /\ scall[t].at \in Owning
  BY DEF ReleaseHandle, InSyscall, FilesInv, Removing, Owning
<1>2. PICK f \in Fds : f = scall[t].fd /\ data[f] = scall[t].obj /\ data[f] # Garbage /\ f < index /\ f \notin checkbits /\ f \notin Free
  <2>1. scall[t].fd \in Fds
    BY <1>1 DEF FilesTypeOK, Calls
  <2> QED
    BY Zenon, <1>1, <2>1 DEF FilesInv, UseInv, SlotInv
<1>3. CASE AbortKernel
  BY Zenon, <1>3, AbortStep
<1>4. CASE /\ freestack' = <<f>> \o freestack /\ data' = [data EXCEPT ![f] = Garbage] /\ EndCall(t) /\ index' = index
           /\ capacity' = capacity /\ checkbits' = checkbits /\ array' = array /\ objectVars' = objectVars
           /\ fileVars' = fileVars /\ aborted' = aborted
  <2>1. Goes(t, "user", 0, Garbage)
    BY Zenon, <1>1, <1>4, Ends
  <2>2. scall' \in [Users -> Calls] /\ scall'[t].at = "user" /\ \A u \in Users : u # t => scall'[u] = scall[u]
    BY Zenon, <2>1 DEF Goes
  <2>3. "user" \notin Opening \cup Owning \cup Using \cup Removing /\ "releasing" \notin Opening \cup Using
    BY Zenon DEF Using, Opening, Owning, Removing
  <2>4. created' = created /\ deleted' = deleted /\ count' = count /\ waiting' = waiting
    BY Zenon, <1>4 DEF objectVars
  <2>5. data \in [Fds -> 0..MaxObjects] /\ data' \in [Fds -> 0..MaxObjects]
    <3>1. Garbage \in 0..MaxObjects
      BY FilesAssumption DEF Garbage
    <3> QED
      BY <1>1, <1>4, <3>1 DEF FilesTypeOK
  <2>6. data'[f] = Garbage /\ \A j \in Fds : j # f => data'[j] = data[j]
    BY <1>4, <2>5
  <2>7. /\ freestack \in Seq(Fds) /\ freestack' \in Seq(Fds) /\ Len(freestack') = Len(freestack) + 1 /\ freestack'[1] = f
        /\ \A k \in 1..Len(freestack) : freestack'[k + 1] = freestack[k]
    BY <1>1, <1>4 DEF FilesTypeOK
  <2>8. \A k \in DOMAIN freestack' : \/ k = 1 /\ freestack'[k] = f
                                     \/ k - 1 \in DOMAIN freestack /\ freestack'[k] = freestack[k - 1] /\ k \in Int
    <3> SUFFICES ASSUME NEW k \in 1..(Len(freestack) + 1), k # 1
                 PROVE  k - 1 \in 1..Len(freestack) /\ freestack'[k] = freestack[k - 1] /\ k \in Int
      BY <2>7
    <3>1. k - 1 \in 1..Len(freestack) /\ (k - 1) + 1 = k
      BY <2>7
    <3> QED
      BY <2>7, <3>1
  <2>9. Free' = Free \cup {f}
    <3>1. Free' \subseteq Free \cup {f}
      BY <2>8 DEF Free
    <3>2. f \in Free'
      <4>1. 1 \in DOMAIN freestack'
        BY <2>7
      <4> QED
        BY Zenon, <2>7, <4>1 DEF Free
    <3>3. ASSUME NEW k \in DOMAIN freestack PROVE freestack[k] \in Free'
      <4>1. k + 1 \in DOMAIN freestack' /\ freestack'[k + 1] = freestack[k]
        BY <2>7
      <4> QED
        BY Zenon, <4>1 DEF Free
    <3>4. Free \subseteq Free'
      BY Zenon, <3>3 DEF Free
    <3> QED
      BY Zenon, <3>1, <3>2, <3>4
  <2>10. FilesTypeOK'
    BY Zenon, <1>1, <1>4, <2>2, <2>4, <2>5, <2>7 DEF FilesTypeOK, fileVars
  <2>11. SlotInv'
    <3>1. \A k, m \in DOMAIN freestack' : freestack'[k] = freestack'[m] => k = m
      <4>1. \A k \in DOMAIN freestack : freestack[k] # f
        BY Zenon, <1>2 DEF Free
      <4>2. \A k, m \in DOMAIN freestack : freestack[k] = freestack[m] => k = m
        BY Zenon DEF FilesInv, SlotInv
      <4> QED
        BY <2>8, <4>1, <4>2
    <3>2. \A j \in Free' : j < index' /\ j \notin checkbits'
      BY Zenon, <1>2, <1>4, <2>9 DEF FilesInv, SlotInv
    <3>3. \A j \in checkbits' : j < index'
      BY Zenon, <1>4 DEF FilesInv, SlotInv
    <3>4. ASSUME NEW u \in Users, scall'[u].at \in Owning
          PROVE  /\ scall'[u].fd < index' /\ scall'[u].fd \notin checkbits' /\ scall'[u].fd \notin Free'
                 /\ \A v \in Users : scall'[v].at \in Owning /\ scall'[v].fd = scall'[u].fd => v = u
      <4>1. u # t /\ scall'[u] = scall[u] /\ scall[u].at \in Owning
        BY Zenon, <2>2, <2>3, <3>4
      <4>2. /\ scall[u].fd < index /\ scall[u].fd \notin checkbits /\ scall[u].fd \notin Free
            /\ \A v \in Users : scall[v].at \in Owning /\ scall[v].fd = scall[u].fd => v = u
        BY Zenon, <4>1 DEF FilesInv, SlotInv
      <4>3. scall[u].fd # f
        BY Zenon, <1>1, <1>2, <4>1, <4>2
      <4>4. \A v \in Users : scall'[v].at \in Owning => scall'[v] = scall[v]
        BY Zenon, <2>2, <2>3
      <4>5. \A v \in Users : scall'[v].at \in Owning /\ scall'[v].fd = scall'[u].fd => v = u
        BY Zenon, <4>1, <4>2, <4>4
      <4>6. index' = index /\ checkbits' = checkbits /\ scall[u].fd \notin Free'
        BY Zenon, <1>4, <2>9, <4>2, <4>3
      <4> QED
        BY Zenon, <4>1, <4>2, <4>5, <4>6
    <3>5. ASSUME NEW j \in Fds, j < index'
          PROVE  j \in checkbits' \/ j \in Free' \/ \E u \in Users : scall'[u].at \in Owning /\ scall'[u].fd = j
      <4>1. CASE j = f \/ j \in Free \/ j \in checkbits
        BY Zenon, <1>4, <2>9, <4>1
      <4>2. ASSUME NEW u \in Users, scall[u].at \in Owning, scall[u].fd = j, j # f
            PROVE  scall'[u].at \in Owning /\ scall'[u].fd = j
        BY Zenon, <1>2, <2>2, <4>2
      <4>3. j < index
        BY Zenon, <1>4, <3>5
      <4> QED
        BY Zenon, <4>1, <4>2, <4>3 DEF FilesInv, SlotInv
    <3> QED
      BY Zenon, <3>1, <3>2, <3>3, <3>4, <3>5 DEF SlotInv
  <2>12. DataInv'
    <3>1. \A j, k \in Fds : data'[j] = data'[k] => j = k \/ data'[j] = Garbage
      BY Zenon, <2>6 DEF FilesInv, DataInv
    <3>2. Garbage <= created
      BY <1>1 DEF FilesTypeOK, Garbage
    <3>3. \A j \in Fds : data'[j] <= created /\ (j >= index \/ j \in Free' => data'[j] = Garbage)
      BY Zenon, <2>6, <2>9, <3>2 DEF FilesInv, DataInv
    <3>4. \A j \in checkbits : j \in Fds /\ j # f /\ data[j] \notin deleted
      BY Zenon, <1>1, <1>2 DEF FilesInv, DataInv, FilesTypeOK
    <3>5. \A j \in checkbits : data'[j] \notin deleted
      BY Zenon, <2>6, <3>4
    <3> QED
      BY Zenon, <1>4, <2>4, <3>1, <3>3, <3>5 DEF DataInv, FilesInv
  <2>13. \A j \in Fds : data'[j] = data[j] \/ data'[j] = Garbage
    BY Zenon, <2>6
  <2>14. \A u \in Users : scall'[u].at \in Opening \/ scall'[u].at = "closing" => scall'[u] = scall[u]
    BY <2>2, <2>3
  <2>15. OpenInv'
    <3>1. \A u \in Users : scall'[u].at \in Opening => scall'[u] = scall[u] /\ scall[u].obj \notin deleted'
      BY Zenon, <2>4, <2>14 DEF FilesInv, OpenInv
    <3>2. \A u \in Users : scall'[u].at = "bitSet" => scall[u].fd \in checkbits'
      BY Zenon, <1>4, <2>2 DEF FilesInv, OpenInv
    <3> QED
      BY Zenon, <1>1, <2>4, <2>13, <3>1, <3>2, OpenStays DEF FilesInv
  <2>16. UseInv'
    <3>1. \A u \in Users : scall'[u].at \in Using \cup Removing => u # t /\ scall'[u] = scall[u]
      BY Zenon, <2>2, <2>3
    <3>2. \A u \in Users : scall[u].fd \in Fds
      BY <1>1 DEF FilesTypeOK, Calls
    <3>3. ASSUME NEW u \in Users, u # t, scall[u].at \in Using \cup Removing
          PROVE  scall[u].fd # f
      <4>1. CASE scall[u].at \in Using
        BY Zenon, <1>2, <4>1 DEF FilesInv, UseInv
      <4>2. CASE scall[u].at \in Removing
        <5>1. scall[u].at \in Owning
          BY Zenon, <4>2 DEF Removing, Owning
        <5> QED
          BY Zenon, <1>1, <1>2, <3>3, <5>1 DEF FilesInv, SlotInv
      <4> QED
        BY Zenon, <3>3, <4>1, <4>2
    <3>4. \A u \in Users : scall'[u].at \in Using => scall'[u].fd \in checkbits'
      BY Zenon, <1>4, <3>1 DEF FilesInv, UseInv
    <3>5. ASSUME NEW u \in Users, scall'[u].at \in Using \cup Removing
          PROVE  data'[scall'[u].fd] = scall'[u].obj /\ scall'[u].obj # Garbage
      <4>1. u # t /\ scall'[u] = scall[u] /\ scall[u].at \in Using \cup Removing
        BY Zenon, <3>1, <3>5
      <4>2. data[scall[u].fd] = scall[u].obj /\ scall[u].obj # Garbage
        BY Zenon, <4>1 DEF FilesInv, UseInv
      <4>3. data'[scall[u].fd] = data[scall[u].fd]
        BY Zenon, <2>6, <3>2, <3>3, <4>1
      <4> QED
        BY Zenon, <4>1, <4>2, <4>3
    <3> QED
      BY Zenon, <3>4, <3>5 DEF UseInv
  <2>17. CloseInv'
    BY Zenon, <2>4, <2>13, <2>14, CloseStays DEF FilesInv
  <2>18. SleepInv'
    <3>1. \A u \in Users : scall[u].at = "closing" => u # t
      BY <1>1
    <3> QED
      BY Zenon, <1>1, <2>2, <2>4, <3>1, SleepStays DEF FilesInv
  <2>19. CountInv' /\ ReadInv' /\ WordInv'
    <3>1. \A u \in Users : /\ scall'[u].at \in Using <=> scall[u].at \in Using
                           /\ scall[u].at \in Using => scall'[u].obj = scall[u].obj
      BY Zenon, <1>1, <2>2, <2>3
    <3>2. \A u \in Users : scall'[u].at # "bitLoaded" /\ (scall'[u].at = "reading" => scall'[u] = scall[u])
      BY <2>2
    <3> QED
      BY Zenon, <1>4, <2>4, <3>1, <3>2, CountStays, ReadsStay, WordStays DEF FilesInv
  <2> QED
    BY Zenon, <2>10, <2>11, <2>12, <2>15, <2>16, <2>17, <2>18, <2>19 DEF FilesInv
<1> QED
  BY Zenon, <1>2, <1>3, <1>4 DEF ReleaseHandle

-----------------------------------------------------------------------------
(* The whole specification, on one processor. *)

\* Process(): the standard handles, and nobody in a system call.
LEMMA FilesInitial == FilesInit => FilesInv
<1> SUFFICES ASSUME FilesInit PROVE FilesInv
  OBVIOUS
<1>1. NoSyscall \in Calls /\ NoSyscall.at = "user"
  <2>1. 0 \in Fds /\ 0 \in 0..MaxObjects /\ "user" \in Stages
    BY FilesAssumption, StageNames DEF Fds
  <2> QED
    BY <2>1 DEF NoSyscall, Calls, Garbage
<1>2. scall \in [Users -> Calls] /\ \A u \in Users : scall[u].at = "user"
  BY Zenon, <1>1 DEF FilesInit
<1>3. \A i \in Fds : data[i] = IF i < StdHandles THEN i + 1 ELSE 0
  BY DEF FilesInit, Garbage
<1>4. FilesTypeOK
  <2>1. data \in [Fds -> 0..MaxObjects]
    BY FilesAssumption DEF FilesInit, Fds, Garbage
  <2>2. index \in Nat /\ index <= MaxFd + 1 /\ capacity \in Nat /\ array \in Nat /\ created \in 0..MaxObjects
    BY FilesAssumption DEF FilesInit
  <2>5. deleted \in SUBSET Objects /\ sought \in SUBSET Objects /\ aborted \in BOOLEAN /\ freestack \in Seq(Fds)
    <3>1. deleted = {} /\ sought = {} /\ aborted = FALSE /\ freestack = <<>>
      BY DEF FilesInit
    <3>2. freestack \in Seq(Fds)
      BY <3>1
    <3> QED
      BY Zenon, <3>1, <3>2
  <2>3. checkbits \in SUBSET Fds
    BY FilesAssumption DEF FilesInit, Fds
  <2>4. /\ count \in [Objects -> Nat] /\ offset \in [Objects -> Int] /\ olock \in [Objects -> BOOLEAN]
        /\ delivered \in [Objects -> Int] /\ waiting \in [Objects -> Seq(Users)]
    BY DEF FilesInit
  <2> QED
    BY Zenon, <1>2, <2>1, <2>2, <2>3, <2>4, <2>5 DEF FilesTypeOK
<1>5. WordInv /\ OpenInv /\ UseInv /\ CloseInv
  BY Zenon, <1>2, StageNames DEF WordInv, OpenInv, UseInv, CloseInv
<1>6. Free = {} /\ freestack = <<>>
  BY DEF Free, FilesInit
<1>7. SlotInv
  <2>1. \A i \in Fds : i < index => i \in checkbits
    BY FilesAssumption DEF FilesInit, Fds
  <2>2. \A i \in checkbits : i < index
    BY FilesAssumption DEF FilesInit, Fds
  <2>3. \A k, m \in DOMAIN freestack : freestack[k] = freestack[m] => k = m
    BY <1>6
  <2>4. \A u \in Users : scall[u].at \notin Owning
    BY <1>2, StageNames
  <2> QED
    BY Zenon, <1>6, <2>1, <2>2, <2>3, <2>4 DEF SlotInv
<1>8. DataInv
  <2>1. \A i, j \in Fds : data[i] = data[j] => i = j \/ data[i] = 0
    BY <1>3, FilesAssumption DEF Fds
  <2>4. created = StdHandles /\ index = StdHandles /\ StdHandles \in Nat /\ \A i \in Fds : i \in Nat
    BY FilesAssumption DEF FilesInit, Fds
  <2>2. \A i \in Fds : data[i] <= created /\ (i >= index => data[i] = 0)
    BY <1>3, <2>4
  <2>3. deleted = {}
    BY DEF FilesInit
  <2> QED
    BY <1>6, <2>1, <2>2, <2>3 DEF DataInv, Garbage
<1>9. SleepInv
  BY DEF SleepInv, FilesInit
<1>10. CountInv
  <2>1. ASSUME NEW o \in Objects PROVE UsersOf(o) = {} /\ count[o] = 0
    BY <1>2, StageNames DEF UsersOf, FilesInit
  <2> QED
    BY <2>1, FS_EmptySet DEF CountInv
<1>11. ReadInv
  <2>1. \A o \in Objects : delivered[o] = 0 /\ offset[o] = 0
    BY DEF FilesInit
  <2>2. 0 <= FileSize
    BY FilesAssumption
  <2>3. \A u \in Users : scall[u].at # "reading"
    BY <1>2
  <2> QED
    BY <2>1, <2>2, <2>3 DEF ReadInv
<1> QED
  BY <1>4, <1>5, <1>7, <1>8, <1>9, <1>10, <1>11 DEF FilesInv

\* Every step of a thread, when a word is not being written by another.
LEMMA FilesStep == ASSUME Smp = FALSE, FilesInv, FilesNext PROVE FilesInv'
<1>1. PICK t \in Users : /\ Undivided(t)
                         /\ \/ OpenFile(t) \/ FileStep(t)
                            \/ \E i \in Fds : AccessHandle(t, i) \/ RemoveHandle(t, i)
  BY Zenon DEF FilesNext
<1>2. \A u \in Users : u # t => scall[u].at # "bitLoaded"
  BY <1>1 DEF Undivided
<1>3. CASE OpenFile(t)
  BY Zenon, <1>2, <1>3, OpenStep
<1>4. ASSUME NEW i \in Fds, AccessHandle(t, i) \/ RemoveHandle(t, i) PROVE FilesInv'
  BY Zenon, <1>2, <1>4, AccessStep, RemoveStep
<1>5. CASE LoadWord(t) \/ StoreWord(t) \/ SetElement(t)
  BY Zenon, <1>2, <1>5, LoadStep, StoreStep, SetStep
<1>6. ASSUME NEW n \in {1, FileSize}, ReadBegin(t, n) PROVE FilesInv'
  BY Zenon, <1>2, <1>6, ReadBeginStep
<1>7. CASE ReadEnd(t)
  BY Zenon, <1>2, <1>7, ReadEndStep
<1>8. ASSUME NEW s \in Seeks, Lseek(t, s) \/ Lseek(t, offset[scall[t].obj] + s) \/ Lseek(t, FileSize + s) PROVE FilesInv'
  <2>1. scall[t].at = "using"
    BY Zenon, <1>8 DEF Lseek, InSyscall
  <2>2. scall[t].obj # Garbage
    BY <2>1 DEF FilesInv, UseInv, Using
  <2>3. scall[t].obj \in Objects
    BY <2>2, FilesAssumption DEF FilesInv, FilesTypeOK, Calls, Objects, Garbage
  <2>4. offset[scall[t].obj] \in Int
    BY <2>3 DEF FilesInv, FilesTypeOK
  <2>5. s \in Int /\ offset[scall[t].obj] + s \in Int /\ FileSize + s \in Int
    BY <2>4, FilesAssumption
  <2> QED
    BY Zenon, <1>2, <1>8, <2>5, LseekStep
<1>9. CASE OtherAccess(t)
  BY Zenon, <1>2, <1>9, OtherStep
<1>10. CASE DoneHandle(t) \/ DeleteHandle(t) \/ ReleaseHandle(t)
  BY Zenon, <1>2, <1>10, DoneStep, DeleteStep, ReleaseStep
<1> QED
  BY Zenon, <1>1, <1>3, <1>4, <1>5, <1>6, <1>7, <1>8, <1>9, <1>10 DEF FileStep

\* FilesInv is an invariant on one processor.
LEMMA FilesInvariant == ASSUME Smp = FALSE PROVE FilesSpec => []FilesInv
<1>1. FilesInit => FilesInv
  BY FilesInitial
<1>2. FilesInv /\ [FilesNext]_filesVars => FilesInv'
  BY Zenon, FilesStep, IdleStep
<1> QED
  BY <1>1, <1>2, PTL DEF FilesSpec

(* close() deletes an object only when no system call uses it               *)
(* (SynchronizedArray.h:36-85), for any number of threads, descriptors and  *)
(* files of a process that runs on one processor.                           *)
THEOREM NoUseAfterDeleteHolds == ASSUME Smp = FALSE PROVE FilesSpec => []NoUseAfterDelete
<1>1. FilesInv => NoUseAfterDelete
  <2> SUFFICES ASSUME FilesInv, NEW t \in Users, scall[t].at \in {"using", "reading", "used"}
               PROVE  scall[t].obj \notin deleted
    BY Zenon DEF NoUseAfterDelete
  <2>1. scall[t].at \in Using
    BY DEF Using
  <2>2. scall[t].fd \in checkbits /\ data[scall[t].fd] = scall[t].obj
    BY Zenon, <2>1 DEF FilesInv, UseInv
  <2> QED
    BY Zenon, <2>2 DEF FilesInv, DataInv
<1> QED
  BY <1>1, FilesInvariant, PTL

(* release() finds the check bit of the slot it frees clear: the assertion  *)
(* of ManagedArray::release holds on one processor.                         *)
THEOREM ReleaseIsClearHolds == ASSUME Smp = FALSE PROVE FilesSpec => []ReleaseIsClear
<1>1. FilesInv => ReleaseIsClear
  <2> SUFFICES ASSUME FilesInv, NEW t \in Users, scall[t].at = "releasing"
               PROVE  ~ValidFd(scall[t].fd)
    BY Zenon DEF ReleaseIsClear
  <2>1. scall[t].at \in Owning
    BY DEF Owning
  <2> QED
    BY Zenon, <2>1 DEF FilesInv, SlotInv, ValidFd
<1> QED
  BY <1>1, FilesInvariant, PTL

\* A set of at most one thread, or of one.
LEMMA FewThreads ==
  ASSUME NEW S \in SUBSET Users, \A t, u \in S : t = u
  PROVE  /\ Cardinality(S) <= 1 /\ (S # {} => Cardinality(S) = 1) /\ (S = {} => Cardinality(S) = 0)
<1>1. CASE S = {}
  BY <1>1, FS_EmptySet
<1>2. ASSUME NEW t \in S PROVE Cardinality(S) = 1
  <2>1. S = {t}
    BY Zenon
  <2> QED
    BY <2>1, FS_Singleton
<1> QED
  BY <1>1, <1>2

\* Every slot has one owner, of the four kinds.
LEMMA OneOwner == ASSUME FilesInv, NEW i \in Fds, i < index PROVE SlotOwners(i) = 1
<1> DEFINE R == {t \in Users : scall[t].fd = i /\ scall[t].at \in {"reserved", "bitLoaded"}}
           D == {t \in Users : scall[t].fd = i /\ scall[t].at \in {"removed", "releasing"}}
           K == {k \in DOMAIN freestack : freestack[k] = i}
           C == IF i \in checkbits THEN 1 ELSE 0
<1>1. /\ \A t \in R \cup D : t \in Users /\ scall[t].at \in Owning /\ scall[t].fd = i
      /\ \A t \in Users : scall[t].at \in Owning /\ scall[t].fd = i => t \in R \cup D
      /\ R \in SUBSET Users /\ D \in SUBSET Users /\ R \cap D = {}
  BY Zenon DEF Owning
<1>2. K # {} <=> i \in Free
  BY Zenon DEF Free
<1>3. \A k, m \in K : k = m
  BY Zenon DEF FilesInv, SlotInv
<1>4. SlotOwners(i) = Cardinality(R) + C + Cardinality(D) + Cardinality(K)
  BY Zenon DEF SlotOwners
<1> HIDE DEF R, D, K
<1>5. (K = {} => Cardinality(K) = 0) /\ (K # {} => Cardinality(K) = 1)
  <2>1. ASSUME NEW k \in K PROVE Cardinality(K) = 1
    <3>1. K = {k}
      BY Zenon, <1>3
    <3> QED
      BY Zenon, <3>1, FS_Singleton
  <2> QED
    BY <2>1, FS_EmptySet
<1>6. \A t, u \in R \cup D : t = u
  BY Zenon, <1>1 DEF FilesInv, SlotInv
<1>7. /\ (R # {} => Cardinality(R) = 1) /\ (R = {} => Cardinality(R) = 0)
      /\ (D # {} => Cardinality(D) = 1) /\ (D = {} => Cardinality(D) = 0)
  BY Zenon, <1>1, <1>6, FewThreads
<1>8. R = {} \/ D = {}
  BY Zenon, <1>1, <1>6
<1>9. (R # {} \/ D # {}) => i \notin checkbits /\ i \notin Free
  <2>1. ASSUME NEW t \in Users, scall[t].at \in Owning, scall[t].fd = i PROVE i \notin checkbits /\ i \notin Free
    BY Zenon, <2>1 DEF FilesInv, SlotInv
  <2> QED
    BY Zenon, <1>1, <2>1
<1>10. i \in Free => i \notin checkbits
  BY Zenon DEF FilesInv, SlotInv
<1>11. i \in checkbits \/ i \in Free \/ R # {} \/ D # {}
  BY Zenon, <1>1 DEF FilesInv, SlotInv
<1> QED
  BY <1>2, <1>4, <1>5, <1>7, <1>8, <1>9, <1>10, <1>11

(* No descriptor belongs to two files, and no part of a file is read twice  *)
(* (ManagedArray.h:61-120, Access.cc:23-48), on one processor.              *)
THEOREM FilesExactHolds == ASSUME Smp = FALSE PROVE FilesSpec => []FilesExact
<1>1. FilesInv => SlotHasOneOwner
  <2> SUFFICES ASSUME FilesInv, NEW i \in 0..(index - 1) PROVE SlotOwners(i) = 1
    BY Zenon DEF SlotHasOneOwner
  <2>1. i \in Fds /\ i < index
    <3>1. index \in Nat /\ index <= MaxFd + 1 /\ MaxFd \in Nat
      BY FilesAssumption DEF FilesInv, FilesTypeOK
    <3> QED
      BY <3>1 DEF Fds
  <2> QED
    BY Zenon, <2>1, OneOwner
<1>2. FilesInv => ReadsAreDisjoint
  <2> SUFFICES ASSUME FilesInv, NEW o \in Objects \ sought
               PROVE  /\ delivered[o] = offset[o] /\ offset[o] <= FileSize
                      /\ Cardinality({t \in Users : scall[t].at = "reading" /\ scall[t].obj = o}) <= 1
    BY Zenon DEF ReadsAreDisjoint
  <2> DEFINE S == {t \in Users : scall[t].at = "reading" /\ scall[t].obj = o}
  <2>1. S \in SUBSET Users /\ \A t, u \in S : t = u
    BY DEF FilesInv, ReadInv
  <2>2. Cardinality(S) <= 1
    BY Zenon, <2>1, FewThreads
  <2> QED
    BY Zenon, <2>2 DEF FilesInv, ReadInv
<1> QED
  BY <1>1, <1>2, FilesInvariant, PTL DEF FilesExact
=============================================================================
