-------------------------------- MODULE Files --------------------------------
(***************************************************************************)
(* The open files of a process: the handle array (SynchronizedArray over   *)
(* ManagedArray), the file system calls that use it, and the offset of a   *)
(* FileAccess.  A section under the array's lock is one action.  store()   *)
(* writes its slot after releasing the lock, so its steps are apart: the   *)
(* check bit (one memory operation, atomic only against threads of the     *)
(* same processor), the load of `data`, the element.                       *)
(* Users are the threads inside system calls; objects are numbered in the  *)
(* order they are created.                                                 *)
(***************************************************************************)
EXTENDS Integers, Sequences, FiniteSets

CONSTANTS Users, StdHandles, MaxObjects, MaxFd, FileSize, Seeks, MaxOffset, Smp

ASSUME FilesAssumption ==
  /\ IsFiniteSet(Users) /\ Smp \in BOOLEAN
  /\ StdHandles \in Nat /\ MaxObjects \in Nat /\ StdHandles <= MaxObjects
  /\ MaxFd \in Nat /\ StdHandles <= MaxFd + 1
  /\ FileSize \in Nat /\ Seeks \subseteq Int /\ MaxOffset \in Int

VARIABLES index, capacity, freestack, checkbits, data, array,
          created, deleted, count, waiting, offset, olock, delivered, sought,
          scall, aborted

arrayVars == <<index, capacity, freestack, checkbits, data, array>>
objectVars == <<created, deleted, count, waiting>>
fileVars == <<offset, olock, delivered, sought>>
filesVars == <<arrayVars, objectVars, fileVars, scall, aborted>>

Objects == 1..MaxObjects
Fds == 0..MaxFd
Garbage == 0
NoSyscall == [at |-> "user", fd |-> 0, obj |-> Garbage, seen |-> 0, bits |-> {}]

\* Process(): capacity and handles are the standard input and outputs
FilesInit ==
  /\ index = StdHandles /\ capacity = StdHandles /\ freestack = <<>> /\ array = 0
  /\ checkbits = 0..(StdHandles - 1)
  /\ data = [i \in Fds |-> IF i < StdHandles THEN i + 1 ELSE Garbage]
  /\ created = StdHandles /\ deleted = {}
  /\ count = [o \in Objects |-> 0] /\ waiting = [o \in Objects |-> <<>>]
  /\ offset = [o \in Objects |-> 0] /\ olock = [o \in Objects |-> FALSE]
  /\ delivered = [o \in Objects |-> 0] /\ sought = {}
  /\ scall = [t \in Users |-> NoSyscall] /\ aborted = FALSE

InSyscall(t, p) == scall[t].at = p /\ ~aborted
Proceed(t, p) == scall' = [scall EXCEPT ![t].at = p]
StartCall(t, p, fd, obj) ==
  scall' = [scall EXCEPT ![t] = [NoSyscall EXCEPT !.at = p, !.fd = fd, !.obj = obj]]
EndCall(t) == scall' = [scall EXCEPT ![t] = NoSyscall]
ValidFd(i) == i < index /\ i \in checkbits
AbortKernel == aborted' = TRUE /\ UNCHANGED <<arrayVars, objectVars, fileVars, scall>>

(******************************** open *************************************)

\* how reserveIndex finds a slot: the free stack, the next slot, or growth
ReserveFd(i) ==
  IF freestack # <<>>
    THEN /\ i = Head(freestack) /\ freestack' = Tail(freestack)
         /\ UNCHANGED <<index, capacity, array>>
    ELSE /\ i = index /\ index' = index + 1
         /\ IF capacity > index THEN UNCHANGED <<capacity, array>>
                                ELSE capacity' = 2 * capacity /\ array' = array + 1
         /\ UNCHANGED freestack

OpenFile(t) ==
  /\ InSyscall(t, "user") /\ created < MaxObjects
  /\ created' = created + 1
  /\ \E i \in Fds : ReserveFd(i) /\ StartCall(t, "reserved", i, created + 1)
  /\ UNCHANGED <<checkbits, data, deleted, count, waiting, fileVars, aborted>>

\* checkbits[idx] = true without the lock: a load and a store of the word
\* that holds the bits; one processor does them in one instruction
LoadWord(t) ==
  /\ InSyscall(t, "reserved")
  /\ scall' = [scall EXCEPT ![t].at = "bitLoaded", ![t].bits = checkbits]
  /\ UNCHANGED <<arrayVars, objectVars, fileVars, aborted>>

Undivided(t) == Smp \/ \A u \in Users \ {t} : scall[u].at # "bitLoaded"

StoreWord(t) ==
  /\ InSyscall(t, "bitLoaded")
  /\ checkbits' = scall[t].bits \cup {scall[t].fd}
  /\ scall' = [scall EXCEPT ![t].at = "bitSet", ![t].seen = array]
  /\ UNCHANGED <<index, capacity, freestack, data, array, objectVars, fileVars, aborted>>

\* data[idx] = elem: lost when the array was replaced after `data` was read
SetElement(t) ==
  /\ InSyscall(t, "bitSet")
  /\ data' = IF scall[t].seen = array THEN [data EXCEPT ![scall[t].fd] = scall[t].obj]
                                     ELSE data
  /\ EndCall(t)
  /\ UNCHANGED <<index, capacity, freestack, checkbits, array, objectVars, fileVars,
                 aborted>>

(************************* read, write, lseek ******************************)

AccessHandle(t, i) ==
  /\ InSyscall(t, "user")
  /\ IF ~ValidFd(i) THEN UNCHANGED filesVars
     ELSE IF data[i] = Garbage THEN AbortKernel
     ELSE IF waiting[data[i]] # <<>> THEN UNCHANGED filesVars
     ELSE /\ count' = [count EXCEPT ![data[i]] = @ + 1]
          /\ StartCall(t, "using", i, data[i])
          /\ UNCHANGED <<arrayVars, created, deleted, waiting, fileVars, aborted>>

Pread(o, n) == IF o + n > FileSize THEN FileSize - o ELSE n

ReadBegin_NoLock(t, n) ==
  LET o == scall[t].obj  len == Pread(offset[o], n) IN
  /\ InSyscall(t, "using") /\ o > StdHandles
  /\ IF len < 0 THEN Proceed(t, "lost")
                ELSE scall' = [scall EXCEPT ![t].at = "reading", ![t].seen = len]
  /\ UNCHANGED <<arrayVars, objectVars, olock, offset, delivered, sought, aborted>>

\* FileAccess::read up to the update of the offset; a negative length is a
\* huge size_t for memcpy, which does not return
ReadBegin(t, n) ==
  LET o == scall[t].obj  len == Pread(offset[o], n) IN
  /\ InSyscall(t, "using") /\ o > StdHandles
  /\ ~olock[o] /\ olock' = [olock EXCEPT ![o] = TRUE]
  /\ IF len < 0 THEN Proceed(t, "lost")
                ELSE scall' = [scall EXCEPT ![t].at = "reading", ![t].seen = len]
  /\ UNCHANGED <<arrayVars, objectVars, offset, delivered, sought, aborted>>

ReadEnd(t) ==
  LET o == scall[t].obj IN
  /\ InSyscall(t, "reading")
  /\ offset' = [offset EXCEPT ![o] = @ + scall[t].seen]
  /\ delivered' = IF o \in sought THEN delivered
                                   ELSE [delivered EXCEPT ![o] = @ + scall[t].seen]
  /\ olock' = [olock EXCEPT ![o] = FALSE]
  /\ Proceed(t, "used")
  /\ UNCHANGED <<arrayVars, objectVars, sought, aborted>>

\* lseek takes no lock; a negative result is refused (MaxOffset bounds the
\* model, the code has no upper limit)
Lseek(t, new) ==
  LET o == scall[t].obj IN
  /\ InSyscall(t, "using") /\ o > StdHandles /\ new <= MaxOffset
  /\ offset' = IF new >= 0 THEN [offset EXCEPT ![o] = new] ELSE offset
  /\ sought' = IF new >= 0 THEN sought \cup {o} ELSE sought
  /\ Proceed(t, "used")
  /\ UNCHANGED <<arrayVars, objectVars, delivered, olock, aborted>>

\* the standard handles, and the default methods, which return -EBADF
OtherAccess(t) ==
  /\ InSyscall(t, "using") /\ Proceed(t, "used")
  /\ UNCHANGED <<arrayVars, objectVars, fileVars, aborted>>

\* the last user of an object on which a closer waits passes it the object;
\* the closer reads the element through a reference taken before it slept
WakeCloser(t, w) ==
  scall' = [scall EXCEPT ![t] = NoSyscall,
             ![w].at = IF @ = "closing" THEN "removed" ELSE @]

DoneHandle_NoSignal(t) ==
  LET i == scall[t].fd  o == data[i] IN
  /\ InSyscall(t, "used")
  /\ count' = [count EXCEPT ![o] = @ - 1]
  /\ EndCall(t)
  /\ UNCHANGED <<arrayVars, created, deleted, waiting, fileVars, aborted>>

DoneHandle(t) ==
  LET i == scall[t].fd  o == data[i] IN
  /\ InSyscall(t, "used")
  /\ IF ~ValidFd(i) \/ o = Garbage THEN AbortKernel
     ELSE IF count[o] = 0 THEN AbortKernel
     ELSE /\ count' = [count EXCEPT ![o] = @ - 1]
          /\ IF count[o] = 1 /\ waiting[o] # <<>>
               THEN /\ checkbits' = checkbits \ {i}
                    /\ waiting' = [waiting EXCEPT ![o] = Tail(@)]
                    /\ WakeCloser(t, Head(waiting[o]))
               ELSE EndCall(t) /\ UNCHANGED <<checkbits, waiting>>
          /\ UNCHANGED <<index, capacity, freestack, data, array, created, deleted,
                         fileVars, aborted>>

(******************************** close ************************************)

RemoveHandle_Busy(t, i) ==
  /\ InSyscall(t, "user")
  /\ IF ~ValidFd(i) THEN UNCHANGED filesVars
     ELSE IF data[i] = Garbage THEN AbortKernel
     ELSE /\ checkbits' = checkbits \ {i}
          /\ StartCall(t, "removed", i, data[i])
          /\ UNCHANGED <<index, capacity, freestack, data, array, objectVars,
                         fileVars, aborted>>

RemoveHandle(t, i) ==
  /\ InSyscall(t, "user")
  /\ IF ~ValidFd(i) THEN UNCHANGED filesVars
     ELSE IF data[i] = Garbage THEN AbortKernel
     ELSE IF count[data[i]] > 0
       THEN /\ waiting' = [waiting EXCEPT ![data[i]] = Append(@, t)]
            /\ scall' = [scall EXCEPT ![t] = [NoSyscall EXCEPT !.at = "closing", !.fd = i,
                                              !.obj = data[i], !.seen = array]]
            /\ UNCHANGED <<arrayVars, created, deleted, count, fileVars, aborted>>
       ELSE /\ checkbits' = checkbits \ {i}
            /\ scall' = [scall EXCEPT ![t] = [NoSyscall EXCEPT !.at = "removed", !.fd = i,
                                              !.obj = data[i], !.seen = array]]
            /\ UNCHANGED <<index, capacity, freestack, data, array, objectVars,
                           fileVars, aborted>>

\* the element read again after the wait: of a replaced array, anything
DeleteHandle(t) ==
  /\ InSyscall(t, "removed")
  /\ \/ deleted' = deleted \cup {scall[t].obj} /\ Proceed(t, "releasing")
        /\ UNCHANGED <<arrayVars, created, count, waiting, fileVars, aborted>>
     \/ scall[t].seen # array /\ AbortKernel

ReleaseHandle_Twice(t) ==
  /\ InSyscall(t, "releasing")
  /\ checkbits' = checkbits \ {scall[t].fd}
  /\ freestack' = <<scall[t].fd, scall[t].fd>> \o freestack
  /\ EndCall(t)
  /\ UNCHANGED <<index, capacity, data, array, objectVars, fileVars, aborted>>

ReleaseHandle(t) ==
  /\ InSyscall(t, "releasing")
  /\ IF ValidFd(scall[t].fd) THEN AbortKernel
     ELSE /\ freestack' = <<scall[t].fd>> \o freestack
          /\ data' = [data EXCEPT ![scall[t].fd] = Garbage]
          /\ EndCall(t)
          /\ UNCHANGED <<index, capacity, checkbits, array, objectVars, fileVars,
                         aborted>>

FileStep(t) ==
  \/ LoadWord(t) \/ StoreWord(t) \/ SetElement(t)
  \/ \E n \in {1, FileSize} : ReadBegin(t, n)
  \/ ReadEnd(t)
  \/ \E s \in Seeks : \/ Lseek(t, s)
                      \/ Lseek(t, offset[scall[t].obj] + s)
                      \/ Lseek(t, FileSize + s)
  \/ OtherAccess(t) \/ DoneHandle(t) \/ DeleteHandle(t) \/ ReleaseHandle(t)

FilesNext ==
  \E t \in Users :
    /\ Undivided(t)
    /\ \/ OpenFile(t) \/ FileStep(t)
       \/ \E i \in Fds : AccessHandle(t, i) \/ RemoveHandle(t, i)

FilesSpec == FilesInit /\ [][FilesNext]_filesVars

-----------------------------------------------------------------------------

(* An object is deleted only when no system call uses it: close waits for   *)
(* the calls that passed access(), and those that come later are refused.   *)
NoUseAfterDelete ==
  \A t \in Users :
    scall[t].at \in {"using", "reading", "used"} => scall[t].obj \notin deleted

(* Every slot below `index` has exactly one owner: the free stack, the open *)
(* that reserved it, the valid bit, or the one close that took it out. So a *)
(* descriptor is never given to two files.                                  *)
SlotOwners(i) ==
  Cardinality({t \in Users : scall[t].fd = i /\ scall[t].at \in {"reserved", "bitLoaded"}})
  + (IF i \in checkbits THEN 1 ELSE 0)
  + Cardinality({t \in Users : scall[t].fd = i /\ scall[t].at \in {"removed", "releasing"}})
  + Cardinality({k \in DOMAIN freestack : freestack[k] = i})

SlotHasOneOwner == \A i \in 0..(index - 1) : SlotOwners(i) = 1

(* Concurrent reads of a file that nobody seeks in share out the file: what *)
(* they return adds up to the offset, and never to more than the file has.  *)
ReadsAreDisjoint ==
  \A o \in Objects \ sought :
    /\ delivered[o] = offset[o] /\ offset[o] <= FileSize
    /\ Cardinality({t \in Users : scall[t].at = "reading" /\ scall[t].obj = o}) <= 1

(* A close that waits for a busy descriptor returns once the system calls   *)
(* that use it end, unless another close took the file out (done() signals  *)
(* one closer only) or a call that uses it never returns.                   *)
CloseReturns ==
  \A t \in Users :
    scall[t].at = "closing" ~>
      \/ scall[t].at # "closing" \/ aborted
      \/ scall[t].obj \in deleted
      \/ \E u \in Users : scall[u].at = "lost" /\ scall[u].obj = scall[t].obj

(* release() asserts that the slot it frees has its check bit clear.        *)
ReleaseIsClear ==
  \A t \in Users : scall[t].at = "releasing" => ~ValidFd(scall[t].fd)

(* No descriptor belongs to two files and no part of a file is read twice,  *)
(* however opens, reads and closes interleave (ManagedArray.h:61-120,       *)
(* SynchronizedArray.h:36-85, Access.cc:23-48).                             *)
FilesExact == SlotHasOneOwner /\ ReadsAreDisjoint
=============================================================================
