--------------------------- MODULE MachineProofs ---------------------------
(***************************************************************************)
(* The machine underneath the threads, for any number of processors: the   *)
(* lock count and the register state of a processor, the start of the      *)
(* application processors, the ticket queue and the session of the gdb     *)
(* stub; and, for any number of user threads, the mutex of libKOS.         *)
(***************************************************************************)
EXTENDS LocalProcessor, Boot, Gdb, Pthread, FiniteSetTheorems, TLAPS

\* A list is a function on 1..size().
LEMMA SeqLength ==
  ASSUME NEW T, NEW q \in Seq(T)
  PROVE  DOMAIN q = 1..Len(q) /\ Len(q) \in Nat /\ q \in [1..Len(q) -> T]
OBVIOUS

\* The entries of a list belong to its type.
LEMMA SeqElement ==
  ASSUME NEW T, NEW q \in Seq(T), NEW k \in 1..Len(q)
  PROVE  q[k] \in T
OBVIOUS

\* A list that is not empty has a first entry.
LEMMA SeqEmpty ==
  ASSUME NEW T
  PROVE  /\ Len(<<>>) = 0 /\ <<>> \in Seq(T)
         /\ \A q \in Seq(T) : q # <<>> => Len(q) \in Nat \ {0}
OBVIOUS

\* push_back leaves the entries before the new one as they are.
LEMMA SeqAppend ==
  ASSUME NEW T, NEW q \in Seq(T), NEW e \in T
  PROVE  /\ Append(q, e) \in Seq(T) /\ Append(q, e) # <<>>
         /\ Len(Append(q, e)) = Len(q) + 1 /\ Append(q, e)[Len(q) + 1] = e
         /\ \A k \in 1..Len(q) : Append(q, e)[k] = q[k]
OBVIOUS

-----------------------------------------------------------------------------
(* LocalProcessor: the lock count of a processor tells whether it accepts  *)
(* interrupts, and user code always runs with the gs base and kernel stack *)
(* the next entry needs.                                                   *)
(*                                                                         *)
(* LockCountExact is not inductive: a switch makes another thread current, *)
(* and a return continues where an interrupt struck.  CountInv adds what   *)
(* holds of suspended threads (they stopped in switchThread with one lock) *)
(* and of saved frames (the interrupted code fitted the flag and the count *)
(* that the return brings back).                                           *)

RunningTasks == {currThread[c] : c \in CPUs}

\* A saved frame of an interrupt or exception fits its flag and count.
SavedFits(t) ==
  \A i \in 1 .. Len(frames[t]) :
    LET f == frames[t][i] IN f.kind # "syscall" => Fits(f.code, f.iflag, f.nesting)

CountInv ==
  /\ CpuTypeOK
  /\ \A c, d \in CPUs : currThread[c] = currThread[d] => c = d
  /\ \A t \in Tasks \ RunningTasks : code[t] = "kern" /\ nesting[t] = 1
  /\ \A t \in Tasks : SavedFits(t)
  /\ LockCountExact
  /\ UserEntryReady

\* The processors start with one lock each, in boot code.
LEMMA CountInit == CpuInit => CountInv
<1> SUFFICES ASSUME CpuInit PROVE CountInv
  OBVIOUS
<1> USE DEF CpuInit
<1>1. CpuTypeOK
  BY DEF CpuTypeOK, Positions
<1>2. LockCountExact
  BY Zenon DEF LockCountExact, Fits
<1>3. UserEntryReady
  BY Zenon DEF UserEntryReady, CodeAt
<1>4. \A t \in Tasks : SavedFits(t)
  BY DEF SavedFits
<1> QED
  BY <1>1, <1>2, <1>3, <1>4 DEF CountInv

\* A step that moves only the thread its processor runs says nothing new about
\* the others.
LEMMA RunnerOnly ==
  ASSUME CountInv, NEW c \in CPUs, NEW where \in Positions, NEW locks \in Nat,
         code' = [code EXCEPT ![currThread[c]] = where],
         nesting' = [nesting EXCEPT ![currThread[c]] = locks],
         UNCHANGED currThread
  PROVE  /\ code' \in [Tasks -> Positions] /\ nesting' \in [Tasks -> Nat]
         /\ code'[currThread[c]] = where /\ nesting'[currThread[c]] = locks
         /\ \A d \in CPUs \ {c} : /\ code'[currThread[d]] = code[currThread[d]]
                                 /\ nesting'[currThread[d]] = nesting[currThread[d]]
         /\ \A t \in Tasks \ RunningTasks' : code'[t] = "kern" /\ nesting'[t] = 1
<1>1. currThread[c] \in Tasks /\ RunningTasks' = RunningTasks /\ currThread[c] \in RunningTasks
  BY DEF CountInv, CpuTypeOK, RunningTasks
<1>2. \A d \in CPUs : currThread[d] \in Tasks
  BY DEF CountInv, CpuTypeOK
<1> QED
  BY <1>1, <1>2 DEF CountInv, CpuTypeOK

\* An entry saves a frame that fits.
LEMMA FramesAfterEnter ==
  ASSUME CountInv, NEW c \in CPUs, NEW kind \in {"syscall", "irq", "fault"},
         frames' = [frames EXCEPT ![currThread[c]] = Append(@, Frame(c, kind))]
  PROVE  /\ frames' \in [Tasks -> Seq(Frames)]
         /\ \A t \in Tasks : SavedFits(t)'
<1> DEFINE r == currThread[c]
<1>1. r \in Tasks /\ Frame(c, kind) \in Frames
  BY DEF CountInv, CpuTypeOK, Frame, Frames
<1>2. Fits(Frame(c, kind).code, Frame(c, kind).iflag, Frame(c, kind).nesting)
  BY <1>1 DEF CountInv, LockCountExact, Frame
<1>3. frames' \in [Tasks -> Seq(Frames)]
  BY <1>1 DEF CountInv, CpuTypeOK
<1>4. ASSUME NEW t \in Tasks PROVE SavedFits(t)'
  <2>1. CASE t # r
    BY <2>1 DEF CountInv, CpuTypeOK, SavedFits
  <2>2. CASE t = r
    <3>1. frames'[r] = Append(frames[r], Frame(c, kind)) /\ frames[r] \in Seq(Frames)
      BY <1>1 DEF CountInv, CpuTypeOK
    <3>2. \A i \in 1 .. Len(frames[r]) : frames'[r][i] = frames[r][i]
      BY <3>1, <1>1, SeqAppend
    <3>3. Len(frames'[r]) = Len(frames[r]) + 1 /\ frames'[r][Len(frames[r]) + 1] = Frame(c, kind)
      BY <3>1, <1>1, SeqAppend
    <3>4. SavedFits(r)
      BY <1>1 DEF CountInv, SavedFits
    <3> QED
      BY <2>2, <3>1, <3>2, <3>3, <3>4, <1>2, SeqLength DEF SavedFits
  <2> QED
    BY <2>1, <2>2
<1> QED
  BY <1>3, <1>4

\* A return takes the newest frame away.
LEMMA FramesAfterLeave ==
  ASSUME CountInv, NEW c \in CPUs, frames[currThread[c]] # << >>, Leave(c)
  PROVE  /\ frames' \in [Tasks -> Seq(Frames)]
         /\ \A t \in Tasks : SavedFits(t)'
         /\ LET fs == frames[currThread[c]]
            IN  fs[Len(fs)] \in Frames /\ Len(fs) \in 1 .. Len(fs)
<1> DEFINE r == currThread[c]
           fs == frames[r]
<1>1. r \in Tasks /\ fs \in Seq(Frames) /\ fs # << >>
  BY DEF CountInv, CpuTypeOK
<1>2. Len(fs) \in Nat /\ Len(fs) > 0 /\ fs[Len(fs)] \in Frames
  BY <1>1, SeqEmpty, SeqLength
<1>3. SubSeq(fs, 1, Len(fs) - 1) \in Seq(Frames)
  BY <1>1, <1>2
<1>4. frames' = [frames EXCEPT ![r] = SubSeq(fs, 1, Len(fs) - 1)]
  BY DEF Leave
<1>5. frames' \in [Tasks -> Seq(Frames)]
  BY <1>1, <1>3, <1>4 DEF CountInv, CpuTypeOK
<1>6. ASSUME NEW t \in Tasks PROVE SavedFits(t)'
  <2>1. CASE t # r
    BY <2>1, <1>4 DEF CountInv, CpuTypeOK, SavedFits
  <2>2. CASE t = r
    <3>1. frames'[r] = SubSeq(fs, 1, Len(fs) - 1)
      BY <1>1, <1>4 DEF CountInv, CpuTypeOK
    <3>2. Len(frames'[r]) = Len(fs) - 1 /\ \A i \in 1 .. Len(fs) - 1 : frames'[r][i] = fs[i]
      BY <3>1, <1>1, <1>2
    <3>3. SavedFits(r)
      BY <1>1 DEF CountInv, SavedFits
    <3> QED
      BY <2>2, <3>2, <3>3, <1>2 DEF SavedFits
  <2> QED
    BY <2>1, <2>2
<1> QED
  BY <1>2, <1>5, <1>6

\* A step of processor c that does not switch threads: the new values of its
\* variables, and that they fit each other.
Updates(c, where, locks, flag, base, top) ==
  /\ code' = [code EXCEPT ![currThread[c]] = where]
  /\ nesting' = [nesting EXCEPT ![currThread[c]] = locks]
  /\ lockCount' = [lockCount EXCEPT ![c] = locks]
  /\ iflag' = [iflag EXCEPT ![c] = flag]
  /\ gs' = [gs EXCEPT ![c] = base]
  /\ tssRsp' = [tssRsp EXCEPT ![c] = top]
  /\ UNCHANGED currThread

Agree(c, where, locks, flag, base, top) ==
  /\ where \in Positions /\ locks \in Nat /\ flag \in {0, 1}
  /\ base \in {"kern", "user"} /\ top \in Tasks \cup {NoTask}
  /\ Fits(where, flag, locks)
  /\ IF where = "user" THEN base = "user" /\ top = currThread[c] ELSE base = "kern"

FramesKept == frames' \in [Tasks -> Seq(Frames)] /\ \A t \in Tasks : SavedFits(t)'

\* Such a step keeps the invariant.
LEMMA RunnerStep ==
  ASSUME CountInv, NEW c \in CPUs, NEW where, NEW locks, NEW flag, NEW base, NEW top,
         Updates(c, where, locks, flag, base, top),
         Agree(c, where, locks, flag, base, top),
         FramesKept
  PROVE  CountInv'
<1> USE DEF Updates, Agree, FramesKept
<1>1. /\ code' \in [Tasks -> Positions] /\ nesting' \in [Tasks -> Nat]
      /\ code'[currThread[c]] = where /\ nesting'[currThread[c]] = locks
      /\ \A d \in CPUs \ {c} : /\ code'[currThread[d]] = code[currThread[d]]
                              /\ nesting'[currThread[d]] = nesting[currThread[d]]
      /\ \A t \in Tasks \ RunningTasks' : code'[t] = "kern" /\ nesting'[t] = 1
  BY Zenon, RunnerOnly
<1>2. CpuTypeOK'
  BY <1>1 DEF CountInv, CpuTypeOK
<1>3. LockCountExact'
  <2> SUFFICES ASSUME NEW d \in CPUs
               PROVE  /\ lockCount'[d] = nesting'[currThread'[d]]
                      /\ Fits(code'[currThread'[d]], iflag'[d], lockCount'[d])
    BY DEF LockCountExact, Fits
  <2>1. CASE d = c
    BY <2>1, <1>1 DEF CountInv, CpuTypeOK
  <2>2. CASE d # c
    BY <2>2, <1>1 DEF CountInv, CpuTypeOK, LockCountExact
  <2> QED
    BY <2>1, <2>2
<1>4. UserEntryReady'
  <2> SUFFICES ASSUME NEW d \in CPUs
               PROVE  IF code'[currThread'[d]] = "user"
                        THEN gs'[d] = "user" /\ tssRsp'[d] = currThread'[d]
                        ELSE gs'[d] = "kern"
    BY DEF UserEntryReady, CodeAt
  <2>1. CASE d = c
    BY <2>1, <1>1 DEF CountInv, CpuTypeOK
  <2>2. CASE d # c
    BY <2>2, <1>1 DEF CountInv, CpuTypeOK, UserEntryReady, CodeAt
  <2> QED
    BY <2>1, <2>2
<1> QED
  BY <1>1, <1>2, <1>3, <1>4 DEF CountInv

\* Every step of a processor keeps the invariant.
LEMMA CountStep == CountInv /\ [CpuNext]_cpuVars => CountInv'
<1> SUFFICES ASSUME CountInv, CpuNext PROVE CountInv'
  <2>1. CASE UNCHANGED cpuVars
    BY <2>1 DEF cpuVars, CountInv, CpuTypeOK, RunningTasks, SavedFits, LockCountExact, UserEntryReady, CodeAt
  <2> QED
    BY <2>1
<1> PICK c \in CPUs :
    \/ LockTest(c) \/ DisableInterrupts(c) \/ IncLockCount(c)
    \/ DecLockCount(c) \/ EnableInterrupts(c)
    \/ SyscallEntry(c) \/ SyscallExit(c) \/ StartUserCode(c)
    \/ \E k \in {"irq", "fault"} : IsrEntry(c, k)
    \/ IsrExit(c)
    \/ \E t \in Tasks : SwitchThread(c, t)
  BY DEF CpuNext
<1> DEFINE r == currThread[c]
<1>1. /\ r \in Tasks /\ code[r] \in Positions /\ nesting[r] \in Nat /\ lockCount[c] = nesting[r]
      /\ iflag[c] \in {0, 1} /\ gs[c] \in {"kern", "user"} /\ tssRsp[c] \in Tasks \cup {NoTask}
      /\ Fits(code[r], iflag[c], lockCount[c])
      /\ code[r] # "user" => gs[c] = "kern"
      /\ code = [code EXCEPT ![r] = code[r]] /\ nesting = [nesting EXCEPT ![r] = nesting[r]]
      /\ lockCount = [lockCount EXCEPT ![c] = lockCount[c]] /\ iflag = [iflag EXCEPT ![c] = iflag[c]]
      /\ gs = [gs EXCEPT ![c] = gs[c]] /\ tssRsp = [tssRsp EXCEPT ![c] = tssRsp[c]]
  BY DEF CountInv, CpuTypeOK, LockCountExact, UserEntryReady, CodeAt
<1> DEFINE newest == frames[r][Len(frames[r])]
<1>2. frames[r] # << >> => /\ newest.code \in Positions /\ newest.iflag \in {0, 1}
                           /\ newest.nesting \in Nat
                           /\ newest.kind # "syscall" => Fits(newest.code, newest.iflag, newest.nesting)
  <2>1. frames[r] \in Seq(Frames) /\ SavedFits(r)
    BY <1>1 DEF CountInv, CpuTypeOK
  <2>2. frames[r] # << >> => Len(frames[r]) \in 1 .. Len(frames[r])
    BY <2>1, SeqEmpty, SeqLength
  <2>3. frames[r] # << >> => newest \in Frames
    BY <2>1, <2>2, SeqElement
  <2>4. ASSUME NEW f \in Frames
        PROVE  f.code \in Positions /\ f.iflag \in {0, 1} /\ f.nesting \in Nat
    BY <2>4 DEF Frames
  <2> QED
    BY Zenon, <2>1, <2>2, <2>3, <2>4 DEF SavedFits
<1>3. Own(r) > 0 => nesting[r] > 0
  <2>1. CASE frames[r] = << >>
    BY <2>1, <1>1 DEF Own
  <2>2. CASE frames[r] # << >>
    <3>1. Own(r) = nesting[r] \/ Own(r) = nesting[r] - newest.nesting - 1
      BY <2>2 DEF Own
    <3>2. newest.nesting \in Nat /\ nesting[r] \in Nat
      BY <2>2, <1>1, <1>2
    <3> HIDE DEF newest, r
    <3> QED
      BY <3>1, <3>2
  <2> QED
    BY <2>1, <2>2
<1>4. CASE LockTest(c)
  <2>1. Updates(c, IF lockCount[c] = 0 THEN "tested" ELSE "locking",
                lockCount[c],
                iflag[c],
                gs[c],
                tssRsp[c])
    BY <1>4, <1>1 DEF LockTest, Updates, MoveTo, CodeAt
  <2>2. Agree(c, IF lockCount[c] = 0 THEN "tested" ELSE "locking",
                lockCount[c],
                iflag[c],
                gs[c],
                tssRsp[c])
    BY <1>4, <1>1 DEF LockTest, Agree, CodeAt, Fits, Positions
  <2>3. FramesKept
    BY Zenon, <1>4 DEF LockTest, FramesKept, CountInv, CpuTypeOK, SavedFits
  <2> QED
    BY <2>1, <2>2, <2>3, RunnerStep
<1>5. CASE DisableInterrupts(c)
  <2>1. Updates(c, "locking", lockCount[c], 0, gs[c], tssRsp[c])
    BY <1>5, <1>1 DEF DisableInterrupts, Updates, MoveTo, CodeAt
  <2>2. Agree(c, "locking", lockCount[c], 0, gs[c], tssRsp[c])
    BY <1>5, <1>1 DEF DisableInterrupts, Agree, CodeAt, Fits, Positions
  <2>3. FramesKept
    BY Zenon, <1>5 DEF DisableInterrupts, FramesKept, CountInv, CpuTypeOK, SavedFits
  <2> QED
    BY Zenon, <2>1, <2>2, <2>3, RunnerStep
<1>6. CASE IncLockCount(c)
  <2>1. Updates(c, "kern", lockCount[c] + 1, iflag[c], gs[c], tssRsp[c])
    BY <1>6, <1>1 DEF IncLockCount, Updates, MoveTo, CodeAt
  <2>2. Agree(c, "kern", lockCount[c] + 1, iflag[c], gs[c], tssRsp[c])
    BY <1>6, <1>1 DEF IncLockCount, Agree, CodeAt, Fits, Positions
  <2>3. FramesKept
    BY Zenon, <1>6 DEF IncLockCount, FramesKept, CountInv, CpuTypeOK, SavedFits
  <2> QED
    BY Zenon, <2>1, <2>2, <2>3, RunnerStep
<1>7. CASE DecLockCount(c)
  <2>1. Updates(c, "unlocking", lockCount[c] - 1, iflag[c], gs[c], tssRsp[c])
    BY <1>7, <1>1, <1>3 DEF DecLockCount, Updates, MoveTo, CodeAt
  <2>2. Agree(c, "unlocking", lockCount[c] - 1, iflag[c], gs[c], tssRsp[c])
    BY <1>7, <1>1, <1>3 DEF DecLockCount, Agree, CodeAt, Fits, Positions
  <2>3. FramesKept
    BY Zenon, <1>7 DEF DecLockCount, FramesKept, CountInv, CpuTypeOK, SavedFits
  <2> QED
    BY <2>1, <2>2, <2>3, RunnerStep
<1>8. CASE EnableInterrupts(c)
  <2>1. Updates(c, "kern",
                lockCount[c],
                IF lockCount[c] = 0 THEN 1 ELSE iflag[c],
                gs[c],
                tssRsp[c])
    BY <1>8, <1>1 DEF EnableInterrupts, Updates, MoveTo, CodeAt
  <2>2. Agree(c, "kern",
                lockCount[c],
                IF lockCount[c] = 0 THEN 1 ELSE iflag[c],
                gs[c],
                tssRsp[c])
    BY <1>8, <1>1 DEF EnableInterrupts, Agree, CodeAt, Fits, Positions
  <2>3. FramesKept
    BY Zenon, <1>8 DEF EnableInterrupts, FramesKept, CountInv, CpuTypeOK, SavedFits
  <2> QED
    BY Zenon, <2>1, <2>2, <2>3, RunnerStep
<1>9. CASE SyscallEntry(c)
  <2>1. Updates(c, "kern", lockCount[c], iflag[c], "kern", tssRsp[c])
    BY <1>9, <1>1 DEF SyscallEntry, Updates, MoveTo, CodeAt, Enter
  <2>2. Agree(c, "kern", lockCount[c], iflag[c], "kern", tssRsp[c])
    BY <1>9, <1>1 DEF SyscallEntry, Agree, CodeAt, Fits, Positions, Enter
  <2>3. FramesKept
    BY Zenon, <1>9, FramesAfterEnter DEF SyscallEntry, Enter, FramesKept
  <2> QED
    BY Zenon, <2>1, <2>2, <2>3, RunnerStep
<1>10. CASE SyscallExit(c)
  <2>1. Updates(c, "user", lockCount[c], iflag[c], "user", r)
    BY <1>10, <1>1 DEF SyscallExit, Updates, MoveTo, CodeAt
  <2>2. Agree(c, "user", lockCount[c], iflag[c], "user", r)
    BY <1>10, <1>1 DEF SyscallExit, Agree, CodeAt, Fits, Positions
  <2>3. FramesKept
    BY Zenon, <1>10, FramesAfterLeave DEF SyscallExit, FramesKept
  <2> QED
    BY Zenon, <2>1, <2>2, <2>3, RunnerStep
<1>11. CASE StartUserCode(c)
  <2>1. Updates(c, "user", lockCount[c], iflag[c], "user", r)
    BY <1>11, <1>1 DEF StartUserCode, Updates, MoveTo, CodeAt
  <2>2. Agree(c, "user", lockCount[c], iflag[c], "user", r)
    BY <1>11, <1>1 DEF StartUserCode, Agree, CodeAt, Fits, Positions
  <2>3. FramesKept
    BY Zenon, <1>11 DEF StartUserCode, FramesKept, CountInv, CpuTypeOK, SavedFits
  <2> QED
    BY Zenon, <2>1, <2>2, <2>3, RunnerStep
<1>12. CASE \E k \in {"irq", "fault"} : IsrEntry(c, k)
  <2>1. Updates(c, "kern", lockCount[c] + 1, 0, "kern", tssRsp[c])
    BY <1>12, <1>1 DEF IsrEntry, Updates, MoveTo, CodeAt, Enter
  <2>2. Agree(c, "kern", lockCount[c] + 1, 0, "kern", tssRsp[c])
    BY <1>12, <1>1 DEF IsrEntry, Agree, CodeAt, Fits, Positions, Enter
  <2>3. FramesKept
    BY Zenon, <1>12, FramesAfterEnter DEF IsrEntry, Enter, FramesKept
  <2> QED
    BY Zenon, <2>1, <2>2, <2>3, RunnerStep
<1>13. CASE IsrExit(c)
  <2>1. Updates(c, newest.code,
                lockCount[c] - 1,
                newest.iflag,
                IF newest.code = "user" THEN "user" ELSE gs[c],
                IF newest.code = "user" THEN r ELSE tssRsp[c])
    BY Zenon, <1>13, <1>1, <1>2 DEF IsrExit, Updates, MoveTo, CodeAt
  <2>2. Agree(c, newest.code,
                lockCount[c] - 1,
                newest.iflag,
                IF newest.code = "user" THEN "user" ELSE gs[c],
                IF newest.code = "user" THEN r ELSE tssRsp[c])
    <3>1. /\ code[r] = "kern" /\ frames[r] # << >> /\ newest.kind # "syscall"
          /\ nesting[r] = newest.nesting + 1
      BY Zenon, <1>13 DEF IsrExit, CodeAt
    <3>2. /\ newest.code \in Positions /\ newest.iflag \in {0, 1} /\ newest.nesting \in Nat
          /\ Fits(newest.code, newest.iflag, newest.nesting)
      BY Zenon, <3>1, <1>2
    <3>3. lockCount[c] - 1 = newest.nesting /\ gs[c] = "kern" /\ tssRsp[c] \in Tasks \cup {NoTask} /\ r \in Tasks
      BY <3>1, <3>2, <1>1
    <3> HIDE DEF newest
    <3> QED
      BY Zenon, <3>2, <3>3 DEF Agree
  <2>3. FramesKept
    BY Zenon, <1>13, FramesAfterLeave DEF IsrExit, FramesKept
  <2> QED
    BY Zenon, <2>1, <2>2, <2>3, RunnerStep
<1>14. ASSUME NEW t \in Tasks, SwitchThread(c, t) PROVE CountInv'
  <2>1. t \notin RunningTasks /\ code[t] = "kern" /\ nesting[t] = 1 /\ code[r] = "kern" /\ nesting[r] = 1
    BY <1>14, <1>1 DEF SwitchThread, CodeAt, CountInv, RunningTasks
  <2>2. currThread' = [currThread EXCEPT ![c] = t] /\ UNCHANGED <<lockCount, iflag, gs, tssRsp, code, nesting, frames>>
    BY <1>14 DEF SwitchThread
  <2>3. CpuTypeOK' /\ \A u \in Tasks : SavedFits(u)'
    BY Zenon, <2>2 DEF CountInv, CpuTypeOK, SavedFits
  <2>4. currThread'[c] = t /\ \A d \in CPUs \ {c} : currThread'[d] = currThread[d] /\ currThread[d] # t
    BY <2>1, <2>2 DEF CountInv, CpuTypeOK, RunningTasks
  <2>5. \A d, e \in CPUs : currThread'[d] = currThread'[e] => d = e
    BY Zenon, <2>4 DEF CountInv
  <2>6. \A u \in Tasks \ RunningTasks' : code'[u] = "kern" /\ nesting'[u] = 1
    <3>1. ASSUME NEW u \in Tasks \ RunningTasks' PROVE u = r \/ u \notin RunningTasks
      BY <2>4 DEF RunningTasks
    <3> QED
      BY <3>1, <2>1, <2>2 DEF CountInv
  <2>7. LockCountExact' /\ UserEntryReady'
    BY <2>1, <2>2, <2>4, <1>1 DEF CountInv, LockCountExact, UserEntryReady, CodeAt, Fits
  <2> QED
    BY Zenon, <2>3, <2>5, <2>6, <2>7 DEF CountInv
<1> QED
  BY <1>4, <1>5, <1>6, <1>7, <1>8, <1>9, <1>10, <1>11, <1>12, <1>13, <1>14

\* The assertion that interrupts are enabled exactly at lock count zero holds on
\* every processor, for any number of processors and threads.
THEOREM LockCountHolds == CpuSpec => []LockCountExact
<1>1. CountInv => LockCountExact
  BY DEF CountInv
<1> QED
  BY <1>1, CountInit, CountStep, PTL DEF CpuSpec

\* User code always runs with its own gs base and kernel stack.
THEOREM UserEntryHolds == CpuSpec => []UserEntryReady
<1>1. CountInv => UserEntryReady
  BY DEF CountInv
<1> QED
  BY <1>1, CountInit, CountStep, PTL DEF CpuSpec

-----------------------------------------------------------------------------
(* Boot: apIndex is at once the message to the AP being started and its    *)
(* acknowledgement, so that every AP but one is either off or past the     *)
(* shared boot stack, whatever Startup IPIs are lost, as long as no AP is  *)
(* reset after it has drawn a ticket.                                      *)

\* The AP being started, which apIndex names until it has left the boot stack.
Starting(i) == ap[i] \in {"off", "init", "boot.S", "spin", "boot stack", "initAP", "failed"}
Past(i) == ap[i] \in {"initAP2", "idle"}

Places == {"off", "init", "boot.S", "spin", "boot stack", "initAP", "failed", "initAP2", "idle"}

BootTypes ==
  /\ bspIndex \in TableIndex /\ apIndex \in TableIndex /\ late \in BOOLEAN
  /\ starting \in [idx : TableIndex \cup {ProcessorCount}, at : {"init", "startup", "poll"}, sent : Nat]
  /\ starting.idx # bspIndex
  /\ ap \in [TableIndex -> Places] /\ ap[bspIndex] = "off"
  /\ object \in [TableIndex -> TableIndex \cup {ProcessorCount}]

OneAtATime ==
  \A i \in TableIndex :
    /\ i # starting.idx => ap[i] = "off" \/ Past(i)
    /\ i = starting.idx => (Starting(i) /\ apIndex = i) \/ (Past(i) /\ apIndex = bspIndex)
    /\ object[i] \in {i, ProcessorCount}

BootInv == BootTypes /\ (late \/ OneAtATime)

\* The value for "none" is no index of the table, whose indices are numbers.
LEMMA CountIsNoAP ==
  /\ ProcessorCount \notin TableIndex /\ 0 \in TableIndex
  /\ \A i \in TableIndex : i \in Nat /\ i < ProcessorCount
  BY BootAssumption DEF TableIndex

\* The boot processor's place does not change, and a late reset is not forgotten.
LEMMA BootKeeps ==
  ASSUME BootTypes, [BootNext]_bootVars PROVE bspIndex' = bspIndex /\ (late => late')
<1>1. CASE SendInitIPI
  BY <1>1 DEF SendInitIPI, BootTypes
<1>2. CASE BspStep /\ ~SendInitIPI
  <2>1. bspIndex' = bspIndex /\ late' = late
    BY Zenon, <1>2 DEF BspStep, RunStep, BeginAP, SendStartupIPI, SeeAP, TimeUp, AllStarted
  <2> QED BY <2>1
<1>3. CASE \E i \in APs : ApStep(i)
  <2>1. bspIndex' = bspIndex /\ late' = late
    BY Zenon, <1>3 DEF ApStep, TakeBootTicket, PassBootLock, InitAP, InitAP2, TerminateBoot
  <2> QED BY <2>1
<1>4. CASE UNCHANGED bootVars
  BY <1>4 DEF bootVars
<1> QED BY <1>1, <1>2, <1>3, <1>4 DEF BootNext

\* While the boot processor waits, it waits for an AP.
LEMMA WaitsForAP ==
  ASSUME BootTypes, NEW at, Waiting(at) PROVE starting.idx \in TableIndex /\ starting.idx # bspIndex
  BY CountIsNoAP, BootAssumption DEF Waiting, BootTypes

\* Every step of the boot processor and of the APs preserves the types.
LEMMA BootTypesStep == ASSUME BootTypes, [BootNext]_bootVars PROVE BootTypes'
<1> USE CountIsNoAP
<1>1. CASE RunStep \/ AllStarted \/ UNCHANGED bootVars
  BY Zenon, <1>1 DEF RunStep, AllStarted, bootVars, BootTypes
<1>2. CASE SendInitIPI
  <2>1. starting.idx \in TableIndex /\ starting.idx # bspIndex BY <1>2, WaitsForAP DEF SendInitIPI
  <2>2. /\ starting' \in [idx : TableIndex \cup {ProcessorCount}, at : {"init", "startup", "poll"}, sent : Nat]
        /\ starting'.idx = starting.idx
    BY <1>2 DEF SendInitIPI, BootTypes
  <2> QED BY Zenon, <1>2, <2>1, <2>2 DEF SendInitIPI, BootTypes, Places
<1>3. CASE SendStartupIPI
  <2>1. starting.idx \in TableIndex /\ starting.idx # bspIndex BY <1>3, WaitsForAP DEF SendStartupIPI
  <2>2. /\ starting' \in [idx : TableIndex \cup {ProcessorCount}, at : {"init", "startup", "poll"}, sent : Nat]
        /\ starting'.idx = starting.idx
    <3>1. starting.sent \in Nat /\ starting.sent + 1 \in Nat BY DEF BootTypes
    <3>2. starting' = [starting EXCEPT !.at = "poll", !.sent = starting.sent + 1] BY <1>3 DEF SendStartupIPI
    <3> QED BY <3>1, <3>2 DEF BootTypes
  <2> QED BY Zenon, <1>3, <2>1, <2>2 DEF SendStartupIPI, BootTypes, Places
<1>4. CASE SeeAP
  <2>1. /\ starting' \in [idx : TableIndex \cup {ProcessorCount}, at : {"init", "startup", "poll"}, sent : Nat]
        /\ starting'.idx = ProcessorCount
    BY <1>4 DEF SeeAP, NoAP
  <2> QED BY Zenon, <1>4, <2>1 DEF SeeAP, BootTypes
<1>5. CASE TimeUp
  <2>1. /\ starting' \in [idx : TableIndex \cup {ProcessorCount}, at : {"init", "startup", "poll"}, sent : Nat]
        /\ starting'.idx = starting.idx
    BY <1>5 DEF TimeUp, BootTypes
  <2> QED BY Zenon, <1>5, <2>1 DEF TimeUp, BootTypes
<1>6. CASE \E i \in APs : BeginAP(i)
  <2> PICK i \in APs : BeginAP(i) BY <1>6
  <2>1. i \in TableIndex /\ i # bspIndex BY DEF APs
  <2>2. /\ starting' \in [idx : TableIndex \cup {ProcessorCount}, at : {"init", "startup", "poll"}, sent : Nat]
        /\ starting'.idx = i
    BY <2>1 DEF BeginAP, NoAP
  <2> QED BY Zenon, <2>1, <2>2 DEF BeginAP, BootTypes
<1>7. CASE \E i \in APs : ApStep(i)
  <2> PICK i \in APs : ApStep(i) BY <1>7
  <2>1. i \in TableIndex /\ i # bspIndex BY DEF APs
  <2>2. CASE TakeBootTicket(i) \/ PassBootLock(i) \/ TerminateBoot(i)
    BY Zenon, <2>1, <2>2 DEF TakeBootTicket, PassBootLock, TerminateBoot, BootTypes, Places
  <2>3. CASE InitAP(i)
    BY Zenon, <2>1, <2>3 DEF InitAP, BootTypes, Places
  <2>4. CASE InitAP2(i)
    BY Zenon, <2>1, <2>4 DEF InitAP2, BootTypes, Places
  <2> QED BY <2>2, <2>3, <2>4 DEF ApStep
<1> QED BY <1>1, <1>2, <1>3, <1>4, <1>5, <1>6, <1>7 DEF BootNext, BspStep

\* One AP at a time: only a late reset ends it.
LEMMA BootInvStep == ASSUME BootInv, [BootNext]_bootVars PROVE BootInv'
<1> USE CountIsNoAP
<1>1. BootTypes /\ BootTypes' BY BootTypesStep DEF BootInv
<1>2. bspIndex' = bspIndex /\ (late => late') BY <1>1, BootKeeps
<1> SUFFICES ASSUME ~late' PROVE OneAtATime' BY <1>1 DEF BootInv
<1>3. ~late /\ OneAtATime BY <1>2 DEF BootInv
<1>4. CASE RunStep \/ AllStarted \/ UNCHANGED bootVars
  BY Zenon, <1>3, <1>4 DEF RunStep, AllStarted, bootVars, OneAtATime, Past, Starting
<1>5. CASE SendInitIPI
  <2>1. starting.idx \in TableIndex /\ starting'.idx = starting.idx
    BY <1>1, <1>5, WaitsForAP DEF SendInitIPI, BootTypes
  <2>2. ap[starting.idx] \in {"off", "init", "boot.S"} BY Zenon, <1>5 DEF SendInitIPI
  <2>3. /\ ap'[starting.idx] = "init" /\ \A i \in TableIndex : i # starting.idx => ap'[i] = ap[i]
        /\ UNCHANGED <<apIndex, object>>
    BY Zenon, <1>1, <1>5, <2>1 DEF SendInitIPI, BootTypes
  <2> QED BY Zenon, <1>2, <1>3, <2>1, <2>2, <2>3 DEF OneAtATime, Starting, Past
<1>6. CASE SendStartupIPI
  <2>1. starting.idx \in TableIndex /\ starting'.idx = starting.idx
    BY <1>1, <1>6, WaitsForAP DEF SendStartupIPI, BootTypes
  <2>2. /\ \/ ap'[starting.idx] = ap[starting.idx]
           \/ ap'[starting.idx] = "boot.S" /\ ap[starting.idx] = "init"
        /\ \A i \in TableIndex : i # starting.idx => ap'[i] = ap[i]
        /\ UNCHANGED <<apIndex, object>>
    BY Zenon, <1>1, <1>6, <2>1 DEF SendStartupIPI, BootTypes
  <2> QED BY Zenon, <1>2, <1>3, <2>1, <2>2 DEF OneAtATime, Starting, Past
<1>7. CASE SeeAP
  <2>1. starting'.idx = ProcessorCount BY <1>7 DEF SeeAP, NoAP
  <2>2. apIndex # starting.idx /\ UNCHANGED <<apIndex, ap, object>> BY <1>7 DEF SeeAP
  <2> QED BY Zenon, <1>2, <1>3, <2>1, <2>2 DEF OneAtATime, Starting, Past
<1>8. CASE TimeUp
  <2>1. starting'.idx = starting.idx BY <1>1, <1>8 DEF TimeUp, BootTypes
  <2>2. UNCHANGED <<apIndex, ap, object>> BY <1>8 DEF TimeUp
  <2> QED BY Zenon, <1>2, <1>3, <2>1, <2>2 DEF OneAtATime, Starting, Past
<1>9. CASE \E i \in APs : BeginAP(i)
  <2> PICK i \in APs : BeginAP(i) BY <1>9
  <2>1. starting'.idx = i /\ starting.idx = ProcessorCount /\ i \in TableIndex BY DEF BeginAP, NoAP, APs
  <2>2. ap[i] = "off" /\ apIndex' = i /\ UNCHANGED <<ap, object>> BY DEF BeginAP, NextAP
  <2> QED BY Zenon, <1>2, <1>3, <2>1, <2>2 DEF OneAtATime, Starting, Past
<1>10. CASE \E i \in APs : ApStep(i)
  <2> PICK i \in APs : ApStep(i) BY <1>10
  <2>0. /\ i \in TableIndex /\ UNCHANGED starting
        /\ i # starting.idx => ap[i] = "off" \/ Past(i)
        /\ i = starting.idx /\ ~Past(i) => apIndex = i
    BY Zenon, <1>3 DEF ApStep, APs, TakeBootTicket, PassBootLock, InitAP, InitAP2, TerminateBoot, OneAtATime
  <2>1. CASE TakeBootTicket(i)
    BY Zenon, <1>1, <1>2, <1>3, <2>0, <2>1 DEF TakeBootTicket, BootTypes, OneAtATime, Starting, Past
  <2>2. CASE PassBootLock(i)
    BY Zenon, <1>1, <1>2, <1>3, <2>0, <2>2 DEF PassBootLock, BootTypes, OneAtATime, Starting, Past
  <2>3. CASE InitAP(i)
    <3>1. apIndex = i /\ i = starting.idx BY Zenon, <2>0, <2>3 DEF InitAP, Past
    <3>2. /\ ap'[i] \in {"initAP", "failed"} /\ \A j \in TableIndex : j # i => ap'[j] = ap[j] /\ object'[j] = object[j]
          /\ object'[i] \in {i, object[i]} /\ UNCHANGED apIndex
      BY Zenon, <1>1, <2>0, <2>3, <3>1 DEF InitAP, BootTypes
    <3> QED BY Zenon, <1>2, <1>3, <2>0, <3>1, <3>2 DEF OneAtATime, Starting, Past
  <2>4. CASE InitAP2(i)
    BY Zenon, <1>1, <1>2, <1>3, <2>0, <2>4 DEF InitAP2, BootTypes, OneAtATime, Starting, Past
  <2>5. CASE TerminateBoot(i)
    BY Zenon, <1>1, <1>2, <1>3, <2>0, <2>5 DEF TerminateBoot, BootTypes, OneAtATime, Starting, Past
  <2> QED BY <2>1, <2>2, <2>3, <2>4, <2>5 DEF ApStep
<1> QED BY <1>4, <1>5, <1>6, <1>7, <1>8, <1>9, <1>10 DEF BootNext, BspStep

\* The system starts with all APs off.
LEMMA BootInvInit == BootInit => BootInv
<1> SUFFICES ASSUME BootInit PROVE BootInv OBVIOUS
<1>1. starting \in [idx : TableIndex \cup {ProcessorCount}, at : {"init", "startup", "poll"}, sent : Nat]
      /\ starting.idx = ProcessorCount
  BY DEF BootInit, NoAP
<1>2. BootTypes BY Zenon, <1>1, CountIsNoAP DEF BootInit, BootTypes, Places
<1>3. OneAtATime BY Zenon, <1>1, CountIsNoAP DEF BootInit, OneAtATime, Starting, Past
<1> QED BY <1>2, <1>3 DEF BootInv

\* No other processor than the one being started is on the boot stack.
LEMMA OnlyOneStarts == BootInv => BootStackExclusive
<1> SUFFICES ASSUME BootInv, ~late PROVE Cardinality({i \in APs : ap[i] \in {"boot stack", "initAP"}}) <= 1
  BY DEF BootStackExclusive
<1> DEFINE S == {i \in APs : ap[i] \in {"boot stack", "initAP"}}
<1>1. S \subseteq {starting.idx} BY Zenon DEF BootInv, OneAtATime, Past, APs
<1>2. IsFiniteSet({starting.idx}) /\ Cardinality({starting.idx}) = 1 BY Zenon, FS_Singleton
<1>3. Cardinality(S) <= Cardinality({starting.idx}) BY Zenon, <1>1, <1>2, FS_Subset
<1> QED BY Zenon, <1>2, <1>3

\* The boot stack is used by one processor at a time for any number of
\* processors, unless one was reset late (boot.S:207-211, Machine.cc:346-370).
THEOREM BootStackHolds == BootSpec => []BootStackExclusive
  BY BootInvInit, BootInvStep, OnlyOneStarts, PTL DEF BootSpec

\* Every AP initialises its own entry of the processor table, unless one was
\* reset late (Machine.cc:120-121, 348).
THEOREM OwnObjectHolds == BootSpec => []OwnProcessorObject
<1>1. BootInv => OwnProcessorObject BY Zenon DEF BootInv, OneAtATime, OwnProcessorObject, APs
<1> QED BY <1>1, BootInvInit, BootInvStep, PTL DEF BootSpec

(***************************************************************************)
(* Numbers: an AP's ticket is the index that the boot processor is waiting *)
(* for.  Tickets count the processors that have passed boot.S and the boot *)
(* processor goes through the APs in order, so both agree if and because   *)
(* the boot processor is the first in the table, and none is reset late.   *)
(***************************************************************************)
OtherIndex == TableIndex \ {0}

TicketOf(i) ==
  /\ ap[i] = "off" => bootTicket <= i
  /\ starting.idx = i /\ ap[i] \in {"off", "init", "boot.S"} => bootTicket = i
  /\ ap[i] = "spin" => number[i] = i /\ bootServing = i /\ bootTicket = i + 1
  /\ ap[i] \in {"boot stack", "initAP"} => number[i] = i
  /\ ap[i] \notin {"off", "init", "boot.S"} => i < bootTicket
  /\ ap[i] # "failed"

Tickets ==
  /\ bootTicket \in Nat /\ 0 < bootTicket /\ bootServing \in Nat /\ DOMAIN number = TableIndex
  /\ (\A i \in OtherIndex : ap[i] # "spin") => bootServing = bootTicket
  /\ \A i \in OtherIndex : TicketOf(i)

\* All APs but the first have the AP before them in the table.
LEMMA AllButFirst == ASSUME NEW i \in OtherIndex PROVE i = 1 \/ i - 1 \in OtherIndex
  BY BootAssumption DEF TableIndex, OtherIndex

\* The tickets that are drawn are those of the APs that have been started.
LEMMA TicketsStep ==
  ASSUME bspIndex = 0, ~late, ~late', BootInv, Tickets, [BootNext]_bootVars PROVE Tickets'
<1> USE CountIsNoAP
<1>0. BootTypes /\ OneAtATime /\ APs = OtherIndex /\ OtherIndex \subseteq TableIndex
  BY DEF BootInv, APs, OtherIndex
<1>1. CASE RunStep \/ AllStarted \/ UNCHANGED bootVars
  BY Zenon, <1>1 DEF RunStep, AllStarted, bootVars, Tickets, TicketOf
<1>2. CASE SeeAP \/ TimeUp
  <2>1. starting'.idx \in {ProcessorCount, starting.idx} /\ UNCHANGED <<ap, number, bootTicket, bootServing>>
    BY <1>0, <1>2 DEF SeeAP, TimeUp, NoAP, BootTypes
  <2> QED BY Zenon, <1>0, <2>1 DEF Tickets, TicketOf
<1>3. CASE SendInitIPI \/ SendStartupIPI
  <2>1. starting.idx \in TableIndex /\ starting.idx # 0 /\ starting'.idx = starting.idx
    BY <1>0, <1>3, WaitsForAP DEF SendInitIPI, SendStartupIPI, BootTypes
  <2>2. starting.idx \in OtherIndex BY <2>1 DEF OtherIndex
  <2>3. /\ \/ ap'[starting.idx] = ap[starting.idx]
           \/ ap'[starting.idx] \in {"init", "boot.S"} /\ ap[starting.idx] \in {"off", "init", "boot.S"}
        /\ \A i \in TableIndex : i # starting.idx => ap'[i] = ap[i]
        /\ UNCHANGED <<number, bootTicket, bootServing>>
    BY Zenon, <1>0, <1>3, <2>1 DEF SendInitIPI, SendStartupIPI, BootTypes
  <2>4. ASSUME NEW j \in OtherIndex PROVE TicketOf(j)'
    <3>1. TicketOf(j) /\ j \in TableIndex BY <1>0 DEF Tickets
    <3>2. CASE j = starting.idx BY Zenon, <2>1, <2>3, <3>1, <3>2 DEF TicketOf
    <3>3. CASE j # starting.idx BY Zenon, <2>1, <2>3, <3>1, <3>3 DEF TicketOf
    <3> QED BY <3>2, <3>3
  <2>5. (\A j \in OtherIndex : ap'[j] # "spin") => \A j \in OtherIndex : ap[j] # "spin"
    BY Zenon, <1>0, <2>2, <2>3
  <2> QED BY Zenon, <2>3, <2>4, <2>5 DEF Tickets
<1>4. CASE \E i \in APs : BeginAP(i)
  <2> PICK i \in OtherIndex : BeginAP(i) BY <1>0, <1>4
  <2>1. starting.idx = ProcessorCount /\ starting'.idx = i /\ ap[i] = "off" /\ i \in TableIndex
    BY <1>0 DEF BeginAP, NextAP, NoAP
  <2>2. \A j \in OtherIndex : ap[j] = "off" \/ Past(j)
    BY <1>0, <2>1 DEF OneAtATime
  <2>3. i = 1 \/ i - 1 < bootTicket
    <3> SUFFICES ASSUME i # 1 PROVE i - 1 < bootTicket OBVIOUS
    <3>1. i - 1 \in OtherIndex BY AllButFirst
    <3>2. ap[i - 1] # "off" BY <1>0, <3>1 DEF BeginAP, NextAP
    <3> QED BY Zenon, <2>2, <3>1, <3>2 DEF Past, Tickets, TicketOf
  <2>4. bootTicket = i
    <3>1. bootTicket \in Nat /\ 0 < bootTicket /\ bootTicket <= i BY Zenon, <2>1 DEF Tickets, TicketOf
    <3>2. i \in Nat BY <2>1
    <3> QED BY <2>3, <3>1, <3>2
  <2>5. UNCHANGED <<ap, number, bootTicket, bootServing>> BY DEF BeginAP
  <2> QED BY Zenon, <2>1, <2>2, <2>4, <2>5 DEF Past, Tickets, TicketOf
<1>5. CASE \E i \in APs : ApStep(i)
  <2> PICK i \in OtherIndex : ApStep(i) BY <1>0, <1>5
  <2>0. i \in TableIndex /\ UNCHANGED starting
    BY Zenon, <1>0 DEF ApStep, TakeBootTicket, PassBootLock, InitAP, InitAP2, TerminateBoot
  <2>1. CASE TakeBootTicket(i)
    <3>1. ap[i] = "boot.S" /\ i = starting.idx /\ \A j \in OtherIndex : ap[j] # "spin"
      BY <1>0, <2>0, <2>1 DEF TakeBootTicket, OneAtATime, Past
    <3>2. bootTicket = i /\ bootServing = i BY Zenon, <3>1 DEF Tickets, TicketOf
    <3>3. /\ ap'[i] = "spin" /\ \A j \in TableIndex : j # i => ap'[j] = ap[j]
          /\ number'[i] = i /\ \A j \in TableIndex : j # i => number'[j] = number[j]
          /\ bootTicket' = i + 1 /\ bootServing' = i /\ DOMAIN number' = TableIndex
      BY <1>0, <2>0, <2>1, <3>2 DEF TakeBootTicket, BootTypes, Tickets
    <3>4. ASSUME NEW j \in OtherIndex, j # i PROVE TicketOf(j)'
      <4>1. j \in TableIndex /\ (ap[j] = "off" \/ Past(j)) BY <1>0, <3>1, <3>4 DEF OneAtATime
      <4>2. TicketOf(j) BY DEF Tickets
      <4>3. i \in Nat /\ j \in Nat BY <2>0, <4>1
      <4>4. CASE ap[j] = "off"
        <5>1. i <= j BY <3>2, <4>2, <4>4 DEF TicketOf
        <5>2. i + 1 <= j BY <3>4, <4>3, <5>1
        <5>3. ap'[j] = "off" /\ bootTicket' <= j /\ starting'.idx # j
          BY <2>0, <3>1, <3>3, <3>4, <4>1, <4>4, <5>2
        <5> QED BY Zenon, <5>3 DEF TicketOf
      <4>5. CASE Past(j)
        <5>1. j < i BY Zenon, <3>2, <4>2, <4>5 DEF Past, TicketOf
        <5>2. j < i + 1 BY <4>3, <5>1
        <5>3. ap'[j] \in {"initAP2", "idle"} /\ j < bootTicket' BY <3>3, <3>4, <4>1, <4>5, <5>2 DEF Past
        <5> QED BY Zenon, <5>3 DEF TicketOf
      <4> QED BY <4>1, <4>4, <4>5
    <3>5. TicketOf(i)'
      <4>1. i \in Nat /\ i < i + 1 BY <2>0
      <4> QED BY Zenon, <3>3, <4>1 DEF TicketOf
    <3>6. bootTicket' \in Nat /\ 0 < bootTicket' /\ bootServing' \in Nat BY <2>0, <3>3
    <3>7. ~(\A j \in OtherIndex : ap'[j] # "spin") BY <3>3
    <3> QED BY <3>3, <3>4, <3>5, <3>6, <3>7 DEF Tickets
  <2>2. CASE PassBootLock(i)
    <3>1. ap[i] = "spin" /\ bootServing = i /\ bootTicket = i + 1 /\ number[i] = i
      BY Zenon, <2>2 DEF PassBootLock, Tickets, TicketOf
    <3>2. /\ ap'[i] = "boot stack" /\ \A j \in TableIndex : j # i => ap'[j] = ap[j]
          /\ bootServing' = i + 1 /\ UNCHANGED <<number, bootTicket>>
      BY Zenon, <1>0, <2>0, <2>2, <3>1 DEF PassBootLock, BootTypes
    <3>3. \A j \in OtherIndex : j # i => ap[j] = "off" \/ Past(j)
      BY <1>0, <2>0, <3>1 DEF OneAtATime, Past
    <3>4. ASSUME NEW j \in OtherIndex PROVE TicketOf(j)'
      <4>1. TicketOf(j) /\ j \in TableIndex BY <1>0 DEF Tickets
      <4>2. CASE j = i BY Zenon, <2>0, <3>1, <3>2, <4>1, <4>2 DEF TicketOf
      <4>3. CASE j # i BY Zenon, <2>0, <3>2, <3>3, <4>1, <4>3 DEF TicketOf, Past
      <4> QED BY <4>2, <4>3
    <3>5. bootServing' = bootTicket' BY Zenon, <3>1, <3>2
    <3>6. bootServing' \in Nat
      <4>1. i + 1 \in Nat BY <2>0
      <4> QED BY Zenon, <3>2, <4>1
    <3> QED BY Zenon, <3>2, <3>4, <3>5, <3>6 DEF Tickets
  <2>3. CASE InitAP(i) \/ InitAP2(i) \/ TerminateBoot(i)
    <3>1. ap[i] = "boot stack" => number[i] = i /\ apIndex = i
      BY Zenon, <1>0, <2>0 DEF Tickets, TicketOf, OneAtATime, Past
    <3>2. /\ ap[i] \in {"boot stack", "initAP", "initAP2"}
          /\ ap'[i] \in {"initAP", "initAP2", "idle"} /\ (ap'[i] = "initAP" => ap[i] = "boot stack")
          /\ \A j \in TableIndex : j # i => ap'[j] = ap[j]
          /\ UNCHANGED <<number, bootTicket, bootServing>>
      BY Zenon, <1>0, <2>0, <2>3, <3>1 DEF InitAP, InitAP2, TerminateBoot, BootTypes
    <3>3. ASSUME NEW j \in OtherIndex PROVE TicketOf(j)'
      <4>1. TicketOf(j) /\ j \in TableIndex BY <1>0 DEF Tickets
      <4>2. CASE j = i BY Zenon, <2>0, <3>1, <3>2, <4>1, <4>2 DEF TicketOf
      <4>3. CASE j # i BY Zenon, <2>0, <3>2, <4>1, <4>3 DEF TicketOf
      <4> QED BY <4>2, <4>3
    <3>4. (\A j \in OtherIndex : ap'[j] # "spin") => \A j \in OtherIndex : ap[j] # "spin"
      BY Zenon, <1>0, <3>2
    <3> QED BY Zenon, <3>2, <3>3, <3>4 DEF Tickets
  <2> QED BY <2>1, <2>2, <2>3 DEF ApStep
<1> QED BY <1>1, <1>2, <1>3, <1>4, <1>5 DEF BootNext, BspStep

\* The boot processor has drawn ticket 0.
LEMMA TicketsInit == ASSUME BootInit PROVE Tickets
<1>1. \A i \in OtherIndex : ap[i] = "off" /\ starting.idx # i
  BY CountIsNoAP DEF BootInit, NoAP, OtherIndex
<1>2. bootTicket = 1 /\ bootServing = 1 /\ DOMAIN number = TableIndex BY Zenon DEF BootInit
<1>3. ASSUME NEW i \in OtherIndex PROVE TicketOf(i)
  <2>1. i \in Nat /\ i # 0 BY CountIsNoAP DEF OtherIndex
  <2>2. 1 <= i BY <2>1
  <2> QED BY Zenon, <1>1, <1>2, <2>2 DEF TicketOf
<1> QED BY <1>2, <1>3 DEF Tickets

(***************************************************************************)
(* If another processor is the first in the table, the boot processor      *)
(* waits for index 0 and every AP's ticket is at least 1.                  *)
(***************************************************************************)
Blocked ==
  /\ apIndex = 0 /\ bootTicket \in Nat /\ 0 < bootTicket /\ DOMAIN number = TableIndex
  /\ starting.idx \in {0, ProcessorCount} /\ (starting.idx = ProcessorCount => ap[0] = "off")
  /\ \A i \in TableIndex :
       /\ i # 0 => ap[i] = "off"
       /\ ap[i] \notin {"initAP", "initAP2", "idle"}
       /\ ap[i] \in {"spin", "boot stack"} => number[i] # 0

\* No step gets an AP past the assertion.
LEMMA BlockedStep ==
  ASSUME bspIndex # 0, BootTypes, Blocked, [BootNext]_bootVars PROVE Blocked'
<1> USE CountIsNoAP
<1>1. CASE RunStep \/ AllStarted \/ UNCHANGED bootVars
  BY Zenon, <1>1 DEF RunStep, AllStarted, bootVars, Blocked
<1>2. CASE SeeAP
  <2>1. starting.idx \in TableIndex BY <1>2, WaitsForAP DEF SeeAP
  <2> QED BY Zenon, <1>2, <2>1 DEF SeeAP, Blocked
<1>3. CASE TimeUp
  <2>1. starting'.idx = starting.idx BY <1>3 DEF TimeUp, BootTypes
  <2> QED BY Zenon, <1>3, <2>1 DEF TimeUp, Blocked
<1>4. CASE SendInitIPI \/ SendStartupIPI
  <2>1. starting.idx \in TableIndex /\ starting'.idx = starting.idx
    BY <1>4, WaitsForAP DEF SendInitIPI, SendStartupIPI, BootTypes
  <2>2. starting.idx = 0 BY Zenon, <2>1 DEF Blocked
  <2>3. /\ ap'[0] = ap[0] \/ ap'[0] \in {"init", "boot.S"}
        /\ \A i \in TableIndex : i # 0 => ap'[i] = ap[i]
        /\ UNCHANGED <<number, bootTicket, apIndex>>
    BY Zenon, <1>4, <2>2 DEF SendInitIPI, SendStartupIPI, BootTypes
  <2> QED BY Zenon, <2>1, <2>2, <2>3 DEF Blocked
<1>5. CASE \E i \in APs : BeginAP(i)
  <2> PICK i \in APs : BeginAP(i) BY <1>5
  <2>1. starting.idx = ProcessorCount /\ starting'.idx = i /\ UNCHANGED <<ap, number, bootTicket>> /\ apIndex' = i
    BY DEF BeginAP, NoAP
  <2>2. ap[0] = "off" /\ 0 \in APs BY <2>1 DEF Blocked, APs
  <2>3. i \in Nat /\ i <= 0 BY <2>2 DEF BeginAP, NextAP, APs
  <2>4. i = 0 BY <2>3
  <2> QED BY Zenon, <2>1, <2>4 DEF Blocked
<1>6. CASE \E i \in APs : ApStep(i)
  <2> PICK i \in APs : ApStep(i) BY <1>6
  <2>0. i \in TableIndex /\ UNCHANGED starting /\ ap[i] # "off" /\ i = 0 /\ ap[i] \notin {"initAP", "initAP2"}
    BY Zenon DEF ApStep, APs, TakeBootTicket, PassBootLock, InitAP, InitAP2, TerminateBoot, Blocked
  <2>1. CASE TakeBootTicket(i)
    <3>0. bootTicket \in Nat /\ 0 < bootTicket /\ bootTicket' = bootTicket + 1
      BY Zenon, <2>1 DEF TakeBootTicket, Blocked
    <3>1. bootTicket' \in Nat /\ 0 < bootTicket' /\ bootTicket # 0 BY <3>0
    <3>2. /\ ap'[i] = "spin" /\ \A j \in TableIndex : j # i => ap'[j] = ap[j] /\ number'[j] = number[j]
          /\ number'[i] = bootTicket /\ DOMAIN number' = TableIndex /\ UNCHANGED apIndex
      BY Zenon, <2>0, <2>1 DEF TakeBootTicket, BootTypes, Blocked
    <3>3. starting.idx # ProcessorCount BY Zenon, <2>0 DEF Blocked
    <3> QED BY Zenon, <2>0, <3>1, <3>2, <3>3 DEF Blocked
  <2>2. CASE PassBootLock(i) \/ InitAP(i)
    <3>1. /\ (ap'[i] = "boot stack" /\ ap[i] = "spin") \/ ap'[i] = "failed"
          /\ \A j \in TableIndex : j # i => ap'[j] = ap[j]
          /\ UNCHANGED <<apIndex, number, bootTicket>>
      BY Zenon, <2>0, <2>2 DEF PassBootLock, InitAP, BootTypes, Blocked
    <3>2. starting.idx # ProcessorCount BY Zenon, <2>0 DEF Blocked
    <3> QED BY Zenon, <2>0, <3>1, <3>2 DEF Blocked
  <2> QED BY Zenon, <2>0, <2>1, <2>2 DEF ApStep, InitAP2, TerminateBoot
<1> QED BY <1>1, <1>2, <1>3, <1>4, <1>5, <1>6 DEF BootNext, BspStep

BootIndexInv ==
  /\ BootInv
  /\ bspIndex = 0 /\ ~late => Tickets
  /\ bspIndex # 0 => Blocked

\* "KASSERT1(idx == apIndex, idx)" (Machine.cc:120) fails for no number of
\* processors and of lost Startup IPIs, if the boot processor is the first of the
\* processor table and no AP is reset after it has drawn a ticket; and no AP
\* passes it if the boot processor is not the first.
THEOREM BootIndexHolds == BootSpec => []BootIndexAgrees
<1>1. BootInit => BootIndexInv
  <2> SUFFICES ASSUME BootInit PROVE BootIndexInv OBVIOUS
  <2>1. starting.idx = ProcessorCount BY DEF BootInit, NoAP
  <2>2. bootTicket = 1 /\ DOMAIN number = TableIndex /\ apIndex = 0 /\ \A i \in TableIndex : ap[i] = "off"
    BY Zenon DEF BootInit
  <2>3. 1 \in Nat /\ 0 < 1 OBVIOUS
  <2>4. Blocked BY Zenon, <2>1, <2>2, <2>3, CountIsNoAP DEF Blocked
  <2> QED BY <2>4, BootInvInit, TicketsInit DEF BootIndexInv
<1>2. BootIndexInv /\ [BootNext]_bootVars => BootIndexInv'
  <2> SUFFICES ASSUME BootIndexInv, [BootNext]_bootVars PROVE BootIndexInv' OBVIOUS
  <2>1. BootTypes /\ BootInv' BY BootInvStep DEF BootIndexInv, BootInv
  <2>2. bspIndex' = bspIndex /\ (late => late') BY <2>1, BootKeeps
  <2>3. bspIndex' = 0 /\ ~late' => Tickets' BY <2>2, TicketsStep DEF BootIndexInv
  <2>4. bspIndex' # 0 => Blocked' BY <2>1, <2>2, BlockedStep DEF BootIndexInv
  <2> QED BY <2>1, <2>3, <2>4 DEF BootIndexInv
<1>3. BootIndexInv => BootIndexAgrees
  <2> SUFFICES ASSUME BootIndexInv, NEW i \in APs
               PROVE  /\ ap[i] = "failed" => bspIndex # 0 \/ late
                      /\ ap[i] \in {"initAP", "initAP2", "idle"} => bspIndex = 0
    BY DEF BootIndexAgrees
  <2>1. i \in TableIndex /\ (bspIndex = 0 => i \in OtherIndex) BY DEF APs, OtherIndex
  <2>2. CASE bspIndex = 0 BY Zenon, <2>1, <2>2 DEF BootIndexInv, Tickets, TicketOf
  <2>3. CASE bspIndex # 0 BY Zenon, <2>1, <2>3 DEF BootIndexInv, Blocked
  <2> QED BY <2>2, <2>3
<1> QED BY <1>1, <1>2, <1>3, PTL DEF BootSpec

-----------------------------------------------------------------------------
(* Gdb: any number of cores may trap at the same time; the ticket queue of *)
(* the gdb stub gives the front end to one of them.                        *)

\* Tickets that are not used up are distinct and below tcounter, and a core that
\* has the front end holds the ticket that is being served.
TicketInv ==
  /\ gpc \in [Cores -> Phases]
  /\ ticket \in [Cores -> Int] /\ line \in Int
  /\ \A c \in Cores : ticket[c] >= -1 /\ ticket[c] < line
  /\ \A c, d \in Cores : ticket[c] >= 0 /\ ticket[c] = ticket[d] => c = d
  /\ \A c \in Cores : gpc[c] \in Speaking => ticket[c] = 0

\* initGdb and the static initialisers: no ticket has been taken.
LEMMA TicketInit == GdbInit => TicketInv
  BY DEF GdbInit, TicketInv, Phases, Speaking, Reading

\* Steps that neither take a ticket nor pass the turn, and do not begin a session.
LEMMA TicketFrame ==
  ASSUME TicketInv, UNCHANGED queueVars, NEW c \in Cores, NEW phase \in Phases,
         GdbGoto(c, phase), phase \in Speaking => ticket[c] = 0
  PROVE  TicketInv'
  BY DEF TicketInv, queueVars, GdbGoto

\* "obtain ticket, if current ticket old" (Gdb.cc:779-785, 814-820).
LEMMA TicketTaken ==
  ASSUME TicketInv, NEW c \in Cores, TakeTicket(c)
  PROVE  TicketInv'
<1>1. PICK phase \in {"wait", "wait2"} : GdbGoto(c, phase)
  BY Zenon DEF TakeTicket
<1>2. phase \in Phases /\ phase \notin Speaking
  BY <1>1 DEF Phases, Speaking, Reading
<1>3. CASE ticket[c] < 0
  <2>1. ticket' = [ticket EXCEPT ![c] = line] /\ line' = line + 1
    BY <1>3 DEF TakeTicket
  <2> QED
    BY <1>1, <1>2, <2>1 DEF TicketInv, GdbGoto
<1>4. CASE ~(ticket[c] < 0)
  BY <1>1, <1>2, <1>4, TicketFrame DEF TakeTicket
<1> QED
  BY <1>3, <1>4

\* ++serving by the core whose turn it is (Gdb.cc:847, 851).
LEMMA TurnPassed ==
  ASSUME TicketInv, NEW c \in Cores, TakeTurn(c)
  PROVE  TicketInv'
<1>1. PICK phase \in {"loop", "leave"} : GdbGoto(c, phase)
  BY Zenon DEF TakeTurn
<1>2. phase \in Phases /\ phase \notin Speaking
  BY <1>1 DEF Phases, Speaking, Reading
<1>3. /\ ticket[c] = 0
      /\ ticket' = [d \in Cores |-> IF ticket[d] < 0 THEN -1 ELSE ticket[d] - 1]
      /\ line' = line - 1
  BY Zenon DEF TakeTurn, NextTurn
<1>4. \A d \in Cores : ticket'[d] >= -1 /\ ticket'[d] < line'
  BY <1>3 DEF TicketInv
<1>5. \A d, e \in Cores : ticket'[d] >= 0 /\ ticket'[d] = ticket'[e] => d = e
  BY <1>3 DEF TicketInv
<1>6. \A d \in Cores : gpc'[d] \in Speaking => ticket'[d] = 0
  <2> SUFFICES ASSUME NEW d \in Cores, gpc'[d] \in Speaking
      PROVE  FALSE
    OBVIOUS
  <2>1. d # c /\ gpc[d] \in Speaking
    BY <1>1, <1>2 DEF GdbGoto, TicketInv
  <2> QED
    BY <2>1, <1>3 DEF TicketInv
<1> QED
  BY <1>1, <1>2, <1>3, <1>4, <1>5, <1>6 DEF TicketInv, GdbGoto

\* Every step of every core preserves the invariant.
LEMMA TicketStep ==
  ASSUME TicketInv, NEW c \in Cores, CoreStep(c)
  PROVE  TicketInv'
<1>1. CASE StartGdbCpu(c)
  BY Zenon, <1>1, TicketFrame DEF StartGdbCpu, Phases, Speaking, Reading
<1>2. CASE Trap(c)
  BY Zenon, <1>2, TicketFrame DEF Trap, Phases, Speaking, Reading
<1>3. CASE EnterException(c)
  BY <1>3, TicketFrame DEF EnterException, Phases, Speaking, Reading
<1>4. CASE CheckBreakpoint(c)
  BY <1>4, TicketFrame DEF CheckBreakpoint, Phases, Speaking, Reading
<1>5. CASE TakeStopIPI(c)
  BY <1>5, TicketFrame DEF TakeStopIPI, Phases, Speaking, Reading
<1>6. CASE PageFault(c)
  BY Zenon, <1>6, TicketFrame DEF PageFault, Phases, Speaking, Reading
<1>7. CASE TakeTicket(c)
  BY <1>7, TicketTaken
<1>8. CASE StartSession(c)
  BY <1>8, TicketFrame DEF StartSession, Phases, Speaking, Reading
<1>9. CASE StopCore(c)
  BY <1>9 DEF StopCore, TicketInv, GdbGoto, queueVars, Phases, Speaking, Reading
<1>10. CASE CoreStopped(c)
  BY <1>10 DEF CoreStopped, TicketInv, GdbGoto, queueVars, Phases, Speaking, Reading
<1>11. CASE SendStopReply(c)
  BY <1>11 DEF SendStopReply, TicketInv, GdbGoto, queueVars, Phases, Speaking, Reading
<1>12. CASE HandlePacket(c)
  <2>1. PICK phase \in {"packet", "loop"} : GdbGoto(c, phase)
    BY <1>12 DEF HandlePacket
  <2> QED
    BY <1>12, <2>1 DEF HandlePacket, TicketInv, GdbGoto, queueVars, Phases, Speaking, Reading
<1>13. CASE TestAllstop(c)
  BY <1>13, TicketFrame DEF TestAllstop, Phases, Speaking, Reading
<1>14. CASE TakeTurn(c)
  BY <1>14, TurnPassed
<1>15. CASE ResumeExecution(c)
  BY <1>15, TicketFrame DEF ResumeExecution, Phases, Speaking, Reading
<1>16. CASE BeginAccess(c)
  BY <1>16 DEF BeginAccess, TicketInv, GdbGoto, queueVars, Phases, Speaking, Reading
<1>17. CASE EndAccess(c)
  BY <1>17 DEF EndAccess, TicketInv, GdbGoto, queueVars, Phases, Speaking, Reading
<1> QED
  BY <1>1, <1>2, <1>3, <1>4, <1>5, <1>6, <1>7, <1>8, <1>9, <1>10, <1>11, <1>12,
     <1>13, <1>14, <1>15, <1>16, <1>17 DEF CoreStep

\* For any number of processors, at most one core at a time stops the others
\* and talks to the front end (handle_exception, Gdb.cc:779-809).
THEOREM OneSpeakerHolds == GdbSpec => []OneSpeaker
<1>1. TicketInv /\ [GdbNext]_gdbVars => TicketInv'
  <2> SUFFICES ASSUME TicketInv, [GdbNext]_gdbVars PROVE TicketInv'
    OBVIOUS
  <2>1. CASE Reattach
    BY <2>1 DEF Reattach, TicketInv, queueVars
  <2>2. CASE \E c \in Cores : CoreStep(c)
    BY <2>2, TicketStep
  <2>3. CASE UNCHANGED gdbVars
    BY <2>3 DEF gdbVars, TicketInv
  <2> QED
    BY <2>1, <2>2, <2>3 DEF GdbNext
<1>2. TicketInv => OneSpeaker
  BY DEF TicketInv, OneSpeaker
<1> QED
  BY <1>1, <1>2, TicketInit, PTL DEF GdbSpec

(***************************************************************************)
(* The session.  A core reads packets only after the previous vCont packet *)
(* has been answered, and answers as itself: the thread chosen with H does *)
(* not outlive a packet.  A breakpoint in the text has its original byte   *)
(* in bpMap, and so has one that is about to be removed.                   *)
(***************************************************************************)
StubType ==
  [Htid : Int, hookAddr : {0, HookAddr}, hook : BOOLEAN,
   action : {"none", "c", "s"}, tid : Int, bpMap : [Code -> {"none", "op"}],
   savedThread : Cores \cup {0}, pinned : SUBSET Cores, told : Int]

SessionInv ==
  /\ stub \in StubType
  /\ fe \in {"ask", "await", "gone"}
  /\ fe = "await" => stub.action # "none"
  /\ stub.action # "none" => stub.Htid = -2 /\ \A c \in Cores : gpc[c] \notin Reading
  /\ stub.action = "none" => stub.told = 0 \/ (stub.told \in Cores /\ gpc[stub.told] \in Reading)
  /\ text \in [Code -> {"op", "cc"}]
  /\ \A a \in Code : text[a] = "cc" => stub.bpMap[a] = "op"
  /\ stub.pinned = {stub.savedThread} \ {0}
  /\ \A c \in Cores : gpc[c] = "access" => request \in MemoryRequests /\ Sensible(request)

\* The stub's variables that neither a stop reply nor vCont changes.
Kept(h, s) ==
  /\ h \in StubType
  /\ h.bpMap = s.bpMap /\ h.pinned = s.pinned /\ h.savedThread = s.savedThread

\* vCont and the stop reply set action, a thread and the thread told; each
\* assignment leaves the others alone (Gdb.cc:608-649, 798-805).
LEMMA SetAction ==
  ASSUME NEW s \in StubType, NEW x \in {"none", "c", "s"}
  PROVE  LET h == [s EXCEPT !.action = x] IN
         Kept(h, s) /\ h.action = x /\ h.told = s.told /\ h.Htid = s.Htid
  BY DEF StubType, Kept

\* ... the thread that a vCont packet names (VCont::parse).
LEMMA SetTid ==
  ASSUME NEW s \in StubType, NEW x \in Int
  PROVE  LET h == [s EXCEPT !.tid = x] IN
         Kept(h, s) /\ h.action = s.action /\ h.told = s.told /\ h.Htid = s.Htid
  BY DEF StubType, Kept

\* ... the thread that the stop reply names.
LEMMA SetTold ==
  ASSUME NEW s \in StubType, NEW x \in Int
  PROVE  LET h == [s EXCEPT !.told = x] IN
         Kept(h, s) /\ h.action = s.action /\ h.told = x /\ h.Htid = s.Htid
  BY DEF StubType, Kept

\* ... and the thread chosen with H.
LEMMA SetHtid ==
  ASSUME NEW s \in StubType, NEW x \in Int
  PROVE  LET h == [s EXCEPT !.Htid = x] IN
         Kept(h, s) /\ h.action = s.action /\ h.told = s.told /\ h.Htid = x
  BY DEF StubType, Kept

\* What a request does to the stub's variables (handlePacket, Gdb.cc:654-710).
LEMMA HandledFacts ==
  ASSUME NEW s \in StubType, NEW r \in Requests, Sensible(r),
         text \in [Code -> {"op", "cc"}]
  PROVE  LET h == Handled(s, r) IN
         /\ h \in StubType
         /\ h.pinned = s.pinned /\ h.savedThread = s.savedThread
         /\ IF r.op \in {"c", "s", "k"} THEN h.action # "none" /\ h.told = 0
                                       ELSE h.action = s.action /\ h.told = s.told
         /\ r.op = "Z" => r.addr \in Code /\ h.bpMap = [s.bpMap EXCEPT ![r.addr] = "op"]
         /\ r.op # "Z" => h.bpMap = s.bpMap
         /\ r.op = "z" => r.addr \in Code /\ text[r.addr] = "cc"
<1>1. r.op \in {"q", "qSymbol", "?", "g", "k", "c", "s", "H", "m", "Z", "z"}
  BY DEF Requests, MemoryRequests
<1>2. CASE r.op \in {"q", "qSymbol"}
  BY <1>2 DEF Handled, Query, StubType
<1>3. CASE r.op \in {"?", "g"}
  BY <1>3 DEF Handled, UseThread, StubType
<1>4. CASE r.op = "H"
  <2>1. r.tid \in Int
    BY <1>4, GdbAssumption DEF Requests, MemoryRequests, Cores
  <2> QED
    BY <1>4, <2>1 DEF Handled, ChooseThread, StubType
<1>5. CASE r.op = "m"
  BY <1>5 DEF Handled, StubType
<1>6. CASE r.op = "Z"
  <2>1. r.addr \in Code /\ text[r.addr] = "op"
    BY <1>6 DEF Requests, MemoryRequests, Sensible
  <2> QED
    BY Zenon, <1>6, <2>1 DEF Handled, SetSoftBreak, StubType
<1>7. CASE r.op = "z"
  <2>1. r.addr \in Code /\ text[r.addr] = "cc"
    BY <1>7 DEF Requests, MemoryRequests, Sensible
  <2> QED
    BY Zenon, <1>7, <2>1 DEF Handled, RemoveSoftBreak, StubType
<1>8. CASE r.op \in {"k", "c", "s"}
  <2>1. PICK x \in {"c", "s"}, t \in Int : Handled(s, r) = [s EXCEPT !.action = x, !.tid = t, !.told = 0]
    <3>0. -1 \in Int
      OBVIOUS
    <3>1. r.op = "s" => r.tid \in Int
      BY GdbAssumption DEF Requests, MemoryRequests, Cores
    <3>2. CASE r.op = "k"
      <4>1. Handled(s, r) = [s EXCEPT !.action = "c", !.tid = -1, !.told = 0]
        BY <3>2 DEF Handled, Detach
      <4> QED
        BY Zenon, <3>0, <4>1
    <3>3. CASE r.op = "c"
      <4>1. Handled(s, r) = [s EXCEPT !.action = "c", !.tid = -1, !.told = 0]
        BY <3>3 DEF Handled, ParseVCont
      <4> QED
        BY Zenon, <3>0, <4>1
    <3>4. CASE r.op = "s"
      <4>1. Handled(s, r) = [s EXCEPT !.action = "s", !.tid = r.tid, !.told = 0]
        BY <3>4 DEF Handled, ParseVCont
      <4> QED
        BY Zenon, <3>1, <3>4, <4>1
    <3> QED
      BY Zenon, <1>8, <3>2, <3>3, <3>4
  <2>2. PICK h : h = [s EXCEPT !.action = x]
    BY Zenon
  <2>3. Kept(h, s) /\ h.action = x
    BY Zenon, <2>2, SetAction, x \in {"none", "c", "s"}
  <2>4. PICK k : k = [h EXCEPT !.tid = t]
    BY Zenon
  <2>5. Kept(k, h) /\ k.action = x
    BY <2>3, <2>4, SetTid, h \in StubType DEF Kept
  <2>6. Handled(s, r) = [k EXCEPT !.told = 0]
    BY <2>1, <2>2, <2>4
  <2>7. Kept(Handled(s, r), k) /\ Handled(s, r).action = x /\ Handled(s, r).told = 0
    BY <2>5, <2>6, SetTold, k \in StubType, 0 \in Int DEF Kept
  <2> QED
    BY Zenon, <1>8, <2>3, <2>5, <2>7 DEF Kept
<1> QED
  BY Zenon, <1>1, <1>2, <1>3, <1>4, <1>5, <1>6, <1>7, <1>8

\* Steps of a core that is not reading packets and does not begin to.
LEMMA SessionFrame ==
  ASSUME TicketInv, SessionInv, NEW c \in Cores, gpc[c] \notin Reading, NEW phase, phase \notin Reading,
         GdbGoto(c, phase), UNCHANGED <<stub, request, text, fe>>
  PROVE  SessionInv'
<1>1. /\ \A d \in Cores : gpc'[d] \in Reading <=> gpc[d] \in Reading
      /\ \A d \in Cores : gpc'[d] = "access" <=> gpc[d] = "access"
  BY DEF TicketInv, GdbGoto, Reading
<1>2. stub' = stub /\ request' = request /\ text' = text /\ fe' = fe
  OBVIOUS
<1>3. Sensible(request)' <=> Sensible(request)
  BY Zenon, <1>2 DEF Sensible
<1> QED
  BY Zenon, <1>1, <1>2, <1>3 DEF SessionInv

\* A stop reply: the core answers the last vCont packet as itself.
LEMMA SessionReply ==
  ASSUME TicketInv, SessionInv, NEW c \in Cores, SendStopReply(c)
  PROVE  SessionInv'
<1>1. gpc[c] = "stop" /\ gpc' = [gpc EXCEPT ![c] = "packet"] /\ text' = text /\ fe # "gone"
  BY DEF SendStopReply, GdbGoto
<1>2. /\ gpc'[c] \in Reading /\ \A d \in Cores : gpc[d] \notin Reading
      /\ \A d \in Cores : gpc'[d] # "access"
  BY <1>1 DEF TicketInv, Speaking, Reading
<1>3. stub \in StubType /\ c \in Int
  BY GdbAssumption DEF SessionInv, Cores
<1>4. CASE stub.action = "none"
  <2>1. stub' = stub /\ fe' = fe
    BY <1>4 DEF SendStopReply
  <2>2. stub.told = 0
    BY Zenon, <1>2, <1>4 DEF SessionInv
  <2> QED
    BY Zenon, <1>1, <1>2, <1>4, <2>1, <2>2 DEF SessionInv
<1>5. CASE stub.action # "none"
  <2>1. stub.Htid = -2
    BY Zenon, <1>5 DEF SessionInv
  <2>2. /\ stub' = [stub EXCEPT !.told = c, !.Htid = -2, !.action = "none", !.tid = -1]
        /\ fe' = IF fe = "await" THEN "ask" ELSE fe
    BY <1>5, <2>1 DEF SendStopReply, Selected
  <2>3. /\ stub' \in StubType /\ stub'.told = c /\ stub'.Htid = -2 /\ stub'.action = "none"
        /\ stub'.bpMap = stub.bpMap /\ stub'.pinned = stub.pinned
        /\ stub'.savedThread = stub.savedThread
    <3>1. PICK h : h = [stub EXCEPT !.told = c]
      BY Zenon
    <3>2. PICK k : k = [h EXCEPT !.Htid = -2]
      BY Zenon
    <3>3. PICK l : l = [k EXCEPT !.action = "none"]
      BY Zenon
    <3>7. stub' = [l EXCEPT !.tid = -1]
      BY <2>2, <3>1, <3>2, <3>3
    <3>4. Kept(h, stub) /\ h.told = c
      BY <1>3, <3>1, SetTold
    <3>5. Kept(k, h) /\ k.told = c /\ k.Htid = -2
      BY <3>2, <3>4, SetHtid, -2 \in Int DEF Kept
    <3>6. Kept(l, k) /\ l.told = c /\ l.Htid = -2 /\ l.action = "none"
      BY Zenon, <3>3, <3>5, SetAction, "none" \in {"none", "c", "s"} DEF Kept
    <3>8. Kept(stub', l) /\ stub'.told = c /\ stub'.Htid = -2 /\ stub'.action = "none"
      BY <3>6, <3>7, SetTid, -1 \in Int DEF Kept
    <3> QED
      BY Zenon, <3>4, <3>5, <3>6, <3>8 DEF Kept
  <2>4. fe' \in {"ask", "gone"}
    BY <2>2 DEF SessionInv
  <2> QED
    BY Zenon, <1>1, <1>2, <2>3, <2>4 DEF SessionInv
<1> QED
  BY <1>4, <1>5

\* A handler and the reset of Htid behind it (Gdb.cc:654-706).
LEMMA FinishedFacts ==
  ASSUME NEW s \in StubType, NEW r \in Requests, Sensible(r), text \in [Code -> {"op", "cc"}]
  PROVE  LET h == Finished(s, r) IN
         /\ h \in StubType
         /\ h.pinned = s.pinned /\ h.savedThread = s.savedThread
         /\ IF r.op \in {"c", "s", "k"} THEN h.action # "none" /\ h.told = 0
                                       ELSE h.action = s.action /\ h.told = s.told
         /\ r.op # "H" => h.Htid = -2
         /\ r.op = "Z" => r.addr \in Code /\ h.bpMap = [s.bpMap EXCEPT ![r.addr] = "op"]
         /\ r.op # "Z" => h.bpMap = s.bpMap
         /\ r.op = "z" => r.addr \in Code /\ text[r.addr] = "cc"
<1>1. PICK h : h = Handled(s, r)
  BY Zenon
<1>2. /\ h \in StubType
      /\ h.pinned = s.pinned /\ h.savedThread = s.savedThread
      /\ IF r.op \in {"c", "s", "k"} THEN h.action # "none" /\ h.told = 0
                                    ELSE h.action = s.action /\ h.told = s.told
      /\ r.op = "Z" => r.addr \in Code /\ h.bpMap = [s.bpMap EXCEPT ![r.addr] = "op"]
      /\ r.op # "Z" => h.bpMap = s.bpMap
      /\ r.op = "z" => r.addr \in Code /\ text[r.addr] = "cc"
  BY Zenon, <1>1, HandledFacts
<1>3. CASE r.op = "H"
  BY Zenon, <1>1, <1>2, <1>3 DEF Finished
<1>4. CASE r.op # "H"
  <2>1. PICK f : f = Finished(s, r) /\ f = [h EXCEPT !.Htid = -2]
    BY Zenon, <1>1, <1>4 DEF Finished
  <2>2. h \in StubType /\ -2 \in Int
    BY <1>2
  <2>3. Kept(f, h) /\ f.action = h.action /\ f.told = h.told /\ f.Htid = -2
    BY <2>1, <2>2, SetHtid
  <2> QED
    BY ZenonT(60), <1>2, <1>4, <2>1, <2>3 DEF Kept
<1> QED
  BY <1>3, <1>4

\* The core that reads packets is the only one, and owes no stop reply.
LEMMA ReaderFacts ==
  ASSUME TicketInv, SessionInv, NEW c \in Cores, gpc[c] \in Reading
  PROVE  /\ \A d \in Cores : gpc[d] \in Reading => d = c
         /\ stub.action = "none" /\ (stub.told = 0 \/ stub.told = c)
<1>1. \A d \in Cores : gpc[d] \in Reading => d = c
  BY DEF TicketInv, Speaking
<1>2. stub.action = "none"
  BY Zenon DEF SessionInv
<1> QED
  BY Zenon, <1>1, <1>2 DEF SessionInv

\* A packet that does not touch the program's memory: after vCont or a detach
\* nobody reads packets (Gdb.cc:608-710).
LEMMA SessionPacket ==
  ASSUME TicketInv, SessionInv, NEW c \in Cores, HandlePacket(c)
  PROVE  SessionInv'
<1>1. gpc[c] = "packet" /\ gpc[c] \in Reading /\ fe = "ask" /\ request' = request /\ text' = text
  BY DEF HandlePacket, Reading
<1>2. PICK r \in Requests \ MemoryRequests :
        /\ stub' = Finished(stub, r)
        /\ fe' = IF r.op \in {"c", "s"} THEN "await" ELSE IF r.op = "k" THEN "gone" ELSE "ask"
        /\ GdbGoto(c, IF stub'.action = "none" THEN "packet" ELSE "loop")
  BY Zenon DEF HandlePacket
<1>3. stub \in StubType /\ text \in [Code -> {"op", "cc"}]
  BY Zenon DEF SessionInv
<1>4. r.op \notin {"m", "Z", "z"}
  BY <1>2 DEF Requests, MemoryRequests
<1>5. Sensible(r)
  BY <1>4 DEF Sensible
<1>6. /\ stub' \in StubType
      /\ stub'.pinned = stub.pinned /\ stub'.savedThread = stub.savedThread
      /\ IF r.op \in {"c", "s", "k"} THEN stub'.action # "none" /\ stub'.told = 0
                                    ELSE stub'.action = stub.action /\ stub'.told = stub.told
      /\ r.op # "H" => stub'.Htid = -2
      /\ stub'.bpMap = stub.bpMap
  BY Zenon, <1>2, <1>3, <1>4, <1>5, FinishedFacts
<1>7. /\ \A d \in Cores : gpc[d] \in Reading => d = c
      /\ stub.action = "none" /\ (stub.told = 0 \/ stub.told = c)
  BY Zenon, <1>1, ReaderFacts
<1>8. stub'.pinned = {stub'.savedThread} \ {0}
  BY Zenon, <1>6 DEF SessionInv
<1>9. stub'.action = "none" <=> r.op \notin {"c", "s", "k"}
  BY Zenon, <1>6, <1>7
<1>10. fe' \in {"ask", "await", "gone"} /\ (fe' = "await" => stub'.action # "none")
  BY <1>2, <1>9
<1>11. stub'.action # "none" => stub'.Htid = -2 /\ \A d \in Cores : gpc'[d] \notin Reading
  <2>1. stub'.action # "none" => stub'.Htid = -2
    BY <1>6, <1>9
  <2>2. stub'.action # "none" => gpc' = [gpc EXCEPT ![c] = "loop"]
    BY <1>2 DEF GdbGoto
  <2> QED
    BY <2>1, <2>2, <1>7 DEF TicketInv, Reading
<1>12. stub'.action = "none" => stub'.told = 0 \/ (stub'.told \in Cores /\ gpc'[stub'.told] \in Reading)
  <2>1. stub'.action = "none" => gpc'[c] \in Reading
    BY <1>2 DEF GdbGoto, TicketInv, Reading
  <2> QED
    BY Zenon, <1>6, <1>7, <1>9, <2>1
<1>13. \A d \in Cores : gpc'[d] # "access"
  BY <1>1, <1>2, <1>7 DEF GdbGoto, TicketInv, Reading
<1>14. /\ text' \in [Code -> {"op", "cc"}]
       /\ \A a \in Code : text'[a] = "cc" => stub'.bpMap[a] = "op"
  BY Zenon, <1>1, <1>6 DEF SessionInv
<1> QED
  BY Zenon, <1>6, <1>8, <1>10, <1>11, <1>12, <1>13, <1>14 DEF SessionInv

\* A request for the program's memory is accepted (Gdb.cc:122-124, 563, 589).
LEMMA SessionBegin ==
  ASSUME TicketInv, SessionInv, NEW c \in Cores, BeginAccess(c)
  PROVE  SessionInv'
<1>1. /\ gpc[c] = "packet" /\ gpc' = [gpc EXCEPT ![c] = "access"]
      /\ stub' = stub /\ text' = text /\ fe' = fe
  BY DEF BeginAccess, GdbGoto
<1>2. PICK r \in MemoryRequests : Sensible(r) /\ request' = r
  BY DEF BeginAccess
<1>3. request' \in MemoryRequests /\ Sensible(request)'
  BY Zenon, <1>1, <1>2 DEF Sensible
<1>4. \A d \in Cores : gpc'[d] \in Reading <=> gpc[d] \in Reading
  BY <1>1 DEF TicketInv, Reading
<1> QED
  BY Zenon, <1>1, <1>3, <1>4 DEF SessionInv

\* The access itself: a breakpoint's byte is saved before it is overwritten, and
\* brought back when the breakpoint is removed (Gdb.cc:559-603).
LEMMA SessionAccess ==
  ASSUME TicketInv, SessionInv, NEW c \in Cores, EndAccess(c)
  PROVE  SessionInv'
<1>1. /\ gpc[c] = "access" /\ gpc' = [gpc EXCEPT ![c] = "packet"] /\ fe' = fe
      /\ stub' = Finished(stub, request)
  BY Zenon DEF EndAccess, GdbGoto
<1>2. gpc[c] \in Reading
  BY <1>1 DEF Reading
<1>3. /\ stub \in StubType /\ text \in [Code -> {"op", "cc"}]
      /\ request \in MemoryRequests /\ Sensible(request)
  BY Zenon, <1>1 DEF SessionInv
<1>4. request \in Requests /\ request.op \in {"m", "Z", "z"}
  BY <1>3 DEF Requests, MemoryRequests
<1>5. /\ stub' \in StubType
      /\ stub'.pinned = stub.pinned /\ stub'.savedThread = stub.savedThread
      /\ stub'.action = stub.action /\ stub'.told = stub.told
      /\ request.op = "Z" => request.addr \in Code /\ stub'.bpMap = [stub.bpMap EXCEPT ![request.addr] = "op"]
      /\ request.op # "Z" => stub'.bpMap = stub.bpMap
      /\ request.op = "z" => request.addr \in Code /\ text[request.addr] = "cc"
  <2>1. request.op \notin {"c", "s", "k"}
    BY <1>4
  <2> QED
    BY Zenon, <1>1, <1>3, <1>4, <2>1, FinishedFacts
<1>6. /\ \A d \in Cores : gpc[d] \in Reading => d = c
      /\ stub.action = "none"
  BY Zenon, <1>2, ReaderFacts
<1>7. /\ \A d \in Cores : gpc'[d] \in Reading <=> gpc[d] \in Reading
      /\ \A d \in Cores : gpc'[d] # "access"
  BY <1>1, <1>6 DEF TicketInv, Reading
<1>8. /\ text' \in [Code -> {"op", "cc"}]
      /\ \A a \in Code : text'[a] = "cc" => stub'.bpMap[a] = "op"
  <2>1. stub.bpMap \in [Code -> {"none", "op"}] /\ \A a \in Code : text[a] = "cc" => stub.bpMap[a] = "op"
    BY DEF SessionInv, StubType
  <2>2. CASE request.op = "Z"
    <3>1. text' = [text EXCEPT ![request.addr] = "cc"]
      BY <2>2 DEF EndAccess
    <3> QED
      BY Zenon, <1>3, <1>5, <2>1, <2>2, <3>1
  <2>3. CASE request.op = "z"
    <3>1. text' = [text EXCEPT ![request.addr] = stub.bpMap[request.addr]] /\ stub'.bpMap = stub.bpMap
      BY <1>5, <2>3 DEF EndAccess
    <3>2. request.addr \in Code /\ stub.bpMap[request.addr] = "op"
      BY Zenon, <1>5, <2>1, <2>3
    <3> QED
      BY <1>3, <2>1, <3>1, <3>2
  <2>4. CASE request.op = "m"
    <3>1. text' = text /\ stub'.bpMap = stub.bpMap
      BY <1>5, <2>4 DEF EndAccess
    <3> QED
      BY Zenon, <1>3, <2>1, <3>1
  <2> QED
    BY <1>4, <2>2, <2>3, <2>4
<1>9. fe' \in {"ask", "await", "gone"} /\ fe' # "await"
  BY Zenon, <1>1, <1>6 DEF SessionInv
<1>10. stub'.action = "none" /\ (stub'.told = 0 \/ (stub'.told \in Cores /\ gpc'[stub'.told] \in Reading))
  BY Zenon, <1>5, <1>6, <1>7 DEF SessionInv
<1>11. stub'.pinned = {stub'.savedThread} \ {0}
  BY Zenon, <1>5 DEF SessionInv
<1> QED
  BY Zenon, <1>5, <1>7, <1>8, <1>9, <1>10, <1>11 DEF SessionInv

\* A stopped core's turn: setGdbAffinity pins the thread that it saves, and
\* resetGdbAffinity releases it (Gdb.cc:722-737, 821-852).
LEMMA SessionTurn ==
  ASSUME TicketInv, SessionInv, NEW c \in Cores, TakeTurn(c)
  PROVE  SessionInv'
<1>1. PICK phase \in {"loop", "leave"} : GdbGoto(c, phase)
  BY DEF TakeTurn
<1>2. gpc[c] = "wait2" /\ text' = text /\ fe' = fe /\ request' = request
  BY DEF TakeTurn
<1>3. /\ \A d \in Cores : gpc'[d] \in Reading <=> gpc[d] \in Reading
      /\ \A d \in Cores : gpc'[d] = "access" <=> gpc[d] = "access"
  BY <1>1, <1>2 DEF GdbGoto, TicketInv, Reading
<1>8. Sensible(request)' <=> Sensible(request)
  BY Zenon, <1>2 DEF Sensible
<1>4. stub' = stub \/ stub' = ResetGdbAffinity(stub) \/ stub' = SetGdbAffinity(stub, c)
  BY Zenon DEF TakeTurn
<1>5. stub \in StubType /\ stub.pinned = {stub.savedThread} \ {0}
  BY Zenon DEF SessionInv
<1>6. c # 0
  BY GdbAssumption DEF Cores
<1>7. /\ stub' \in StubType /\ stub'.pinned = {stub'.savedThread} \ {0}
      /\ stub'.Htid = stub.Htid /\ stub'.action = stub.action /\ stub'.told = stub.told
      /\ stub'.bpMap = stub.bpMap
  <2>1. CASE stub' = stub
    BY Zenon, <1>5, <2>1
  <2>2. CASE stub' = ResetGdbAffinity(stub)
    BY Zenon, <1>5, <2>2 DEF ResetGdbAffinity, StubType
  <2>3. CASE stub' = SetGdbAffinity(stub, c) /\ stub' # stub
    <3>1. stub.savedThread = 0 /\ stub' = [stub EXCEPT !.savedThread = c, !.pinned = @ \cup {c}]
      BY Zenon, <2>3 DEF SetGdbAffinity
    <3>2. stub.pinned = {}
      BY Zenon, <1>5, <3>1
    <3> QED
      BY Zenon, <1>5, <1>6, <3>1, <3>2 DEF StubType
  <2> QED
    BY Zenon, <1>4, <2>1, <2>2, <2>3
<1> QED
  BY Zenon, <1>2, <1>3, <1>7, <1>8 DEF SessionInv

\* Every step of every core preserves the session's invariant.
LEMMA SessionStep ==
  ASSUME TicketInv, SessionInv, NEW c \in Cores, CoreStep(c)
  PROVE  SessionInv'
<1>1. CASE StartGdbCpu(c) \/ Trap(c) \/ EnterException(c) \/ CheckBreakpoint(c) \/ TakeStopIPI(c)
           \/ TakeTicket(c) \/ StartSession(c) \/ CoreStopped(c) \/ TestAllstop(c) \/ ResumeExecution(c)
  <2>1. CASE StartGdbCpu(c)
    <3>1. PICK phase : GdbGoto(c, phase) /\ phase \notin Reading
      BY <2>1 DEF StartGdbCpu, Reading
    <3>2. gpc[c] \notin Reading /\ UNCHANGED <<stub, request, text, fe>>
      BY <2>1 DEF StartGdbCpu, Reading, sessionVars
    <3> QED
      BY Zenon, <3>1, <3>2, SessionFrame
  <2>2. CASE Trap(c)
    <3>1. PICK phase : GdbGoto(c, phase) /\ phase \notin Reading
      BY <2>2 DEF Trap, Reading
    <3>2. gpc[c] \notin Reading /\ UNCHANGED <<stub, request, text, fe>>
      BY <2>2 DEF Trap, Reading, sessionVars
    <3> QED
      BY Zenon, <3>1, <3>2, SessionFrame
  <2>3. CASE EnterException(c)
    <3>1. PICK phase : GdbGoto(c, phase) /\ phase \notin Reading
      BY <2>3 DEF EnterException, Reading
    <3>2. gpc[c] \notin Reading /\ UNCHANGED <<stub, request, text, fe>>
      BY <2>3 DEF EnterException, Reading, sessionVars
    <3> QED
      BY Zenon, <3>1, <3>2, SessionFrame
  <2>4. CASE CheckBreakpoint(c)
    <3>1. PICK phase : GdbGoto(c, phase) /\ phase \notin Reading
      BY <2>4 DEF CheckBreakpoint, Reading
    <3>2. gpc[c] \notin Reading /\ UNCHANGED <<stub, request, text, fe>>
      BY <2>4 DEF CheckBreakpoint, Reading, sessionVars
    <3> QED
      BY Zenon, <3>1, <3>2, SessionFrame
  <2>5. CASE TakeStopIPI(c)
    <3>1. PICK phase : GdbGoto(c, phase) /\ phase \notin Reading
      BY <2>5 DEF TakeStopIPI, Reading
    <3>2. gpc[c] \notin Reading /\ UNCHANGED <<stub, request, text, fe>>
      BY <2>5 DEF TakeStopIPI, Reading, sessionVars
    <3> QED
      BY Zenon, <3>1, <3>2, SessionFrame
  <2>6. CASE TakeTicket(c)
    <3>1. PICK phase : GdbGoto(c, phase) /\ phase \notin Reading
      BY <2>6 DEF TakeTicket, Reading
    <3>2. gpc[c] \notin Reading /\ UNCHANGED <<stub, request, text, fe>>
      BY <2>6 DEF TakeTicket, Reading, sessionVars
    <3> QED
      BY Zenon, <3>1, <3>2, SessionFrame
  <2>7. CASE StartSession(c)
    <3>1. PICK phase : GdbGoto(c, phase) /\ phase \notin Reading
      BY <2>7 DEF StartSession, Reading
    <3>2. gpc[c] \notin Reading /\ UNCHANGED <<stub, request, text, fe>>
      BY <2>7 DEF StartSession, Reading, sessionVars
    <3> QED
      BY Zenon, <3>1, <3>2, SessionFrame
  <2>8. CASE CoreStopped(c)
    <3>1. PICK phase : GdbGoto(c, phase) /\ phase \notin Reading
      BY <2>8 DEF CoreStopped, Reading
    <3>2. gpc[c] \notin Reading /\ UNCHANGED <<stub, request, text, fe>>
      BY <2>8 DEF CoreStopped, Reading, sessionVars
    <3> QED
      BY Zenon, <3>1, <3>2, SessionFrame
  <2>9. CASE TestAllstop(c)
    <3>1. PICK phase : GdbGoto(c, phase) /\ phase \notin Reading
      BY <2>9 DEF TestAllstop, Reading
    <3>2. gpc[c] \notin Reading /\ UNCHANGED <<stub, request, text, fe>>
      BY <2>9 DEF TestAllstop, Reading, sessionVars
    <3> QED
      BY Zenon, <3>1, <3>2, SessionFrame
  <2>10. CASE ResumeExecution(c)
    <3>1. PICK phase : GdbGoto(c, phase) /\ phase \notin Reading
      BY <2>10 DEF ResumeExecution, Reading
    <3>2. gpc[c] \notin Reading /\ UNCHANGED <<stub, request, text, fe>>
      BY <2>10 DEF ResumeExecution, Reading, sessionVars
    <3> QED
      BY Zenon, <3>1, <3>2, SessionFrame
  <2> QED
    BY Zenon, <1>1, <2>1, <2>2, <2>3, <2>4, <2>5, <2>6, <2>7, <2>8, <2>9, <2>10
<1>2. CASE PageFault(c)
  <2>1. GdbGoto(c, "dead") /\ "dead" \notin Reading
    BY <1>2 DEF PageFault, Reading
  <2>2. gpc[c] \notin Reading /\ UNCHANGED <<stub, request, text, fe>>
    BY <1>2 DEF PageFault, Reading
  <2> QED
    BY Zenon, <2>1, <2>2, SessionFrame
<1>3. CASE StopCore(c)
  <2>1. /\ gpc[c] = "stop" /\ (GdbGoto(c, "spin") \/ gpc' = gpc)
        /\ stub' = stub /\ request' = request /\ text' = text /\ fe' = fe
    BY Zenon, <1>3 DEF StopCore
  <2>2. CASE gpc' = gpc
    <3>1. Sensible(request)' <=> Sensible(request)
      BY Zenon, <2>1 DEF Sensible
    <3> QED
      BY Zenon, <2>1, <2>2, <3>1 DEF SessionInv
  <2>3. CASE GdbGoto(c, "spin")
    <3>1. gpc[c] \notin Reading /\ "spin" \notin Reading
      BY <2>1 DEF Reading
    <3> QED
      BY Zenon, <2>1, <2>3, <3>1, SessionFrame
  <2> QED
    BY Zenon, <2>1, <2>2, <2>3
<1>4. CASE SendStopReply(c)
  BY Zenon, <1>4, SessionReply
<1>5. CASE HandlePacket(c)
  BY Zenon, <1>5, SessionPacket
<1>6. CASE TakeTurn(c)
  BY Zenon, <1>6, SessionTurn
<1>7. CASE BeginAccess(c)
  BY Zenon, <1>7, SessionBegin
<1>8. CASE EndAccess(c)
  BY Zenon, <1>8, SessionAccess
<1> QED
  BY Zenon, <1>1, <1>2, <1>3, <1>4, <1>5, <1>6, <1>7, <1>8 DEF CoreStep

(***************************************************************************)
(* All-stop.  A core's state says whether it runs the program, except that *)
(* one on its way out still counts as stopped.  The speaker has stopped    *)
(* the cores it has visited, unless one slipped away, and the fault        *)
(* handler's flag is set only during an access or by one that faulted.     *)
(***************************************************************************)
FaultType == [enabled : BOOLEAN, left : BOOLEAN, slipped : BOOLEAN, stray : BOOLEAN]

Loose == {"run", "enter", "leave"}

Reached(c, d) == gpc[c] \in Reading \/ d < visit[c]

StateAgrees ==
  \A d \in Cores : /\ gstate[d] = "Running" => gpc[d] \in {"run", "enter", "dead"}
                   /\ gpc[d] \in {"run", "enter"} => gstate[d] = "Running"

SpeakerStops ==
  \A c \in Cores :
    /\ gpc[c] \in Speaking => allstop
    /\ gpc[c] = "spin" => visit[c] \in Cores /\ gpc[visit[c]] \notin {"leave", "off"}
    /\ gpc[c] \in Speaking /\ ~fh.slipped
         => \A d \in Cores : Reached(c, d) => gpc[d] \notin Loose

FlagInv ==
  /\ fh \in FaultType
  /\ fh.enabled => fh.left \/ \E c \in Cores : gpc[c] = "access"
  /\ fh.stray => (fh.left \/ fh.slipped) /\ Rebooted

StopInv ==
  /\ gstate \in [Cores -> {"Unknown", "Running", "Stopped"}] /\ visit \in [Cores -> Nat \ {0}]
  /\ gpc[1] # "off" /\ StateAgrees /\ SpeakerStops /\ FlagInv

\* The processors are numbered from 1 (Gdb.cc:197-202).
LEMMA FirstCore == 1 \in Cores /\ \A c \in Cores : c \in Nat /\ 1 <= c /\ c <= N
  BY GdbAssumption DEF Cores

\* initGdb: nobody speaks, and the flag is not set.
LEMMA StopInit == GdbInit => StopInv
<1> SUFFICES ASSUME GdbInit PROVE StopInv
  OBVIOUS
<1>1. /\ gpc = [c \in Cores |-> IF c = 1 THEN "enter" ELSE "off"]
      /\ gstate = [c \in Cores |-> IF c = 1 THEN "Running" ELSE "Unknown"]
      /\ visit = [c \in Cores |-> 1] /\ fh = FaultInit
  BY DEF GdbInit
<1>2. FlagInv
  BY <1>1 DEF FlagInv, FaultInit, FaultType
<1>3. StateAgrees
  BY <1>1 DEF StateAgrees
<1>4. SpeakerStops
  BY <1>1 DEF SpeakerStops, Speaking, Reading
<1> QED
  BY <1>1, <1>2, <1>3, <1>4, FirstCore DEF StopInv

\* A step of a core from a phase outside the session to another one, which does
\* not leave the stub, or leaves it when nobody speaks.  A core starts only while
\* the boot processor runs, which the speaker stops first.
LEMMA StopFrame ==
  ASSUME TicketInv, StopInv, NEW c \in Cores, NEW phase, GdbGoto(c, phase),
         gpc[c] \notin Speaking, phase \notin Speaking, phase # "off",
         phase \in Loose => gpc[c] \in Loose \/ gpc[1] = "run" \/ \A d \in Cores : gpc[d] \notin Speaking,
         phase = "leave" => \A d \in Cores : gpc[d] \notin Speaking,
         UNCHANGED <<allstop, visit, fh>>
  PROVE  SpeakerStops' /\ gpc'[1] # "off"
<1>1. gpc'[c] = phase /\ \A d \in Cores : d # c => gpc'[d] = gpc[d]
  BY DEF GdbGoto, TicketInv
<1>2. gpc'[1] # "off"
  BY <1>1, FirstCore DEF StopInv
<1>3. ASSUME NEW e \in Cores, gpc'[e] \in Speaking
      PROVE  /\ allstop'
             /\ gpc'[e] = "spin" => visit'[e] \in Cores /\ gpc'[visit'[e]] \notin {"leave", "off"}
             /\ ~fh'.slipped => \A d \in Cores : Reached(e, d)' => gpc'[d] \notin Loose
  <2>1. e # c /\ gpc'[e] = gpc[e] /\ gpc[e] \in Speaking
    BY Zenon, <1>1, <1>3
  <2>2. phase # "leave" /\ (phase \in Loose => gpc[c] \in Loose \/ gpc[1] = "run")
    BY Zenon, <2>1
  <2>3. /\ allstop
        /\ gpc[e] = "spin" => visit[e] \in Cores /\ gpc[visit[e]] \notin {"leave", "off"}
        /\ ~fh.slipped => \A d \in Cores : Reached(e, d) => gpc[d] \notin Loose
    BY Zenon, <2>1 DEF StopInv, SpeakerStops
  <2>4. \A d \in Cores : Reached(e, d)' <=> Reached(e, d)
    BY Zenon, <2>1 DEF Reached
  <2>5. gpc'[e] = "spin" => visit'[e] \in Cores /\ gpc'[visit'[e]] \notin {"leave", "off"}
    BY Zenon, <1>1, <2>1, <2>2, <2>3
  <2>6. ASSUME ~fh'.slipped, NEW d \in Cores, Reached(e, d)' PROVE gpc'[d] \notin Loose
    <3>1. ~fh.slipped /\ Reached(e, d)
      BY Zenon, <2>4, <2>6
    <3>2. gpc[d] \notin Loose
      BY Zenon, <2>3, <3>1
    <3>3. Reached(e, 1)
      BY <3>1, FirstCore DEF Reached, StopInv
    <3>4. gpc[1] # "run"
      BY <2>3, <3>1, <3>3, FirstCore DEF Loose
    <3> QED
      BY Zenon, <1>1, <2>2, <3>2, <3>4
  <2> QED
    BY Zenon, <2>1, <2>3, <2>5, <2>6
<1>4. SpeakerStops'
  <2>1. \A e \in Cores : gpc'[e] \in {"stop", "spin"} => gpc'[e] \in Speaking
    BY DEF Speaking
  <2> QED
    BY Zenon, <1>3, <2>1 DEF SpeakerStops
<1> QED
  BY <1>2, <1>4

\* Such a step does not touch the flag either (Gdb.cc:741-857).
LEMMA FlagFrame ==
  ASSUME TicketInv, FlagInv, ~Rebooted, NEW c \in Cores, NEW phase, GdbGoto(c, phase),
         gpc[c] # "access", UNCHANGED fh
  PROVE  FlagInv'
<1>1. \A d \in Cores : gpc[d] = "access" => gpc'[d] = "access"
  BY DEF GdbGoto, TicketInv
<1>2. ~fh.stray
  BY Zenon DEF FlagInv
<1> QED
  BY Zenon, <1>1, <1>2 DEF FlagInv

\* What a core that stops the others or handles packets knows (Gdb.cc:787-797).
LEMMA SpeakerFacts ==
  ASSUME TicketInv, StopInv, ~Rebooted, NEW c \in Cores, gpc[c] \in Speaking
  PROVE  /\ \A d \in Cores : gpc[d] \in Speaking => d = c
         /\ allstop /\ fh \in FaultType /\ ~fh.stray
         /\ \A d \in Cores : gpc[d] # "dead"
         /\ ~fh.slipped => \A d \in Cores : Reached(c, d) => gpc[d] \notin Loose
<1>1. \A d \in Cores : gpc[d] \in Speaking => d = c
  BY DEF TicketInv
<1> QED
  BY Zenon, <1>1 DEF StopInv, SpeakerStops, FlagInv, Rebooted

\* What it must establish in turn.
LEMMA SpeakerGoesOn ==
  ASSUME TicketInv, StopInv, ~Rebooted, NEW c \in Cores, gpc[c] \in Speaking,
         NEW phase, GdbGoto(c, phase), allstop', phase # "off",
         gstate' = gstate, visit' \in [Cores -> Nat \ {0}], phase \notin {"run", "enter"},
         phase = "spin" => visit'[c] \in Cores /\ gpc[visit'[c]] \notin {"leave", "off"} /\ visit'[c] # c,
         phase \in Speaking /\ ~fh'.slipped
           => \A d \in Cores \ {c} : phase \in Reading \/ d < visit'[c] => gpc[d] \notin Loose
  PROVE  SpeakerStops' /\ StateAgrees' /\ gpc'[1] # "off"
<1>1. gpc'[c] = phase /\ \A d \in Cores : d # c => gpc'[d] = gpc[d]
  BY DEF GdbGoto, TicketInv
<1>2. \A d \in Cores : gpc'[d] \in Speaking => d = c
  BY Zenon, <1>1, SpeakerFacts
<1>3. gpc[c] \notin {"run", "enter", "dead"}
  BY DEF Speaking, Reading
<1>4. StateAgrees'
  BY Zenon, <1>1, <1>3 DEF StopInv, StateAgrees
<1>5. gpc'[1] # "off"
  BY <1>1, FirstCore DEF StopInv
<1>6. \A d \in Cores : gpc'[d] \in {"stop", "spin"} => gpc'[d] \in Speaking
  BY DEF Speaking
<1>7. phase \in Speaking => phase \notin Loose
  BY DEF Speaking, Reading, Loose
<1>8. ASSUME NEW e \in Cores, gpc'[e] \in Speaking
      PROVE  /\ allstop'
             /\ gpc'[e] = "spin" => visit'[e] \in Cores /\ gpc'[visit'[e]] \notin {"leave", "off"}
             /\ ~fh'.slipped => \A d \in Cores : Reached(e, d)' => gpc'[d] \notin Loose
  <2>1. e = c
    BY Zenon, <1>2, <1>8
  <2>3. gpc'[e] = "spin" => visit'[e] \in Cores /\ gpc'[visit'[e]] \notin {"leave", "off"}
    BY Zenon, <1>1, <2>1
  <2>4. ASSUME ~fh'.slipped, NEW d \in Cores, Reached(e, d)' PROVE gpc'[d] \notin Loose
    <3>1. CASE d = c
      BY Zenon, <1>1, <1>7, <1>8, <2>1, <3>1
    <3>2. CASE d # c
      <4>1. phase \in Reading \/ d < visit'[c]
        BY Zenon, <1>1, <2>1, <2>4 DEF Reached
      <4> QED
        BY Zenon, <1>1, <1>8, <2>1, <2>4, <3>2, <4>1
    <3> QED
      BY <3>1, <3>2
  <2> QED
    BY Zenon, <2>3, <2>4
<1>9. SpeakerStops'
  BY Zenon, <1>6, <1>8 DEF SpeakerStops
<1> QED
  BY <1>4, <1>5, <1>9

\* One iteration of the loop over the processors: the core that it passes is not
\* running, or slips away (Gdb.cc:792-797).
LEMMA StopLoop ==
  ASSUME TicketInv, StopInv, ~Rebooted, NEW c \in Cores, StopCore(c)
  PROVE  StopInv'
<1>1. gpc[c] = "stop" /\ visit[c] <= N /\ visit[c] \in Nat \ {0} /\ gstate' = gstate /\ allstop' = allstop
  BY DEF StopCore, StopInv
<1>2. gpc[c] \in Speaking /\ gpc[c] \notin Reading
  BY <1>1 DEF Speaking, Reading
<1>3. /\ allstop /\ fh \in FaultType /\ ~fh.stray
      /\ \A d \in Cores : gpc[d] # "dead"
      /\ ~fh.slipped => \A d \in Cores : Reached(c, d) => gpc[d] \notin Loose
  BY Zenon, <1>2, SpeakerFacts
<1>4. CASE gstate[visit[c]] = "Running"
  <2>1. GdbGoto(c, "spin") /\ visit' = visit /\ fh' = fh
    BY Zenon, <1>4 DEF StopCore
  <2>2. visit[c] \in Cores
    BY <1>1, GdbAssumption DEF Cores
  <2>3. gpc[visit[c]] \in {"run", "enter"} /\ visit[c] # c
    BY Zenon, <1>1, <1>3, <1>4, <2>2 DEF StopInv, StateAgrees
  <2>4. \A d \in Cores : d < visit[c] => Reached(c, d)
    BY DEF Reached
  <2>5. "spin" \notin Reading
    BY DEF Reading
  <2>6. SpeakerStops' /\ StateAgrees' /\ gpc'[1] # "off"
    BY ZenonT(30), <1>1, <1>2, <1>3, <2>1, <2>2, <2>3, <2>4, <2>5, SpeakerGoesOn DEF StopInv
  <2>7. FlagInv'
    BY Zenon, <1>1, <2>1, FlagFrame DEF StopInv
  <2> QED
    BY Zenon, <1>1, <2>1, <2>6, <2>7 DEF StopInv
<1>5. CASE gstate[visit[c]] # "Running"
  <2>1. /\ visit' = [visit EXCEPT ![c] = @ + 1] /\ gpc' = gpc
        /\ fh' = [fh EXCEPT !.slipped = @ \/ gpc[visit[c]] = "leave"]
    BY Zenon, <1>5 DEF StopCore
  <2>2. visit[c] \in Cores /\ visit[c] + 1 \in Nat \ {0}
    BY <1>1, GdbAssumption DEF Cores
  <2>3. visit' \in [Cores -> Nat \ {0}] /\ visit'[c] = visit[c] + 1
    BY Zenon, <2>1, <2>2 DEF StopInv
  <2>4. /\ fh' \in FaultType /\ ~fh'.stray /\ fh'.enabled = fh.enabled /\ fh'.left = fh.left
        /\ fh'.slipped <=> fh.slipped \/ gpc[visit[c]] = "leave"
    BY Zenon, <1>3, <2>1 DEF FaultType
  <2>5. gpc[visit[c]] \notin {"run", "enter"}
    BY Zenon, <1>5, <2>2 DEF StopInv, StateAgrees
  <2>6. \A d \in Cores : d < visit[c] + 1 => d = visit[c] \/ Reached(c, d)
    BY <1>1, FirstCore DEF Reached
  <2>7. ~fh'.slipped => \A d \in Cores : d < visit'[c] => gpc[d] \notin Loose
    BY <1>3, <2>3, <2>4, <2>5, <2>6 DEF Loose
  <2>8. GdbGoto(c, "stop")
    BY <1>1, <2>1 DEF GdbGoto, TicketInv
  <2>9. "stop" \notin Reading
    BY DEF Reading
  <2>10. SpeakerStops' /\ StateAgrees' /\ gpc'[1] # "off"
    BY ZenonT(30), <1>1, <1>2, <1>3, <2>3, <2>7, <2>8, <2>9, SpeakerGoesOn
  <2>11. FlagInv'
    BY Zenon, <2>1, <2>4 DEF StopInv, FlagInv
  <2> QED
    BY Zenon, <1>1, <2>3, <2>10, <2>11 DEF StopInv
<1> QED
  BY <1>4, <1>5

\* The core that was running has stopped (Gdb.cc:795-797).
LEMMA StopSpin ==
  ASSUME TicketInv, StopInv, ~Rebooted, NEW c \in Cores, CoreStopped(c)
  PROVE  StopInv'
<1>1. /\ gpc[c] = "spin" /\ gstate[visit[c]] = "Stopped" /\ gstate' = gstate /\ allstop' = allstop
      /\ visit' = [visit EXCEPT ![c] = @ + 1] /\ fh' = fh /\ GdbGoto(c, "stop")
  BY DEF CoreStopped, sessionVars
<1>2. gpc[c] \in Speaking /\ gpc[c] \notin Reading /\ "stop" \notin Reading
  BY <1>1 DEF Speaking, Reading
<1>3. allstop /\ (~fh.slipped => \A d \in Cores : Reached(c, d) => gpc[d] \notin Loose)
  BY Zenon, <1>2, SpeakerFacts
<1>4. visit[c] \in Cores /\ gpc[visit[c]] # "leave"
  BY Zenon, <1>1 DEF StopInv, SpeakerStops
<1>5. visit[c] + 1 \in Nat \ {0}
  BY <1>4, FirstCore
<1>6. visit' \in [Cores -> Nat \ {0}] /\ visit'[c] = visit[c] + 1
  BY Zenon, <1>1, <1>5 DEF StopInv
<1>7. gpc[visit[c]] \notin {"run", "enter"}
  BY <1>1, <1>4 DEF StopInv, StateAgrees
<1>8. \A d \in Cores : d < visit[c] + 1 => d = visit[c] \/ Reached(c, d)
  BY <1>4, FirstCore DEF Reached
<1>9. ~fh'.slipped => \A d \in Cores : d < visit'[c] => gpc[d] \notin Loose
  BY <1>1, <1>3, <1>4, <1>6, <1>7, <1>8 DEF Loose
<1>10. SpeakerStops' /\ StateAgrees' /\ gpc'[1] # "off"
  BY ZenonT(30), <1>1, <1>2, <1>3, <1>6, <1>9, SpeakerGoesOn
<1>11. FlagInv'
  BY Zenon, <1>1, FlagFrame DEF StopInv
<1> QED
  BY Zenon, <1>1, <1>6, <1>10, <1>11 DEF StopInv

\* Everybody has been visited: packets are handled (Gdb.cc:798-809).
LEMMA StopReply ==
  ASSUME TicketInv, StopInv, ~Rebooted, NEW c \in Cores, SendStopReply(c)
  PROVE  StopInv'
<1>1. /\ gpc[c] = "stop" /\ visit[c] > N /\ gstate' = gstate /\ allstop' = allstop
      /\ visit' = [visit EXCEPT ![c] = 1] /\ GdbGoto(c, "packet")
      /\ fh' = fh \/ fh' = [fh EXCEPT !.enabled = FALSE, !.left = FALSE]
  BY Zenon DEF SendStopReply
<1>2. gpc[c] \in Speaking
  BY <1>1 DEF Speaking
<1>3. /\ allstop /\ fh \in FaultType /\ ~fh.stray
      /\ ~fh.slipped => \A d \in Cores : Reached(c, d) => gpc[d] \notin Loose
  BY Zenon, <1>2, SpeakerFacts
<1>4. \A d \in Cores : Reached(c, d)
  BY <1>1, FirstCore, GdbAssumption DEF Reached, StopInv
<1>5. /\ fh' \in FaultType /\ ~fh'.stray /\ fh'.slipped = fh.slipped
      /\ fh'.enabled /\ ~fh'.left => fh' = fh
  <2>1. CASE fh' = fh
    BY Zenon, <1>3, <2>1
  <2>2. CASE fh' = [fh EXCEPT !.enabled = FALSE, !.left = FALSE]
    BY Zenon, <1>3, <2>2 DEF FaultType
  <2> QED
    BY <1>1, <2>1, <2>2
<1>6. visit' \in [Cores -> Nat \ {0}]
  <2>1. 1 \in Nat \ {0}
    OBVIOUS
  <2> QED
    BY Zenon, <1>1, <2>1 DEF StopInv
<1>7. SpeakerStops' /\ StateAgrees' /\ gpc'[1] # "off"
  BY ZenonT(30), <1>1, <1>2, <1>3, <1>4, <1>5, <1>6, SpeakerGoesOn
<1>8. \A d \in Cores : gpc[d] = "access" => gpc'[d] = "access"
  BY <1>1 DEF GdbGoto, TicketInv
<1>9. FlagInv'
  BY Zenon, <1>5, <1>8 DEF StopInv, FlagInv
<1> QED
  BY Zenon, <1>1, <1>6, <1>7, <1>9 DEF StopInv

\* A packet: the other cores stay stopped, and the flag is set for an access
\* only (Gdb.cc:122-148, 558-603, 654-710).
LEMMA StopPacket ==
  ASSUME TicketInv, StopInv, ~Rebooted, NEW c \in Cores,
         HandlePacket(c) \/ BeginAccess(c) \/ EndAccess(c)
  PROVE  StopInv'
<1>1. PICK phase \in {"packet", "access", "loop"} :
        /\ GdbGoto(c, phase) /\ gpc[c] \in {"packet", "access"}
        /\ gstate' = gstate /\ allstop' = allstop /\ visit' = visit
        /\ phase # "loop" => fh'.slipped = fh.slipped
        /\ fh' \in FaultType /\ ~fh'.stray
        /\ fh'.enabled => \/ fh'.left \/ phase = "access"
                          \/ fh.enabled /\ fh'.left = fh.left /\ gpc[c] = "packet"
  <2>1. fh \in FaultType /\ ~fh.stray
    BY Zenon DEF StopInv, FlagInv
  <2>2. CASE HandlePacket(c)
    <3>1. PICK r \in Requests \ MemoryRequests :
            /\ GdbGoto(c, IF stub'.action = "none" THEN "packet" ELSE "loop")
            /\ fh' = [fh EXCEPT !.enabled = @ /\ ~ClearsFlag(r), !.left = @ /\ ~ClearsFlag(r),
                                !.slipped = @ /\ stub'.action = "none"]
      BY Zenon, <2>2 DEF HandlePacket
    <3>2. /\ fh' \in FaultType /\ ~fh'.stray
          /\ fh'.enabled <=> fh.enabled /\ ~ClearsFlag(r)
          /\ fh'.left <=> fh.left /\ ~ClearsFlag(r)
          /\ fh'.slipped <=> fh.slipped /\ stub'.action = "none"
      BY Zenon, <2>1, <3>1 DEF FaultType
    <3>3. fh.left \in BOOLEAN /\ fh'.left \in BOOLEAN /\ fh.slipped \in BOOLEAN /\ fh'.slipped \in BOOLEAN
      BY Zenon, <2>1, <3>2 DEF FaultType
    <3>4. /\ gpc[c] = "packet" /\ gstate' = gstate /\ allstop' = allstop /\ visit' = visit
      BY Zenon, <2>2 DEF HandlePacket
    <3>5. CASE stub'.action = "none"
      BY Zenon, <3>1, <3>2, <3>3, <3>4, <3>5
    <3>6. CASE stub'.action # "none"
      BY Zenon, <3>1, <3>2, <3>3, <3>4, <3>6
    <3> QED
      BY <3>5, <3>6
  <2>3. CASE BeginAccess(c)
    <3>1. fh' = [fh EXCEPT !.enabled = TRUE, !.left = FALSE]
      BY Zenon, <2>3 DEF BeginAccess
    <3>2. fh' \in FaultType /\ ~fh'.stray /\ fh'.slipped = fh.slipped
      BY Zenon, <2>1, <3>1 DEF FaultType
    <3> QED
      BY Zenon, <2>3, <3>2 DEF BeginAccess
  <2>4. CASE EndAccess(c)
    <3>1. fh' = [fh EXCEPT !.enabled = Faults(request), !.left = Faults(request)]
      BY Zenon, <2>4 DEF EndAccess, EndFlag
    <3>2. Faults(request) \in BOOLEAN
      BY DEF Faults
    <3>3. fh' \in FaultType /\ ~fh'.stray /\ fh'.slipped = fh.slipped /\ fh'.enabled = fh'.left
      BY Zenon, <2>1, <3>1, <3>2 DEF FaultType
    <3> QED
      BY Zenon, <2>4, <3>3 DEF EndAccess
  <2> QED
    BY <2>2, <2>3, <2>4
<1>2. gpc[c] \in Speaking /\ gpc[c] \in Reading
  BY <1>1 DEF Speaking, Reading
<1>3. allstop /\ (~fh.slipped => \A d \in Cores : Reached(c, d) => gpc[d] \notin Loose)
  BY Zenon, <1>2, SpeakerFacts
<1>4. \A d \in Cores : Reached(c, d)
  BY Zenon, <1>2 DEF Reached
<1>5. phase \in Speaking => phase # "loop"
  BY DEF Speaking, Reading
<1>6. phase \notin {"off", "run", "enter", "spin"}
  BY <1>1
<1>7. SpeakerStops' /\ StateAgrees' /\ gpc'[1] # "off"
  BY ZenonT(30), <1>1, <1>2, <1>3, <1>4, <1>5, <1>6, SpeakerGoesOn DEF StopInv
<1>8. \A d \in Cores : gpc[d] = "access" => gpc'[d] = "access" \/ gpc[c] # "packet"
  BY <1>1 DEF GdbGoto, TicketInv
<1>9. phase = "access" => \E d \in Cores : gpc'[d] = "access"
  BY <1>1 DEF GdbGoto, TicketInv
<1>10. FlagInv'
  BY Zenon, <1>1, <1>8, <1>9 DEF StopInv, FlagInv
<1> QED
  BY Zenon, <1>1, <1>7, <1>10 DEF StopInv

\* The core's own state moves with it (Gdb.cc:205, 764, 854).
LEMMA StateFrame ==
  ASSUME TicketInv, StopInv, NEW c \in Cores, NEW phase, GdbGoto(c, phase),
         NEW x \in {"Unknown", "Running", "Stopped"}, gstate' = [gstate EXCEPT ![c] = x],
         x = "Running" => phase \in {"run", "enter", "dead"},
         phase \in {"run", "enter"} => x = "Running"
  PROVE  StateAgrees' /\ gstate' \in [Cores -> {"Unknown", "Running", "Stopped"}]
<1>1. gpc'[c] = phase /\ \A d \in Cores : d # c => gpc'[d] = gpc[d]
  BY DEF GdbGoto, TicketInv
<1>2. /\ gstate'[c] = x /\ \A d \in Cores : d # c => gstate'[d] = gstate[d]
      /\ gstate' \in [Cores -> {"Unknown", "Running", "Stopped"}]
  BY DEF StopInv
<1> QED
  BY Zenon, <1>1, <1>2 DEF StopInv, StateAgrees

\* The same for a step that leaves the state alone.
LEMMA StateStays ==
  ASSUME TicketInv, StopInv, NEW c \in Cores, NEW phase, GdbGoto(c, phase), gstate' = gstate,
         gstate[c] = "Running" => phase \in {"run", "enter", "dead"},
         phase \in {"run", "enter"} => gstate[c] = "Running"
  PROVE  StateAgrees' /\ gstate' \in [Cores -> {"Unknown", "Running", "Stopped"}]
<1>1. gstate[c] \in {"Unknown", "Running", "Stopped"} /\ gstate' = [gstate EXCEPT ![c] = gstate[c]]
  BY DEF StopInv
<1> QED
  BY Zenon, <1>1, StateFrame

\* "wait my turn", then the loop over the processors starts (Gdb.cc:787-792).
LEMMA StopStart ==
  ASSUME TicketInv, StopInv, ~Rebooted, NEW c \in Cores, StartSession(c)
  PROVE  StopInv'
<1>1. /\ gpc[c] = "wait" /\ ticket[c] = 0 /\ allstop' /\ visit' = [visit EXCEPT ![c] = 1]
      /\ GdbGoto(c, "stop") /\ gstate' = gstate /\ fh' = fh
  BY Zenon DEF StartSession, sessionVars
<1>2. gpc'[c] = "stop" /\ \A d \in Cores : d # c => gpc'[d] = gpc[d]
  BY <1>1 DEF GdbGoto, TicketInv
<1>3. \A d \in Cores : gpc'[d] \in Speaking => d = c
  BY <1>1, <1>2 DEF TicketInv
<1>4. visit' \in [Cores -> Nat \ {0}] /\ visit'[c] = 1
  <2>1. 1 \in Nat \ {0}
    OBVIOUS
  <2> QED
    BY Zenon, <1>1, <2>1 DEF StopInv
<1>5. \A d \in Cores : ~Reached(c, d)'
  BY <1>2, <1>4, FirstCore DEF Reached, Reading
<1>6. gpc'[1] # "off"
  BY <1>2, FirstCore DEF StopInv
<1>7. \A d \in Cores : gpc'[d] = "spin" => gpc'[d] \in Speaking
  BY DEF Speaking
<1>8. SpeakerStops'
  <2>1. gpc'[c] # "spin"
    BY <1>2
  <2> QED
    BY Zenon, <1>1, <1>3, <1>5, <1>7, <2>1 DEF SpeakerStops
<1>9. gstate[c] # "Running"
  BY <1>1 DEF StopInv, StateAgrees
<1>10. StateAgrees' /\ gstate' \in [Cores -> {"Unknown", "Running", "Stopped"}]
  BY Zenon, <1>1, <1>9, StateStays
<1>11. FlagInv'
  BY Zenon, <1>1, FlagFrame DEF StopInv
<1> QED
  BY Zenon, <1>4, <1>6, <1>8, <1>10, <1>11 DEF StopInv

\* A fault of running code meets the flag: an access is under way that the core
\* has slipped away from, or one has left the flag set (GdbAsm.S:176-183).
LEMMA StopFault ==
  ASSUME TicketInv, StopInv, ~Rebooted, NEW c \in Cores, PageFault(c)
  PROVE  StopInv'
<1>1. /\ gpc[c] = "run" /\ fh.enabled /\ fh' = [fh EXCEPT !.stray = TRUE] /\ GdbGoto(c, "dead")
      /\ gstate' = gstate /\ visit' = visit /\ allstop' = allstop
  BY Zenon DEF PageFault
<1>2. gpc'[c] = "dead" /\ \A d \in Cores : d # c => gpc'[d] = gpc[d]
  BY <1>1 DEF GdbGoto, TicketInv
<1>3. fh \in FaultType
  BY Zenon DEF StopInv, FlagInv
<1>4. /\ fh' \in FaultType /\ fh'.left = fh.left /\ fh'.slipped = fh.slipped /\ fh'.enabled = fh.enabled
  BY Zenon, <1>1, <1>3 DEF FaultType
<1>5. fh.left \/ fh.slipped
  <2> SUFFICES ASSUME NEW d \in Cores, gpc[d] = "access" PROVE fh.slipped
    BY Zenon, <1>1 DEF StopInv, FlagInv
  <2>1. gpc[d] \in Speaking /\ Reached(d, c)
    BY DEF Speaking, Reading, Reached
  <2>2. gpc[c] \in Loose
    BY <1>1 DEF Loose
  <2> QED
    BY Zenon, <2>1, <2>2 DEF StopInv, SpeakerStops
<1>6. \A d \in Cores : gpc[d] = "access" => gpc'[d] = "access"
  BY <1>1, <1>2
<1>7. FlagInv'
  BY Zenon, <1>2, <1>4, <1>5, <1>6 DEF StopInv, FlagInv, Rebooted
<1>8. SpeakerStops' /\ gpc'[1] # "off"
  <2>1. \A d, e \in Cores : Reached(e, d)' => e = c \/ Reached(e, d)
    BY Zenon, <1>1, <1>2 DEF Reached
  <2>2. "dead" \notin Speaking /\ "dead" \notin Loose /\ "dead" \notin {"leave", "off", "spin"}
    BY DEF Speaking, Reading, Loose
  <2>3. gpc'[1] # "off"
    BY Zenon, <1>2, <2>2, FirstCore DEF StopInv
  <2>4. SpeakerStops'
    BY ZenonT(60), <1>1, <1>2, <1>4, <2>1, <2>2 DEF StopInv, SpeakerStops
  <2> QED
    BY <2>3, <2>4
<1>9. StateAgrees' /\ gstate' \in [Cores -> {"Unknown", "Running", "Stopped"}]
  BY Zenon, <1>1, StateStays
<1> QED
  BY Zenon, <1>1, <1>7, <1>8, <1>9 DEF StopInv

\* The steps outside the session, one by one.
LEMMA StopAway ==
  ASSUME TicketInv, StopInv, ~Rebooted, NEW c \in Cores, NEW phase, GdbGoto(c, phase),
         gpc[c] \notin Speaking, phase \notin Speaking, phase # "off",
         phase \in Loose => gpc[c] \in Loose \/ gpc[1] = "run" \/ \A d \in Cores : gpc[d] \notin Speaking,
         phase = "leave" => \A d \in Cores : gpc[d] \notin Speaking,
         UNCHANGED <<visit, fh>>, allstop' = allstop \/ \A d \in Cores : gpc[d] \notin Speaking,
         StateAgrees', gstate' \in [Cores -> {"Unknown", "Running", "Stopped"}]
  PROVE  StopInv'
<1>1. FlagInv'
  <2>1. gpc[c] # "access"
    BY DEF Speaking, Reading
  <2> QED
    BY Zenon, <2>1, FlagFrame DEF StopInv
<1>2. CASE allstop' = allstop
  <2>1. SpeakerStops' /\ gpc'[1] # "off"
    BY Zenon, <1>2, StopFrame
  <2> QED
    BY Zenon, <1>1, <2>1 DEF StopInv
<1>3. CASE \A d \in Cores : gpc[d] \notin Speaking
  <2>1. gpc'[c] = phase /\ \A d \in Cores : d # c => gpc'[d] = gpc[d]
    BY DEF GdbGoto, TicketInv
  <2>2. \A d \in Cores : gpc'[d] \notin Speaking
    BY Zenon, <1>3, <2>1
  <2>3. "spin" \in Speaking
    BY DEF Speaking
  <2>4. SpeakerStops'
    BY Zenon, <2>2, <2>3 DEF SpeakerStops
  <2>5. gpc'[1] # "off"
    BY Zenon, <2>1, FirstCore DEF StopInv
  <2> QED
    BY Zenon, <1>1, <2>4, <2>5 DEF StopInv
<1> QED
  BY <1>2, <1>3

\* A core leaves the stub in its turn, or when allstop is off: nobody speaks then.
LEMMA NobodySpeaks ==
  ASSUME TicketInv, StopInv, NEW c \in Cores, gpc[c] \notin Speaking, ticket[c] = 0 \/ ~allstop
  PROVE  \A d \in Cores : gpc[d] \notin Speaking
<1>1. CASE ticket[c] = 0
  BY <1>1 DEF TicketInv
<1>2. CASE ~allstop
  BY Zenon, <1>2 DEF StopInv, SpeakerStops
<1> QED
  BY <1>1, <1>2

\* Every step of every core preserves the invariant.
LEMMA StopStep ==
  ASSUME TicketInv, StopInv, ~Rebooted, NEW c \in Cores, CoreStep(c)
  PROVE  StopInv'
<1> USE DEF Speaking, Reading, Loose
<1>0. gstate[c] = "Running" => gpc[c] \in {"run", "enter"}
  BY Zenon DEF StopInv, StateAgrees, Rebooted
<1>1. CASE StartGdbCpu(c)
  <2>1. /\ gpc[c] = "off" /\ gpc[1] = "run" /\ GdbGoto(c, "run") /\ allstop' = allstop
        /\ UNCHANGED <<visit, fh>> /\ gstate' = [gstate EXCEPT ![c] = "Running"]
    BY <1>1 DEF StartGdbCpu, sessionVars
  <2>2. StateAgrees' /\ gstate' \in [Cores -> {"Unknown", "Running", "Stopped"}]
    BY Zenon, <2>1, StateFrame
  <2> QED
    BY Zenon, <2>1, <2>2, StopAway
<1>2. CASE Trap(c)
  <2>1. /\ gpc[c] = "run" /\ GdbGoto(c, "enter") /\ allstop' = allstop
        /\ UNCHANGED <<visit, fh>> /\ gstate' = gstate
    BY <1>2 DEF Trap, sessionVars
  <2>2. gstate[c] = "Running"
    BY <2>1 DEF StopInv, StateAgrees
  <2>3. StateAgrees' /\ gstate' \in [Cores -> {"Unknown", "Running", "Stopped"}]
    BY Zenon, <2>1, <2>2, StateStays
  <2> QED
    BY Zenon, <2>1, <2>3, StopAway
<1>3. CASE EnterException(c)
  <2>1. PICK phase \in {"ticket", "check"} :
        /\ gpc[c] = "enter" /\ GdbGoto(c, phase) /\ allstop' = allstop
        /\ UNCHANGED <<visit, fh>> /\ gstate' = [gstate EXCEPT ![c] = "Stopped"]
    BY <1>3 DEF EnterException, sessionVars
  <2>2. phase \notin {"run", "enter"}
    BY <2>1
  <2>3. StateAgrees' /\ gstate' \in [Cores -> {"Unknown", "Running", "Stopped"}]
    BY Zenon, <2>1, <2>2, StateFrame
  <2> QED
    BY Zenon, <2>1, <2>3, StopAway
<1>4. CASE CheckBreakpoint(c) \/ TakeTicket(c)
  <2>1. PICK phase \in {"ticket", "dead", "wait", "wait2"} :
        /\ gpc[c] \in {"check", "ticket", "ticket2"} /\ GdbGoto(c, phase) /\ allstop' = allstop
        /\ UNCHANGED <<visit, fh>> /\ gstate' = gstate
    BY <1>4 DEF CheckBreakpoint, TakeTicket, sessionVars
  <2>2. gstate[c] # "Running"
    BY Zenon, <1>0, <2>1
  <2>3. StateAgrees' /\ gstate' \in [Cores -> {"Unknown", "Running", "Stopped"}]
    BY Zenon, <2>1, <2>2, StateStays
  <2> QED
    BY Zenon, <2>1, <2>3, StopAway
<1>5. CASE TakeStopIPI(c)
  <2>1. /\ gpc[c] = "run" /\ GdbGoto(c, "loop") /\ allstop' = allstop
        /\ UNCHANGED <<visit, fh>> /\ gstate' = [gstate EXCEPT ![c] = "Stopped"]
    BY <1>5 DEF TakeStopIPI, sessionVars
  <2>2. StateAgrees' /\ gstate' \in [Cores -> {"Unknown", "Running", "Stopped"}]
    <3>1. "loop" \notin {"run", "enter"} /\ "Stopped" # "Running"
      OBVIOUS
    <3> QED
      BY Zenon, <2>1, <3>1, StateFrame
  <2> QED
    BY Zenon, <2>1, <2>2, StopAway
<1>6. CASE TestAllstop(c)
  <2>1. PICK phase \in {"ticket2", "leave"} :
        /\ gpc[c] = "loop" /\ GdbGoto(c, phase) /\ allstop' = allstop
        /\ UNCHANGED <<visit, fh>> /\ gstate' = gstate /\ (phase = "leave" => ~allstop)
    BY <1>6 DEF TestAllstop, sessionVars
  <2>2. gstate[c] # "Running"
    BY Zenon, <1>0, <2>1
  <2>3. StateAgrees' /\ gstate' \in [Cores -> {"Unknown", "Running", "Stopped"}]
    BY Zenon, <2>1, <2>2, StateStays
  <2>4. phase = "leave" => \A d \in Cores : gpc[d] \notin Speaking
    BY Zenon, <2>1, NobodySpeaks
  <2> QED
    BY Zenon, <2>1, <2>3, <2>4, StopAway
<1>7. CASE TakeTurn(c)
  <2>1. PICK phase \in {"loop", "leave"} :
        /\ gpc[c] = "wait2" /\ ticket[c] = 0 /\ GdbGoto(c, phase)
        /\ UNCHANGED <<visit, fh>> /\ gstate' = gstate
    BY Zenon, <1>7 DEF TakeTurn
  <2>2. gstate[c] # "Running"
    BY Zenon, <1>0, <2>1
  <2>3. StateAgrees' /\ gstate' \in [Cores -> {"Unknown", "Running", "Stopped"}]
    BY Zenon, <2>1, <2>2, StateStays
  <2>4. \A d \in Cores : gpc[d] \notin Speaking
    BY Zenon, <2>1, NobodySpeaks
  <2> QED
    BY Zenon, <2>1, <2>3, <2>4, StopAway
<1>8. CASE ResumeExecution(c)
  <2>1. /\ gpc[c] = "leave" /\ GdbGoto(c, "run") /\ allstop' = allstop
        /\ UNCHANGED <<visit, fh>> /\ gstate' = [gstate EXCEPT ![c] = "Running"]
    BY <1>8 DEF ResumeExecution, sessionVars
  <2>2. StateAgrees' /\ gstate' \in [Cores -> {"Unknown", "Running", "Stopped"}]
    BY Zenon, <2>1, StateFrame
  <2> QED
    BY Zenon, <2>1, <2>2, StopAway
<1> QED
  BY Zenon, <1>1, <1>2, <1>3, <1>4, <1>5, <1>6, <1>7, <1>8, StopStart, StopLoop, StopSpin, StopReply,
     StopPacket, StopFault DEF CoreStep

\* For any number of cores and of breakpoints: a core reads a packet only when no
\* stop reply is owed, and as the core that replied; a removed breakpoint gets its
\* original byte back; only the saved thread is pinned; no other core runs while
\* packets are handled, and no fault of running code is taken for one of the stub,
\* except when a core slipped away on its way out or an access that faulted has
\* left the flag set (Gdb.cc:122-148, 559-857, GdbAsm.S:176-183).
THEOREM SessionHolds == GdbSpec => []SessionConsistent
<1> DEFINE Inv == TicketInv /\ SessionInv /\ StopInv
<1>1. GdbInit => Inv
  <2> SUFFICES ASSUME GdbInit PROVE SessionInv
    BY TicketInit, StopInit
  <2>1. stub \in StubType
    BY DEF GdbInit, StubInit, StubType
  <2>2. /\ stub.action = "none" /\ stub.told = 0
        /\ stub.savedThread = 0 /\ stub.pinned = {}
    BY DEF GdbInit, StubInit
  <2>3. text = [a \in Code |-> "op"] /\ fe = "ask"
    BY Zenon DEF GdbInit
  <2>4. \A c \in Cores : gpc[c] # "access"
    BY DEF GdbInit
  <2> QED
    BY <2>1, <2>2, <2>3, <2>4 DEF SessionInv
<1>2. Inv /\ [GdbNext]_gdbVars => Inv'
  <2> SUFFICES ASSUME TicketInv, SessionInv, StopInv, [GdbNext]_gdbVars
      PROVE  TicketInv' /\ SessionInv' /\ StopInv'
    OBVIOUS
  <2>1. CASE Reattach
    <3>1. fe' = "ask" /\ UNCHANGED <<gpc, gstate, ticket, line, allstop, visit, stub, fh, request, text>>
      BY <2>1 DEF Reattach, queueVars
    <3>2. StopInv'
      BY Zenon, <3>1 DEF StopInv, StateAgrees, SpeakerStops, Reached, FlagInv, Rebooted
    <3>3. TicketInv'
      BY Zenon, <3>1 DEF TicketInv
    <3>4. Sensible(request)' <=> Sensible(request)
      BY Zenon, <3>1 DEF Sensible
    <3> QED
      BY Zenon, <3>1, <3>2, <3>3, <3>4 DEF SessionInv
  <2>2. CASE ~Rebooted /\ \E c \in Cores : CoreStep(c)
    BY Zenon, <2>2, TicketStep, SessionStep, StopStep
  <2>3. CASE UNCHANGED gdbVars
    <3>1. UNCHANGED <<gpc, gstate, ticket, line, allstop, visit, stub, fh, request, text, fe>>
      BY <2>3 DEF gdbVars
    <3>2. StopInv'
      BY Zenon, <3>1 DEF StopInv, StateAgrees, SpeakerStops, Reached, FlagInv, Rebooted
    <3>3. TicketInv'
      BY Zenon, <3>1 DEF TicketInv
    <3>4. Sensible(request)' <=> Sensible(request)
      BY Zenon, <3>1 DEF Sensible
    <3> QED
      BY Zenon, <3>1, <3>2, <3>3, <3>4 DEF SessionInv
  <2> QED
    BY Zenon, <2>1, <2>2, <2>3 DEF GdbNext
<1>3. Inv => SessionConsistent
  <2> SUFFICES ASSUME TicketInv, SessionInv, StopInv PROVE SessionConsistent
    OBVIOUS
  <2>1. FrontEndInStep
    BY Zenon, ReaderFacts DEF FrontEndInStep, SessionInv
  <2>2. SessionRestores
    BY DEF SessionRestores, SessionInv, StubType
  <2>3. AllStopped
    <3> SUFFICES ASSUME NEW c \in Cores, gpc[c] \in Reading, ~fh.slipped, NEW d \in Cores
                 PROVE  gpc[d] \notin Loose
      BY DEF AllStopped, Loose
    <3>1. gpc[c] \in Speaking /\ Reached(c, d)
      BY DEF Speaking, Reached
    <3> QED
      BY Zenon, <3>1 DEF StopInv, SpeakerStops
  <2>4. FaultsAreOwn
    BY Zenon DEF FaultsAreOwn, StopInv, FlagInv
  <2> QED
    BY Zenon, <2>1, <2>2, <2>3, <2>4 DEF SessionConsistent
<1> QED
  BY <1>1, <1>2, <1>3, PTL DEF GdbSpec


-----------------------------------------------------------------------------
(* Pthread: the mutex of the user library.                                  *)

Queuers == Waits("m")
Givers == {t \in Lockers : UserAt(t, "V", "m")}
Points == {"run", "P", "blocked", "V", "broadcastV", "broadcast", "broadcast1", "signal", "undo"}

PthreadTypeOK ==
  /\ user \in [Lockers -> Points \X Benaphores]
  /\ counter \in [Benaphores -> Int] /\ ksem \in [Benaphores -> Nat]
  /\ kqueue \in [Benaphores -> Seq(Lockers)]
  /\ held \in SUBSET Lockers /\ tried \in BOOLEAN

\* The kernel's queues hold the blocked threads, each once; only a broadcast on
\* a condition goes on after its V; only a failed trylock has something to undo.
QueueInv ==
  /\ \A b \in Benaphores : \A i \in 1..Len(kqueue[b]) :
       /\ UserAt(kqueue[b][i], "blocked", b)
       /\ \A j \in 1..Len(kqueue[b]) : kqueue[b][i] = kqueue[b][j] => i = j
  /\ \A t \in Lockers : user[t][1] = "broadcastV" => user[t][2] = "c"
  /\ \A t \in Lockers : user[t][1] = "undo" => tried

\* The counter is one less the threads that hold the mutex or wait for it; and
\* unless it is 1 the mutex is with one thread, with the kernel's semaphore, or
\* on its way there.
Mine == Cardinality(held)
Given == Cardinality(Givers)
InLine == Cardinality(Queuers)
TokenInv ==
  /\ Queuers \cap held = {}
  /\ counter["m"] = 1 - Mine - InLine
  /\ Mine + Given + ksem["m"] = IF counter["m"] = 1 THEN 0 ELSE 1

PthreadInv == PthreadTypeOK /\ QueueInv /\ (~tried => TokenInv)

\* Sets of threads are finite, and lose or gain one thread at a time.
LEMMA Counts ==
  ASSUME NEW S \in SUBSET Lockers
  PROVE  /\ Cardinality(S) \in Nat /\ (Cardinality(S) = 0 <=> S = {})
         /\ \A t \in Lockers \ S : Cardinality(S \cup {t}) = Cardinality(S) + 1
         /\ \A t \in S : Cardinality(S \ {t}) = Cardinality(S) - 1
<1>1. IsFiniteSet(S)
  BY PthreadAssumption, FS_Subset
<1>2. Cardinality(S) \in Nat /\ (Cardinality(S) = 0 <=> S = {})
  BY <1>1, FS_CardinalityType, FS_EmptySet
<1>3. \A t \in Lockers \ S : Cardinality(S \cup {t}) = Cardinality(S) + 1
  BY <1>1, FS_AddElement
<1>4. \A t \in S : Cardinality(S \ {t}) = Cardinality(S) - 1
  BY <1>1, FS_RemoveElement
<1> QED
  BY <1>2, <1>3, <1>4

\* The sets that TokenInv counts, and the numbers.
LEMMA Numbers ==
  ASSUME PthreadTypeOK
  PROVE  /\ held \in SUBSET Lockers /\ Queuers \in SUBSET Lockers /\ Givers \in SUBSET Lockers
         /\ Mine \in Nat /\ InLine \in Nat /\ Given \in Nat
         /\ counter["m"] \in Int /\ ksem["m"] \in Nat
<1>1. held \in SUBSET Lockers /\ Queuers \in SUBSET Lockers /\ Givers \in SUBSET Lockers
  BY DEF PthreadTypeOK, Queuers, Waits, Givers
<1>2. Mine \in Nat /\ InLine \in Nat /\ Given \in Nat
  BY <1>1, Counts DEF Mine, InLine, Given
<1>3. counter["m"] \in Int /\ ksem["m"] \in Nat
  BY DEF PthreadTypeOK, Benaphores
<1> QED
  BY <1>1, <1>2, <1>3

\* At most one thread holds the mutex, in every state of the invariant.
LEMMA OneHolds == PthreadInv => MutexExclusive
<1> SUFFICES ASSUME PthreadInv, ~tried PROVE Mine <= 1
  BY DEF MutexExclusive, Mine
<1>1. TokenInv /\ Mine \in Nat /\ Given \in Nat /\ ksem["m"] \in Nat
  BY Numbers DEF PthreadInv
<1> QED
  BY <1>1 DEF TokenInv

\* Where a thread goes decides whether it waits for the mutex or gives it.
LEMMA Moves ==
  ASSUME PthreadTypeOK, NEW t \in Lockers, NEW p \in Points, NEW b \in Benaphores, UserGoto(t, p, b)
  PROVE  /\ user' \in [Lockers -> Points \X Benaphores]
         /\ user'[t] = <<p, b>> /\ \A u \in Lockers : u # t => user'[u] = user[u]
         /\ p \in {"P", "blocked"} /\ b = "m" => Queuers' = Queuers \cup {t}
         /\ p \notin {"P", "blocked"} \/ b # "m" => Queuers' = Queuers \ {t}
         /\ p = "V" /\ b = "m" => Givers' = Givers \cup {t}
         /\ p # "V" \/ b # "m" => Givers' = Givers \ {t}
<1>1. user \in [Lockers -> Points \X Benaphores] /\ user' = [user EXCEPT ![t] = <<p, b>>]
  BY DEF PthreadTypeOK, UserGoto
<1>2. /\ user' \in [Lockers -> Points \X Benaphores]
      /\ user'[t] = <<p, b>> /\ \A u \in Lockers : u # t => user'[u] = user[u]
  BY <1>1
<1>3. UserAt(t, "P", "m")' <=> (p = "P" /\ b = "m")
  BY <1>2 DEF UserAt
<1>4. UserAt(t, "blocked", "m")' <=> (p = "blocked" /\ b = "m")
  BY <1>2 DEF UserAt
<1>5. UserAt(t, "V", "m")' <=> (p = "V" /\ b = "m")
  BY <1>2 DEF UserAt
<1>6. \A u \in Lockers : u # t => (u \in Queuers' <=> u \in Queuers)
  BY <1>2 DEF Queuers, Waits, UserAt
<1>7. \A u \in Lockers : u # t => (u \in Givers' <=> u \in Givers)
  BY <1>2 DEF Givers, UserAt
<1>8. t \in Queuers' <=> (p \in {"P", "blocked"} /\ b = "m")
  BY <1>3, <1>4 DEF Queuers, Waits
<1>9. t \in Givers' <=> (p = "V" /\ b = "m")
  BY <1>5 DEF Givers
<1>10. Queuers \subseteq Lockers /\ Queuers' \subseteq Lockers /\ Givers \subseteq Lockers /\ Givers' \subseteq Lockers
  BY DEF Queuers, Waits, Givers
<1> QED
  BY Zenon, <1>2, <1>6, <1>7, <1>8, <1>9, <1>10

\* A thread that is not blocked moves, and the kernel's queues stay.
LEMMA QueuesStay ==
  ASSUME PthreadTypeOK, QueueInv, NEW t \in Lockers, user[t][1] # "blocked", kqueue' = kqueue,
         NEW p \in Points, NEW b \in Benaphores, UserGoto(t, p, b),
         p = "broadcastV" => b = "c", p = "undo" => tried', tried => tried'
  PROVE  QueueInv'
<1>1. user'[t] = <<p, b>> /\ \A u \in Lockers : u # t => user'[u] = user[u]
  BY Zenon, Moves
<1>2. ASSUME NEW a \in Benaphores, NEW i \in 1..Len(kqueue[a])
      PROVE  UserAt(kqueue[a][i], "blocked", a)'
  <2>1. kqueue[a][i] \in Lockers
    BY DEF PthreadTypeOK
  <2>2. user[kqueue[a][i]] = <<"blocked", a>>
    BY Zenon DEF QueueInv, UserAt
  <2>3. kqueue[a][i] # t
    BY <2>2
  <2> QED
    BY Zenon, <1>1, <2>1, <2>2, <2>3 DEF UserAt
<1>3. \A u \in Lockers : user'[u][1] = "broadcastV" => user'[u][2] = "c"
  BY <1>1 DEF QueueInv
<1>4. \A u \in Lockers : user'[u][1] = "undo" => tried'
  BY <1>1 DEF QueueInv
<1> QED
  BY Zenon, <1>2, <1>3, <1>4 DEF QueueInv

\* A step that has nothing to do with the mutex.
LEMMA TokenStays ==
  ASSUME TokenInv, held' = held, Queuers' = Queuers, Givers' = Givers,
         counter'["m"] = counter["m"], ksem'["m"] = ksem["m"]
  PROVE  TokenInv'
<1>1. Mine' = Mine /\ InLine' = InLine /\ Given' = Given
  BY Zenon DEF Mine, InLine, Given
<1> QED
  BY Zenon, <1>1 DEF TokenInv

\* Threads outside the kernel neither wait for the mutex nor give it.
LEMMA Outside ==
  ASSUME NEW t \in Lockers, user[t][1] \notin {"P", "blocked", "V"} \/ user[t][2] # "m"
  PROVE  t \notin Queuers /\ t \notin Givers
BY DEF Queuers, Waits, Givers, UserAt

\* The mutex passes from hand to hand in one step, which also moves one thread.
LEMMA TokenMoves ==
  ASSUME PthreadTypeOK, TokenInv, (Queuers \cap held)' = {},
         counter'["m"] + Mine' + InLine' = counter["m"] + Mine + InLine,
         Mine' \in Nat, InLine' \in Nat, Given' \in Nat, ksem'["m"] \in Nat, counter'["m"] \in Int,
         LET new == Mine' + Given' + ksem'["m"]
             old == Mine + Given + ksem["m"]
         IN  \/ new = old /\ (counter'["m"] = 1 <=> counter["m"] = 1)
             \/ new = old + 1 /\ counter["m"] = 1 /\ counter'["m"] # 1
             \/ new = old - 1 /\ counter["m"] # 1 /\ counter'["m"] = 1
  PROVE  TokenInv'
<1>1. /\ Mine \in Nat /\ InLine \in Nat /\ Given \in Nat /\ counter["m"] \in Int /\ ksem["m"] \in Nat
      /\ counter["m"] = 1 - Mine - InLine
      /\ Mine + Given + ksem["m"] = IF counter["m"] = 1 THEN 0 ELSE 1
  BY Numbers DEF TokenInv
<1>2. counter'["m"] = 1 - Mine' - InLine'
  BY <1>1
<1>3. Mine' + Given' + ksem'["m"] = IF counter'["m"] = 1 THEN 0 ELSE 1
  BY <1>1
<1> QED
  BY Zenon, <1>2, <1>3 DEF TokenInv

\* Benaphore::P: the counter is 1 only if nobody holds the mutex or waits for it.
LEMMA StepP ==
  ASSUME PthreadInv, NEW t \in Lockers, Running(t), NEW b \in Benaphores, b = "m" => t \notin held,
         BenaphoreP(t, b)
  PROVE  PthreadInv'
<1>1. PthreadTypeOK /\ QueueInv /\ user[t][1] = "run"
  BY DEF PthreadInv, Running
<1>2. /\ counter' = [counter EXCEPT ![b] = counter[b] - 1] /\ ksem' = ksem /\ kqueue' = kqueue /\ tried' = tried
      /\ counter[b] > 0 => held' = Acquired(b, t) /\ user' = user
      /\ ~(counter[b] > 0) => UserGoto(t, "P", b) /\ held' = held
  BY DEF BenaphoreP
<1>3. t \notin Queuers /\ t \notin Givers
  BY <1>1, Outside
<1>4. PthreadTypeOK' /\ QueueInv'
  <2>1. counter' \in [Benaphores -> Int] /\ held' \in SUBSET Lockers
    BY <1>1, <1>2 DEF PthreadTypeOK, Acquired
  <2>2. user' \in [Lockers -> Points \X Benaphores] /\ QueueInv'
    <3>1. CASE user' = user
      BY Zenon, <1>1, <1>2, <3>1 DEF PthreadTypeOK, QueueInv, UserAt
    <3>2. CASE UserGoto(t, "P", b)
      BY Zenon, <1>1, <1>2, <3>2, Moves, QueuesStay DEF Points
    <3> QED
      BY <1>2, <3>1, <3>2
  <2> QED
    BY Zenon, <1>1, <1>2, <2>1, <2>2 DEF PthreadTypeOK
<1>5. ASSUME ~tried PROVE TokenInv'
  <2>1. TokenInv
    BY <1>5 DEF PthreadInv
  <2>2. CASE b = "c"
    <3>1. held' = held /\ counter'["m"] = counter["m"]
      BY Zenon, <1>1, <1>2, <2>2 DEF Acquired, PthreadTypeOK, Benaphores
    <3>2. Queuers' = Queuers /\ Givers' = Givers
      <4>1. CASE user' = user
        BY Zenon, <4>1 DEF Queuers, Waits, Givers, UserAt
      <4>2. CASE UserGoto(t, "P", b)
        <5>1. "P" \in Points /\ "P" # "V" /\ b # "m"
          BY <2>2 DEF Points
        <5>2. Queuers' = Queuers \ {t} /\ Givers' = Givers \ {t}
          BY Zenon, <1>1, <4>2, <5>1, Moves
        <5> QED
          BY Zenon, <1>3, <5>2
      <4> QED
        BY <1>2, <4>1, <4>2
    <3> QED
      BY <1>2, <2>1, <3>1, <3>2, TokenStays
  <2>3. CASE b = "m" /\ counter["m"] > 0
    <3>1. /\ held' = held \cup {t} /\ user' = user /\ t \in Lockers \ held
          /\ counter'["m"] = counter["m"] - 1
      BY Zenon, <1>1, <1>2, <2>3 DEF Acquired, PthreadTypeOK
    <3>2. Queuers' = Queuers /\ Givers' = Givers
      BY Zenon, <3>1 DEF Queuers, Waits, Givers, UserAt
    <3>3. Mine' = Mine + 1 /\ InLine' = InLine /\ Given' = Given
      BY Zenon, <1>1, <3>1, <3>2, Numbers, Counts DEF Mine, InLine, Given
    <3>4. (Queuers \cap held)' = {}
      BY Zenon, <1>3, <2>1, <3>1, <3>2 DEF TokenInv
    <3>5. counter["m"] = 1 /\ ksem["m"] \in Nat /\ Mine \in Nat /\ InLine \in Nat /\ Given \in Nat
      BY <1>1, <2>1, <2>3, Numbers DEF TokenInv
    <3> QED
      BY <1>1, <1>2, <2>1, <3>1, <3>3, <3>4, <3>5, TokenMoves
  <2>4. CASE b = "m" /\ ~(counter["m"] > 0)
    <3>1. held' = held /\ UserGoto(t, "P", "m") /\ counter'["m"] = counter["m"] - 1 /\ t \notin held
      BY Zenon, <1>1, <1>2, <2>4 DEF PthreadTypeOK
    <3>2. Queuers' = Queuers \cup {t} /\ Givers' = Givers
      <4>1. "P" \in Points /\ "P" \in {"P", "blocked"} /\ "P" # "V"
        BY DEF Points
      <4>2. Queuers' = Queuers \cup {t} /\ Givers' = Givers \ {t}
        BY Zenon, <1>1, <2>4, <3>1, <4>1, Moves
      <4> QED
        BY Zenon, <1>3, <4>2
    <3>3. Mine' = Mine /\ InLine' = InLine + 1 /\ Given' = Given
      BY Zenon, <1>1, <1>3, <3>1, <3>2, Numbers, Counts DEF Mine, InLine, Given
    <3>4. (Queuers \cap held)' = {}
      BY Zenon, <2>1, <3>1, <3>2 DEF TokenInv
    <3>5. counter["m"] \in Int /\ ksem["m"] \in Nat /\ Mine \in Nat /\ InLine \in Nat /\ Given \in Nat
      BY <1>1, Numbers
    <3> QED
      BY <1>1, <1>2, <2>1, <2>4, <3>1, <3>3, <3>4, <3>5, TokenMoves
  <2> QED
    BY <2>2, <2>3, <2>4 DEF Benaphores
<1> QED
  BY <1>2, <1>4, <1>5 DEF PthreadInv

\* Benaphore::V: the mutex is passed on if somebody waits for it.
LEMMA StepV ==
  ASSUME PthreadInv, NEW t \in Lockers, NEW b \in Benaphores, NEW next \in {"V", "broadcastV"},
         user[t][1] \in {"run", "signal", "broadcast1"},
         IF b = "m" THEN next = "V" /\ t \in held /\ held' = held \ {t} ELSE held' = held,
         BenaphoreV(t, b, next)
  PROVE  PthreadInv'
<1>1. PthreadTypeOK /\ QueueInv /\ user[t][1] \notin {"P", "blocked", "V"}
  BY DEF PthreadInv
<1>2. PICK p \in {"run", "broadcast", "V", "broadcastV"} :
        /\ UserGoto(t, p, b)
        /\ p = IF counter[b] >= 0 THEN IF next = "V" THEN "run" ELSE "broadcast" ELSE next
        /\ p \in Points /\ p \notin {"P", "blocked"}
  BY DEF BenaphoreV, Points
<1>3. /\ counter' = [counter EXCEPT ![b] = counter[b] + 1] /\ ksem' = ksem /\ kqueue' = kqueue /\ tried' = tried
      /\ held' \in SUBSET Lockers
  BY <1>1 DEF BenaphoreV, PthreadTypeOK
<1>4. t \notin Queuers /\ t \notin Givers
  BY Zenon, <1>1, Outside
<1>5. PthreadTypeOK' /\ QueueInv'
  <2>1. counter' \in [Benaphores -> Int]
    BY <1>1, <1>3 DEF PthreadTypeOK
  <2>2. user' \in [Lockers -> Points \X Benaphores]
    BY Zenon, <1>1, <1>2, Moves
  <2>3. (p = "broadcastV" => b = "c") /\ p # "undo" /\ user[t][1] # "blocked"
    BY Zenon, <1>1, <1>2 DEF Benaphores
  <2>4. QueueInv'
    BY Zenon, <1>1, <1>2, <1>3, <2>3, QueuesStay
  <2> QED
    BY Zenon, <1>1, <1>3, <2>1, <2>2, <2>4 DEF PthreadTypeOK
<1>6. ASSUME ~tried PROVE TokenInv'
  <2>1. TokenInv
    BY <1>6 DEF PthreadInv
  <2>2. Queuers' = Queuers
    <3>1. Queuers' = Queuers \ {t}
      BY Zenon, <1>1, <1>2, Moves
    <3> QED
      BY Zenon, <1>4, <3>1
  <2>3. /\ p = "V" /\ b = "m" => Givers' = Givers \cup {t}
        /\ p # "V" \/ b # "m" => Givers' = Givers
    <3>1. /\ p = "V" /\ b = "m" => Givers' = Givers \cup {t}
          /\ p # "V" \/ b # "m" => Givers' = Givers \ {t}
      BY Zenon, <1>1, <1>2, Moves
    <3> QED
      BY Zenon, <1>4, <3>1
  <2>4. CASE b = "c"
    <3>1. held' = held /\ counter'["m"] = counter["m"] /\ Givers' = Givers
      BY Zenon, <1>1, <1>3, <2>3, <2>4 DEF PthreadTypeOK, Benaphores
    <3> QED
      BY Zenon, <1>3, <2>1, <2>2, <3>1, TokenStays
  <2>5. CASE b = "m"
    <3>1. held' = held \ {t} /\ t \in held /\ counter'["m"] = counter["m"] + 1
      BY <1>1, <1>3, <2>5 DEF PthreadTypeOK
    <3>2. Mine' = Mine - 1 /\ InLine' = InLine /\ Mine > 0
      BY <1>1, <2>2, <3>1, Numbers, Counts DEF Mine, InLine
    <3>3. (Queuers \cap held)' = {}
      BY Zenon, <2>1, <2>2, <3>1 DEF TokenInv
    <3>4. /\ counter["m"] \in Int /\ ksem["m"] \in Nat /\ counter["m"] <= 0
          /\ Mine \in Nat /\ InLine \in Nat /\ Given \in Nat
      BY <1>1, <2>1, <3>2, Numbers DEF TokenInv
    <3>5. PICK c \in Int, M \in Nat, W \in Nat, G \in Nat, k \in Nat :
            /\ c = counter["m"] /\ M = Mine /\ W = InLine /\ G = Given /\ k = ksem["m"]
            /\ c + 1 = counter'["m"] /\ M - 1 = Mine' /\ W = InLine' /\ k = ksem'["m"] /\ M > 0
      BY Zenon, <1>3, <3>1, <3>2, <3>4
    <3>6. /\ M - 1 \in Nat /\ c + 1 \in Int
          /\ (c + 1) + (M - 1) + W = c + M + W
          /\ (M - 1) + G + k = (M + G + k) - 1
          /\ (M - 1) + (G + 1) + k = M + G + k
          /\ c = 0 => c # 1 /\ c + 1 = 1
          /\ c < 0 => c # 1 /\ c + 1 # 1
      BY <3>5
    <3>7. CASE counter["m"] = 0
      <4>1. Givers' = Givers
        <5>1. 0 >= 0
          OBVIOUS
        <5>2. p # "V"
          BY Zenon, <1>2, <2>5, <3>7, <5>1
        <5> QED
          BY Zenon, <2>3, <5>2
      <4>2. Given' = Given
        BY Zenon, <1>1, <4>1, Numbers DEF Given
      <4> QED
        <5>1. /\ counter'["m"] + Mine' + InLine' = counter["m"] + Mine + InLine
              /\ Mine' + Given' + ksem'["m"] = (Mine + Given + ksem["m"]) - 1
              /\ counter["m"] # 1 /\ counter'["m"] = 1
              /\ Mine' \in Nat /\ counter'["m"] \in Int
          BY Zenon, <3>7, <3>5, <3>6, <4>2
        <5>2. InLine' \in Nat /\ Given' \in Nat /\ ksem'["m"] \in Nat
          BY Zenon, <1>3, <3>2, <3>4, <4>2
        <5> QED
          BY Zenon, <1>1, <2>1, <3>3, <5>1, <5>2, TokenMoves
    <3>8. CASE counter["m"] < 0
      <4>1. Givers' = Givers \cup {t}
        <5>1. p = "V"
          BY <1>2, <2>5, <3>4, <3>8
        <5> QED
          BY Zenon, <2>3, <2>5, <5>1
      <4>2. Given' = Given + 1
        BY Zenon, <1>1, <1>4, <4>1, Numbers, Counts DEF Given
      <4> QED
        <5>1. /\ counter'["m"] + Mine' + InLine' = counter["m"] + Mine + InLine
              /\ Mine' + Given' + ksem'["m"] = Mine + Given + ksem["m"]
              /\ counter["m"] # 1 /\ counter'["m"] # 1
              /\ Mine' \in Nat /\ counter'["m"] \in Int
          BY Zenon, <3>8, <3>5, <3>6, <4>2
        <5>2. InLine' \in Nat /\ Given' \in Nat /\ ksem'["m"] \in Nat
          BY <1>3, <3>2, <3>4, <4>2
        <5> QED
          BY Zenon, <1>1, <2>1, <3>3, <5>1, <5>2, TokenMoves
    <3> QED
      BY <3>4, <3>7, <3>8
  <2> QED
    BY Zenon, <2>4, <2>5 DEF Benaphores
<1> QED
  BY <1>3, <1>5, <1>6 DEF PthreadInv

\* semP: a thread that finds the kernel's semaphore open takes the mutex that
\* was passed on; any other queues.
LEMMA StepSemP ==
  ASSUME PthreadInv, NEW t \in Lockers, NEW b \in Benaphores, SemP(t, b)
  PROVE  PthreadInv'
<1>1. PthreadTypeOK /\ QueueInv /\ user[t] = <<"P", b>>
  BY Zenon DEF PthreadInv, SemP, UserAt
<1>2. /\ counter' = counter /\ tried' = tried
      /\ ksem[b] = 0 => /\ UserGoto(t, "blocked", b) /\ kqueue' = [kqueue EXCEPT ![b] = Append(kqueue[b], t)]
                        /\ ksem' = ksem /\ held' = held
      /\ ksem[b] # 0 => /\ UserGoto(t, "run", b) /\ held' = Acquired(b, t)
                        /\ ksem' = [ksem EXCEPT ![b] = ksem[b] - 1] /\ kqueue' = kqueue
  BY DEF SemP
<1>3. t \notin Givers /\ (b = "m" => t \in Queuers) /\ (b # "m" => t \notin Queuers)
  BY <1>1 DEF Queuers, Waits, Givers, UserAt
<1>4. CASE ksem[b] = 0
  <2>1. "blocked" \in Points /\ "blocked" \in {"P", "blocked"} /\ "blocked" # "V"
    BY DEF Points
  <2>2. /\ user' \in [Lockers -> Points \X Benaphores]
        /\ user'[t] = <<"blocked", b>> /\ \A u \in Lockers : u # t => user'[u] = user[u]
    BY Zenon, <1>1, <1>2, <1>4, <2>1, Moves
  <2>3. kqueue \in [Benaphores -> Seq(Lockers)]
    BY <1>1 DEF PthreadTypeOK
  <2>4. PthreadTypeOK'
    <3>1. kqueue' \in [Benaphores -> Seq(Lockers)]
      <4>1. Append(kqueue[b], t) \in Seq(Lockers)
        BY <2>3
      <4> QED
        BY Zenon, <1>2, <1>4, <2>3, <4>1
    <3> QED
      BY Zenon, <1>1, <1>2, <1>4, <2>2, <3>1 DEF PthreadTypeOK
  <2>5. ASSUME NEW a \in Benaphores, NEW i \in 1..Len(kqueue[a])
        PROVE  kqueue[a][i] \in Lockers /\ kqueue[a][i] # t /\ user'[kqueue[a][i]] = <<"blocked", a>>
    <3>1. kqueue[a][i] \in Lockers
      BY <2>3
    <3>2. user[kqueue[a][i]] = <<"blocked", a>>
      BY Zenon, <1>1 DEF QueueInv, UserAt
    <3>3. kqueue[a][i] # t
      BY <1>1, <3>2
    <3> QED
      BY Zenon, <2>2, <3>1, <3>2, <3>3
  <2>6. ASSUME NEW a \in Benaphores, NEW i \in 1..Len(kqueue'[a])
        PROVE  /\ user'[kqueue'[a][i]] = <<"blocked", a>>
               /\ \A j \in 1..Len(kqueue'[a]) : kqueue'[a][i] = kqueue'[a][j] => i = j
    <3>1. CASE a # b
      <4>1. kqueue'[a] = kqueue[a]
        BY <1>2, <1>4, <2>3, <3>1
      <4> QED
        BY Zenon, <1>1, <2>5, <4>1 DEF QueueInv
    <3>2. CASE a = b
      <4> DEFINE n == Len(kqueue[b])
      <4>1. /\ n \in Nat /\ Len(kqueue'[b]) = n + 1 /\ kqueue'[b][n + 1] = t
            /\ \A k \in 1..n : kqueue'[b][k] = kqueue[b][k]
        BY <1>2, <1>4, <2>3
      <4>2. \A k \in 1..n : \A j \in 1..n : kqueue[b][k] = kqueue[b][j] => k = j
        BY Zenon, <1>1 DEF QueueInv
      <4>3. \A k \in 1..n : kqueue[b][k] # t /\ user'[kqueue[b][k]] = <<"blocked", b>>
        BY Zenon, <2>5
      <4> HIDE DEF n
      <4>4. \A k \in 1..(n + 1) : k = n + 1 \/ k \in 1..n
        BY <4>1
      <4>5. i \in 1..(n + 1)
        BY <3>2, <4>1
      <4>6. CASE i = n + 1
        BY Zenon, <2>2, <3>2, <4>1, <4>3, <4>4, <4>6
      <4>7. CASE i \in 1..n
        BY Zenon, <3>2, <4>1, <4>2, <4>3, <4>4, <4>7
      <4> QED
        BY Zenon, <4>4, <4>5, <4>6, <4>7
    <3> QED
      BY Zenon, <3>1, <3>2
  <2>7. \A u \in Lockers : user'[u][1] = "broadcastV" => user'[u][2] = "c"
    BY <1>1, <2>2 DEF QueueInv
  <2>8. \A u \in Lockers : user'[u][1] = "undo" => tried'
    <3>1. user'[t][1] # "undo"
      BY <2>2
    <3>2. \A u \in Lockers : user[u][1] = "undo" => tried
      BY Zenon, <1>1 DEF QueueInv
    <3> QED
      BY Zenon, <1>2, <2>2, <3>1, <3>2
  <2>9. QueueInv'
    BY Zenon, <2>6, <2>7, <2>8 DEF QueueInv, UserAt
  <2>10. Queuers' = Queuers /\ Givers' = Givers
    <3>1. /\ b = "m" => Queuers' = Queuers \cup {t}
          /\ b # "m" => Queuers' = Queuers \ {t}
          /\ Givers' = Givers \ {t}
      BY Zenon, <1>1, <1>2, <1>4, <2>1, Moves
    <3> QED
      BY Zenon, <1>3, <3>1
  <2>11. ~tried => TokenInv'
    BY <1>2, <1>4, <2>10, TokenStays DEF PthreadInv
  <2> QED
    BY <1>2, <2>4, <2>9, <2>11 DEF PthreadInv
<1>5. CASE ksem[b] # 0
  <2>1. "run" \in Points /\ "run" \notin {"P", "blocked"} /\ "run" # "V" /\ user[t][1] # "blocked"
    BY <1>1 DEF Points
  <2>2. /\ user' \in [Lockers -> Points \X Benaphores]
        /\ Queuers' = Queuers \ {t} /\ Givers' = Givers \ {t}
    BY Zenon, <1>1, <1>2, <1>5, <2>1, Moves
  <2>3. QueueInv'
    BY Zenon, <1>1, <1>2, <1>5, <2>1, QueuesStay
  <2>4. ksem' \in [Benaphores -> Nat] /\ held' \in SUBSET Lockers
    <3>1. ksem \in [Benaphores -> Nat] /\ held \in SUBSET Lockers
      BY <1>1 DEF PthreadTypeOK
    <3>2. ksem[b] - 1 \in Nat
      BY <1>5, <3>1
    <3>3. ksem' \in [Benaphores -> Nat]
      BY <1>2, <1>5, <3>1, <3>2
    <3>4. held' \in SUBSET Lockers
      BY <1>2, <1>5, <3>1 DEF Acquired
    <3> QED
      BY <3>3, <3>4
  <2>5. PthreadTypeOK'
    BY Zenon, <1>1, <1>2, <1>5, <2>2, <2>4 DEF PthreadTypeOK
  <2>6. ASSUME ~tried PROVE TokenInv'
    <3>1. TokenInv
      BY <2>6 DEF PthreadInv
    <3>2. CASE b = "c"
      <4>1. held' = held /\ ksem'["m"] = ksem["m"] /\ Queuers' = Queuers /\ Givers' = Givers
        BY <1>1, <1>2, <1>3, <1>5, <2>2, <3>2 DEF PthreadTypeOK, Benaphores, Acquired
      <4> QED
        BY <1>2, <3>1, <4>1, TokenStays
    <3>3. CASE b = "m"
      <4>1. /\ t \in Queuers /\ t \in Lockers \ held /\ held' = held \cup {t} /\ Givers' = Givers
            /\ ksem'["m"] = ksem["m"] - 1 /\ ksem["m"] # 0
        BY <1>1, <1>2, <1>3, <1>5, <2>2, <3>1, <3>3 DEF PthreadTypeOK, Acquired, TokenInv
      <4>2. Mine' = Mine + 1 /\ InLine' = InLine - 1 /\ InLine # 0 /\ Given' = Given
        BY Zenon, <1>1, <2>2, <4>1, Numbers, Counts DEF Mine, InLine, Given
      <4>3. (Queuers \cap held)' = {}
        BY Zenon, <2>2, <3>1, <4>1 DEF TokenInv
      <4>4. /\ counter["m"] \in Int /\ ksem["m"] \in Nat
            /\ Mine \in Nat /\ InLine \in Nat /\ Given \in Nat
        BY Zenon, <1>1, Numbers
      <4>5. counter'["m"] = counter["m"]
        BY <1>2
      <4>6. /\ counter'["m"] + Mine' + InLine' = counter["m"] + Mine + InLine
            /\ Mine' \in Nat /\ InLine' \in Nat /\ Given' \in Nat /\ ksem'["m"] \in Nat /\ counter'["m"] \in Int
            /\ Mine' + Given' + ksem'["m"] = Mine + Given + ksem["m"]
        BY <4>1, <4>2, <4>4, <4>5
      <4> QED
        BY Zenon, <1>1, <3>1, <4>3, <4>5, <4>6, TokenMoves
    <3> QED
      BY <3>2, <3>3 DEF Benaphores
  <2> QED
    BY <1>2, <2>3, <2>5, <2>6 DEF PthreadInv
<1> QED
  BY <1>4, <1>5

\* semV hands the mutex to the thread that waits longest in the kernel, or
\* leaves it with the kernel's semaphore.
LEMMA StepSemV ==
  ASSUME PthreadInv, NEW t \in Lockers, NEW b \in Benaphores, SemV(t, b)
  PROVE  PthreadInv'
<1>1. PthreadTypeOK /\ QueueInv /\ user[t][1] \in {"V", "broadcastV"} /\ user[t][2] = b
  BY Zenon DEF PthreadInv, SemV
<1>2. PICK p \in {"run", "broadcast"} : p = AfterV(user[t][1])
  BY Zenon DEF AfterV
<1>3. p \in Points /\ p \notin {"P", "blocked"} /\ p # "V" /\ p # "broadcastV" /\ p # "undo"
  BY Zenon, <1>2 DEF Points
<1>4. counter' = counter /\ tried' = tried
  BY Zenon DEF SemV
<1>5. user[t] \in Points \X Benaphores
  BY <1>1 DEF PthreadTypeOK
<1>6. user[t] = <<user[t][1], b>>
  BY <1>1, <1>5
<1>7. t \notin Queuers /\ (b = "m" => t \in Givers) /\ (b # "m" => t \notin Givers)
  <2>1. user[t] # <<"P", "m">> /\ user[t] # <<"blocked", "m">>
    BY <1>1
  <2>2. b = "m" => user[t] = <<"V", "m">>
    BY <1>1, <1>6 DEF QueueInv
  <2>3. b # "m" => user[t] # <<"V", "m">>
    BY <1>6
  <2> QED
    BY Zenon, <2>1, <2>2, <2>3 DEF Queuers, Waits, Givers, UserAt
<1>8. CASE kqueue[b] = <<>>
  <2>1. /\ UserGoto(t, p, b) /\ ksem' = [ksem EXCEPT ![b] = ksem[b] + 1]
        /\ kqueue' = kqueue /\ held' = held
    BY Zenon, <1>2, <1>8 DEF SemV
  <2>2. /\ user' \in [Lockers -> Points \X Benaphores]
        /\ Queuers' = Queuers \ {t} /\ Givers' = Givers \ {t}
    BY ZenonT(60), <1>1, <1>3, <2>1, Moves
  <2>3. user[t][1] # "blocked"
    BY <1>1
  <2>4. QueueInv'
    BY Zenon, <1>1, <1>3, <1>4, <2>1, <2>3, QueuesStay
  <2>5. ksem' \in [Benaphores -> Nat]
    BY <1>1, <2>1 DEF PthreadTypeOK
  <2>6. PthreadTypeOK'
    BY Zenon, <1>1, <1>4, <2>1, <2>2, <2>5 DEF PthreadTypeOK
  <2>7. ASSUME ~tried PROVE TokenInv'
    <3>1. TokenInv /\ Queuers' = Queuers
      BY <1>7, <2>2, <2>7 DEF PthreadInv
    <3>2. CASE b = "c"
      <4>1. ksem'["m"] = ksem["m"] /\ Givers' = Givers
        BY Zenon, <1>1, <1>7, <2>1, <2>2, <3>2 DEF PthreadTypeOK, Benaphores
      <4> QED
        BY <1>4, <2>1, <3>1, <4>1, TokenStays
    <3>3. CASE b = "m"
      <4>1. t \in Givers /\ ksem'["m"] = ksem["m"] + 1
        BY <1>1, <1>7, <2>1, <3>3 DEF PthreadTypeOK
      <4>2. Mine' = Mine /\ InLine' = InLine /\ Given' = Given - 1 /\ Given # 0
        BY Zenon, <1>1, <2>1, <2>2, <3>1, <4>1, Numbers, Counts DEF Mine, InLine, Given
      <4>3. (Queuers \cap held)' = {}
        BY <2>1, <3>1 DEF TokenInv
      <4>4. /\ counter["m"] \in Int /\ ksem["m"] \in Nat
            /\ Mine \in Nat /\ InLine \in Nat /\ Given \in Nat
        BY Zenon, <1>1, Numbers
      <4>5. counter'["m"] = counter["m"]
        BY <1>4
      <4>6. /\ counter'["m"] + Mine' + InLine' = counter["m"] + Mine + InLine
            /\ Mine' \in Nat /\ InLine' \in Nat /\ Given' \in Nat /\ ksem'["m"] \in Nat /\ counter'["m"] \in Int
            /\ Mine' + Given' + ksem'["m"] = Mine + Given + ksem["m"]
        BY <4>1, <4>2, <4>4, <4>5
      <4> QED
        BY Zenon, <1>1, <3>1, <4>3, <4>5, <4>6, TokenMoves
    <3> QED
      BY Zenon, <3>2, <3>3 DEF Benaphores
  <2> QED
    BY <1>4, <2>4, <2>6, <2>7 DEF PthreadInv
<1>9. CASE kqueue[b] # <<>>
  <2>1. PICK w : w = Head(kqueue[b])
    OBVIOUS
  <2>2. /\ user' = [user EXCEPT ![t] = <<p, b>>, ![w] = <<"run", b>>] /\ held' = Acquired(b, w)
        /\ kqueue' = [kqueue EXCEPT ![b] = Tail(kqueue[b])] /\ ksem' = ksem
    BY <1>2, <1>9, <2>1 DEF SemV
  <2>3. kqueue \in [Benaphores -> Seq(Lockers)] /\ user \in [Lockers -> Points \X Benaphores]
    BY <1>1 DEF PthreadTypeOK
  <2>4. 1 \in 1..Len(kqueue[b]) /\ w = kqueue[b][1] /\ w \in Lockers
    BY <1>9, <2>1, <2>3
  <2>5. user[w] = <<"blocked", b>>
    BY Zenon, <1>1, <2>4 DEF QueueInv, UserAt
  <2>6. w # t
    BY <1>1, <2>5
  <2>7. /\ user' \in [Lockers -> Points \X Benaphores] /\ user'[t] = <<p, b>> /\ user'[w] = <<"run", b>>
        /\ \A u \in Lockers : u # t /\ u # w => user'[u] = user[u]
    <3>1. <<p, b>> \in Points \X Benaphores /\ <<"run", b>> \in Points \X Benaphores
      BY Zenon, <1>3 DEF Points
    <3> QED
      BY Zenon, <2>2, <2>3, <2>4, <2>6, <3>1
  <2>8. kqueue' \in [Benaphores -> Seq(Lockers)] /\ held' \in SUBSET Lockers
    <3>1. Tail(kqueue[b]) \in Seq(Lockers)
      BY <1>9, <2>3
    <3>2. kqueue' \in [Benaphores -> Seq(Lockers)]
      BY <2>2, <2>3, <3>1
    <3>3. held' \in SUBSET Lockers
      BY Zenon, <1>1, <2>2, <2>4 DEF PthreadTypeOK, Acquired
    <3> QED
      BY <3>2, <3>3
  <2>9. PthreadTypeOK'
    BY Zenon, <1>1, <1>4, <2>2, <2>7, <2>8 DEF PthreadTypeOK
  <2>10. ASSUME NEW a \in Benaphores, NEW i \in 1..Len(kqueue[a]), a # b \/ i # 1
         PROVE  user'[kqueue[a][i]] = <<"blocked", a>>
    <3>1. kqueue[a][i] \in Lockers
      BY <2>3
    <3>2. user[kqueue[a][i]] = <<"blocked", a>>
      BY Zenon, <1>1 DEF QueueInv, UserAt
    <3>3. kqueue[a][i] # t
      BY <1>1, <3>2
    <3>4. kqueue[a][i] # w
      <4>1. CASE a # b
        BY <2>5, <3>2, <4>1
      <4>2. CASE a = b
        BY Zenon, <1>1, <2>4, <2>10, <4>2 DEF QueueInv
      <4> QED
        BY <4>1, <4>2
    <3> QED
      BY Zenon, <2>7, <3>1, <3>2, <3>3, <3>4
  <2>11. ASSUME NEW a \in Benaphores, NEW i \in 1..Len(kqueue'[a])
         PROVE  /\ user'[kqueue'[a][i]] = <<"blocked", a>>
                /\ \A j \in 1..Len(kqueue'[a]) : kqueue'[a][i] = kqueue'[a][j] => i = j
    <3>1. CASE a # b
      <4>1. kqueue'[a] = kqueue[a]
        BY Zenon, <2>2, <2>3, <3>1
      <4> QED
        BY Zenon, <1>1, <2>10, <3>1, <4>1 DEF QueueInv
    <3>2. CASE a = b
      <4>1. kqueue'[b] = Tail(kqueue[b]) /\ kqueue[b] \in Seq(Lockers)
        BY Zenon, <2>2, <2>3
      <4>2. PICK n \in Nat : n = Len(kqueue[b])
        BY <4>1
      <4>3. n # 0 /\ Len(kqueue'[b]) = n - 1 /\ \A k \in 1..(n - 1) : kqueue'[b][k] = kqueue[b][k + 1]
        BY <1>9, <4>1, <4>2
      <4>4. \A k \in 1..(n - 1) : k + 1 \in 1..n /\ k + 1 # 1
        BY <4>2
      <4>5. \A k \in 1..n : k # 1 => user'[kqueue[b][k]] = <<"blocked", b>>
        BY <2>10, <4>2
      <4>6. \A k \in 1..n : \A j \in 1..n : kqueue[b][k] = kqueue[b][j] => k = j
        BY Zenon, <1>1, <4>2 DEF QueueInv
      <4>7. \A k \in 1..(n - 1) : \A j \in 1..(n - 1) : k + 1 = j + 1 => k = j
        BY <4>2
      <4>8. i \in 1..(n - 1)
        BY <3>2, <4>3
      <4>9. user'[kqueue'[b][i]] = <<"blocked", b>>
        BY Zenon, <4>3, <4>4, <4>5, <4>8
      <4>10. ASSUME NEW j \in 1..(n - 1), kqueue'[b][i] = kqueue'[b][j] PROVE i = j
        <5>1. kqueue[b][i + 1] = kqueue[b][j + 1]
          BY Zenon, <4>3, <4>8, <4>10
        <5>2. i + 1 = j + 1
          BY Zenon, <4>4, <4>6, <4>8, <5>1
        <5> QED
          BY Zenon, <4>7, <4>8, <5>2
      <4> QED
        BY Zenon, <3>2, <4>3, <4>9, <4>10
    <3> QED
      BY Zenon, <3>1, <3>2
  <2>12. \A u \in Lockers : user'[u][1] = "broadcastV" => user'[u][2] = "c"
    BY <1>1, <1>3, <2>7 DEF QueueInv
  <2>13. \A u \in Lockers : user'[u][1] = "undo" => tried'
    BY <1>1, <1>3, <1>4, <2>7 DEF QueueInv
  <2>14. QueueInv'
    BY Zenon, <2>11, <2>12, <2>13 DEF QueueInv, UserAt
  <2>15. Queuers' = Queuers \ {w} /\ Givers' = Givers \ {t}
    <3>1. \A u \in Lockers : u # t /\ u # w => (u \in Queuers' <=> u \in Queuers) /\ (u \in Givers' <=> u \in Givers)
      BY Zenon, <2>7 DEF Queuers, Waits, Givers, UserAt
    <3>2. /\ user'[t] # <<"P", "m">> /\ user'[t] # <<"blocked", "m">> /\ user'[t] # <<"V", "m">>
          /\ user'[w] # <<"P", "m">> /\ user'[w] # <<"blocked", "m">> /\ user'[w] # <<"V", "m">>
      BY <1>3, <2>7
    <3>3. t \notin Queuers' /\ t \notin Givers' /\ w \notin Queuers' /\ w \notin Givers'
      BY Zenon, <3>2 DEF Queuers, Waits, Givers, UserAt
    <3>4. w \notin Givers
      BY <2>5 DEF Givers, UserAt
    <3>5. Queuers \subseteq Lockers /\ Queuers' \subseteq Lockers /\ Givers \subseteq Lockers /\ Givers' \subseteq Lockers
      BY DEF Queuers, Waits, Givers
    <3> QED
      BY Zenon, <1>7, <3>1, <3>3, <3>4, <3>5
  <2>16. ASSUME ~tried PROVE TokenInv'
    <3>1. TokenInv
      BY <2>16 DEF PthreadInv
    <3>2. CASE b = "c"
      <4>1. held' = held /\ w \notin Queuers
        BY <2>2, <2>5, <3>2 DEF Acquired, Queuers, Waits, UserAt
      <4>2. Queuers' = Queuers /\ Givers' = Givers
        BY <1>7, <2>15, <3>2, <4>1
      <4> QED
        BY <1>4, <2>2, <3>1, <4>1, <4>2, TokenStays
    <3>3. CASE b = "m"
      <4>1. w \in Queuers /\ t \in Givers /\ held' = held \cup {w}
        BY Zenon, <1>7, <2>2, <2>4, <2>5, <3>3 DEF Acquired, Queuers, Waits, UserAt
      <4>2. w \in Lockers \ held
        BY Zenon, <2>4, <3>1, <4>1 DEF TokenInv
      <4>3. Mine' = Mine + 1 /\ InLine' = InLine - 1 /\ InLine # 0 /\ Given' = Given - 1 /\ Given # 0
        BY Zenon, <1>1, <2>15, <4>1, <4>2, Numbers, Counts DEF Mine, InLine, Given
      <4>4. (Queuers \cap held)' = {}
        BY <2>15, <3>1, <4>1 DEF TokenInv
      <4>5. /\ counter["m"] \in Int /\ ksem["m"] \in Nat
            /\ Mine \in Nat /\ InLine \in Nat /\ Given \in Nat
        BY Zenon, <1>1, Numbers
      <4>6. counter'["m"] = counter["m"] /\ ksem'["m"] = ksem["m"]
        BY <1>4, <2>2
      <4>7. /\ counter'["m"] + Mine' + InLine' = counter["m"] + Mine + InLine
            /\ Mine' \in Nat /\ InLine' \in Nat /\ Given' \in Nat /\ ksem'["m"] \in Nat /\ counter'["m"] \in Int
            /\ Mine' + Given' + ksem'["m"] = Mine + Given + ksem["m"]
        BY <4>3, <4>5, <4>6
      <4> QED
        BY Zenon, <1>1, <3>1, <4>4, <4>6, <4>7, TokenMoves
    <3> QED
      BY <3>2, <3>3 DEF Benaphores
  <2> QED
    BY <1>4, <2>9, <2>14, <2>16 DEF PthreadInv
<1> QED
  BY Zenon, <1>8, <1>9

\* A failed pthread_mutex_trylock lowers the counter for a while: from then on
\* nothing is claimed (MutexExclusive).
LEMMA StepTrylock ==
  ASSUME PthreadInv, NEW t \in Lockers, MutexTrylock(t)
  PROVE  PthreadInv'
<1>1. PthreadTypeOK /\ QueueInv /\ user[t][1] = "run" /\ t \notin held
  BY Zenon DEF PthreadInv, MutexTrylock, Running
<1>2. CASE counter["m"] > 0
  <2>1. BenaphoreP(t, "m")
    BY Zenon, <1>2 DEF MutexTrylock, BenaphoreP, Acquired
  <2>2. Running(t) /\ "m" \in Benaphores
    BY <1>1 DEF Running, Benaphores
  <2> QED
    BY <1>1, <2>1, <2>2, StepP
<1>3. CASE ~(counter["m"] > 0)
  <2>1. /\ counter' = [counter EXCEPT !["m"] = counter["m"] - 1] /\ UserGoto(t, "undo", "m") /\ tried' = TRUE
        /\ held' = held /\ ksem' = ksem /\ kqueue' = kqueue
    BY Zenon, <1>3 DEF MutexTrylock
  <2>2. "undo" \in Points /\ "m" \in Benaphores /\ user[t][1] # "blocked"
    BY <1>1 DEF Points, Benaphores
  <2>3. user' \in [Lockers -> Points \X Benaphores] /\ QueueInv'
    BY Zenon, <1>1, <2>1, <2>2, Moves, QueuesStay
  <2>4. counter' \in [Benaphores -> Int]
    <3>1. counter \in [Benaphores -> Int]
      BY <1>1 DEF PthreadTypeOK
    <3>2. counter["m"] - 1 \in Int
      BY <2>2, <3>1
    <3> QED
      BY Zenon, <2>1, <3>1, <3>2
  <2> QED
    BY Zenon, <1>1, <2>1, <2>3, <2>4 DEF PthreadInv, PthreadTypeOK
<1> QED
  BY <1>2, <1>3

\* The trylock takes its decrement back.
LEMMA StepUndo ==
  ASSUME PthreadInv, NEW t \in Lockers, TrylockUndo(t)
  PROVE  PthreadInv'
<1>1. PthreadTypeOK /\ QueueInv /\ user[t] = <<"undo", "m">>
  BY Zenon DEF PthreadInv, TrylockUndo, UserAt
<1>2. /\ counter' = [counter EXCEPT !["m"] = counter["m"] + 1] /\ UserGoto(t, "run", "m")
      /\ tried' = tried /\ held' = held /\ ksem' = ksem /\ kqueue' = kqueue
  BY DEF TrylockUndo
<1>3. "run" \in Points /\ "m" \in Benaphores /\ user[t][1] = "undo" /\ user[t][1] # "blocked"
  BY <1>1 DEF Points, Benaphores
<1>4. user' \in [Lockers -> Points \X Benaphores] /\ QueueInv'
  BY Zenon, <1>1, <1>2, <1>3, Moves, QueuesStay
<1>5. counter' \in [Benaphores -> Int] /\ tried
  BY <1>1, <1>2, <1>3 DEF PthreadTypeOK, QueueInv
<1> QED
  BY Zenon, <1>1, <1>2, <1>4, <1>5 DEF PthreadInv, PthreadTypeOK

\* The tests of pthread_cond_signal and pthread_cond_broadcast only move the
\* thread that makes them.
LEMMA StepTest ==
  ASSUME PthreadInv, NEW t \in Lockers, user[t][1] \in {"run", "broadcast"},
         NEW p \in {"run", "signal", "broadcast", "broadcast1"}, UserGoto(t, p, "c"),
         UNCHANGED <<counter, ksem, kqueue, held, tried>>
  PROVE  PthreadInv'
<1>1. PthreadTypeOK /\ QueueInv
  BY DEF PthreadInv
<1>2. /\ p \in Points /\ "c" \in Benaphores /\ "c" # "m" /\ p # "broadcastV" /\ p # "undo"
      /\ user[t][1] # "blocked" /\ user[t][1] \notin {"P", "blocked", "V"}
  BY DEF Points, Benaphores
<1>3. counter' = counter /\ ksem' = ksem /\ kqueue' = kqueue /\ held' = held /\ tried' = tried
  BY Zenon
<1>4. user' \in [Lockers -> Points \X Benaphores] /\ Queuers' = Queuers \ {t} /\ Givers' = Givers \ {t}
  BY Zenon, <1>1, <1>2, Moves
<1>5. QueueInv'
  <2>1. (p = "broadcastV" => "c" = "c") /\ (p = "undo" => tried') /\ (tried => tried')
    BY <1>2, <1>3
  <2> QED
    BY Zenon, <1>1, <1>2, <1>3, <2>1, QueuesStay
<1>6. PthreadTypeOK'
  BY Zenon, <1>1, <1>3, <1>4 DEF PthreadTypeOK
<1>7. Queuers' = Queuers /\ Givers' = Givers
  BY Zenon, <1>2, <1>4, Outside
<1>8. ASSUME ~tried' PROVE TokenInv'
  <2>1. ~tried
    BY <1>3, <1>8
  <2>2. TokenInv
    BY Zenon, <2>1 DEF PthreadInv
  <2> QED
    BY Zenon, <1>3, <1>7, <2>2, TokenStays
<1> QED
  BY Zenon, <1>5, <1>6, <1>8 DEF PthreadInv

\* Every step of the user library preserves the invariant.
LEMMA PthreadStep == PthreadInv /\ [PthreadNext]_pthreadVars => PthreadInv'
<1> SUFFICES ASSUME PthreadInv, [PthreadNext]_pthreadVars PROVE PthreadInv'
  BY Zenon
<1>0. "m" \in Benaphores /\ "c" \in Benaphores /\ "c" # "m"
  BY DEF Benaphores
<1>1. CASE UNCHANGED pthreadVars
  BY Zenon, <1>1 DEF pthreadVars, PthreadInv, PthreadTypeOK, QueueInv, TokenInv, Mine, Given, InLine,
     Queuers, Waits, Givers, UserAt
<1>2. ASSUME NEW t \in Lockers, MutexLock(t) PROVE PthreadInv'
  BY Zenon, <1>0, <1>2, StepP DEF MutexLock
<1>3. ASSUME NEW t \in Lockers, MutexTrylock(t) PROVE PthreadInv'
  BY <1>3, StepTrylock
<1>4. ASSUME NEW t \in Lockers, MutexUnlock(t) PROVE PthreadInv'
  <2>1. user[t][1] \in {"run", "signal", "broadcast1"} /\ "V" \in {"V", "broadcastV"}
    BY Zenon, <1>4 DEF MutexUnlock, Running
  <2> QED
    BY Zenon, <1>0, <1>4, <2>1, StepV DEF MutexUnlock
<1>5. ASSUME NEW t \in Lockers, CondWait(t) PROVE PthreadInv'
  BY Zenon, <1>0, <1>5, StepP DEF CondWait
<1>6. ASSUME NEW t \in Lockers, CondSignal(t) PROVE PthreadInv'
  <2>1. user[t][1] \in {"run", "broadcast"} /\ UNCHANGED <<counter, ksem, kqueue, held, tried>>
    BY Zenon, <1>6 DEF CondSignal, Running
  <2>2. CASE UserGoto(t, "signal", "c")
    BY Zenon, <2>1, <2>2, StepTest
  <2>3. CASE user' = user
    BY Zenon, <1>1, <2>1, <2>3 DEF pthreadVars
  <2> QED
    BY <1>6, <2>2, <2>3 DEF CondSignal
<1>7. ASSUME NEW t \in Lockers, CondBroadcast(t) PROVE PthreadInv'
  BY Zenon, <1>7, StepTest DEF CondBroadcast, Running
<1>8. ASSUME NEW t \in Lockers, NEW b \in Benaphores, SemP(t, b) PROVE PthreadInv'
  BY <1>8, StepSemP
<1>9. ASSUME NEW t \in Lockers, NEW b \in Benaphores, SemV(t, b) PROVE PthreadInv'
  BY <1>9, StepSemV
<1>10. ASSUME NEW t \in Lockers, TrylockUndo(t) PROVE PthreadInv'
  BY <1>10, StepUndo
<1>11. ASSUME NEW t \in Lockers, CondSignalV(t) PROVE PthreadInv'
  <2>1. user[t][1] \in {"run", "signal", "broadcast1"} /\ "V" \in {"V", "broadcastV"}
    BY <1>11 DEF CondSignalV, UserAt
  <2> QED
    BY Zenon, <1>0, <1>11, <2>1, StepV DEF CondSignalV
<1>12. ASSUME NEW t \in Lockers, CondBroadcastStep(t) PROVE PthreadInv'
  <2>1. CASE /\ UserAt(t, "broadcast", "c") /\ UNCHANGED <<counter, ksem, kqueue, held, tried>>
             /\ UserGoto(t, IF CondEmpty THEN "run" ELSE "broadcast1", "c")
    <3>1. user[t][1] \in {"run", "broadcast"}
      BY <2>1 DEF UserAt
    <3>2. PICK p \in {"run", "signal", "broadcast", "broadcast1"} : UserGoto(t, p, "c")
      BY <2>1
    <3> QED
      BY Zenon, <2>1, <3>1, <3>2, StepTest
  <2>2. CASE UserAt(t, "broadcast1", "c") /\ BenaphoreV(t, "c", "broadcastV") /\ UNCHANGED held
    <3>1. user[t][1] \in {"run", "signal", "broadcast1"} /\ "broadcastV" \in {"V", "broadcastV"}
      BY <2>2 DEF UserAt
    <3> QED
      BY Zenon, <1>0, <2>2, <3>1, StepV
  <2> QED
    BY <1>12, <2>1, <2>2 DEF CondBroadcastStep
<1> QED
  BY Zenon, <1>1, <1>2, <1>3, <1>4, <1>5, <1>6, <1>7, <1>8, <1>9, <1>10, <1>11, <1>12
     DEF PthreadNext, LibraryStep

\* As long as no pthread_mutex_trylock has failed, at most one thread is between
\* pthread_mutex_lock and pthread_mutex_unlock (pthread.h:27-60, pthread.cc:63-105),
\* for any number of threads.
THEOREM MutexExclusiveHolds == PthreadSpec => []MutexExclusive
<1>1. PthreadInit => PthreadInv
  <2> SUFFICES ASSUME PthreadInit PROVE PthreadInv
    OBVIOUS
  <2>1. /\ counter = [b \in Benaphores |-> IF b = "m" THEN 1 ELSE 0] /\ ksem = [b \in Benaphores |-> 0]
        /\ kqueue = [b \in Benaphores |-> <<>>] /\ user = [t \in Lockers |-> <<"run", "m">>]
        /\ held = {} /\ tried = FALSE
    BY DEF PthreadInit, BenaphoreInit
  <2>2. PthreadTypeOK
    <3>1. counter \in [Benaphores -> Int] /\ ksem \in [Benaphores -> Nat]
      BY <2>1
    <3>2. user \in [Lockers -> Points \X Benaphores]
      BY <2>1 DEF Points, Benaphores
    <3>3. kqueue \in [Benaphores -> Seq(Lockers)]
      BY <2>1
    <3> QED
      BY Zenon, <2>1, <3>1, <3>2, <3>3 DEF PthreadTypeOK
  <2>3. QueueInv
    BY <2>1 DEF QueueInv
  <2>4. Queuers = {} /\ Givers = {}
    BY <2>1 DEF Queuers, Waits, Givers, UserAt
  <2>5. Mine = 0 /\ InLine = 0 /\ Given = 0
    BY <2>1, <2>4, FS_EmptySet DEF Mine, InLine, Given
  <2>6. counter["m"] = 1 /\ ksem["m"] = 0
    BY <2>1 DEF Benaphores
  <2>7. TokenInv
    BY <2>1, <2>4, <2>5, <2>6 DEF TokenInv
  <2> QED
    BY <2>2, <2>3, <2>7 DEF PthreadInv
<1> QED
  BY <1>1, PthreadStep, OneHolds, PTL DEF PthreadSpec
=============================================================================
