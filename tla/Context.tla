------------------------------ MODULE Context -------------------------------
(***************************************************************************)
(* Saving and restoring execution contexts in assembly code: interrupt     *)
(* wrappers (machine/isr_wrapper.S, generic/regsave.h) and the table of    *)
(* vectors that leads to them, thread start and switch (runtime/Stack.S),  *)
(* system calls (ulib/syscallStub.S, machine/syscall_wrapper.S), and the   *)
(* debugger's entry and exit (gdb/GdbAsm.S).                               *)
(*                                                                         *)
(* A register file maps register names to values; a stack is a sequence    *)
(* with its top at the end.  In a behaviour one interrupt or exception     *)
(* strikes.                                                                *)
(***************************************************************************)
EXTENDS Naturals, Sequences, SequencesExt

VARIABLES vector   \* of the interrupt or exception that has struck, or NoVector

(***************************************************************************)
(* Registers and stacks.                                                   *)
(***************************************************************************)
CallerSaved == {"rax", "rcx", "rdx", "rdi", "rsi", "r8", "r9", "r10", "r11"}
Registers == CallerSaved \cup {"rbx", "rbp", "r12", "r13", "r14", "r15"}

Push(stack, file, regs) == stack \o [i \in DOMAIN regs |-> file[regs[i]]]
\* The file after popping regs, first register first.
Pop(stack, file, regs) ==
  [r \in Registers |->
     IF r \in ToSet(regs)
       THEN stack[Len(stack) + 1 - CHOOSE i \in DOMAIN regs : regs[i] = r] ELSE file[r]]
Drop(stack, n) == SubSeq(stack, 1, Len(stack) - n)
\* movq instructions, in order: <<from, to>>.
Moves(file, pairs) == FoldLeft(LAMBDA f, p : [f EXCEPT ![p[2]] = f[p[1]]], file, pairs)
\* External: what a compiled function may do to the registers.
Call(file) == [r \in Registers |-> IF r \in CallerSaved THEN "junk" ELSE file[r]]

Fresh == [r \in Registers |-> r]

(***************************************************************************)
(* Vectors.                                                                *)
(***************************************************************************)
Plain     == 0 .. 7 \cup {9, 16} \cup 18 .. 20
ErrCode   == {8, 17} \cup 10 .. 14
Async     == 32 .. 223
Direct    == {224} \cup 237 .. 240 \cup 247 .. 249 \cup {252, 255}
Undefined == (0 .. 255) \ (Plain \cup ErrCode \cup Async \cup Direct)

\* External: vectors for which the processor pushes an error code.
HardwareError == {8, 17} \cup 10 .. 14

\* Handlers of exceptions end in Reboot, except for page faults that
\* Paging::fault resolves; those of interrupts return.
Returns_Nmi(v, resolved) == v \in Async \cup (Direct \ {239}) \/ v = 2 \/ (v = 14 /\ resolved)
Returns(v, resolved) == v \in Async \cup (Direct \ {239}) \/ (v = 14 /\ resolved)

\* setupIDTable: stacks of their own, by index into the TSS.
Ist(v) == CASE v = 2 -> 1 [] v = 8 -> 2 [] v = 12 -> 3 [] v = 14 -> 4 [] OTHER -> 0
\* initGdb replaces these.
GdbVectors == 0 .. 14 \cup {16, 239}
\* Processor::init: all four stacks are one.
FaultStack(ist) == IF ist = 0 THEN "current" ELSE "fault"

(***************************************************************************)
(* Interrupt wrappers.                                                     *)
(***************************************************************************)
IretFrame == <<"ss", "rsp", "rflags", "cs", "rip">>
HardwareFrame(v) == IretFrame \o IF v \in HardwareError THEN <<"error">> ELSE << >>

ISR_PUSH == <<"rax", "rcx", "rdx", "rdi", "rsi", "r8", "r9", "r10", "r11">>
ISR_POP == <<"r11", "r10", "r9", "r8", "rsi", "rdi", "rdx", "rcx", "rax">>

Offset_None(v) == 0
Offset(v) == IF v \in ErrCode THEN 1 ELSE 0

\* The stack when the handler is called, and its arguments.
ISR_ENTRY(stack, file) == Push(stack, file, ISR_PUSH)
IsrFrame(v, stack) == Len(stack) - 9 - Offset(v)   \* lea ISRFRAME+offset(%rsp)
IsrArgument(v, stack) ==
  CASE v \in ErrCode   -> stack[Len(stack) - 9]
    [] v \in Async     -> v - 32
    [] v \in Undefined -> v
    [] OTHER           -> "none"
\* The registers and the stack when iretq executes.
ISR_EXIT(v, stack, file) ==
  [file |-> Pop(stack, file, ISR_POP), stack |-> Drop(stack, 9 + Offset(v))]

(***************************************************************************)
(* Thread start and switch.                                                *)
(***************************************************************************)
STACK_PUSH == <<"r15", "r14", "r13", "r12", "rbx", "rbp">>
STACK_POP  == <<"rbp", "rbx", "r12", "r13", "r14", "r15">>

StackInit_Args(ctx, func, arg1, arg2, arg3) ==
  <<"unused", "stubInit", arg1, arg2, arg3, func, ctx, 0>>
\* From -8(stack) down to -64(stack).
StackInit(ctx, func, arg1, arg2, arg3) ==
  <<"unused", "stubInit", arg3, arg2, arg1, func, ctx, 0>>

\* stackSwitch: the stack left behind, the registers loaded, the return address
\* that postSwitch finds.  postSwitch returns prevThread in rax.
StackSwitch(file, next) ==
  LET popped == Pop(next, file, STACK_POP)
  IN  [saved |-> Push(<<"caller">>, file, STACK_PUSH),
       file  |-> [Call(popped) EXCEPT !["rax"] = file["rdi"]],
       ret   |-> Drop(next, 6)[Len(next) - 6]]

StubInitMoves == << <<"rax", "rdi">>, <<"rbx", "rsi">>, <<"r12", "rdx">>,
               <<"r13", "rcx">>, <<"r14", "r8">>, <<"r15", "r9">> >>

StackDirect == << <<"rsi", "rax">>, <<"rdx", "rdi">>, <<"rcx", "rsi">>,
                  <<"r8", "rdx">>, <<"r9", "rcx">> >>

Arguments(file) == [i \in 1 .. 6 |-> file[<<"rdi", "rsi", "rdx", "rcx", "r8", "r9">>[i]]]

(***************************************************************************)
(* System calls.                                                           *)
(***************************************************************************)
\* External: the instruction keeps the return address and flags in registers.
Syscall(file) == [file EXCEPT !["rcx"] = "rip", !["r11"] = "rflags"]

\* syscallStub up to the instruction, then the wrapper up to syscall_handler.
SyscallStub_NoSave(file) == Syscall(file)
SyscallStub(file) == Syscall(Moves(file, << <<"rcx", "r10">> >>))
SyscallWrapper(file) == Moves([file EXCEPT !["rax"] = "user rsp"], << <<"r10", "rcx">> >>)
\* What the wrapper keeps on the kernel stack, and the state at sysretq.
SyscallReturn(entered, file) ==
  LET stack == Push(Push(Push(<< >>, SyscallWrapper(entered), <<"rax">>), entered, <<"r11">>),
                    entered, <<"rcx">>)
  IN  Pop(stack, Call(file), <<"rcx", "r11", "r10">>)

(***************************************************************************)
(* Debugger.                                                               *)
(***************************************************************************)
\* catchException and enterGdb: getGdbCpu is called after rdi, rsi and rax are
\* on the stack; the remaining registers are stored after it.
GdbEntry(v, file) ==
  LET stack == Push(HardwareFrame(v), file, <<"rdi", "rsi">>)
      file2 == [Call(file) EXCEPT !["rax"] = file["rax"]]
      n     == Len(stack)
  IN  [file  |-> [file2 EXCEPT !["rsi"] = stack[n], !["rdi"] = stack[n - 1]],
       frame |-> [i \in 1 .. 5 |-> stack[n - 1 - i]]]
\* resumeExecution builds the frame for iretq.
GdbResume_Order(buffer) == [file |-> buffer.file, stack |-> buffer.frame]
GdbResume(buffer) == [file |-> buffer.file, stack |-> Reverse(buffer.frame)]

Vectors == 0 .. 255
NoVector == 256
ContextInit == vector = NoVector
ContextNext == vector = NoVector /\ vector' \in Vectors

(***************************************************************************)
(* Properties.                                                             *)
(***************************************************************************)
\* An interrupt or exception is invisible to the code it strikes: its handler
\* gets the address of rip and, if the processor pushed one, the error code, or the
\* number of the interrupt; all registers come back and iretq finds its frame
\* (isr_wrapper.S:20-68, regsave.h:33-55).
IsrTransparent ==
  vector \in Vectors =>
    LET stack == ISR_ENTRY(HardwareFrame(vector), Fresh)
        done  == ISR_EXIT(vector, stack, Call(Fresh))
        frame == IsrFrame(vector, stack)
    IN  /\ stack[frame] = "rip" /\ stack[frame - 1] = "cs"
        /\ vector \in HardwareError => IsrArgument(vector, stack) = "error"
        /\ vector \in Async => IsrArgument(vector, stack) = vector - 32
        /\ done.file = Fresh /\ done.stack = IretFrame

\* A new thread starts in invokeThread with the arguments it was made with, and a
\* thread that is switched out finds its registers when it is switched back in
\* (Stack.S:22-72).
ThreadStartExact ==
  vector \in Vectors =>
    LET new    == StackSwitch(Fresh, StackInit("ctx", "func", "arg1", "arg2", "arg3"))
        start  == Moves(new.file, StubInitMoves)
        back   == StackSwitch(Call(Fresh), new.saved)
        direct == Moves(Fresh, StackDirect)
    IN  /\ new.ret = "stubInit"
        /\ Arguments(start) = <<"rdi", "ctx", "func", "arg1", "arg2", "arg3">>
        /\ back.ret = "caller" /\ \A r \in Registers \ CallerSaved : back.file[r] = r
        /\ direct["rax"] = "rsi" /\ SubSeq(Arguments(direct), 1, 4) = <<"rdx", "rcx", "r8", "r9">>

\* syscall_handler gets the arguments of the caller of syscallStub, although the
\* instruction overwrites rcx, and sysretq finds the return address, the flags
\* and the user stack (syscallStub.S:23-28, syscall_wrapper.S:23-40).
SyscallArguments ==
  vector \in Vectors =>
    LET entered == SyscallStub(Fresh)
        out     == SyscallReturn(entered, SyscallWrapper(entered))
    IN  /\ Arguments(SyscallWrapper(entered)) = Arguments(Fresh)
        /\ out["rcx"] = "rip" /\ out["r11"] = "rflags" /\ out["r10"] = "user rsp"

\* The debugger resumes a stopped program where it was, with its stack; registers
\* that a call of getGdbCpu may overwrite are not covered, nor the two vectors
\* with an error code that catchException leaves on the stack (GdbAsm.S:161-173,
\* 11-89).
GdbTransparent ==
  vector \in GdbVectors \ ErrCode =>
    LET done == GdbResume(GdbEntry(vector, Fresh))
    IN  /\ \A r \in (Registers \ CallerSaved) \cup {"rax", "rdi", "rsi"} : done.file[r] = r
        /\ done.stack = IretFrame

\* Four exceptions share one stack on a processor.  At most one of any two that
\* do returns to the code it struck, so that a frame one of them overwrites is
\* one that is not needed any more (Processor.cc:74-77, Machine.cc:543-557).
FaultStackShared ==
  vector \in Vectors => \A w \in Vectors \ {vector} :
    FaultStack(Ist(vector)) = "fault" /\ FaultStack(Ist(w)) = "fault"
      => ~(Returns(vector, TRUE) /\ Returns(w, TRUE))

\* Whichever way a processor leaves the code it runs (an interrupt, a system
\* call, a switch of threads, the debugger), it comes back to it with the
\* registers and the stack it had, and what it goes to gets its arguments.
SavedIsRestored ==
  IsrTransparent /\ ThreadStartExact /\ SyscallArguments /\ GdbTransparent /\ FaultStackShared
=============================================================================
