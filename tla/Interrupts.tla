----------------------------- MODULE Interrupts -----------------------------
(***************************************************************************)
(* Interrupt handling behind the entry code (machine/Machine.cc): device   *)
(* interrupts are only noted in irqMask; the RTC interrupt, which the boot *)
(* processor gets 1024 times a second, wakes the interrupt thread, checks  *)
(* timeouts and sends PreemptIPI to the processors in turn; the interrupt  *)
(* thread (asyncIrqLoop) runs the registered handlers.                     *)
(*                                                                         *)
(* A handler of an interrupt runs with interrupts disabled and is one      *)
(* step.  Registration and deregistration are made by one thread; the      *)
(* interrupt thread runs beside it and is not locked out.                  *)
(***************************************************************************)
EXTENDS Naturals, Sequences, FiniteSets, SequencesExt

CONSTANTS Irqs,       \* interrupt numbers with a device, below MaxIrqCount
          Handlers,   \* handlers that drivers register
          Processors, \* number of processors
          ApicID,     \* ApicID[i + 1]: local APIC of processorTable[i]
          MaxWake     \* asyncIrqSem counts to here: more tokens only repeat empty rounds

\* An APIC id is used as an index into processorTable, so it must be one.
ASSUME InterruptAssumption ==
  /\ Irqs \subseteq 0 .. 191
  /\ Len(ApicID) = Processors /\ \A i \in 1 .. Processors : ApicID[i] \in 0 .. (Processors - 1)

VARIABLES irqMask,    \* interrupts noted and not served yet
          irqSem,     \* counter of asyncIrqSem
          loop,       \* the interrupt thread: [at, irq, node]
          handlers,   \* irqTable[i].handlers
          redirect,   \* IOAPIC: the vector of each pin, 0 if masked
          asserted,   \* pins whose device requests service
          rtcReady,   \* status register C has been read
          rtcTick,    \* RTC::currentTick, modulo the number of processors
          preempted,  \* processors with a PreemptIPI pending
          owed,       \* history: interrupts since the handlers last began
          unused,      \* handlers of drivers that have not been set up yet
          halted      \* the kernel has rebooted or was stopped

irqVars == <<irqMask, irqSem, loop, handlers, redirect, asserted, rtcReady, rtcTick,
             preempted, owed, unused, halted>>

AtP == [at |-> "P", irq |-> 0, node |-> "none"]

IrqInit ==
  /\ irqMask = {} /\ irqSem = 0 /\ loop = AtP
  /\ handlers = [i \in Irqs |-> << >>]
  /\ redirect = [i \in Irqs |-> 0]
  /\ asserted = {} /\ rtcReady = TRUE /\ rtcTick = 0
  /\ preempted = {} /\ owed = {} /\ unused = Handlers /\ halted = FALSE

(***************************************************************************)
(* Registration.                                                           *)
(***************************************************************************)
\* mapIrq: vector 0 masks the pin.
MapIrq(i, vector) == redirect' = [redirect EXCEPT ![i] = vector]

RegisterIrqAsync(i, h) ==
  /\ h \in unused /\ unused' = unused \ {h}
  /\ IF handlers[i] = << >> THEN MapIrq(i, i + 32) ELSE UNCHANGED redirect
  /\ handlers' = [handlers EXCEPT ![i] = Append(@, h)]
  /\ UNCHANGED <<irqMask, irqSem, loop, asserted, rtcReady, rtcTick, preempted, owed, halted>>

DeregisterIrqAsync(i, h) ==
  /\ h \in ToSet(handlers[i])
  /\ handlers' = [handlers EXCEPT ![i] = SelectSeq(@, LAMBDA x : x # h)]
  /\ IF handlers'[i] = << >> THEN MapIrq(i, 0) ELSE UNCHANGED redirect
  /\ UNCHANGED <<irqMask, irqSem, loop, asserted, rtcReady, rtcTick, preempted, owed, unused, halted>>

(***************************************************************************)
(* Interrupt handlers.                                                     *)
(***************************************************************************)
\* External: a device requests service.
DeviceRaises(i) ==
  /\ i \notin asserted /\ asserted' = asserted \cup {i}
  /\ UNCHANGED <<irqMask, irqSem, loop, handlers, redirect, rtcReady, rtcTick, preempted, owed, unused, halted>>

\* irq_handler_async: vector v stands for irq v - 0x20.
IrqHandlerAsync(i) ==
  /\ i \in asserted /\ redirect[i] # 0
  /\ asserted' = asserted \ {i}
  /\ irqMask' = irqMask \cup {redirect[i] - 32}
  /\ owed' = owed \cup {i}
  /\ UNCHANGED <<irqSem, loop, handlers, redirect, rtcReady, rtcTick, preempted, unused, halted>>

\* rrPreemptIPI looks up apicID twice, once itself and once in sendIPI, which
\* takes an index.
RRTarget(tick) ==
  LET idx == ApicID[(tick % Processors) + 1] IN ApicID[idx + 1]

IrqHandlerRTC_NoRead ==
  /\ rtcReady
  /\ rtcReady' = FALSE
  /\ rtcTick' = (rtcTick + 1) % Processors
  /\ irqSem' = IF irqMask # {} /\ irqSem < MaxWake THEN irqSem + 1 ELSE irqSem
  /\ preempted' = preempted \cup {RRTarget(rtcTick')}
  /\ UNCHANGED <<irqMask, loop, handlers, redirect, asserted, owed, unused, halted>>

\* irq_handler_0xf8.  V() counts; a waiting thread takes the token in LoopP.
IrqHandlerRTC ==
  /\ rtcReady
  /\ rtcReady' = TRUE
  /\ rtcTick' = (rtcTick + 1) % Processors
  /\ irqSem' = IF irqMask # {} /\ irqSem < MaxWake THEN irqSem + 1 ELSE irqSem
  /\ preempted' = preempted \cup {RRTarget(rtcTick')}
  /\ UNCHANGED <<irqMask, loop, handlers, redirect, asserted, owed, unused, halted>>

\* irq_handler_0xed: Scheduler::preempt.
IrqHandlerPreempt(p) ==
  /\ p \in preempted /\ preempted' = preempted \ {p}
  /\ UNCHANGED <<irqMask, irqSem, loop, handlers, redirect, asserted, rtcReady, rtcTick, owed, unused, halted>>

\* Every exception but a resolved page fault ends in Reboot, which stops all
\* processors.
ExceptionHandler ==
  /\ ~halted /\ halted' = TRUE
  /\ UNCHANGED <<irqMask, irqSem, loop, handlers, redirect, asserted, rtcReady, rtcTick, preempted, owed, unused>>

(***************************************************************************)
(* The interrupt thread.                                                   *)
(***************************************************************************)
LoopP ==
  /\ loop.at = "P" /\ irqSem > 0
  /\ irqSem' = irqSem - 1 /\ loop' = [loop EXCEPT !.at = "find"]
  /\ UNCHANGED <<irqMask, handlers, redirect, asserted, rtcReady, rtcTick, preempted, owed, unused, halted>>

\* The list node at which a walk over the handlers of i begins, and the one that
\* follows node.  After an erase of the node under the walk its successor is
\* read from freed memory: any node or the end.
FirstNode(i) == IF handlers[i] = << >> THEN "none" ELSE handlers[i][1]
NextNodes(i, node) ==
  LET k == {j \in 1 .. Len(handlers[i]) : handlers[i][j] = node}
  IN  IF k = {} THEN ToSet(handlers[i]) \cup {"none"}
      ELSE {IF j < Len(handlers[i]) THEN handlers[i][j + 1] ELSE "none" : j \in k}

LoopFind_ClearsLate ==
  /\ loop.at = "find"
  /\ LET i == CHOOSE j \in irqMask : \A k \in irqMask : j <= k
     IN  IF irqMask = {} THEN loop' = AtP /\ UNCHANGED owed
         ELSE /\ loop' = [at |-> "run", irq |-> i, node |-> FirstNode(i)]
              /\ owed' = owed \ {i}
  /\ UNCHANGED <<irqMask, irqSem, handlers, redirect, asserted, rtcReady, rtcTick, preempted, unused, halted>>

\* findset and clear; with nothing found the thread goes back to P.
LoopFind ==
  /\ loop.at = "find"
  /\ LET i == CHOOSE j \in irqMask : \A k \in irqMask : j <= k
     IN  IF irqMask = {} THEN loop' = AtP /\ UNCHANGED <<irqMask, owed>>
         ELSE /\ irqMask' = irqMask \ {i}
              /\ loop' = [at |-> "run", irq |-> i, node |-> FirstNode(i)]
              /\ owed' = owed \ {i}
  /\ UNCHANGED <<irqSem, handlers, redirect, asserted, rtcReady, rtcTick, preempted, unused, halted>>

LoopRun_Late ==
  /\ loop.at = "run"
  /\ IF loop.node = "none"
       THEN loop' = [loop EXCEPT !.at = "find"] /\ irqMask' = irqMask \ {loop.irq}
       ELSE /\ \E n \in NextNodes(loop.irq, loop.node) : loop' = [loop EXCEPT !.node = n]
            /\ UNCHANGED irqMask
  /\ UNCHANGED <<irqSem, handlers, redirect, asserted, rtcReady, rtcTick, preempted, owed, unused, halted>>

\* Calls the handler of one node.
LoopRun ==
  /\ loop.at = "run"
  /\ IF loop.node = "none"
       THEN loop' = [loop EXCEPT !.at = "find", !.irq = 0]
       ELSE \E n \in NextNodes(loop.irq, loop.node) : loop' = [loop EXCEPT !.node = n]
  /\ UNCHANGED <<irqMask, irqSem, handlers, redirect, asserted, rtcReady, rtcTick, preempted, owed, unused, halted>>

AsyncIrqLoop == LoopP \/ LoopFind \/ LoopRun

IrqNext ==
  /\ ~halted
  /\ \/ IrqHandlerRTC \/ AsyncIrqLoop \/ ExceptionHandler
     \/ \E i \in Irqs : DeviceRaises(i) \/ IrqHandlerAsync(i)
     \/ \E p \in 0 .. Processors - 1 : IrqHandlerPreempt(p)
     \/ \E i \in Irqs, h \in Handlers : RegisterIrqAsync(i, h) \/ DeregisterIrqAsync(i, h)

IrqSpec == IrqInit /\ [][IrqNext]_irqVars

(***************************************************************************)
(* Properties.                                                             *)
(***************************************************************************)

\* The interrupt thread finds every noted interrupt, although it is woken only
\* by the next tick of the clock; only a flood of interrupts with lower numbers,
\* which findset prefers, can keep it from one (Machine.cc:463-471, 1018).
IrqIsServed ==
  \A i \in Irqs : \/ i \in owed ~> i \notin owed \/ halted
                  \/ []<>(\E j \in owed : j < i)

\* The round-robin preemption reaches every processor again and again
\* (Machine.cc:455-457, 1020).
EveryCpuPreempted ==
  \A p \in 0 .. Processors - 1 : []<>(p \in preempted \/ halted)
=============================================================================
