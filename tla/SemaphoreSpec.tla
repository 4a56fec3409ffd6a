--------------------------- MODULE SemaphoreSpec ----------------------------
(***************************************************************************)
(* What the kernel's Semaphore promises: a number of tokens per semaphore; *)
(* V adds one, P takes one and returns true, or takes none and returns     *)
(* false (timeout, interruption).  A thread that is made to finish while   *)
(* it waits may take one token with it.                                    *)
(***************************************************************************)
EXTENDS Naturals

CONSTANTS Threads, Queues, InitCount, None

VARIABLES value,    \* tokens available
          outcome,  \* what the thread's last P returned
          giving,   \* the semaphore a thread is about to give a token to
          gone      \* finished threads

svars == <<value, outcome, giving, gone>>

SInit ==
  /\ value = [q \in Queues |-> InitCount]
  /\ outcome = [t \in Threads |-> FALSE]
  /\ giving = [t \in Threads |-> None]
  /\ gone = {}

Take(q) == value[q] > 0 /\ value' = [value EXCEPT ![q] = @ - 1]

PSucceeds(t, q) ==
  /\ t \notin gone
  /\ Take(q)
  /\ outcome' = [outcome EXCEPT ![t] = TRUE]
  /\ UNCHANGED <<giving, gone>>

PFails(t) ==
  /\ t \notin gone
  /\ outcome' = [outcome EXCEPT ![t] = FALSE]
  /\ UNCHANGED <<value, giving, gone>>

CallsV(t, q) ==
  /\ t \notin gone /\ giving[t] = None
  /\ giving' = [giving EXCEPT ![t] = q]
  /\ UNCHANGED <<value, outcome, gone>>

V(t, q) ==
  /\ giving[t] = q
  /\ giving' = [giving EXCEPT ![t] = None]
  /\ value' = [value EXCEPT ![q] = @ + 1]
  /\ UNCHANGED <<outcome, gone>>

Finish(t) ==
  /\ t \notin gone
  /\ gone' = gone \cup {t}
  /\ UNCHANGED value \/ \E q \in Queues : Take(q)
  /\ UNCHANGED <<outcome, giving>>

SNext ==
  \/ \E t \in Threads : PFails(t) \/ Finish(t)
  \/ \E t \in Threads, q \in Queues : PSucceeds(t, q) \/ CallsV(t, q) \/ V(t, q)

SSpec == SInit /\ [][SNext]_svars
=============================================================================
