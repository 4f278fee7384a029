---------------------------- MODULE MessageQueue ----------------------------
(***************************************************************************)
(* The message queue of SPCMessageQueue.m.  A dispatch writes a message to *)
(* the ring buffer and signals the execution thread, which asks the main   *)
(* thread to flush the queue; a flush copies one message after the other   *)
(* out of the buffer, under a lock, and runs its handler.                  *)
(*                                                                         *)
(* The operators are the steps of the operations; the module that uses the *)
(* queue has the threads that take them.  The ring buffer is the queue     *)
(* that RingBuffer implements: one step per message.                       *)
(***************************************************************************)
EXTENDS Naturals, SequencesExt

CONSTANT MaxSignals    \* bound: stopQueue signals no more than this ahead

ASSUME MessageQueueAssumption == MaxSignals \in Nat \ {0}

VARIABLES
  buffer,      \* the messages in the ring buffer
  thread,      \* _executionThread: nil, created, starting, executing, finished
  cancelled,   \* has it been cancelled?
  semaphore,   \* the signals it has not waited for yet
  loop,        \* where it is in main
  jobs         \* what has been posted to the main thread

mqVars == <<buffer, thread, cancelled, semaphore, loop, jobs>>
threadVars == <<thread, cancelled, loop>>

\* initWithName: the thread is created, not started.
InitQueue ==
  /\ buffer = <<>> /\ jobs = <<>>
  /\ thread = "created" /\ cancelled = FALSE /\ semaphore = 0 /\ loop = "test"

isRunning == thread = "executing"

-----------------------------------------------------------------------------
(* Start and stop.                                                         *)

startQueue ==
  /\ IF thread = "nil"
     THEN /\ thread' = "starting" /\ cancelled' = FALSE
          /\ semaphore' = 0 /\ loop' = "test"
     ELSE UNCHANGED <<threadVars, semaphore>>
  /\ UNCHANGED <<buffer, jobs>>

MutantCancel == UNCHANGED cancelled
Cancel == cancelled' = TRUE

CancelThread == Cancel /\ UNCHANGED <<buffer, thread, semaphore, loop, jobs>>

\* The thread may be waiting: it is signalled as long as it executes.
SignalStop ==
  /\ isRunning
  /\ semaphore < MaxSignals
  /\ semaphore' = semaphore + 1
  /\ UNCHANGED <<buffer, threadVars, jobs>>

DropThread ==
  /\ ~ isRunning
  /\ thread' = "nil"
  /\ UNCHANGED <<buffer, cancelled, semaphore, loop, jobs>>

-----------------------------------------------------------------------------
(* SPCMessageQueueDispatch: a message is written, then the thread, looked  *)
(* up a second time, is signalled.                                         *)

Write(message) ==
  /\ buffer' = Append(buffer, message)
  /\ UNCHANGED <<threadVars, semaphore, jobs>>

Signal ==
  /\ semaphore' = semaphore + 1
  /\ UNCHANGED <<buffer, threadVars, jobs>>

Post(job) ==
  /\ jobs' = Append(jobs, job)
  /\ UNCHANGED <<buffer, threadVars, semaphore>>

-----------------------------------------------------------------------------
(* main of the execution thread.                                           *)

\* The new thread begins some time after its start.
Begin ==
  /\ thread = "starting"
  /\ thread' = "executing"
  /\ UNCHANGED <<buffer, cancelled, semaphore, loop, jobs>>

TestCancelled ==
  /\ isRunning /\ loop = "test"
  /\ IF cancelled THEN thread' = "finished" /\ UNCHANGED loop
                  ELSE loop' = "wait" /\ UNCHANGED thread
  /\ UNCHANGED <<buffer, cancelled, semaphore, jobs>>

Wait ==
  /\ isRunning /\ loop = "wait"
  /\ semaphore > 0
  /\ semaphore' = semaphore - 1
  /\ loop' = "check"
  /\ UNCHANGED <<buffer, thread, cancelled, jobs>>

CheckPending ==
  /\ isRunning /\ loop = "check"
  /\ loop' = "test"
  /\ jobs' = IF buffer # <<>> THEN Append(jobs, "flush") ELSE jobs
  /\ UNCHANGED <<buffer, thread, cancelled, semaphore>>

ExecutionThread == Begin \/ TestCancelled \/ Wait \/ CheckPending

\* copyLastMessage
TakeMessage ==
  /\ buffer # <<>>
  /\ buffer' = Tail(buffer)
  /\ UNCHANGED <<threadVars, semaphore, jobs>>
=============================================================================
