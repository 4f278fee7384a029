------------------------ MODULE RealTimeMessageQueue ------------------------
(***************************************************************************)
(* The real-time message queue of SPCRealTimeMessageQueue.m with its       *)
(* response queue (MessageQueue).  Blocks are written to a ring buffer,    *)
(* run by the real-time thread, answered by a response block on the main   *)
(* thread, and released there.  While the response queue is not running    *)
(* the main thread does the exchange; a synchronous call that gets no      *)
(* answer in time does it itself.                                          *)
(*                                                                         *)
(* The application: the main thread starts and stops the response queue,   *)
(* the real-time thread runs in between if the queue does.  Threads may    *)
(* dispatch blocks before the start, too, and nothing but time keeps the   *)
(* threads out of each other's way: whether they met is recorded.          *)
(***************************************************************************)
EXTENDS MessageQueue, FiniteSets

CONSTANTS RT,       \* the real-time thread
          Main,     \* the main thread
          Caller,   \* the threads that dispatch a block: it bears their name
          MaxJobs   \* bound: with so many jobs posted the queue is not started again

ASSUME CallerAssumption == RT # Main /\ RT \notin Caller /\ MaxJobs \in Nat

Thread == Caller \cup {RT, Main}

VARIABLES
  written,    \* every block ever written to the message buffer
  tail,       \* how many of them have been marked as read
  lock,       \* the caller inside @synchronized (self), or no one: {}
  active,     \* does the real-time thread process messages?
  ran,        \* history: the blocks in the order they were run,
  responded,  \*   and answered,
  released,   \*   and released
  my,         \* my[t]: where thread t is
  events      \* history: what has happened that order may depend on

state == <<mqVars, written, tail, lock, active, ran, responded, released, my>>
vars == <<state, events>>
history == <<ran, responded, released>>

\* then: where to go on after a flush; from .. to: the batch; out: the messages
\* to dispatch; in: the message to handle.
Resting(pc) == [pc |-> pc, then |-> "done", from |-> 1, to |-> 0, out |-> <<>>, in |-> <<>>]

At(t, pc) == my[t].pc = pc

Goto(t, pc) == my' = [my EXCEPT ![t].pc = pc]

\* Steps that leave the message buffer and its callers alone.
Keep == UNCHANGED <<written, lock, active>>

-----------------------------------------------------------------------------
(* The application on the main thread.                                     *)

Start ==
  /\ At(Main, "setup")
  /\ Len(jobs) <= MaxJobs
  /\ startQueue
  /\ Goto(Main, "started")
  /\ Keep /\ UNCHANGED <<tail, history>>

\* The real-time thread is set going if the response queue has been started,
\* whether or not its thread has begun.
Enter ==
  /\ At(Main, "setup") \/ At(Main, "started")
  /\ active' = (thread \in {"starting", "executing"})
  /\ Goto(Main, "idle")
  /\ UNCHANGED <<mqVars, written, tail, lock, history>>

\* The calls are over, the response queue is stopped, and what is left in it
\* flushed.  The real-time thread begins no other batch.
Leave ==
  /\ At(Main, IF Main \in Caller THEN "done" ELSE "idle")
  /\ \A t \in Caller : At(t, "done")
  /\ active' = FALSE
  /\ my' = [my EXCEPT ![Main] = [@ EXCEPT !.pc = "stop", !.then = "end"]]
  /\ UNCHANGED <<mqVars, written, tail, lock, history>>

\* stopQueue, called where Main is: the thread is cancelled, if there is one.
Stop(pc, stopping, after) ==
  /\ At(Main, pc)
  /\ IF thread = "nil" THEN Goto(Main, after) /\ UNCHANGED mqVars
                       ELSE Goto(Main, stopping) /\ CancelThread
  /\ Keep /\ UNCHANGED <<tail, history>>

Stopping(stopping, after) ==
  /\ At(Main, stopping)
  /\ \/ SignalStop /\ UNCHANGED my
     \/ DropThread /\ Goto(Main, after)
  /\ Keep /\ UNCHANGED <<tail, history>>

\* The main thread takes what was posted to it.
TakeJob ==
  /\ my[Main].pc \in {"setup", "started", "idle", "done", "end"}
  /\ jobs # <<>>
  /\ jobs' = Tail(jobs)
  /\ my' = [my EXCEPT ![Main].then = my[Main].pc,
                      ![Main].pc = IF Head(jobs) = "flush" THEN "flush" ELSE "process"]
  /\ UNCHANGED <<buffer, threadVars, semaphore>>
  /\ Keep /\ UNCHANGED <<tail, history>>

-----------------------------------------------------------------------------
(* SPCRealTimeMessageQueueProccessMessages by thread t.                    *)

\* More blocks have been marked as read than written once two threads did it: the
\* count of the bytes to read is wrong then.
GetForRead(t) ==
  /\ At(t, "process") \/ (t = RT /\ active /\ At(RT, "idle") /\ tail # Len(written))
  /\ IF tail <= Len(written)
     THEN my' = [my EXCEPT ![t].pc = "next", ![t].from = tail + 1, ![t].to = Len(written)]
     ELSE Goto(t, "fault")
  /\ UNCHANGED <<mqVars, tail, history>> /\ Keep

MutantAnswers(b) == <<<<"release", b>>, <<"respond", b>>>>
\* What is dispatched for a block that has run.
Answers(b) == <<<<"respond", b>>, <<"release", b>>>>

MutantMarkRead(t) == tail + my[t].to - my[t].from + 1
\* The block is marked as read before it is run.
MarkRead(t) == tail + 1

TakeBlock(t) ==
  /\ At(t, "next") /\ my[t].from <= my[t].to
  /\ tail' = MarkRead(t)
  /\ my' = [my EXCEPT ![t].pc = "run", ![t].from = @ + 1]
  /\ UNCHANGED <<mqVars, history>> /\ Keep

\* It has been run.
Run(t) ==
  /\ At(t, "run")
  /\ LET b == written[my[t].from - 1]
     IN /\ ran' = Append(ran, b)
        /\ my' = [my EXCEPT ![t].pc = "write", ![t].out = Answers(b)]
  /\ UNCHANGED <<mqVars, tail, responded, released>> /\ Keep

MutantAfterBatch(t) == "flush"
\* Other threads than the real-time thread go on to flush.
AfterBatch(t) == IF t = RT THEN "idle" ELSE "flush"

\* The batch is done.
EndBatch(t) ==
  /\ At(t, "next") /\ my[t].from > my[t].to
  /\ Goto(t, AfterBatch(t))
  /\ UNCHANGED <<mqVars, tail, history>> /\ Keep

Dispatch(t) ==
  /\ At(t, "write")
  /\ Write(Head(my[t].out))
  /\ my' = [my EXCEPT ![t].pc = "check", ![t].out = Tail(@)]
  /\ UNCHANGED <<tail, history>> /\ Keep

AfterDispatch(t) == IF my[t].out = <<>> THEN "next" ELSE "write"

MutantCheckThread(t) ==
  At(t, "check") /\ Goto(t, "signal") /\ UNCHANGED <<mqVars, tail, history>> /\ Keep

CheckThread(t) ==
  /\ At(t, "check")
  /\ Goto(t, IF thread = "nil" THEN AfterDispatch(t) ELSE "signal")
  /\ UNCHANGED <<mqVars, tail, history>> /\ Keep

\* The thread may have been dropped in between.
SignalThread(t) ==
  /\ At(t, "signal")
  /\ IF thread = "nil" THEN Goto(t, "fault") /\ UNCHANGED mqVars
                       ELSE Signal /\ Goto(t, AfterDispatch(t))
  /\ UNCHANGED <<tail, history>> /\ Keep

-----------------------------------------------------------------------------
(* flushQueue by thread t.                                                 *)

CopyLastMessage(t) ==
  /\ At(t, "flush")
  /\ IF buffer = <<>>
     THEN Goto(t, my[t].then) /\ UNCHANGED mqVars
     ELSE TakeMessage /\ my' = [my EXCEPT ![t].pc = "handle", ![t].in = Head(buffer)]
  /\ UNCHANGED <<tail, history>> /\ Keep

Handle(t) ==
  /\ At(t, "handle")
  /\ IF my[t].in[1] = "respond"
     THEN responded' = Append(responded, my[t].in[2]) /\ UNCHANGED released
     ELSE released' = Append(released, my[t].in[2]) /\ UNCHANGED responded
  /\ my' = [my EXCEPT ![t].pc = "flush", ![t].in = <<>>]
  /\ UNCHANGED <<mqVars, tail, ran>> /\ Keep

-----------------------------------------------------------------------------
(* dispatchAsynchronously and dispatchSynchronously by thread t.           *)

WriteBlock(t, synchronous) ==
  /\ t \in Caller /\ At(t, "idle")
  /\ lock = {}
  /\ lock' = {t}
  /\ written' = Append(written, t)
  /\ my' = [my EXCEPT ![t].pc = "written", ![t].then = IF synchronous THEN "wait" ELSE "done"]
  /\ UNCHANGED <<mqVars, tail, active, history>>

MutantOnline == thread # "nil"
Online == isRunning

\* If the response queue is not running, the main thread does the exchange.
CheckOnline(t) ==
  /\ At(t, "written")
  /\ IF Online THEN UNCHANGED mqVars ELSE Post("process")
  /\ lock' = {}
  /\ Goto(t, my[t].then)
  /\ UNCHANGED <<written, tail, active, history>>

MutantFinished(t) == \E m \in ToSet(buffer) : m[2] = t
Finished(t) == t \in ToSet(responded)

Return(t) ==
  /\ At(t, "wait") /\ Finished(t)
  /\ my' = [my EXCEPT ![t].pc = "done", ![t].then = "done"]
  /\ UNCHANGED <<mqVars, tail, history>> /\ Keep

\* One round of the wait: the main thread flushes the queue itself, another
\* thread asks for it (when nothing else is asked for: a bound).
Poll(t) ==
  /\ At(t, "wait") /\ ~ Finished(t)
  /\ IF t = Main THEN buffer # <<>> /\ Goto(t, "flush") /\ UNCHANGED mqVars
                 ELSE jobs = <<>> /\ Post("flush") /\ UNCHANGED my
  /\ UNCHANGED <<tail, history>> /\ Keep

\* The time is up: the caller does the exchange itself.
GiveUp(t) ==
  /\ At(t, "wait") /\ ~ Finished(t)
  /\ lock = {}
  /\ lock' = {t}
  /\ my' = [my EXCEPT ![t].pc = "process", ![t].then = "unlock"]
  /\ UNCHANGED <<mqVars, written, tail, active, history>>

Unlock(t) ==
  /\ At(t, "unlock")
  /\ lock' = {}
  /\ my' = [my EXCEPT ![t].pc = "done", ![t].then = "done"]
  /\ UNCHANGED <<mqVars, written, tail, active, history>>

-----------------------------------------------------------------------------
(* History.                                                                *)

Exchange == {"next", "run", "write", "check", "signal", "fault"}
Flushing == {"flush", "handle"}

\* Are two threads at once in the same operation, which is made for one?
Both(pcs) ==
  \E s, t \in Thread : s # t /\ my[s].pc \in pcs /\ my[t].pc \in pcs

\* What a step may add to the events.
\* A call gives up, but for one of the main thread that would have to wait for itself.
Late == \E t \in Caller : At(t, "wait") /\ my'[t].pc = "process" /\ (t # Main \/ active)

\* The main thread has been asked for an exchange, and the real-time thread does it too.
Early == (active /\ "process" \in ToSet(jobs))'

\* The response queue is stopped while the real-time thread or a block is not done.
Stopped ==
  \/ /\ my'[Main].pc = "stop" /\ my[Main].pc # "stop"
     /\ ~ At(RT, "idle") \/ (active /\ tail < Len(written))
  \/ thread = "finished" /\ thread' = "nil" /\ tail < Len(written)

\* Two threads are in the exchange, or in a flush.
Met == (Both(Exchange) \/ Both(Flushing))'

Faulted == \E t \in Thread : At(t, "fault")

Event(name, happens) == IF happens THEN {name} ELSE {}

Record ==
  events' = events \cup Event("late", Late) \cup Event("early", Early)
                   \cup Event("stopped", Stopped) \cup Event("met", Met)

\* Bound: nothing is checked of what comes after two threads have met or one has
\* accessed memory that is not there.
Apart == "met" \notin events /\ ~ Faulted

\* Bound: a queue that has got its thread running is not stopped again before the end.
StartedOnce == At(Main, "restarting") => thread \in {"created", "nil"}

-----------------------------------------------------------------------------
Init ==
  /\ InitQueue
  /\ written = <<>> /\ tail = 0 /\ lock = {} /\ active = FALSE
  /\ ran = <<>> /\ responded = <<>> /\ released = <<>>
  /\ my = [t \in Thread |-> Resting(IF t = Main THEN "setup" ELSE "idle")]
  /\ events = {}

Continue(t) ==
  \/ GetForRead(t) \/ TakeBlock(t) \/ Run(t) \/ EndBatch(t)
  \/ Dispatch(t) \/ CheckThread(t) \/ SignalThread(t)
  \/ CopyLastMessage(t) \/ Handle(t)
  \/ CheckOnline(t) \/ Return(t) \/ Poll(t) \/ GiveUp(t) \/ Unlock(t)

\* What the main thread goes on to do.
Service ==
  \/ TakeJob
  \/ Stopping("restarting", "setup")
  \/ Stop("stop", "stopping", "flush") \/ Stopping("stopping", "flush")

ExecutionStep ==
  ExecutionThread /\ UNCHANGED <<written, tail, lock, active, history, my>>

Step ==
  \/ Start \/ Enter \/ Leave
  \/ Stop("setup", "restarting", "setup") \/ Stop("started", "restarting", "setup")
  \/ Service
  \/ \E t \in Caller, synchronous \in BOOLEAN : WriteBlock(t, synchronous)
  \/ \E t \in Thread : Continue(t)
  \/ ExecutionStep

Next == Step /\ Record

Spec == Init /\ [][Next]_vars

\* Every thread runs, the application gets through its set-up, and the real-time
\* thread keeps processing.
FairSpec ==
  /\ Spec
  /\ \A t \in Thread : WF_state(Continue(t))
  /\ SF_state(Enter) /\ WF_state(Service) /\ WF_state(ExecutionStep)

-----------------------------------------------------------------------------
(* Properties.                                                             *)

Message == {"respond", "release"} \X Caller

\* Every variable has its type, and unless two threads met no more blocks are marked as
\* read than have been written.
TypeOK ==
  /\ buffer \in Seq(Message) /\ jobs \in Seq({"flush", "process"})
  /\ thread \in {"nil", "created", "starting", "executing", "finished"}
  /\ cancelled \in BOOLEAN /\ semaphore \in Nat /\ loop \in {"test", "wait", "check"}
  /\ {written, ran, responded, released} \subseteq Seq(Caller)
  /\ tail \in Nat /\ ("met" \notin events => tail <= Len(written))
  /\ lock \subseteq Caller /\ active \in BOOLEAN
  /\ \A t \in Thread : my[t].out \in Seq(Message)
  /\ events \subseteq {"late", "early", "stopped", "met"}

\* Unless two threads met in it, each block is run once, in the order in which the
\* blocks were written; only then answered, once; only then released, once.
InOrder ==
  "met" \notin events =>
    /\ IsPrefix(ran, written) /\ IsPrefix(responded, ran) /\ IsPrefix(released, responded)

\* Unless two threads met, a synchronous call returns only after its block has been
\* run and answered, whether it waits for it or gives up waiting.
SyncAfterRun ==
  [][\A t \in Caller : my[t].pc \in {"wait", "unlock"} /\ my'[t].pc = "done"
       => "met" \in events \/ (t \in ToSet(ran) /\ t \in ToSet(responded))]_vars

\* Two threads meet in the exchange or in a flush only after a call has given up or
\* the real-time thread has been set going too early.
Exclusive == "met" \in events => {"late", "early"} \cap events # {}

\* Whether the response queue runs, was never started or has been stopped, a
\* block that has been written is run, answered and released in the end, unless
\* threads met or the application left with work to do.
Served ==
  []<>(ToSet(written) \subseteq ToSet(released) \/ {"met", "stopped"} \cap events # {} \/ Faulted)

\* No thread signals an execution thread that is gone, although it looks it up twice
\* and the main thread may drop it in between, unless one of the three has happened.
NoFault ==
  Faulted => {"late", "early", "stopped"} \cap events # {}

\* A synchronous call returns only after its block has been run (what the header says).
SyncRuns ==
  [][\A t \in Caller : my[t].pc \in {"wait", "unlock"} /\ my'[t].pc = "done"
       => t \in ToSet(ran)]_vars

\* Each block is run once, in the order in which the blocks were written.
RunsOnce == IsPrefix(ran, written)

\* No thread accesses memory that is not there.
NeverFaults == ~ Faulted

\* After startQueue the processing loop runs, or is about to.
StartRuns == At(Main, "started") => thread \in {"starting", "executing"}

\* stopQueue returns: it wakes the execution thread up as often as it takes.
StopReturns == []<>(~ At(Main, "stopping") /\ ~ At(Main, "restarting"))
=============================================================================
