--------------------- MODULE RealTimeMessageQueueProofs ---------------------
(***************************************************************************)
(* Proofs for RealTimeMessageQueue, for any number of calling threads, of  *)
(* which the main thread may be one: as long as no two threads have met in *)
(* the exchange or in a flush, blocks are run, answered and released once  *)
(* each, in the order in which they were written; threads meet only after  *)
(* a call has given up or the real-time thread was set going too early;    *)
(* and no thread signals an execution thread that is gone unless one of    *)
(* these has happened or the queue was stopped with work to do.            *)
(***************************************************************************)
EXTENDS RealTimeMessageQueue, Integers, SequenceTheorems, TLAPS

Setup == {"setup", "started", "restarting"}

Place ==
  Setup \cup Exchange \cup Flushing \cup
  {"idle", "written", "wait", "done", "process", "unlock", "stop", "stopping", "end"}

My ==
  [pc : Place, then : Place, from : Nat, to : Nat,
   out : Seq(Message), in : Message \cup {<<>>}]

ThreadTypes ==
  /\ thread \in {"nil", "created", "starting", "executing", "finished"}
  /\ cancelled \in BOOLEAN /\ semaphore \in Nat /\ loop \in {"test", "wait", "check"}

BlockTypes ==
  /\ written \in Seq(Caller) /\ ran \in Seq(Caller) /\ tail \in Nat
  /\ responded \in Seq(Caller) /\ released \in Seq(Caller)

Types ==
  /\ buffer \in Seq(Message) /\ jobs \in Seq({"flush", "process"})
  /\ ThreadTypes /\ BlockTypes
  /\ lock \subseteq Caller /\ active \in BOOLEAN
  /\ my \in [Thread -> My]

\* Where the threads may be, and what they may go on to do after a flush.
Working == {"process"} \cup Exchange \cup Flushing

MainPlace(pc, then) ==
  \/ pc \in Setup /\ then \in {"done", "setup", "started"}
  \/ pc = "idle" /\ then \in {"done", "setup", "started", "idle"}
  \/ pc = "done" /\ then = "done"
  \/ pc = "written" /\ then \in {"wait", "done"} /\ Main \in Caller
  \/ pc = "wait" /\ then = "wait" /\ Main \in Caller
  \/ pc \in Working /\ then \in {"setup", "started", "idle", "done", "end"}
  \/ pc \in Working \cup {"unlock"} /\ then = "unlock" /\ Main \in Caller
  \/ pc \in Flushing /\ then = "wait" /\ Main \in Caller
  \/ pc \in {"stop", "stopping", "end"} /\ then = "end"

CallerPlace(pc, then) ==
  \/ pc \in {"idle", "done"} /\ then = "done"
  \/ pc = "written" /\ then \in {"wait", "done"}
  \/ pc = "wait" /\ then = "wait"
  \/ pc \in Working \cup {"unlock"} /\ then = "unlock"

Places ==
  /\ MainPlace(my[Main].pc, my[Main].then)
  /\ my[RT].pc \in {"idle"} \cup Exchange
  /\ \A t \in Caller : t # Main => CallerPlace(my[t].pc, my[t].then)

\* What a thread knows where it is.
Bounds ==
  /\ \A t \in Thread :
       /\ my[t].from >= 1 /\ my[t].to <= Len(written)
       /\ my[t].pc = "run" => my[t].from - 1 \in 1 .. Len(written)
       /\ my[t].out # <<>> => my[t].pc \in {"write", "check", "signal", "fault"}
       /\ my[t].pc = "write" => my[t].out # <<>>
       /\ my[t].pc = "handle" => my[t].in \in Message
  /\ cancelled /\ thread # "nil" => my[Main].pc \in {"restarting", "stopping"}

Basic == Types /\ Places /\ Bounds

\* No two threads are in the exchange, and no two in a flush.
Alone == ~ Both(Exchange) /\ ~ Both(Flushing)

\* The blocks that have run are the first that were written; one more has been
\* marked as read while a thread runs it.
Batch ==
  /\ tail <= Len(written)
  /\ \A t \in Thread : my[t].pc = "run" => tail = Len(ran) + 1
  /\ (\A t \in Thread : my[t].pc # "run") => tail = Len(ran)
  /\ \A t \in Thread : my[t].pc \in Exchange => my[t].from = tail + 1
  /\ Len(ran) <= Len(written) /\ \A k \in 1 .. Len(ran) : ran[k] = written[k]

\* The messages in the order they are dispatched: two for each block that ran.
IsAnswer(r, m, n) ==
  \E k \in 1 .. Len(r) : \/ n = 2 * k - 1 /\ m = <<"respond", r[k]>>
                         \/ n = 2 * k /\ m = <<"release", r[k]>>

\* How many of them have been handled, and taken.
Handled == Len(responded) + Len(released)
Taken == Handled + IF \E t \in Thread : my[t].pc = "handle" THEN 1 ELSE 0

\* Each message is handled, held by the thread that flushes, in the buffer, or held
\* by the thread that dispatches it, in this order.
Stream ==
  /\ \A t \in Thread : my[t].pc = "handle" => IsAnswer(ran, my[t].in, Taken)
  /\ \A k \in 1 .. Len(buffer) : IsAnswer(ran, buffer[k], Taken + k)
  /\ \A t \in Thread : \A k \in 1 .. Len(my[t].out) :
       IsAnswer(ran, my[t].out[k], Taken + Len(buffer) + k)
  /\ \A t \in Thread : my[t].out # <<>> =>
       Taken + Len(buffer) + Len(my[t].out) = 2 * Len(ran)
  /\ (\A t \in Thread : my[t].out = <<>>) => Taken + Len(buffer) = 2 * Len(ran)

Answered ==
  /\ Len(responded) \in {Len(released), Len(released) + 1}
  /\ Len(responded) <= Len(ran)
  /\ \A k \in 1 .. Len(responded) : responded[k] = ran[k]
  /\ \A k \in 1 .. Len(released) : released[k] = ran[k]

Among(t, s) == \E i \in 1 .. Len(s) : s[i] = t

\* Thread t's block has been run and its answer dispatched.
Dispatched(t) == \E i \in 1 .. Len(ran) : ran[i] = t /\ 2 * i <= Taken + Len(buffer)

\* The block of a synchronous call has been written; and when the thread gives up
\* waiting for it, its exchange comes to the answer.
Waiting ==
  \A t \in Caller :
    /\ my[t].pc \in {"written", "wait"} \/ my[t].then \in {"wait", "unlock"}
         => Among(t, written)
    /\ my[t].then = "unlock" =>
         /\ my[t].pc \in Exchange => \E i \in 1 .. my[t].to : written[i] = t
         /\ my[t].pc \in Flushing => Dispatched(t)
         /\ my[t].pc = "unlock" => Among(t, responded)

Sequence == Batch /\ Stream /\ Answered /\ Waiting

\* Has the application left, or not begun?
Left == my[Main].then = "end"
InSetUp ==
  \/ my[Main].pc \in Setup
  \/ my[Main].pc \in Working /\ my[Main].then \in {"setup", "started"}

Posted(job) == \E i \in 1 .. Len(jobs) : jobs[i] = job

\* The real-time thread works between start and stop only, and while it does
\* the main thread neither does the exchange itself nor is asked to.
TakesTurns ==
  /\ active => thread \in {"starting", "executing"} /\ ~ Left /\ ~ InSetUp
  /\ Left => \A t \in Caller : t # Main => my[t].pc = "done"
  /\ my[RT].pc # "idle" => active \/ Left
  /\ active \/ my[RT].pc # "idle" =>
       /\ ~ Posted("process")
       /\ my[Main].pc \notin {"process"} \cup Exchange
       /\ my[Main].then # "unlock"
  /\ \A t \in Caller : t # Main => my[t].then # "unlock"

\* The execution thread is there when it is signalled.
Watched ==
  /\ my[RT].pc # "idle" => active
  /\ my[Main].pc = "signal" => thread # "nil"
  /\ my[Main].pc # "fault" /\ my[RT].pc # "fault"

IInv ==
  /\ Basic /\ events \subseteq {"late", "early", "stopped", "met"}
  /\ "met" \notin events => Alone /\ Sequence
  /\ {"late", "early"} \cap events = {} => TakesTurns /\ "met" \notin events
  /\ {"late", "early", "stopped"} \cap events = {} => Watched

\* What every step keeps.
Kept ==
  /\ Basic'
  /\ Alone /\ Sequence => Sequence'
  /\ TakesTurns /\ ~ Late /\ ~ Early => TakesTurns'
  /\ TakesTurns /\ Watched /\ tail <= Len(written) /\ ~ Stopped => Watched'

-----------------------------------------------------------------------------
(* What the steps do to the threads' places.                               *)

\* Thread t takes a step.
Only(t) == my' \in [Thread -> My] /\ \A s \in Thread \ {t} : my'[s] = my[s]

\* It takes what it holds with it.
Moves(t) ==
  /\ Only(t)
  /\ my'[t].from = my[t].from /\ my'[t].to = my[t].to
  /\ my'[t].out = my[t].out /\ my'[t].in = my[t].in

\* It leaves the blocks and messages alone and begins nothing new.
Quiet(t) ==
  /\ Moves(t)
  /\ UNCHANGED <<tail, ran, responded, released, buffer>>
  /\ my'[t].pc = "run" <=> my[t].pc = "run"
  /\ my'[t].pc = "handle" <=> my[t].pc = "handle"
  /\ my'[t].pc \in Exchange => my[t].pc \in Exchange

\* Blocks are added to those that have been written.
Grows ==
  /\ Len(written) <= Len(written')
  /\ \A k \in 1 .. Len(written) : written'[k] = written[k]

\* A thread that goes somewhere keeps what it wanted to do after a flush.
LEMMA GotoMoves ==
  ASSUME NEW t \in Thread, NEW pc \in Place, Types, Goto(t, pc)
  PROVE  Moves(t) /\ my'[t].pc = pc /\ my'[t].then = my[t].then
BY DEF Types, My, Goto, Moves, Only

\* A thread that goes somewhere with something else to do afterwards.
LEMMA ThenMoves ==
  ASSUME NEW t \in Thread, NEW pc \in Place, NEW then \in Place, Types,
         my' = [my EXCEPT ![t].pc = pc, ![t].then = then]
  PROVE  Moves(t) /\ my'[t].pc = pc /\ my'[t].then = then
BY DEF Types, My, Moves, Only

\* Who may be where.
LEMMA Who ==
  ASSUME NEW t \in Thread, Places
  PROVE  /\ t = RT => t # Main /\ t \notin Caller
         /\ t = RT => my[t].pc \in {"idle"} \cup Exchange
         /\ t = Main => MainPlace(my[t].pc, my[t].then)
         /\ t # RT /\ t # Main => t \in Caller /\ CallerPlace(my[t].pc, my[t].then)
BY CallerAssumption DEF Places, Thread

\* The lengths of the sequences are numbers.
LEMMA Lengths ==
  ASSUME Types
  PROVE  /\ Len(buffer) \in Nat /\ Len(written) \in Nat /\ Len(ran) \in Nat
         /\ Len(responded) \in Nat /\ Len(released) \in Nat
         /\ \A t \in Thread : Len(my[t].out) \in Nat
         /\ \A t \in Thread : my[t].from \in Nat /\ my[t].to \in Nat
BY DEF Types, BlockTypes, My

\* The other threads stay where they are.
LEMMA OthersStay ==
  ASSUME NEW t \in Thread, Moves(t)
  PROVE  \A s \in Thread :
           /\ my'[s].from = my[s].from /\ my'[s].to = my[s].to
           /\ my'[s].out = my[s].out /\ my'[s].in = my[s].in
           /\ s # t => my'[s].pc = my[s].pc /\ my'[s].then = my[s].then
BY DEF Moves, Only

\* A thread may be where it goes.
Allowed(t) ==
  /\ t = RT => my'[t].pc \in {"idle"} \cup Exchange
  /\ t = Main => MainPlace(my'[t].pc, my'[t].then)
  /\ t # RT /\ t # Main => CallerPlace(my'[t].pc, my'[t].then)

\* The threads' places when one of them goes where it may be.
LEMMA PlacesKept ==
  ASSUME NEW t \in Thread, Types, Places, Only(t), Allowed(t)
  PROVE  Places'
<1>1. RT \in Thread /\ Main \in Thread /\ \A s \in Caller : s \in Thread
  BY DEF Thread
<1>2. \A s \in Thread : s # t => my'[s] = my[s]
  BY DEF Only
<1>3. MainPlace(my'[Main].pc, my'[Main].then)
  BY <1>1, <1>2 DEF Allowed, Places
<1>4. my'[RT].pc \in {"idle"} \cup Exchange
  BY <1>1, <1>2 DEF Allowed, Places
<1>5. \A s \in Caller : s # Main => CallerPlace(my'[s].pc, my'[s].then)
  BY <1>1, <1>2, CallerAssumption DEF Allowed, Places
<1> QED BY <1>3, <1>4, <1>5 DEF Places

\* Types, places and bounds when a thread moves.
LEMMA BasicKept ==
  ASSUME NEW t \in Thread, Basic, Quiet(t), Allowed(t), Grows,
         written' \in Seq(Caller), jobs' \in Seq({"flush", "process"}), ThreadTypes',
         lock' \subseteq Caller, active' \in BOOLEAN,
         my[t].out # <<>> => my'[t].pc \in {"write", "check", "signal", "fault"},
         my'[t].pc = "write" => my[t].out # <<>>,
         cancelled' /\ thread' # "nil" => my'[Main].pc \in {"restarting", "stopping"}
  PROVE  Basic'
<1>1. Types /\ Places /\ Bounds /\ Moves(t) /\ Only(t)
  BY DEF Basic, Quiet, Moves
<1>2. Types'
  BY <1>1 DEF Types, BlockTypes, Quiet, Only
<1>3. Places'
  BY <1>1, PlacesKept
<1>4. Bounds'
  <2>1. Len(written) \in Nat /\ Len(written') \in Nat /\ Len(written) <= Len(written')
        /\ \A s \in Thread : my[s].from \in Nat /\ my[s].to \in Nat
    BY <1>1, Lengths DEF Grows
  <2>2. \A s \in Thread :
           /\ my'[s].from = my[s].from /\ my'[s].to = my[s].to
           /\ my'[s].out = my[s].out /\ my'[s].in = my[s].in
           /\ s # t => my'[s].pc = my[s].pc
    BY <1>1, OthersStay
  <2>3. \A s \in Thread :
       /\ my'[s].from >= 1 /\ my'[s].to <= Len(written')
       /\ my'[s].pc = "run" => my'[s].from - 1 \in 1 .. Len(written')
       /\ my'[s].out # <<>> => my'[s].pc \in {"write", "check", "signal", "fault"}
       /\ my'[s].pc = "write" => my'[s].out # <<>>
       /\ my'[s].pc = "handle" => my'[s].in \in Message
    <3> HIDE DEF Message
    <3> QED BY SMTT(30), <1>1, <2>1, <2>2 DEF Bounds, Quiet
  <2> QED BY <2>3 DEF Bounds
<1> QED BY <1>2, <1>3, <1>4 DEF Basic

\* The batches when a thread moves.
LEMMA BatchKept ==
  ASSUME NEW t \in Thread, Types, Quiet(t), Grows, written' \in Seq(Caller), Batch
  PROVE  Batch'
<1>1. \A s \in Thread :
        /\ my'[s].from = my[s].from
        /\ my'[s].pc = "run" <=> my[s].pc = "run"
        /\ my'[s].pc \in Exchange => my[s].pc \in Exchange
  BY OthersStay DEF Quiet
<1>2. /\ Len(written) \in Nat /\ Len(written') \in Nat /\ Len(written) <= Len(written')
      /\ Len(ran) \in Nat /\ tail \in Nat /\ ran' = ran /\ tail' = tail
      /\ \A k \in 1 .. Len(written) : written'[k] = written[k]
  BY Lengths DEF Grows, Quiet, Types, BlockTypes
<1>3. tail' <= Len(written') /\ Len(ran') <= Len(written')
      /\ \A k \in 1 .. Len(ran) : ran[k] = written'[k]
  BY <1>2 DEF Batch
<1> QED BY <1>1, <1>2, <1>3 DEF Batch

\* The messages stay where they are when no one handles or dispatches one.
LEMMA StreamSame ==
  ASSUME \A t \in Thread : /\ my'[t].pc = "handle" <=> my[t].pc = "handle"
                           /\ my'[t].in = my[t].in /\ my'[t].out = my[t].out,
         UNCHANGED <<buffer, ran, responded, released>>, Stream
  PROVE  Stream' /\ Taken' = Taken
<1>1. Taken' = Taken
  BY DEF Taken, Handled
<1> HIDE DEF IsAnswer, Taken
<1> QED BY <1>1 DEF Stream

\* The blocks that threads wait for are where they were, and the thread that moves
\* knows where its own is.
LEMMA WaitingKept ==
  ASSUME NEW t \in Thread, Types, Quiet(t), Grows, written' \in Seq(Caller), Bounds,
         Taken' = Taken, Waiting,
         t \in Caller /\ (my'[t].pc \in {"written", "wait"} \/ my'[t].then \in {"wait", "unlock"})
           => Among(t, written'),
         t \in Caller /\ my'[t].then = "unlock" =>
           /\ my'[t].pc \in Exchange => \E i \in 1 .. my[t].to : written[i] = t
           /\ my'[t].pc \in Flushing => Dispatched(t)
           /\ my'[t].pc = "unlock" => Among(t, responded)
  PROVE  Waiting'
<1>1. \A s \in Thread :
        /\ my'[s].to = my[s].to
        /\ s # t => my'[s].pc = my[s].pc /\ my'[s].then = my[s].then
  BY OthersStay DEF Quiet
<1>2. /\ \A s : Among(s, written) => Among(s, written')
      /\ \A s : Among(s, responded') <=> Among(s, responded)
      /\ \A s : Dispatched(s)' <=> Dispatched(s)
  BY SMTT(30), Lengths DEF Among, Dispatched, Grows, Quiet
<1>3. \A s \in Thread : (\E i \in 1 .. my[s].to : written[i] = s)
                          => \E i \in 1 .. my'[s].to : written'[i] = s
  <2> SUFFICES ASSUME NEW s \in Thread, NEW i \in 1 .. my[s].to, written[i] = s
               PROVE  written'[i] = s /\ i \in 1 .. my'[s].to
    OBVIOUS
  <2>1. my[s].to <= Len(written) /\ my[s].to \in Nat /\ Len(written) \in Nat
    BY Lengths DEF Bounds
  <2> QED BY <1>1, <2>1 DEF Grows
<1> HIDE DEF Among, Dispatched
<1>4. \A s \in Caller : s \in Thread
  BY DEF Thread
<1>5. ASSUME NEW s \in Caller
      PROVE  /\ my'[s].pc \in {"written", "wait"} \/ my'[s].then \in {"wait", "unlock"}
                  => Among(s, written')
             /\ my'[s].then = "unlock" =>
                  /\ my'[s].pc \in Exchange => \E i \in 1 .. my'[s].to : written'[i] = s
                  /\ my'[s].pc \in Flushing => Dispatched(s)'
                  /\ my'[s].pc = "unlock" => Among(s, responded')
  <2>1. CASE s = t
    BY <1>2, <1>3, <1>4, <2>1
  <2>2. CASE s # t
    BY <1>1, <1>2, <1>3, <1>4, <2>2 DEF Waiting
  <2> QED BY <2>1, <2>2
<1>6. \A s, q : Among(s, q)' <=> \E i \in 1 .. Len(q') : q'[i] = s'
  BY DEF Among
<1> QED BY <1>5 DEF Waiting, Among

\* The order of blocks and messages when a thread moves.
LEMMA SequenceKept ==
  ASSUME NEW t \in Thread, Basic, Quiet(t), Grows, written' \in Seq(Caller), Sequence,
         t \in Caller /\ (my'[t].pc \in {"written", "wait"} \/ my'[t].then \in {"wait", "unlock"})
           => Among(t, written'),
         t \in Caller /\ my'[t].then = "unlock" =>
           /\ my'[t].pc \in Exchange => \E i \in 1 .. my[t].to : written[i] = t
           /\ my'[t].pc \in Flushing => Dispatched(t)
           /\ my'[t].pc = "unlock" => Among(t, responded)
  PROVE  Sequence'
<1>1. Types /\ Bounds /\ Batch /\ Stream /\ Answered /\ Waiting
  BY DEF Basic, Sequence
<1>2. Batch'
  BY <1>1, BatchKept
<1>3. Stream' /\ Taken' = Taken
  <2>1. \A s \in Thread : /\ my'[s].pc = "handle" <=> my[s].pc = "handle"
                          /\ my'[s].in = my[s].in /\ my'[s].out = my[s].out
    BY OthersStay DEF Quiet
  <2>2. UNCHANGED <<buffer, ran, responded, released>>
    BY DEF Quiet
  <2> QED BY <1>1, <2>1, <2>2, StreamSame
<1>4. Answered'
  BY <1>1 DEF Answered, Quiet
<1>5. Waiting'
  BY <1>1, <1>3, WaitingKept
<1> QED BY <1>2, <1>3, <1>4, <1>5 DEF Sequence

\* What is posted when no job is posted or taken.
LEMMA PostedKept ==
  ASSUME UNCHANGED jobs
  PROVE  \A job : Posted(job)' <=> Posted(job)
BY DEF Posted

\* A job is posted.
LEMMA PostedMore ==
  ASSUME NEW job \in {"flush", "process"}, Types, jobs' = Append(jobs, job)
  PROVE  jobs' \in Seq({"flush", "process"})
         /\ \A j : Posted(j)' => Posted(j) \/ j = job
BY DEF Posted, Types

\* The first job is taken.
LEMMA PostedLess ==
  ASSUME Types, jobs # <<>>, jobs' = Tail(jobs)
  PROVE  /\ jobs' \in Seq({"flush", "process"})
         /\ Head(jobs) \in {"flush", "process"} /\ Posted(Head(jobs))
         /\ \A j : Posted(j)' => Posted(j)
BY DEF Posted, Types

\* No exchange has been asked for while the real-time thread does it.
LEMMA NotEarly ==
  ASSUME ~ Early
  PROVE  active' => ~ Posted("process")'
BY DEF Early, Posted, ToSet

-----------------------------------------------------------------------------
(* The application.                                                        *)

\* The application starts the queue.
LEMMA StartStep ==
  ASSUME Basic, Start
  PROVE  Kept
<1>0. Types /\ Places /\ Bounds /\ Main \in Thread /\ Main \in Thread /\ RT \in Thread
  BY DEF Basic, Thread
<1>1. /\ my[Main].pc = "setup" /\ my[Main].then \in {"done", "setup", "started"}
      /\ Moves(Main) /\ my'[Main].pc = "started" /\ my'[Main].then = my[Main].then
  <2>1. Goto(Main, "started") /\ my[Main].pc = "setup"
    BY DEF Start, At
  <2>2. Moves(Main) /\ my'[Main].pc = "started" /\ my'[Main].then = my[Main].then
    BY <1>0, <2>1, GotoMoves DEF Place, Setup
  <2> QED BY <1>0, <2>1, <2>2 DEF Places, MainPlace, Setup, Working, Exchange, Flushing
<1>2. /\ UNCHANGED <<buffer, jobs, active>> /\ UNCHANGED <<written, lock, tail, ran, responded, released>>
      /\ thread = "nil" => thread' = "starting" /\ ~ cancelled' /\ semaphore' = 0 /\ loop' = "test"
      /\ thread # "nil" => UNCHANGED <<thread, cancelled, semaphore, loop>>
      /\ cancelled' \in BOOLEAN
  BY <1>0 DEF Start, startQueue, threadVars, Keep, history, Types, ThreadTypes
<1>3. Quiet(Main) /\ Grows
  BY <1>0, <1>1, <1>2, Lengths DEF Quiet, Grows, Exchange
<1>4. Basic'
  <2>1. Allowed(Main)
    BY <1>0, <1>1, Who, CallerAssumption
    DEF Allowed, MainPlace, CallerPlace, Working, Setup, Exchange, Flushing
  <2>2. ThreadTypes'
    BY <1>0, <1>2 DEF Types, ThreadTypes
  <2>3. cancelled' /\ thread' # "nil" => my'[Main].pc \in {"restarting", "stopping"}
    BY <1>0, <1>1, <1>2 DEF Bounds, Moves, Only
  <2> QED BY <1>0, <1>1, <1>2, <1>3, <2>1, <2>2, <2>3, BasicKept
      DEF Types, BlockTypes, Bounds
<1>5. ASSUME Alone, Sequence PROVE Sequence'
  BY <1>0, <1>1, <1>2, <1>3, <1>5, SequenceKept
  DEF Sequence, Waiting, Types, BlockTypes, Exchange, Flushing
<1>6. ASSUME TakesTurns, ~ Late, ~ Early PROVE TakesTurns'
  BY <1>0, <1>1, <1>2, <1>6, PostedKept, CallerAssumption
  DEF TakesTurns, Left, InSetUp, Working, Setup, Exchange, Flushing, Thread, Moves, Only, Bounds, Places, CallerPlace, MainPlace
<1>7. ASSUME TakesTurns, Watched, tail <= Len(written), ~ Stopped PROVE Watched'
  BY <1>0, <1>1, <1>2, <1>7, CallerAssumption DEF Watched, TakesTurns, Left, InSetUp, Working, Setup, Exchange, Flushing, Thread, Moves, Only, Bounds, Places, CallerPlace, MainPlace
<1> QED BY <1>4, <1>5, <1>6, <1>7 DEF Kept

\* The application goes on: the real-time thread runs if the queue does.
LEMMA EnterStep ==
  ASSUME Basic, Enter
  PROVE  Kept
<1>0. Types /\ Places /\ Bounds /\ Main \in Thread /\ Main \in Thread /\ RT \in Thread
  BY DEF Basic, Thread
<1>1. /\ my[Main].pc \in {"setup", "started"} /\ my[Main].then \in {"done", "setup", "started"}
      /\ Moves(Main) /\ my'[Main].pc = "idle" /\ my'[Main].then = my[Main].then
  <2>1. Goto(Main, "idle") /\ my[Main].pc \in {"setup", "started"}
    BY DEF Enter, At
  <2>2. Moves(Main) /\ my'[Main].pc = "idle" /\ my'[Main].then = my[Main].then
    BY <1>0, <2>1, GotoMoves DEF Place
  <2> QED BY <1>0, <2>1, <2>2 DEF Places, MainPlace, Setup, Working, Exchange, Flushing
<1>2. /\ UNCHANGED <<buffer, jobs, thread, cancelled, semaphore, loop>>
      /\ UNCHANGED <<written, lock, tail, ran, responded, released>>
      /\ active' = (thread \in {"starting", "executing"}) /\ active' \in BOOLEAN
  BY DEF Enter, mqVars, history
<1>3. Quiet(Main) /\ Grows
  BY <1>0, <1>1, <1>2, Lengths DEF Quiet, Grows, Exchange
<1>4. Basic'
  <2>1. Allowed(Main)
    BY <1>0, <1>1, Who, CallerAssumption
    DEF Allowed, MainPlace, CallerPlace, Working, Setup, Exchange, Flushing
  <2>2. ThreadTypes'
    BY <1>0, <1>2 DEF Types, ThreadTypes
  <2>3. cancelled' /\ thread' # "nil" => my'[Main].pc \in {"restarting", "stopping"}
    BY <1>0, <1>1, <1>2 DEF Bounds, Moves, Only
  <2> QED BY <1>0, <1>1, <1>2, <1>3, <2>1, <2>2, <2>3, BasicKept
      DEF Types, BlockTypes, Bounds
<1>5. ASSUME Alone, Sequence PROVE Sequence'
  BY <1>0, <1>1, <1>2, <1>3, <1>5, SequenceKept
  DEF Sequence, Waiting, Types, BlockTypes, Exchange, Flushing
<1>6. ASSUME TakesTurns, ~ Late, ~ Early PROVE TakesTurns'
  BY <1>0, <1>1, <1>2, <1>6, NotEarly, CallerAssumption
  DEF TakesTurns, Left, InSetUp, Working, Setup, Exchange, Flushing, Thread, Moves, Only, Bounds, Places, CallerPlace, MainPlace
<1>7. ASSUME TakesTurns, Watched, tail <= Len(written), ~ Stopped PROVE Watched'
  BY <1>0, <1>1, <1>2, <1>7, CallerAssumption DEF Watched, TakesTurns, Left, InSetUp, Working, Setup, Exchange, Flushing, Thread, Moves, Only, Bounds, Places, CallerPlace, MainPlace
<1> QED BY <1>4, <1>5, <1>6, <1>7 DEF Kept

\* The application leaves.
LEMMA LeaveStep ==
  ASSUME Basic, Leave
  PROVE  Kept
<1>0. Types /\ Places /\ Bounds /\ Main \in Thread /\ Main \in Thread /\ RT \in Thread
  BY DEF Basic, Thread
<1>1. /\ my[Main].pc \in {"idle", "done"} /\ \A t \in Caller : my[t].pc = "done"
      /\ my[Main].then # "unlock"
      /\ Moves(Main) /\ my'[Main].pc = "stop" /\ my'[Main].then = "end"
  <2>1. my' = [my EXCEPT ![Main].pc = "stop", ![Main].then = "end"]
    BY <1>0 DEF Leave, Types, My
  <2>2. Moves(Main) /\ my'[Main].pc = "stop" /\ my'[Main].then = "end"
    BY <1>0, <2>1, ThenMoves DEF Place
  <2>3. my[Main].pc \in {"idle", "done"} /\ \A t \in Caller : my[t].pc = "done"
    BY DEF Leave, At
  <2> QED BY <1>0, <2>2, <2>3 DEF Places, MainPlace, Setup, Working, Exchange, Flushing
<1>2. /\ UNCHANGED <<buffer, jobs, thread, cancelled, semaphore, loop>>
      /\ UNCHANGED <<written, lock, tail, ran, responded, released>>
      /\ active' = FALSE /\ active' \in BOOLEAN
  BY DEF Leave, mqVars, history
<1>8. ~ Stopped => my[RT].pc = "idle"
  BY <1>1 DEF Stopped, At
<1>3. Quiet(Main) /\ Grows
  BY <1>0, <1>1, <1>2, Lengths DEF Quiet, Grows, Exchange
<1>4. Basic'
  <2>1. Allowed(Main)
    BY <1>0, <1>1, Who, CallerAssumption
    DEF Allowed, MainPlace, CallerPlace, Working, Setup, Exchange, Flushing
  <2>2. ThreadTypes'
    BY <1>0, <1>2 DEF Types, ThreadTypes
  <2>3. cancelled' /\ thread' # "nil" => my'[Main].pc \in {"restarting", "stopping"}
    BY <1>0, <1>1, <1>2 DEF Bounds, Moves, Only
  <2> QED BY <1>0, <1>1, <1>2, <1>3, <2>1, <2>2, <2>3, BasicKept
      DEF Types, BlockTypes, Bounds
<1>5. ASSUME Alone, Sequence PROVE Sequence'
  BY <1>0, <1>1, <1>2, <1>3, <1>5, SequenceKept
  DEF Sequence, Waiting, Types, BlockTypes, Exchange, Flushing
<1>6. ASSUME TakesTurns, ~ Late, ~ Early PROVE TakesTurns'
  BY <1>0, <1>1, <1>2, <1>6, PostedKept, CallerAssumption
  DEF TakesTurns, Left, InSetUp, Working, Setup, Exchange, Flushing, Thread, Moves, Only, Bounds, Places, CallerPlace, MainPlace
<1>7. ASSUME TakesTurns, Watched, tail <= Len(written), ~ Stopped PROVE Watched'
  BY <1>0, <1>1, <1>2, <1>7, <1>8, CallerAssumption DEF Watched, TakesTurns, Left, InSetUp, Working, Setup, Exchange, Flushing, Thread, Moves, Only, Bounds, Places, CallerPlace, MainPlace
<1> QED BY <1>4, <1>5, <1>6, <1>7 DEF Kept

\* The queue is stopped before it was started.
LEMMA StopSetupStep ==
  ASSUME Basic, Stop("setup", "restarting", "setup")
  PROVE  Kept
<1>0. Types /\ Places /\ Bounds /\ Main \in Thread /\ Main \in Thread /\ RT \in Thread
  BY DEF Basic, Thread
<1>1. /\ my[Main].pc = "setup" /\ my[Main].then \in {"done", "setup", "started"}
      /\ Moves(Main) /\ my'[Main].pc \in {"setup", "restarting"} /\ my'[Main].then = my[Main].then
      /\ thread # "nil" => my'[Main].pc = "restarting"
  <2>1. my[Main].pc = "setup"
    BY DEF Stop, At
  <2>2. PICK pc : /\ pc \in {"setup", "restarting"} /\ Goto(Main, pc)
                  /\ thread # "nil" => pc = "restarting"
    BY DEF Stop
  <2>3. Moves(Main) /\ my'[Main].pc = pc /\ my'[Main].then = my[Main].then
    BY <1>0, <2>2, GotoMoves DEF Place, Setup, Flushing
  <2> QED BY <1>0, <2>1, <2>2, <2>3 DEF Places, MainPlace, Setup, Working, Exchange, Flushing
<1>2. /\ UNCHANGED <<buffer, jobs, thread, semaphore, loop, active>> /\ cancelled' \in {cancelled, TRUE}
      /\ UNCHANGED <<written, lock, tail, ran, responded, released>>
  BY DEF Stop, mqVars, history, CancelThread, Cancel, Keep
<1>3. Quiet(Main) /\ Grows
  BY <1>0, <1>1, <1>2, Lengths DEF Quiet, Grows, Exchange
<1>4. Basic'
  <2>1. Allowed(Main)
    BY <1>0, <1>1, Who, CallerAssumption
    DEF Allowed, MainPlace, CallerPlace, Working, Setup, Exchange, Flushing
  <2>2. ThreadTypes'
    BY <1>0, <1>2 DEF Types, ThreadTypes
  <2>3. cancelled' /\ thread' # "nil" => my'[Main].pc \in {"restarting", "stopping"}
    BY <1>0, <1>1, <1>2 DEF Bounds, Moves, Only
  <2> QED BY <1>0, <1>1, <1>2, <1>3, <2>1, <2>2, <2>3, BasicKept
      DEF Types, BlockTypes, Bounds
<1>5. ASSUME Alone, Sequence PROVE Sequence'
  BY <1>0, <1>1, <1>2, <1>3, <1>5, SequenceKept
  DEF Sequence, Waiting, Types, BlockTypes, Exchange, Flushing
<1>6. ASSUME TakesTurns, ~ Late, ~ Early PROVE TakesTurns'
  BY <1>0, <1>1, <1>2, <1>6, PostedKept, CallerAssumption
  DEF TakesTurns, Left, InSetUp, Working, Setup, Exchange, Flushing, Thread, Moves, Only, Bounds, Places, CallerPlace, MainPlace
<1>7. ASSUME TakesTurns, Watched, tail <= Len(written), ~ Stopped PROVE Watched'
  BY <1>0, <1>1, <1>2, <1>7, CallerAssumption DEF Watched, TakesTurns, Left, InSetUp, Working, Setup, Exchange, Flushing, Thread, Moves, Only, Bounds, Places, CallerPlace, MainPlace
<1> QED BY <1>4, <1>5, <1>6, <1>7 DEF Kept

\* The queue is stopped after it was started.
LEMMA StopStartedStep ==
  ASSUME Basic, Stop("started", "restarting", "setup")
  PROVE  Kept
<1>0. Types /\ Places /\ Bounds /\ Main \in Thread /\ Main \in Thread /\ RT \in Thread
  BY DEF Basic, Thread
<1>1. /\ my[Main].pc = "started" /\ my[Main].then \in {"done", "setup", "started"}
      /\ Moves(Main) /\ my'[Main].pc \in {"setup", "restarting"} /\ my'[Main].then = my[Main].then
      /\ thread # "nil" => my'[Main].pc = "restarting"
  <2>1. my[Main].pc = "started"
    BY DEF Stop, At
  <2>2. PICK pc : /\ pc \in {"setup", "restarting"} /\ Goto(Main, pc)
                  /\ thread # "nil" => pc = "restarting"
    BY DEF Stop
  <2>3. Moves(Main) /\ my'[Main].pc = pc /\ my'[Main].then = my[Main].then
    BY <1>0, <2>2, GotoMoves DEF Place, Setup, Flushing
  <2> QED BY <1>0, <2>1, <2>2, <2>3 DEF Places, MainPlace, Setup, Working, Exchange, Flushing
<1>2. /\ UNCHANGED <<buffer, jobs, thread, semaphore, loop, active>> /\ cancelled' \in {cancelled, TRUE}
      /\ UNCHANGED <<written, lock, tail, ran, responded, released>>
  BY DEF Stop, mqVars, history, CancelThread, Cancel, Keep
<1>3. Quiet(Main) /\ Grows
  BY <1>0, <1>1, <1>2, Lengths DEF Quiet, Grows, Exchange
<1>4. Basic'
  <2>1. Allowed(Main)
    BY <1>0, <1>1, Who, CallerAssumption
    DEF Allowed, MainPlace, CallerPlace, Working, Setup, Exchange, Flushing
  <2>2. ThreadTypes'
    BY <1>0, <1>2 DEF Types, ThreadTypes
  <2>3. cancelled' /\ thread' # "nil" => my'[Main].pc \in {"restarting", "stopping"}
    BY <1>0, <1>1, <1>2 DEF Bounds, Moves, Only
  <2> QED BY <1>0, <1>1, <1>2, <1>3, <2>1, <2>2, <2>3, BasicKept
      DEF Types, BlockTypes, Bounds
<1>5. ASSUME Alone, Sequence PROVE Sequence'
  BY <1>0, <1>1, <1>2, <1>3, <1>5, SequenceKept
  DEF Sequence, Waiting, Types, BlockTypes, Exchange, Flushing
<1>6. ASSUME TakesTurns, ~ Late, ~ Early PROVE TakesTurns'
  BY <1>0, <1>1, <1>2, <1>6, PostedKept, CallerAssumption
  DEF TakesTurns, Left, InSetUp, Working, Setup, Exchange, Flushing, Thread, Moves, Only, Bounds, Places, CallerPlace, MainPlace
<1>7. ASSUME TakesTurns, Watched, tail <= Len(written), ~ Stopped PROVE Watched'
  BY <1>0, <1>1, <1>2, <1>7, CallerAssumption DEF Watched, TakesTurns, Left, InSetUp, Working, Setup, Exchange, Flushing, Thread, Moves, Only, Bounds, Places, CallerPlace, MainPlace
<1> QED BY <1>4, <1>5, <1>6, <1>7 DEF Kept

\* The application stops the queue in the end.
LEMMA StopEndStep ==
  ASSUME Basic, Stop("stop", "stopping", "flush")
  PROVE  Kept
<1>0. Types /\ Places /\ Bounds /\ Main \in Thread /\ Main \in Thread /\ RT \in Thread
  BY DEF Basic, Thread
<1>1. /\ my[Main].pc = "stop" /\ my[Main].then = "end"
      /\ Moves(Main) /\ my'[Main].pc \in {"flush", "stopping"} /\ my'[Main].then = my[Main].then
      /\ thread # "nil" => my'[Main].pc = "stopping"
  <2>1. my[Main].pc = "stop"
    BY DEF Stop, At
  <2>2. PICK pc : /\ pc \in {"flush", "stopping"} /\ Goto(Main, pc)
                  /\ thread # "nil" => pc = "stopping"
    BY DEF Stop
  <2>3. Moves(Main) /\ my'[Main].pc = pc /\ my'[Main].then = my[Main].then
    BY <1>0, <2>2, GotoMoves DEF Place, Setup, Flushing
  <2> QED BY <1>0, <2>1, <2>2, <2>3 DEF Places, MainPlace, Setup, Working, Exchange, Flushing
<1>2. /\ UNCHANGED <<buffer, jobs, thread, semaphore, loop, active>> /\ cancelled' \in {cancelled, TRUE}
      /\ UNCHANGED <<written, lock, tail, ran, responded, released>>
  BY DEF Stop, mqVars, history, CancelThread, Cancel, Keep
<1>3. Quiet(Main) /\ Grows
  BY <1>0, <1>1, <1>2, Lengths DEF Quiet, Grows, Exchange
<1>4. Basic'
  <2>1. Allowed(Main)
    BY <1>0, <1>1, Who, CallerAssumption
    DEF Allowed, MainPlace, CallerPlace, Working, Setup, Exchange, Flushing
  <2>2. ThreadTypes'
    BY <1>0, <1>2 DEF Types, ThreadTypes
  <2>3. cancelled' /\ thread' # "nil" => my'[Main].pc \in {"restarting", "stopping"}
    BY <1>0, <1>1, <1>2 DEF Bounds, Moves, Only
  <2> QED BY <1>0, <1>1, <1>2, <1>3, <2>1, <2>2, <2>3, BasicKept
      DEF Types, BlockTypes, Bounds
<1>5. ASSUME Alone, Sequence PROVE Sequence'
  BY <1>0, <1>1, <1>2, <1>3, <1>5, SequenceKept
  DEF Sequence, Waiting, Types, BlockTypes, Exchange, Flushing
<1>6. ASSUME TakesTurns, ~ Late, ~ Early PROVE TakesTurns'
  BY <1>0, <1>1, <1>2, <1>6, PostedKept, CallerAssumption
  DEF TakesTurns, Left, InSetUp, Working, Setup, Exchange, Flushing, Thread, Moves, Only, Bounds, Places, CallerPlace, MainPlace
<1>7. ASSUME TakesTurns, Watched, tail <= Len(written), ~ Stopped PROVE Watched'
  BY <1>0, <1>1, <1>2, <1>7, CallerAssumption DEF Watched, TakesTurns, Left, InSetUp, Working, Setup, Exchange, Flushing, Thread, Moves, Only, Bounds, Places, CallerPlace, MainPlace
<1> QED BY <1>4, <1>5, <1>6, <1>7 DEF Kept

\* The thread is dropped before the queue is started again.
LEMMA RestartingStep ==
  ASSUME Basic, Stopping("restarting", "setup")
  PROVE  Kept
<1>0. Types /\ Places /\ Bounds /\ Main \in Thread /\ Main \in Thread /\ RT \in Thread
  BY DEF Basic, Thread
<1>1. /\ my[Main].pc = "restarting" /\ my[Main].then \in {"done", "setup", "started"}
      /\ Moves(Main) /\ my'[Main].pc \in {"setup", "restarting"} /\ my'[Main].then = my[Main].then
      /\ my'[Main].pc = "setup" => thread' = "nil"
  <2>1. my[Main].pc = "restarting" /\ (my' = my \/ (Goto(Main, "setup") /\ thread' = "nil"))
    BY DEF Stopping, At, DropThread
  <2>2. CASE my' = my
    BY <1>0, <2>1, <2>2
    DEF Places, MainPlace, Setup, Working, Exchange, Flushing, Moves, Only, Types
  <2>3. CASE Goto(Main, "setup") /\ thread' = "nil"
    <3>1. Moves(Main) /\ my'[Main].pc = "setup" /\ my'[Main].then = my[Main].then
      BY <1>0, <2>3, GotoMoves DEF Place, Setup, Flushing
    <3> QED BY <1>0, <2>1, <2>3, <3>1 DEF Places, MainPlace, Setup, Working, Exchange, Flushing
  <2> QED BY <2>1, <2>2, <2>3
<1>2. /\ UNCHANGED <<buffer, jobs, cancelled, loop, active>>
      /\ thread' \in {thread, "nil"} /\ semaphore' \in {semaphore, semaphore + 1}
      /\ UNCHANGED <<written, lock, tail, ran, responded, released>>
  BY DEF Stopping, history, SignalStop, DropThread, threadVars, Keep
<1>3. Quiet(Main) /\ Grows
  BY <1>0, <1>1, <1>2, Lengths DEF Quiet, Grows, Exchange
<1>4. Basic'
  <2>1. Allowed(Main)
    BY <1>0, <1>1, Who, CallerAssumption
    DEF Allowed, MainPlace, CallerPlace, Working, Setup, Exchange, Flushing
  <2>2. ThreadTypes'
    BY <1>0, <1>2 DEF Types, ThreadTypes
  <2>3. cancelled' /\ thread' # "nil" => my'[Main].pc \in {"restarting", "stopping"}
    BY <1>0, <1>1, <1>2 DEF Bounds, Moves, Only
  <2> QED BY <1>0, <1>1, <1>2, <1>3, <2>1, <2>2, <2>3, BasicKept
      DEF Types, BlockTypes, Bounds
<1>5. ASSUME Alone, Sequence PROVE Sequence'
  BY <1>0, <1>1, <1>2, <1>3, <1>5, SequenceKept
  DEF Sequence, Waiting, Types, BlockTypes, Exchange, Flushing
<1>6. ASSUME TakesTurns, ~ Late, ~ Early PROVE TakesTurns'
  BY <1>0, <1>1, <1>2, <1>6, PostedKept, CallerAssumption
  DEF TakesTurns, Left, InSetUp, Working, Setup, Exchange, Flushing, Thread, Moves, Only, Bounds, Places, CallerPlace, MainPlace
<1>7. ASSUME TakesTurns, Watched, tail <= Len(written), ~ Stopped PROVE Watched'
  BY <1>0, <1>1, <1>2, <1>7, CallerAssumption DEF Watched, TakesTurns, Left, InSetUp, Working, Setup, Exchange, Flushing, Thread, Moves, Only, Bounds, Places, CallerPlace, MainPlace
<1> QED BY <1>4, <1>5, <1>6, <1>7 DEF Kept

\* The thread is dropped in the end.
LEMMA StoppingStep ==
  ASSUME Basic, Stopping("stopping", "flush")
  PROVE  Kept
<1>0. Types /\ Places /\ Bounds /\ Main \in Thread /\ Main \in Thread /\ RT \in Thread
  BY DEF Basic, Thread
<1>1. /\ my[Main].pc = "stopping" /\ my[Main].then = "end"
      /\ Moves(Main) /\ my'[Main].pc \in {"flush", "stopping"} /\ my'[Main].then = my[Main].then
      /\ my'[Main].pc = "flush" => thread' = "nil"
  <2>1. my[Main].pc = "stopping" /\ (my' = my \/ (Goto(Main, "flush") /\ thread' = "nil"))
    BY DEF Stopping, At, DropThread
  <2>2. CASE my' = my
    BY <1>0, <2>1, <2>2
    DEF Places, MainPlace, Setup, Working, Exchange, Flushing, Moves, Only, Types
  <2>3. CASE Goto(Main, "flush") /\ thread' = "nil"
    <3>1. Moves(Main) /\ my'[Main].pc = "flush" /\ my'[Main].then = my[Main].then
      BY <1>0, <2>3, GotoMoves DEF Place, Setup, Flushing
    <3> QED BY <1>0, <2>1, <2>3, <3>1 DEF Places, MainPlace, Setup, Working, Exchange, Flushing
  <2> QED BY <2>1, <2>2, <2>3
<1>2. /\ UNCHANGED <<buffer, jobs, cancelled, loop, active>>
      /\ thread' \in {thread, "nil"} /\ semaphore' \in {semaphore, semaphore + 1}
      /\ UNCHANGED <<written, lock, tail, ran, responded, released>>
  BY DEF Stopping, history, SignalStop, DropThread, threadVars, Keep
<1>3. Quiet(Main) /\ Grows
  BY <1>0, <1>1, <1>2, Lengths DEF Quiet, Grows, Exchange
<1>4. Basic'
  <2>1. Allowed(Main)
    BY <1>0, <1>1, Who, CallerAssumption
    DEF Allowed, MainPlace, CallerPlace, Working, Setup, Exchange, Flushing
  <2>2. ThreadTypes'
    BY <1>0, <1>2 DEF Types, ThreadTypes
  <2>3. cancelled' /\ thread' # "nil" => my'[Main].pc \in {"restarting", "stopping"}
    BY <1>0, <1>1, <1>2 DEF Bounds, Moves, Only
  <2> QED BY <1>0, <1>1, <1>2, <1>3, <2>1, <2>2, <2>3, BasicKept
      DEF Types, BlockTypes, Bounds
<1>5. ASSUME Alone, Sequence PROVE Sequence'
  BY <1>0, <1>1, <1>2, <1>3, <1>5, SequenceKept
  DEF Sequence, Waiting, Types, BlockTypes, Exchange, Flushing
<1>6. ASSUME TakesTurns, ~ Late, ~ Early PROVE TakesTurns'
  BY <1>0, <1>1, <1>2, <1>6, PostedKept, CallerAssumption
  DEF TakesTurns, Left, InSetUp, Working, Setup, Exchange, Flushing, Thread, Moves, Only, Bounds, Places, CallerPlace, MainPlace
<1>7. ASSUME TakesTurns, Watched, tail <= Len(written), ~ Stopped PROVE Watched'
  BY <1>0, <1>1, <1>2, <1>7, CallerAssumption DEF Watched, TakesTurns, Left, InSetUp, Working, Setup, Exchange, Flushing, Thread, Moves, Only, Bounds, Places, CallerPlace, MainPlace
<1> QED BY <1>4, <1>5, <1>6, <1>7 DEF Kept

\* The main thread takes what was posted to it.
LEMMA TakeJobStep ==
  ASSUME Basic, TakeJob
  PROVE  Kept
<1>0. Types /\ Places /\ Bounds /\ Main \in Thread /\ Main \in Thread /\ RT \in Thread
  BY DEF Basic, Thread
<1>1. /\ my[Main].pc \in {"setup", "started", "idle", "done", "end"}
      /\ my[Main].then \notin {"wait", "unlock"}
      /\ my[Main].pc = "end" <=> my[Main].then = "end"
      /\ jobs # <<>> /\ jobs' = Tail(jobs) /\ Head(jobs) \in {"flush", "process"}
      /\ Moves(Main) /\ my'[Main].pc = Head(jobs) /\ my'[Main].then = my[Main].pc
  <2>1. /\ my[Main].pc \in {"setup", "started", "idle", "done", "end"}
        /\ jobs # <<>> /\ jobs' = Tail(jobs)
    BY DEF TakeJob
  <2>2. Head(jobs) \in {"flush", "process"}
    BY <1>0, <2>1, PostedLess
  <2>3. PICK pc \in {"flush", "process"}, then \in {"setup", "started", "idle", "done", "end"} :
          pc = Head(jobs) /\ then = my[Main].pc
    BY <2>1, <2>2
  <2>4. my' = [my EXCEPT ![Main].pc = pc, ![Main].then = then]
    BY <1>0, <2>3 DEF TakeJob, Types, My
  <2>5. Moves(Main) /\ my'[Main].pc = pc /\ my'[Main].then = then
    BY <1>0, <2>3, <2>4, ThenMoves DEF Place, Setup, Flushing
  <2> QED BY <1>0, <2>1, <2>2, <2>3, <2>5 DEF Places, MainPlace, CallerPlace, Setup, Working, Exchange, Flushing
<1>2. /\ UNCHANGED <<buffer, thread, cancelled, loop, semaphore>>
      /\ UNCHANGED <<written, lock, tail, ran, responded, released, active>>
  BY DEF TakeJob, history, threadVars, Keep
<1>8. /\ jobs' \in Seq({"flush", "process"}) /\ Posted(Head(jobs))
      /\ Posted("process")' => Posted("process")
  BY <1>0, <1>1, PostedLess
<1>9. ASSUME Alone, Sequence, Main \in Caller, my'[Main].then \in {"wait", "unlock"} PROVE FALSE
  BY <1>1, <1>9
<1>3. Quiet(Main) /\ Grows
  BY <1>0, <1>1, <1>2, Lengths DEF Quiet, Grows, Exchange
<1>4. Basic'
  <2>1. Allowed(Main)
    BY <1>0, <1>1, Who, CallerAssumption
    DEF Allowed, MainPlace, CallerPlace, Working, Setup, Exchange, Flushing
  <2>2. ThreadTypes'
    BY <1>0, <1>2 DEF Types, ThreadTypes
  <2>3. cancelled' /\ thread' # "nil" => my'[Main].pc \in {"restarting", "stopping"}
    BY <1>0, <1>1, <1>2 DEF Bounds, Moves, Only
  <2> QED BY <1>0, <1>1, <1>2, <1>3, <1>8, <2>1, <2>2, <2>3, BasicKept
      DEF Types, BlockTypes, Bounds
<1>5. ASSUME Alone, Sequence PROVE Sequence'
  BY <1>0, <1>1, <1>2, <1>3, <1>5, <1>9, SequenceKept
  DEF Sequence, Waiting, Types, BlockTypes, Exchange, Flushing
<1>6. ASSUME TakesTurns, ~ Late, ~ Early PROVE TakesTurns'
  BY <1>0, <1>1, <1>2, <1>6, <1>8, CallerAssumption
  DEF TakesTurns, Left, InSetUp, Working, Setup, Exchange, Flushing, Thread, Moves, Only, Bounds, Places, CallerPlace, MainPlace
<1>7. ASSUME TakesTurns, Watched, tail <= Len(written), ~ Stopped PROVE Watched'
  BY <1>0, <1>1, <1>2, <1>7, CallerAssumption DEF Watched, TakesTurns, Left, InSetUp, Working, Setup, Exchange, Flushing, Thread, Moves, Only, Bounds, Places, CallerPlace, MainPlace
<1> QED BY <1>4, <1>5, <1>6, <1>7 DEF Kept

-----------------------------------------------------------------------------
(* The exchange.                                                           *)

\* The threads take turns as before when one goes on, and the
\* real-time thread begins a batch only when it is active.
LEMMA TurnsKept ==
  ASSUME NEW t \in Thread, Places, Only(t), UNCHANGED <<active, thread, jobs>>,
         my'[t].then = my[t].then,
         \/ my[t].pc \in Exchange /\ my'[t].pc \in Exchange
         \/ my[t].pc \in Flushing /\ my'[t].pc \in Flushing /\ t # RT
         \/ my[t].pc = "process" /\ my'[t].pc \in Exchange /\ t # RT
         \/ my[t].pc \in Exchange /\ my'[t].pc = "flush" /\ t # RT
         \/ my[t].pc = "idle" /\ my'[t].pc \in Exchange /\ t = RT /\ active
         \/ my[t].pc \in Exchange /\ my'[t].pc = "idle" /\ t = RT,
         TakesTurns
  PROVE  TakesTurns'
<1>1. ~ Posted("process") => ~ Posted("process")'
  BY PostedKept
<1>2. /\ RT \in Thread /\ Main \in Thread /\ RT # Main /\ (\A s \in Caller : s \in Thread)
      /\ \A s \in Thread : my'[s].then = my[s].then
  BY CallerAssumption DEF Only, Thread
<1>3. /\ Left' <=> Left
      /\ InSetUp' => InSetUp
      /\ my'[RT].pc # "idle" => my[RT].pc # "idle" \/ active
      /\ my'[Main].pc \in {"process"} \cup Exchange => my[Main].pc \in {"process"} \cup Exchange
      /\ \A s \in Caller : s # Main /\ my[s].pc = "done" => my'[s].pc = "done"
  BY <1>2 DEF Left, InSetUp, Setup, Working, Exchange, Flushing, Only
<1> QED BY <1>1, <1>2, <1>3 DEF TakesTurns, Left

\* The batch is done.
LEMMA EndBatchStep ==
  ASSUME Basic, NEW t \in Thread, EndBatch(t)
  PROVE  Kept
<1>0. Types /\ Places /\ Bounds /\ t \in Thread /\ Main \in Thread /\ RT \in Thread
  BY DEF Basic, Thread
<1>1. /\ my[t].pc = "next" /\ my[t].from > my[t].to
      /\ t # RT => my[t].then \in {"setup", "started", "idle", "done", "end", "unlock"}
      /\ t # RT /\ t # Main => my[t].then = "unlock"
      /\ Moves(t) /\ my'[t].then = my[t].then
      /\ my'[t].pc = IF t = RT THEN "idle" ELSE "flush"
  <2>1. my[t].pc = "next" /\ my[t].from > my[t].to
    BY DEF EndBatch, At
  <2>2. PICK pc : /\ pc \in {"idle", "flush"} /\ Goto(t, pc)
                  /\ pc = IF t = RT THEN "idle" ELSE "flush"
    BY DEF EndBatch, AfterBatch
  <2>3. Moves(t) /\ my'[t].pc = pc /\ my'[t].then = my[t].then
    BY <1>0, <2>2, GotoMoves DEF Place, Flushing
  <2> QED BY <1>0, <2>1, <2>2, <2>3, Who DEF Places, MainPlace, CallerPlace, Setup, Working, Exchange, Flushing
<1>2. /\ UNCHANGED <<buffer, jobs, thread, cancelled, loop, semaphore>>
      /\ UNCHANGED <<written, lock, tail, ran, responded, released, active>>
  BY DEF EndBatch, history, mqVars, Keep
<1>8. ASSUME Alone, Sequence, t \in Caller, my[t].then = "unlock" PROVE Dispatched(t)
  <2>1. PICK i \in 1 .. my[t].to : written[i] = t
    BY <1>1, <1>8 DEF Sequence, Waiting, Exchange
  <2>2. \A s \in Thread : my[s].pc # "run" /\ my[s].out = <<>>
    BY <1>0, <1>1, <1>8 DEF Alone, Both, Bounds, Exchange
  <2>3. /\ my[t].from = tail + 1 /\ tail = Len(ran) /\ Taken + Len(buffer) = 2 * Len(ran)
        /\ \A k \in 1 .. Len(ran) : ran[k] = written[k]
    BY <1>1, <1>8, <2>2 DEF Sequence, Batch, Stream, Exchange
  <2>4. my[t].from \in Nat /\ my[t].to \in Nat /\ Len(ran) \in Nat
    BY <1>0, Lengths
  <2>5. i \in 1 .. Len(ran) /\ 2 * i <= 2 * Len(ran)
    BY <1>1, <2>3, <2>4
  <2> QED BY <2>1, <2>3, <2>5 DEF Dispatched
<1>3. Quiet(t) /\ Grows
  BY <1>0, <1>1, <1>2, Lengths DEF Quiet, Grows, Exchange
<1>4. Basic'
  <2>1. Allowed(t)
    BY <1>0, <1>1, Who, CallerAssumption
    DEF Allowed, MainPlace, CallerPlace, Working, Setup, Exchange, Flushing
  <2>2. ThreadTypes'
    BY <1>0, <1>2 DEF Types, ThreadTypes
  <2>3. cancelled' /\ thread' # "nil" => my'[Main].pc \in {"restarting", "stopping"}
    BY <1>0, <1>1, <1>2 DEF Bounds, Moves, Only
  <2> QED BY <1>0, <1>1, <1>2, <1>3, <2>1, <2>2, <2>3, BasicKept
      DEF Types, BlockTypes, Bounds
<1>5. ASSUME Alone, Sequence PROVE Sequence'
  BY <1>0, <1>1, <1>2, <1>3, <1>5, <1>8, CallerAssumption, SequenceKept
  DEF Sequence, Waiting, Types, BlockTypes, Exchange, Flushing
<1>6. ASSUME TakesTurns, ~ Late, ~ Early PROVE TakesTurns'
  BY <1>0, <1>1, <1>2, <1>6, TurnsKept DEF Moves, Exchange
<1>7. ASSUME TakesTurns, Watched, tail <= Len(written), ~ Stopped PROVE Watched'
  BY <1>0, <1>1, <1>2, <1>7, Who, CallerAssumption DEF Watched, TakesTurns, Left, InSetUp, Working, Setup, Exchange, Flushing, Thread, Moves, Only, Bounds, Places, CallerPlace, MainPlace
<1> QED BY <1>4, <1>5, <1>6, <1>7 DEF Kept

\* The thread that dispatched a message looks up the execution thread.
LEMMA CheckThreadStep ==
  ASSUME Basic, NEW t \in Thread, CheckThread(t)
  PROVE  Kept
<1>0. Types /\ Places /\ Bounds /\ t \in Thread /\ Main \in Thread /\ RT \in Thread
  BY DEF Basic, Thread
<1>1. /\ my[t].pc = "check"
      /\ t # RT => my[t].then \in {"setup", "started", "idle", "done", "end", "unlock"}
      /\ t # RT /\ t # Main => my[t].then = "unlock"
      /\ Moves(t) /\ my'[t].then = my[t].then
      /\ \/ my'[t].pc = "next" /\ my[t].out = <<>>
         \/ my'[t].pc = "write" /\ my[t].out # <<>>
         \/ my'[t].pc = "signal" /\ thread # "nil"
  <2>1. my[t].pc = "check"
    BY DEF CheckThread, At
  <2>2. PICK pc : /\ Goto(t, pc)
                  /\ \/ pc = "next" /\ my[t].out = <<>>
                     \/ pc = "write" /\ my[t].out # <<>>
                     \/ pc = "signal" /\ thread # "nil"
    BY DEF CheckThread, AfterDispatch
  <2>3. Moves(t) /\ my'[t].pc = pc /\ my'[t].then = my[t].then
    BY <1>0, <2>2, GotoMoves DEF Place, Exchange
  <2> QED BY <1>0, <2>1, <2>2, <2>3, Who DEF Places, MainPlace, CallerPlace, Setup, Working, Exchange, Flushing
<1>2. /\ UNCHANGED <<buffer, jobs, thread, cancelled, loop, semaphore>>
      /\ UNCHANGED <<written, lock, tail, ran, responded, released, active>>
  BY DEF CheckThread, history, mqVars, Keep
<1>3. Quiet(t) /\ Grows
  BY <1>0, <1>1, <1>2, Lengths DEF Quiet, Grows, Exchange
<1>4. Basic'
  <2>1. Allowed(t)
    BY <1>0, <1>1, Who, CallerAssumption
    DEF Allowed, MainPlace, CallerPlace, Working, Setup, Exchange, Flushing
  <2>2. ThreadTypes'
    BY <1>0, <1>2 DEF Types, ThreadTypes
  <2>3. cancelled' /\ thread' # "nil" => my'[Main].pc \in {"restarting", "stopping"}
    BY <1>0, <1>1, <1>2 DEF Bounds, Moves, Only
  <2> QED BY <1>0, <1>1, <1>2, <1>3, <2>1, <2>2, <2>3, BasicKept
      DEF Types, BlockTypes, Bounds
<1>5. ASSUME Alone, Sequence PROVE Sequence'
  BY <1>0, <1>1, <1>2, <1>3, <1>5, CallerAssumption, SequenceKept
  DEF Sequence, Waiting, Types, BlockTypes, Exchange, Flushing
<1>6. ASSUME TakesTurns, ~ Late, ~ Early PROVE TakesTurns'
  BY <1>0, <1>1, <1>2, <1>6, TurnsKept DEF Moves, Exchange
<1>7. ASSUME TakesTurns, Watched, tail <= Len(written), ~ Stopped PROVE Watched'
  BY <1>0, <1>1, <1>2, <1>7, Who, CallerAssumption DEF Watched, TakesTurns, Left, InSetUp, Working, Setup, Exchange, Flushing, Thread, Moves, Only, Bounds, Places, CallerPlace, MainPlace
<1> QED BY <1>4, <1>5, <1>6, <1>7 DEF Kept

\* It signals the execution thread.
LEMMA SignalThreadStep ==
  ASSUME Basic, NEW t \in Thread, SignalThread(t)
  PROVE  Kept
<1>0. Types /\ Places /\ Bounds /\ t \in Thread /\ Main \in Thread /\ RT \in Thread
  BY DEF Basic, Thread
<1>1. /\ my[t].pc = "signal"
      /\ t # RT => my[t].then \in {"setup", "started", "idle", "done", "end", "unlock"}
      /\ t # RT /\ t # Main => my[t].then = "unlock"
      /\ Moves(t) /\ my'[t].then = my[t].then
      /\ \/ my'[t].pc = "next" /\ my[t].out = <<>>
         \/ my'[t].pc = "write" /\ my[t].out # <<>>
         \/ my'[t].pc = "fault" /\ thread = "nil"
  <2>1. my[t].pc = "signal"
    BY DEF SignalThread, At
  <2>2. PICK pc : /\ Goto(t, pc)
                  /\ \/ pc = "next" /\ my[t].out = <<>>
                     \/ pc = "write" /\ my[t].out # <<>>
                     \/ pc = "fault" /\ thread = "nil"
    BY DEF SignalThread, AfterDispatch
  <2>3. Moves(t) /\ my'[t].pc = pc /\ my'[t].then = my[t].then
    BY <1>0, <2>2, GotoMoves DEF Place, Exchange
  <2> QED BY <1>0, <2>1, <2>2, <2>3, Who DEF Places, MainPlace, CallerPlace, Setup, Working, Exchange, Flushing
<1>2. /\ UNCHANGED <<buffer, jobs, thread, cancelled, loop>>
      /\ semaphore' \in {semaphore, semaphore + 1}
      /\ UNCHANGED <<written, lock, tail, ran, responded, released, active>>
  BY DEF SignalThread, Signal, history, mqVars, threadVars, Keep
<1>3. Quiet(t) /\ Grows
  BY <1>0, <1>1, <1>2, Lengths DEF Quiet, Grows, Exchange
<1>4. Basic'
  <2>1. Allowed(t)
    BY <1>0, <1>1, Who, CallerAssumption
    DEF Allowed, MainPlace, CallerPlace, Working, Setup, Exchange, Flushing
  <2>2. ThreadTypes'
    BY <1>0, <1>2 DEF Types, ThreadTypes
  <2>3. cancelled' /\ thread' # "nil" => my'[Main].pc \in {"restarting", "stopping"}
    BY <1>0, <1>1, <1>2 DEF Bounds, Moves, Only
  <2> QED BY <1>0, <1>1, <1>2, <1>3, <2>1, <2>2, <2>3, BasicKept
      DEF Types, BlockTypes, Bounds
<1>5. ASSUME Alone, Sequence PROVE Sequence'
  BY <1>0, <1>1, <1>2, <1>3, <1>5, CallerAssumption, SequenceKept
  DEF Sequence, Waiting, Types, BlockTypes, Exchange, Flushing
<1>6. ASSUME TakesTurns, ~ Late, ~ Early PROVE TakesTurns'
  BY <1>0, <1>1, <1>2, <1>6, TurnsKept DEF Moves, Exchange
<1>7. ASSUME TakesTurns, Watched, tail <= Len(written), ~ Stopped PROVE Watched'
  BY <1>0, <1>1, <1>2, <1>7, Who, CallerAssumption DEF Watched, TakesTurns, Left, InSetUp, Working, Setup, Exchange, Flushing, Thread, Moves, Only, Bounds, Places, CallerPlace, MainPlace
<1> QED BY <1>4, <1>5, <1>6, <1>7 DEF Kept

-----------------------------------------------------------------------------
(* The calls.                                                              *)

\* A thread that has written its block posts the exchange to the main thread if
\* the queue does not run.
LEMMA CheckOnlineStep ==
  ASSUME Basic, NEW t \in Thread, CheckOnline(t)
  PROVE  Kept
<1>0. Types /\ Places /\ Bounds /\ t \in Thread /\ Main \in Thread /\ RT \in Thread
  BY DEF Basic, Thread
<1>1. /\ my[t].pc = "written" /\ my[t].then \in {"wait", "done"} /\ t # RT
      /\ Moves(t) /\ my'[t].pc = my[t].then /\ my'[t].then = my[t].then
  <2>1. my[t].pc = "written"
    BY DEF CheckOnline, At
  <2>2. t # RT /\ my[t].then \in {"wait", "done"}
    BY <1>0, <2>1, Who DEF Places, MainPlace, CallerPlace, Setup, Working, Exchange, Flushing
  <2>3. PICK pc : pc \in {"wait", "done"} /\ pc = my[t].then
    BY <2>2
  <2>4. Goto(t, pc)
    BY <2>3 DEF CheckOnline, Goto
  <2>5. Moves(t) /\ my'[t].pc = pc /\ my'[t].then = my[t].then
    BY <1>0, <2>3, <2>4, GotoMoves DEF Place
  <2> QED BY <2>1, <2>2, <2>3, <2>5
<1>2. /\ UNCHANGED <<buffer, thread, cancelled, loop, semaphore>> /\ lock' = {}
      /\ UNCHANGED <<written, tail, ran, responded, released, active>>
      /\ jobs' = jobs \/ jobs' = Append(jobs, "process")
  BY DEF CheckOnline, Post, history, mqVars, threadVars
<1>8. jobs' \in Seq({"flush", "process"})
  BY <1>0, <1>2, PostedMore DEF Types
<1>3. Quiet(t) /\ Grows
  BY <1>0, <1>1, <1>2, Lengths DEF Quiet, Grows, Exchange
<1>4. Basic'
  <2>1. Allowed(t)
    BY <1>0, <1>1, Who, CallerAssumption
    DEF Allowed, MainPlace, CallerPlace, Working, Setup, Exchange, Flushing
  <2>2. ThreadTypes'
    BY <1>0, <1>2 DEF Types, ThreadTypes
  <2>3. cancelled' /\ thread' # "nil" => my'[Main].pc \in {"restarting", "stopping"}
    BY <1>0, <1>1, <1>2 DEF Bounds, Moves, Only
  <2> QED BY <1>0, <1>1, <1>2, <1>3, <1>8, <2>1, <2>2, <2>3, BasicKept
      DEF Types, BlockTypes, Bounds
<1>5. ASSUME Alone, Sequence PROVE Sequence'
  BY <1>0, <1>1, <1>2, <1>3, <1>5, Who, CallerAssumption, SequenceKept
  DEF Sequence, Waiting, Types, BlockTypes, Exchange, Flushing
<1>6. ASSUME TakesTurns, ~ Late, ~ Early PROVE TakesTurns'
  BY <1>0, <1>1, <1>2, <1>6, <1>8, NotEarly, CallerAssumption
  DEF TakesTurns, Left, InSetUp, Working, Setup, Exchange, Flushing, Thread, Moves, Only, Bounds, Places, CallerPlace, MainPlace
<1>7. ASSUME TakesTurns, Watched, tail <= Len(written), ~ Stopped PROVE Watched'
  BY <1>0, <1>1, <1>2, <1>7, CallerAssumption DEF Watched, TakesTurns, Left, InSetUp, Working, Setup, Exchange, Flushing, Thread, Moves, Only, Bounds, Places, CallerPlace, MainPlace
<1> QED BY <1>4, <1>5, <1>6, <1>7 DEF Kept

\* A synchronous call returns.
LEMMA ReturnStep ==
  ASSUME Basic, NEW t \in Thread, Return(t)
  PROVE  Kept
<1>0. Types /\ Places /\ Bounds /\ t \in Thread /\ Main \in Thread /\ RT \in Thread
  BY DEF Basic, Thread
<1>1. /\ my[t].pc = "wait" /\ my[t].then = "wait" /\ t # RT
      /\ Moves(t) /\ my'[t].pc = "done" /\ my'[t].then = "done"
  <2>1. my[t].pc = "wait" /\ my' = [my EXCEPT ![t].pc = "done", ![t].then = "done"]
    BY DEF Return, At
  <2>2. Moves(t) /\ my'[t].pc = "done" /\ my'[t].then = "done"
    BY <1>0, <2>1, ThenMoves DEF Place
  <2> QED BY <1>0, <2>1, <2>2, Who DEF Places, MainPlace, CallerPlace, Setup, Working, Exchange, Flushing
<1>2. /\ UNCHANGED <<buffer, jobs, thread, cancelled, loop, semaphore>>
      /\ UNCHANGED <<written, lock, tail, ran, responded, released, active>>
  BY DEF Return, history, mqVars, Keep
<1>3. Quiet(t) /\ Grows
  BY <1>0, <1>1, <1>2, Lengths DEF Quiet, Grows, Exchange
<1>4. Basic'
  <2>1. Allowed(t)
    BY <1>0, <1>1, Who, CallerAssumption
    DEF Allowed, MainPlace, CallerPlace, Working, Setup, Exchange, Flushing
  <2>2. ThreadTypes'
    BY <1>0, <1>2 DEF Types, ThreadTypes
  <2>3. cancelled' /\ thread' # "nil" => my'[Main].pc \in {"restarting", "stopping"}
    BY <1>0, <1>1, <1>2 DEF Bounds, Moves, Only
  <2> QED BY <1>0, <1>1, <1>2, <1>3, <2>1, <2>2, <2>3, BasicKept
      DEF Types, BlockTypes, Bounds
<1>5. ASSUME Alone, Sequence PROVE Sequence'
  BY <1>0, <1>1, <1>2, <1>3, <1>5, SequenceKept
  DEF Sequence, Waiting, Types, BlockTypes, Exchange, Flushing
<1>6. ASSUME TakesTurns, ~ Late, ~ Early PROVE TakesTurns'
  BY <1>0, <1>1, <1>2, <1>6, PostedKept, CallerAssumption
  DEF TakesTurns, Left, InSetUp, Working, Setup, Exchange, Flushing, Thread, Moves, Only, Bounds, Places, CallerPlace, MainPlace
<1>7. ASSUME TakesTurns, Watched, tail <= Len(written), ~ Stopped PROVE Watched'
  BY <1>0, <1>1, <1>2, <1>7, CallerAssumption DEF Watched, TakesTurns, Left, InSetUp, Working, Setup, Exchange, Flushing, Thread, Moves, Only, Bounds, Places, CallerPlace, MainPlace
<1> QED BY <1>4, <1>5, <1>6, <1>7 DEF Kept

\* A thread that waits flushes the queue, or asks the main thread to.
LEMMA PollStep ==
  ASSUME Basic, NEW t \in Thread, Poll(t)
  PROVE  Kept
<1>0. Types /\ Places /\ Bounds /\ t \in Thread /\ Main \in Thread /\ RT \in Thread
  BY DEF Basic, Thread
<1>1. /\ my[t].pc = "wait" /\ my[t].then = "wait" /\ t # RT
      /\ Moves(t) /\ my'[t].then = "wait"
      /\ my'[t].pc \in {"wait", "flush"} /\ (t # Main => my'[t].pc = "wait")
  <2>1. my[t].pc = "wait" /\ my[t].then = "wait" /\ t # RT
    BY <1>0, Who DEF Poll, At, Places, MainPlace, CallerPlace, Setup, Working, Exchange, Flushing
  <2>2. CASE t = Main
    <3>1. Goto(t, "flush")
      BY <2>2 DEF Poll
    <3>2. Moves(t) /\ my'[t].pc = "flush" /\ my'[t].then = my[t].then
      BY <1>0, <3>1, GotoMoves DEF Place, Flushing
    <3> QED BY <2>1, <2>2, <3>2
  <2>3. CASE t # Main
    BY <1>0, <2>1, <2>3 DEF Poll, Types, Moves, Only
  <2> QED BY <2>2, <2>3
<1>2. /\ UNCHANGED <<buffer, thread, cancelled, loop, semaphore>>
      /\ UNCHANGED <<written, lock, tail, ran, responded, released, active>>
      /\ jobs' = jobs \/ jobs' = Append(jobs, "flush")
  BY DEF Poll, Post, Keep, history, mqVars, threadVars
<1>8. jobs' \in Seq({"flush", "process"}) /\ (Posted("process")' => Posted("process"))
  BY <1>0, <1>2, PostedKept, PostedMore DEF Types
<1>3. Quiet(t) /\ Grows
  BY <1>0, <1>1, <1>2, Lengths DEF Quiet, Grows, Exchange
<1>4. Basic'
  <2>1. Allowed(t)
    BY <1>0, <1>1, Who, CallerAssumption
    DEF Allowed, MainPlace, CallerPlace, Working, Setup, Exchange, Flushing
  <2>2. ThreadTypes'
    BY <1>0, <1>2 DEF Types, ThreadTypes
  <2>3. cancelled' /\ thread' # "nil" => my'[Main].pc \in {"restarting", "stopping"}
    BY <1>0, <1>1, <1>2 DEF Bounds, Moves, Only
  <2> QED BY <1>0, <1>1, <1>2, <1>3, <1>8, <2>1, <2>2, <2>3, BasicKept
      DEF Types, BlockTypes, Bounds
<1>5. ASSUME Alone, Sequence PROVE Sequence'
  BY <1>0, <1>1, <1>2, <1>3, <1>5, SequenceKept
  DEF Sequence, Waiting, Types, BlockTypes, Exchange, Flushing
<1>6. ASSUME TakesTurns, ~ Late, ~ Early PROVE TakesTurns'
  BY <1>0, <1>1, <1>2, <1>6, <1>8, CallerAssumption
  DEF TakesTurns, Left, InSetUp, Working, Setup, Exchange, Flushing, Thread, Moves, Only, Bounds, Places, CallerPlace, MainPlace
<1>7. ASSUME TakesTurns, Watched, tail <= Len(written), ~ Stopped PROVE Watched'
  BY <1>0, <1>1, <1>2, <1>7, CallerAssumption DEF Watched, TakesTurns, Left, InSetUp, Working, Setup, Exchange, Flushing, Thread, Moves, Only, Bounds, Places, CallerPlace, MainPlace
<1> QED BY <1>4, <1>5, <1>6, <1>7 DEF Kept

\* A thread gives up waiting and does the exchange itself.
LEMMA GiveUpStep ==
  ASSUME Basic, NEW t \in Thread, GiveUp(t)
  PROVE  Kept
<1>0. Types /\ Places /\ Bounds /\ t \in Thread /\ Main \in Thread /\ RT \in Thread
  BY DEF Basic, Thread
<1>1. /\ my[t].pc = "wait" /\ my[t].then = "wait" /\ t \in Caller
      /\ Moves(t) /\ my'[t].pc = "process" /\ my'[t].then = "unlock"
  <2>1. my[t].pc = "wait" /\ my' = [my EXCEPT ![t].pc = "process", ![t].then = "unlock"]
    BY DEF GiveUp, At
  <2>2. Moves(t) /\ my'[t].pc = "process" /\ my'[t].then = "unlock"
    BY <1>0, <2>1, ThenMoves DEF Place
  <2> QED BY <1>0, <2>1, <2>2, Who DEF Places, MainPlace, CallerPlace, Setup, Working, Exchange, Flushing
<1>2. /\ UNCHANGED <<buffer, jobs, thread, cancelled, loop, semaphore>> /\ lock' = {t}
      /\ UNCHANGED <<written, tail, ran, responded, released, active>>
  BY DEF GiveUp, history, mqVars
<1>8. ~ Late => t = Main /\ ~ active
  BY <1>1 DEF Late, At
<1>3. Quiet(t) /\ Grows
  BY <1>0, <1>1, <1>2, Lengths DEF Quiet, Grows, Exchange
<1>4. Basic'
  <2>1. Allowed(t)
    BY <1>0, <1>1, Who, CallerAssumption
    DEF Allowed, MainPlace, CallerPlace, Working, Setup, Exchange, Flushing
  <2>2. ThreadTypes'
    BY <1>0, <1>2 DEF Types, ThreadTypes
  <2>3. cancelled' /\ thread' # "nil" => my'[Main].pc \in {"restarting", "stopping"}
    BY <1>0, <1>1, <1>2 DEF Bounds, Moves, Only
  <2> QED BY <1>0, <1>1, <1>2, <1>3, <2>1, <2>2, <2>3, BasicKept
      DEF Types, BlockTypes, Bounds
<1>5. ASSUME Alone, Sequence PROVE Sequence'
  BY <1>0, <1>1, <1>2, <1>3, <1>5, SequenceKept
  DEF Sequence, Waiting, Types, BlockTypes, Exchange, Flushing
<1>6. ASSUME TakesTurns, ~ Late, ~ Early PROVE TakesTurns'
  BY <1>0, <1>1, <1>2, <1>6, <1>8, PostedKept, CallerAssumption
  DEF TakesTurns, Left, InSetUp, Working, Setup, Exchange, Flushing, Thread, Moves, Only, Bounds, Places, CallerPlace, MainPlace
<1>7. ASSUME TakesTurns, Watched, tail <= Len(written), ~ Stopped PROVE Watched'
  BY <1>0, <1>1, <1>2, <1>7, CallerAssumption DEF Watched, TakesTurns, Left, InSetUp, Working, Setup, Exchange, Flushing, Thread, Moves, Only, Bounds, Places, CallerPlace, MainPlace
<1> QED BY <1>4, <1>5, <1>6, <1>7 DEF Kept

\* A thread has done the exchange itself.
LEMMA UnlockStep ==
  ASSUME Basic, NEW t \in Thread, Unlock(t)
  PROVE  Kept
<1>0. Types /\ Places /\ Bounds /\ t \in Thread /\ Main \in Thread /\ RT \in Thread
  BY DEF Basic, Thread
<1>1. /\ my[t].pc = "unlock" /\ my[t].then = "unlock" /\ t # RT
      /\ Moves(t) /\ my'[t].pc = "done" /\ my'[t].then = "done"
  <2>1. my[t].pc = "unlock" /\ my' = [my EXCEPT ![t].pc = "done", ![t].then = "done"]
    BY DEF Unlock, At
  <2>2. Moves(t) /\ my'[t].pc = "done" /\ my'[t].then = "done"
    BY <1>0, <2>1, ThenMoves DEF Place
  <2> QED BY <1>0, <2>1, <2>2, Who DEF Places, MainPlace, CallerPlace, Setup, Working, Exchange, Flushing
<1>2. /\ UNCHANGED <<buffer, jobs, thread, cancelled, loop, semaphore>> /\ lock' = {}
      /\ UNCHANGED <<written, tail, ran, responded, released, active>>
  BY DEF Unlock, history, mqVars
<1>3. Quiet(t) /\ Grows
  BY <1>0, <1>1, <1>2, Lengths DEF Quiet, Grows, Exchange
<1>4. Basic'
  <2>1. Allowed(t)
    BY <1>0, <1>1, Who, CallerAssumption
    DEF Allowed, MainPlace, CallerPlace, Working, Setup, Exchange, Flushing
  <2>2. ThreadTypes'
    BY <1>0, <1>2 DEF Types, ThreadTypes
  <2>3. cancelled' /\ thread' # "nil" => my'[Main].pc \in {"restarting", "stopping"}
    BY <1>0, <1>1, <1>2 DEF Bounds, Moves, Only
  <2> QED BY <1>0, <1>1, <1>2, <1>3, <2>1, <2>2, <2>3, BasicKept
      DEF Types, BlockTypes, Bounds
<1>5. ASSUME Alone, Sequence PROVE Sequence'
  BY <1>0, <1>1, <1>2, <1>3, <1>5, SequenceKept
  DEF Sequence, Waiting, Types, BlockTypes, Exchange, Flushing
<1>6. ASSUME TakesTurns, ~ Late, ~ Early PROVE TakesTurns'
  BY <1>0, <1>1, <1>2, <1>6, PostedKept, CallerAssumption
  DEF TakesTurns, Left, InSetUp, Working, Setup, Exchange, Flushing, Thread, Moves, Only, Bounds, Places, CallerPlace, MainPlace
<1>7. ASSUME TakesTurns, Watched, tail <= Len(written), ~ Stopped PROVE Watched'
  BY <1>0, <1>1, <1>2, <1>7, CallerAssumption DEF Watched, TakesTurns, Left, InSetUp, Working, Setup, Exchange, Flushing, Thread, Moves, Only, Bounds, Places, CallerPlace, MainPlace
<1> QED BY <1>4, <1>5, <1>6, <1>7 DEF Kept

\* A block is written.
LEMMA WriteBlockStep ==
  ASSUME Basic, NEW t \in Caller, NEW synchronous \in BOOLEAN, WriteBlock(t, synchronous)
  PROVE  Kept
<1>0. Types /\ Places /\ Bounds /\ t \in Thread /\ Main \in Thread /\ RT \in Thread
  BY DEF Basic, Thread
<1>1. /\ my[t].pc = "idle" /\ my[t].then # "end"
      /\ Moves(t) /\ my'[t].pc = "written" /\ my'[t].then \in {"wait", "done"}
  <2>1. my[t].pc = "idle"
    BY DEF WriteBlock, At
  <2>2. PICK then : /\ then \in {"wait", "done"}
                    /\ my' = [my EXCEPT ![t].pc = "written", ![t].then = then]
    BY DEF WriteBlock
  <2>3. Moves(t) /\ my'[t].pc = "written" /\ my'[t].then = then
    BY <1>0, <2>2, ThenMoves DEF Place
  <2> QED BY <1>0, <2>1, <2>2, <2>3, Who, CallerAssumption
      DEF Places, MainPlace, CallerPlace, Setup, Working, Exchange, Flushing
<1>2. /\ UNCHANGED <<buffer, jobs, thread, cancelled, loop, semaphore>>
      /\ UNCHANGED <<active, tail, ran, responded, released>>
      /\ lock' = {t} /\ written' = Append(written, t)
  BY DEF WriteBlock, history, mqVars
<1>8. /\ written' \in Seq(Caller) /\ Len(written') = Len(written) + 1
      /\ \A i \in 1 .. Len(written) : written'[i] = written[i]
      /\ written'[Len(written) + 1] = t
  BY <1>0, <1>2, AppendProperties DEF Types, BlockTypes
<1>3. Quiet(t) /\ Grows
  <2>1. Quiet(t)
    BY <1>1, <1>2 DEF Quiet, Exchange
  <2>2. Grows
    BY <1>0, <1>8, Lengths DEF Grows
  <2> QED BY <2>1, <2>2
<1>4. Basic'
  <2>1. Allowed(t)
    BY <1>0, <1>1, Who, CallerAssumption
    DEF Allowed, MainPlace, CallerPlace, Working, Setup, Exchange, Flushing
  <2>2. ThreadTypes'
    BY <1>0, <1>2 DEF Types, ThreadTypes
  <2>3. cancelled' /\ thread' # "nil" => my'[Main].pc \in {"restarting", "stopping"}
    BY <1>0, <1>1, <1>2 DEF Bounds, Moves, Only
  <2> QED BY <1>0, <1>1, <1>2, <1>3, <1>8, <2>1, <2>2, <2>3, BasicKept
      DEF Types, BlockTypes, Bounds
<1>5. ASSUME Alone, Sequence PROVE Sequence'
  <2>1. Among(t, written')
    BY <1>0, <1>8, Lengths DEF Among
  <2> QED BY <1>0, <1>1, <1>2, <1>3, <1>5, <1>8, <2>1, SequenceKept
<1>6. ASSUME TakesTurns, ~ Late, ~ Early PROVE TakesTurns'
  BY <1>0, <1>1, <1>2, <1>6, PostedKept, CallerAssumption
  DEF TakesTurns, Left, InSetUp, Working, Setup, Exchange, Flushing, Thread, Moves, Only, Bounds,
      Places, CallerPlace, MainPlace
<1>7. ASSUME TakesTurns, Watched, tail <= Len(written), ~ Stopped PROVE Watched'
  BY <1>0, <1>1, <1>2, <1>7, CallerAssumption DEF Watched, Thread, Moves, Only
<1> QED BY <1>4, <1>5, <1>6, <1>7 DEF Kept

\* The execution thread takes a step.
LEMMA ExecutionThreadStep ==
  ASSUME Basic, ExecutionStep
  PROVE  Kept
<1>0. Types /\ Places /\ Bounds /\ Main \in Thread /\ RT \in Thread
  BY DEF Basic, Thread
<1>1. Moves(Main) /\ my' = my
  BY <1>0 DEF ExecutionStep, Moves, Only, Types
<1>2. /\ UNCHANGED <<written, lock, active, tail, ran, responded, released, buffer>>
      /\ cancelled' = cancelled /\ (jobs' = jobs \/ jobs' = Append(jobs, "flush"))
      /\ \/ thread = "starting" /\ thread' = "executing" /\ UNCHANGED <<semaphore, loop>>
         \/ isRunning /\ cancelled /\ thread' = "finished" /\ UNCHANGED <<semaphore, loop>>
         \/ /\ thread' = thread /\ loop' \in {"test", "wait", "check"}
            /\ semaphore' = semaphore \/ (semaphore > 0 /\ semaphore' = semaphore - 1)
  BY DEF ExecutionStep, ExecutionThread, Begin, TestCancelled, Wait, CheckPending, history
<1>8. jobs' \in Seq({"flush", "process"}) /\ (Posted("process")' => Posted("process"))
  BY <1>0, <1>2, PostedKept, PostedMore DEF Types
<1>3. Quiet(Main) /\ Grows
  BY <1>0, <1>1, <1>2, Lengths DEF Quiet, Grows
<1>4. Basic'
  <2>1. Allowed(Main)
    BY <1>0, <1>1, Who DEF Allowed
  <2>2. ThreadTypes'
    <3>1. thread' \in {"nil", "created", "starting", "executing", "finished"}
      BY <1>0, <1>2 DEF Types, ThreadTypes
    <3>2. semaphore' \in Nat /\ loop' \in {"test", "wait", "check"}
      BY <1>0, <1>2 DEF Types, ThreadTypes
    <3>3. cancelled' \in BOOLEAN
      BY <1>0, <1>2 DEF Types, ThreadTypes
    <3> QED BY <3>1, <3>2, <3>3 DEF ThreadTypes
  <2>3. cancelled' /\ thread' # "nil" => my'[Main].pc \in {"restarting", "stopping"}
    BY <1>0, <1>1, <1>2 DEF Bounds, isRunning
  <2> QED BY <1>0, <1>1, <1>2, <1>3, <1>8, <2>1, <2>2, <2>3, BasicKept
      DEF Types, BlockTypes, Bounds
<1>5. ASSUME Alone, Sequence PROVE Sequence'
  BY <1>0, <1>1, <1>2, <1>3, <1>5, SequenceKept DEF Sequence, Waiting, Types, BlockTypes
<1>6. ASSUME TakesTurns, ~ Late, ~ Early PROVE TakesTurns'
  BY <1>0, <1>1, <1>2, <1>6, <1>8
  DEF TakesTurns, Left, InSetUp, Setup, Bounds, isRunning, Places, MainPlace, Working,
      Exchange, Flushing
<1>7. ASSUME TakesTurns, Watched, tail <= Len(written), ~ Stopped PROVE Watched'
  BY <1>0, <1>1, <1>2, <1>7 DEF Watched
<1> QED BY <1>4, <1>5, <1>6, <1>7 DEF Kept

-----------------------------------------------------------------------------
(* The messages.                                                           *)

\* What was an answer stays one when another block runs.
LEMMA AnswersStay ==
  ASSUME NEW S, NEW r \in Seq(S), NEW b \in S, NEW m, NEW n, IsAnswer(r, m, n)
  PROVE  IsAnswer(Append(r, b), m, n)
<1>1. PICK k \in 1 .. Len(r) : \/ n = 2 * k - 1 /\ m = <<"respond", r[k]>>
                               \/ n = 2 * k /\ m = <<"release", r[k]>>
  BY DEF IsAnswer
<1>2. /\ Len(r) \in Nat /\ Len(Append(r, b)) = Len(r) + 1
      /\ Append(r, b)[k] = r[k]
  BY AppendProperties
<1>3. k \in 1 .. Len(Append(r, b))
  BY <1>2
<1> QED BY <1>1, <1>2, <1>3 DEF IsAnswer

\* When every message up to the answer to a block has been handled, it has been answered.
LEMMA AllAnswered ==
  ASSUME Types, Sequence, NEW t \in Caller, Dispatched(t), buffer = <<>>,
         \A s \in Thread : my[s].pc # "handle"
  PROVE  Among(t, responded)
<1>1. PICK i \in 1 .. Len(ran) : ran[i] = t /\ 2 * i <= Taken + Len(buffer)
  BY DEF Dispatched
<1>2. /\ Len(responded) \in Nat /\ Len(released) \in Nat /\ Len(ran) \in Nat
      /\ Len(buffer) = 0
  BY Lengths
<1>3. 2 * i <= Len(responded) + Len(released)
  BY <1>1, <1>2 DEF Taken, Handled
<1>4. i <= Len(responded)
  BY <1>2, <1>3 DEF Sequence, Answered
<1>5. i \in 1 .. Len(responded) /\ responded[i] = t
  BY <1>1, <1>2, <1>4 DEF Sequence, Answered
<1> QED BY <1>5 DEF Among


\* A flush comes to its end.
LEMMA FlushedStep ==
  ASSUME Basic, NEW t \in Thread, buffer = <<>>, CopyLastMessage(t)
  PROVE  Kept
<1>0. Types /\ Places /\ Bounds /\ t \in Thread /\ Main \in Thread /\ RT \in Thread
  BY DEF Basic, Thread
<1>1. /\ my[t].pc = "flush" /\ t # RT
      /\ my[t].then \in {"setup", "started", "idle", "done", "end", "wait", "unlock"}
      /\ t # Main => my[t].then = "unlock"
      /\ Moves(t) /\ my'[t].pc = my[t].then /\ my'[t].then = my[t].then
  <2>1. my[t].pc = "flush"
    BY DEF CopyLastMessage, At
  <2>2. /\ t # RT /\ my[t].then \in {"setup", "started", "idle", "done", "end", "wait", "unlock"}
        /\ t # Main => my[t].then = "unlock"
    BY <1>0, <2>1, Who DEF Places, MainPlace, CallerPlace, Setup, Working, Exchange, Flushing
  <2>3. PICK pc : /\ pc \in {"setup", "started", "idle", "done", "end", "wait", "unlock"}
                  /\ pc = my[t].then
    BY <2>2
  <2>4. Goto(t, pc)
    BY <2>3 DEF CopyLastMessage, Goto
  <2>5. Moves(t) /\ my'[t].pc = pc /\ my'[t].then = my[t].then
    BY <1>0, <2>3, <2>4, GotoMoves DEF Place, Setup
  <2> QED BY <2>1, <2>2, <2>3, <2>5
<1>2. /\ UNCHANGED <<buffer, jobs, thread, cancelled, loop, semaphore>>
      /\ UNCHANGED <<written, lock, tail, ran, responded, released, active>>
  BY DEF CopyLastMessage, history, mqVars, Keep
<1>8. ASSUME Alone, Sequence, t \in Caller, my[t].then = "unlock" PROVE Among(t, responded)
  <2>1. Dispatched(t)
    BY <1>1, <1>8 DEF Sequence, Waiting, Flushing
  <2>2. \A s \in Thread : my[s].pc # "handle"
    BY <1>1, <1>8 DEF Alone, Both, Flushing
  <2> QED BY <1>0, <1>8, <2>1, <2>2, AllAnswered
<1>3. Quiet(t) /\ Grows
  BY <1>0, <1>1, <1>2, Lengths DEF Quiet, Grows, Exchange
<1>4. Basic'
  <2>1. Allowed(t)
    BY <1>0, <1>1, Who, CallerAssumption
    DEF Allowed, MainPlace, CallerPlace, Working, Setup, Exchange, Flushing
  <2>2. ThreadTypes'
    BY <1>0, <1>2 DEF Types, ThreadTypes
  <2>3. cancelled' /\ thread' # "nil" => my'[Main].pc \in {"restarting", "stopping"}
    BY <1>0, <1>1, <1>2 DEF Bounds, Moves, Only
  <2> QED BY <1>0, <1>1, <1>2, <1>3, <2>1, <2>2, <2>3, BasicKept
      DEF Types, BlockTypes, Bounds
<1>5. ASSUME Alone, Sequence PROVE Sequence'
  BY <1>0, <1>1, <1>2, <1>3, <1>5, <1>8, SequenceKept
  DEF Sequence, Waiting, Types, BlockTypes, Exchange, Flushing
<1>6. ASSUME TakesTurns, ~ Late, ~ Early PROVE TakesTurns'
  BY <1>0, <1>1, <1>2, <1>6, PostedKept, CallerAssumption
  DEF TakesTurns, Left, InSetUp, Working, Setup, Exchange, Flushing, Thread, Moves, Only, Bounds, Places, CallerPlace, MainPlace
<1>7. ASSUME TakesTurns, Watched, tail <= Len(written), ~ Stopped PROVE Watched'
  BY <1>0, <1>1, <1>2, <1>7, CallerAssumption DEF Watched, TakesTurns, Left, InSetUp, Working, Setup, Exchange, Flushing, Thread, Moves, Only, Bounds, Places, CallerPlace, MainPlace
<1> QED BY <1>4, <1>5, <1>6, <1>7 DEF Kept

\* The messages that have been taken are counted by a number.
LEMMA TakenNat ==
  ASSUME Types
  PROVE  Taken \in Nat
<1>1. Handled \in Nat
  BY Lengths DEF Handled
<1> QED BY <1>1 DEF Taken

\* No message is taken when no thread begins or ends to handle one.
LEMMA TakenSame ==
  ASSUME \A s \in Thread : my'[s].pc = "handle" <=> my[s].pc = "handle",
         responded' = responded, released' = released
  PROVE  Taken' = Taken
BY DEF Taken, Handled

\* One is when the first thread begins to.
LEMMA TakenOne ==
  ASSUME NEW t \in Thread, my'[t].pc = "handle", \A s \in Thread : my[s].pc # "handle", Types,
         responded' = responded, released' = released
  PROVE  Taken' = Taken + 1
<1>1. Handled' = Handled /\ Handled \in Nat
  BY Lengths DEF Handled
<1>2. Taken = Handled
  BY <1>1 DEF Taken
<1>3. Taken' = Handled' + 1
  BY DEF Taken
<1> QED BY <1>1, <1>2, <1>3

\* Types, places and bounds when a thread takes a step of the exchange or of a flush.
LEMMA StepBasic ==
  ASSUME NEW t \in Thread, Basic, Only(t), Allowed(t), UNCHANGED <<written, lock, active, jobs>>,
         buffer' \in Seq(Message), UNCHANGED <<thread, cancelled, semaphore, loop>>,
         tail' \in Nat, ran' \in Seq(Caller), responded' \in Seq(Caller), released' \in Seq(Caller),
         my'[t].pc \notin {"restarting", "stopping"}, my[t].pc \notin {"restarting", "stopping"},
         my'[t].from >= 1, my'[t].to <= Len(written),
         my'[t].pc = "run" => my'[t].from - 1 \in 1 .. Len(written),
         my'[t].out # <<>> => my'[t].pc \in {"write", "check", "signal", "fault"},
         my'[t].pc = "write" => my'[t].out # <<>>,
         my'[t].pc = "handle" => my'[t].in \in Message
  PROVE  Basic'
<1>1. Types /\ Places /\ Bounds /\ Main \in Thread
  BY DEF Basic, Thread
<1>2. Types'
  BY <1>1 DEF Types, ThreadTypes, BlockTypes, Only
<1>3. Places'
  BY <1>1, PlacesKept
<1>4. Bounds'
  <2>1. \A s \in Thread :
       /\ my'[s].from >= 1 /\ my'[s].to <= Len(written)
       /\ my'[s].pc = "run" => my'[s].from - 1 \in 1 .. Len(written)
       /\ my'[s].out # <<>> => my'[s].pc \in {"write", "check", "signal", "fault"}
       /\ my'[s].pc = "write" => my'[s].out # <<>>
       /\ my'[s].pc = "handle" => my'[s].in \in Message
    <3> HIDE DEF Message
    <3> QED BY <1>1 DEF Bounds, Only
  <2>2. cancelled' /\ thread' # "nil" => my'[Main].pc \in {"restarting", "stopping"}
    BY <1>1 DEF Bounds, Only
  <2> QED BY <2>1, <2>2 DEF Bounds
<1> QED BY <1>2, <1>3, <1>4 DEF Basic

\* And the execution thread is watched as before.
LEMMA WatchedKept ==
  ASSUME NEW t \in Thread, Places, Only(t), UNCHANGED <<active, thread>>,
         my'[t].pc \notin {"signal", "fault"}, t = RT => active,
         Watched
  PROVE  Watched'
BY CallerAssumption DEF Watched, Only, Thread

\* A batch begins.
LEMMA GetForReadStep ==
  ASSUME Basic, NEW t \in Thread, GetForRead(t)
  PROVE  Kept
<1>0. /\ Types /\ Places /\ Bounds /\ Main \in Thread /\ RT \in Thread
      /\ \A s \in Caller : s \in Thread
  BY DEF Basic, Thread
<1>1. /\ t # RT => /\ my[t].pc = "process"
                   /\ my[t].then \in {"setup", "started", "idle", "done", "end", "unlock"}
                   /\ t # Main => my[t].then = "unlock"
      /\ t = RT => my[t].pc = "idle" /\ active
      /\ Only(t) /\ my'[t].then = my[t].then /\ my'[t].out = my[t].out /\ my'[t].in = my[t].in
      /\ \/ /\ my'[t].pc = "next" /\ tail <= Len(written)
            /\ my'[t].from = tail + 1 /\ my'[t].to = Len(written)
         \/ /\ my'[t].pc = "fault" /\ ~ (tail <= Len(written))
            /\ my'[t].from = my[t].from /\ my'[t].to = my[t].to
  <2>1. my[t].pc = "process" \/ (t = RT /\ active /\ my[t].pc = "idle")
    BY DEF GetForRead, At
  <2>2. CASE tail <= Len(written)
    <3>1. my' = [my EXCEPT ![t].pc = "next", ![t].from = tail + 1, ![t].to = Len(written)]
      BY <2>2 DEF GetForRead
    <3>2. tail + 1 \in Nat /\ Len(written) \in Nat /\ "next" \in Place
      BY <1>0 DEF Types, BlockTypes, Place, Exchange
    <3>3. /\ Only(t) /\ my'[t].pc = "next" /\ my'[t].then = my[t].then
          /\ my'[t].from = tail + 1 /\ my'[t].to = Len(written)
          /\ my'[t].out = my[t].out /\ my'[t].in = my[t].in
      BY <1>0, <3>1, <3>2 DEF Types, My, Only
    <3> QED BY <1>0, <2>1, <2>2, <3>3, Who
        DEF Places, MainPlace, CallerPlace, Setup, Working, Exchange, Flushing
  <2>3. CASE ~ (tail <= Len(written))
    <3>1. Goto(t, "fault")
      BY <2>3 DEF GetForRead
    <3>2. Moves(t) /\ my'[t].pc = "fault" /\ my'[t].then = my[t].then
      BY <1>0, <3>1, GotoMoves DEF Place, Exchange
    <3> QED BY <1>0, <2>1, <2>3, <3>2, Who
        DEF Places, MainPlace, CallerPlace, Setup, Working, Exchange, Flushing, Moves
  <2> QED BY <2>2, <2>3
<1>2. /\ UNCHANGED <<buffer, jobs, thread, cancelled, loop, semaphore>>
      /\ UNCHANGED <<written, lock, active, tail, ran, responded, released>>
  BY DEF GetForRead, history, mqVars, Keep
<1>3. my[t].pc \notin Exchange \cup {"handle", "unlock", "written", "wait"} /\ my[t].out = <<>>
  BY <1>0, <1>1 DEF Bounds, Exchange
<1>4. Basic'
  <2>1. Allowed(t)
    BY <1>0, <1>1, Who, CallerAssumption
    DEF Allowed, MainPlace, CallerPlace, Working, Setup, Exchange, Flushing
  <2>2. my'[t].from >= 1 /\ my'[t].to <= Len(written)
    BY SMTT(30), <1>0, <1>1, Lengths DEF Bounds, Types, BlockTypes
  <2> QED BY <1>0, <1>1, <1>2, <1>3, <2>1, <2>2, StepBasic DEF Types, BlockTypes
<1>5. ASSUME Alone, Sequence PROVE Sequence'
  <2>1. /\ my'[t].pc = "next" /\ my'[t].from = tail + 1 /\ my'[t].to = Len(written)
        /\ \A s \in Thread : s # t => my'[s] = my[s]
    BY <1>1, <1>5 DEF Sequence, Batch, Only
  <2>2. Batch'
    BY <1>2, <1>3, <1>5, <2>1 DEF Sequence, Batch, Exchange
  <2>3. Stream' /\ Taken' = Taken
    <3>1. \A s \in Thread : /\ my'[s].pc = "handle" <=> my[s].pc = "handle"
                           /\ my'[s].in = my[s].in /\ my'[s].out = my[s].out
      BY <1>1, <1>3, <2>1
    <3> QED BY <1>2, <1>5, <3>1, StreamSame DEF Sequence
  <2>4. Answered'
    BY <1>2, <1>5 DEF Sequence, Answered
  <2>5. Waiting'
    <3>1. my[t].then = "unlock" /\ t \in Caller => \E i \in 1 .. my'[t].to : written[i] = t
      BY <1>5, <2>1 DEF Sequence, Waiting, Among
    <3> QED BY SMTT(30), <1>0, <1>1, <1>2, <1>5, <2>1, <2>3, <3>1
        DEF Sequence, Waiting, Among, Dispatched, Exchange, Flushing
  <2> QED BY <2>2, <2>3, <2>4, <2>5 DEF Sequence
<1>6. ASSUME TakesTurns, ~ Late, ~ Early PROVE TakesTurns'
  BY <1>0, <1>1, <1>2, <1>6, TurnsKept DEF Exchange
<1>7. ASSUME TakesTurns, Watched, tail <= Len(written), ~ Stopped PROVE Watched'
  BY <1>0, <1>1, <1>2, <1>7, WatchedKept
<1> QED BY <1>4, <1>5, <1>6, <1>7 DEF Kept

\* A block is marked as read.
LEMMA TakeBlockStep ==
  ASSUME Basic, NEW t \in Thread, TakeBlock(t)
  PROVE  Kept
<1>0. /\ Types /\ Places /\ Bounds /\ Main \in Thread /\ RT \in Thread
      /\ \A s \in Caller : s \in Thread
  BY DEF Basic, Thread
<1>1. /\ my[t].pc = "next" /\ my[t].from <= my[t].to
      /\ Only(t) /\ my'[t].pc = "run" /\ my'[t].then = my[t].then
      /\ my'[t].from = my[t].from + 1 /\ my'[t].to = my[t].to
      /\ my'[t].out = my[t].out /\ my'[t].in = my[t].in
  <2>1. /\ my[t].pc = "next" /\ my[t].from <= my[t].to
        /\ my' = [my EXCEPT ![t].pc = "run", ![t].from = @ + 1]
    BY DEF TakeBlock, At
  <2>2. "run" \in Place
    BY DEF Place, Exchange
  <2>3. PICK n \in Nat : n = my[t].from + 1
    BY <1>0, Lengths
  <2>4. my' = [my EXCEPT ![t].pc = "run", ![t].from = n]
    BY <1>0, <2>1, <2>3 DEF Types, My
  <2>5. /\ Only(t) /\ my'[t].pc = "run" /\ my'[t].then = my[t].then
        /\ my'[t].from = n /\ my'[t].to = my[t].to
        /\ my'[t].out = my[t].out /\ my'[t].in = my[t].in
    BY <1>0, <2>2, <2>3, <2>4 DEF Types, My, Only
  <2> QED BY <2>1, <2>3, <2>5
<1>2. /\ UNCHANGED <<buffer, jobs, thread, cancelled, loop, semaphore>>
      /\ UNCHANGED <<written, lock, active, ran, responded, released>> /\ tail' = tail + 1
  BY DEF TakeBlock, MarkRead, history, mqVars, Keep
<1>3. /\ my[t].from \in Nat /\ my[t].to \in Nat /\ Len(written) \in Nat /\ Len(ran) \in Nat
      /\ my[t].from >= 1 /\ my[t].to <= Len(written) /\ my[t].out = <<>> /\ tail \in Nat
  BY <1>0, <1>1, Lengths DEF Bounds, Types, BlockTypes
<1>4. Basic'
  <2>1. Allowed(t)
    BY <1>0, <1>1, Who, CallerAssumption
    DEF Allowed, MainPlace, CallerPlace, Working, Setup, Exchange, Flushing
  <2>2. /\ my'[t].from >= 1 /\ my'[t].to <= Len(written)
        /\ my'[t].from - 1 \in 1 .. Len(written) /\ tail' \in Nat
    BY SMTT(30), <1>1, <1>2, <1>3
  <2> QED BY <1>0, <1>1, <1>2, <1>3, <2>1, <2>2, StepBasic DEF Types, BlockTypes
<1>5. ASSUME Alone, Sequence PROVE Sequence'
  <2>1. \A s \in Thread : s # t => my'[s] = my[s] /\ my[s].pc \notin Exchange
    BY <1>1, <1>5 DEF Alone, Both, Exchange, Only
  <2>2. my[t].from = tail + 1 /\ tail = Len(ran)
    BY <1>1, <1>5, <2>1 DEF Sequence, Batch, Exchange
  <2>3. Batch'
    BY <1>1, <1>2, <1>3, <1>5, <2>1, <2>2 DEF Sequence, Batch, Exchange
  <2>4. Stream' /\ Taken' = Taken
    BY <1>1, <1>2, <1>5, <2>1, StreamSame DEF Sequence
  <2>5. Answered'
    BY <1>2, <1>5 DEF Sequence, Answered
  <2>6. Waiting'
    BY <1>0, <1>1, <1>2, <1>5, <2>1, <2>4
    DEF Sequence, Waiting, Among, Dispatched, Exchange, Flushing
  <2> QED BY <2>3, <2>4, <2>5, <2>6 DEF Sequence
<1>6. ASSUME TakesTurns, ~ Late, ~ Early PROVE TakesTurns'
  BY <1>0, <1>1, <1>2, <1>6, TurnsKept DEF Exchange
<1>7. ASSUME TakesTurns, Watched, tail <= Len(written), ~ Stopped PROVE Watched'
  BY <1>0, <1>1, <1>2, <1>7, WatchedKept DEF Watched
<1> QED BY <1>4, <1>5, <1>6, <1>7 DEF Kept

\* A pair is a sequence.
LEMMA PairIsSeq ==
  ASSUME NEW S, NEW x \in S, NEW y \in S
  PROVE  <<x, y>> \in Seq(S)
<1>1. <<x, y>> \in [1 .. 2 -> S]
  OBVIOUS
<1> QED BY <1>1, SeqDef

\* A block is run.
LEMMA RunStep ==
  ASSUME Basic, NEW t \in Thread, Run(t)
  PROVE  Kept
<1>0. /\ Types /\ Places /\ Bounds /\ Main \in Thread /\ RT \in Thread
      /\ \A s \in Caller : s \in Thread
  BY DEF Basic, Thread
<1>a. /\ my[t].pc = "run" /\ my[t].from - 1 \in 1 .. Len(written) /\ my[t].out = <<>>
      /\ my[t].from \in Nat /\ my[t].to \in Nat /\ Len(ran) \in Nat /\ Len(written) \in Nat
      /\ written \in Seq(Caller) /\ ran \in Seq(Caller)
  BY <1>0, Lengths DEF Run, At, Bounds, Types, BlockTypes
<1>c. PICK b \in Caller : b = written[my[t].from - 1]
  BY <1>a
<1>1. /\ Only(t) /\ my'[t].pc = "write" /\ my'[t].then = my[t].then
      /\ my'[t].from = my[t].from /\ my'[t].to = my[t].to
      /\ my'[t].out = Answers(b) /\ my'[t].in = my[t].in
  <2>1. my' = [my EXCEPT ![t].pc = "write", ![t].out = Answers(b)]
    BY <1>c DEF Run
  <2>2. PICK out \in Seq(Message) : out = Answers(b)
    <3>1. <<"respond", b>> \in Message /\ <<"release", b>> \in Message
      BY DEF Message
    <3> HIDE DEF Message
    <3> QED BY <3>1, PairIsSeq DEF Answers
  <2>3. "write" \in Place
    BY DEF Place, Exchange
  <2>4. my' = [my EXCEPT ![t].pc = "write", ![t].out = out]
    BY <2>1, <2>2
  <2> HIDE DEF Message, Place, Answers
  <2> QED BY <1>0, <2>2, <2>3, <2>4 DEF Types, My, Only
<1>2. /\ UNCHANGED <<buffer, jobs, thread, cancelled, loop, semaphore>>
      /\ UNCHANGED <<written, lock, active, responded, released, tail>>
      /\ ran' = Append(ran, b)
  BY <1>c DEF Run, mqVars, Keep
<1>11. /\ ran' \in Seq(Caller) /\ Len(ran') = Len(ran) + 1
       /\ \A k \in 1 .. Len(ran) : ran'[k] = ran[k]
       /\ ran'[Len(ran) + 1] = b
  BY <1>a, <1>2, AppendProperties
<1>12. Answers(b) # <<>> /\ Len(Answers(b)) = 2
       /\ Answers(b)[1] = <<"respond", b>> /\ Answers(b)[2] = <<"release", b>>
  BY DEF Answers
<1>4. Basic'
  <2>1. Allowed(t)
    BY <1>0, <1>1, <1>a, Who, CallerAssumption
    DEF Allowed, MainPlace, CallerPlace, Working, Setup, Exchange, Flushing
  <2>2. my'[t].from >= 1 /\ my'[t].to <= Len(written)
    BY <1>0, <1>1 DEF Bounds
  <2> QED BY <1>0, <1>1, <1>2, <1>a, <1>11, <1>12, <2>1, <2>2, StepBasic DEF Types, BlockTypes
<1>5. ASSUME Alone, Sequence PROVE Sequence'
  <2>1. \A s \in Thread : s # t => my'[s] = my[s] /\ my[s].pc \notin Exchange /\ my[s].out = <<>>
    BY <1>0, <1>1, <1>a, <1>5 DEF Alone, Both, Bounds, Exchange, Only
  <2>2. my[t].from = tail + 1 /\ tail = Len(ran) + 1
    BY <1>a, <1>5 DEF Sequence, Batch, Exchange
  <2>3. b = written[Len(ran) + 1] /\ tail <= Len(written)
    BY <1>a, <1>c, <1>5, <2>2 DEF Sequence, Batch
  <2>4. Batch'
    <3>1. Len(ran') <= Len(written) /\ tail = Len(ran')
          /\ \A k \in 1 .. Len(ran') : ran'[k] = written[k]
      <4>1. \A k \in 1 .. Len(ran) : ran'[k] = written[k]
        BY <1>11, <1>5 DEF Sequence, Batch
      <4> QED BY SMTT(30), <1>a, <1>11, <2>2, <2>3, <4>1
    <3>2. \A s \in Thread : my'[s].pc # "run"
      BY <1>1, <2>1 DEF Exchange
    <3>3. my'[t].from = tail + 1 /\ \A s \in Thread : s # t => my'[s].pc \notin Exchange
      BY <1>1, <2>1, <2>2
    <3> QED BY <1>2, <2>3, <3>1, <3>2, <3>3 DEF Batch
  <2>5. Stream' /\ Taken' = Taken
    <3>a. \A s \in Thread : my'[s].pc = "handle" <=> my[s].pc = "handle"
      BY <1>1, <1>a, <2>1
    <3>1. Taken' = Taken /\ Taken \in Nat /\ Len(buffer) \in Nat
      BY <1>0, <1>2, <3>a, TakenSame, TakenNat, Lengths
    <3>2. Taken + Len(buffer) = 2 * Len(ran)
      BY <1>a, <1>5, <2>1 DEF Sequence, Stream
    <3>3. \A m, n : IsAnswer(ran, m, n) => IsAnswer(ran', m, n)
      BY <1>a, <1>2, AnswersStay
    <3>4. /\ IsAnswer(ran', <<"respond", b>>, Taken + Len(buffer) + 1)
          /\ IsAnswer(ran', <<"release", b>>, Taken + Len(buffer) + 2)
      <4>1. Len(ran) + 1 \in 1 .. Len(ran')
        BY <1>a, <1>11
      <4>2. /\ Taken + Len(buffer) + 1 = 2 * (Len(ran) + 1) - 1
            /\ Taken + Len(buffer) + 2 = 2 * (Len(ran) + 1)
        BY <1>a, <3>2
      <4> QED BY <1>11, <4>1, <4>2 DEF IsAnswer
    <3> HIDE DEF IsAnswer, Taken
    <3>5. \A s \in Thread : my'[s].pc = "handle" => IsAnswer(ran', my'[s].in, Taken')
      BY <1>1, <1>5, <2>1, <3>1, <3>3 DEF Sequence, Stream
    <3>6. \A k \in 1 .. Len(buffer') : IsAnswer(ran', buffer'[k], Taken' + k)
      BY <1>2, <1>5, <3>1, <3>3 DEF Sequence, Stream
    <3>7. \A k \in 1 .. Len(my'[t].out) : IsAnswer(ran', my'[t].out[k], Taken' + Len(buffer') + k)
      <4>1. \A k \in 1 .. 2 : k = 1 \/ k = 2
        OBVIOUS
      <4> QED BY <1>1, <1>2, <1>12, <3>1, <3>4, <4>1
    <3>8. \A s \in Thread : \A k \in 1 .. Len(my'[s].out) :
            IsAnswer(ran', my'[s].out[k], Taken' + Len(buffer') + k)
      <4>1. ASSUME NEW s \in Thread, s # t PROVE 1 .. Len(my'[s].out) = {}
        BY <2>1, <4>1
      <4> QED BY <3>7, <4>1
    <3>9. Taken' + Len(buffer') + Len(my'[t].out) = 2 * Len(ran')
      <4>1. Len(my'[t].out) = 2 /\ Len(buffer') = Len(buffer) /\ Len(ran') = Len(ran) + 1
        BY <1>1, <1>2, <1>11, <1>12
      <4>2. Len(ran) \in Nat
        BY <1>a
      <4> QED BY ONLY <3>1, <3>2, <4>1, <4>2
    <3>10. my'[t].out # <<>> /\ \A s \in Thread : s # t => my'[s].out = <<>>
      BY <1>1, <1>12, <2>1
    <3> QED BY <3>1, <3>5, <3>6, <3>8, <3>9, <3>10 DEF Stream
  <2>6. Answered'
    <3>1. /\ Len(responded) \in {Len(released), Len(released) + 1}
          /\ Len(responded) <= Len(ran)
          /\ \A k \in 1 .. Len(responded) : responded[k] = ran[k]
          /\ \A k \in 1 .. Len(released) : released[k] = ran[k]
      BY <1>5 DEF Sequence, Answered
    <3>2. Len(responded) \in Nat /\ Len(released) \in Nat /\ Len(ran) \in Nat
      BY <1>0, Lengths
    <3>3. Len(responded) <= Len(ran') /\ Len(released) <= Len(ran)
      BY ONLY <1>11, <3>1, <3>2
    <3>4. /\ \A k \in 1 .. Len(responded) : k \in 1 .. Len(ran)
          /\ \A k \in 1 .. Len(released) : k \in 1 .. Len(ran)
      BY ONLY <3>1, <3>2, <3>3
    <3>5. /\ \A k \in 1 .. Len(responded) : responded[k] = ran'[k]
          /\ \A k \in 1 .. Len(released) : released[k] = ran'[k]
      BY <1>11, <3>1, <3>4
    <3> QED BY <1>2, <3>1, <3>3, <3>5 DEF Answered
  <2>7. Waiting'
    <3>1. \A s : Dispatched(s) => Dispatched(s)'
      BY <1>a, <1>2, <1>11, <2>5 DEF Dispatched
    <3> HIDE DEF Dispatched
    <3> QED BY SMTT(30), <1>0, <1>1, <1>2, <1>a, <1>5, <2>1, <3>1
        DEF Sequence, Waiting, Among, Exchange, Flushing
  <2> QED BY <2>4, <2>5, <2>6, <2>7 DEF Sequence
<1>6. ASSUME TakesTurns, ~ Late, ~ Early PROVE TakesTurns'
  BY <1>0, <1>1, <1>2, <1>a, <1>6, TurnsKept DEF Exchange
<1>7. ASSUME TakesTurns, Watched, tail <= Len(written), ~ Stopped PROVE Watched'
  BY <1>0, <1>1, <1>2, <1>a, <1>7, WatchedKept DEF Watched
<1> QED BY <1>4, <1>5, <1>6, <1>7 DEF Kept

\* A message is dispatched.
LEMMA DispatchStep ==
  ASSUME Basic, NEW t \in Thread, Dispatch(t)
  PROVE  Kept
<1>0. /\ Types /\ Places /\ Bounds /\ Main \in Thread /\ RT \in Thread
      /\ \A s \in Caller : s \in Thread
  BY DEF Basic, Thread
<1>b. /\ my[t].pc = "write" /\ my[t].out # <<>> /\ my[t].out \in Seq(Message)
      /\ buffer \in Seq(Message) /\ Len(buffer) \in Nat
  BY <1>0, Lengths DEF Dispatch, At, Bounds, Types, My
<1>c. PICK m \in Message, rest \in Seq(Message) :
        /\ m = Head(my[t].out) /\ rest = Tail(my[t].out) /\ m = my[t].out[1]
        /\ Len(my[t].out) = Len(rest) + 1
        /\ \A k \in 1 .. Len(rest) : rest[k] = my[t].out[k + 1]
  <2>1. /\ Head(my[t].out) \in Message /\ Tail(my[t].out) \in Seq(Message)
        /\ Len(my[t].out) = Len(Tail(my[t].out)) + 1
        /\ \A k \in 1 .. Len(Tail(my[t].out)) : Tail(my[t].out)[k] = my[t].out[k + 1]
    BY <1>b, HeadTailProperties
  <2>2. Head(my[t].out) = my[t].out[1]
    BY <1>b
  <2> QED BY <2>1, <2>2
<1>1. /\ Only(t) /\ my'[t].pc = "check" /\ my'[t].then = my[t].then
      /\ my'[t].from = my[t].from /\ my'[t].to = my[t].to
      /\ my'[t].out = rest /\ my'[t].in = my[t].in
  <2>1. my' = [my EXCEPT ![t].pc = "check", ![t].out = Tail(@)]
    BY DEF Dispatch
  <2>2. my' = [my EXCEPT ![t].pc = "check", ![t].out = rest]
    BY <1>0, <1>c, <2>1 DEF Types, My
  <2>3. "check" \in Place
    BY DEF Place, Exchange
  <2> HIDE DEF Message, Place
  <2> QED BY <1>0, <2>2, <2>3 DEF Types, My, Only
<1>2. /\ UNCHANGED <<jobs, thread, cancelled, loop, semaphore>>
      /\ UNCHANGED <<written, lock, active, tail, ran, responded, released>>
      /\ buffer' = Append(buffer, m)
  BY <1>c DEF Dispatch, Write, history, threadVars, Keep
<1>11. /\ buffer' \in Seq(Message) /\ Len(buffer') = Len(buffer) + 1
       /\ \A k \in 1 .. Len(buffer) : buffer'[k] = buffer[k]
       /\ buffer'[Len(buffer) + 1] = m
  BY <1>b, <1>2, AppendProperties
<1>4. Basic'
  <2>1. Allowed(t)
    BY <1>0, <1>1, <1>b, Who, CallerAssumption
    DEF Allowed, MainPlace, CallerPlace, Working, Setup, Exchange, Flushing
  <2>2. my'[t].from >= 1 /\ my'[t].to <= Len(written)
    BY <1>0, <1>1 DEF Bounds
  <2> HIDE DEF Message
  <2> QED BY <1>0, <1>1, <1>2, <1>b, <1>11, <2>1, <2>2, StepBasic DEF Types, BlockTypes
<1>5. ASSUME Alone, Sequence PROVE Sequence'
  <2>1. \A s \in Thread : s # t => my'[s] = my[s] /\ my[s].pc \notin Exchange /\ my[s].out = <<>>
    BY <1>0, <1>1, <1>b, <1>5 DEF Alone, Both, Bounds, Exchange, Only
  <2>a. \A s \in Thread : my'[s].pc = "handle" <=> my[s].pc = "handle"
    BY <1>1, <1>b, <2>1
  <2>2. Taken' = Taken /\ Taken \in Nat /\ Len(rest) \in Nat /\ Len(ran) \in Nat
    BY <1>0, <1>2, <1>c, <2>a, TakenSame, TakenNat, Lengths
  <2>3. Batch'
    BY <1>1, <1>2, <1>b, <1>5, <2>1 DEF Sequence, Batch, Exchange
  <2>4. Stream
    BY <1>5 DEF Sequence
  <2>5. Stream'
    <3> HIDE DEF IsAnswer, Taken, Message
    <3>1. \A k \in 1 .. Len(rest) + 1 : IsAnswer(ran, my[t].out[k], Taken + Len(buffer) + k)
      BY <1>c, <2>4 DEF Stream
    <3>2. IsAnswer(ran, m, Taken + (Len(buffer) + 1))
      <4>1. 1 \in 1 .. Len(rest) + 1 /\ Taken + Len(buffer) + 1 = Taken + (Len(buffer) + 1)
        BY <1>b, <2>2
      <4> QED BY <1>c, <3>1, <4>1
    <3>3. \A k \in 1 .. Len(buffer') : IsAnswer(ran, buffer'[k], Taken + k)
      <4> SUFFICES ASSUME NEW k \in 1 .. Len(buffer') PROVE IsAnswer(ran, buffer'[k], Taken + k)
        OBVIOUS
      <4>1. CASE k = Len(buffer) + 1
        BY <1>11, <3>2, <4>1
      <4>2. CASE k # Len(buffer) + 1
        <5>1. k \in 1 .. Len(buffer)
          BY <1>b, <1>11, <4>2
        <5> QED BY <1>11, <2>4, <5>1 DEF Stream
      <4> QED BY <4>1, <4>2
    <3>4. \A k \in 1 .. Len(rest) : IsAnswer(ran, rest[k], Taken + Len(buffer') + k)
      <4> SUFFICES ASSUME NEW k \in 1 .. Len(rest)
                   PROVE  IsAnswer(ran, rest[k], Taken + Len(buffer') + k)
        OBVIOUS
      <4>1. /\ k + 1 \in 1 .. Len(rest) + 1
            /\ Taken + Len(buffer) + (k + 1) = Taken + Len(buffer') + k
        BY <1>b, <1>11, <2>2
      <4> QED BY <1>c, <3>1, <4>1
    <3>5. \A s \in Thread : \A k \in 1 .. Len(my'[s].out) :
            IsAnswer(ran, my'[s].out[k], Taken + Len(buffer') + k)
      <4>1. ASSUME NEW s \in Thread, s # t PROVE 1 .. Len(my'[s].out) = {}
        BY <2>1, <4>1
      <4> QED BY <1>1, <3>4, <4>1
    <3>6. Taken + Len(buffer') + Len(rest) = 2 * Len(ran)
      <4>1. Taken + Len(buffer) + Len(my[t].out) = 2 * Len(ran)
        BY <1>b, <2>4 DEF Stream
      <4>2. Len(my[t].out) = Len(rest) + 1 /\ Len(buffer') = Len(buffer) + 1
            /\ Len(buffer) \in Nat
        BY <1>b, <1>c, <1>11
      <4> QED BY ONLY <2>2, <4>1, <4>2
    <3>7. (\A s \in Thread : my'[s].out = <<>>) => Taken + Len(buffer') = 2 * Len(ran)
      <4> SUFFICES ASSUME rest = <<>> PROVE Taken + Len(buffer') = 2 * Len(ran)
        BY <1>1
      <4>1. Len(rest) = 0
        OBVIOUS
      <4> QED BY <1>b, <1>11, <2>2, <3>6, <4>1
    <3>8. \A s \in Thread : my'[s].out # <<>> => Taken + Len(buffer') + Len(my'[s].out) = 2 * Len(ran)
      BY <1>1, <2>1, <3>6
    <3>9. \A s \in Thread : my'[s].pc = "handle" => IsAnswer(ran, my'[s].in, Taken)
      BY <1>1, <2>1, <2>4 DEF Stream
    <3> QED BY <1>2, <2>2, <3>3, <3>5, <3>7, <3>8, <3>9 DEF Stream
  <2>6. Answered'
    BY <1>2, <1>5 DEF Sequence, Answered
  <2>7. Waiting'
    <3>1. \A s : Dispatched(s) => Dispatched(s)'
      BY <1>b, <1>2, <1>11, <2>2 DEF Dispatched
    <3> HIDE DEF Dispatched
    <3> QED BY SMTT(30), <1>0, <1>1, <1>2, <1>b, <1>5, <2>1, <3>1
        DEF Sequence, Waiting, Among, Exchange, Flushing
  <2> QED BY <2>3, <2>5, <2>6, <2>7 DEF Sequence
<1>6. ASSUME TakesTurns, ~ Late, ~ Early PROVE TakesTurns'
  BY <1>0, <1>1, <1>2, <1>b, <1>6, TurnsKept DEF Exchange
<1>7. ASSUME TakesTurns, Watched, tail <= Len(written), ~ Stopped PROVE Watched'
  BY <1>0, <1>1, <1>2, <1>b, <1>7, WatchedKept DEF Watched
<1> QED BY <1>4, <1>5, <1>6, <1>7 DEF Kept

\* A message is taken out of the buffer.
LEMMA TakeStep ==
  ASSUME Basic, NEW t \in Thread, CopyLastMessage(t), buffer # <<>>
  PROVE  Kept
<1>0. /\ Types /\ Places /\ Bounds /\ Main \in Thread /\ RT \in Thread
      /\ \A s \in Caller : s \in Thread
  BY DEF Basic, Thread
<1>a. my[t].pc = "flush" /\ t # RT
  BY <1>0, Who DEF CopyLastMessage, At, Exchange
<1>1. /\ Only(t) /\ my'[t].pc = "handle" /\ my'[t].then = my[t].then
      /\ my'[t].from = my[t].from /\ my'[t].to = my[t].to
      /\ my'[t].out = my[t].out /\ my'[t].in = Head(buffer) /\ Head(buffer) \in Message
  <2>1. my' = [my EXCEPT ![t].pc = "handle", ![t].in = Head(buffer)]
    BY DEF CopyLastMessage
  <2>2. Head(buffer) \in Message /\ "handle" \in Place
    BY <1>0 DEF Types, Place, Flushing
  <2>3. PICK m : m \in Message /\ m = Head(buffer)
    BY <2>2
  <2>4. my' = [my EXCEPT ![t].pc = "handle", ![t].in = m]
    BY <2>1, <2>3
  <2> HIDE DEF Message, Place
  <2> QED BY <1>0, <2>2, <2>3, <2>4 DEF Types, My, Only
<1>2. /\ UNCHANGED <<jobs, thread, cancelled, loop, semaphore>>
      /\ UNCHANGED <<written, lock, active, tail, ran, responded, released>>
      /\ buffer' = Tail(buffer)
  BY DEF CopyLastMessage, TakeMessage, history, threadVars, Keep
<1>11. /\ buffer' \in Seq(Message) /\ Len(buffer') = Len(buffer) - 1
       /\ \A k \in 1 .. Len(buffer') : buffer'[k] = buffer[k + 1]
       /\ Head(buffer) = buffer[1] /\ Len(buffer) \in Nat /\ Len(buffer) >= 1
  BY <1>0, <1>2, HeadTailProperties DEF Types
<1>4. Basic'
  <2>1. Allowed(t)
    BY <1>0, <1>1, <1>a, Who, CallerAssumption
    DEF Allowed, MainPlace, CallerPlace, Working, Setup, Exchange, Flushing
  <2>2. my'[t].from >= 1 /\ my'[t].to <= Len(written) /\ my[t].out = <<>>
    BY <1>0, <1>1, <1>a DEF Bounds
  <2> HIDE DEF Message
  <2> QED BY <1>0, <1>1, <1>2, <1>a, <1>11, <2>1, <2>2, StepBasic DEF Types, BlockTypes
<1>5. ASSUME Alone, Sequence PROVE Sequence'
  <2>1. \A s \in Thread : s # t => my'[s] = my[s] /\ my[s].pc \notin Flushing
    BY <1>1, <1>a, <1>5 DEF Alone, Both, Flushing, Only
  <2>2. Taken \in Nat /\ Taken' = Taken + 1
    <3>1. \A s \in Thread : my[s].pc # "handle"
      BY <1>a, <2>1 DEF Flushing
    <3> QED BY <1>0, <1>1, <1>2, <3>1, TakenOne, TakenNat
  <2>3. Batch'
    BY <1>1, <1>2, <1>a, <1>5, <2>1 DEF Sequence, Batch, Exchange
  <2>4. Stream
    BY <1>5 DEF Sequence
  <2>5. Taken' + Len(buffer') = Taken + Len(buffer)
    BY <1>11, <2>2
  <2>6. Stream'
    <3> HIDE DEF IsAnswer, Taken, Message
    <3>1. IsAnswer(ran, my'[t].in, Taken')
      BY <1>1, <1>11, <2>2, <2>4 DEF Stream
    <3>2. \A k \in 1 .. Len(buffer') : IsAnswer(ran, buffer[k + 1], Taken + k + 1)
      <4> SUFFICES ASSUME NEW k \in 1 .. Len(buffer')
                   PROVE  IsAnswer(ran, buffer[k + 1], Taken + k + 1)
        OBVIOUS
      <4>1. k + 1 \in 1 .. Len(buffer) /\ Taken + k + 1 = Taken + (k + 1)
        BY <1>11, <2>2
      <4>2. IsAnswer(ran, buffer[k + 1], Taken + (k + 1))
        BY <2>4, <4>1 DEF Stream
      <4> QED BY <4>1, <4>2
    <3>3. \A k \in 1 .. Len(buffer') : IsAnswer(ran, buffer'[k], Taken' + k)
      BY <1>11, <2>2, <3>2
    <3>4. \A s \in Thread : my'[s].out = my[s].out
      BY <1>1, <2>1
    <3>5. /\ \A s \in Thread : \A k \in 1 .. Len(my'[s].out) :
               IsAnswer(ran, my'[s].out[k], Taken' + Len(buffer') + k)
          /\ \A s \in Thread : my'[s].out # <<>> =>
               Taken' + Len(buffer') + Len(my'[s].out) = 2 * Len(ran)
          /\ (\A s \in Thread : my'[s].out = <<>>) => Taken' + Len(buffer') = 2 * Len(ran)
      BY <2>4, <2>5, <3>4 DEF Stream
    <3>6. \A s \in Thread : my'[s].pc = "handle" => IsAnswer(ran, my'[s].in, Taken')
      BY <2>1, <3>1 DEF Flushing
    <3> QED BY <1>2, <3>3, <3>5, <3>6 DEF Stream
  <2>7. Answered'
    BY <1>2, <1>5 DEF Sequence, Answered
  <2>8. Waiting'
    <3>1. \A s : Dispatched(s) => Dispatched(s)'
      BY <1>2, <2>5 DEF Dispatched
    <3> HIDE DEF Dispatched
    <3> QED BY <1>0, <1>1, <1>2, <1>a, <1>5, <2>1, <3>1
        DEF Sequence, Waiting, Among, Exchange, Flushing
  <2> QED BY <2>3, <2>6, <2>7, <2>8 DEF Sequence
<1>6. ASSUME TakesTurns, ~ Late, ~ Early PROVE TakesTurns'
  BY <1>0, <1>1, <1>2, <1>a, <1>6, TurnsKept DEF Flushing
<1>7. ASSUME TakesTurns, Watched, tail <= Len(written), ~ Stopped PROVE Watched'
  BY <1>0, <1>1, <1>2, <1>a, <1>7, WatchedKept
<1> QED BY <1>4, <1>5, <1>6, <1>7 DEF Kept

\* A message is handled: a block is answered, or released.
LEMMA HandleStep ==
  ASSUME Basic, NEW t \in Thread, Handle(t)
  PROVE  Kept
<1>0. /\ Types /\ Places /\ Bounds /\ Main \in Thread /\ RT \in Thread
      /\ \A s \in Caller : s \in Thread
  BY DEF Basic, Thread
<1>a. my[t].pc = "handle" /\ t # RT /\ my[t].in \in Message /\ my[t].out = <<>>
  <2> HIDE DEF Message
  <2> QED BY <1>0, Who DEF Handle, At, Exchange, Bounds
<1>1. /\ Only(t) /\ my'[t].pc = "flush" /\ my'[t].then = my[t].then
      /\ my'[t].from = my[t].from /\ my'[t].to = my[t].to
      /\ my'[t].out = my[t].out
  <2>1. my' = [my EXCEPT ![t].pc = "flush", ![t].in = <<>>]
    BY DEF Handle
  <2>2. "flush" \in Place /\ <<>> \in Message \cup {<<>>}
    BY DEF Place, Flushing
  <2> HIDE DEF Message, Place
  <2> QED BY <1>0, <2>1, <2>2 DEF Types, My, Only
<1>b. PICK m : m \in Message /\ m = my[t].in
  BY <1>a
<1>2. /\ UNCHANGED <<buffer, jobs, thread, cancelled, loop, semaphore>>
      /\ UNCHANGED <<written, lock, active, tail, ran>>
      /\ \/ m[1] = "respond" /\ responded' = Append(responded, m[2]) /\ released' = released
         \/ m[1] # "respond" /\ released' = Append(released, m[2]) /\ responded' = responded
  BY <1>b DEF Handle, mqVars, Keep
<1>3. responded' \in Seq(Caller) /\ released' \in Seq(Caller)
  <2>1. m[2] \in Caller
    BY <1>b DEF Message
  <2>2. responded \in Seq(Caller) /\ released \in Seq(Caller)
    BY <1>0 DEF Types, BlockTypes
  <2>3. Append(responded, m[2]) \in Seq(Caller) /\ Append(released, m[2]) \in Seq(Caller)
    BY <2>1, <2>2, AppendProperties
  <2> QED BY <1>2, <2>2, <2>3
<1>4. Basic'
  <2>1. Allowed(t)
    BY <1>0, <1>1, <1>a, Who, CallerAssumption
    DEF Allowed, MainPlace, CallerPlace, Working, Setup, Exchange, Flushing
  <2>2. my'[t].from >= 1 /\ my'[t].to <= Len(written)
    BY <1>0, <1>1 DEF Bounds
  <2> HIDE DEF Message
  <2> QED BY <1>0, <1>1, <1>2, <1>3, <1>a, <2>1, <2>2, StepBasic DEF Types, BlockTypes
<1>5. ASSUME Alone, Sequence PROVE Sequence'
  <2>1. \A s \in Thread : s # t => my'[s] = my[s] /\ my[s].pc \notin Flushing
    BY <1>1, <1>a, <1>5 DEF Alone, Both, Flushing, Only
  <2>2. /\ Len(responded) \in Nat /\ Len(released) \in Nat /\ Len(ran) \in Nat
        /\ responded \in Seq(Caller) /\ released \in Seq(Caller) /\ ran \in Seq(Caller)
    BY <1>0, Lengths DEF Types, BlockTypes
  \* The message is the next answer.
  <2>3. Taken = Handled + 1
    BY <1>a DEF Taken
  <2>4. PICK k \in 1 .. Len(ran) :
          \/ Handled + 1 = 2 * k - 1 /\ m = <<"respond", ran[k]>>
          \/ Handled + 1 = 2 * k /\ m = <<"release", ran[k]>>
    <3>1. IsAnswer(ran, m, Taken)
      BY <1>a, <1>b, <1>5 DEF Sequence, Stream
    <3> QED BY <2>3, <3>1 DEF IsAnswer
  <2>5. /\ \/ /\ Len(responded) = k - 1 /\ Len(released) = k - 1
              /\ responded' = Append(responded, ran[k]) /\ released' = released
           \/ /\ Len(responded) = k /\ Len(released) = k - 1
              /\ released' = Append(released, ran[k]) /\ responded' = responded
        /\ ran[k] \in Caller /\ k \in Nat
    <3>1. Len(responded) \in {Len(released), Len(released) + 1}
      BY <1>5 DEF Sequence, Answered
    <3>2. k \in Nat /\ k <= Len(ran) /\ ran[k] \in Caller
      BY <2>2
    <3>3. CASE Handled + 1 = 2 * k - 1 /\ m = <<"respond", ran[k]>>
      <4>1. Len(responded) = k - 1 /\ Len(released) = k - 1
        BY <2>2, <3>1, <3>2, <3>3 DEF Handled
      <4>2. responded' = Append(responded, ran[k]) /\ released' = released
        BY <1>2, <3>3
      <4> QED BY <3>2, <4>1, <4>2
    <3>4. CASE Handled + 1 = 2 * k /\ m = <<"release", ran[k]>>
      <4>1. Len(responded) = k /\ Len(released) = k - 1
        BY <2>2, <3>1, <3>2, <3>4 DEF Handled
      <4>2. released' = Append(released, ran[k]) /\ responded' = responded
        BY <1>2, <3>4
      <4> QED BY <3>2, <4>1, <4>2
    <3> QED BY <2>4, <3>3, <3>4
  <2>6. \A s \in Seq(Caller) : /\ Len(Append(s, ran[k])) = Len(s) + 1
                               /\ \A i \in 1 .. Len(s) : Append(s, ran[k])[i] = s[i]
                               /\ Append(s, ran[k])[Len(s) + 1] = ran[k]
    BY <2>5, AppendProperties
  <2>7. Taken' = Taken
    <3>1. /\ Len(Append(responded, ran[k])) = Len(responded) + 1
          /\ Len(Append(released, ran[k])) = Len(released) + 1
      BY <2>2, <2>6
    <3>2. Handled' = Handled + 1
      <4>1. CASE responded' = Append(responded, ran[k]) /\ released' = released
        <5>1. Len(responded') = Len(responded) + 1 /\ Len(released') = Len(released)
          BY <3>1, <4>1
        <5> QED BY <2>2, <5>1 DEF Handled
      <4>2. CASE released' = Append(released, ran[k]) /\ responded' = responded
        <5>1. Len(responded') = Len(responded) /\ Len(released') = Len(released) + 1
          BY <3>1, <4>2
        <5> QED BY <2>2, <5>1 DEF Handled
      <4> QED BY <2>5, <4>1, <4>2
    <3>3. \A s \in Thread : my'[s].pc # "handle"
      BY <1>1, <2>1 DEF Flushing
    <3>4. Taken' = Handled' /\ Handled \in Nat
      <4>1. Handled' \in Nat /\ Handled \in Nat
        BY <2>2, <3>2 DEF Handled
      <4> QED BY <3>3, <4>1 DEF Taken
    <3> QED BY <2>3, <3>2, <3>4
  <2>8. Batch'
    BY <1>1, <1>2, <1>a, <1>5, <2>1 DEF Sequence, Batch, Exchange
  <2>9. Stream'
    <3>1. \A s \in Thread : my'[s].out = my[s].out /\ my'[s].pc # "handle"
      BY <1>1, <2>1 DEF Flushing
    <3> HIDE DEF Taken, IsAnswer
    <3> QED BY <1>2, <1>5, <2>7, <3>1 DEF Sequence, Stream
  <2>10. Answered'
    <3>1. k <= Len(ran)
      BY <2>2
    <3>2. CASE responded' = Append(responded, ran[k]) /\ released' = released
      <4>1. Len(responded) = k - 1 /\ Len(released) = k - 1
        BY <2>2, <2>5, <2>6, <3>2
      <4>a. /\ Len(responded') = Len(responded) + 1 /\ responded'[Len(responded) + 1] = ran[k]
            /\ \A i \in 1 .. Len(responded) : responded'[i] = responded[i]
        BY <2>2, <2>6, <3>2
      <4>b. \A i \in 1 .. Len(responded) : responded[i] = ran[i]
        BY <1>5 DEF Sequence, Answered
      <4>c. k \in Nat
        BY <2>5
      <4>2. Len(responded') = k /\ \A i \in 1 .. k : responded'[i] = ran[i]
        BY ONLY <4>1, <4>a, <4>b, <4>c
      <4> QED BY <1>2, <1>5, <2>2, <2>5, <3>1, <3>2, <4>1, <4>2 DEF Sequence, Answered
    <3>3. CASE released' = Append(released, ran[k]) /\ responded' = responded
      <4>1. Len(responded) = k /\ Len(released) = k - 1
        BY <2>2, <2>5, <2>6, <3>3
      <4>2. Len(released') = k /\ \A i \in 1 .. k : released'[i] = ran[i]
        BY <2>2, <2>5, <2>6, <3>3, <4>1, <1>5 DEF Sequence, Answered
      <4> QED BY <1>2, <1>5, <2>2, <2>5, <3>1, <3>3, <4>1, <4>2 DEF Sequence, Answered
    <3> QED BY <2>5, <3>2, <3>3
  <2>11. Waiting'
    <3>1. \A s : Dispatched(s) => Dispatched(s)'
      BY <1>2, <2>7 DEF Dispatched
    <3>2. \A s \in Caller : Among(s, responded) => Among(s, responded')
      <4>1. /\ Len(responded') = Len(responded) \/ Len(responded') = Len(responded) + 1
            /\ \A i \in 1 .. Len(responded) : responded'[i] = responded[i]
        <5>1. CASE responded' = Append(responded, ran[k])
          BY ONLY <2>2, <2>6, <5>1
        <5>2. CASE responded' = responded
          BY ONLY <5>2
        <5> QED BY <2>5, <5>1, <5>2
      <4>2. \A i \in 1 .. Len(responded) : i \in 1 .. Len(responded')
        BY ONLY <2>2, <4>1
      <4> QED BY <4>1, <4>2 DEF Among
    <3> HIDE DEF Dispatched
    <3>3. ASSUME NEW s \in Caller
          PROVE  /\ my'[s].pc \in {"written", "wait"} \/ my'[s].then \in {"wait", "unlock"}
                      => Among(s, written)
                 /\ my'[s].then = "unlock" =>
                      /\ my'[s].pc \in Exchange => \E i \in 1 .. my'[s].to : written[i] = s
                      /\ my'[s].pc \in Flushing => Dispatched(s)'
                      /\ my'[s].pc = "unlock" => Among(s, responded')
      <4>1. CASE s = t
        BY <1>1, <1>a, <1>5, <3>1, <4>1 DEF Sequence, Waiting, Exchange, Flushing
      <4>2. CASE s # t
        BY <1>0, <1>5, <2>1, <3>1, <3>2, <4>2 DEF Sequence, Waiting
      <4> QED BY <4>1, <4>2
    <3> QED BY <1>2, <3>3 DEF Waiting, Among
  <2> QED BY <2>8, <2>9, <2>10, <2>11 DEF Sequence
<1>6. ASSUME TakesTurns, ~ Late, ~ Early PROVE TakesTurns'
  BY <1>0, <1>1, <1>2, <1>a, <1>6, TurnsKept DEF Flushing
<1>7. ASSUME TakesTurns, Watched, tail <= Len(written), ~ Stopped PROVE Watched'
  BY <1>0, <1>1, <1>2, <1>a, <1>7, WatchedKept
<1> QED BY <1>4, <1>5, <1>6, <1>7 DEF Kept

-----------------------------------------------------------------------------
(* The invariant.                                                          *)

\* The invariant holds in the initial state.
LEMMA InitIInv == Init => IInv
<1> SUFFICES ASSUME Init PROVE IInv
  OBVIOUS
<1>1. /\ \A t \in Thread \ {Main} : my[t] = Resting("idle")
      /\ my[Main] = Resting("setup") /\ Main \in Thread /\ RT \in Thread
      /\ my = [t \in Thread |-> Resting(IF t = Main THEN "setup" ELSE "idle")]
  BY DEF Init, Thread
<1>2. /\ buffer = <<>> /\ jobs = <<>> /\ written = <<>> /\ tail = 0 /\ lock = {}
      /\ ran = <<>> /\ responded = <<>> /\ released = <<>> /\ events = {}
      /\ thread = "created" /\ semaphore = 0 /\ loop = "test"
  BY DEF Init, InitQueue
<1>3. active = FALSE /\ cancelled = FALSE
  BY DEF Init, InitQueue
<1>4. \A pc : /\ Resting(pc).pc = pc /\ Resting(pc).then = "done"
              /\ Resting(pc).from = 1 /\ Resting(pc).to = 0
              /\ Resting(pc).out = <<>> /\ Resting(pc).in = <<>>
  BY DEF Resting
<1>5. Types
  <2>1. my \in [Thread -> My]
    <3>1. \A pc \in {"setup", "idle"} : Resting(pc) \in My
      BY DEF Resting, My, Place, Setup
    <3> HIDE DEF Resting, My
    <3> QED BY <1>1, <3>1
  <2>2. \A S : <<>> \in Seq(S)
    OBVIOUS
  <2>3. ThreadTypes
    BY <1>2, <1>3 DEF ThreadTypes
  <2> QED BY <1>2, <1>3, <2>1, <2>2, <2>3 DEF Types, BlockTypes
<1>6. Places
  BY <1>1, <1>4, CallerAssumption DEF Places, MainPlace, CallerPlace, Setup, Exchange, Thread
<1>7. \A t \in Thread : /\ my[t].pc \in {"setup", "idle"} /\ my[t].then = "done"
                        /\ my[t].from = 1 /\ my[t].to = 0 /\ my[t].out = <<>>
  BY <1>1, <1>4
<1>8. Len(written) = 0 /\ Len(ran) = 0 /\ Len(buffer) = 0 /\ Len(responded) = 0 /\ Len(released) = 0
  BY <1>2
<1>9. Bounds
  BY <1>3, <1>7, <1>8 DEF Bounds
<1>10. Alone
  BY <1>7 DEF Alone, Both, Exchange, Flushing
<1>11. Batch
  BY <1>2, <1>7, <1>8 DEF Batch, Exchange
<1>12. Stream
  <2>1. Taken = 0
    <3>1. \A t \in Thread : my[t].pc # "handle"
      BY <1>7
    <3> QED BY <1>8, <3>1 DEF Taken, Handled
  <2>2. \A t \in Thread : Len(my[t].out) = 0
    BY <1>7
  <2> HIDE DEF Taken, IsAnswer
  <2> QED BY <1>7, <1>8, <2>1, <2>2 DEF Stream
<1>13. Answered
  BY <1>8 DEF Answered
<1>14. Waiting
  BY <1>7 DEF Waiting, Thread
<1>15. TakesTurns
  BY <1>1, <1>2, <1>3, <1>4, CallerAssumption
  DEF TakesTurns, Left, InSetUp, Thread
<1>16. Watched
  BY <1>1, <1>4, CallerAssumption DEF Watched, Thread
<1> QED BY <1>2, <1>5, <1>6, <1>9, <1>10, <1>11, <1>12, <1>13, <1>14, <1>15, <1>16
    DEF IInv, Basic, Sequence

\* Every step keeps what it should.
LEMMA StepKept ==
  ASSUME Basic, Step
  PROVE  Kept
<1>1. CASE Start
  BY <1>1, StartStep
<1>2. CASE Enter
  BY <1>2, EnterStep
<1>3. CASE Leave
  BY <1>3, LeaveStep
<1>4. CASE Stop("setup", "restarting", "setup")
  BY <1>4, StopSetupStep
<1>5. CASE Stop("started", "restarting", "setup")
  BY <1>5, StopStartedStep
<1>6. CASE Service
  BY <1>6, TakeJobStep, RestartingStep, StopEndStep, StoppingStep DEF Service
<1>7. ASSUME NEW t \in Caller, NEW synchronous \in BOOLEAN, WriteBlock(t, synchronous)
      PROVE  Kept
  BY <1>7, WriteBlockStep
<1>8. ASSUME NEW t \in Thread, Continue(t)
      PROVE  Kept
  <2>1. CASE GetForRead(t) \/ TakeBlock(t) \/ Run(t) \/ EndBatch(t)
    BY <2>1, GetForReadStep, TakeBlockStep, RunStep, EndBatchStep
  <2>2. CASE Dispatch(t) \/ CheckThread(t) \/ SignalThread(t)
    BY <2>2, DispatchStep, CheckThreadStep, SignalThreadStep
  <2>3. CASE CopyLastMessage(t)
    BY <2>3, FlushedStep, TakeStep
  <2>4. CASE Handle(t)
    BY <2>4, HandleStep
  <2>5. CASE CheckOnline(t) \/ Return(t) \/ Poll(t)
    BY <2>5, CheckOnlineStep, ReturnStep, PollStep
  <2>6. CASE GiveUp(t) \/ Unlock(t)
    BY <2>6, GiveUpStep, UnlockStep
  <2> QED BY <1>8, <2>1, <2>2, <2>3, <2>4, <2>5, <2>6 DEF Continue
<1>9. CASE ExecutionStep
  BY <1>9, ExecutionThreadStep
<1> QED BY <1>1, <1>2, <1>3, <1>4, <1>5, <1>6, <1>7, <1>8, <1>9 DEF Step

\* What is recorded is never forgotten.
LEMMA Recorded ==
  ASSUME Record
  PROVE  /\ events \subseteq events'
         /\ events' \subseteq events \cup {"late", "early", "stopped", "met"}
         /\ "late" \notin events' => ~ Late
         /\ "early" \notin events' => ~ Early
         /\ "stopped" \notin events' => ~ Stopped
         /\ "met" \notin events' => ~ Met
         /\ "met" \in events' => "met" \in events \/ Met
BY DEF Record, Event

\* As long as they take turns, no two threads meet.
LEMMA TurnsAlone ==
  ASSUME Places, TakesTurns
  PROVE  Alone
<1>1. ASSUME NEW s \in Thread, my[s].pc \in Exchange PROVE s \in {RT, Main}
  BY <1>1 DEF TakesTurns, Places, CallerPlace, Thread, Exchange
<1>2. ASSUME NEW s \in Thread, my[s].pc \in Flushing PROVE s = Main
  BY <1>2 DEF TakesTurns, Places, CallerPlace, Thread, Exchange, Flushing
<1>3. my[RT].pc \in Exchange => my[Main].pc \notin Exchange
  BY DEF TakesTurns, Exchange
<1> QED BY <1>1, <1>2, <1>3 DEF Alone, Both

\* The same after a step.
LEMMA AloneNext == (Places /\ TakesTurns => Alone)'
<1>1. Places /\ TakesTurns => Alone
  BY TurnsAlone
<1> QED BY <1>1, PTL

\* Every step keeps the invariant.
LEMMA NextIInv ==
  ASSUME IInv, [Next]_vars
  PROVE  IInv'
<1>1. CASE Next
  <2>1. Basic /\ Kept /\ Record
    BY <1>1, StepKept DEF IInv, Next
  <2>2. /\ events \subseteq events'
        /\ events' \subseteq events \cup {"late", "early", "stopped", "met"}
        /\ "late" \notin events' => ~ Late
        /\ "early" \notin events' => ~ Early
        /\ "stopped" \notin events' => ~ Stopped
        /\ "met" \notin events' => ~ Met
        /\ "met" \in events' => "met" \in events \/ Met
    BY <2>1, Recorded
  <2>3. Basic' /\ events' \subseteq {"late", "early", "stopped", "met"}
    BY <2>1, <2>2 DEF IInv, Kept
  <2>4. ASSUME "met" \notin events' PROVE Alone' /\ Sequence'
    <3>1. Alone'
      BY <2>2, <2>4 DEF Met, Alone
    <3> QED BY <2>1, <2>2, <2>4, <3>1 DEF IInv, Kept
  <2>5. ASSUME {"late", "early"} \cap events' = {}
        PROVE  TakesTurns' /\ "met" \notin events'
    <3>1. TakesTurns'
      BY <2>1, <2>2, <2>5 DEF IInv, Kept
    <3>2. Alone'
      <4>1. Places'
        BY <2>3 DEF Basic
      <4> QED BY <3>1, <4>1, AloneNext
    <3>3. ~ Met
      BY <3>2 DEF Met, Alone
    <3> QED BY <2>2, <2>5, <3>1, <3>3 DEF IInv
  <2>6. ASSUME {"late", "early", "stopped"} \cap events' = {} PROVE Watched'
    <3>1. TakesTurns /\ Watched /\ "met" \notin events
      BY <2>2, <2>6 DEF IInv
    <3>2. tail <= Len(written)
      BY <3>1 DEF IInv, Sequence, Batch
    <3> QED BY <2>1, <2>2, <2>6, <3>1, <3>2 DEF Kept
  <2> QED BY <2>3, <2>4, <2>5, <2>6 DEF IInv
<1>2. CASE UNCHANGED vars
  <2>0. UNCHANGED <<buffer, thread, cancelled, semaphore, loop, jobs, written, tail, lock,
                    active, ran, responded, released, my, events>>
    BY <1>2 DEF vars, state, mqVars
  <2>1. Basic' <=> Basic
    BY <2>0 DEF Basic, Types, ThreadTypes, BlockTypes, Places, Bounds
  <2>2. TakesTurns' <=> TakesTurns
    BY <2>0, PostedKept DEF TakesTurns, Left, InSetUp
  <2>3. Watched' <=> Watched
    BY <2>0 DEF Watched
  <2>4. Alone' <=> Alone
    BY <2>0 DEF Alone, Both
  <2>5. Sequence => Sequence'
    <3>1. Batch' <=> Batch
      BY <2>0 DEF Batch
    <3>2. Stream => Stream' /\ Taken' = Taken
      BY <2>0, StreamSame
    <3>3. Answered' <=> Answered
      BY <2>0 DEF Answered
    <3>4. Taken' = Taken /\ Waiting => Waiting'
      BY <2>0 DEF Waiting, Among, Dispatched
    <3> QED BY <3>1, <3>2, <3>3, <3>4 DEF Sequence
  <2> QED BY <2>0, <2>1, <2>2, <2>3, <2>4, <2>5 DEF IInv
<1> QED BY <1>1, <1>2

\* The invariant holds in every reachable state.
LEMMA Invariant == Spec => []IInv
<1>1. IInv /\ [Next]_vars => IInv'
  BY NextIInv
<1> QED BY InitIInv, <1>1, PTL DEF Spec

-----------------------------------------------------------------------------
(* Theorems.                                                               *)

\* A sequence that agrees with a longer one as far as it goes is a prefix of it.
LEMMA Prefix ==
  ASSUME NEW S, NEW s \in Seq(S), NEW t \in Seq(S), Len(s) <= Len(t),
         \A k \in 1 .. Len(s) : s[k] = t[k]
  PROVE  IsPrefix(s, t)
<1>1. Len(s) \in Nat /\ Len(t) \in Nat
  OBVIOUS
<1>2. /\ SubSeq(s, 1, Len(s)) \in Seq(S) /\ SubSeq(t, 1, Len(s)) \in Seq(S)
      /\ Len(SubSeq(s, 1, Len(s))) = Len(s) /\ Len(SubSeq(t, 1, Len(s))) = Len(s)
      /\ \A i \in 1 .. Len(s) : SubSeq(s, 1, Len(s))[i] = s[i]
      /\ \A i \in 1 .. Len(s) : SubSeq(t, 1, Len(s))[i] = t[i]
  BY <1>1
<1>3. SubSeq(s, 1, Len(s)) = SubSeq(t, 1, Len(s))
  <2> DEFINE u == SubSeq(s, 1, Len(s))
             v == SubSeq(t, 1, Len(s))
  <2>1. u \in Seq(S) /\ v \in Seq(S) /\ Len(u) = Len(v) /\ \A i \in 1 .. Len(u) : u[i] = v[i]
    BY <1>2
  <2> HIDE DEF u, v
  <2> QED BY <2>1, SeqEqual
<1> QED BY <1>3 DEF IsPrefix

\* Every variable keeps its type, and unless two threads have met no more blocks are
\* marked as read than have been written (SPCRealTimeMessageQueue.m).
THEOREM TypeCorrect == Spec => []TypeOK
<1>1. IInv => TypeOK
  <2> SUFFICES ASSUME IInv PROVE TypeOK
    OBVIOUS
  <2>1. Types /\ events \subseteq {"late", "early", "stopped", "met"}
    BY DEF IInv, Basic
  <2>2. "met" \notin events => tail <= Len(written)
    BY DEF IInv, Sequence, Batch
  <2>3. \A t \in Thread : my[t].out \in Seq(Message)
    BY <2>1 DEF Types, My
  <2> HIDE DEF Message
  <2> QED BY <2>1, <2>2, <2>3 DEF TypeOK, Types, ThreadTypes, BlockTypes
<1> QED BY <1>1, Invariant, PTL

\* Unless two threads have met in the exchange or in a flush, each block is run once, in
\* the order in which the blocks were written, and then answered, once, and then
\* released, once, whoever does the exchange: the real-time thread, the main thread,
\* or one that has given up waiting.
THEOREM Ordered == Spec => []InOrder
<1>1. IInv => InOrder
  <2> SUFFICES ASSUME IInv, "met" \notin events
               PROVE  /\ IsPrefix(ran, written) /\ IsPrefix(responded, ran)
                      /\ IsPrefix(released, responded)
    BY DEF InOrder
  <2>1. /\ written \in Seq(Caller) /\ ran \in Seq(Caller)
        /\ responded \in Seq(Caller) /\ released \in Seq(Caller)
    BY DEF IInv, Basic, Types, BlockTypes
  <2>2. IsPrefix(ran, written)
    BY <2>1, Prefix DEF IInv, Sequence, Batch
  <2>3. IsPrefix(responded, ran)
    BY <2>1, Prefix DEF IInv, Sequence, Answered
  <2>4. IsPrefix(released, responded)
    <3>1. Len(released) \in Nat /\ Len(responded) \in Nat
      BY Lengths DEF IInv, Basic
    <3>2. /\ Len(released) <= Len(responded)
          /\ \A k \in 1 .. Len(released) : released[k] = responded[k]
      BY <3>1 DEF IInv, Sequence, Answered
    <3> QED BY <2>1, <3>2, Prefix
  <2> QED BY <2>2, <2>3, <2>4
<1> QED BY <1>1, Invariant, PTL

\* Threads meet in the exchange or in a flush only after a call has given up waiting or
\* the main thread was asked for an exchange that the real-time thread does, too.
THEOREM MeetOnlyAfter == Spec => []Exclusive
<1>1. IInv => Exclusive
  BY DEF IInv, Exclusive
<1> QED BY <1>1, Invariant, PTL

\* A step by which the call of thread t returns.
LEMMA ReturnsOrUnlocks ==
  ASSUME IInv, [Next]_vars, NEW t \in Caller,
         my[t].pc \in {"wait", "unlock"}, my'[t].pc = "done"
  PROVE  Return(t) \/ Unlock(t)
<1>1. my \in [Thread -> My] /\ t \in Thread
  BY DEF IInv, Basic, Types, Thread
<1>2. ~ Start /\ ~ Enter
  BY <1>1 DEF Start, Enter, At, Goto
<1>3. ~ Leave
  BY <1>1 DEF Leave, At, Goto
<1>4. ~ Stop("setup", "restarting", "setup") /\ ~ Stop("started", "restarting", "setup")
  BY <1>1 DEF Stop, At, Goto
<1>5. ~ Service
  <2>1. ~ TakeJob
    BY <1>1 DEF TakeJob
  <2>2. ~ Stopping("restarting", "setup") /\ ~ Stopping("stopping", "flush")
    BY <1>1 DEF Stopping, At, Goto
  <2>3. ~ Stop("stop", "stopping", "flush")
    BY <1>1 DEF Stop, At, Goto
  <2> QED BY <2>1, <2>2, <2>3 DEF Service
<1>6. ASSUME NEW s \in Caller, NEW synchronous \in BOOLEAN PROVE ~ WriteBlock(s, synchronous)
  BY <1>1 DEF WriteBlock, At
<1>7. ASSUME NEW s \in Thread, Continue(s) PROVE Return(t) \/ Unlock(t)
  <2>1. ~ GetForRead(s)
    <3> SUFFICES ASSUME GetForRead(s) PROVE FALSE
      OBVIOUS
    <3>1. my[s].pc \in {"process", "idle"} /\ \A x \in Thread \ {s} : my'[x] = my[x]
      BY <1>1 DEF GetForRead, At, Goto
    <3>2. s # t
      BY <3>1
    <3> QED BY <1>1, <3>1, <3>2
  <2>2. ~ Run(s)
    <3> SUFFICES ASSUME Run(s) PROVE FALSE
      OBVIOUS
    <3>1. my[s].pc = "run" /\ \A x \in Thread \ {s} : my'[x] = my[x]
      BY <1>1 DEF Run, At
    <3> QED BY <1>1, <3>1
  <2>3. ~ TakeBlock(s)
    <3> SUFFICES ASSUME TakeBlock(s) PROVE FALSE
      OBVIOUS
    <3>1. my[s].pc = "next" /\ \A x \in Thread \ {s} : my'[x] = my[x]
      BY <1>1 DEF TakeBlock, At
    <3> QED BY <1>1, <3>1
  <2>4. ~ Dispatch(s)
    <3> SUFFICES ASSUME Dispatch(s) PROVE FALSE
      OBVIOUS
    <3>1. my[s].pc = "write" /\ \A x \in Thread \ {s} : my'[x] = my[x]
      BY <1>1 DEF Dispatch, At
    <3> QED BY <1>1, <3>1
  <2>5. ~ EndBatch(s) /\ ~ CheckThread(s)
    BY <1>1 DEF EndBatch, CheckThread, At, Goto
  <2>6. ~ SignalThread(s)
    BY <1>1 DEF SignalThread, At, Goto
  <2>7. ~ CopyLastMessage(s)
    BY <1>1 DEF CopyLastMessage, At, Goto
  <2>8. ~ Handle(s)
    BY <1>1 DEF Handle, At
  <2>9. ~ CheckOnline(s)
    BY <1>1 DEF CheckOnline, At, Goto
  <2>10. ~ Poll(s) /\ ~ GiveUp(s)
    <3>1. ASSUME Poll(s) PROVE FALSE
      <4>1. my' = my \/ Goto(s, "flush")
        BY <3>1 DEF Poll
      <4>2. ~ Goto(s, "flush")
        BY <1>1 DEF Goto, My
      <4> QED BY <4>1, <4>2
    <3>2. ASSUME GiveUp(s) PROVE FALSE
      <4>1. my' = [my EXCEPT ![s].pc = "process", ![s].then = "unlock"]
        BY <3>2 DEF GiveUp
      <4> QED BY <1>1, <4>1
    <3> QED BY <3>1, <3>2
  <2>11. Return(s) => s = t
    BY <1>1 DEF Return, At
  <2>12. Unlock(s) => s = t
    BY <1>1 DEF Unlock, At
  <2> QED BY <1>7, <2>1, <2>2, <2>3, <2>4, <2>5, <2>6, <2>7, <2>8, <2>9, <2>10, <2>11, <2>12
      DEF Continue
<1>8. ~ ExecutionStep /\ ~ UNCHANGED vars
  BY DEF ExecutionStep, vars, state
<1> QED BY <1>2, <1>3, <1>4, <1>5, <1>6, <1>7, <1>8 DEF Next, Step

\* Unless two threads have met, a synchronous call returns only after its block has been
\* run and answered, also when the caller has given up and done the exchange itself.
THEOREM SyncReturns == Spec => SyncAfterRun
<1>1. IInv /\ [Next]_vars =>
        [\A t \in Caller : my[t].pc \in {"wait", "unlock"} /\ my'[t].pc = "done"
           => "met" \in events \/ (t \in ToSet(ran) /\ t \in ToSet(responded))]_vars
  <2> SUFFICES ASSUME IInv, [Next]_vars, NEW t \in Caller, "met" \notin events,
                      my[t].pc \in {"wait", "unlock"}, my'[t].pc = "done"
               PROVE  t \in ToSet(ran) /\ t \in ToSet(responded)
    OBVIOUS
  <2>1. /\ Len(responded) <= Len(ran) /\ \A k \in 1 .. Len(responded) : responded[k] = ran[k]
        /\ ran \in Seq(Caller) /\ responded \in Seq(Caller)
    BY DEF IInv, Sequence, Answered, Basic, Types, BlockTypes
  <2>2. t \in ToSet(responded)
    <3>1. CASE Return(t)
      BY <3>1 DEF Return, Finished
    <3>2. CASE Unlock(t)
      <4>1. my[t].then = "unlock" /\ my[t].pc = "unlock"
        BY <3>2 DEF Unlock, At, IInv, Basic, Places, MainPlace, CallerPlace, Setup, Working,
                    Exchange, Flushing
      <4>2. Among(t, responded)
        BY <4>1 DEF IInv, Sequence, Waiting
      <4> QED BY <2>1, <4>2 DEF Among, ToSet
    <3> QED BY <3>1, <3>2, ReturnsOrUnlocks
  <2> QED BY <2>1, <2>2 DEF ToSet
<1> QED BY <1>1, Invariant, PTL DEF Spec, SyncAfterRun

\* No thread signals an execution thread that is gone, or reads blocks that were never
\* written, unless a call has given up, the real-time thread was set going too early, or
\* the queue was stopped with work to do.
THEOREM NoFaults == Spec => []NoFault
<1>1. IInv => NoFault
  <2> SUFFICES ASSUME IInv, {"late", "early", "stopped"} \cap events = {}
               PROVE  ~ Faulted
    BY DEF NoFault
  <2>1. TakesTurns /\ Watched /\ Places
    BY DEF IInv, Basic
  <2> QED BY <2>1 DEF Faulted, At, TakesTurns, Watched, Places, CallerPlace, Thread
<1> QED BY <1>1, Invariant, PTL
=============================================================================
