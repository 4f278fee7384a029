-------------------------- MODULE RealTimeScheduler --------------------------
(***************************************************************************)
(* The scheduler of SPCRealTimeScheduler.m.  Blocks are put in a priority  *)
(* queue under the tick at which they are due; the callback of the         *)
(* real-time thread runs those that are due by the end of its interval and *)
(* puts them back for their next repetition.  Responses, and the release   *)
(* of a block with its control data, go to the main thread by the response *)
(* queue.                                                                  *)
(*                                                                         *)
(* The priority queue is used in single steps, as KeyMap describes it with *)
(* one consumer; the response queue as a sequence of messages (InOrder of  *)
(* RealTimeMessageQueue).                                                  *)
(***************************************************************************)
EXTENDS Naturals, Sequences, FiniteSets, FiniteSetsExt, Functions

CONSTANTS Job,       \* calls of scheduleBlockAfterTime
          Capacity,  \* queueSize
          Word,      \* ticks are unsigned integers modulo Word (2^64)
          Base,      \* hostBaseTime
          First,     \* host time at the start of the first interval
          Length,    \* length of an interval
          Last,      \* bound: host time stops here
          Delay, Repetitions, Gap   \* arguments of the calls

ASSUME SchedulerAssumption ==
  /\ {Capacity, Word, Base, First, Length, Last} \subseteq Nat
  /\ First <= Last /\ Last < Word /\ Base < Word /\ Length > 0
  /\ Job # {}
  /\ Delay \cup Repetitions \cup Gap \subseteq 0 .. Word - 1

VARIABLES
  queue,     \* the scheduled jobs by their ticks
  job,       \* job[j]: the control data of job j, and its state
  buffer,    \* the messages in the response queue
  now,       \* the start of the interval
  rt,        \* the real-time thread
  fresh,     \* history: the jobs scheduled since the callback's last look
  dropped    \* history: the jobs that have left the queue without being run

vars == <<queue, job, buffer, now, rt, fresh, dropped>>

\* num_reps counts down from reps; runs counts up, for the properties only.
NoJob == [state |-> "none", num_reps |-> 0, reps |-> 0, runs |-> 0, gap |-> 0]

Goto(pc) == rt' = [rt EXCEPT !.pc = pc]

End == Min({now + Length, Last})

-----------------------------------------------------------------------------
(* The priority queue: an element is replaced by one with the same key, and *)
(* every insertion needs a node.                                            *)

MutantHasRoom == Cardinality(DOMAIN queue) <= Capacity
HasRoom == Cardinality(DOMAIN queue) < Capacity

Insert(k, j) ==
  /\ queue' = [i \in DOMAIN queue \cup {k} |-> IF i = k THEN j ELSE queue[i]]
  /\ dropped' = dropped \cup (IF k \in DOMAIN queue THEN {queue[k]} ELSE {})

FirstKey == Min(DOMAIN queue)

-----------------------------------------------------------------------------
(* The operations of other threads.                                        *)

\* scheduleBlockAfterTime; no repetitions is nothing to do.
Schedule(j, delay, reps, gap) ==
  LET new == [NoJob EXCEPT !.state = "live", !.num_reps = reps, !.reps = reps, !.gap = gap]
  IN /\ job[j].state = "none" /\ reps > 0
     /\ IF HasRoom
        THEN /\ Insert(delay, j)
             /\ job' = [job EXCEPT ![j] = new]
             /\ fresh' = fresh \cup {j}
        ELSE /\ job' = [job EXCEPT ![j].state = "refused"]
             /\ UNCHANGED <<queue, fresh, dropped>>
     /\ UNCHANGED <<buffer, now, rt>>

\* SPCPriorityQueueDispose and SPCPriorityQueueInit: what was there is forgotten.
EmptyQueue == queue' = <<>> /\ dropped' = dropped \cup Range(queue)

\* reset, which is for when the callback is not running.
Reset ==
  /\ rt.pc = "idle" /\ queue # <<>>
  /\ EmptyQueue
  /\ UNCHANGED <<job, buffer, now, rt, fresh>>

\* The main thread flushes the response queue.
Handle ==
  /\ buffer # <<>>
  /\ buffer' = Tail(buffer)
  /\ LET m == Head(buffer)
     IN job' = IF m[1] = "release" THEN [job EXCEPT ![m[2]].state = "freed"] ELSE job
  /\ UNCHANGED <<queue, now, rt, fresh, dropped>>

-----------------------------------------------------------------------------
(* SPCRealTimeSchedulerInvokeCallback for the interval from now to End.    *)

MutantrelativeEndTime == (now + Word - Base) % Word
relativeEndTime == (End + Word - Base) % Word

Invoke ==
  /\ rt.pc = "idle"
  /\ Goto("peek")
  /\ UNCHANGED <<queue, job, buffer, now, fresh, dropped>>

MutantDue(k) == k < relativeEndTime
Due(k) == k <= relativeEndTime

Peek ==
  /\ rt.pc = "peek"
  /\ IF queue # <<>> /\ Due(FirstKey)
     THEN Goto("extract") /\ UNCHANGED <<now, fresh>>
     ELSE Goto("idle") /\ now' = End /\ fresh' = {}
  /\ UNCHANGED <<queue, job, buffer, dropped>>

\* What is extracted may be earlier than what was seen, or another job.
Extract ==
  /\ rt.pc = "extract"
  /\ rt' = [pc |-> "run", tick |-> FirstKey, job |-> queue[FirstKey]]
  /\ queue' = [k \in DOMAIN queue \ {FirstKey} |-> queue[k]]
  /\ UNCHANGED <<job, buffer, now, fresh, dropped>>

eventTime == (Base + rt.tick) % Word
timeOffset == IF eventTime > now THEN eventTime - now ELSE 0

MutantIsLast(j) == job[j].num_reps <= 0
\* num_reps is decremented, then compared.
IsLast(j) == job[j].num_reps - 1 <= 0

Run ==
  /\ rt.pc = "run"
  /\ job' = [job EXCEPT ![rt.job].num_reps = (@ + Word - 1) % Word,
                         ![rt.job].runs = @ + 1]
  /\ buffer' = Append(buffer, <<IF IsLast(rt.job) THEN "last" ELSE "response", rt.job>>)
  /\ Goto(IF IsLast(rt.job) THEN "release" ELSE "repeat")
  /\ UNCHANGED <<queue, now, fresh, dropped>>

\* The result of the insertion is ignored.
Repeat ==
  /\ rt.pc = "repeat"
  /\ IF HasRoom
     THEN Insert((rt.tick + job[rt.job].gap) % Word, rt.job)
     ELSE dropped' = dropped \cup {rt.job} /\ UNCHANGED queue
  /\ Goto("peek")
  /\ UNCHANGED <<job, buffer, now, fresh>>

Release ==
  /\ rt.pc = "release"
  /\ buffer' = Append(buffer, <<"release", rt.job>>)
  /\ Goto("peek")
  /\ UNCHANGED <<queue, job, now, fresh, dropped>>

-----------------------------------------------------------------------------
Init ==
  /\ queue = <<>> /\ buffer = <<>> /\ fresh = {} /\ dropped = {}
  /\ job = [j \in Job |-> NoJob]
  /\ now = First
  /\ rt = [pc |-> "idle", tick |-> 0, job |-> CHOOSE j \in Job : TRUE]

Callback == Invoke \/ Peek \/ Extract \/ Run \/ Repeat \/ Release

Next ==
  \/ \E j \in Job, d \in Delay, r \in Repetitions, g \in Gap : Schedule(j, d, r, g)
  \/ Reset
  \/ Handle
  \/ Callback

\* The callback is invoked again and again, and the response queue is flushed.
Spec == Init /\ [][Next]_vars /\ WF_vars(Callback) /\ WF_vars(Handle)

-----------------------------------------------------------------------------
(* Properties.                                                             *)

\* Every variable has its type.
TypeOK ==
  /\ DOMAIN queue \subseteq 0 .. Word - 1 /\ Range(queue) \subseteq Job
  /\ Cardinality(DOMAIN queue) <= Capacity
  /\ \A j \in Job :
       /\ job[j].state \in {"none", "live", "refused", "freed"}
       /\ job[j].num_reps \in 0 .. job[j].reps
  /\ buffer \in Seq({"response", "last", "release"} \X Job)
  /\ now \in First .. Last /\ rt.job \in Job /\ rt.tick \in 0 .. Word - 1
  /\ fresh \cup dropped \subseteq Job

\* Where the control data of job j is referred to.
Owners(j) ==
  {<<"queue", k>> : k \in {k \in DOMAIN queue : queue[k] = j}}
    \cup {<<"buffer", i>> : i \in {i \in DOMAIN buffer : buffer[i] = <<"release", j>>}}
    \cup (IF rt.job = j /\ rt.pc \in {"run", "repeat", "release"}
          THEN {<<"callback", 0>>} ELSE {})

\* The control data of a job has one owner until it is freed, and then none: it
\* is not used after its release, nor released twice, nor forgotten, but for the
\* jobs that were dropped.  It is released after all repetitions have been run.
OneOwner ==
  \A j \in Job :
    /\ Cardinality(Owners(j)) =
         IF job[j].state = "live" /\ j \notin dropped THEN 1 ELSE 0
    /\ \/ job[j].state = "freed" \/ \E i \in DOMAIN buffer : buffer[i] = <<"release", j>>
       => job[j].runs = job[j].reps

\* A block runs no earlier than its tick, with an offset inside the interval;
\* between two calls of the callback, whatever was due by the end of the
\* last interval has been run, unless it was scheduled since the callback's last
\* look at the queue.
OnTime ==
  /\ rt.pc = "run" => Base + rt.tick <= End /\ timeOffset <= End - now
  /\ rt.pc = "idle" => \A k \in DOMAIN queue : Base + k <= now => queue[k] \in fresh

\* A job that was accepted runs all its repetitions and is released in the end,
\* unless it was dropped: for another job at its tick, for lack of a node when
\* it was to be repeated, or by a reset.
Served ==
  \A j \in Job : job[j].state = "live" ~> job[j].state = "freed" \/ j \in dropped

\* A job that was accepted is run.
AcceptedRuns == \A j \in Job : job[j].state = "live" ~> job[j].runs > 0
=============================================================================
