----------------------- MODULE RealTimeSchedulerProofs -----------------------
(***************************************************************************)
(* Proofs for RealTimeScheduler, for every number of jobs and every size   *)
(* of the queue: control data has one owner, and blocks run on time.       *)
(***************************************************************************)
EXTENDS RealTimeScheduler, Integers, FiniteSetTheorems, WellFoundedInduction, TLAPS

Tick == 0 .. Word - 1

JobRecord ==
  [state : {"none", "live", "refused", "freed"},
   num_reps : Tick, reps : Tick, runs : Nat, gap : Tick]

Message == {"response", "last", "release"} \X Job

Types ==
  /\ queue \in [DOMAIN queue -> Job] /\ DOMAIN queue \subseteq Tick
  /\ IsFiniteSet(DOMAIN queue) /\ Cardinality(DOMAIN queue) <= Capacity
  /\ job \in [Job -> JobRecord]
  /\ buffer \in Seq(Message)
  /\ now \in First .. Last
  /\ rt \in [pc : {"idle", "peek", "extract", "run", "repeat", "release"},
             tick : Tick, job : Job]
  /\ fresh \subseteq Job /\ dropped \subseteq Job

\* The three owners that the control data of job j may have.
Queued(j) == \E k \in DOMAIN queue : queue[k] = j
Sent(j) == \E i \in DOMAIN buffer : buffer[i] = <<"release", j>>
Held(j) == rt.job = j /\ rt.pc \in {"run", "repeat", "release"}

\* No owner twice.
QueuedOnce == \A k, l \in DOMAIN queue : queue[k] = queue[l] => k = l

SentOnce ==
  \A j \in Job : \A i, l \in DOMAIN buffer :
    buffer[i] = <<"release", j>> /\ buffer[l] = <<"release", j>> => i = l

\* A job that was accepted has one owner until it is freed or dropped; and how
\* many of its repetitions are left there.
JobInv(j) ==
  /\ ~ (Queued(j) /\ Sent(j)) /\ ~ (Queued(j) /\ Held(j)) /\ ~ (Sent(j) /\ Held(j))
  /\ Queued(j) \/ Sent(j) \/ Held(j) <=> job[j].state = "live" /\ j \notin dropped
  /\ j \in dropped => job[j].state = "live"
  /\ job[j].runs + job[j].num_reps = job[j].reps
  /\ Queued(j) \/ (Held(j) /\ rt.pc # "release") => job[j].num_reps > 0
  /\ Sent(j) \/ (Held(j) /\ rt.pc = "release") \/ job[j].state = "freed"
       => job[j].num_reps = 0

JobsInv == \A j \in Job : JobInv(j)

\* What was seen at the head of the queue is still there, or something earlier.
ReadyInv == rt.pc = "extract" => DOMAIN queue # {}

IInv == Types /\ QueuedOnce /\ SentOnce /\ JobsInv /\ ReadyInv

-----------------------------------------------------------------------------
(* The first key.                                                          *)

\* Every set of natural numbers but the empty one has a least element.
LEMMA Least ==
  ASSUME NEW S, S \subseteq Nat, S # {}
  PROVE  Min(S) \in S /\ \A x \in S : Min(S) <= x
<1> DEFINE R == {ss \in Nat \X Nat : ss[1] < ss[2]}
<1>1. IsWellFoundedOn(OpToRel(<, Nat), Nat)
  BY ONLY NatLessThanWellFounded, Zenon
<1>2. OpToRel(<, Nat) = R
  BY DEF OpToRel
<1>3. IsWellFoundedOn(R, Nat)
  BY <1>1, <1>2
<1>4. PICK m \in S : \A x \in S : <<x, m>> \notin R
  <2> HIDE DEF R
  <2> QED BY <1>3, WFMin
<1>5. \A x \in S : m <= x
  <2> SUFFICES ASSUME NEW x \in S PROVE m <= x
    OBVIOUS
  <2>1. x \in Nat /\ m \in Nat
    OBVIOUS
  <2>2. <<x, m>> \notin R
    BY <1>4
  <2> QED BY <2>1, <2>2
<1> QED BY <1>5 DEF Min

\* While the queue is not empty, its first key is there, and no key is smaller.
LEMMA FirstKeyIsFirst ==
  ASSUME Types, DOMAIN queue # {}
  PROVE  FirstKey \in DOMAIN queue /\ \A k \in DOMAIN queue : FirstKey <= k
<1>1. DOMAIN queue \subseteq Nat
  BY SchedulerAssumption DEF Types, Tick
<1> QED BY <1>1, Least DEF FirstKey

\* The empty queue.
LEMMA EmptyDomain ==
  ASSUME Types
  PROVE  queue = <<>> <=> DOMAIN queue = {}
BY DEF Types

\* The end of an interval lies after its start and not after the last tick.
LEMMA EndInRange ==
  ASSUME Types
  PROVE  End \in now .. Last
<1> DEFINE S == {now + Length, Last}
<1>1. now \in Nat /\ Length \in Nat /\ Last \in Nat /\ now <= Last
  BY SchedulerAssumption DEF Types
<1>2. S \subseteq Nat /\ S # {}
  BY <1>1
<1>3. Min(S) \in S /\ \A x \in S : Min(S) <= x
  <2> HIDE DEF S
  <2> QED BY <1>2, Least
<1> QED BY <1>1, <1>3 DEF End

-----------------------------------------------------------------------------
(* Types.                                                                  *)

\* The initial state has the types.
LEMMA InitTypes == Init => Types
<1> SUFFICES ASSUME Init PROVE Types
  OBVIOUS
<1>1. DOMAIN queue = {} /\ queue \in [DOMAIN queue -> Job]
  BY DEF Init
<1>2. IsFiniteSet(DOMAIN queue) /\ Cardinality(DOMAIN queue) <= Capacity
  BY <1>1, FS_EmptySet, SchedulerAssumption
<1>3. NoJob \in JobRecord
  BY SchedulerAssumption DEF NoJob, JobRecord, Tick
<1>4. (CHOOSE j \in Job : TRUE) \in Job
  BY SchedulerAssumption
<1>5. 0 \in Tick /\ First \in First .. Last
  BY SchedulerAssumption DEF Tick
<1> QED BY <1>1, <1>2, <1>3, <1>4, <1>5 DEF Init, Types

\* A record of control data and the word arithmetic on it.
LEMMA JobTypes ==
  ASSUME Types, NEW j \in Job
  PROVE  /\ job[j] \in JobRecord
         /\ job[j].num_reps \in Tick /\ job[j].reps \in Tick
         /\ job[j].runs \in Nat /\ job[j].gap \in Tick
         /\ rt.tick \in Tick /\ rt.job \in Job
<1>1. job[j] \in JobRecord
  BY DEF Types
<1>2. rt.tick \in Tick /\ rt.job \in Job
  BY DEF Types
<1> QED BY <1>1, <1>2 DEF JobRecord

\* A sum modulo Word is a tick.
LEMMA TickSum ==
  ASSUME NEW a \in Nat
  PROVE  a % Word \in Tick
BY SchedulerAssumption DEF Tick

\* An insertion keeps the queue a map within its capacity.
LEMMA InsertTypes ==
  ASSUME Types, HasRoom, NEW k \in Tick, NEW j \in Job, Insert(k, j)
  PROVE  /\ queue' \in [DOMAIN queue' -> Job] /\ DOMAIN queue' = DOMAIN queue \cup {k}
         /\ DOMAIN queue' \subseteq Tick
         /\ IsFiniteSet(DOMAIN queue') /\ Cardinality(DOMAIN queue') <= Capacity
         /\ dropped' \subseteq Job
<1>1. DOMAIN queue' = DOMAIN queue \cup {k} /\ queue' \in [DOMAIN queue' -> Job]
  BY DEF Insert, Types
<1>2. /\ IsFiniteSet(DOMAIN queue')
      /\ Cardinality(DOMAIN queue') <= Cardinality(DOMAIN queue) + 1
  <2>1. IsFiniteSet(DOMAIN queue) /\ Cardinality(DOMAIN queue) \in Nat
    BY FS_CardinalityType DEF Types
  <2>2. /\ IsFiniteSet(DOMAIN queue \cup {k})
        /\ Cardinality(DOMAIN queue \cup {k}) =
             IF k \in DOMAIN queue THEN Cardinality(DOMAIN queue)
                                  ELSE Cardinality(DOMAIN queue) + 1
    BY <2>1, FS_AddElement
  <2> QED BY <1>1, <2>1, <2>2
<1>3. Cardinality(DOMAIN queue) \in Nat /\ Cardinality(DOMAIN queue') \in Nat
  BY <1>2, FS_CardinalityType DEF Types
<1>4. Cardinality(DOMAIN queue') <= Capacity
  BY <1>2, <1>3, SchedulerAssumption DEF HasRoom
<1>5. dropped' \subseteq Job
  BY DEF Insert, Types
<1> QED BY <1>1, <1>2, <1>4, <1>5 DEF Types

\* Every step keeps the types.
LEMMA NextTypes ==
  ASSUME IInv, [Next]_vars
  PROVE  Types'
<1> USE SchedulerAssumption
<1> Types
  BY DEF IInv
<1>1. CASE \E j \in Job, d \in Delay, r \in Repetitions, g \in Gap : Schedule(j, d, r, g)
  <2> PICK j \in Job, d \in Delay, r \in Repetitions, g \in Gap : Schedule(j, d, r, g)
    BY <1>1
  <2>1. d \in Tick /\ r \in Tick /\ g \in Tick
    BY DEF Tick
  <2>2. job' \in [Job -> JobRecord]
    <3> DEFINE new == [NoJob EXCEPT !.state = "live", !.num_reps = r, !.reps = r, !.gap = g]
               refused == [job[j] EXCEPT !.state = "refused"]
    <3>1. new \in JobRecord
      BY <2>1 DEF NoJob, JobRecord
    <3>2. refused \in JobRecord
      BY JobTypes DEF JobRecord
    <3>3. job' = [job EXCEPT ![j] = new] \/ job' = [job EXCEPT ![j] = refused]
      BY DEF Schedule
    <3> HIDE DEF new, refused
    <3> QED BY <3>1, <3>2, <3>3 DEF Types
  <2>3. CASE HasRoom
    <3>1. Insert(d, j)
      BY <2>3 DEF Schedule
    <3> QED BY <2>1, <2>2, <2>3, <3>1, InsertTypes DEF Schedule, Types
  <2>4. CASE ~ HasRoom
    BY <2>2, <2>4 DEF Schedule, Types
  <2> QED BY <2>3, <2>4
<1>2. CASE Reset
  <2>1. DOMAIN queue' = {} /\ queue' \in [DOMAIN queue' -> Job]
    BY <1>2 DEF Reset, EmptyQueue
  <2>2. IsFiniteSet(DOMAIN queue') /\ Cardinality(DOMAIN queue') <= Capacity
    BY <2>1, FS_EmptySet
  <2>3. dropped' \subseteq Job
    BY <1>2 DEF Reset, EmptyQueue, Types, Range
  <2> QED BY <1>2, <2>1, <2>2, <2>3 DEF Reset, Types
<1>3. CASE Handle
  <2>1. Head(buffer) \in Message /\ buffer' \in Seq(Message)
    BY <1>3 DEF Handle, Types
  <2>2. Head(buffer)[2] \in Job
    BY <2>1 DEF Message
  <2>3. job' \in [Job -> JobRecord]
    BY <1>3, <2>2 DEF Handle, Types, JobRecord
  <2> QED BY <1>3, <2>1, <2>3 DEF Handle, Types
<1>4. CASE Invoke
  BY <1>4 DEF Invoke, Goto, Types
<1>5. CASE Peek
  <2>1. End \in First .. Last
    BY EndInRange DEF Types
  <2>2. rt' \in [pc : {"idle", "peek", "extract", "run", "repeat", "release"},
                 tick : Tick, job : Job]
    BY <1>5 DEF Peek, Goto, Types
  <2> QED BY <1>5, <2>1, <2>2 DEF Peek, Types
<1>6. CASE Extract
  <2>1. FirstKey \in DOMAIN queue
    BY <1>6, FirstKeyIsFirst DEF Extract, IInv, ReadyInv
  <2>2. /\ DOMAIN queue' = DOMAIN queue \ {FirstKey}
        /\ queue' \in [DOMAIN queue' -> Job]
    BY <1>6 DEF Extract, Types
  <2>3. /\ IsFiniteSet(DOMAIN queue')
        /\ Cardinality(DOMAIN queue') <= Cardinality(DOMAIN queue)
    BY <2>2, FS_Subset DEF Types
  <2>4. Cardinality(DOMAIN queue') <= Capacity
    <3>1. Cardinality(DOMAIN queue') \in Nat /\ Cardinality(DOMAIN queue) \in Nat
      BY <2>3, FS_CardinalityType DEF Types
    <3> QED BY <2>3, <3>1 DEF Types
  <2>5. rt' \in [pc : {"idle", "peek", "extract", "run", "repeat", "release"},
                 tick : Tick, job : Job]
    BY <1>6, <2>1 DEF Extract, Types
  <2> QED BY <1>6, <2>2, <2>3, <2>4, <2>5 DEF Extract, Types
<1>7. CASE Run
  <2>1. rt.job \in Job /\ job[rt.job].num_reps \in Tick /\ job[rt.job] \in JobRecord
    BY JobTypes
  <2>2. (job[rt.job].num_reps + Word - 1) % Word \in Tick
    BY <2>1, TickSum DEF Tick
  <2>3. job' \in [Job -> JobRecord]
    <3> DEFINE left == (job[rt.job].num_reps + Word - 1) % Word
               count == job[rt.job].runs + 1
               new == [job[rt.job] EXCEPT !.num_reps = left, !.runs = count]
    <3>1. new \in JobRecord
      <4>1. left \in Tick /\ count \in Nat
        BY <2>2, JobTypes, <2>1
      <4> HIDE DEF left, count
      <4> QED BY <2>1, <4>1 DEF JobRecord
    <3>2. job' = [job EXCEPT ![rt.job] = new]
      BY <1>7 DEF Run
    <3> HIDE DEF new
    <3> QED BY <2>1, <3>1, <3>2 DEF Types
  <2>4. buffer' \in Seq(Message)
    BY <1>7, <2>1 DEF Run, Types, Message
  <2> QED BY <1>7, <2>3, <2>4 DEF Run, Goto, Types
<1>8. CASE Repeat
  <2>1. (rt.tick + job[rt.job].gap) % Word \in Tick /\ rt.job \in Job
    <3>1. rt.tick \in Nat /\ rt.job \in Job /\ job[rt.job].gap \in Nat
      BY JobTypes DEF Tick
    <3> QED BY <3>1, TickSum
  <2>2. rt' \in [pc : {"idle", "peek", "extract", "run", "repeat", "release"},
                 tick : Tick, job : Job]
    BY <1>8 DEF Repeat, Goto, Types
  <2>3. CASE HasRoom
    BY <1>8, <2>1, <2>2, <2>3, InsertTypes DEF Repeat, Types
  <2>4. CASE ~ HasRoom
    BY <1>8, <2>1, <2>2, <2>4 DEF Repeat, Types
  <2> QED BY <2>3, <2>4
<1>9. CASE Release
  <2>1. buffer' \in Seq(Message)
    BY <1>9 DEF Release, Types, Message
  <2> QED BY <1>9, <2>1 DEF Release, Goto, Types
<1>10. CASE UNCHANGED vars
  BY <1>10 DEF vars, Types
<1> QED
  BY <1>1, <1>2, <1>3, <1>4, <1>5, <1>6, <1>7, <1>8, <1>9, <1>10 DEF Next, Callback
-----------------------------------------------------------------------------
(* What the steps do to the owners.                                        *)

\* An insertion makes the queue the owner of a job that it did not own, and may
\* take another one out of it.
LEMMA InsertOwners ==
  ASSUME Types, QueuedOnce, NEW k \in Tick, NEW j \in Job, ~ Queued(j), Insert(k, j)
  PROVE  \E D \in SUBSET Job :
           /\ dropped' = dropped \cup D
           /\ \A i \in D : Queued(i)
           /\ \A i \in Job : Queued(i)' <=> i = j \/ (Queued(i) /\ i \notin D)
           /\ QueuedOnce'
           /\ DOMAIN queue' # {}
<1> DEFINE D == IF k \in DOMAIN queue THEN {queue[k]} ELSE {}
<1>1. D \in SUBSET Job /\ dropped' = dropped \cup D /\ \A i \in D : Queued(i)
  BY DEF Insert, Types, Queued
<1>2. /\ DOMAIN queue' = DOMAIN queue \cup {k}
      /\ \A l \in DOMAIN queue' : queue'[l] = IF l = k THEN j ELSE queue[l]
  BY DEF Insert
<1>3. QueuedOnce'
  BY <1>2 DEF QueuedOnce, Queued
<1>4. ASSUME NEW i \in Job
      PROVE  Queued(i)' <=> i = j \/ (Queued(i) /\ i \notin D)
  BY <1>2 DEF QueuedOnce, Queued
<1> HIDE DEF D
<1> QED BY <1>1, <1>2, <1>3, <1>4

\* A message that is appended.
LEMMA AppendOwners ==
  ASSUME Types, SentOnce, NEW m \in Message, buffer' = Append(buffer, m),
         \A i \in Job : m = <<"release", i>> => ~ Sent(i)
  PROVE  /\ SentOnce'
         /\ \A i \in Job : Sent(i)' <=> Sent(i) \/ m = <<"release", i>>
<1>1. /\ DOMAIN buffer = 1 .. Len(buffer) /\ DOMAIN buffer' = 1 .. Len(buffer) + 1
      /\ Len(buffer) \in Nat
      /\ \A l \in 1 .. Len(buffer) : buffer'[l] = buffer[l]
      /\ buffer'[Len(buffer) + 1] = m
  BY DEF Types
<1>2. ASSUME NEW i \in Job
      PROVE  Sent(i)' <=> Sent(i) \/ m = <<"release", i>>
  <2>1. ASSUME Sent(i)' PROVE Sent(i) \/ m = <<"release", i>>
    <3>1. PICK l \in 1 .. Len(buffer) + 1 : buffer'[l] = <<"release", i>>
      BY <1>1, <2>1 DEF Sent
    <3>2. CASE l \in 1 .. Len(buffer)
      BY <1>1, <3>1, <3>2 DEF Sent
    <3>3. CASE l = Len(buffer) + 1
      BY <1>1, <3>1, <3>3
    <3> QED BY <1>1, <3>2, <3>3
  <2>2. ASSUME Sent(i) PROVE Sent(i)'
    BY <1>1, <2>2 DEF Sent
  <2>3. ASSUME m = <<"release", i>> PROVE Sent(i)'
    <3>1. Len(buffer) + 1 \in DOMAIN buffer'
      BY <1>1
    <3> QED BY <1>1, <2>3, <3>1 DEF Sent
  <2> QED BY <2>1, <2>2, <2>3
<1>3. SentOnce'
  <2> SUFFICES ASSUME NEW j \in Job, NEW i \in DOMAIN buffer', NEW l \in DOMAIN buffer',
                      buffer'[i] = <<"release", j>>, buffer'[l] = <<"release", j>>
               PROVE  i = l
    BY DEF SentOnce
  <2>1. CASE m = <<"release", j>>
    <3>1. \A h \in 1 .. Len(buffer) : buffer[h] # <<"release", j>>
      BY <1>1, <2>1 DEF Sent
    <3> QED BY <1>1, <3>1
  <2>2. CASE m # <<"release", j>>
    <3>1. i # Len(buffer) + 1 /\ l # Len(buffer) + 1
      BY <1>1, <2>2
    <3>2. i \in 1 .. Len(buffer) /\ l \in 1 .. Len(buffer)
      BY <1>1, <3>1
    <3>3. buffer[i] = <<"release", j>> /\ buffer[l] = <<"release", j>>
      BY <1>1, <3>2
    <3> QED BY <1>1, <3>2, <3>3 DEF SentOnce
  <2> QED BY <2>1, <2>2
<1> QED BY <1>2, <1>3

\* A message that is taken.
LEMMA TailOwners ==
  ASSUME Types, SentOnce, buffer # <<>>, buffer' = Tail(buffer)
  PROVE  /\ SentOnce'
         /\ \A i \in Job :
              Sent(i)' <=> Sent(i) /\ Head(buffer) # <<"release", i>>
         /\ \A i \in Job : Head(buffer) = <<"release", i>> => Sent(i)
<1>1. /\ DOMAIN buffer = 1 .. Len(buffer) /\ DOMAIN buffer' = 1 .. Len(buffer) - 1
      /\ Len(buffer) \in Nat /\ Len(buffer) > 0
      /\ \A l \in 1 .. Len(buffer) - 1 : buffer'[l] = buffer[l + 1]
      /\ Head(buffer) = buffer[1]
  BY DEF Types
<1>2. SentOnce'
  <2> SUFFICES ASSUME NEW j \in Job, NEW i \in DOMAIN buffer', NEW l \in DOMAIN buffer',
                      buffer'[i] = <<"release", j>>, buffer'[l] = <<"release", j>>
               PROVE  i = l
    BY DEF SentOnce
  <2>1. i + 1 \in DOMAIN buffer /\ l + 1 \in DOMAIN buffer
    BY <1>1
  <2>2. buffer[i + 1] = <<"release", j>> /\ buffer[l + 1] = <<"release", j>>
    BY <1>1
  <2>3. i + 1 = l + 1
    BY <2>1, <2>2 DEF SentOnce
  <2> QED BY <1>1, <2>3
<1>3. ASSUME NEW i \in Job
      PROVE  Sent(i)' <=> Sent(i) /\ Head(buffer) # <<"release", i>>
  <2>1. ASSUME Sent(i)' PROVE Sent(i) /\ Head(buffer) # <<"release", i>>
    <3>1. PICK l \in DOMAIN buffer' : buffer'[l] = <<"release", i>>
      BY <2>1 DEF Sent
    <3>2. l + 1 \in DOMAIN buffer /\ buffer[l + 1] = <<"release", i>> /\ l + 1 # 1
      BY <1>1, <3>1
    <3>3. 1 \in DOMAIN buffer
      BY <1>1
    <3> QED BY <1>1, <3>2, <3>3 DEF Sent, SentOnce
  <2>2. ASSUME Sent(i), Head(buffer) # <<"release", i>> PROVE Sent(i)'
    <3>1. PICK l \in DOMAIN buffer : buffer[l] = <<"release", i>>
      BY <2>2 DEF Sent
    <3>2. l - 1 \in DOMAIN buffer' /\ buffer'[l - 1] = buffer[l]
      BY <1>1, <2>2, <3>1
    <3> QED BY <3>1, <3>2 DEF Sent
  <2> QED BY <2>1, <2>2
<1>4. ASSUME NEW i \in Job, Head(buffer) = <<"release", i>> PROVE Sent(i)
  <2>1. 1 \in DOMAIN buffer
    BY <1>1
  <2> QED BY <1>1, <1>4, <2>1 DEF Sent
<1> QED BY <1>2, <1>3, <1>4

\* Steps that leave the queue and the buffer alone leave their owners alone.
LEMMA SameOwners ==
  /\ UNCHANGED queue => QueuedOnce' = QueuedOnce /\ \A i \in Job : Queued(i)' = Queued(i)
  /\ UNCHANGED buffer => SentOnce' = SentOnce /\ \A i \in Job : Sent(i)' = Sent(i)
BY DEF QueuedOnce, SentOnce, Queued, Sent

\* A job that a step does not touch.
LEMMA SameJob ==
  ASSUME NEW i \in Job, JobInv(i),
         Queued(i)' <=> Queued(i), Sent(i)' <=> Sent(i), Held(i)' <=> Held(i),
         Held(i) => (rt'.pc = "release" <=> rt.pc = "release"),
         job'[i] = job[i], i \in dropped' <=> i \in dropped
  PROVE  JobInv(i)'
BY DEF JobInv

\* A job that loses its place in the queue.
LEMMA DroppedJob ==
  ASSUME NEW i \in Job, JobInv(i), Queued(i),
         ~ Queued(i)', Sent(i)' <=> Sent(i), Held(i)' <=> Held(i),
         job'[i] = job[i], i \in dropped'
  PROVE  JobInv(i)'
BY DEF JobInv

-----------------------------------------------------------------------------
(* Every step preserves the invariant.                                     *)

\* Scheduling makes the queue the owner, or refuses the job; it may drop another one.
LEMMA ScheduleOwners ==
  ASSUME IInv, NEW j \in Job, NEW d \in Delay, NEW r \in Repetitions, NEW g \in Gap,
         Schedule(j, d, r, g)
  PROVE  QueuedOnce' /\ SentOnce' /\ JobsInv'
<1> USE SchedulerAssumption
<1>1. /\ job[j].state = "none" /\ ~ Queued(j) /\ ~ Sent(j) /\ ~ Held(j) /\ j \notin dropped
  BY DEF IInv, JobsInv, JobInv, Schedule
<1>2. /\ SentOnce' /\ \A i \in Job : (Sent(i)' <=> Sent(i)) /\ (Held(i)' <=> Held(i))
      /\ rt' = rt
  BY SameOwners DEF IInv, Schedule, Held
<1>3. CASE HasRoom
  <2>1. Insert(d, j) /\ d \in Tick
    BY <1>3 DEF Schedule, Tick
  <2>2. PICK D \in SUBSET Job :
           /\ dropped' = dropped \cup D
           /\ \A i \in D : Queued(i)
           /\ \A i \in Job : Queued(i)' <=> i = j \/ (Queued(i) /\ i \notin D)
           /\ QueuedOnce'
    BY <1>1, <2>1, InsertOwners DEF IInv
  <2>3. /\ \A i \in Job \ {j} : job'[i] = job[i]
        /\ job'[j].state = "live" /\ job'[j].num_reps = r /\ job'[j].reps = r
        /\ job'[j].runs = 0 /\ r > 0 /\ r \in Nat
    <3> DEFINE new == [NoJob EXCEPT !.state = "live", !.num_reps = r, !.reps = r, !.gap = g]
    <3>1. job' = [job EXCEPT ![j] = new]
      BY <1>3 DEF Schedule
    <3>2. /\ new.state = "live" /\ new.num_reps = r /\ new.reps = r /\ new.runs = 0
          /\ r > 0 /\ r \in Nat
      BY DEF NoJob, Schedule
    <3> HIDE DEF new
    <3> QED BY <3>1, <3>2 DEF IInv, Types
  <2>4. ASSUME NEW i \in Job PROVE JobInv(i)'
    <3> JobInv(i)
      BY DEF IInv, JobsInv
    <3>1. CASE i = j
      <4>1. Queued(j)' /\ ~ Sent(j)' /\ ~ Held(j)' /\ j \notin dropped'
        BY <1>1, <1>2, <2>2
      <4> QED BY <3>1, <4>1, <2>3 DEF JobInv
    <3>2. CASE i # j /\ i \in D
      BY <3>2, <1>2, <2>2, <2>3, DroppedJob
    <3>3. CASE i # j /\ i \notin D
      BY <3>3, <1>2, <2>2, <2>3, SameJob
    <3> QED BY <3>1, <3>2, <3>3
  <2> QED BY <1>2, <2>2, <2>4 DEF JobsInv
<1>4. CASE ~ HasRoom
  <2>1. QueuedOnce' /\ \A i \in Job : Queued(i)' <=> Queued(i)
    BY <1>4, SameOwners DEF Schedule, IInv
  <2>2. /\ dropped' = dropped /\ \A i \in Job \ {j} : job'[i] = job[i]
        /\ job'[j] = [job[j] EXCEPT !.state = "refused"]
    BY <1>4 DEF Schedule, IInv, Types
  <2>3. ASSUME NEW i \in Job PROVE JobInv(i)'
    <3> JobInv(i)
      BY DEF IInv, JobsInv
    <3>1. CASE i = j
      <4>1. /\ job'[j].state = "refused" /\ job'[j].num_reps = job[j].num_reps
            /\ job'[j].runs = job[j].runs /\ job'[j].reps = job[j].reps
        BY <2>2, JobTypes DEF IInv, JobRecord
      <4>2. ~ Queued(j)' /\ ~ Sent(j)' /\ ~ Held(j)' /\ j \notin dropped'
        BY <1>1, <1>2, <2>1, <2>2
      <4> QED BY <3>1, <4>1, <4>2 DEF JobInv
    <3>2. CASE i # j
      BY <3>2, <1>2, <2>1, <2>2, SameJob
    <3> QED BY <3>1, <3>2
  <2> QED BY <1>2, <2>1, <2>3 DEF JobsInv
<1> QED BY <1>3, <1>4

\* A reset drops what the queue owns.
LEMMA ResetOwners ==
  ASSUME IInv, Reset
  PROVE  QueuedOnce' /\ SentOnce' /\ JobsInv'
<1>1. /\ SentOnce' /\ \A i \in Job : (Sent(i)' <=> Sent(i)) /\ (Held(i)' <=> Held(i))
      /\ rt' = rt /\ job' = job
  BY SameOwners DEF IInv, Reset, Held
<1>2. DOMAIN queue' = {}
  BY DEF Reset, EmptyQueue
<1>3. QueuedOnce' /\ \A i \in Job : ~ Queued(i)'
  BY <1>2 DEF QueuedOnce, Queued
<1>4. \A i \in Job : i \in dropped' <=> i \in dropped \/ Queued(i)
  BY DEF Reset, EmptyQueue, Range, Queued
<1>5. ASSUME NEW i \in Job PROVE JobInv(i)'
  <2> JobInv(i)
    BY DEF IInv, JobsInv
  <2>1. CASE Queued(i)
    BY <2>1, <1>1, <1>3, <1>4, DroppedJob
  <2>2. CASE ~ Queued(i)
    BY <2>2, <1>1, <1>3, <1>4, SameJob
  <2> QED BY <2>1, <2>2
<1> QED BY <1>1, <1>3, <1>5 DEF JobsInv

\* The main thread frees the job of a release message.
LEMMA HandleOwners ==
  ASSUME IInv, Handle
  PROVE  QueuedOnce' /\ SentOnce' /\ JobsInv'
<1> DEFINE m == Head(buffer)
<1>1. /\ QueuedOnce' /\ \A i \in Job : (Queued(i)' <=> Queued(i)) /\ (Held(i)' <=> Held(i))
      /\ rt' = rt /\ dropped' = dropped
  BY SameOwners DEF IInv, Handle, Held
<1>2. /\ SentOnce'
      /\ \A i \in Job : Sent(i)' <=> Sent(i) /\ m # <<"release", i>>
      /\ \A i \in Job : m = <<"release", i>> => Sent(i)
  BY TailOwners DEF IInv, Handle
<1>3. m \in Message
  BY DEF Handle, IInv, Types
<1>4. job' = IF m[1] = "release" THEN [job EXCEPT ![m[2]].state = "freed"] ELSE job
  BY DEF Handle
<1>5. PICK a \in {"response", "last", "release"}, b \in Job : m = <<a, b>>
  BY <1>3 DEF Message
<1> HIDE DEF m
<1>6. ASSUME NEW i \in Job PROVE JobInv(i)'
  <2> JobInv(i)
    BY DEF IInv, JobsInv
  <2>1. CASE m = <<"release", i>>
    <3>1. m[1] = "release" /\ m[2] = i
      BY <2>1
    <3>2. job'[i] = [job[i] EXCEPT !.state = "freed"]
      BY <1>4, <3>1 DEF IInv, Types
    <3>3. /\ job'[i].state = "freed" /\ job'[i].num_reps = job[i].num_reps
          /\ job'[i].runs = job[i].runs /\ job'[i].reps = job[i].reps
      BY <3>2, JobTypes DEF IInv, JobRecord
    <3>4. Sent(i) /\ ~ Sent(i)' /\ (Queued(i)' <=> Queued(i)) /\ (Held(i)' <=> Held(i))
      BY <2>1, <1>1, <1>2
    <3> QED BY <1>1, <3>3, <3>4 DEF JobInv
  <2>2. CASE m # <<"release", i>>
    <3>1. job'[i] = job[i]
      <4>1. CASE a = "release"
        <5>1. m[1] = "release" /\ m[2] = b /\ b # i
          BY <1>5, <2>2, <4>1
        <5> QED BY <1>4, <5>1 DEF IInv, Types
      <4>2. CASE a # "release"
        BY <1>4, <1>5, <4>2
      <4> QED BY <4>1, <4>2
    <3> QED BY <2>2, <3>1, <1>1, <1>2, SameJob
  <2> QED BY <2>1, <2>2
<1> QED BY <1>1, <1>2, <1>6 DEF JobsInv

\* Peeking changes no owner.
LEMMA PeekOwners ==
  ASSUME IInv, Invoke \/ Peek
  PROVE  QueuedOnce' /\ SentOnce' /\ JobsInv' /\ ReadyInv'
<1>1. /\ rt.pc \in {"idle", "peek"} /\ rt'.pc \in {"idle", "peek", "extract"}
      /\ UNCHANGED <<queue, job, buffer, dropped>>
      /\ rt'.pc = "extract" => DOMAIN queue # {}
  <2>1. rt \in [pc : {"idle", "peek", "extract", "run", "repeat", "release"},
               tick : Tick, job : Job]
    BY DEF IInv, Types
  <2>2. CASE Invoke
    BY <2>1, <2>2 DEF Invoke, Goto
  <2>3. CASE Peek
    BY <2>1, <2>3, EmptyDomain DEF Peek, Goto, IInv
  <2> QED BY <2>2, <2>3
<1>2. QueuedOnce' /\ \A i \in Job : Queued(i)' <=> Queued(i)
  BY <1>1, SameOwners DEF IInv
<1>3. SentOnce' /\ \A i \in Job : Sent(i)' <=> Sent(i)
  BY <1>1, SameOwners DEF IInv
<1>4. ASSUME NEW i \in Job PROVE JobInv(i)'
  <2> JobInv(i)
    BY DEF IInv, JobsInv
  <2>1. ~ Held(i) /\ ~ Held(i)'
    BY <1>1 DEF Held
  <2> QED BY <1>1, <1>2, <1>3, <2>1, SameJob
<1>5. ReadyInv'
  BY <1>1 DEF ReadyInv
<1> QED BY <1>2, <1>3, <1>4, <1>5 DEF JobsInv

\* Extraction moves the first job from the queue to the callback.
LEMMA ExtractOwners ==
  ASSUME IInv, Extract
  PROVE  QueuedOnce' /\ SentOnce' /\ JobsInv'
<1> DEFINE f == FirstKey
           j == queue[f]
<1>1. f \in DOMAIN queue /\ j \in Job
  BY FirstKeyIsFirst DEF Extract, IInv, ReadyInv, Types
<1>2. /\ rt.pc = "extract" /\ rt'.pc = "run" /\ rt'.job = j
      /\ UNCHANGED <<job, buffer, dropped>>
      /\ DOMAIN queue' = DOMAIN queue \ {f}
      /\ \A k \in DOMAIN queue' : queue'[k] = queue[k]
  BY DEF Extract
<1> HIDE DEF f
<1>3. QueuedOnce'
  BY <1>2 DEF QueuedOnce, IInv
<1>4. \A i \in Job : Queued(i)' <=> Queued(i) /\ i # j
  BY <1>1, <1>2 DEF Queued, QueuedOnce, IInv
<1>5. SentOnce' /\ \A i \in Job : Sent(i)' <=> Sent(i)
  BY <1>2, SameOwners DEF IInv
<1>6. \A i \in Job : ~ Held(i) /\ (Held(i)' <=> i = j)
  BY <1>2 DEF Held
<1>7. Queued(j)
  BY <1>1 DEF Queued
<1> HIDE DEF j
<1>8. ASSUME NEW i \in Job PROVE JobInv(i)'
  <2> JobInv(i)
    BY DEF IInv, JobsInv
  <2>1. CASE i = j
    BY <2>1, <1>2, <1>4, <1>5, <1>6, <1>7 DEF JobInv
  <2>2. CASE i # j
    BY <2>2, <1>2, <1>4, <1>5, <1>6, SameJob
  <2> QED BY <2>1, <2>2
<1> QED BY <1>3, <1>5, <1>8 DEF JobsInv

\* Running a job uses up one of its repetitions.
LEMMA RunOwners ==
  ASSUME IInv, Run
  PROVE  QueuedOnce' /\ SentOnce' /\ JobsInv'
<1> USE SchedulerAssumption
<1> PICK j \in Job : j = rt.job
  BY DEF IInv, Types
<1> DEFINE n == job[j].num_reps
           m == <<IF IsLast(j) THEN "last" ELSE "response", j>>
<1>1. /\ j \in Job /\ Held(j) /\ rt.pc = "run" /\ rt'.job = j
      /\ rt'.pc = IF IsLast(j) THEN "release" ELSE "repeat"
      /\ UNCHANGED <<queue, dropped>> /\ buffer' = Append(buffer, m)
  BY DEF IInv, Types, Run, Goto, Held
<1>2. n \in Nat /\ n > 0 /\ n < Word
  <2>1. n \in Tick
    BY <1>1, JobTypes DEF IInv
  <2> QED BY <1>1, <2>1 DEF IInv, JobsInv, JobInv, Tick
<1>3. (n + Word - 1) % Word = n - 1 /\ (IsLast(j) <=> n = 1)
  BY <1>2 DEF IsLast
<1>4. /\ \A i \in Job \ {j} : job'[i] = job[i]
      /\ job'[j].num_reps = n - 1 /\ job'[j].runs = job[j].runs + 1
      /\ job'[j].reps = job[j].reps /\ job'[j].state = job[j].state
  <2> DEFINE left == (n + Word - 1) % Word
             count == job[j].runs + 1
             new == [job[j] EXCEPT !.num_reps = left, !.runs = count]
  <2>1. job' = [job EXCEPT ![j] = new]
    BY DEF Run
  <2>2. /\ new.num_reps = left /\ new.runs = count
        /\ new.reps = job[j].reps /\ new.state = job[j].state
    BY <1>1, JobTypes DEF IInv, JobRecord
  <2> HIDE DEF new
  <2> QED BY <1>1, <1>3, <2>1, <2>2 DEF IInv, Types
<1>5. QueuedOnce' /\ \A i \in Job : Queued(i)' <=> Queued(i)
  BY <1>1, SameOwners DEF IInv
<1>6. m \in Message /\ \A i \in Job : m # <<"release", i>>
  BY <1>1 DEF Message
<1>7. SentOnce' /\ \A i \in Job : Sent(i)' <=> Sent(i)
  <2> HIDE DEF m
  <2> QED BY <1>1, <1>6, AppendOwners DEF IInv
<1>8. \A i \in Job : Held(i)' <=> Held(i)
  BY <1>1 DEF Held
<1>9. ASSUME NEW i \in Job PROVE JobInv(i)'
  <2> JobInv(i)
    BY DEF IInv, JobsInv
  <2>1. CASE i = j
    <3>1. job[j].runs \in Nat /\ job[j].reps \in Nat
      BY <1>1, JobTypes DEF IInv, Tick
    <3>2. Held(j)' /\ ~ Queued(j)' /\ ~ Sent(j)' /\ (rt'.pc = "release" <=> n - 1 = 0)
      BY <1>1, <1>2, <1>3, <1>5, <1>7, <1>8, <2>1 DEF JobInv
    <3>3. job[j].state = "live" /\ j \notin dropped' /\ job[j].runs + n = job[j].reps
      BY <1>1, <2>1 DEF JobInv
    <3> HIDE DEF n, m
    <3> QED BY <2>1, <1>2, <1>4, <3>1, <3>2, <3>3 DEF JobInv
  <2>2. CASE i # j
    <3>1. ~ Held(i)
      BY <2>2 DEF Held
    <3> QED BY <2>2, <3>1, <1>1, <1>4, <1>5, <1>7, <1>8, SameJob
  <2> QED BY <2>1, <2>2
<1> QED BY <1>5, <1>7, <1>9 DEF JobsInv

\* A job that is repeated goes back to the queue, or is dropped.
LEMMA RepeatOwners ==
  ASSUME IInv, Repeat
  PROVE  QueuedOnce' /\ SentOnce' /\ JobsInv'
<1> USE SchedulerAssumption
<1> PICK j \in Job : j = rt.job
  BY DEF IInv, Types
<1> DEFINE k == (rt.tick + job[j].gap) % Word
<1>1. /\ j \in Job /\ Held(j) /\ rt.pc = "repeat" /\ rt'.pc = "peek"
      /\ job' = job /\ UNCHANGED buffer
  BY DEF IInv, Types, Repeat, Goto, Held
<1>2. SentOnce' /\ \A i \in Job : Sent(i)' <=> Sent(i)
  BY <1>1, SameOwners DEF IInv
<1>3. \A i \in Job : ~ Held(i)' /\ (Held(i) <=> i = j)
  BY <1>1 DEF Held
<1>4. ~ Queued(j) /\ ~ Sent(j) /\ j \notin dropped /\ job[j].state = "live"
      /\ job[j].num_reps > 0
  BY <1>1 DEF IInv, JobsInv, JobInv
<1>5. CASE HasRoom
  <2>1. Insert(k, j) /\ k \in Tick
    <3>1. rt.tick + job[j].gap \in Nat
      BY <1>1, JobTypes DEF IInv, Tick
    <3> QED BY <1>5, <3>1, TickSum DEF Repeat
  <2> HIDE DEF k
  <2>2. PICK D \in SUBSET Job :
           /\ dropped' = dropped \cup D
           /\ \A i \in D : Queued(i)
           /\ \A i \in Job : Queued(i)' <=> i = j \/ (Queued(i) /\ i \notin D)
           /\ QueuedOnce'
    BY <1>1, <1>4, <2>1, InsertOwners DEF IInv
  <2>3. ASSUME NEW i \in Job PROVE JobInv(i)'
    <3> JobInv(i)
      BY DEF IInv, JobsInv
    <3>1. CASE i = j
      <4>1. Queued(j)' /\ ~ Sent(j)' /\ ~ Held(j)' /\ j \notin dropped'
        BY <1>1, <1>2, <1>3, <1>4, <2>2
      <4> QED BY <3>1, <4>1, <1>1, <1>4 DEF JobInv
    <3>2. CASE i # j /\ i \in D
      BY <3>2, <1>1, <1>2, <1>3, <2>2, DroppedJob
    <3>3. CASE i # j /\ i \notin D
      BY <3>3, <1>1, <1>2, <1>3, <2>2, SameJob
    <3> QED BY <3>1, <3>2, <3>3
  <2> QED BY <1>2, <2>2, <2>3 DEF JobsInv
<1>6. CASE ~ HasRoom
  <2>1. QueuedOnce' /\ \A i \in Job : Queued(i)' <=> Queued(i)
    BY <1>6, SameOwners DEF Repeat, IInv
  <2>2. dropped' = dropped \cup {j}
    BY <1>6 DEF Repeat
  <2>3. ASSUME NEW i \in Job PROVE JobInv(i)'
    <3> JobInv(i)
      BY DEF IInv, JobsInv
    <3>1. CASE i = j
      <4>1. ~ Queued(j)' /\ ~ Sent(j)' /\ ~ Held(j)' /\ j \in dropped'
        BY <1>1, <1>2, <1>3, <1>4, <2>1, <2>2
      <4> QED BY <3>1, <4>1, <1>1, <1>4 DEF JobInv
    <3>2. CASE i # j
      BY <3>2, <1>1, <1>2, <1>3, <2>1, <2>2, SameJob
    <3> QED BY <3>1, <3>2
  <2> QED BY <1>2, <2>1, <2>3 DEF JobsInv
<1> QED BY <1>5, <1>6

\* A job that is done moves to its release message.
LEMMA ReleaseOwners ==
  ASSUME IInv, Release
  PROVE  QueuedOnce' /\ SentOnce' /\ JobsInv'
<1> PICK j \in Job : j = rt.job
  BY DEF IInv, Types
<1> DEFINE m == <<"release", j>>
<1>1. /\ j \in Job /\ Held(j) /\ rt.pc = "release" /\ rt'.pc = "peek"
      /\ UNCHANGED <<queue, job, dropped>> /\ buffer' = Append(buffer, m)
  BY DEF IInv, Types, Release, Goto, Held
<1>2. QueuedOnce' /\ \A i \in Job : Queued(i)' <=> Queued(i)
  BY <1>1, SameOwners DEF IInv
<1>3. \A i \in Job : ~ Held(i)' /\ (Held(i) <=> i = j)
  BY <1>1 DEF Held
<1>4. ~ Queued(j) /\ ~ Sent(j) /\ j \notin dropped /\ job[j].state = "live"
      /\ job[j].num_reps = 0
  BY <1>1 DEF IInv, JobsInv, JobInv
<1>5. m \in Message /\ \A i \in Job : m = <<"release", i>> <=> i = j
  BY <1>1 DEF Message
<1>6. SentOnce' /\ \A i \in Job : Sent(i)' <=> Sent(i) \/ i = j
  <2> HIDE DEF m
  <2> QED BY <1>1, <1>4, <1>5, AppendOwners DEF IInv
<1>7. ASSUME NEW i \in Job PROVE JobInv(i)'
  <2> JobInv(i)
    BY DEF IInv, JobsInv
  <2>1. CASE i = j
    <3>1. ~ Queued(j)' /\ Sent(j)' /\ ~ Held(j)' /\ j \notin dropped'
      BY <1>1, <1>2, <1>3, <1>4, <1>6
    <3> QED BY <2>1, <3>1, <1>1, <1>4 DEF JobInv
  <2>2. CASE i # j
    BY <2>2, <1>1, <1>2, <1>3, <1>6, SameJob
  <2> QED BY <2>1, <2>2
<1> QED BY <1>2, <1>6, <1>7 DEF JobsInv

\* Stuttering changes no owner.
LEMMA StutterOwners ==
  ASSUME IInv, UNCHANGED vars
  PROVE  QueuedOnce' /\ SentOnce' /\ JobsInv'
<1>1. /\ UNCHANGED <<queue, job, buffer, rt, dropped>>
      /\ \A i \in Job : Held(i)' <=> Held(i)
  BY DEF vars, Held
<1>2. /\ QueuedOnce' /\ \A i \in Job : Queued(i)' <=> Queued(i)
      /\ SentOnce' /\ \A i \in Job : Sent(i)' <=> Sent(i)
  BY <1>1, SameOwners DEF IInv
<1>3. ASSUME NEW i \in Job PROVE JobInv(i)'
  BY <1>1, <1>2, SameJob DEF IInv, JobsInv
<1> QED BY <1>2, <1>3 DEF JobsInv

\* While the callback is about to extract, only insertions change the queue.
LEMMA NextReady ==
  ASSUME IInv, [Next]_vars, ~ Peek
  PROVE  /\ ReadyInv'
         /\ rt'.pc = "extract" =>
              /\ rt.pc = "extract" /\ now' = now
              /\ DOMAIN queue \subseteq DOMAIN queue'
<1>1. rt \in [pc : {"idle", "peek", "extract", "run", "repeat", "release"},
             tick : Tick, job : Job]
  BY DEF IInv, Types
<1>2. SUFFICES ASSUME rt'.pc = "extract"
               PROVE  /\ rt.pc = "extract" /\ now' = now
                      /\ DOMAIN queue \subseteq DOMAIN queue'
  BY DEF ReadyInv, IInv
<1>3. CASE \E j \in Job, d \in Delay, r \in Repetitions, g \in Gap : Schedule(j, d, r, g)
  BY <1>2, <1>3 DEF Schedule, Insert
<1>4. CASE Reset \/ Handle
  BY <1>2, <1>4 DEF Reset, Handle
<1>5. CASE Invoke \/ Extract \/ Run \/ Repeat \/ Release
  BY <1>1, <1>2, <1>5 DEF Invoke, Extract, Run, Repeat, Release, Goto
<1>6. CASE UNCHANGED vars
  BY <1>2, <1>6 DEF vars
<1> QED BY <1>3, <1>4, <1>5, <1>6 DEF Next, Callback

\* The invariant holds at first.
LEMMA Initially == Init => IInv
<1> SUFFICES ASSUME Init PROVE IInv
  OBVIOUS
<1>1. Types
  BY InitTypes
<1>2. DOMAIN queue = {} /\ DOMAIN buffer = {} /\ dropped = {} /\ rt.pc = "idle"
  BY DEF Init
<1>3. QueuedOnce /\ SentOnce /\ ReadyInv
  BY <1>2 DEF QueuedOnce, SentOnce, ReadyInv
<1>4. JobsInv
  BY <1>2 DEF Init, NoJob, JobsInv, JobInv, Queued, Sent, Held
<1> QED BY <1>1, <1>3, <1>4 DEF IInv

\* Every step preserves the invariant.
LEMMA Inductive ==
  ASSUME IInv, [Next]_vars
  PROVE  IInv'
<1>1. Types'
  BY NextTypes
<1>2. QueuedOnce' /\ SentOnce' /\ JobsInv'
  BY ScheduleOwners, ResetOwners, HandleOwners, PeekOwners, ExtractOwners, RunOwners,
     RepeatOwners, ReleaseOwners, StutterOwners DEF Next, Callback
<1>3. ReadyInv'
  BY NextReady, PeekOwners
<1> QED BY <1>1, <1>2, <1>3 DEF IInv

-----------------------------------------------------------------------------
(* What follows.                                                           *)

\* The invariant implies the types.
LEMMA TypesFollow == IInv => TypeOK
<1> SUFFICES ASSUME IInv PROVE TypeOK
  OBVIOUS
<1>1. DOMAIN queue \subseteq 0 .. Word - 1 /\ Range(queue) \subseteq Job
      /\ Cardinality(DOMAIN queue) <= Capacity
  BY DEF IInv, Types, Range, Tick
<1>2. ASSUME NEW j \in Job
      PROVE  /\ job[j].state \in {"none", "live", "refused", "freed"}
             /\ job[j].num_reps \in 0 .. job[j].reps
  <2>1. /\ job[j].num_reps \in Nat /\ job[j].reps \in Nat /\ job[j].runs \in Nat
        /\ job[j].runs + job[j].num_reps = job[j].reps
    BY JobTypes, SchedulerAssumption DEF IInv, Tick, JobsInv, JobInv
  <2>2. job[j].state \in {"none", "live", "refused", "freed"}
    BY JobTypes DEF IInv, JobRecord
  <2> QED BY <2>1, <2>2
<1>3. buffer \in Seq({"response", "last", "release"} \X Job)
  BY DEF IInv, Types, Message
<1>4. now \in First .. Last /\ rt.job \in Job /\ rt.tick \in 0 .. Word - 1
      /\ fresh \cup dropped \subseteq Job
  BY DEF IInv, Types, Tick
<1> QED BY <1>1, <1>2, <1>3, <1>4 DEF TypeOK

\* The owners of a job, counted.
LEMMA OwnersCounted ==
  ASSUME IInv, NEW j \in Job
  PROVE  Cardinality(Owners(j)) = IF Queued(j) \/ Sent(j) \/ Held(j) THEN 1 ELSE 0
<1> DEFINE Q == {<<"queue", k>> : k \in {k \in DOMAIN queue : queue[k] = j}}
           B == {<<"buffer", i>> : i \in {i \in DOMAIN buffer : buffer[i] = <<"release", j>>}}
           C == IF rt.job = j /\ rt.pc \in {"run", "repeat", "release"}
                THEN {<<"callback", 0>>} ELSE {}
<1>1. Owners(j) = Q \cup B \cup C
  BY DEF Owners
<1>2. ~ (Queued(j) /\ Sent(j)) /\ ~ (Queued(j) /\ Held(j)) /\ ~ (Sent(j) /\ Held(j))
  BY DEF IInv, JobsInv, JobInv
<1>3. (Q = {} <=> ~ Queued(j)) /\ (B = {} <=> ~ Sent(j)) /\ (C = {} <=> ~ Held(j))
  BY DEF Queued, Sent, Held
<1>4. Queued(j) => \E x : Q = {x}
  <2> SUFFICES ASSUME Queued(j) PROVE \E x : Q = {x}
    OBVIOUS
  <2>1. PICK k \in DOMAIN queue : queue[k] = j
    BY DEF Queued
  <2>2. \A l \in DOMAIN queue : queue[l] = j => l = k
    BY <2>1 DEF IInv, QueuedOnce
  <2>3. Q = {<<"queue", k>>}
    BY <2>1, <2>2
  <2> QED BY <2>3
<1>5. Sent(j) => \E x : B = {x}
  <2> SUFFICES ASSUME Sent(j) PROVE \E x : B = {x}
    OBVIOUS
  <2>1. PICK i \in DOMAIN buffer : buffer[i] = <<"release", j>>
    BY DEF Sent
  <2>2. \A l \in DOMAIN buffer : buffer[l] = <<"release", j>> => l = i
    BY <2>1 DEF IInv, SentOnce
  <2>3. B = {<<"buffer", i>>}
    BY <2>1, <2>2
  <2> QED BY <2>3
<1>6. Held(j) => \E x : C = {x}
  BY DEF Held
<1> HIDE DEF Q, B, C
<1>7. CASE Queued(j) \/ Sent(j) \/ Held(j)
  <2>1. PICK x : Owners(j) = {x}
    BY <1>1, <1>2, <1>3, <1>4, <1>5, <1>6, <1>7
  <2> QED BY <1>7, <2>1, FS_Singleton
<1>8. CASE ~ (Queued(j) \/ Sent(j) \/ Held(j))
  <2>1. Owners(j) = {}
    BY <1>1, <1>3, <1>8
  <2> QED BY <1>8, <2>1, FS_EmptySet
<1> QED BY <1>7, <1>8

\* The invariant implies that control data has one owner.
LEMMA OwnersFollow == IInv => OneOwner
<1> SUFFICES ASSUME IInv, NEW j \in Job
             PROVE  /\ Cardinality(Owners(j)) =
                         IF job[j].state = "live" /\ j \notin dropped THEN 1 ELSE 0
                    /\ \/ job[j].state = "freed"
                       \/ \E i \in DOMAIN buffer : buffer[i] = <<"release", j>>
                       => job[j].runs = job[j].reps
  BY DEF OneOwner
<1>1. JobInv(j)
  BY DEF IInv, JobsInv
<1>2. Cardinality(Owners(j)) =
        IF job[j].state = "live" /\ j \notin dropped THEN 1 ELSE 0
  BY <1>1, OwnersCounted DEF JobInv
<1>3. job[j].state = "freed" \/ Sent(j) => job[j].runs = job[j].reps
  <2>1. job[j].runs \in Nat /\ job[j].reps \in Nat
    BY JobTypes DEF IInv, Tick
  <2> QED BY <1>1, <2>1 DEF JobInv
<1> QED BY <1>2, <1>3 DEF Sent

\* The queue, the messages and the control data keep their types, the queue
\* stays within its capacity, and no block is repeated more often than asked.
THEOREM TypeCorrect == Spec => []TypeOK
<1>1. IInv /\ [Next]_vars => IInv'
  BY Inductive
<1> QED BY Initially, <1>1, TypesFollow, PTL DEF Spec

\* The control data of a job that scheduleBlockAfterTime accepted is held once:
\* by the queue, by the callback or by its release message, until it is freed.
THEOREM SingleOwner == Spec => []OneOwner
<1>1. IInv /\ [Next]_vars => IInv'
  BY Inductive
<1> QED BY Initially, <1>1, OwnersFollow, PTL DEF Spec

-----------------------------------------------------------------------------
(* Time.  A scheduler whose base is not in the future sees ticks that do   *)
(* not wrap around.                                                        *)

TimeInv == OnTime /\ (rt.pc = "extract" => Due(FirstKey))

\* What is due by the end of the interval.
LEMMA DueMeaning ==
  ASSUME Types, Base <= First, NEW k \in Nat
  PROVE  Due(k) <=> Base + k <= End
<1>1. End \in now .. Last /\ now \in First .. Last
  BY EndInRange DEF Types
<1>2. /\ End \in Nat /\ Base \in Nat /\ Word \in Nat
      /\ Base <= End /\ End < Word
  BY <1>1, SchedulerAssumption
<1>3. relativeEndTime = End - Base
  BY <1>2 DEF relativeEndTime
<1> QED BY <1>2, <1>3 DEF Due

\* Every step keeps the callback on time.
LEMMA InductiveTime ==
  ASSUME IInv, TimeInv, [Next]_vars, Base <= First
  PROVE  TimeInv'
<1> USE SchedulerAssumption
<1> Types /\ Types'
  BY NextTypes DEF IInv
<1>1. /\ End \in Nat /\ now \in Nat /\ now <= End /\ End <= Last
      /\ now' = now => End' = End
  <2>1. End \in now .. Last /\ now \in First .. Last
    BY EndInRange DEF Types
  <2>2. now' = now => End' = End
    BY DEF End
  <2> QED BY <2>1, <2>2
<1>2. rt \in [pc : {"idle", "peek", "extract", "run", "repeat", "release"},
              tick : Tick, job : Job]
  BY DEF Types
<1>3. rt'.pc = "extract" => Due(FirstKey)'
  <2> SUFFICES ASSUME rt'.pc = "extract" PROVE Due(FirstKey)'
    OBVIOUS
  <2>1. CASE Peek
    <3>1. now' = now /\ queue' = queue /\ Due(FirstKey)
      BY <1>2, <2>1 DEF Peek, Goto
    <3> QED BY <1>1, <3>1 DEF Due, relativeEndTime, FirstKey
  <2>2. CASE ~ Peek
    <3>1. /\ rt.pc = "extract" /\ now' = now
          /\ DOMAIN queue \subseteq DOMAIN queue'
      BY <2>2, NextReady
    <3>2. FirstKey \in DOMAIN queue /\ Due(FirstKey)
      BY <3>1, FirstKeyIsFirst DEF IInv, ReadyInv, TimeInv
    <3>3. DOMAIN queue' \subseteq Nat /\ DOMAIN queue' # {}
      BY <3>1, <3>2 DEF Types, Tick
    <3>4. Min(DOMAIN queue') \in Nat /\ FirstKey \in Nat /\ Min(DOMAIN queue') <= FirstKey
      BY <3>1, <3>2, <3>3, Least
    <3>5. relativeEndTime' = relativeEndTime /\ relativeEndTime \in Nat
      <4>1. End + Word - Base \in Nat
        BY <1>1
      <4> QED BY <1>1, <3>1, <4>1, TickSum DEF relativeEndTime, Tick
    <3>6. FirstKey <= relativeEndTime
      BY <3>2 DEF Due
    <3>7. FirstKey' = Min(DOMAIN queue')
      BY DEF FirstKey
    <3>8. FirstKey' <= relativeEndTime'
      BY <3>4, <3>5, <3>6, <3>7
    <3> QED BY <3>8 DEF Due
  <2> QED BY <2>1, <2>2
<1>4. rt'.pc = "run" => Base + rt'.tick <= End' /\ timeOffset' <= End' - now'
  <2> SUFFICES ASSUME rt'.pc = "run"
               PROVE  Base + rt'.tick <= End' /\ timeOffset' <= End' - now'
    OBVIOUS
  <2>1. now' = now /\ rt'.tick \in Nat /\ Base + rt'.tick <= End
    <3>1. CASE Extract
      <4>1. /\ rt.pc = "extract" /\ now' = now /\ rt'.tick = FirstKey
            /\ FirstKey \in Nat
        BY <3>1, FirstKeyIsFirst DEF Extract, IInv, ReadyInv, Types, Tick
      <4> QED BY <4>1, DueMeaning DEF TimeInv
    <3>2. CASE ~ Extract
      <4>1. rt' = rt /\ now' = now
        <5>1. CASE \E j \in Job, d \in Delay, r \in Repetitions, g \in Gap : Schedule(j, d, r, g)
          BY <5>1 DEF Schedule
        <5>2. CASE Reset \/ Handle
          BY <5>2 DEF Reset, Handle
        <5>3. CASE Invoke \/ Peek \/ Run \/ Repeat \/ Release
          BY <1>2, <5>3 DEF Invoke, Peek, Run, Repeat, Release, Goto
        <5>4. CASE UNCHANGED vars
          BY <5>4 DEF vars
        <5> QED BY <3>2, <5>1, <5>2, <5>3, <5>4 DEF Next, Callback
      <4> QED BY <1>2, <4>1 DEF TimeInv, OnTime, Tick
    <3> QED BY <3>1, <3>2
  <2>2. (Base + rt'.tick) % Word = Base + rt'.tick
    BY <1>1, <2>1
  <2>3. timeOffset' = IF Base + rt'.tick > now THEN Base + rt'.tick - now ELSE 0
    <3>1. eventTime' = Base + rt'.tick
      BY <2>2 DEF eventTime
    <3>2. timeOffset' = IF eventTime' > now' THEN eventTime' - now' ELSE 0
      BY DEF timeOffset
    <3> HIDE DEF eventTime
    <3> QED BY <1>1, <2>1, <3>1, <3>2
  <2>4. timeOffset' <= End - now
    BY <1>1, <2>1, <2>3
  <2> QED BY <1>1, <2>1, <2>4
<1>5. rt'.pc = "idle" => \A k \in DOMAIN queue' : Base + k <= now' => queue'[k] \in fresh'
  <2> SUFFICES ASSUME rt'.pc = "idle", NEW k \in DOMAIN queue', Base + k <= now'
               PROVE  queue'[k] \in fresh'
    OBVIOUS
  <2>1. CASE Peek
    <3>1. /\ now' = End /\ queue' = queue /\ DOMAIN queue # {} /\ k \in DOMAIN queue
          /\ ~ Due(FirstKey)
      BY <1>2, <2>1, EmptyDomain DEF Peek, Goto
    <3>2. FirstKey \in Nat /\ k \in Nat /\ FirstKey <= k
      BY <3>1, FirstKeyIsFirst DEF Types, Tick
    <3>3. ~ (Base + FirstKey <= End)
      BY <3>1, <3>2, DueMeaning
    <3> QED BY <1>1, <3>1, <3>2, <3>3
  <2>2. CASE ~ Peek
    <3>1. rt.pc = "idle" => \A l \in DOMAIN queue : Base + l <= now => queue[l] \in fresh
      BY DEF TimeInv, OnTime
    <3>2. CASE \E j \in Job, d \in Delay, r \in Repetitions, g \in Gap : Schedule(j, d, r, g)
      BY <3>1, <3>2 DEF Schedule, Insert
    <3>3. CASE Reset
      BY <3>3 DEF Reset, EmptyQueue
    <3>4. CASE Handle
      BY <3>1, <3>4 DEF Handle
    <3>5. CASE Invoke \/ Extract \/ Run \/ Repeat \/ Release
      BY <1>2, <3>5 DEF Invoke, Extract, Run, Repeat, Release, Goto
    <3>6. CASE UNCHANGED vars
      BY <3>1, <3>6 DEF vars
    <3> QED BY <2>2, <3>2, <3>3, <3>4, <3>5, <3>6 DEF Next, Callback
  <2> QED BY <2>1, <2>2
<1> QED BY <1>3, <1>4, <1>5 DEF TimeInv, OnTime

\* With a base that is not after the first interval, a block runs no earlier than
\* its tick and inside the interval of the callback, and whatever was due by the
\* end of an interval has been run when the callback returns, unless it was
\* scheduled after the callback's last look.
THEOREM Punctual ==
  ASSUME Base <= First
  PROVE  Spec => []OnTime
<1>1. Init => TimeInv
  BY DEF Init, TimeInv, OnTime
<1>2. IInv /\ TimeInv /\ [Next]_vars => TimeInv'
  BY InductiveTime
<1>3. IInv /\ [Next]_vars => IInv'
  BY Inductive
<1>4. TimeInv => OnTime
  BY DEF TimeInv
<1> QED BY Initially, <1>1, <1>2, <1>3, <1>4, PTL DEF Spec
=============================================================================
