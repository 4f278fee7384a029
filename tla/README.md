# SPConcurrency in TLA+

SPConcurrency is a small C and Objective-C library of lock-free building blocks
for real-time (audio) programs: a node allocator with reference counts, a
sorted list and a priority queue on top of it, a ring buffer, message queues
between a real-time thread and the main thread, and a scheduler.  This
directory holds the specifications of its core, the TLC configurations that
check them, and the TLAPS proofs about them.  Paths below are relative to
`src/SPConcurrency/`.

## 1. The system

| Component | State | Operations | Used by |
|---|---|---|---|
| Primitives, `SPCPrimitives.h` | none | markable pointers (a mark in the lowest bit), CAS, fetch-and-add, barriers, back-off | everything |
| Memory reclamation, `SPCMemoryReclamation.h` | pool, `freeList`, per node a reference count with a claim bit, forward links, an optional retained link | `cmem_init`, `cmem_allocNode`, `cmem_retainNode`, `cmem_releaseNode` | list, priority queue |
| Lock-free list, `SPCLockFreeList.c` | head, tail, sorted chain of nodes | insert, extract the minimum, extract by key, init, dispose | list tests (a predecessor of the priority queue) |
| Priority queue, `SPCPriorityQueue.c` | skip list of nodes, `_rPrev` links | insert, extract the minimum, peek, init, dispose | scheduler |
| Ring buffer, `SPCRingBuffer.{h,c}` | doubly mapped memory, head and tail offsets, `fillCount` | init, get/mark for writing and reading, clear | message queue |
| Message queue, `SPCMessageQueue.m` | ring buffer, execution thread with its semaphore | start, stop, `isRunning`, dispatch, flush | real-time message queue, scheduler |
| Real-time message queue, `SPCRealTimeMessageQueue.m` | ring buffer of blocks, a message queue for the responses | dispatch a block asynchronously or synchronously, process on the real-time thread | applications |
| Scheduler, `SPCRealTimeScheduler.m` | priority queue of blocks by due time, control data of each, a message queue for the responses | schedule, callback (run what is due, repeat), reset | applications |
| Utilities, debugger script, tests, project files | – | – | – |

The components interact by calls and shared memory only.  Every thread of the
process may call the list, the queue and the allocator; the ring buffer has one
producer and one consumer; the message queues connect the main thread, an
execution thread and the real-time thread.

What is hard in each of them:

* **Memory reclamation.**  A thread retains a node *after* reading its address,
  so it may retain a node that has been reclaimed meanwhile; the claim bit, the
  second look and the reference of the popping thread must make that harmless,
  and must defeat the ABA problem on the free list.  Any thread may happen to
  drop the last reference, the allocator itself included.
* **List.**  Deletion takes two steps (mark, unlink), with other threads helping
  between them; scans hold references to nodes that are deleted under them.
* **Priority queue.**  The same on several levels, with a deletion that may
  overtake the insertion of the same node, an insertion that replaces the data
  of a node under deletion, and a retained link from a deleted node back.
* **Ring buffer.**  Offset and count change in two steps each, on both sides.
  Its initialization races with other threads for addresses and retries.
* **Message queues.**  Starting and stopping threads, a semaphore, a time-out
  that races with the answer, who is the consumer at any time.
* **Scheduler.**  Repetition, overflow of times, reset while in use.

Correct means: no node is reclaimed while it is referred to, no reference is
lost, the free list stays a list; the list stays sorted and whole, and each
element is returned once; operations go on although threads are suspended; the
ring buffer is a first-in-first-out queue of bytes whose two users never touch
the same memory; the initialization returns what it says; a block that has been
dispatched or scheduled is run, answered and released, once, in order and on time.

## 2. The plan

1. *(done)* `MarkablePointers`, `MemoryReclamation` with a most general client,
   `ReclamationClient`: everything else stands on it.
2. *(done)* `RingBuffer` against the abstract `ByteFifo`; `RingBufferInit`.
3. *(done)* `LockFreeList` on the allocator, against the abstract `KeySet`.
4. *(done)* Proofs about the ring buffer and the allocator.
5. *(done)* `PriorityQueue`: the skip list, access by access, against the
   abstract `KeyMap`.
6. *(done)* `MessageQueue`, and `RealTimeMessageQueue` composed with it.
7. *(done)* `RealTimeScheduler` on the priority queue as `KeyMap` has it.
8. *(done)* Proofs about the scheduler: one owner of the control data, blocks on
   time.
9. *(done)* Proofs about the message queues: the order in which blocks are
   answered; about the initialization of the ring buffer; and about the chain of
   the allocator's free list.
10. *(done)* Proofs about the list: sorted and whole, no node reclaimed in use, the
    refinement of `KeySet`.

The priority queue has no proofs.  With one level and one consumer one could prove that
no node is reclaimed in use, but the code has six levels (`kMaxLevels`,
`SPCPriorityQueue.c:29`), and there that is false (section 6, "A node is reclaimed while it is
linked"): a general proof has to wait until the key is read before the release.

## 3. Modules

| Module | Models |
|---|---|
| `MarkablePointers` | markable pointers as records of a pointer and a mark |
| `MemoryReclamation` | `SPCMemoryReclamation.h`, one action per atomic access |
| `ReclamationClient` | threads that use it under the reference discipline of the list and the priority queue, in every order; extends `MemoryReclamation` |
| `MCReclamation` | symmetry for TLC |
| `ReclamationProofs` | the inductive invariant of `ReclamationClient`, and its proofs for every instance; then the chain of the free list and exact counts |
| `LockFreeList` | `SPCLockFreeList.c`; extends `MemoryReclamation` |
| `LockFreeListProofs` | lemmas about the allocator for users without retained links; the inductive invariant of `LockFreeList`, and its proofs for every instance |
| `KeySet` | abstract: a set of keys changed one key at a time |
| `MCLockFreeList` | initial contents and symmetry for TLC |
| `RingBuffer` | `SPCRingBuffer.h` and its two users, byte by byte |
| `ByteFifo` | abstract: a bounded queue of bytes written and read in batches |
| `RingBufferProofs` | proofs that `RingBuffer` is safe and implements `ByteFifo` |
| `RingBufferInit` | `SPCRingBufferInit` and `Dispose` against a kernel that fails and other threads |
| `RingBufferInitProofs` | proofs about the initialization for every address space |
| `PriorityQueue` | `SPCPriorityQueue.c`, one action per access to a shared word |
| `KeyMap` | abstract: a map from keys to elements changed one key at a time |
| `MCPriorityQueue` | initial contents and symmetry for TLC |
| `MCPriorityQueueReuse` | two long behaviours of `PriorityQueue`, by schedule (section 6) |
| `MessageQueue` | `SPCMessageQueue.m`: the steps of its operations and its execution thread |
| `RealTimeMessageQueue` | `SPCRealTimeMessageQueue.m`, its callers and its application; extends `MessageQueue` |
| `RealTimeMessageQueueProofs` | the inductive invariant of `RealTimeMessageQueue`, and its proofs for any callers |
| `RealTimeScheduler` | `SPCRealTimeScheduler.m` with its callback, its callers and the main thread |
| `RealTimeSchedulerProofs` | the inductive invariants of `RealTimeScheduler`, and its proofs for every instance |

### MemoryReclamation and ReclamationClient

`refCount[n]` is the word of the code: the lowest bit is the claim bit, a
reference counts 2.  `freeList` and `next[n]` are markable words.  Of the
forward links only level 0 is modelled, the one the free list uses; `rLink[n]`
is the retained link (`_rPrev` of the priority queue).  `cpc[t]` says which
access of `cmem_*` thread `t` does next, `cnode[t]` and `cnext[t]` are the
local variables, and `claimed[t]` is the stack of nodes whose release is under
way, because `cmem_releaseNode` calls itself on the retained link of the node
it has just claimed.  Each load, store, fetch-and-add and CAS is one action;
the two CAS loops that recompute a word from its own old value
(`cmem_decrementAndTestAndSet`, `cmem_clearLowestBit`) are one action each,
their failed rounds changing nothing.

| Code | Actions |
|---|---|
| `cmem_safeReadHead` | `ReadHead`, `RetainHead`, `RecheckHead` |
| `cmem_allocNode` | `CallAlloc`, the above, `ReadNext`, `CasPop`, `ClearClaim`, `ClearNext` |
| `cmem_releaseNode` | `CallRelease`, `Decrement`, `ReadLink`, `ClearLink`, `ReadTop`, `WriteNext`, `CasPush` |
| `cmem_retainNode` | `Retained` inside the callers' actions |

The load of `next` and the CAS of the pop are two actions (the new value is an
argument of the CAS, read before it): the ABA problem lives between them.

`ReclamationClient` lets each thread create, retain, release, read (with the
retain-then-look-again of `readAndRetainNode_d`), link, unlink nodes and set
retained links in any order that respects what the list and the queue do: a node is
linked once, by a CAS that hands over one reference; who unlinks it gets that
reference.  Before it releases the node it clears the forward link (`unlinkNode`,
`SPCLockFreeList.c:455-458`) or, like the list's extraction by key
(`SPCLockFreeList.c:600-616`), leaves the link as the deletion has marked it: so the
allocator is checked, and proved, for nodes that come back with any link.  Slots are the
local reference variables, cells the shared link words.

### LockFreeList

`my[t]` is the record of the local variables of the operation of thread `t`,
`my[t].pc` its next access.  Local work goes with the access before it.  The
references an operation gives up one after the other wait in `todo`; each is a
complete `cmem_releaseNode` with all its interleavings.  Head and tail are nodes
1 and 2, as `SPCLockFreeListInit` leaves them; `LONG_MIN` is 0 and `LONG_MAX` a
constant.  The model is the release build: an assertion that fails does nothing
there.  An access through NULL ends the thread in `"fault"`.

| Code | Actions |
|---|---|
| `createNode` | `Insert`, `Created`, `CreateFailed` |
| `readAndRetainNode_d` | `Load`, `RetainSeen`, `Recheck` |
| `readNextNode_r` | the above for `stage = "next"`, `ReachTail`, and after a marked link `ReadUnlinked` … `ClearUnlinked` |
| `unlinkNode` | `ReadUnlinked`, `CasUnlink`, `UnlinkFails`, `ClearUnlinked` |
| `scanForKey_r` | `StartScan`, `Unreachable`, `Advance`, `Found` |
| `SPCLockFreeListInsertElement` | `ClearNew`, `Link`, `Publish`, `PublishFails` |
| `SPCLockFreeListExtractMinimumElement` | `ExtractMinimumElement`, `CheckMark`, `Mark`, `MarkFails`, `ClearExtracted` |
| `SPCLockFreeListExtractElementWithKey` | `ExtractElementWithKey`, `Grab`, `RetainGrabbed`, `Mark`, `MarkFails`, `CasUnlinkKey`, `UnlinkKeyFails` |

Not modelled: `SPCLockFreeListDispose` and a failed `calloc` in `Init`, which
run alone.  `published` and `delivered` are history
variables, counting elements linked and elements returned per key.

### RingBuffer and RingBufferInit

The producer and the consumer copy bytes themselves, between a `Get…` and a
`Mark…` call; each byte is an action, and `Mark…` is two (the offset, then the
count).  `ByteFifo` knows only the queue of published bytes; under the
refinement mapping of `RingBuffer` the queue is the `fillCount` bytes from the
tail on, corrected while the consumer is between its two stores.

In `RingBufferInit` the address space is a row of chunks of the buffer's length.
Each of the kernel calls may fail, `vm_remap` may choose any free chunk, and
other threads allocate and free chunks between the calls.  The cleanup blocks
are inside `HANDLE_KERN_ERROR_AND_CLEANUP`, a `do { … } while (0)`
(`SPUtils.h:111`): their `continue` leaves only that loop, so that the code goes
on with the next call instead of the next round.  `Fail` models what happens.
`Dispose` releases both halves, whatever is mapped there by then.

### PriorityQueue

The functions call each other recursively (`scanForKey_r`, `readNextNode_r` and
`helpDeleteAndReleaseNode_r` go round in a circle), so `stack[t]` holds the
frames of thread `t`.  A frame has the local variables and the label of the next
access; `todo` lists nodes that the frame is about to release.  A node is a record of the
fields of `_SPCPriorityQueueNode`; its data carries the call that inserted
it, so that the model can tell elements apart.  Heights are a free choice of
`InsertElement`: whatever the random generator, which is shared without
synchronization, comes up with.

The allocator is used in single steps here: `MemoryReclamation` takes it apart,
and what the proofs say of it (a node is allocated to one thread, and
reclaimed only when its last reference is dropped) is what these steps assume.
That a reference is held by whoever uses a node is not assumed: the runs check it, and
section 6 shows where it fails.
The decrement of `cmem_releaseNode` and the push of the node are one step, and
the release of `_rPrev` follows as a release of its own.

| Code | Actions |
|---|---|
| `createNode`, `SPCPriorityQueueInsertElement` | `InsertElement`, `Enter`, `Save`, `Found`, `Replace`, `Link`, `Raise`, `SetUpper`, `CheckMark`, `LinkUpper`, `CheckLate`, `UndoLate`, `Undone`, `Final`, `Helped` |
| `readAndRetainNode_d` | `Load`, `RetainSeen`, `Recheck` |
| `readNextNode_r`, `scanForKey_r` | `ReadMark`, the above, `Return` |
| `helpDeleteAndReleaseNode_r` | `Help`, `MarkLink`, `ReadPrev`, `CheckPrev`, `HoldPrev`, `Descend`, `ReturnUnlinked` |
| `unlinkNodeAtLevel`, `isNodeUnlinkedAtLevel` | `CheckCleared`, `CheckSame`, `CheckFound`, `CheckNext`, `Decide`, `RecheckCleared`, `ReadNext`, `CasUnlink`, `Clear` |
| `SPCPriorityQueueExtractMinimumElement` | `ExtractMinimumElement`, `First`, `ReadData`, `NextFirst`, `Take`, `SetPrev`, `MarkLink`, `EnterAgain`, `UnlinkBelow` |
| `SPCPriorityQueuePeek_MPSC` | `Peek`, `Peeked` |
| `releaseNode` | `Release` |

`lowest[t]` is a history variable: the keys that have been the smallest since
`t` began to extract.  The mark on the data takes an element: this is where an
extraction takes effect, and under the refinement mapping the map has the
elements linked on level 0 without a mark.  `KeyMap` says that an extraction
returns what it removes, and nothing comes back.

### MessageQueue and RealTimeMessageQueue

A message queue writes messages to a ring buffer and signals the semaphore of
its execution thread, which posts a flush to the main thread.  `buffer` is the
queue of messages that `ByteFifo` promises; `jobs` is what is posted to the main
thread; `thread` and `loop` are the execution thread, which is created by the
initializer, started by `startQueue`, and begins some time later.

In `RealTimeMessageQueue` the blocks are named after the threads that dispatch
them, one each, synchronously or not.  `my[t].pc` is where a thread is.  The
block wrapped by `dispatchAsynchronously` dispatches its response, and
`SPCRealTimeMessageQueueProccessMessages` its release: `Answers` lists both in
order, and each is dispatched in the three steps of `SPCMessageQueueDispatch`
(write, look the thread up, look it up again to signal it).

A block is marked as read before it is run (`TakeBlock`, `Run`).  A synchronous call may
give up at any time (`GiveUp`): it gets its second from a clock, and the model does not
say how long anything else takes.  So the caller may do the exchange while the real-time
thread is in the middle of its batch.

The application is the environment.  The main thread may start and stop the response
queue (the first start does nothing: section 6) or leave it off, before it sets the
real-time thread going (`Enter`); if the queue has been started, that thread processes
blocks.  Other threads dispatch blocks at any time, before that, too; `CheckOnline` posts the
exchange to the main thread if the queue does not run at that moment.  When all calls are
over the real-time thread begins no other batch, the queue is stopped, whether or not the
real-time thread is done with the current one, and what is left in it is flushed (`Leave`).

Nothing but time keeps the threads out of each other's way, and the properties have to
say when they hold.  `events` is a history variable with four events:

* `late`: a call gives up (but for the main thread off line, which would wait for itself);
* `early`: an exchange is posted to the main thread, and the real-time thread is active;
* `stopped`: the queue is stopped while the real-time thread or a block is not done;
* `met`: two threads are in the exchange, or two in a flush.

`Exclusive` says that `met` takes `late` or `early`.  What happens after `met` is not
followed: two threads then use the consumer's side of a ring buffer, which is made for
one.  `InOrder` and `SyncAfterRun` say what holds before; `NoFault` and `Served` name the
events without which they hold, and section 6 shows what happens with them.

| Code | Actions |
|---|---|
| `startQueue`, `stopQueue` | `Start`, `Stop`, `Stopping` (`CancelThread`, `SignalStop`, `DropThread`) |
| `main` of the execution thread | `Begin`, `TestCancelled`, `Wait`, `CheckPending` |
| `SPCMessageQueueDispatch` | `Dispatch`, `CheckThread`, `SignalThread` |
| `flushQueue`, `copyLastMessage` | `TakeJob`, `CopyLastMessage`, `Handle` |
| `SPCRealTimeMessageQueueProccessMessages` | `GetForRead`, `TakeBlock`, `Run`, `EndBatch` |
| `dispatchAsynchronously` | `WriteBlock`, `CheckOnline` |
| `dispatchSynchronously` | the above, `Poll`, `Return`, `GiveUp`, `Unlock` |

### RealTimeScheduler

`queue` maps ticks to jobs, as `KeyMap` has it with one consumer; an insertion
at a tick that is taken replaces the job there, and needs a node even then.
`job[j]` is the control data of a job.  The callback is `Invoke`, `Peek`,
`Extract`, `Run`, `Repeat` or `Release`; other threads schedule jobs between any two of these
steps, the main thread handles responses.  Consecutive intervals are handed to
the callback until the bound `Last`.  `dropped` is a history variable: the jobs
that left the queue without being run, which the code allows in three places
(section 6).

## 4. Runs

| Run | Instance | Shows |
|---|---|---|
| `reclaim_pool` | 3 threads, 2 slots each, 1 cell, 2 nodes | counts are exact in the middle of every call, free list intact, allocation exclusive, "out of memory" only when the nodes are in use, free links stable |
| `reclaim_links` | 2 threads, 2 slots each, 1 cell, 2 nodes, retained links | held nodes are kept, counts suffice (they are not exact here), with the recursive release, on a pool that runs out |
| `list_all` | 2 threads, 2 calls each, keys 0 and 1, an empty list with 2 free nodes, all operations | chain sorted and whole, no node reclaimed in use, an element returned once at most, the minimum at the time is taken, refinement of `KeySet`; NULL is dereferenced by the extraction by key only; calls return although only *some* thread is sure to run; nodes are reused, insertions fail for lack of memory |
| `ring_buffer` | 3 bytes, 2 values | disjoint chunks, refinement of `ByteFifo`; every batch size and wrap-around |
| `ring_init` | 4 chunks | it returns; without kernel errors its success is clean, and so is its disposal |
| `queue_mpsc` | a producer and a consumer, 2 calls each, 2 levels, 2 nodes besides head and tail, keys 1 and 2 | both levels sorted and whole, no node reclaimed in use, what is peeked at is valid, the minimum is taken, calls return although only *some* thread is sure to run |
| `queue_mpmc` | a producer and two consumers, 1 call each, 1 level, 3 nodes | refinement of `KeyMap`, with consumers that help each other while the same key comes back |
| `messages` | the main thread and another one each dispatch a block | until threads meet each block is run, answered and released once, in order, and synchronous calls return after their block; threads meet only after a late answer or an early start; no thread signals an execution thread that is gone unless one of these or an early stop has happened; all of it happens in the end, on line and off line; `stopQueue` returns |
| `scheduler` | 3 jobs, a queue for 2, intervals of 2 ticks | control data has one owner until it is freed, after all repetitions; nothing due is left behind; an accepted job is finished unless it was dropped |
| `list_loss`, `queue_minimum`, `queue_reuse` | small; the last along a schedule | disagreements of the code with its documentation, section 6 |

Configurations without a run of their own show the other disagreements of
section 6: `MCReclamation_leak` and `_forward`, `MCLockFreeList_leak`, `MCLockFreeList_fault`,
`RingBufferInit_remap`, `MCPriorityQueue_leak`, `MCPriorityQueueReuse_levels`,
`RealTimeMessageQueue_start`, `_late`, `_sync` and `_stop`, `RealTimeScheduler_tick`.

**Bounds.**  Two threads are enough for a race, the third is the helper or the
thread that reuses a node (`reclaim_pool`, `queue_mpmc`).  The pools are small
on purpose: a node comes back soon after it was released, which is what ABA and
premature reclamation need.  `MaxCount` keeps `SetRetainedLink` from raising
leaked counts for ever: only nodes counted at most 6 get a retained link; 6 is
three references, one more than a thread's two slots.  `Calls` bounds the calls
of a thread; 2 lets a node be inserted, extracted and used again.  A ring buffer
of 3 bytes has full, empty, wrapping and partial batches.  Four chunks leave
room for a pair and for a mirror that lands elsewhere.  Two levels are what a late
link, a deletion in the middle of an insertion and a descent need; the loops
over levels do the same on each further one.  In the two passing runs of the
priority queue together every branch of the model is taken.  Instances of
`queue_mpsc` with 5 nodes (a million states), and with 3 calls each (2.8
million, without liveness), have been checked too.  That `UsedNotReclaimed` holds in
`queue_mpsc` shows something about one producer and one consumer only: with two of either
it is false (`queue_reuse`, section 6), which takes a third call and more than a hundred
steps, beyond a search in breadth.  `ImplementsKeyMap` of `queue_mpmc` is subject to the same
limit: with one call by each thread the flaw does not come about.  `MaxSignals` bounds the
signals `stopQueue` sends ahead of the thread it wakes up.  `MaxJobs`, the jobs
posted to the main thread with which the queue may still be started again, bounds
starts that wait for nothing; by `StartedOnce` a queue that runs is not stopped before
the end (with it stopped and started again TLC has checked the safety
properties in 826,084 states, and the proofs hold without it).  A caller that waits asks the
main thread for a flush only when nothing is posted to it.  `Apart` stops the search where two threads have met or a
thread has faulted; liveness is claimed for the behaviours that stay clear of it.  Two
blocks make a batch, a late arrival, and two callers that compete for the lock.
Three jobs for a queue of two fill it, collide at one tick, and repeat into a
full queue; the seven ticks have late, due and future jobs in every interval.
`Word` is larger than any tick that occurs, wrapping is in section 6.

**Deadlock** is checked in the reclamation, the ring buffer and the
initialization runs.  The list and priority queue runs stop when all calls are
made, the message queues when everything has been shut down, the scheduler at
its last interval.

**Symmetry** is used in safety runs only, over threads, slots and cells;
nothing distinguishes them.

**Fairness.**  `list_all` and `queue_mpsc` assume weak fairness of "some thread that is
inside an operation takes a step": the machine runs somebody.  No thread is
promised anything, so a thread suspended for good in the middle of an operation
is one of the behaviours, and a loop of one thread, or a livelock of two, would
be a counterexample.  `ring_init` assumes that the calling thread is scheduled;
nothing about other threads.  It counts on no success of the kernel: the
bounded retries alone must end the loop.  `messages` assumes that each thread
that can go on does, that the real-time thread keeps processing while it is
active, and that the main thread takes what is posted to it: the host calls the
one, the run loop the other; all of this is weak fairness.  Strong fairness of `Enter`
says that the application gets through its set-up, though its main thread is busy with
posted jobs at times, and does not start and stop the queue for ever.  Nobody is obliged
to start, stop or dispatch anything, or to give up.  `scheduler` assumes that the callback is invoked again and again and
that the response queue is flushed (`Served` of `RealTimeMessageQueue`).

## 5. Proofs

TLAPS checks every step; TLC has checked the inductive invariants on small
instances first.

### The ring buffer (`RingBufferProofs`)

Assumption: `LengthAssumption`, the length is a positive number (the code rounds
it up to a page).

* `TypeCorrect`: offsets stay inside the buffer, `fillCount` between 0 and the
  length.
* `NoOverlap`: the bytes the producer may write and those the consumer reads are
  disjoint.
* `Implementation`: `RingBuffer` implements `ByteFifo`.

The invariant adds to the types: head and tail differ by the fill count modulo
the length, but for the store that is still to come (`OffsetsInv`); what each
side knows of the free space or of the fill is a lower bound that the other side's
steps only improve (`ConsumerInv`, `ProducerInv`); and the bytes the consumer has
copied are still what the buffer holds (`CopyInv`).

### The allocator (`ReclamationProofs`)

Assumptions: `PoolAssumption`, at least one node; `ClientAssumption`, finitely many
threads, slots and cells (counts are cardinalities).  The results hold for every
number of each, and with or without retained links.

* `TypeCorrect`: in particular no count falls below zero.
* `NotReclaimed`: what a slot, a cell or the retained link of a node in use refers
  to is not reclaimed.
* `CountsSafe`: the count of a node is never below its references.
* `Exclusive`: an allocated node goes to one thread and nobody else refers to it.
* `LinksStable`: the link of a free node is stable, which is why the CAS of the
  pop may install the word read before it.

The argument goes in a circle, which is why the invariant has to be proved as a
whole.  A node is *free* when its claim bit is set and no thread is pushing or
popping it (`InList`).

1. A count covers the references (`CountsSuffice`), those inside a call
   included.  So the decrement that finds a count of 2 drops the last reference:
   nobody else holds the node, looks at it or pops it, when it is claimed.
2. Hence a claimed node is pushed by one thread and one frame of its stack
   (`PushInv`), and none of those whose holder is between its second look and
   the CAS (`PopInv`): this is what the reference taken by `cmem_safeReadHead`
   is for.
3. So a node that was the head at the second look, and is the head at the CAS,
   has not been off the list and on it again in between, and its link is the
   one that was read (`LoadInv`): no ABA.
4. The pop therefore installs the right word, and the links of free nodes lead
   from free nodes to free nodes, injectively, and never to the head (`HeadInv`,
   `ChainInv`): the node popped is free and has one taker (`TakeInv`), which
   nobody refers to (`HeldInv`).
5. New references come from a node just handed out, or from an old reference: a
   slot, or a cell that still leads to the node at the second look.  So what is
   referred to stays retained (`HeldInv`), and every action that adds a
   reference adds 2 to a count or drops another reference, which closes the
   circle.

`ControlInv` says what the place of a thread means for its variables, `CellInv`
what words cells hold, and `GoneInv` that a retained link already followed is
cleared before its node is pushed; a link whose release has begun is not
counted (`LinkGone`).  The lemmas `PopEffect`, `PushEffect`, `ClaimEffect`,
`ClearClaimEffect` and `CreatedEffect` say what the five steps that move nodes
do; `UnaffectedBy` says that no other step moves any.  `Tally` and `Balanced`
count.

### The free list (`ReclamationProofs`)

The same assumptions.  These results add to the invariant above what it does not
need itself.

* `ListIntact`: the chain from the head ends and holds exactly the free nodes.
* `Exact`, without retained links: a count is exactly the number of references, so
  none is lost or counted twice.  With retained links it may stay too high: section 6.
* `Empty`: an allocation fails only if all nodes are in use, but for one node for
  each other thread in the middle of an operation.

`HeadInv` and `ChainInv` leave room for a circle of free nodes apart from the chain.
Reachability is said without induction along the chain: every set that holds
the head and the successors of its free nodes holds all free nodes (`ReachInv`).
A push adds the node in front, a pop takes the first one away, so both keep it.
The nodes on the chain are such a set, once the chain is known to end: links
are injective and never lead to the head, so a least place that repeats an earlier
node is impossible (`ChainDistinct`), and a chain of distinct nodes is no
longer than the pool (`ChainShort`).  `CountsTight` is the other half of `CountsSuffice`, step by
step; for `Empty` the nodes that are neither free nor used are mapped one to one
to the threads that push or pop them.

### The list (`LockFreeListProofs`)

Assumptions: `PoolAssumption` and `ListAssumption`: finitely many threads, keys that
fit between those of head and tail, and initial elements in ascending order, with
room for them in the pool.  No initial element has the key of the tail: the search for
that key ends at the tail, so the code never inserts one.  The results hold for
every number of threads, calls, nodes and keys, and for every set of operations.

* `Sorted`: the chain of links runs from the head to the tail, with ascending keys.
* `NotReclaimed`: no node is reclaimed while it is linked, or while an operation
  goes on to read or write its fields.
* `Once`: no element is returned twice, or returned and left in the list.
* `Smallest`: an extraction of the minimum takes the smallest key there is at the time.
* `OneKeyAtATime`: `LockFreeList` implements `KeySet`.
* `TypeCorrect`.

The first part says what the allocator needs from a user: which nodes it holds,
and how many references to each node it has, as a function from nodes to
numbers.  `Pool(H, c)` is the invariant of the free list and the counts of the
section above, for users that are not slots and cells, and without retained links; a
step of the allocator keeps it, and a step of the user does if it changes the
counts by what it does to its references (`UserStep` and the lemmas after it).

The second part counts the references of each local variable (`Count`), with
one for the list, and one more for a node that is being inserted or extracted:
`Owned`.  The one reference that does not protect its node is that to the next node in
the extraction by key, which is retained without a second look (`Unchecked`); it is
counted and never followed.  A node that is lost by the helper of a deletion (section 6) has
a count that is too high, so counts are only bounded from below, and that is enough.

`IInv` says that there is a set `L` of nodes that forms the list.  `Shape(L)` describes it
without walking along the links: each node of `L` but the tail leads to one of `L`, each but
the head has a predecessor, and no key lies between those of two neighbours.
That an insertion or an unlinking keeps this is a matter of two or three nodes (`ShapeWith`,
`ShapeWithout`).  Only at the end `LinkedNodes` shows that `L` is the set of nodes on the
chain: the predecessor of the node with the least key that is off the chain would be
on it, and the chain is no longer than the pool.

`Operation` says what each operation knows.  A node it has come across is in the list or
marked, and a marked one never gets unmarked (`Sound`); so a CAS that finds the
link of the predecessor unmarked has found the predecessor in the list.  Since a link of
a node in the list leads to its neighbour, the node that the CAS expects
is the neighbour: an insertion goes where its key belongs, and an unlinking takes
out the node it means, once, whether by the deleting thread or a helper (`Knows`).
The successor that the unlinking thread has read from a marked node cannot change while that
node is in the list: only an unmarked link is written.

### The initialization of the ring buffer (`RingBufferInitProofs`)

Assumption: `ChunksAssumption`, an address space of at least two chunks.

* `TypeCorrect`: the retries stay within their bounds.
* `Clean`: as long as no kernel call reports an error, a success leaves the
  buffer and its mirror behind it mapped, and nothing else; a disposal nothing.

`CleanInv` lists for each call what is mapped before it, whatever the other
threads allocate and free; `ReturnInv` that a success has been compared.

### The message queues (`RealTimeMessageQueueProofs`)

Assumption: `CallerAssumption`, the real-time thread is not the main thread and calls
nothing that dispatches.  The results hold for any set of calling threads, the main
thread among them or not, whether the queue is started or left off line.

* `TypeCorrect`: every variable has its type; no more blocks are marked as read than have
  been written, unless two threads have met.
* `Ordered`: unless two threads have met, blocks are run once each, in the order of
  writing, answered in the same order, and released in the same order.
* `MeetOnlyAfter`: threads meet only after `late` or `early`.
* `SyncReturns`: unless two threads have met, a synchronous call returns after its block
  has been run and answered, also when it has given up.
* `NoFaults`: no thread signals an execution thread that is gone, unless `late`, `early`
  or `stopped` has happened.

None takes a hypothesis about the application or about time: each event that a theorem
excepts is one the code lets happen, and for each there is a configuration that shows
what happens then (section 6).

The invariant has four parts, each for as long as the events allow.

1. `Basic`: types, the places where a thread may be, the limits of a batch.
2. Unless threads met: `Batch`, the blocks run are the first that were written, and one
   more has been marked as read while it is being run.  The two messages of each
   block that has run are numbered; those handled, the one that is being handled, those
   in the buffer and those still to be dispatched are consecutive and complete
   (`Stream`), which gives the order of `Answered`.  `Waiting` follows the block of a
   synchronous call: when the caller gives up and begins a batch, its block has
   been run or is in it; when it begins the flush, the answer is in the buffer
   or handled (`Dispatched`).
3. Before `late` and `early`: `TakesTurns`.  While the real-time thread is active or still
   busy, the main thread is not asked to process messages and does not do so itself; the
   other callers never do.  So no two threads are in the exchange, nor in a flush
   (`TurnsAlone`).
4. Before `stopped` as well: `Watched`, who signals the execution thread finds it.

`StepKept` says what every step keeps of these; `NextIInv` puts that together with what the
step adds to the events.

### The scheduler (`RealTimeSchedulerProofs`)

Assumption: `SchedulerAssumption`: sizes and times are numbers, host time fits
the word, there is a call to make.  The results hold for every number of calls, every size
of the queue, and all delays, repetitions and gaps that fit the word.

* `TypeCorrect`: the queue stays within its capacity although an element is
  replaced by one with its key, and the repetitions left never exceed
  those asked for although they are decremented modulo the word.
* `SingleOwner`: the control data of an accepted block is in the queue once, or with
  the callback, or in one release message, until it is freed or dropped; it is
  released after all repetitions.
* `Punctual`, from `Base <= First` (the base time, at first 0,
  is not after the first interval): blocks run inside the interval in which they are due, and
  what was due has been run when the callback returns.

The invariant splits the owners into `Queued`, `Sent` and `Held`, none of them
twice (`QueuedOnce`, `SentOnce`), and says for each job which one it has and how
many repetitions go with it (`JobInv`): a job in the queue, or held before its
run, has some left, so the decrement does not wrap around; one held for release
has none.  A step changes one job, drops one (`DroppedJob`) or leaves it alone
(`SameJob`).  Between looking at the head and extracting it, other
threads only insert (`NextReady`), so the head is still there or something
earlier, which is due as well (`TimeInv`).

### Only model-checked

Liveness (`LockFree`, `Returns`, `Served`, `StopReturns`) is beyond the
prover.  The safety of the allocator, the list, the ring buffer with its
initialization, the message queues and the scheduler is proved, with the exceptions the
theorems name, and `FaultByKeyOnly` of the list, which is only checked.  Of the
priority queue TLC alone has looked at small instances.  With two consumers, or with two
producers on two levels, the general statement is false; with a single producer and a
single consumer there is the run `queue_mpsc`.  That every node comes back to the pool
(`NodesReturned`) is false for the list and
the queue.

## 6. Where the code and its documentation disagree

Checked by a run that TLC must find violated (`list_loss`, `queue_minimum`,
`queue_reuse`), or shown by the configuration named:

* **An element is lost** (`list_loss`).  Extraction A of the minimum marks a
  node; extraction B meets the marked node on its way and unlinks it
  (`SPCLockFreeList.c:273`); A's own CAS fails, A drops its references and goes
  on to the next element.  The marked element is returned to nobody, although
  `SPCLockFreeList.h:85` promises "Delete and return the element with the
  minimum priority value."
* **Not the minimum** (`queue_minimum`).  With two consumers an extraction that
  meets a node taken by the other helps to delete it, and goes on from the
  predecessor that `helpDeleteAndReleaseNode_r` returns
  (`SPCPriorityQueue.c:818`).  That may be a node inserted meanwhile, with a
  smaller key: the extraction takes the element behind it, although the smaller
  key was there all the time.  `SPCPriorityQueue.h:82` promises "Delete and return the element with
  the minimum key value."  With one consumer `queue_mpsc` shows that this does not happen.
* **A node is reclaimed while it is linked** (`queue_reuse`, and
  `MCPriorityQueueReuse_levels`).  At its end `isNodeUnlinkedAtLevel` releases the node it has found, and
  compares its key afterwards (`SPCPriorityQueue.c:652` and 654).  When the node has been reclaimed and
  used again for a larger key in between, the answer is that the other node is
  unlinked although it is not; its references are dropped, it is reclaimed, and a
  link of the queue still leads to it: the next to follow that link fails at line 197,
  `assert(isNodeRetained(node))`.  With one consumer this takes two levels (a
  producer that has linked its node on a level too late does the unlinking), with one
  level it takes two consumers.  Both are too long for a search
  in breadth, so each is given by a schedule that TLC follows step by step.
* **A node leaks** (`MCPriorityQueue_leak`).  In `isNodeUnlinkedAtLevel` the node
  that the scan has returned, retained, is overwritten by the next one when it
  is a duplicate of the key (`SPCPriorityQueue.c:639`): that reference is never
  given back.  `SPCPriorityQueue.c:53` says a node has "a retain count of one,
  regardless of whether other nodes contain references to it".
* **A node leaks** (`MCLockFreeList_leak`).  The helper releases its own reference
  (`SPCLockFreeList.c:276`) but not the one the list held, so the node never
  returns to the pool.
* **NULL is retained** (`MCLockFreeList_fault`).  The extraction by key reads the next
  node from the link of a node that another thread may have unlinked since
  (`SPCLockFreeList.c:592`), and retains it without a check.  With a single
  thread the same happens for the key `LONG_MAX`: the comparison at line 581
  takes the tail for an element.
* **A forward link is not cleared** (`MCReclamation_forward`).  The extraction by key
  never clears the link of the deleted node (`SPCLockFreeList.c:600-616`), so that in a
  debug build the assertion at `SPCMemoryReclamation.h:109` fails when its last
  reference is dropped.  The release build writes over the link.
* **A retained link is not released** (`MCReclamation_leak`).  When a reference that
  `cmem_allocNode` took for a moment turns out to be the last one, the node
  is pushed by a release without a retained link offset
  (`SPCMemoryReclamation.h:180` and the release after a lost pop), and
  the reference in `_rPrev` is lost.  `SPCPriorityQueue.c:57` gives that
  responsibility to the memory manager.
* **Success without a mapping** (`RingBufferInit_remap`).  After a failed `vm_remap`
  the buffer is deallocated, the two addresses happen to compare equal, and
  `SPCRingBufferInit` returns true.
* **The first start does nothing** (`RealTimeMessageQueue_start`).  The
  initializer creates the execution thread without starting it
  (`SPCMessageQueue.m:73`) and `startQueue` starts one only if there is none
  (line 100); `SPCMessageQueue.h:42` calls it "Start the processing loop on the queue."  Only a
  stop followed by a start gets the thread running.
* **A block is run twice** (`RealTimeMessageQueue_late`).  A synchronous caller whose
  second is over processes the messages itself
  (`SPCRealTimeMessageQueue.m:222`), while the real-time thread is in the middle
  of its batch: both run the same block, which is then released twice.
* **A synchronous call returns too early** (`RealTimeMessageQueue_sync`).  When the
  caller gives up it finds the buffer empty if the real-time thread has taken the
  block and is about to run it: the call returns before the block has been run.
  `SPCRealTimeMessageQueue.h:46` says "wait for it to finish".
* **A dispatch reaches for a thread that is gone** (`RealTimeMessageQueue_stop`).
  `SPCMessageQueueDispatch` looks at `_executionThread` twice (lines 200 and
  202); `stopQueue` may set it to nil in between, if the queue is stopped before
  the real-time thread is done.
* **An accepted job is not run** (`RealTimeScheduler_tick`).  Ticks are keys of the
  priority queue, which replaces an element with the same key: of two blocks due
  at one tick the first is silently dropped and its control data leaks,
  although its caller was told YES (`SPCRealTimeScheduler.h:97`, "@return YES if
  successful.").

Met while modelling, without a run of their own:

* A failed `vm_allocate` is followed by `vm_deallocate` at an address that was
  never set (`SPCRingBuffer.c:49`), which may be memory of another thread; the
  actions `Allocate` and `Deallocate` of `RingBufferInit` do this.
* A block that is put back for its next repetition is dropped the same way when
  its tick is taken, or when the queue is full: the result of the insertion is
  ignored (`SPCRealTimeScheduler.m:302`).  `reset` forgets the control data of all
  scheduled blocks.
* With a base time later than the end of the interval, the subtraction at
  `SPCRealTimeScheduler.m:272` wraps around and every block is due at once; the
  assumption of the run is `Base <= First`.
* A key of `LLONG_MAX` or more, in `SPCPriorityQueueKey` unsigned, meets the tail
  of the priority queue: an equal one replaces the tail's data, a greater one
  is searched beyond the tail.
* A block that is dispatched while the response queue runs, and not processed before it is
  stopped, waits until another dispatch finds the queue off line and posts an exchange;
  `stopQueue` does not look (event `stopped`).
* A block that is dispatched before the real-time thread is set going, with its exchange
  posted to the main thread, may be processed by both at once (event `early`).
* `getRandomBit` of the priority queue keeps its bits in static variables without
  synchronization, and shifts an `int` by up to 31 and more.
* `startQueue` and `stopQueue` synchronize on the execution thread, which is nil
  or another object after each call, so that two of them may run at once.
* `cmem_nodeHasNoForwardLinks` (`SPCMemoryReclamation.h:76`) steps from level to
  level by the offset of the first link instead of the size of a pointer.

## 7. Limits

* Memory is sequentially consistent; the barriers of the code are taken to give
  the order they ask for.  One place where a barrier may be too weak on ARM is
  listed as a hazard in `PROJECT.json` and not modelled.
* In the models of the allocator and the list: higher levels of the forward
  links, the data of the elements.  Everywhere: back-off delays and byte sizes
  (except that chunks have one).
* The message queues take their ring buffers to be large enough: the only check is an
  assertion (`SPCMessageQueue.m:186`).  16384 bytes are 341 blocks, answered and
  released, between two flushes.  One thread controls the response queue.
* Not modelled: `dealloc` of the message queues (nothing runs any more, unless
  the application is wrong), `SPCLockFreeListDispose` (likewise), a `calloc`
  that fails in an initializer.
* Counts do not wrap around: they are machine words (`long`), and every reference
  is a variable or a link of the program.
* The tests, the debugger script, the logging utilities and the project files are
  not part of the program.
