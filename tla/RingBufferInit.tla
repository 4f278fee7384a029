--------------------------- MODULE RingBufferInit ---------------------------
(***************************************************************************)
(* SPCRingBufferInit (SPCRingBuffer.c): map the buffer twice in a row, by  *)
(* allocating twice its length, giving the second half back and remapping  *)
(* the first half into the gap, while other threads of the task allocate   *)
(* memory too.                                                             *)
(*                                                                         *)
(* The address space is a row of chunks of the buffer's length.  The       *)
(* kernel is external: any call may fail, and vm_remap may put the mirror  *)
(* somewhere else.  The cleanup blocks run inside                          *)
(* HANDLE_KERN_ERROR_AND_CLEANUP, a do { ... } while (0): a `continue` in  *)
(* one of them ends that do loop, not the round of the retry loop, so that *)
(* the code goes on with its next call.                                    *)
(***************************************************************************)
EXTENDS Integers

CONSTANT Chunks      \* number of chunks of the address space

ASSUME ChunksAssumption == Chunks \in Nat /\ Chunks >= 2

Chunk == 1 .. Chunks

VARIABLES
  mem,       \* mem[a]: what is mapped at chunk a
  pc,        \* the next kernel call, or how the function has returned
  retries,   \* failures left
  base,      \* bufferAddress
  mirror,    \* virtualAddress
  faulted    \* history: a kernel call has failed

vars == <<mem, pc, retries, base, mirror, faulted>>

\* bufferAddress is not initialized: any address, until vm_allocate sets it.
Garbage == 1 .. Chunks - 1

Unmapped(m, S) == [a \in Chunk |-> IF a \in S THEN "free" ELSE m[a]]

MutantRetriesLeft == retries
\* retries-- of a failure that the function survives.
RetriesLeft == retries - 1

MutantFail(released, label) ==
  /\ faulted' = TRUE
  /\ pc' = label
  /\ retries' = RetriesLeft
  /\ mem' = Unmapped(mem, released)
\* The cleanup block of a failed call: give up, or release some chunks and go
\* on with the next call.
Fail(released, label) ==
  /\ faulted' = TRUE
  /\ IF retries = 0
     THEN /\ pc' = "failed"
          /\ retries' = retries - 1
          /\ UNCHANGED mem
     ELSE /\ pc' = label
          /\ retries' = RetriesLeft
          /\ mem' = Unmapped(mem, released)

Allocate ==
  /\ pc = "allocate"
  /\ \/ \E a \in 1 .. Chunks - 1 :
          /\ mem[a] = "free" /\ mem[a + 1] = "free"
          /\ mem' = [mem EXCEPT ![a] = "ours", ![a + 1] = "ours"]
          /\ base' = a
          /\ pc' = "deallocate"
          /\ UNCHANGED <<retries, faulted>>
     \/ \E a \in Garbage :
          /\ Fail({}, "deallocate")
          /\ base' = a
  /\ UNCHANGED mirror

\* Give the second half back.
Deallocate ==
  /\ pc = "deallocate"
  /\ \/ /\ mem' = Unmapped(mem, {base + 1})
        /\ pc' = "remap"
        /\ UNCHANGED <<retries, faulted>>
     \/ Fail({base}, "remap")
  /\ mirror' = base + 1
  /\ UNCHANGED base

Remap ==
  /\ pc = "remap"
  /\ \/ \E a \in Chunk :
          /\ mem[a] = "free" /\ mem[base] # "free"
          /\ mem' = [mem EXCEPT ![a] = "mirror"]
          /\ mirror' = a
          /\ pc' = "compare"
          /\ UNCHANGED <<retries, faulted>>
     \/ /\ Fail({base}, "compare")
        /\ UNCHANGED mirror
  /\ UNCHANGED base

MutantStrayChunks == {base}
\* Both buffers are released when the memory is not contiguous.
StrayChunks == {mirror, base}

\* The one `continue` outside the macro starts the next round.
Compare ==
  /\ pc = "compare"
  /\ IF mirror = base + 1
     THEN /\ pc' = "succeeded"
          /\ UNCHANGED <<mem, retries>>
     ELSE IF retries = 0
     THEN /\ pc' = "failed"
          /\ retries' = retries - 1
          /\ UNCHANGED mem
     ELSE /\ pc' = "allocate"
          /\ retries' = RetriesLeft
          /\ mem' = Unmapped(mem, StrayChunks)
  /\ UNCHANGED <<base, mirror, faulted>>

\* SPCRingBufferDispose: both halves are released, whatever is mapped there.
Dispose ==
  /\ pc = "succeeded"
  /\ pc' = "disposed"
  /\ mem' = Unmapped(mem, {base, base + 1})
  /\ UNCHANGED <<retries, base, mirror, faulted>>

\* Another thread of the task allocates or frees memory of its own.
OtherThread ==
  /\ \E a \in Chunk :
       \/ mem[a] = "free" /\ mem' = [mem EXCEPT ![a] = "theirs"]
       \/ mem[a] = "theirs" /\ mem' = [mem EXCEPT ![a] = "free"]
  /\ UNCHANGED <<pc, retries, base, mirror, faulted>>

Init ==
  /\ mem \in [Chunk -> {"free", "theirs"}]
  /\ pc = "allocate"
  /\ retries = 3
  /\ base \in Garbage
  /\ mirror = base + 1
  /\ faulted = FALSE

Step == Allocate \/ Deallocate \/ Remap \/ Compare

Next == Step \/ Dispose \/ OtherThread

\* The calling thread is scheduled.
Spec == Init /\ [][Next]_vars /\ WF_vars(Step)

-----------------------------------------------------------------------------
(* Properties.                                                             *)

Returned == pc \in {"succeeded", "failed"}

\* Every variable has its type.
TypeOK ==
  /\ mem \in [Chunk -> {"free", "ours", "mirror", "theirs"}]
  /\ pc \in {"allocate", "deallocate", "remap", "compare", "succeeded", "failed", "disposed"}
  /\ retries \in -1 .. 3
  /\ base \in Garbage
  /\ mirror \in Chunk
  /\ faulted \in BOOLEAN

\* The retry loop ends, however often the kernel refuses or misplaces memory.
Returns == <>Returned

\* As long as no kernel call reports an error, success means that the two
\* halves, and nothing else, are mapped: a mirror that lands elsewhere because
\* another thread was faster leaves nothing behind, nor does Dispose.
CleanSuccess ==
  ~ faulted =>
    /\ pc = "succeeded" => mem[base] = "ours" /\ mem[base + 1] = "mirror"
    /\ pc \in {"succeeded", "disposed"} =>
         {a \in Chunk : mem[a] \in {"ours", "mirror"}}
           = IF pc = "succeeded" THEN {base, base + 1} ELSE {}

\* The header: "@return true if successful; false, otherwise".
SuccessMeansMapped ==
  pc = "succeeded" => mem[base] = "ours" /\ mem[base + 1] = "mirror"
=============================================================================
