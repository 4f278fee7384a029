------------------------ MODULE RingBufferInitProofs ------------------------
(***************************************************************************)
(* Proofs for RingBufferInit, for every size of the address space: the     *)
(* retries stay within their bounds, and without kernel errors a success   *)
(* leaves exactly the buffer and its mirror mapped.                        *)
(***************************************************************************)
EXTENDS RingBufferInit, TLAPS

\* What the function holds at each call, as long as no kernel call has failed.
HoldsOnly(ours, mirrors) ==
  \A a \in Chunk : /\ mem[a] = "ours" <=> a \in ours
                   /\ mem[a] = "mirror" <=> a \in mirrors

CleanInv ==
  ~ faulted =>
    /\ pc \in {"allocate", "disposed"} => HoldsOnly({}, {})
    /\ pc = "deallocate" => HoldsOnly({base, base + 1}, {})
    /\ pc = "remap" => HoldsOnly({base}, {})
    /\ pc \in {"compare", "succeeded"} => mirror # base /\ HoldsOnly({base}, {mirror})

\* A success has been compared, and a failure has used the last retry.
ReturnInv ==
  /\ pc = "succeeded" => mirror = base + 1
  /\ pc # "failed" => retries >= 0

IInv == TypeOK /\ ReturnInv /\ CleanInv

\* Both halves of a buffer are chunks.
LEMMA Halves ==
  ASSUME TypeOK
  PROVE  base \in Chunk /\ base + 1 \in Chunk /\ base # base + 1
BY ChunksAssumption DEF TypeOK, Garbage, Chunk

\* Releasing chunks leaves the map of the memory a map.
LEMMA UnmappedType ==
  ASSUME TypeOK, NEW S
  PROVE  /\ Unmapped(mem, S) \in [Chunk -> {"free", "ours", "mirror", "theirs"}]
         /\ \A a \in Chunk : Unmapped(mem, S)[a] = IF a \in S THEN "free" ELSE mem[a]
BY DEF TypeOK, Unmapped

\* A call that fails keeps the types, and the retries in their range.
LEMMA FailTypes ==
  ASSUME TypeOK, ReturnInv, pc # "failed", NEW S,
         NEW label \in {"deallocate", "remap", "compare"}, Fail(S, label)
  PROVE  /\ mem' \in [Chunk -> {"free", "ours", "mirror", "theirs"}]
         /\ pc' \in {label, "failed"} /\ retries' \in -1 .. 3 /\ faulted' = TRUE
         /\ pc' # "failed" => retries' >= 0
<1>1. CASE retries = 0
  BY <1>1 DEF Fail, TypeOK
<1>2. CASE retries # 0
  <2>1. retries \in 1 .. 3
    BY <1>2 DEF TypeOK, ReturnInv
  <2> QED BY <1>2, <2>1, UnmappedType DEF Fail, RetriesLeft
<1> QED BY <1>1, <1>2

\* The initial state.
LEMMA InitIInv == Init => IInv
<1> SUFFICES ASSUME Init PROVE IInv
  OBVIOUS
<1>1. base \in Garbage /\ mirror = base + 1
  BY DEF Init
<1>2. faulted \in BOOLEAN
  BY Zenon DEF Init
<1>3. TypeOK
  BY <1>1, <1>2, ChunksAssumption DEF Init, TypeOK, Chunk, Garbage
<1>4. ReturnInv
  BY DEF Init, ReturnInv
<1>5. CleanInv
  BY DEF Init, CleanInv, HoldsOnly
<1> QED BY <1>3, <1>4, <1>5 DEF IInv

\* vm_allocate maps two chunks that were free, or fails and maps nothing.
LEMMA AllocateStep ==
  ASSUME IInv, Allocate
  PROVE  IInv'
<1> USE DEF IInv
<1>1. ASSUME NEW a \in 1 .. Chunks - 1, mem[a] = "free", mem[a + 1] = "free",
             mem' = [mem EXCEPT ![a] = "ours", ![a + 1] = "ours"], base' = a,
             pc' = "deallocate", UNCHANGED <<retries, faulted, mirror>>
      PROVE  IInv'
  <2>1. a \in Chunk /\ a + 1 \in Chunk /\ a \in Garbage
    BY ChunksAssumption DEF Chunk, Garbage
  <2>2. TypeOK'
    BY <1>1, <2>1 DEF TypeOK
  <2>3. ReturnInv'
    BY <1>1 DEF ReturnInv, Allocate
  <2>4. CleanInv'
    BY <1>1, <2>1 DEF CleanInv, HoldsOnly, TypeOK, Allocate
  <2> QED BY <2>2, <2>3, <2>4
<1>2. ASSUME NEW a \in Garbage, Fail({}, "deallocate"), base' = a, UNCHANGED mirror
      PROVE  IInv'
  <2>1. pc = "allocate"
    BY DEF Allocate
  <2>2. /\ mem' \in [Chunk -> {"free", "ours", "mirror", "theirs"}]
        /\ pc' \in {"deallocate", "failed"} /\ retries' \in -1 .. 3 /\ faulted' = TRUE
        /\ pc' # "failed" => retries' >= 0
    BY <1>2, <2>1, FailTypes
  <2> QED BY <1>2, <2>2 DEF TypeOK, ReturnInv, CleanInv
<1> QED BY <1>1, <1>2 DEF Allocate

\* The second half is given back, and the first stays mapped.
LEMMA DeallocateStep ==
  ASSUME IInv, Deallocate
  PROVE  IInv'
<1> USE DEF IInv
<1>1. pc = "deallocate" /\ mirror' = base + 1 /\ base' = base /\ base \in Garbage
  BY DEF Deallocate, TypeOK
<1>2. ASSUME mem' = Unmapped(mem, {base + 1}), pc' = "remap", UNCHANGED <<retries, faulted>>
      PROVE  IInv'
  <2>1. TypeOK'
    BY <1>1, <1>2, Halves, UnmappedType DEF TypeOK
  <2>2. ReturnInv'
    BY <1>1, <1>2 DEF ReturnInv
  <2>3. \A a \in Chunk : mem'[a] = IF a = base + 1 THEN "free" ELSE mem[a]
    BY <1>2, UnmappedType
  <2>4. CleanInv'
    BY <1>1, <1>2, <2>3, Halves DEF CleanInv, HoldsOnly
  <2> QED BY <2>1, <2>2, <2>4
<1>3. ASSUME Fail({base}, "remap")
      PROVE  IInv'
  <2>1. /\ mem' \in [Chunk -> {"free", "ours", "mirror", "theirs"}]
        /\ pc' \in {"remap", "failed"} /\ retries' \in -1 .. 3 /\ faulted' = TRUE
        /\ pc' # "failed" => retries' >= 0
    <3>1. PICK S : S = {base}
      OBVIOUS
    <3>2. Fail(S, "remap")
      BY <1>3, <3>1 DEF Fail
    <3> QED BY <1>1, <3>2, FailTypes
  <2> QED BY <1>1, <2>1, Halves DEF TypeOK, ReturnInv, CleanInv
<1> QED BY <1>2, <1>3 DEF Deallocate

\* The mirror goes to a chunk that was free, hence not to the buffer itself.
LEMMA RemapStep ==
  ASSUME IInv, Remap
  PROVE  IInv'
<1> USE DEF IInv
<1>1. pc = "remap" /\ base' = base
  BY DEF Remap
<1>2. ASSUME NEW a \in Chunk, mem[a] = "free", mem' = [mem EXCEPT ![a] = "mirror"],
             mirror' = a, pc' = "compare", UNCHANGED <<retries, faulted>>
      PROVE  IInv'
  <2>1. TypeOK'
    BY <1>1, <1>2 DEF TypeOK
  <2>2. ReturnInv'
    BY <1>1, <1>2 DEF ReturnInv
  <2>3. CleanInv'
    BY <1>1, <1>2, Halves DEF CleanInv, HoldsOnly, TypeOK
  <2> QED BY <2>1, <2>2, <2>3
<1>3. ASSUME Fail({base}, "compare"), UNCHANGED mirror
      PROVE  IInv'
  <2>1. /\ mem' \in [Chunk -> {"free", "ours", "mirror", "theirs"}]
        /\ pc' \in {"compare", "failed"} /\ retries' \in -1 .. 3 /\ faulted' = TRUE
        /\ pc' # "failed" => retries' >= 0
    <3>1. PICK S : S = {base}
      OBVIOUS
    <3>2. Fail(S, "compare")
      BY <1>3, <3>1 DEF Fail
    <3> QED BY <1>1, <3>2, FailTypes
  <2> QED BY <1>1, <1>3, <2>1 DEF TypeOK, ReturnInv, CleanInv
<1> QED BY <1>2, <1>3 DEF Remap

\* A mirror in the wrong place is released together with the buffer.
LEMMA CompareStep ==
  ASSUME IInv, Compare
  PROVE  IInv'
<1> USE DEF IInv
<1>1. pc = "compare" /\ UNCHANGED <<base, mirror, faulted>>
  BY DEF Compare
<1>2. CASE mirror = base + 1
  BY <1>1, <1>2 DEF Compare, TypeOK, ReturnInv, CleanInv, HoldsOnly
<1>3. CASE mirror # base + 1 /\ retries = 0
  BY <1>1, <1>3 DEF Compare, TypeOK, ReturnInv, CleanInv
<1>4. CASE mirror # base + 1 /\ retries # 0
  <2>1. pc' = "allocate" /\ retries' = retries - 1 /\ mem' = Unmapped(mem, {mirror, base})
    BY <1>4 DEF Compare, RetriesLeft, StrayChunks
  <2>2. retries' \in -1 .. 3 /\ retries' >= 0
    BY <1>1, <1>4, <2>1 DEF TypeOK, ReturnInv
  <2>3. TypeOK'
    BY <1>1, <2>1, <2>2, UnmappedType DEF TypeOK
  <2>4. \A a \in Chunk : mem'[a] = IF a \in {mirror, base} THEN "free" ELSE mem[a]
    BY <2>1, UnmappedType
  <2>5. CleanInv'
    BY <1>1, <2>1, <2>4 DEF CleanInv, HoldsOnly
  <2> QED BY <2>1, <2>2, <2>3, <2>5 DEF ReturnInv
<1> QED BY <1>2, <1>3, <1>4

\* Disposing releases both halves.
LEMMA DisposeStep ==
  ASSUME IInv, Dispose
  PROVE  IInv'
<1> USE DEF IInv
<1>1. /\ pc = "succeeded" /\ pc' = "disposed" /\ UNCHANGED <<retries, base, mirror, faulted>>
      /\ mem' = Unmapped(mem, {base, base + 1})
  BY DEF Dispose
<1>2. \A a \in Chunk : mem'[a] = IF a \in {base, base + 1} THEN "free" ELSE mem[a]
  BY <1>1, UnmappedType
<1>3. TypeOK'
  BY <1>1, UnmappedType DEF TypeOK
<1>4. CleanInv'
  BY <1>1, <1>2 DEF CleanInv, HoldsOnly, ReturnInv
<1> QED BY <1>1, <1>3, <1>4 DEF ReturnInv

\* Another thread touches only what is free or its own.
LEMMA OtherThreadStep ==
  ASSUME IInv, OtherThread
  PROVE  IInv'
<1> USE DEF IInv
<1>1. PICK a \in Chunk :
        \/ mem[a] = "free" /\ mem' = [mem EXCEPT ![a] = "theirs"]
        \/ mem[a] = "theirs" /\ mem' = [mem EXCEPT ![a] = "free"]
  BY DEF OtherThread
<1>2. UNCHANGED <<pc, retries, base, mirror, faulted>>
  BY DEF OtherThread
<1>3. TypeOK'
  BY <1>1, <1>2 DEF TypeOK
<1>4. \A b \in Chunk : /\ mem'[b] = "ours" <=> mem[b] = "ours"
                       /\ mem'[b] = "mirror" <=> mem[b] = "mirror"
  BY <1>1 DEF TypeOK
<1>5. CleanInv'
  BY <1>2, <1>4 DEF CleanInv, HoldsOnly
<1> QED BY <1>2, <1>3, <1>5 DEF ReturnInv

\* The invariant holds in every reachable state.
LEMMA Invariant == Spec => []IInv
<1>1. IInv /\ [Next]_vars => IInv'
  <2>1. ASSUME IInv, UNCHANGED vars PROVE IInv'
    BY <2>1 DEF vars, IInv, TypeOK, ReturnInv, CleanInv, HoldsOnly
  <2> QED BY <2>1, AllocateStep, DeallocateStep, RemapStep, CompareStep, DisposeStep,
             OtherThreadStep DEF Next, Step
<1> QED BY InitIInv, <1>1, PTL DEF Spec

\* Every variable has its type: in particular the retry counter, which goes down on
\* failures of four kinds, never passes below -1, nor below 0 before the failure is
\* returned, so that no round starts with it negative.
THEOREM TypeCorrect == Spec => []TypeOK
<1>1. IInv => TypeOK
  BY DEF IInv
<1> QED BY <1>1, Invariant, PTL

\* As long as no kernel call reports an error, success means that the buffer and its
\* mirror, and nothing else, are mapped, and disposal leaves nothing behind.
THEOREM Clean == Spec => []CleanSuccess
<1>1. IInv => CleanSuccess
  <2> SUFFICES ASSUME IInv, ~ faulted
               PROVE  /\ pc = "succeeded" => mem[base] = "ours" /\ mem[base + 1] = "mirror"
                      /\ pc \in {"succeeded", "disposed"} =>
                           {a \in Chunk : mem[a] \in {"ours", "mirror"}}
                             = IF pc = "succeeded" THEN {base, base + 1} ELSE {}
    BY DEF CleanSuccess
  <2>1. TypeOK /\ ReturnInv /\ CleanInv
    BY DEF IInv
  <2>2. CASE pc = "succeeded"
    <3>1. mirror = base + 1 /\ HoldsOnly({base}, {base + 1})
      BY <2>1, <2>2 DEF ReturnInv, CleanInv
    <3>2. {a \in Chunk : mem[a] \in {"ours", "mirror"}} = {base, base + 1}
      BY <2>1, <3>1, Halves DEF HoldsOnly
    <3> QED BY <2>1, <2>2, <3>1, <3>2, Halves DEF HoldsOnly
  <2>3. CASE pc = "disposed"
    BY <2>1, <2>3 DEF CleanInv, HoldsOnly
  <2> QED BY <2>2, <2>3
<1> QED BY <1>1, Invariant, PTL
=============================================================================
