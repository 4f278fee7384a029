------------------------- MODULE MemoryReclamation --------------------------
(***************************************************************************)
(* The lock-free node allocator of SPCMemoryReclamation.h.  A fixed pool   *)
(* of nodes carries a reference count whose lowest bit is the claim bit    *)
(* (1 = the node belongs to the allocator) and whose other bits count      *)
(* references, so a reference is worth 2.  Nodes nobody uses are chained   *)
(* through their next field, from freeList.                                *)
(*                                                                         *)
(* Every load, store, fetch-and-add and compare-and-swap of the code is    *)
(* one action of the calling thread.  A CAS loop that only recomputes one  *)
(* word from its own old value (the decrement, clearing the claim bit) is  *)
(* one action: its failed rounds change nothing.  Memory is sequentially   *)
(* consistent: the barriers of the code are taken to do their job.         *)
(*                                                                         *)
(* The module has no behaviour of its own: its users (ReclamationClient,   *)
(* LockFreeList) call CallAlloc and CallRelease and retain nodes.          *)
(***************************************************************************)
EXTENDS MarkablePointers, Sequences

CONSTANTS Thread,        \* threads that share the pool
          N              \* number of nodes in the pool (totalNumNodes)

ASSUME PoolAssumption == N \in Nat \ {0}

Node == 1 .. N

VARIABLES
  freeList,   \* the word holding the head of the free list
  refCount,   \* refCount[n]: 2 * references + claim bit
  next,       \* next[n]: the markable link (level 0) of node n
  rLink,      \* rLink[n]: the retained link of node n (_rPrev), or NULL
  cpc,        \* cpc[t]: where thread t is inside cmem_*, "idle" outside
  cnode,      \* cnode[t]: the node thread t is allocating or releasing
  cnext,      \* cnext[t]: the word thread t has loaded for its next CAS
  claimed,    \* claimed[t]: nodes t has claimed and not yet pushed (the
              \*   recursion of cmem_releaseNode), innermost last
  inAlloc,    \* inAlloc[t]: the release is a step of cmem_allocNode
  follow      \* follow[t]: the release was given a retained link offset

cmemVars == <<freeList, refCount, next, rLink, cpc, cnode, cnext, claimed,
              inAlloc, follow>>

-----------------------------------------------------------------------------
(* Reference counts as numbers.                                            *)

isRetained(n) == refCount[n] % 2 = 0

MutantDecremented(old) == old - 2
\* cmem_decrementAndTestAndSet: the new count, with the claim bit set when the
\* last reference goes.
Decremented(old) == IF old = 2 THEN 1 ELSE old - 2

MutantRetained(old) == old
\* cmem_retainNode: an unconditional fetch-and-add.
Retained(old) == old + 2

Unclaimed(old) == old - 1

-----------------------------------------------------------------------------
(* Returning from a call.                                                  *)

Top(t) == claimed[t][Len(claimed[t])]

Popped(t) == SubSeq(claimed[t], 1, Len(claimed[t]) - 1)

\* The outermost release is over: back to the allocation loop, or to the caller.
Return(t) ==
  /\ cpc' = [cpc EXCEPT ![t] = IF inAlloc[t] THEN "readHead" ELSE "idle"]
  /\ cnode' = [cnode EXCEPT ![t] = NULL]
  /\ inAlloc' = [inAlloc EXCEPT ![t] = FALSE]
  /\ follow' = [follow EXCEPT ![t] = FALSE]

\* One level of cmem_releaseNode is over, stack being what is left to push: the
\* caller one level up goes on to clear its retained link.
Unwind(t, stack) ==
  IF stack = <<>>
  THEN Return(t)
  ELSE /\ cpc' = [cpc EXCEPT ![t] = "clearLink"]
       /\ cnode' = [cnode EXCEPT ![t] = NULL]
       /\ UNCHANGED <<inAlloc, follow>>

-----------------------------------------------------------------------------
(* cmem_allocNode and cmem_safeReadHead.                                   *)

CallAlloc(t) ==
  /\ cpc[t] = "idle"
  /\ cpc' = [cpc EXCEPT ![t] = "readHead"]
  /\ UNCHANGED <<freeList, refCount, next, rLink, cnode, cnext, claimed,
                 inAlloc, follow>>

\* An empty list ends the call with NULL ("out of memory in the fixed pool").
ReadHead(t) ==
  /\ cpc[t] = "readHead"
  /\ IF toPtr_m(freeList) = NULL
     THEN /\ cpc' = [cpc EXCEPT ![t] = "outOfMemory"]
          /\ UNCHANGED cnode
     ELSE /\ cpc' = [cpc EXCEPT ![t] = "retainHead"]
          /\ cnode' = [cnode EXCEPT ![t] = toPtr_m(freeList)]
  /\ UNCHANGED <<freeList, refCount, next, rLink, cnext, claimed, inAlloc,
                 follow>>

RetainHead(t) ==
  /\ cpc[t] = "retainHead"
  /\ refCount' = [refCount EXCEPT ![cnode[t]] = Retained(@)]
  /\ cpc' = [cpc EXCEPT ![t] = "recheckHead"]
  /\ UNCHANGED <<freeList, next, rLink, cnode, cnext, claimed, inAlloc, follow>>

\* Give the reference back inside cmem_allocNode: no retained link offset (-1).
ReleaseInAlloc(t) ==
  /\ cpc' = [cpc EXCEPT ![t] = "decrement"]
  /\ inAlloc' = [inAlloc EXCEPT ![t] = TRUE]
  /\ UNCHANGED <<cnode, follow>>

MutantStillHead(t) == TRUE
StillHead(t) == freeList = toMarkable(cnode[t], FALSE)

RecheckHead(t) ==
  /\ cpc[t] = "recheckHead"
  /\ IF StillHead(t)
     THEN /\ cpc' = [cpc EXCEPT ![t] = "readNext"]
          /\ UNCHANGED <<cnode, inAlloc, follow>>
     ELSE ReleaseInAlloc(t)
  /\ UNCHANGED <<freeList, refCount, next, rLink, cnext, claimed>>

\* The load of the CAS's new value, an argument evaluated before the CAS.
ReadNext(t) ==
  /\ cpc[t] = "readNext"
  /\ cnext' = [cnext EXCEPT ![t] = next[cnode[t]]]
  /\ cpc' = [cpc EXCEPT ![t] = "casPop"]
  /\ UNCHANGED <<freeList, refCount, next, rLink, cnode, claimed, inAlloc,
                 follow>>

CasPop(t) ==
  /\ cpc[t] = "casPop"
  /\ cnext' = [cnext EXCEPT ![t] = NULL_D]
  /\ \/ /\ StillHead(t)
        /\ freeList' = cnext[t]
        /\ cpc' = [cpc EXCEPT ![t] = "clearClaim"]
        /\ UNCHANGED <<cnode, inAlloc, follow>>
     \/ /\ ~ StillHead(t)
        /\ ReleaseInAlloc(t)
        /\ UNCHANGED freeList
  /\ UNCHANGED <<refCount, next, rLink, claimed>>

ClearClaim(t) ==
  /\ cpc[t] = "clearClaim"
  /\ refCount' = [refCount EXCEPT ![cnode[t]] = Unclaimed(@)]
  /\ cpc' = [cpc EXCEPT ![t] = "clearNext"]
  /\ UNCHANGED <<freeList, next, rLink, cnode, cnext, claimed, inAlloc, follow>>

\* The call ends with cnode[t]: its reference now belongs to the caller.
ClearNext(t) ==
  /\ cpc[t] = "clearNext"
  /\ next' = [next EXCEPT ![cnode[t]] = toMarkable(NULL, FALSE)]
  /\ cpc' = [cpc EXCEPT ![t] = "allocated"]
  /\ UNCHANGED <<freeList, refCount, rLink, cnode, cnext, claimed, inAlloc,
                 follow>>

-----------------------------------------------------------------------------
(* cmem_releaseNode.                                                       *)

\* Releasing NULL returns at once; links says whether a retained link offset
\* is given.
CallRelease(t, n, links) ==
  /\ cpc[t] = "idle"
  /\ IF n = NULL
     THEN UNCHANGED <<cpc, cnode, follow>>
     ELSE /\ cpc' = [cpc EXCEPT ![t] = "decrement"]
          /\ cnode' = [cnode EXCEPT ![t] = n]
          /\ follow' = [follow EXCEPT ![t] = links]
  /\ UNCHANGED <<freeList, refCount, next, rLink, cnext, claimed, inAlloc>>

\* The claim succeeds when the decrement changes the parity of the count.
Decrement(t) ==
  LET old == refCount[cnode[t]]
      new == Decremented(old)
  IN /\ cpc[t] = "decrement"
     /\ refCount' = [refCount EXCEPT ![cnode[t]] = new]
     /\ IF (old - new) % 2 = 1
        THEN /\ claimed' = [claimed EXCEPT ![t] = Append(@, cnode[t])]
             /\ cnode' = [cnode EXCEPT ![t] = NULL]
             /\ cpc' = [cpc EXCEPT ![t] = IF follow[t] THEN "readLink"
                                                       ELSE "readTop"]
             /\ UNCHANGED <<inAlloc, follow>>
        ELSE /\ UNCHANGED claimed
             /\ Unwind(t, claimed[t])
     /\ UNCHANGED <<freeList, next, rLink, cnext>>

\* The recursive call on the retained link of the claimed node.
ReadLink(t) ==
  /\ cpc[t] = "readLink"
  /\ IF rLink[Top(t)] = NULL
     THEN /\ cpc' = [cpc EXCEPT ![t] = "clearLink"]
          /\ UNCHANGED cnode
     ELSE /\ cpc' = [cpc EXCEPT ![t] = "decrement"]
          /\ cnode' = [cnode EXCEPT ![t] = rLink[Top(t)]]
  /\ UNCHANGED <<freeList, refCount, next, rLink, cnext, claimed, inAlloc,
                 follow>>

ClearLink(t) ==
  /\ cpc[t] = "clearLink"
  /\ rLink' = [rLink EXCEPT ![Top(t)] = NULL]
  /\ cpc' = [cpc EXCEPT ![t] = "readTop"]
  /\ UNCHANGED <<freeList, refCount, next, cnode, cnext, claimed, inAlloc,
                 follow>>

ReadTop(t) ==
  /\ cpc[t] = "readTop"
  /\ cnext' = [cnext EXCEPT ![t] = freeList]
  /\ cpc' = [cpc EXCEPT ![t] = "writeNext"]
  /\ UNCHANGED <<freeList, refCount, next, rLink, cnode, claimed, inAlloc,
                 follow>>

WriteNext(t) ==
  /\ cpc[t] = "writeNext"
  /\ next' = [next EXCEPT ![Top(t)] = cnext[t]]
  /\ cnext' = [cnext EXCEPT ![t] = NULL_D]
  /\ cpc' = [cpc EXCEPT ![t] = "casPush"]
  /\ UNCHANGED <<freeList, refCount, rLink, cnode, claimed, inAlloc, follow>>

MutantTopUnchanged(t) == TRUE
\* The CAS of the push expects the word just stored in the node's link.
TopUnchanged(t) == freeList = next[Top(t)]

\* A push that loses the race starts again from the load of the head.
CasPush(t) ==
  /\ cpc[t] = "casPush"
  /\ IF TopUnchanged(t)
     THEN /\ freeList' = toMarkable(Top(t), FALSE)
          /\ claimed' = [claimed EXCEPT ![t] = Popped(t)]
          /\ Unwind(t, Popped(t))
     ELSE /\ cpc' = [cpc EXCEPT ![t] = "readTop"]
          /\ UNCHANGED <<freeList, claimed, cnode, inAlloc, follow>>
  /\ UNCHANGED <<refCount, next, rLink, cnext>>

-----------------------------------------------------------------------------
\* cmem_init: one chain of all the nodes, each claimed and without references.
cmemInit ==
  /\ freeList = toMarkable(1, FALSE)
  /\ refCount = [n \in Node |-> 1]
  /\ next = [n \in Node |-> toMarkable(IF n = N THEN NULL ELSE n + 1, FALSE)]
  /\ rLink = [n \in Node |-> NULL]
  /\ cpc = [t \in Thread |-> "idle"]
  /\ cnode = [t \in Thread |-> NULL]
  /\ cnext = [t \in Thread |-> NULL_D]
  /\ claimed = [t \in Thread |-> <<>>]
  /\ inAlloc = [t \in Thread |-> FALSE]
  /\ follow = [t \in Thread |-> FALSE]

\* A step of thread t inside a call.
cmemStep(t) ==
  \/ ReadHead(t)
  \/ RetainHead(t)
  \/ RecheckHead(t)
  \/ ReadNext(t)
  \/ CasPop(t)
  \/ ClearClaim(t)
  \/ ClearNext(t)
  \/ Decrement(t)
  \/ ReadLink(t)
  \/ ClearLink(t)
  \/ ReadTop(t)
  \/ WriteNext(t)
  \/ CasPush(t)
=============================================================================
