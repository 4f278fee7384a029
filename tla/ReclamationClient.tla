------------------------- MODULE ReclamationClient --------------------------
(***************************************************************************)
(* Threads that use the allocator the way the list and the priority queue  *)
(* do, in every possible order.  A thread keeps references in local slots; *)
(* shared cells stand for the link words through which the structures make *)
(* nodes reachable (a markable word, NULL_D when it leads nowhere).        *)
(*                                                                         *)
(* What a thread does obeys the reference discipline of SPCLockFreeList.c  *)
(* and SPCPriorityQueue.c: a node becomes reachable once, by a CAS that    *)
(* hands one reference over to the cell; whoever takes it out again owns   *)
(* that reference, and clears the node's forward link before releasing it  *)
(* or, in the list's extraction by key, leaves it; a reference read from a *)
(* cell is retained first and verified after.                              *)
(***************************************************************************)
EXTENDS MemoryReclamation, FiniteSets

CONSTANTS Slot,          \* local reference variables of a thread
          Cell,          \* shared link words
          NoCell,        \* no cell
          RetainedLinks, \* nodes have a retained link (the priority queue)
          MaxCount       \* bound: nodes counted higher get no retained link

ASSUME ClientAssumption ==
  /\ IsFiniteSet(Thread) /\ IsFiniteSet(Slot) /\ IsFiniteSet(Cell)
  /\ NoCell \notin Cell
  /\ RetainedLinks \in BOOLEAN
  /\ MaxCount \in Nat

\* A forward link's target is never followed here: any non-null pointer does.
Linked == N + 1

VARIABLES
  local,   \* local[t][s]: the node slot s of thread t refers to, or NULL
  cell,    \* cell[c]: a markable word
  pc,      \* pc[t]: where t is inside an operation, "rest" outside
  seen,    \* seen[t]: the node t's operation works on
  at       \* at[t]: the cell t's operation works on

clientVars == <<local, cell, pc, seen, at>>
vars == <<cmemVars, clientVars>>

Held(t, n) == \E s \in Slot : local[t][s] = n
HasRoom(t) == Held(t, NULL)

\* t is outside every operation, and outside the allocator.
AtRest(t) == pc[t] = "rest" /\ cpc[t] = "idle"

Goto(t, label) == pc' = [pc EXCEPT ![t] = label]

-----------------------------------------------------------------------------
(* createNode.                                                             *)

CreateNode(t) ==
  /\ AtRest(t) /\ HasRoom(t)
  /\ CallAlloc(t)
  /\ Goto(t, "create")
  /\ UNCHANGED <<local, cell, seen, at>>

Created(t, s) ==
  /\ pc[t] = "create" /\ cpc[t] = "allocated"
  /\ local[t][s] = NULL
  /\ local' = [local EXCEPT ![t][s] = cnode[t]]
  /\ rLink' = [rLink EXCEPT ![cnode[t]] = NULL]
  /\ next' = [next EXCEPT ![cnode[t]] = toMarkable(NULL, FALSE)]
  /\ cpc' = [cpc EXCEPT ![t] = "idle"]
  /\ cnode' = [cnode EXCEPT ![t] = NULL]
  /\ Goto(t, "rest")
  /\ UNCHANGED <<freeList, refCount, cnext, claimed, inAlloc, follow,
                 cell, seen, at>>

CreateFailed(t) ==
  /\ pc[t] = "create" /\ cpc[t] = "outOfMemory"
  /\ cpc' = [cpc EXCEPT ![t] = "idle"]
  /\ Goto(t, "rest")
  /\ UNCHANGED <<freeList, refCount, next, rLink, cnode, cnext, claimed,
                 inAlloc, follow, local, cell, seen, at>>

-----------------------------------------------------------------------------
(* retainNode and releaseNode.                                             *)

RetainNode(t, s, d) ==
  /\ AtRest(t)
  /\ local[t][s] # NULL /\ local[t][d] = NULL
  /\ refCount' = [refCount EXCEPT ![local[t][s]] = Retained(@)]
  /\ local' = [local EXCEPT ![t][d] = local[t][s]]
  /\ UNCHANGED <<freeList, next, rLink, cpc, cnode, cnext, claimed, inAlloc,
                 follow, cell, pc, seen, at>>

ReleaseNode(t, s) ==
  /\ AtRest(t)
  /\ local[t][s] # NULL
  /\ CallRelease(t, local[t][s], RetainedLinks)
  /\ local' = [local EXCEPT ![t][s] = NULL]
  /\ UNCHANGED <<cell, pc, seen, at>>

-----------------------------------------------------------------------------
(* readAndRetainNode_d.                                                    *)

ReadAndRetain(t, c) ==
  /\ AtRest(t) /\ HasRoom(t)
  /\ at' = [at EXCEPT ![t] = c]
  /\ Goto(t, "load")
  /\ UNCHANGED <<cmemVars, local, cell, seen>>

\* A marked word ends the call with NULL.
Load(t) ==
  /\ pc[t] = "load" /\ cpc[t] = "idle"
  /\ IF isMarked_m(cell[at[t]])
     THEN /\ Goto(t, "rest")
          /\ at' = [at EXCEPT ![t] = NoCell]
          /\ UNCHANGED seen
     ELSE /\ Goto(t, "retain")
          /\ seen' = [seen EXCEPT ![t] = toPtr_m(cell[at[t]])]
          /\ UNCHANGED at
  /\ UNCHANGED <<cmemVars, local, cell>>

RetainSeen(t) ==
  /\ pc[t] = "retain"
  /\ refCount' = [refCount EXCEPT ![seen[t]] = Retained(@)]
  /\ Goto(t, "recheck")
  /\ UNCHANGED <<freeList, next, rLink, cpc, cnode, cnext, claimed, inAlloc,
                 follow, local, cell, seen, at>>

MutantStillLinked(t) == TRUE
StillLinked(t) == cell[at[t]] = toMarkable(seen[t], FALSE)

RecheckSeen(t, s) ==
  /\ pc[t] = "recheck"
  /\ StillLinked(t)
  /\ local[t][s] = NULL
  /\ local' = [local EXCEPT ![t][s] = seen[t]]
  /\ Goto(t, "rest")
  /\ seen' = [seen EXCEPT ![t] = NULL]
  /\ at' = [at EXCEPT ![t] = NoCell]
  /\ UNCHANGED <<cmemVars, cell>>

Reread(t) ==
  /\ pc[t] = "recheck"
  /\ ~ StillLinked(t)
  /\ CallRelease(t, seen[t], RetainedLinks)
  /\ Goto(t, "load")
  /\ seen' = [seen EXCEPT ![t] = NULL]
  /\ UNCHANGED <<local, cell, at>>

-----------------------------------------------------------------------------
(* Linking a new node and unlinking it again.                              *)

\* Only a node no cell has led to yet is linked.
LinkNode(t, s, c) ==
  /\ AtRest(t)
  /\ local[t][s] # NULL
  /\ next[local[t][s]] = toMarkable(NULL, FALSE)
  /\ next' = [next EXCEPT ![local[t][s]] = toMarkable(Linked, FALSE)]
  /\ seen' = [seen EXCEPT ![t] = local[t][s]]
  /\ at' = [at EXCEPT ![t] = c]
  /\ Goto(t, "publish")
  /\ UNCHANGED <<freeList, refCount, rLink, cpc, cnode, cnext, claimed,
                 inAlloc, follow, local, cell>>

\* The CAS hands the reference of slot s over to the cell.
CasPublish(t, s) ==
  /\ pc[t] = "publish"
  /\ local[t][s] = seen[t]
  /\ cell[at[t]] = NULL_D
  /\ cell' = [cell EXCEPT ![at[t]] = toMarkable(seen[t], FALSE)]
  /\ local' = [local EXCEPT ![t][s] = NULL]
  /\ Goto(t, "rest")
  /\ seen' = [seen EXCEPT ![t] = NULL]
  /\ at' = [at EXCEPT ![t] = NoCell]
  /\ UNCHANGED cmemVars

\* The CAS fails and the node's link is cleared again.
CasPublishFails(t) ==
  /\ pc[t] = "publish"
  /\ cell[at[t]] # NULL_D
  /\ Goto(t, "discard")
  /\ at' = [at EXCEPT ![t] = NoCell]
  /\ UNCHANGED <<cmemVars, local, cell, seen>>

\* The owner's reference, in slot d, is the one the cell held.
CasUnlink(t, s, d, c) ==
  /\ AtRest(t)
  /\ local[t][s] # NULL /\ local[t][d] = NULL
  /\ cell[c] = toMarkable(local[t][s], FALSE)
  /\ cell' = [cell EXCEPT ![c] = NULL_D]
  /\ local' = [local EXCEPT ![t][d] = local[t][s]]
  /\ seen' = [seen EXCEPT ![t] = local[t][s]]
  /\ Goto(t, "unlink")
  /\ UNCHANGED <<cmemVars, at>>

\* What becomes of the forward link.  A deleted node's is cleared, but for the
\* extraction by key, which leaves it as it has marked it.
ClearedLinks(t) ==
  IF pc[t] = "unlink" THEN {NULL_D, toMarkable(Linked, TRUE)} ELSE {toMarkable(NULL, FALSE)}

ClearForwardLink(t) ==
  /\ pc[t] \in {"unlink", "discard"}
  /\ \E w \in ClearedLinks(t) : next' = [next EXCEPT ![seen[t]] = w]
  /\ seen' = [seen EXCEPT ![t] = NULL]
  /\ Goto(t, "rest")
  /\ UNCHANGED <<freeList, refCount, rLink, cpc, cnode, cnext, claimed,
                 inAlloc, follow, local, cell, at>>

\* The deleter of a node hands its reference to the previous node over to the
\* node it deletes.  Links lead from a node to one without a link, as previous
\* pointers lead towards the head: they make no cycle.
SetRetainedLink(t, s, d) ==
  /\ RetainedLinks
  /\ AtRest(t)
  /\ local[t][s] # NULL /\ local[t][d] \notin {NULL, local[t][s]}
  /\ rLink[local[t][s]] = NULL /\ rLink[local[t][d]] = NULL
  /\ refCount[local[t][d]] <= MaxCount
  /\ rLink' = [rLink EXCEPT ![local[t][s]] = local[t][d]]
  /\ local' = [local EXCEPT ![t][d] = NULL]
  /\ UNCHANGED <<freeList, refCount, next, cpc, cnode, cnext, claimed,
                 inAlloc, follow, cell, pc, seen, at>>

-----------------------------------------------------------------------------
Init ==
  /\ cmemInit
  /\ local = [t \in Thread |-> [s \in Slot |-> NULL]]
  /\ cell = [c \in Cell |-> NULL_D]
  /\ pc = [t \in Thread |-> "rest"]
  /\ seen = [t \in Thread |-> NULL]
  /\ at = [t \in Thread |-> NoCell]

\* Thread t starts an operation (or completes a one-step one).
Start(t) ==
  \/ CreateNode(t)
  \/ \E s, d \in Slot : RetainNode(t, s, d)
  \/ \E s \in Slot : ReleaseNode(t, s)
  \/ \E c \in Cell : ReadAndRetain(t, c)
  \/ \E s \in Slot, c \in Cell : LinkNode(t, s, c)
  \/ \E s, d \in Slot, c \in Cell : CasUnlink(t, s, d, c)
  \/ \E s, d \in Slot : SetRetainedLink(t, s, d)

\* Thread t continues the operation it is in.
Continue(t) ==
  \/ cmemStep(t) /\ UNCHANGED clientVars
  \/ \E s \in Slot : Created(t, s)
  \/ CreateFailed(t)
  \/ Load(t)
  \/ RetainSeen(t)
  \/ \E s \in Slot : RecheckSeen(t, s)
  \/ Reread(t)
  \/ \E s \in Slot : CasPublish(t, s)
  \/ CasPublishFails(t)
  \/ ClearForwardLink(t)

Next == \E t \in Thread : Start(t) \/ Continue(t)

Spec == Init /\ [][Next]_vars

-----------------------------------------------------------------------------
(* Properties.                                                             *)

Pc == {"rest", "create", "load", "retain", "recheck", "publish", "unlink",
       "discard"}

Cpc == {"idle", "readHead", "outOfMemory", "retainHead", "recheckHead",
        "readNext", "casPop", "clearClaim", "clearNext", "allocated",
        "decrement", "readLink", "clearLink", "readTop", "writeNext",
        "casPush"}

Ref == Node \cup {NULL}
Word == MarkablePointer(Ref \cup {Linked})

\* Every variable has its type.
TypeOK ==
  /\ freeList \in Word
  /\ refCount \in [Node -> Nat]
  /\ next \in [Node -> Word]
  /\ rLink \in [Node -> Ref]
  /\ cpc \in [Thread -> Cpc]
  /\ cnode \in [Thread -> Ref]
  /\ cnext \in [Thread -> Word]
  /\ claimed \in [Thread -> Seq(Node)]
  /\ inAlloc \in [Thread -> BOOLEAN]
  /\ follow \in [Thread -> BOOLEAN]
  /\ local \in [Thread -> [Slot -> Ref]]
  /\ cell \in [Cell -> MarkablePointer(Ref)]
  /\ pc \in [Thread -> Pc]
  /\ seen \in [Thread -> Ref]
  /\ at \in [Thread -> Cell \cup {NoCell}]

Pushing(t) == {claimed[t][i] : i \in 1 .. Len(claimed[t])}

\* Thread t has been given n by the allocator and has not returned it yet.
Taking(t, n) ==
  /\ cpc[t] \in {"clearClaim", "clearNext", "allocated"}
  /\ cnode[t] = n

\* The allocator owns n and no thread is pushing or popping it.
InList(n) ==
  /\ ~ isRetained(n)
  /\ \A t \in Thread : n \notin Pushing(t) /\ ~ Taking(t, n)

\* The release of n's retained link has begun.
LinkGone(n) ==
  \E t \in Thread :
    follow[t] /\ n \in Pushing(t) /\ ~ (n = Top(t) /\ cpc[t] = "readLink")

\* The counted references to a node: in slots, in cells, in the allocator's
\* calls, in readAndRetainNode_d between its FAA and its second look, and in
\* retained links.
SlotRefs(n) == {p \in Thread \X Slot : local[p[1]][p[2]] = n}

CellRefs(n) == {c \in Cell : toPtr_m(cell[c]) = n}

CallRefs(n) ==
  {t \in Thread : cnode[t] = n /\ cpc[t] \in {"recheckHead", "readNext", "casPop",
                   "clearClaim", "clearNext", "allocated", "decrement"}}

SeenRefs(n) == {t \in Thread : seen[t] = n /\ pc[t] = "recheck"}

LinkRefs(n) == {m \in Node : rLink[m] = n /\ ~ LinkGone(m)}

References(n) ==
  Cardinality(SlotRefs(n)) + Cardinality(CellRefs(n)) + Cardinality(CallRefs(n))
    + Cardinality(SeenRefs(n)) + Cardinality(LinkRefs(n))

\* Whatever the other threads do, a node some thread or cell refers to is not
\* reclaimed: the promise behind every assert(cmem_isRetained(...)).
HeldNotReclaimed ==
  /\ \A t \in Thread, s \in Slot :
       local[t][s] # NULL => isRetained(local[t][s])
  /\ \A c \in Cell : toPtr_m(cell[c]) # NULL => isRetained(toPtr_m(cell[c]))
  /\ \A n \in Node : isRetained(n) /\ rLink[n] # NULL => isRetained(rLink[n])

\* No reference is lost or counted twice: the counts are those of the
\* references that exist, in the middle of every call.
CountsExact ==
  \A n \in Node : refCount[n] \div 2 = References(n)

\* The node at place i of the chain that starts at freeList.
ChainAt ==
  LET node[i \in 1 .. N + 1] ==
        IF i = 1 THEN toPtr_m(freeList)
        ELSE LET prev == node[i - 1]
             IN IF prev = NULL THEN NULL ELSE toPtr_m(next[prev])
  IN node

\* A node is never reclaimed while references to it are left, in the middle of
\* every call; with retained links, whose count may be left too high.
CountsSuffice ==
  \A n \in Node : refCount[n] >= 2 * References(n)

\* The chain from freeList ends, and holds exactly the claimed nodes that no
\* thread is pushing or popping: concurrent pops and pushes neither lose a
\* node, nor chain one twice, nor chain one in use.
FreeListIntact ==
  /\ ChainAt[N + 1] = NULL
  /\ {ChainAt[i] : i \in 1 .. N} \ {NULL} = {n \in Node : InList(n)}

\* A node handed out by cmem_allocNode is handed to one thread, and nobody
\* holds an older reference to it.
AllocatedExclusive ==
  \A t \in Thread, n \in Node :
    Taking(t, n) =>
      /\ \A u \in Thread : ~ Held(u, n) /\ (u # t => ~ Taking(u, n))
      /\ \A c \in Cell : toPtr_m(cell[c]) # n

\* assert(cmem_nodeHasNoForwardLinks(...)) in cmem_releaseNode: whichever thread
\* happens to drop the last reference, the node's link has been cleared.  The
\* extraction by key of the list does not see to it.
NoForwardLinks ==
  \A t \in Thread :
    cpc[t] = "decrement" /\ refCount[cnode[t]] = 2
      => toPtr_m(next[cnode[t]]) = NULL

\* The pool looks empty only when it is, but for one node for each other thread
\* that is in the middle of an operation: the temporary references of allocators
\* do not add up (the concurrent allocation test asserts that its threads get
\* nodes that add up to the pool).
EmptyMeansUsed ==
  [][\A t \in Thread :
       cpc[t] = "readHead" /\ cpc'[t] = "outOfMemory" /\ ~ RetainedLinks =>
         Cardinality({n \in Node : SlotRefs(n) = {} /\ CellRefs(n) = {}})
           <= Cardinality({u \in Thread \ {t} : ~ AtRest(u)})]_vars

\* The link of a free node is not written while it stays on the free list: a
\* thread that pops it installs the link it has read.
FreeLinksStable ==
  [][\A n \in Node : InList(n) /\ InList(n)' => next'[n] = next[n]]_vars

\* The retained link of a node is released before the node is free again.
RetainedLinkReleased == \A n \in Node : InList(n) => rLink[n] = NULL
=============================================================================
