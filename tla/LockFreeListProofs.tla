------------------------- MODULE LockFreeListProofs --------------------------
(***************************************************************************)
(* The list stays in order, and no node is reclaimed while it is in use:   *)
(* proofs for LockFreeList.                                                *)
(*                                                                         *)
(* The first part is about the allocator of MemoryReclamation, for users   *)
(* that set no retained links, whatever they keep their references in.  A  *)
(* user says which nodes it holds for sure, and how many references to     *)
(* each node it has, those it has taken without a second look included;    *)
(* the allocator keeps what is held, as long as every step of the user     *)
(* changes the counts by what it does to its references.  The second part  *)
(* is about the list, on top of it.                                        *)
(***************************************************************************)
EXTENDS LockFreeList, FiniteSetTheorems, SequenceTheorems, WellFoundedInduction, TLAPS

Ptr == Node \cup {NULL}

Pushes == {"readTop", "writeNext", "casPush"}

Counted == {"recheckHead", "readNext", "casPop", "clearClaim", "clearNext",
            "allocated", "decrement"}

\* Where a thread may be in the allocator, if there are no retained links.
CallPlace == {"idle", "readHead", "outOfMemory", "retainHead"} \cup Counted \cup Pushes

PoolTypes ==
  /\ freeList \in MarkablePointer(Ptr)
  /\ refCount \in [Node -> Nat]
  /\ next \in [Node -> MarkablePointer(Ptr)]
  /\ cpc \in [Thread -> CallPlace]
  /\ cnode \in [Thread -> Ptr]
  /\ cnext \in [Thread -> MarkablePointer(Ptr)]
  /\ claimed \in [Thread -> Seq(Node)]
  /\ inAlloc \in [Thread -> BOOLEAN]
  /\ follow \in [Thread -> BOOLEAN]

\* What the control state of a thread says about its variables.
Control ==
  \A t \in Thread :
    /\ ~ follow[t]
    /\ cpc[t] \in Counted \cup {"retainHead"} => cnode[t] \in Node
    /\ cpc[t] \in Pushes => \E n \in Node : claimed[t] = <<n>>
    /\ cpc[t] \notin Pushes => claimed[t] = <<>>

\* Thread t pushes n, or has popped n and has not handed it out yet, or has a
\* reference to n in the middle of a call.
Pushing(t, n) == cpc[t] \in Pushes /\ claimed[t] = <<n>>

Taking(t, n) ==
  cpc[t] \in {"clearClaim", "clearNext", "allocated"} /\ cnode[t] = n

Calling(t, n) == cpc[t] \in Counted /\ cnode[t] = n

CallRefs(n) == {t \in Thread : Calling(t, n)}

\* Node n is free.
InList(n) ==
  /\ ~ isRetained(n)
  /\ \A t \in Thread : ~ Pushing(t, n) /\ ~ Taking(t, n)

\* A node that is pushed is claimed, and pushed by one thread.
PushInv ==
  \A t \in Thread, n \in Node : Pushing(t, n) =>
    /\ ~ isRetained(n)
    /\ \A u \in Thread : ~ Taking(u, n) /\ (Pushing(u, n) => u = t)

\* A node is taken by one thread, and claimed until that clears the claim bit.
TakeInv ==
  \A t \in Thread, n \in Node : Taking(t, n) =>
    /\ isRetained(n) <=> cpc[t] # "clearClaim"
    /\ \A u \in Thread : Taking(u, n) => u = t

\* A node that was seen at the head and retained is not pushed again.
PopInv ==
  \A t \in Thread : cpc[t] \in {"readNext", "casPop"} =>
    \A u \in Thread : ~ Pushing(u, cnode[t])

\* The links of the free list lead from free nodes to free nodes, to each from
\* one at most, and to the first from none.
HeadInv ==
  /\ ~ isMarked_m(freeList)
  /\ toPtr_m(freeList) # NULL => InList(toPtr_m(freeList))

ChainInv ==
  \A n \in Node : InList(n) =>
    /\ ~ isMarked_m(next[n])
    /\ toPtr_m(next[n]) # NULL =>
         /\ InList(toPtr_m(next[n]))
         /\ next[n] # freeList
         /\ \A m \in Node : InList(m) /\ next[m] = next[n] => m = n

\* What a pop is about to install is still the link of the head, if that is free.
LoadInv ==
  \A t \in Thread :
    cpc[t] = "casPop" /\ InList(cnode[t]) => cnext[t] = next[cnode[t]]

\* What the user holds is retained, and not being handed out.
HeldInv(H) ==
  \A n \in H : isRetained(n) /\ \A t \in Thread : ~ Taking(t, n)

\* The counts cover the references, c[n] of them outside the allocator.
Covered(H, c) ==
  /\ H \subseteq Node /\ c \in [Node -> Nat]
  /\ \A n \in H : c[n] >= 1
  /\ \A n \in Node : refCount[n] >= 2 * (c[n] + Cardinality(CallRefs(n)))

Moving == PushInv /\ TakeInv /\ PopInv

Chain == HeadInv /\ ChainInv /\ LoadInv

Pool(H, c) ==
  /\ PoolTypes /\ Control /\ Moving /\ Chain
  /\ HeldInv(H) /\ Covered(H, c)

-----------------------------------------------------------------------------
(* Counting.                                                               *)

\* Thread t's part of the references in calls.
InCall(t, n) == IF Calling(t, n) THEN 1 ELSE 0

\* A set that differs in one element at most.
LEMMA OneMoreOrLess ==
  ASSUME NEW S, NEW R, NEW a, IsFiniteSet(S), R \ {a} = S \ {a}
  PROVE  /\ IsFiniteSet(R) /\ Cardinality(R) \in Nat /\ Cardinality(S) \in Nat
         /\ Cardinality(R) + (IF a \in S THEN 1 ELSE 0)
              = Cardinality(S) + (IF a \in R THEN 1 ELSE 0)
<1>1. IsFiniteSet(S \ {a})
  BY FS_Subset
<1>2. \A X : X \ {a} = S \ {a} =>
        /\ IsFiniteSet(X)
        /\ Cardinality(X) = Cardinality(S \ {a}) + (IF a \in X THEN 1 ELSE 0)
  <2> SUFFICES ASSUME NEW X, X \ {a} = S \ {a}
               PROVE  /\ IsFiniteSet(X)
                      /\ Cardinality(X) = Cardinality(S \ {a}) + (IF a \in X THEN 1 ELSE 0)
    OBVIOUS
  <2>1. CASE a \in X
    <3>1. X = (S \ {a}) \cup {a} /\ a \notin S \ {a}
      BY <2>1
    <3> QED BY <1>1, <2>1, <3>1, FS_AddElement
  <2>2. CASE a \notin X
    <3>1. X = S \ {a}
      BY <2>2
    <3>2. Cardinality(S \ {a}) \in Nat
      BY <1>1, FS_CardinalityType
    <3> QED BY <1>1, <2>2, <3>1, <3>2
  <2> QED BY <2>1, <2>2
<1>3. Cardinality(S \ {a}) \in Nat
  BY <1>1, FS_CardinalityType
<1>4. /\ IsFiniteSet(R)
      /\ Cardinality(R) = Cardinality(S \ {a}) + (IF a \in R THEN 1 ELSE 0)
      /\ Cardinality(S) = Cardinality(S \ {a}) + (IF a \in S THEN 1 ELSE 0)
  BY <1>2
<1>5. Cardinality(R) \in Nat /\ Cardinality(S) \in Nat
  BY <1>3, <1>4
<1> QED BY <1>3, <1>4, <1>5

\* The references in calls change by those of the thread that runs.
LEMMA CallTally ==
  ASSUME NEW t \in Thread, NEW n \in Node, IsFiniteSet(Thread),
         \A u \in Thread \ {t} : cpc'[u] = cpc[u] /\ cnode'[u] = cnode[u]
  PROVE  /\ Cardinality(CallRefs(n)) \in Nat /\ Cardinality(CallRefs(n))' \in Nat
         /\ InCall(t, n) \in {0, 1} /\ InCall(t, n)' \in {0, 1}
         /\ Cardinality(CallRefs(n))' =
              Cardinality(CallRefs(n)) + InCall(t, n)' - InCall(t, n)
<1>1. IsFiniteSet(CallRefs(n))
  BY FS_Subset DEF CallRefs
<1>2. CallRefs(n)' \ {t} = CallRefs(n) \ {t}
  BY DEF CallRefs, Calling
<1>3. PICK S, R : S = CallRefs(n) /\ R = CallRefs(n)'
  OBVIOUS
<1>4. /\ Cardinality(R) \in Nat /\ Cardinality(S) \in Nat
      /\ Cardinality(R) + (IF t \in S THEN 1 ELSE 0)
           = Cardinality(S) + (IF t \in R THEN 1 ELSE 0)
  BY <1>1, <1>2, <1>3, OneMoreOrLess
<1>5. InCall(t, n) = (IF t \in S THEN 1 ELSE 0) /\ InCall(t, n)' = IF t \in R THEN 1 ELSE 0
  BY <1>3 DEF InCall, CallRefs
<1> QED BY <1>3, <1>4, <1>5

\* References keep a count up.
LEMMA CallCounted ==
  ASSUME NEW H, NEW c, Pool(H, c), IsFiniteSet(Thread),
         NEW n \in Node, NEW t \in Thread, Calling(t, n)
  PROVE  /\ refCount[n] \in Nat /\ refCount[n] >= 2
         /\ n \in H \/ (\E u \in Thread : u # t /\ Calling(u, n)) => refCount[n] >= 4
<1>1. /\ refCount[n] \in Nat /\ refCount[n] >= 2 * (c[n] + Cardinality(CallRefs(n)))
      /\ c[n] \in Nat /\ (n \in H => c[n] >= 1)
  BY DEF Pool, PoolTypes, Covered
<1>2. IsFiniteSet(CallRefs(n)) /\ t \in CallRefs(n)
  BY FS_Subset DEF CallRefs
<1>3. /\ IsFiniteSet(CallRefs(n) \ {t})
      /\ Cardinality(CallRefs(n) \ {t}) = Cardinality(CallRefs(n)) - 1
  BY <1>2, FS_RemoveElement
<1>4. Cardinality(CallRefs(n)) \in Nat /\ Cardinality(CallRefs(n) \ {t}) \in Nat
  BY <1>2, <1>3, FS_CardinalityType
<1>5. ASSUME NEW u \in Thread, u # t, Calling(u, n)
      PROVE  Cardinality(CallRefs(n) \ {t}) >= 1
  <2>1. u \in CallRefs(n) \ {t}
    BY <1>5 DEF CallRefs
  <2>2. /\ IsFiniteSet((CallRefs(n) \ {t}) \ {u})
        /\ Cardinality((CallRefs(n) \ {t}) \ {u}) = Cardinality(CallRefs(n) \ {t}) - 1
    BY <1>3, <2>1, FS_RemoveElement
  <2>3. Cardinality((CallRefs(n) \ {t}) \ {u}) \in Nat
    BY <2>2, FS_CardinalityType
  <2> QED BY <1>4, <2>2, <2>3
<1>6. PICK r, k, h : /\ r = refCount[n] /\ k = Cardinality(CallRefs(n)) /\ h = c[n]
  OBVIOUS
<1>7. /\ r \in Nat /\ k \in Nat /\ h \in Nat /\ r >= 2 * (h + k) /\ k >= 1
      /\ n \in H => h >= 1
      /\ (\E u \in Thread : u # t /\ Calling(u, n)) => k >= 2
  BY <1>1, <1>3, <1>4, <1>5, <1>6
<1>8. r >= 2 /\ (h >= 1 \/ k >= 2 => r >= 4)
  BY <1>7
<1> QED BY <1>1, <1>6, <1>7, <1>8

-----------------------------------------------------------------------------
(* Steps that move no node between the free list and the threads.          *)

\* The variables of the other threads in the allocator stay as they are.
OthersKept(t) ==
  \A u \in Thread \ {t} : /\ cpc'[u] = cpc[u] /\ cnode'[u] = cnode[u]
                          /\ cnext'[u] = cnext[u] /\ claimed'[u] = claimed[u]

\* Thread t keeps what it pushes and what it takes, and no claim bit changes.
NodesKept(t) ==
  /\ \A n \in Node : isRetained(n)' <=> isRetained(n)
  /\ \A n \in Node : Pushing(t, n)' <=> Pushing(t, n)
  /\ \A n \in Node : Taking(t, n)' <=> Taking(t, n)
  /\ cpc'[t] = "clearClaim" <=> cpc[t] = "clearClaim"

\* The head of the free list and the links of free nodes stay as they are.
LinksKept ==
  /\ freeList' = freeList
  /\ \A n \in Node : InList(n) => next'[n] = next[n]

\* What thread t knows of the head it is about to pop.
PopKept(t) ==
  cpc'[t] \in {"readNext", "casPop"} =>
    /\ \A u \in Thread : ~ Pushing(u, cnode'[t])
    /\ cpc'[t] = "casPop" /\ InList(cnode'[t]) => cnext'[t] = next[cnode'[t]]

\* If retained nodes and the parts of the threads stay, free nodes stay free.
LEMMA FreeKept ==
  ASSUME NEW t \in Thread, OthersKept(t), NodesKept(t)
  PROVE  /\ \A u \in Thread, n \in Node : Pushing(u, n)' <=> Pushing(u, n)
         /\ \A u \in Thread, n \in Node : Taking(u, n)' <=> Taking(u, n)
         /\ \A u \in Thread : cpc'[u] = "clearClaim" <=> cpc[u] = "clearClaim"
         /\ \A n \in Node : InList(n)' <=> InList(n)
<1>1. \A u \in Thread, n \in Node : Pushing(u, n)' <=> Pushing(u, n)
  BY DEF OthersKept, NodesKept, Pushing
<1>2. \A u \in Thread, n \in Node : Taking(u, n)' <=> Taking(u, n)
  BY DEF OthersKept, NodesKept, Taking
<1>3. \A u \in Thread : cpc'[u] = "clearClaim" <=> cpc[u] = "clearClaim"
  BY DEF OthersKept, NodesKept
<1> QED BY <1>1, <1>2, <1>3 DEF InList, NodesKept

\* Steps that keep the free list keep what is known of it.
LEMMA ChainKept ==
  ASSUME NEW H, NEW c, Pool(H, c), NEW t \in Thread, PoolTypes', Control', OthersKept(t),
         LinksKept, PopKept(t), \A n \in Node : InList(n)' <=> InList(n)
  PROVE  Chain'
<1>1. \A n \in Node : InList(n)' <=> InList(n)
  OBVIOUS
<1>2. HeadInv /\ ChainInv /\ LoadInv /\ PoolTypes /\ Control
  BY DEF Pool, Chain
<1>6. \A n \in Node : toPtr_m(next[n]) # NULL => toPtr_m(next[n]) \in Node
  BY <1>2 DEF PoolTypes, MarkablePointer, toPtr_m, Ptr
<1>7. HeadInv'
  <2>1. toPtr_m(freeList) # NULL => toPtr_m(freeList) \in Node
    BY <1>2 DEF PoolTypes, MarkablePointer, toPtr_m, Ptr
  <2>2. PICK f : f = toPtr_m(freeList)
    OBVIOUS
  <2>3. toPtr_m(freeList)' = f /\ isMarked_m(freeList)' = isMarked_m(freeList)
    BY <2>2 DEF LinksKept, toPtr_m, isMarked_m
  <2> QED BY <1>1, <1>2, <2>1, <2>2, <2>3 DEF HeadInv, InList
<1>8. ChainInv'
  <2> SUFFICES ASSUME NEW n \in Node, InList(n)'
               PROVE  /\ ~ isMarked_m(next[n])'
                      /\ toPtr_m(next[n])' # NULL =>
                           /\ InList(toPtr_m(next[n]))'
                           /\ next'[n] # freeList'
                           /\ \A m \in Node : InList(m)' /\ next'[m] = next'[n] => m = n
    BY DEF ChainInv
  <2>1. InList(n) /\ next'[n] = next[n]
    BY <1>1 DEF LinksKept
  <2>2. PICK p : p = toPtr_m(next[n])
    OBVIOUS
  <2>3. toPtr_m(next[n])' = p /\ isMarked_m(next[n])' = isMarked_m(next[n])
    BY <2>1, <2>2 DEF toPtr_m, isMarked_m
  <2>4. p # NULL => p \in Node /\ InList(p)
    BY <1>2, <1>6, <2>1, <2>2 DEF ChainInv
  <2>5. p # NULL => InList(p)'
    BY <1>1, <2>4
  <2>6. \A m \in Node : InList(m)' => InList(m) /\ next'[m] = next[m]
    BY <1>1 DEF LinksKept
  <2>7. (toPtr_m(next[n]))' # NULL => InList(toPtr_m(next[n]))'
    BY <2>3, <2>5 DEF InList, Pushing, Taking, isRetained
  <2> QED BY <1>2, <2>1, <2>2, <2>3, <2>6, <2>7 DEF ChainInv, LinksKept
<1>9. LoadInv'
  <2> SUFFICES ASSUME NEW u \in Thread, cpc'[u] = "casPop", InList(cnode[u])'
               PROVE  cnext'[u] = next'[cnode'[u]]
    BY DEF LoadInv
  <2>1. PICK n \in Node : n = cnode'[u]
    BY DEF Control, Counted
  <2>2. InList(n)
    <3>1. InList(n)'
      BY <2>1 DEF InList, Pushing, Taking, isRetained
    <3> QED BY <1>1, <3>1
  <2>3. next'[n] = next[n]
    BY <2>2 DEF LinksKept
  <2>4. cnext'[u] = next[n]
    <3>1. CASE u = t
      BY <2>1, <2>2, <3>1 DEF PopKept
    <3>2. CASE u # t
      BY <1>2, <2>1, <2>2, <3>2 DEF OthersKept, LoadInv
    <3> QED BY <3>1, <3>2
  <2> QED BY <2>1, <2>3, <2>4
<1> QED BY <1>7, <1>8, <1>9 DEF Chain

\* The counts go on covering the references, if they change with them.
LEMMA CoverKept ==
  ASSUME NEW H, NEW c, Pool(H, c), NEW t \in Thread, IsFiniteSet(Thread),
         NEW G, NEW d \in [Node -> Nat], PoolTypes', OthersKept(t),
         G \subseteq Node, \A n \in G : d[n] >= 1,
         \A n \in Node :
           refCount'[n] >= refCount[n] + 2 * ((d[n] - c[n]) + (InCall(t, n)' - InCall(t, n)))
  PROVE  Covered(G, d)'
<1>2. Covered(H, c) /\ PoolTypes
  BY DEF Pool
<1>1. \A n \in Node : refCount'[n] >= 2 * (d[n] + Cardinality(CallRefs(n))')
  <2> SUFFICES ASSUME NEW n \in Node
               PROVE  refCount'[n] >= 2 * (d[n] + Cardinality(CallRefs(n))')
    OBVIOUS
  <2>1. PICK a, b : a = Cardinality(CallRefs(n)) /\ b = Cardinality(CallRefs(n))'
    OBVIOUS
  <2>2. PICK i, j : i = InCall(t, n) /\ j = InCall(t, n)'
    OBVIOUS
  <2>3. a \in Nat /\ b \in Nat /\ i \in {0, 1} /\ j \in {0, 1} /\ b = a + j - i
    BY <2>1, <2>2, CallTally DEF OthersKept
  <2>4. refCount[n] \in Nat /\ refCount'[n] \in Nat /\ c[n] \in Nat /\ d[n] \in Nat
    BY <1>2 DEF PoolTypes, Covered
  <2>5. refCount[n] >= 2 * (c[n] + a)
    BY <1>2, <2>1 DEF Covered
  <2>6. refCount'[n] >= refCount[n] + 2 * ((d[n] - c[n]) + (j - i))
    BY <2>2
  <2>7. refCount'[n] >= 2 * (d[n] + b)
    BY <2>3, <2>4, <2>5, <2>6
  <2> QED BY <2>1, <2>7
<1> QED BY <1>1 DEF Covered

\* A step that moves no node keeps the pool.
LEMMA Kept ==
  ASSUME NEW H, NEW c, Pool(H, c), NEW t \in Thread, IsFiniteSet(Thread),
         NEW G, NEW d \in [Node -> Nat],
         PoolTypes', Control', OthersKept(t), NodesKept(t), LinksKept, PopKept(t),
         G \subseteq H, \A n \in G : d[n] >= 1,
         \A n \in Node :
           refCount'[n] >= refCount[n] + 2 * ((d[n] - c[n]) + (InCall(t, n)' - InCall(t, n)))
  PROVE  Pool(G, d)'
<1>1. /\ \A u \in Thread, n \in Node : Pushing(u, n)' <=> Pushing(u, n)
      /\ \A u \in Thread, n \in Node : Taking(u, n)' <=> Taking(u, n)
      /\ \A u \in Thread : cpc'[u] = "clearClaim" <=> cpc[u] = "clearClaim"
      /\ \A n \in Node : InList(n)' <=> InList(n)
      /\ \A n \in Node : isRetained(n)' <=> isRetained(n)
  BY FreeKept DEF NodesKept
<1>2. /\ PushInv /\ TakeInv /\ PopInv /\ HeadInv /\ ChainInv /\ LoadInv
      /\ HeldInv(H) /\ Covered(H, c) /\ PoolTypes /\ Control
  BY DEF Pool, Moving, Chain
<1>3. PushInv'
  BY <1>1, <1>2 DEF PushInv
<1>4. TakeInv'
  BY <1>1, <1>2 DEF TakeInv
<1>5. PopInv'
  <2> SUFFICES ASSUME NEW u \in Thread, cpc'[u] \in {"readNext", "casPop"}, NEW v \in Thread
               PROVE  ~ Pushing(v, cnode[u])'
    BY DEF PopInv, Pushing
  <2>1. cnode'[u] \in Node
    BY DEF Control, Counted
  <2>2. PICK n \in Node : n = cnode'[u]
    BY <2>1
  <2>3. ~ Pushing(v, n)
    <3>1. CASE u = t
      BY <2>2, <3>1 DEF PopKept
    <3>2. CASE u # t
      BY <1>2, <2>2, <3>2 DEF OthersKept, PopInv
    <3> QED BY <3>1, <3>2
  <2> QED BY <1>1, <2>2, <2>3 DEF Pushing
<1>6. Chain'
  BY <1>1, ChainKept
<1>7. HeldInv(G)'
  BY <1>1, <1>2 DEF HeldInv, Covered
<1>8. Covered(G, d)'
  <2>1. G \subseteq Node
    BY <1>2 DEF Covered
  <2> QED BY <2>1, CoverKept
<1> QED BY <1>3, <1>4, <1>5, <1>6, <1>7, <1>8 DEF Pool, Moving

-----------------------------------------------------------------------------
(* The steps of the allocator.                                             *)

\* What the invariant of the pool says, with the types of a few words.
LEMMA PoolFacts ==
  ASSUME NEW H, NEW c, Pool(H, c)
  PROVE  /\ PoolTypes /\ Control /\ H \subseteq Node /\ c \in [Node -> Nat]
         /\ \A n \in H : c[n] >= 1
         /\ NULL \notin Node /\ Ptr = Node \cup {NULL}
         /\ NULL_D \in MarkablePointer(Ptr) /\ toPtr_m(freeList) \in Ptr
<1>1. /\ PoolTypes /\ Control /\ H \subseteq Node /\ c \in [Node -> Nat]
      /\ \A n \in H : c[n] >= 1
  BY DEF Pool, Covered
<1>2. NULL \notin Node /\ Ptr = Node \cup {NULL}
  BY DEF NULL, Node, Ptr
<1>3. NULL_D \in MarkablePointer(Ptr)
  BY <1>2 DEF MarkablePointer, toMarkable, NULL_D
<1>4. toPtr_m(freeList) \in Ptr
  BY <1>1 DEF PoolTypes, MarkablePointer, toPtr_m
<1> QED BY <1>1, <1>2, <1>3, <1>4

\* A step inside the allocator that changes neither the counts nor thread t's part in them.
LEMMA CountsKept ==
  ASSUME NEW H, NEW c, Pool(H, c), NEW t \in Thread, refCount' = refCount,
         \A n \in Node : Calling(t, n)' <=> Calling(t, n)
  PROVE  \A n \in Node :
           refCount'[n] >= refCount[n] + 2 * ((c[n] - c[n]) + (InCall(t, n)' - InCall(t, n)))
<1> SUFFICES ASSUME NEW n \in Node
             PROVE  refCount'[n] >= refCount[n] + 2 * ((c[n] - c[n]) + (InCall(t, n)' - InCall(t, n)))
  OBVIOUS
<1>1. InCall(t, n)' = InCall(t, n) /\ InCall(t, n) \in {0, 1}
  BY DEF InCall
<1>2. refCount[n] \in Nat /\ c[n] \in Nat
  BY PoolFacts DEF PoolTypes
<1> QED BY <1>1, <1>2

\* The loads of a call change nothing that is shared: of the head,
LEMMA ReadHeadStep ==
  ASSUME NEW H, NEW c, Pool(H, c), NEW t \in Thread, IsFiniteSet(Thread), ReadHead(t)
  PROVE  Pool(H, c)'
<1>0. PoolTypes /\ Control /\ c \in [Node -> Nat] /\ \A n \in H : c[n] >= 1
  BY PoolFacts
<1>a. PICK p : p = toPtr_m(freeList) /\ p \in Ptr
  BY PoolFacts
<1>b. \/ cpc' = [cpc EXCEPT ![t] = "outOfMemory"] /\ cnode' = cnode
      \/ /\ cpc' = [cpc EXCEPT ![t] = "retainHead"] /\ p \in Node
         /\ cnode' = [cnode EXCEPT ![t] = p]
  BY <1>a DEF ReadHead, Ptr
<1>1. PoolTypes'
  <2>1. cpc' \in [Thread -> CallPlace] /\ cnode' \in [Thread -> Ptr]
    BY <1>0, <1>a, <1>b DEF PoolTypes, CallPlace
  <2> QED BY <1>0, <2>1 DEF ReadHead, PoolTypes
<1>2. Control'
  <2>1. cpc[t] = "readHead" /\ claimed' = claimed /\ follow' = follow
    BY DEF ReadHead
  <2> QED BY <1>0, <1>b, <2>1 DEF PoolTypes, Control, Counted, Pushes
<1>3. OthersKept(t) /\ NodesKept(t)
  BY <1>0 DEF ReadHead, PoolTypes, OthersKept, NodesKept, isRetained, Pushing, Taking, Pushes
<1>4. LinksKept /\ PopKept(t)
  BY <1>0 DEF ReadHead, PoolTypes, LinksKept, PopKept
<1>5. refCount' = refCount /\ \A n \in Node : Calling(t, n)' <=> Calling(t, n)
  BY <1>0 DEF ReadHead, PoolTypes, Calling, Counted
<1> QED BY <1>0, <1>1, <1>2, <1>3, <1>4, <1>5, CountsKept, Kept

\* of the link of the node at the head, which is not pushed as long as it is retained,
LEMMA ReadNextStep ==
  ASSUME NEW H, NEW c, Pool(H, c), NEW t \in Thread, IsFiniteSet(Thread), ReadNext(t)
  PROVE  Pool(H, c)'
<1>0. PoolTypes /\ Control /\ c \in [Node -> Nat] /\ \A n \in H : c[n] >= 1
  BY PoolFacts
<1>1. PoolTypes'
  BY <1>0, PoolFacts DEF ReadNext, PoolTypes, CallPlace, Control, Counted
<1>2. Control'
  BY <1>0 DEF ReadNext, PoolTypes, Control, Counted, Pushes
<1>3. OthersKept(t) /\ NodesKept(t)
  BY <1>0 DEF ReadNext, PoolTypes, OthersKept, NodesKept, isRetained, Pushing, Taking, Pushes
<1>4. LinksKept /\ PopKept(t)
  BY <1>0 DEF ReadNext, PoolTypes, LinksKept, PopKept, Pool, Moving, PopInv
<1>5. refCount' = refCount /\ \A n \in Node : Calling(t, n)' <=> Calling(t, n)
  BY <1>0 DEF ReadNext, PoolTypes, Calling, Counted
<1> QED BY <1>0, <1>1, <1>2, <1>3, <1>4, <1>5, CountsKept, Kept

\* and of the head again by a push.
LEMMA ReadTopStep ==
  ASSUME NEW H, NEW c, Pool(H, c), NEW t \in Thread, IsFiniteSet(Thread), ReadTop(t)
  PROVE  Pool(H, c)'
<1>0. PoolTypes /\ Control /\ c \in [Node -> Nat] /\ \A n \in H : c[n] >= 1
  BY PoolFacts
<1>1. PoolTypes'
  BY <1>0, PoolFacts DEF ReadTop, PoolTypes, CallPlace, Pushes
<1>2. Control'
  BY <1>0 DEF ReadTop, PoolTypes, Control, Counted, Pushes
<1>3. OthersKept(t) /\ NodesKept(t)
  BY <1>0 DEF ReadTop, PoolTypes, OthersKept, NodesKept, isRetained, Pushing, Taking, Pushes
<1>4. LinksKept /\ PopKept(t)
  BY <1>0 DEF ReadTop, PoolTypes, LinksKept, PopKept
<1>5. refCount' = refCount /\ \A n \in Node : Calling(t, n)' <=> Calling(t, n)
  BY <1>0 DEF ReadTop, PoolTypes, Calling, Counted
<1> QED BY <1>0, <1>1, <1>2, <1>3, <1>4, <1>5, CountsKept, Kept

\* The node a thread pushes.
LEMMA TopNode ==
  ASSUME PoolTypes, Control, NEW t \in Thread, cpc[t] \in Pushes
  PROVE  Top(t) \in Node /\ claimed[t] = <<Top(t)>> /\ Pushing(t, Top(t))
<1>1. PICK n \in Node : claimed[t] = <<n>>
  BY DEF Control
<1>2. Top(t) = n
  BY <1>1 DEF Top
<1> QED BY <1>1, <1>2 DEF Pushing

\* A push writes the link of its own node only.
LEMMA WriteNextStep ==
  ASSUME NEW H, NEW c, Pool(H, c), NEW t \in Thread, IsFiniteSet(Thread), WriteNext(t)
  PROVE  Pool(H, c)'
<1>0. PoolTypes /\ Control /\ c \in [Node -> Nat] /\ \A n \in H : c[n] >= 1
  BY PoolFacts
<1>t. PICK m \in Node : m = Top(t) /\ Pushing(t, m)
  BY <1>0, TopNode DEF WriteNext, Pushes
<1>1. PoolTypes'
  BY <1>0, <1>t, PoolFacts DEF WriteNext, PoolTypes, CallPlace, Pushes
<1>2. Control'
  BY <1>0 DEF WriteNext, PoolTypes, Control, Counted, Pushes
<1>3. OthersKept(t) /\ NodesKept(t)
  BY <1>0 DEF WriteNext, PoolTypes, OthersKept, NodesKept, isRetained, Pushing, Taking, Pushes
<1>4. LinksKept /\ PopKept(t)
  BY <1>0, <1>t DEF WriteNext, PoolTypes, LinksKept, PopKept, InList
<1>5. refCount' = refCount /\ \A n \in Node : Calling(t, n)' <=> Calling(t, n)
  BY <1>0 DEF WriteNext, PoolTypes, Calling, Counted
<1> QED BY <1>0, <1>1, <1>2, <1>3, <1>4, <1>5, CountsKept, Kept

\* The link of a popped node is cleared.
LEMMA ClearNextStep ==
  ASSUME NEW H, NEW c, Pool(H, c), NEW t \in Thread, IsFiniteSet(Thread), ClearNext(t)
  PROVE  Pool(H, c)'
<1>0. PoolTypes /\ Control /\ c \in [Node -> Nat] /\ \A n \in H : c[n] >= 1
  BY PoolFacts
<1>t. PICK m \in Node : m = cnode[t] /\ Taking(t, m)
  BY <1>0 DEF ClearNext, Control, Counted, Taking
<1>1. PoolTypes'
  <2>1. toMarkable(NULL, FALSE) \in MarkablePointer(Ptr)
    BY DEF toMarkable, MarkablePointer, Ptr
  <2> QED BY <1>0, <1>t, <2>1 DEF ClearNext, PoolTypes, CallPlace, Counted
<1>2. Control'
  BY <1>0 DEF ClearNext, PoolTypes, Control, Counted, Pushes
<1>3. OthersKept(t) /\ NodesKept(t)
  BY <1>0 DEF ClearNext, PoolTypes, OthersKept, NodesKept, isRetained, Pushing, Taking, Pushes
<1>4. LinksKept /\ PopKept(t)
  BY <1>0, <1>t DEF ClearNext, PoolTypes, LinksKept, PopKept, InList
<1>5. refCount' = refCount /\ \A n \in Node : Calling(t, n)' <=> Calling(t, n)
  BY <1>0 DEF ClearNext, PoolTypes, Calling, Counted
<1> QED BY <1>0, <1>1, <1>2, <1>3, <1>4, <1>5, CountsKept, Kept

\* A step inside the allocator that changes one count and nothing else there.
LEMMA RetainHeadStep ==
  ASSUME NEW H, NEW c, Pool(H, c), NEW t \in Thread, IsFiniteSet(Thread), RetainHead(t)
  PROVE  Pool(H, c)'
<1>0. PoolTypes /\ Control /\ c \in [Node -> Nat] /\ \A n \in H : c[n] >= 1
  BY PoolFacts
<1>t. PICK m \in Node : m = cnode[t] /\ refCount[m] \in Nat
  BY <1>0 DEF RetainHead, PoolTypes, Control
<1>r. refCount' = [refCount EXCEPT ![m] = refCount[m] + 2]
  BY <1>t DEF RetainHead, Retained
<1>1. PoolTypes'
  <2>1. refCount' \in [Node -> Nat]
    BY <1>0, <1>t, <1>r DEF PoolTypes
  <2> QED BY <1>0, <2>1 DEF RetainHead, PoolTypes, CallPlace, Counted
<1>2. Control'
  BY <1>0 DEF RetainHead, PoolTypes, Control, Counted, Pushes
<1>3. OthersKept(t) /\ NodesKept(t)
  <2>1. \A n \in Node : isRetained(n)' <=> isRetained(n)
    <3>1. (refCount[m] + 2) % 2 = 0 <=> refCount[m] % 2 = 0
      BY <1>t
    <3> QED BY <1>0, <1>r, <3>1 DEF PoolTypes, isRetained
  <2> QED BY <1>0, <2>1 DEF RetainHead, PoolTypes, OthersKept, NodesKept, Pushing, Taking, Pushes
<1>4. LinksKept /\ PopKept(t)
  BY <1>0 DEF RetainHead, PoolTypes, LinksKept, PopKept
<1>5. \A n \in Node :
        refCount'[n] >= refCount[n] + 2 * ((c[n] - c[n]) + (InCall(t, n)' - InCall(t, n)))
  <2> SUFFICES ASSUME NEW n \in Node
               PROVE  refCount'[n] >= refCount[n] + 2 * ((c[n] - c[n]) + (InCall(t, n)' - InCall(t, n)))
    OBVIOUS
  <2>1. InCall(t, n) = 0 /\ InCall(t, n)' = IF n = m THEN 1 ELSE 0
    BY <1>0, <1>t DEF RetainHead, PoolTypes, InCall, Calling, Counted
  <2>2. refCount[n] \in Nat /\ c[n] \in Nat /\ refCount'[n] = refCount[n] + IF n = m THEN 2 ELSE 0
    BY <1>0, <1>t, <1>r DEF PoolTypes
  <2> QED BY <2>1, <2>2
<1> QED BY <1>0, <1>1, <1>2, <1>3, <1>4, <1>5, Kept

\* The second look at the head.
LEMMA RecheckHeadStep ==
  ASSUME NEW H, NEW c, Pool(H, c), NEW t \in Thread, IsFiniteSet(Thread), RecheckHead(t)
  PROVE  Pool(H, c)'
<1>0. PoolTypes /\ Control /\ c \in [Node -> Nat] /\ \A n \in H : c[n] >= 1
  BY PoolFacts
<1>t. PICK m \in Node : m = cnode[t]
  BY <1>0 DEF RecheckHead, PoolTypes, Control, Counted
<1>a. /\ cpc[t] = "recheckHead"
      /\ UNCHANGED <<freeList, refCount, next, cnode, cnext, claimed, follow>>
      /\ \/ /\ StillHead(t) /\ cpc' = [cpc EXCEPT ![t] = "readNext"] /\ UNCHANGED inAlloc
         \/ /\ ~ StillHead(t) /\ cpc' = [cpc EXCEPT ![t] = "decrement"]
            /\ inAlloc' = [inAlloc EXCEPT ![t] = TRUE]
  BY DEF RecheckHead, ReleaseInAlloc
<1>1. PoolTypes'
  BY <1>0, <1>a DEF PoolTypes, CallPlace, Counted
<1>2. Control'
  BY <1>0, <1>a DEF PoolTypes, Control, Counted, Pushes
<1>3. OthersKept(t) /\ NodesKept(t)
  BY <1>0, <1>a DEF PoolTypes, OthersKept, NodesKept, isRetained, Pushing, Taking, Pushes
<1>4. LinksKept /\ PopKept(t)
  <2>1. StillHead(t) => InList(m)
    <3>1. StillHead(t) => toPtr_m(freeList) = m /\ m # NULL
      BY <1>t, PoolFacts DEF StillHead, toMarkable, toPtr_m
    <3> QED BY <3>1 DEF Pool, Chain, HeadInv
  <2> QED BY <1>0, <1>a, <1>t, <2>1 DEF PoolTypes, LinksKept, PopKept, InList
<1>5. refCount' = refCount /\ \A n \in Node : Calling(t, n)' <=> Calling(t, n)
  BY <1>0, <1>a DEF PoolTypes, Calling, Counted
<1> QED BY <1>0, <1>1, <1>2, <1>3, <1>4, <1>5, CountsKept, Kept

\* A pop that has lost the race.
LEMMA PopFailsStep ==
  ASSUME NEW H, NEW c, Pool(H, c), NEW t \in Thread, IsFiniteSet(Thread),
         CasPop(t), ~ StillHead(t)
  PROVE  Pool(H, c)'
<1>0. PoolTypes /\ Control /\ c \in [Node -> Nat] /\ \A n \in H : c[n] >= 1
  BY PoolFacts
<1>a. /\ cpc[t] = "casPop" /\ cnext' = [cnext EXCEPT ![t] = NULL_D]
      /\ UNCHANGED <<freeList, refCount, next, cnode, claimed, follow>>
      /\ cpc' = [cpc EXCEPT ![t] = "decrement"]
      /\ inAlloc' = [inAlloc EXCEPT ![t] = TRUE]
  BY DEF CasPop, ReleaseInAlloc
<1>1. PoolTypes'
  BY <1>0, <1>a, PoolFacts DEF PoolTypes, CallPlace, Counted
<1>2. Control'
  BY <1>0, <1>a DEF PoolTypes, Control, Counted, Pushes
<1>3. OthersKept(t) /\ NodesKept(t)
  BY <1>0, <1>a DEF PoolTypes, OthersKept, NodesKept, isRetained, Pushing, Taking, Pushes
<1>4. LinksKept /\ PopKept(t)
  BY <1>0, <1>a DEF PoolTypes, LinksKept, PopKept
<1>5. refCount' = refCount /\ \A n \in Node : Calling(t, n)' <=> Calling(t, n)
  BY <1>0, <1>a DEF PoolTypes, Calling, Counted
<1> QED BY <1>0, <1>1, <1>2, <1>3, <1>4, <1>5, CountsKept, Kept

\* A push that has lost the race.
LEMMA PushFailsStep ==
  ASSUME NEW H, NEW c, Pool(H, c), NEW t \in Thread, IsFiniteSet(Thread),
         CasPush(t), ~ TopUnchanged(t)
  PROVE  Pool(H, c)'
<1>0. PoolTypes /\ Control /\ c \in [Node -> Nat] /\ \A n \in H : c[n] >= 1
  BY PoolFacts
<1>a. /\ cpc[t] = "casPush" /\ cpc' = [cpc EXCEPT ![t] = "readTop"]
      /\ UNCHANGED <<freeList, refCount, next, cnode, cnext, claimed, inAlloc, follow>>
  BY DEF CasPush
<1>1. PoolTypes'
  BY <1>0, <1>a DEF PoolTypes, CallPlace, Pushes
<1>2. Control'
  BY <1>0, <1>a DEF PoolTypes, Control, Counted, Pushes
<1>3. OthersKept(t) /\ NodesKept(t)
  BY <1>0, <1>a DEF PoolTypes, OthersKept, NodesKept, isRetained, Pushing, Taking, Pushes
<1>4. LinksKept /\ PopKept(t)
  BY <1>0, <1>a DEF PoolTypes, LinksKept, PopKept
<1>5. refCount' = refCount /\ \A n \in Node : Calling(t, n)' <=> Calling(t, n)
  BY <1>0, <1>a DEF PoolTypes, Calling, Counted
<1> QED BY <1>0, <1>1, <1>2, <1>3, <1>4, <1>5, CountsKept, Kept

\* A release that does not drop the last reference.
LEMMA DropStep ==
  ASSUME NEW H, NEW c, Pool(H, c), NEW t \in Thread, IsFiniteSet(Thread),
         Decrement(t), refCount[cnode[t]] # 2
  PROVE  Pool(H, c)'
<1>0. PoolTypes /\ Control /\ c \in [Node -> Nat] /\ \A n \in H : c[n] >= 1
  BY PoolFacts
<1>t. PICK m \in Node : m = cnode[t]
  BY <1>0 DEF Decrement, PoolTypes, Control, Counted
<1>b. Calling(t, m) /\ refCount[m] \in Nat /\ refCount[m] >= 2 /\ refCount[m] # 2
  <2>1. Calling(t, m)
    BY <1>t DEF Decrement, Calling, Counted
  <2> QED BY <1>t, <2>1, CallCounted
<1>c. Decremented(refCount[m]) = refCount[m] - 2 /\ (refCount[m] - (refCount[m] - 2)) % 2 = 0
  BY <1>b DEF Decremented
<1>a. /\ cpc[t] = "decrement" /\ claimed[t] = <<>>
      /\ UNCHANGED <<freeList, next, claimed, cnext>>
      /\ refCount' = [refCount EXCEPT ![m] = refCount[m] - 2]
      /\ cpc' = [cpc EXCEPT ![t] = IF inAlloc[t] THEN "readHead" ELSE "idle"]
      /\ cnode' = [cnode EXCEPT ![t] = NULL]
      /\ inAlloc' = [inAlloc EXCEPT ![t] = FALSE]
      /\ follow' = [follow EXCEPT ![t] = FALSE]
  <2>1. cpc[t] = "decrement" /\ claimed[t] = <<>>
    BY <1>0 DEF Decrement, Control, Pushes
  <2> QED BY <1>t, <1>c, <2>1 DEF Decrement, Unwind, Return
<1>1. PoolTypes'
  <2>1. refCount' \in [Node -> Nat]
    BY <1>0, <1>a, <1>b DEF PoolTypes
  <2>2. cpc' \in [Thread -> CallPlace] /\ cnode' \in [Thread -> Ptr]
    BY <1>0, <1>a, PoolFacts DEF PoolTypes, CallPlace
  <2> QED BY <1>0, <1>a, <2>1, <2>2 DEF PoolTypes
<1>2. Control'
  BY <1>0, <1>a DEF PoolTypes, Control, Counted, Pushes
<1>3. OthersKept(t) /\ NodesKept(t)
  <2>1. \A n \in Node : isRetained(n)' <=> isRetained(n)
    <3>1. (refCount[m] - 2) % 2 = 0 <=> refCount[m] % 2 = 0
      BY <1>b
    <3> QED BY <1>0, <1>a, <3>1 DEF PoolTypes, isRetained
  <2> QED BY <1>0, <1>a, <2>1 DEF PoolTypes, OthersKept, NodesKept, Pushing, Taking, Pushes
<1>4. LinksKept /\ PopKept(t)
  BY <1>0, <1>a DEF PoolTypes, LinksKept, PopKept
<1>5. \A n \in Node :
        refCount'[n] >= refCount[n] + 2 * ((c[n] - c[n]) + (InCall(t, n)' - InCall(t, n)))
  <2> SUFFICES ASSUME NEW n \in Node
               PROVE  refCount'[n] >= refCount[n] + 2 * ((c[n] - c[n]) + (InCall(t, n)' - InCall(t, n)))
    OBVIOUS
  <2>1. InCall(t, n)' = 0 /\ InCall(t, n) = IF n = m THEN 1 ELSE 0
    BY <1>0, <1>a, <1>t, PoolFacts DEF PoolTypes, InCall, Calling, Counted
  <2>2. refCount[n] \in Nat /\ c[n] \in Nat /\ refCount'[n] = refCount[n] - IF n = m THEN 2 ELSE 0
    BY <1>0, <1>a DEF PoolTypes
  <2> QED BY <2>1, <2>2
<1> QED BY <1>0, <1>1, <1>2, <1>3, <1>4, <1>5, Kept
\* A pop hands the first free node to the thread.
LEMMA PopStep ==
  ASSUME NEW H, NEW c, Pool(H, c), NEW t \in Thread, IsFiniteSet(Thread),
         CasPop(t), StillHead(t)
  PROVE  Pool(H, c)'
<1>0. /\ PoolTypes /\ Control /\ c \in [Node -> Nat] /\ \A n \in H : c[n] >= 1
      /\ H \subseteq Node /\ PushInv /\ TakeInv /\ PopInv /\ HeadInv /\ ChainInv /\ LoadInv
      /\ HeldInv(H)
  BY PoolFacts DEF Pool, Moving, Chain
<1>t. PICK m \in Node : m = cnode[t]
  BY <1>0 DEF CasPop, PoolTypes, Control, Counted
<1>m. freeList = toMarkable(m, FALSE) /\ InList(m) /\ cnext[t] = next[m]
  <2>1. freeList = toMarkable(m, FALSE)
    BY <1>t DEF StillHead
  <2>2. InList(m)
    BY <1>0, <1>t, <2>1, PoolFacts DEF HeadInv, toMarkable, toPtr_m
  <2> QED BY <1>0, <1>t, <2>1, <2>2 DEF LoadInv, CasPop
<1>a. /\ cpc[t] = "casPop" /\ cpc' = [cpc EXCEPT ![t] = "clearClaim"]
      /\ cnext' = [cnext EXCEPT ![t] = NULL_D] /\ freeList' = next[m]
      /\ UNCHANGED <<refCount, next, cnode, claimed, inAlloc, follow>>
  BY <1>m DEF CasPop
<1>1. PoolTypes'
  <2>1. next[m] \in MarkablePointer(Ptr)
    BY <1>0 DEF PoolTypes
  <2> QED BY <1>0, <1>a, <2>1, PoolFacts DEF PoolTypes, CallPlace, Counted
<1>2. Control'
  BY <1>0, <1>a DEF PoolTypes, Control, Counted, Pushes
<1>3. /\ \A n \in Node : isRetained(n)' <=> isRetained(n)
      /\ \A u \in Thread, n \in Node : Pushing(u, n)' <=> Pushing(u, n)
      /\ \A u \in Thread, n \in Node : Taking(u, n)' <=> Taking(u, n) \/ (u = t /\ n = m)
  <2>1. \A n \in Node : isRetained(n)' <=> isRetained(n)
    BY <1>a DEF isRetained
  <2>2. \A u \in Thread, n \in Node : Pushing(u, n)' <=> Pushing(u, n)
    BY <1>0, <1>a DEF PoolTypes, Pushing, Pushes
  <2>3. \A u \in Thread, n \in Node : Taking(u, n)' <=> Taking(u, n) \/ (u = t /\ n = m)
    BY <1>0, <1>a, <1>t DEF PoolTypes, Taking
  <2> QED BY <2>1, <2>2, <2>3
<1>4. \A n \in Node : InList(n)' <=> InList(n) /\ n # m
  BY <1>3 DEF InList
<1>5. PushInv'
  BY <1>0, <1>3, <1>m DEF PushInv, InList
<1>6. TakeInv'
  <2> SUFFICES ASSUME NEW u \in Thread, NEW n \in Node, Taking(u, n)'
               PROVE  /\ isRetained(n)' <=> cpc'[u] # "clearClaim"
                      /\ \A v \in Thread : Taking(v, n)' => v = u
    BY DEF TakeInv
  <2>1. CASE n = m
    <3>1. u = t /\ ~ isRetained(m) /\ \A v \in Thread : Taking(v, m)' => v = t
      BY <1>3, <1>m, <2>1 DEF InList
    <3> QED BY <1>0, <1>3, <1>a, <2>1, <3>1 DEF PoolTypes
  <2>2. CASE n # m
    <3>1. Taking(u, n) /\ u # t
      BY <1>3, <1>a, <2>2 DEF Taking
    <3>2. cpc'[u] = cpc[u]
      BY <1>0, <1>a, <3>1 DEF PoolTypes
    <3> QED BY <1>0, <1>3, <2>2, <3>1, <3>2 DEF TakeInv
  <2> QED BY <2>1, <2>2
<1>7. PopInv'
  BY <1>0, <1>a DEF PopInv, Pushing, PoolTypes, Pushes
<1>8. HeadInv'
  <2>1. PICK w : w = next[m] /\ w \in MarkablePointer(Ptr)
    BY <1>0 DEF PoolTypes
  <2>2. ~ isMarked_m(w) /\ (toPtr_m(w) # NULL => InList(toPtr_m(w)) /\ w # freeList)
    BY <1>0, <1>m, <2>1 DEF ChainInv
  <2>3. toPtr_m(w) # NULL => toPtr_m(w) # m /\ toPtr_m(w) \in Node
    BY <1>m, <2>1, <2>2 DEF toPtr_m, toMarkable, isMarked_m, MarkablePointer, Ptr
  <2>4. PICK p : p = toPtr_m(w)
    OBVIOUS
  <2>5. p # NULL => InList(p)'
    BY <1>4, <2>2, <2>3, <2>4
  <2>6. toPtr_m(freeList)' = p /\ isMarked_m(freeList)' = isMarked_m(w)
    BY <1>a, <2>1, <2>4 DEF toPtr_m, isMarked_m
  <2> QED BY <2>2, <2>5, <2>6 DEF HeadInv, InList, isRetained, Pushing, Taking
<1>9. ChainInv'
  <2> SUFFICES ASSUME NEW n \in Node, InList(n)'
               PROVE  /\ ~ isMarked_m(next[n])'
                      /\ toPtr_m(next[n])' # NULL =>
                           /\ InList(toPtr_m(next[n]))'
                           /\ next'[n] # freeList'
                           /\ \A k \in Node : InList(k)' /\ next'[k] = next'[n] => k = n
    BY DEF ChainInv
  <2>1. InList(n) /\ n # m
    BY <1>4
  <2>2. PICK w : w = next[n] /\ w \in MarkablePointer(Ptr)
    BY <1>0 DEF PoolTypes
  <2>3. /\ ~ isMarked_m(w)
        /\ toPtr_m(w) # NULL =>
             /\ InList(toPtr_m(w)) /\ w # freeList
             /\ \A k \in Node : InList(k) /\ next[k] = w => k = n
    BY <1>0, <2>1, <2>2 DEF ChainInv
  <2>4. toPtr_m(w) # NULL => toPtr_m(w) # m /\ toPtr_m(w) \in Node
    BY <1>m, <2>2, <2>3 DEF toPtr_m, toMarkable, isMarked_m, MarkablePointer, Ptr
  <2>5. PICK p : p = toPtr_m(w)
    OBVIOUS
  <2>6. p # NULL => InList(p)'
    BY <1>4, <2>3, <2>4, <2>5
  <2>7. toPtr_m(next[n])' = p /\ isMarked_m(next[n])' = isMarked_m(w)
    BY <1>a, <2>2, <2>5 DEF toPtr_m, isMarked_m
  <2>8. toPtr_m(next[n])' # NULL => InList(toPtr_m(next[n]))'
    BY <2>6, <2>7 DEF InList, isRetained, Pushing, Taking
  <2>9. p # NULL => next[m] # w
    BY <1>m, <2>1, <2>3, <2>5
  <2> QED BY <1>4, <1>a, <2>2, <2>3, <2>5, <2>7, <2>8, <2>9
<1>10. LoadInv'
  <2> SUFFICES ASSUME NEW u \in Thread, cpc'[u] = "casPop", InList(cnode[u])'
               PROVE  cnext'[u] = next'[cnode'[u]]
    BY DEF LoadInv
  <2>1. u # t /\ cpc[u] = "casPop" /\ cnext'[u] = cnext[u] /\ cnode'[u] = cnode[u]
    BY <1>0, <1>a DEF PoolTypes
  <2>2. PICK n \in Node : n = cnode[u]
    BY <1>0, <2>1 DEF Control, Counted
  <2>3. InList(n)'
    BY <2>1, <2>2 DEF InList, isRetained, Pushing, Taking
  <2> QED BY <1>0, <1>4, <1>a, <2>1, <2>2, <2>3 DEF LoadInv
<1>11. HeldInv(H)'
  BY <1>0, <1>3, <1>m DEF HeldInv, InList
<1>12. OthersKept(t)
  BY <1>0, <1>a DEF PoolTypes, OthersKept
<1>13. refCount' = refCount /\ \A n \in Node : Calling(t, n)' <=> Calling(t, n)
  BY <1>0, <1>a DEF PoolTypes, Calling, Counted
<1>14. Covered(H, c)'
  BY <1>0, <1>1, <1>12, <1>13, CountsKept, CoverKept
<1> QED BY <1>1, <1>2, <1>5, <1>6, <1>7, <1>8, <1>9, <1>10, <1>11, <1>14 DEF Pool, Moving, Chain

\* A push makes the node the first free one.
LEMMA PushStep ==
  ASSUME NEW H, NEW c, Pool(H, c), NEW t \in Thread, IsFiniteSet(Thread),
         CasPush(t), TopUnchanged(t)
  PROVE  Pool(H, c)'
<1>0. /\ PoolTypes /\ Control /\ c \in [Node -> Nat] /\ \A n \in H : c[n] >= 1
      /\ H \subseteq Node /\ PushInv /\ TakeInv /\ PopInv /\ HeadInv /\ ChainInv /\ LoadInv
      /\ HeldInv(H)
  BY PoolFacts DEF Pool, Moving, Chain
<1>t. PICK m \in Node : m = Top(t) /\ claimed[t] = <<m>> /\ Pushing(t, m)
  BY <1>0, TopNode DEF CasPush, Pushes
<1>m. /\ ~ isRetained(m)
      /\ \A u \in Thread : ~ Taking(u, m) /\ (Pushing(u, m) => u = t)
  BY <1>0, <1>t DEF PushInv
<1>p. Popped(t) = <<>>
  BY <1>t DEF Popped
<1>a. /\ cpc[t] = "casPush" /\ freeList = next[m] /\ freeList' = toMarkable(m, FALSE)
      /\ claimed' = [claimed EXCEPT ![t] = <<>>]
      /\ cpc' = [cpc EXCEPT ![t] = IF inAlloc[t] THEN "readHead" ELSE "idle"]
      /\ cnode' = [cnode EXCEPT ![t] = NULL]
      /\ inAlloc' = [inAlloc EXCEPT ![t] = FALSE]
      /\ follow' = [follow EXCEPT ![t] = FALSE]
      /\ UNCHANGED <<refCount, next, cnext>>
  BY <1>t, <1>p DEF CasPush, TopUnchanged, Unwind, Return
<1>1. PoolTypes'
  <2>1. freeList' \in MarkablePointer(Ptr)
    BY <1>a DEF toMarkable, MarkablePointer, Ptr
  <2>2. claimed' \in [Thread -> Seq(Node)]
    BY <1>0, <1>a DEF PoolTypes
  <2>3. cpc' \in [Thread -> CallPlace] /\ cnode' \in [Thread -> Ptr]
    BY <1>0, <1>a, PoolFacts DEF PoolTypes, CallPlace
  <2> QED BY <1>0, <1>a, <2>1, <2>2, <2>3 DEF PoolTypes
<1>2. Control'
  BY <1>0, <1>a DEF PoolTypes, Control, Counted, Pushes
<1>3. /\ \A n \in Node : isRetained(n)' <=> isRetained(n)
      /\ \A u \in Thread, n \in Node : Pushing(u, n)' <=> Pushing(u, n) /\ u # t
      /\ \A u \in Thread, n \in Node : Taking(u, n)' <=> Taking(u, n)
  <2>1. \A n \in Node : isRetained(n)' <=> isRetained(n)
    BY <1>a DEF isRetained
  <2>2. \A u \in Thread, n \in Node : Pushing(u, n)' <=> Pushing(u, n) /\ u # t
    BY <1>0, <1>a DEF PoolTypes, Pushing, Pushes
  <2>3. \A u \in Thread, n \in Node : Taking(u, n)' <=> Taking(u, n)
    BY <1>0, <1>a DEF PoolTypes, Taking
  <2> QED BY <2>1, <2>2, <2>3
<1>4. \A n \in Node : InList(n)' <=> InList(n) \/ n = m
  <2>1. \A n \in Node : Pushing(t, n) => n = m
    BY <1>t DEF Pushing
  <2> QED BY <1>3, <1>m, <2>1 DEF InList
<1>n. ~ InList(m)
  BY <1>t DEF InList
<1>5. PushInv'
  BY <1>0, <1>3 DEF PushInv
<1>6. TakeInv'
  <2>1. \A u \in Thread : cpc'[u] = "clearClaim" <=> cpc[u] = "clearClaim"
    BY <1>0, <1>a DEF PoolTypes
  <2> QED BY <1>0, <1>3, <2>1 DEF TakeInv
<1>7. PopInv'
  <2> SUFFICES ASSUME NEW u \in Thread, cpc'[u] \in {"readNext", "casPop"}, NEW v \in Thread
               PROVE  ~ Pushing(v, cnode[u])'
    BY DEF PopInv, Pushing
  <2>1. u # t /\ cpc'[u] = cpc[u] /\ cnode'[u] = cnode[u]
    BY <1>0, <1>a DEF PoolTypes
  <2>2. PICK n \in Node : n = cnode[u]
    BY <1>0, <2>1 DEF Control, Counted
  <2>3. ~ Pushing(v, n)'
    BY <1>0, <1>3, <2>1, <2>2 DEF PopInv
  <2> QED BY <2>1, <2>2, <2>3 DEF Pushing
<1>8. HeadInv'
  <2>1. InList(m)' /\ toPtr_m(freeList)' = m /\ ~ isMarked_m(freeList)'
    BY <1>4, <1>a DEF toMarkable, toPtr_m, isMarked_m
  <2> QED BY <2>1 DEF HeadInv, InList, isRetained, Pushing, Taking
<1>9. ChainInv'
  <2> SUFFICES ASSUME NEW n \in Node, InList(n)'
               PROVE  /\ ~ isMarked_m(next[n])'
                      /\ toPtr_m(next[n])' # NULL =>
                           /\ InList(toPtr_m(next[n]))'
                           /\ next'[n] # freeList'
                           /\ \A k \in Node : InList(k)' /\ next'[k] = next'[n] => k = n
    BY DEF ChainInv
  <2>2. PICK w : w = next[n] /\ w \in MarkablePointer(Ptr)
    BY <1>0 DEF PoolTypes
  <2>3. ~ isMarked_m(w) /\ (toPtr_m(w) # NULL => InList(toPtr_m(w)))
    <3>1. CASE n = m
      BY <1>0, <1>a, <2>2, <3>1 DEF HeadInv
    <3>2. CASE n # m
      BY <1>0, <1>4, <2>2, <3>2 DEF ChainInv
    <3> QED BY <3>1, <3>2
  <2>4. toPtr_m(w) # NULL => \A k \in Node : InList(k)' /\ next[k] = w => k = n
    <3>1. \A k \in Node : InList(k) => next[k] # freeList \/ toPtr_m(next[k]) = NULL
      BY <1>0 DEF ChainInv
    <3>2. CASE n = m
      BY <1>4, <1>a, <2>2, <3>1, <3>2
    <3>3. CASE n # m
      BY <1>0, <1>4, <1>a, <2>2, <3>1, <3>3 DEF ChainInv
    <3> QED BY <3>2, <3>3
  <2>5. toPtr_m(w) # NULL => toPtr_m(w) # m /\ toPtr_m(w) \in Node
    BY <1>n, <2>2, <2>3 DEF toPtr_m, MarkablePointer, Ptr
  <2>6. toPtr_m(w) # NULL => w # freeList'
    BY <1>a, <2>5 DEF toPtr_m, toMarkable
  <2>7. PICK p : p = toPtr_m(w)
    OBVIOUS
  <2>8. p # NULL => InList(p)'
    BY <1>4, <2>3, <2>5, <2>7
  <2>9. toPtr_m(next[n])' = p /\ isMarked_m(next[n])' = isMarked_m(w)
    BY <1>a, <2>2, <2>7 DEF toPtr_m, isMarked_m
  <2>10. toPtr_m(next[n])' # NULL => InList(toPtr_m(next[n]))'
    BY <2>8, <2>9 DEF InList, isRetained, Pushing, Taking
  <2> QED BY <1>a, <2>2, <2>3, <2>4, <2>6, <2>7, <2>9, <2>10
<1>10. LoadInv'
  <2> SUFFICES ASSUME NEW u \in Thread, cpc'[u] = "casPop", InList(cnode[u])'
               PROVE  cnext'[u] = next'[cnode'[u]]
    BY DEF LoadInv
  <2>1. u # t /\ cpc[u] = "casPop" /\ cnext'[u] = cnext[u] /\ cnode'[u] = cnode[u]
    BY <1>0, <1>a DEF PoolTypes
  <2>2. PICK n \in Node : n = cnode[u]
    BY <1>0, <2>1 DEF Control, Counted
  <2>3. InList(n)' /\ n # m
    <3>1. InList(n)'
      BY <2>1, <2>2 DEF InList, isRetained, Pushing, Taking
    <3> QED BY <1>0, <1>t, <2>1, <2>2, <3>1 DEF PopInv
  <2> QED BY <1>0, <1>4, <1>a, <2>1, <2>2, <2>3 DEF LoadInv
<1>11. HeldInv(H)'
  BY <1>0, <1>3 DEF HeldInv
<1>12. OthersKept(t)
  BY <1>0, <1>a DEF PoolTypes, OthersKept
<1>13. refCount' = refCount /\ \A n \in Node : Calling(t, n)' <=> Calling(t, n)
  BY <1>0, <1>a DEF PoolTypes, Calling, Counted
<1>14. Covered(H, c)'
  BY <1>0, <1>1, <1>12, <1>13, CountsKept, CoverKept
<1> QED BY <1>1, <1>2, <1>5, <1>6, <1>7, <1>8, <1>9, <1>10, <1>11, <1>14 DEF Pool, Moving, Chain

\* A popped node loses its claim bit.
LEMMA ClearClaimStep ==
  ASSUME NEW H, NEW c, Pool(H, c), NEW t \in Thread, IsFiniteSet(Thread), ClearClaim(t)
  PROVE  Pool(H, c)'
<1>0. /\ PoolTypes /\ Control /\ c \in [Node -> Nat] /\ \A n \in H : c[n] >= 1
      /\ H \subseteq Node /\ PushInv /\ TakeInv /\ PopInv /\ HeadInv /\ ChainInv /\ LoadInv
      /\ HeldInv(H)
  BY PoolFacts DEF Pool, Moving, Chain
<1>t. PICK m \in Node : m = cnode[t] /\ Taking(t, m) /\ Calling(t, m)
  BY <1>0 DEF ClearClaim, Control, Counted, Taking, Calling
<1>m. /\ ~ isRetained(m)
      /\ \A u \in Thread : ~ Pushing(u, m) /\ (Taking(u, m) => u = t)
  BY <1>0, <1>t DEF TakeInv, PushInv, ClearClaim
<1>r. refCount[m] \in Nat /\ refCount[m] >= 2 /\ refCount[m] % 2 = 1
  <2>1. refCount[m] \in Nat /\ refCount[m] >= 2
    BY <1>t, CallCounted
  <2> QED BY <1>m, <2>1 DEF isRetained
<1>a. /\ cpc[t] = "clearClaim" /\ cpc' = [cpc EXCEPT ![t] = "clearNext"]
      /\ refCount' = [refCount EXCEPT ![m] = refCount[m] - 1]
      /\ UNCHANGED <<freeList, next, cnode, cnext, claimed, inAlloc, follow>>
  BY <1>t DEF ClearClaim, Unclaimed
<1>1. PoolTypes'
  <2>1. refCount' \in [Node -> Nat]
    BY <1>0, <1>a, <1>r DEF PoolTypes
  <2> QED BY <1>0, <1>a, <2>1 DEF PoolTypes, CallPlace, Counted
<1>2. Control'
  BY <1>0, <1>a DEF PoolTypes, Control, Counted, Pushes
<1>3. /\ \A n \in Node : isRetained(n)' <=> isRetained(n) \/ n = m
      /\ \A u \in Thread, n \in Node : Pushing(u, n)' <=> Pushing(u, n)
      /\ \A u \in Thread, n \in Node : Taking(u, n)' <=> Taking(u, n)
  <2>1. \A n \in Node : isRetained(n)' <=> isRetained(n) \/ n = m
    <3>1. (refCount[m] - 1) % 2 = 0
      BY <1>r
    <3> QED BY <1>0, <1>a, <3>1 DEF PoolTypes, isRetained
  <2>2. \A u \in Thread, n \in Node : Pushing(u, n)' <=> Pushing(u, n)
    BY <1>0, <1>a DEF PoolTypes, Pushing, Pushes
  <2>3. \A u \in Thread, n \in Node : Taking(u, n)' <=> Taking(u, n)
    BY <1>0, <1>a DEF PoolTypes, Taking
  <2> QED BY <2>1, <2>2, <2>3
<1>4. \A n \in Node : InList(n)' <=> InList(n)
  BY <1>3, <1>t DEF InList
<1>5. PushInv'
  BY <1>0, <1>3, <1>m DEF PushInv
<1>6. TakeInv'
  <2> SUFFICES ASSUME NEW u \in Thread, NEW n \in Node, Taking(u, n)'
               PROVE  /\ isRetained(n)' <=> cpc'[u] # "clearClaim"
                      /\ \A v \in Thread : Taking(v, n)' => v = u
    BY DEF TakeInv
  <2>1. CASE u = t
    <3>1. n = m
      BY <1>3, <1>t, <2>1 DEF Taking
    <3> QED BY <1>0, <1>3, <1>a, <1>m, <2>1, <3>1 DEF PoolTypes
  <2>2. CASE u # t
    <3>1. n # m /\ cpc'[u] = cpc[u]
      BY <1>0, <1>3, <1>a, <1>m, <2>2 DEF PoolTypes
    <3> QED BY <1>0, <1>3, <2>2, <3>1 DEF TakeInv
  <2> QED BY <2>1, <2>2
<1>7. PopInv'
  BY <1>0, <1>a DEF PopInv, Pushing, PoolTypes, Pushes
<1>8. LinksKept /\ PopKept(t) /\ OthersKept(t)
  BY <1>0, <1>a DEF PoolTypes, LinksKept, PopKept, OthersKept
<1>9. Chain'
  BY <1>1, <1>2, <1>4, <1>8, ChainKept
<1>10. HeldInv(H)'
  BY <1>0, <1>3 DEF HeldInv
<1>11. Covered(H, c)'
  <2>1. \A n \in Node : CallRefs(n)' = CallRefs(n)
    BY <1>0, <1>a DEF PoolTypes, CallRefs, Calling, Counted
  <2>2. \A n \in Node : refCount'[n] >= 2 * (c[n] + Cardinality(CallRefs(n))')
    <3> SUFFICES ASSUME NEW n \in Node
                 PROVE  refCount'[n] >= 2 * (c[n] + Cardinality(CallRefs(n))')
      OBVIOUS
    <3>1. PICK k, h, r : k = Cardinality(CallRefs(n)) /\ h = c[n] /\ r = refCount[n]
      OBVIOUS
    <3>2. k \in Nat /\ h \in Nat /\ r \in Nat /\ r >= 2 * (h + k)
      <4>1. IsFiniteSet(CallRefs(n))
        BY FS_Subset DEF CallRefs
      <4> QED BY <1>0, <3>1, <4>1, FS_CardinalityType DEF PoolTypes, Pool, Covered
    <3>3. Cardinality(CallRefs(n))' = k
      BY <2>1, <3>1
    <3>4. CASE n = m
      <4>1. r % 2 = 1 /\ refCount'[n] = r - 1
        BY <1>0, <1>a, <1>r, <3>1, <3>4 DEF PoolTypes
      <4>2. r - 1 >= 2 * (h + k)
        BY <3>2, <4>1
      <4> QED BY <3>1, <3>3, <4>1, <4>2
    <3>5. CASE n # m
      <4>1. refCount'[n] = r
        BY <1>0, <1>a, <3>1, <3>5 DEF PoolTypes
      <4> QED BY <3>1, <3>2, <3>3, <4>1
    <3> QED BY <3>4, <3>5
  <2> QED BY <1>0, <2>2 DEF Covered
<1> QED BY <1>1, <1>2, <1>5, <1>6, <1>7, <1>9, <1>10, <1>11 DEF Pool, Moving

\* A release that drops the last reference claims the node.
LEMMA ClaimStep ==
  ASSUME NEW H, NEW c, Pool(H, c), NEW t \in Thread, IsFiniteSet(Thread),
         Decrement(t), refCount[cnode[t]] = 2
  PROVE  Pool(H, c)'
<1>0. /\ PoolTypes /\ Control /\ c \in [Node -> Nat] /\ \A n \in H : c[n] >= 1
      /\ H \subseteq Node /\ PushInv /\ TakeInv /\ PopInv /\ HeadInv /\ ChainInv /\ LoadInv
      /\ HeldInv(H)
  BY PoolFacts DEF Pool, Moving, Chain
<1>t. PICK m \in Node : m = cnode[t]
  BY <1>0 DEF Decrement, PoolTypes, Control, Counted
<1>b. Calling(t, m) /\ refCount[m] = 2 /\ isRetained(m)
  BY <1>t DEF Decrement, Calling, Counted, isRetained
<1>c. m \notin H /\ \A u \in Thread : Calling(u, m) => u = t
  BY <1>b, CallCounted
<1>d. Decremented(refCount[m]) = 1 /\ (refCount[m] - 1) % 2 = 1
  BY <1>b DEF Decremented
<1>a. /\ cpc[t] = "decrement" /\ claimed[t] = <<>>
      /\ UNCHANGED <<freeList, next, cnext, inAlloc, follow>>
      /\ refCount' = [refCount EXCEPT ![m] = 1]
      /\ claimed' = [claimed EXCEPT ![t] = <<m>>]
      /\ cnode' = [cnode EXCEPT ![t] = NULL]
      /\ cpc' = [cpc EXCEPT ![t] = "readTop"]
  <2>1. cpc[t] = "decrement" /\ claimed[t] = <<>> /\ ~ follow[t]
    BY <1>0 DEF Decrement, Control, Pushes
  <2>2. Append(claimed[t], m) = <<m>>
    BY <2>1
  <2> QED BY <1>t, <1>d, <2>1, <2>2 DEF Decrement
<1>1. PoolTypes'
  <2>1. refCount' \in [Node -> Nat]
    BY <1>0, <1>a DEF PoolTypes
  <2>2. <<m>> \in Seq(Node)
    OBVIOUS
  <2> QED BY <1>0, <1>a, <2>1, <2>2, PoolFacts DEF PoolTypes, CallPlace, Pushes
<1>2. Control'
  BY <1>0, <1>a DEF PoolTypes, Control, Counted, Pushes
<1>3. /\ \A n \in Node : isRetained(n)' <=> isRetained(n) /\ n # m
      /\ \A u \in Thread, n \in Node : Pushing(u, n)' <=> Pushing(u, n) \/ (u = t /\ n = m)
      /\ \A u \in Thread, n \in Node : Taking(u, n)' <=> Taking(u, n)
  <2>1. \A n \in Node : isRetained(n)' <=> isRetained(n) /\ n # m
    BY <1>0, <1>a DEF PoolTypes, isRetained
  <2>2. \A u \in Thread, n \in Node : Pushing(u, n)' <=> Pushing(u, n) \/ (u = t /\ n = m)
    <3>1. \A n \in Node : Pushing(t, n)' <=> n = m
      BY <1>0, <1>a DEF PoolTypes, Pushing, Pushes
    <3>2. \A n \in Node : ~ Pushing(t, n)
      BY <1>a DEF Pushing, Pushes
    <3>3. \A u \in Thread \ {t}, n \in Node : Pushing(u, n)' <=> Pushing(u, n)
      BY <1>0, <1>a DEF PoolTypes, Pushing, Pushes
    <3> QED BY <3>1, <3>2, <3>3
  <2>3. \A u \in Thread, n \in Node : Taking(u, n)' <=> Taking(u, n)
    BY <1>0, <1>a DEF PoolTypes, Taking
  <2> QED BY <2>1, <2>2, <2>3
<1>e. \A u \in Thread : ~ Pushing(u, m) /\ ~ Taking(u, m)
  <2>1. \A u \in Thread : ~ Pushing(u, m)
    BY <1>0, <1>b DEF PushInv
  <2>2. \A u \in Thread : Taking(u, m) => Calling(u, m) /\ u # t
    BY <1>a DEF Taking, Calling, Counted
  <2> QED BY <1>c, <2>1, <2>2
<1>4. \A n \in Node : InList(n)' <=> InList(n)
  BY <1>3, <1>b DEF InList
<1>5. PushInv'
  BY <1>0, <1>3, <1>e DEF PushInv
<1>6. TakeInv'
  <2>1. \A u \in Thread, n \in Node :
          Taking(u, n) => n # m /\ (cpc'[u] = "clearClaim" <=> cpc[u] = "clearClaim")
    BY <1>0, <1>a, <1>e DEF PoolTypes
  <2> QED BY <1>0, <1>3, <2>1 DEF TakeInv
<1>7. PopInv'
  <2> SUFFICES ASSUME NEW u \in Thread, cpc'[u] \in {"readNext", "casPop"}, NEW v \in Thread
               PROVE  ~ Pushing(v, cnode[u])'
    BY DEF PopInv, Pushing
  <2>1. u # t /\ cpc'[u] = cpc[u] /\ cnode'[u] = cnode[u]
    BY <1>0, <1>a DEF PoolTypes
  <2>2. PICK n \in Node : n = cnode[u]
    BY <1>0, <2>1 DEF Control, Counted
  <2>3. n # m
    BY <1>c, <2>1, <2>2 DEF Calling, Counted
  <2>4. ~ Pushing(v, n)'
    BY <1>0, <1>3, <2>1, <2>2, <2>3 DEF PopInv
  <2> QED BY <2>1, <2>2, <2>4 DEF Pushing
<1>8. LinksKept /\ PopKept(t) /\ OthersKept(t)
  BY <1>0, <1>a DEF PoolTypes, LinksKept, PopKept, OthersKept
<1>9. Chain'
  BY <1>1, <1>2, <1>4, <1>8, ChainKept
<1>10. HeldInv(H)'
  BY <1>0, <1>3, <1>c DEF HeldInv
<1>11. Covered(H, c)'
  <2>1. \A n \in Node : refCount'[n] >= 2 * (c[n] + Cardinality(CallRefs(n))')
    <3> SUFFICES ASSUME NEW n \in Node
                 PROVE  refCount'[n] >= 2 * (c[n] + Cardinality(CallRefs(n))')
      OBVIOUS
    <3>1. PICK k, h, r, j : /\ k = Cardinality(CallRefs(n)) /\ h = c[n] /\ r = refCount[n]
                            /\ j = Cardinality(CallRefs(n))'
      OBVIOUS
    <3>2. h \in Nat /\ r \in Nat /\ r >= 2 * (h + k)
      BY <1>0, <3>1 DEF PoolTypes, Pool, Covered
    <3>3. InCall(t, n)' = 0 /\ InCall(t, n) = IF n = m THEN 1 ELSE 0
      BY <1>0, <1>a, <1>t, PoolFacts DEF PoolTypes, InCall, Calling, Counted
    <3>4. k \in Nat /\ j \in Nat /\ j = k - IF n = m THEN 1 ELSE 0
      <4>1. /\ Cardinality(CallRefs(n)) \in Nat /\ Cardinality(CallRefs(n))' \in Nat
            /\ Cardinality(CallRefs(n))' =
                 Cardinality(CallRefs(n)) + InCall(t, n)' - InCall(t, n)
        BY <1>8, CallTally DEF OthersKept
      <4> QED BY <3>1, <3>3, <4>1
    <3>5. CASE n = m
      <4>1. r = 2 /\ refCount'[n] = 1
        BY <1>0, <1>a, <1>b, <3>1, <3>5 DEF PoolTypes
      <4>2. 1 >= 2 * (h + j)
        BY <3>2, <3>4, <3>5, <4>1
      <4> QED BY <3>1, <4>1, <4>2
    <3>6. CASE n # m
      <4>1. refCount'[n] = r
        BY <1>0, <1>a, <3>1, <3>6 DEF PoolTypes
      <4> QED BY <3>1, <3>2, <3>4, <3>6, <4>1
    <3> QED BY <3>5, <3>6
  <2> QED BY <1>0, <2>1 DEF Covered
<1> QED BY <1>1, <1>2, <1>5, <1>6, <1>7, <1>9, <1>10, <1>11 DEF Pool, Moving

\* No step of the allocator hurts what is held, whatever the other threads do.
LEMMA AllocatorStep ==
  ASSUME NEW H, NEW c, Pool(H, c), NEW t \in Thread, IsFiniteSet(Thread), cmemStep(t)
  PROVE  Pool(H, c)' /\ \A n \in H : next'[n] = next[n]
<1>0. PoolTypes /\ Control /\ H \subseteq Node /\ PushInv /\ HeldInv(H)
  BY PoolFacts DEF Pool, Moving
<1>1. Pool(H, c)'
  <2>1. ~ ReadLink(t) /\ ~ ClearLink(t)
    BY <1>0 DEF ReadLink, ClearLink, PoolTypes, CallPlace, Counted, Pushes
  <2>2. CASE CasPop(t)
    BY <2>2, PopStep, PopFailsStep
  <2>3. CASE CasPush(t)
    BY <2>3, PushStep, PushFailsStep
  <2>4. CASE Decrement(t)
    BY <2>4, ClaimStep, DropStep
  <2>5. CASE ReadHead(t) \/ RetainHead(t) \/ RecheckHead(t) \/ ReadNext(t)
    BY <2>5, ReadHeadStep, RetainHeadStep, RecheckHeadStep, ReadNextStep
  <2>6. CASE ClearClaim(t) \/ ClearNext(t) \/ ReadTop(t) \/ WriteNext(t)
    BY <2>6, ClearClaimStep, ClearNextStep, ReadTopStep, WriteNextStep
  <2> QED BY <2>1, <2>2, <2>3, <2>4, <2>5, <2>6 DEF cmemStep
<1>2. ASSUME NEW n \in H PROVE next'[n] = next[n]
  <2>0. isRetained(n) /\ n \in Node /\ \A u \in Thread : ~ Taking(u, n) /\ ~ Pushing(u, n)
    BY <1>0 DEF HeldInv, PushInv
  <2>1. CASE WriteNext(t)
    <3>1. Top(t) # n
      BY <1>0, <2>0, <2>1, TopNode DEF WriteNext, Pushes
    <3> QED BY <1>0, <2>0, <2>1, <3>1 DEF WriteNext, PoolTypes
  <2>2. CASE ClearNext(t)
    <3>1. cnode[t] # n
      BY <2>0, <2>2 DEF ClearNext, Taking
    <3> QED BY <1>0, <2>0, <2>2, <3>1 DEF ClearNext, PoolTypes
  <2>3. CASE ~ WriteNext(t) /\ ~ ClearNext(t)
    BY <2>3 DEF cmemStep, ReadHead, RetainHead, RecheckHead, ReadNext, CasPop, ClearClaim,
       Decrement, ReadLink, ClearLink, ReadTop, CasPush
  <2> QED BY <2>1, <2>2, <2>3
<1> QED BY <1>1, <1>2

-----------------------------------------------------------------------------
(* The steps of a user.                                                    *)

\* A step of the user writes the links of nodes it holds, and no claim bit.
LEMMA UserStep ==
  ASSUME NEW H, NEW c, Pool(H, c), NEW t \in Thread, IsFiniteSet(Thread),
         UNCHANGED <<freeList, cpc, cnode, cnext, claimed, inAlloc, follow>>,
         next' \in [Node -> MarkablePointer(Ptr)], \A n \in Node \ H : next'[n] = next[n],
         refCount' \in [Node -> Nat], \A n \in Node : isRetained(n)' <=> isRetained(n),
         NEW G, NEW d \in [Node -> Nat], G \subseteq H, \A n \in G : d[n] >= 1,
         \A n \in Node : refCount'[n] >= refCount[n] + 2 * (d[n] - c[n])
  PROVE  Pool(G, d)'
<1>0. /\ PoolTypes /\ Control /\ c \in [Node -> Nat] /\ H \subseteq Node
      /\ PopInv /\ LoadInv /\ HeldInv(H)
  BY PoolFacts DEF Pool, Moving, Chain
<1>1. PoolTypes'
  BY <1>0 DEF PoolTypes
<1>2. Control'
  BY <1>0 DEF Control
<1>3. OthersKept(t) /\ NodesKept(t)
  BY <1>0 DEF OthersKept, NodesKept, Pushing, Taking
<1>4. \A n \in Node : InList(n) => next'[n] = next[n]
  BY <1>0 DEF HeldInv, InList
<1>5. LinksKept
  BY <1>4 DEF LinksKept
<1>6. PopKept(t)
  <2> SUFFICES ASSUME cpc'[t] \in {"readNext", "casPop"}
               PROVE  /\ \A u \in Thread : ~ Pushing(u, cnode'[t])
                      /\ cpc'[t] = "casPop" /\ InList(cnode'[t]) => cnext'[t] = next[cnode'[t]]
    BY DEF PopKept
  <2> QED BY <1>0 DEF PopInv, LoadInv
<1>7. \A n \in Node :
        refCount'[n] >= refCount[n] + 2 * ((d[n] - c[n]) + (InCall(t, n)' - InCall(t, n)))
  <2> SUFFICES ASSUME NEW n \in Node
               PROVE  refCount'[n] >= refCount[n] + 2 * ((d[n] - c[n]) + (InCall(t, n)' - InCall(t, n)))
    OBVIOUS
  <2>1. InCall(t, n)' = InCall(t, n) /\ InCall(t, n) \in {0, 1}
    BY DEF InCall, Calling
  <2>2. refCount[n] \in Nat /\ c[n] \in Nat /\ d[n] \in Nat
    BY <1>0 DEF PoolTypes
  <2>3. refCount'[n] >= refCount[n] + 2 * (d[n] - c[n])
    OBVIOUS
  <2> QED BY <2>1, <2>2, <2>3
<1> QED BY <1>1, <1>2, <1>3, <1>5, <1>6, <1>7, Kept

\* A store into a link, or no step of the memory at all.
LEMMA StoreStep ==
  ASSUME NEW H, NEW c, Pool(H, c), NEW t \in Thread, IsFiniteSet(Thread),
         UNCHANGED <<freeList, refCount, cpc, cnode, cnext, claimed, inAlloc, follow>>,
         next' \in [Node -> MarkablePointer(Ptr)], \A n \in Node \ H : next'[n] = next[n],
         NEW G, NEW d \in [Node -> Nat], G \subseteq H, \A n \in G : d[n] >= 1,
         \A n \in Node : d[n] <= c[n]
  PROVE  Pool(G, d)'
<1>1. PoolTypes /\ c \in [Node -> Nat]
  BY PoolFacts
<1>2. refCount' \in [Node -> Nat] /\ \A n \in Node : isRetained(n)' <=> isRetained(n)
  BY <1>1 DEF PoolTypes, isRetained
<1>3. ASSUME NEW n \in Node PROVE refCount'[n] >= refCount[n] + 2 * (d[n] - c[n])
  <2>1. refCount[n] \in Nat /\ c[n] \in Nat /\ d[n] \in Nat /\ d[n] <= c[n] /\ refCount'[n] = refCount[n]
    BY <1>1 DEF PoolTypes
  <2> QED BY <2>1
<1> QED BY <1>2, <1>3, UserStep

\* A reference is taken, without a look at what the node is used for.
LEMMA RetainStep ==
  ASSUME NEW H, NEW c, Pool(H, c), NEW t \in Thread, IsFiniteSet(Thread),
         UNCHANGED <<freeList, next, cpc, cnode, cnext, claimed, inAlloc, follow>>,
         NEW m \in Node, refCount' = [refCount EXCEPT ![m] = Retained(@)],
         NEW G, NEW d \in [Node -> Nat], G \subseteq H, \A n \in G : d[n] >= 1,
         \A n \in Node : d[n] <= c[n] + IF n = m THEN 1 ELSE 0
  PROVE  Pool(G, d)'
<1>1. PoolTypes /\ c \in [Node -> Nat]
  BY PoolFacts
<1>2. \A n \in Node : refCount[n] \in Nat /\ refCount'[n] = refCount[n] + IF n = m THEN 2 ELSE 0
  BY <1>1 DEF PoolTypes, Retained
<1>3. refCount' \in [Node -> Nat]
  BY <1>1 DEF PoolTypes, Retained
<1>4. ASSUME NEW n \in Node PROVE isRetained(n)' <=> isRetained(n)
  <2>1. PICK r : r = refCount[n] /\ r \in Nat
    BY <1>2
  <2>2. (r + 2) % 2 = 0 <=> r % 2 = 0
    BY <2>1
  <2>3. refCount'[n] = r \/ refCount'[n] = r + 2
    BY <1>2, <2>1
  <2> QED BY <2>1, <2>2, <2>3 DEF isRetained
<1>5. ASSUME NEW n \in Node PROVE refCount'[n] >= refCount[n] + 2 * (d[n] - c[n])
  <2>1. c[n] \in Nat /\ d[n] \in Nat /\ d[n] <= c[n] + IF n = m THEN 1 ELSE 0
    BY <1>1
  <2> QED BY <1>2, <2>1
<1>6. next' \in [Node -> MarkablePointer(Ptr)]
  BY <1>1 DEF PoolTypes
<1> QED BY <1>3, <1>4, <1>5, <1>6, UserStep

\* An allocation begins, or ends without a node.
LEMMA CallStep ==
  ASSUME NEW H, NEW c, Pool(H, c), NEW t \in Thread, IsFiniteSet(Thread),
         UNCHANGED <<freeList, refCount, next, cnode, cnext, claimed, inAlloc, follow>>,
         cpc[t] \in {"idle", "outOfMemory"},
         NEW p \in {"idle", "readHead"}, cpc' = [cpc EXCEPT ![t] = p],
         NEW G, NEW d \in [Node -> Nat], G \subseteq H, \A n \in G : d[n] >= 1,
         \A n \in Node : d[n] <= c[n]
  PROVE  Pool(G, d)'
<1>0. PoolTypes /\ Control /\ c \in [Node -> Nat]
  BY PoolFacts
<1>1. PoolTypes'
  BY <1>0 DEF PoolTypes, CallPlace
<1>2. Control'
  BY <1>0 DEF PoolTypes, Control, Counted, Pushes
<1>3. OthersKept(t) /\ NodesKept(t)
  BY <1>0 DEF PoolTypes, OthersKept, NodesKept, isRetained, Pushing, Taking, Pushes
<1>4. LinksKept /\ PopKept(t)
  BY <1>0 DEF PoolTypes, LinksKept, PopKept
<1>5. ASSUME NEW n \in Node
      PROVE  refCount'[n] >= refCount[n] + 2 * ((d[n] - c[n]) + (InCall(t, n)' - InCall(t, n)))
  <2>1. InCall(t, n)' = 0 /\ InCall(t, n) = 0
    BY <1>0 DEF PoolTypes, InCall, Calling, Counted
  <2>2. refCount[n] \in Nat /\ c[n] \in Nat /\ d[n] \in Nat /\ d[n] <= c[n] /\ refCount'[n] = refCount[n]
    BY <1>0 DEF PoolTypes
  <2> QED BY <2>1, <2>2
<1> QED BY <1>1, <1>2, <1>3, <1>4, <1>5, Kept

\* The user gives one of its references to the allocator.
LEMMA ReleaseStep ==
  ASSUME NEW H, NEW c, Pool(H, c), NEW t \in Thread, IsFiniteSet(Thread),
         NEW m \in Node, CallRelease(t, m, FALSE),
         NEW G, NEW d \in [Node -> Nat], G \subseteq H, \A n \in G : d[n] >= 1,
         \A n \in Node : d[n] <= c[n] - IF n = m THEN 1 ELSE 0
  PROVE  Pool(G, d)'
<1>0. PoolTypes /\ Control /\ c \in [Node -> Nat]
  BY PoolFacts
<1>a. /\ cpc[t] = "idle" /\ cpc' = [cpc EXCEPT ![t] = "decrement"]
      /\ cnode' = [cnode EXCEPT ![t] = m]
      /\ follow' = [follow EXCEPT ![t] = FALSE]
      /\ UNCHANGED <<freeList, refCount, next, cnext, claimed, inAlloc>>
  BY PoolFacts DEF CallRelease
<1>1. PoolTypes'
  <2>1. cpc' \in [Thread -> CallPlace] /\ cnode' \in [Thread -> Ptr]
    BY <1>0, <1>a DEF PoolTypes, CallPlace, Counted, Ptr
  <2> QED BY <1>0, <1>a, <2>1 DEF PoolTypes
<1>2. Control'
  BY <1>0, <1>a DEF PoolTypes, Control, Counted, Pushes
<1>3. OthersKept(t) /\ NodesKept(t)
  BY <1>0, <1>a DEF PoolTypes, OthersKept, NodesKept, isRetained, Pushing, Taking, Pushes
<1>4. LinksKept /\ PopKept(t)
  BY <1>0, <1>a DEF PoolTypes, LinksKept, PopKept
<1>5. ASSUME NEW n \in Node
      PROVE  refCount'[n] >= refCount[n] + 2 * ((d[n] - c[n]) + (InCall(t, n)' - InCall(t, n)))
  <2>1. InCall(t, n) = 0 /\ InCall(t, n)' = IF n = m THEN 1 ELSE 0
    BY <1>0, <1>a DEF PoolTypes, InCall, Calling, Counted
  <2>2. /\ refCount[n] \in Nat /\ c[n] \in Nat /\ d[n] \in Nat /\ refCount'[n] = refCount[n]
        /\ d[n] <= c[n] - IF n = m THEN 1 ELSE 0
    BY <1>0, <1>a DEF PoolTypes
  <2> QED BY <2>1, <2>2
<1> QED BY <1>1, <1>2, <1>3, <1>4, <1>5, Kept

\* An allocation ends with a node, which its user links to nothing and retains once more.
LEMMA CreatedStep ==
  ASSUME NEW H, NEW c, Pool(H, c), NEW t \in Thread, IsFiniteSet(Thread), cpc[t] = "allocated",
         UNCHANGED <<freeList, cnext, claimed, inAlloc, follow>>,
         next' = [next EXCEPT ![cnode[t]] = toMarkable(NULL, FALSE)],
         refCount' = [refCount EXCEPT ![cnode[t]] = Retained(@)],
         cpc' = [cpc EXCEPT ![t] = "idle"], cnode' = [cnode EXCEPT ![t] = NULL],
         NEW G, NEW d \in [Node -> Nat], G \subseteq H \cup {cnode[t]}, \A n \in G : d[n] >= 1,
         \A n \in Node : d[n] <= c[n] + IF n = cnode[t] THEN 2 ELSE 0
  PROVE  Pool(G, d)'
<1>0. /\ PoolTypes /\ Control /\ c \in [Node -> Nat] /\ H \subseteq Node
      /\ PushInv /\ TakeInv /\ PopInv /\ HeldInv(H)
  BY PoolFacts DEF Pool, Moving
<1>t. PICK m \in Node : m = cnode[t] /\ Taking(t, m)
  BY <1>0 DEF Control, Counted, Taking
<1>m. isRetained(m) /\ \A u \in Thread : ~ Pushing(u, m) /\ (Taking(u, m) => u = t)
  BY <1>0, <1>t DEF TakeInv, PushInv
<1>r. \A n \in Node : refCount[n] \in Nat /\ refCount'[n] = refCount[n] + IF n = m THEN 2 ELSE 0
  BY <1>0, <1>t DEF PoolTypes, Retained
<1>1. PoolTypes'
  <2>1. next' \in [Node -> MarkablePointer(Ptr)]
    BY <1>0, <1>t DEF PoolTypes, toMarkable, MarkablePointer, Ptr
  <2>2. refCount' \in [Node -> Nat]
    BY <1>0, <1>t DEF PoolTypes, Retained
  <2>3. cpc' \in [Thread -> CallPlace] /\ cnode' \in [Thread -> Ptr]
    BY <1>0, PoolFacts DEF PoolTypes, CallPlace
  <2> QED BY <1>0, <2>1, <2>2, <2>3 DEF PoolTypes
<1>2. Control'
  BY <1>0 DEF PoolTypes, Control, Counted, Pushes
<1>3. /\ \A n \in Node : isRetained(n)' <=> isRetained(n)
      /\ \A u \in Thread, n \in Node : Pushing(u, n)' <=> Pushing(u, n)
      /\ \A u \in Thread, n \in Node : Taking(u, n)' <=> Taking(u, n) /\ u # t
  <2>1. ASSUME NEW n \in Node PROVE isRetained(n)' <=> isRetained(n)
    <3>1. PICK r : r = refCount[n] /\ r \in Nat
      BY <1>r
    <3>2. (r + 2) % 2 = 0 <=> r % 2 = 0
      BY <3>1
    <3>3. refCount'[n] = r \/ refCount'[n] = r + 2
      BY <1>r, <3>1
    <3> QED BY <3>1, <3>2, <3>3 DEF isRetained
  <2>2. \A u \in Thread, n \in Node : Pushing(u, n)' <=> Pushing(u, n)
    BY <1>0 DEF PoolTypes, Pushing, Pushes
  <2>3. \A u \in Thread, n \in Node : Taking(u, n)' <=> Taking(u, n) /\ u # t
    BY <1>0 DEF PoolTypes, Taking
  <2> QED BY <2>1, <2>2, <2>3
<1>4. \A n \in Node : InList(n)' <=> InList(n)
  <2>1. \A n \in Node : Taking(t, n) => n = m
    BY <1>t DEF Taking
  <2> QED BY <1>3, <1>m, <2>1 DEF InList
<1>5. PushInv'
  BY <1>0, <1>3 DEF PushInv
<1>6. TakeInv'
  <2>1. \A u \in Thread : u # t => cpc'[u] = cpc[u]
    BY <1>0 DEF PoolTypes
  <2> QED BY <1>0, <1>3, <2>1 DEF TakeInv
<1>7. PopInv'
  BY <1>0 DEF PopInv, Pushing, PoolTypes, Pushes
<1>8. OthersKept(t) /\ PopKept(t)
  BY <1>0 DEF PoolTypes, PopKept, OthersKept
<1>9. LinksKept
  <2>1. \A n \in Node : InList(n) => n # m
    BY <1>m DEF InList
  <2> QED BY <1>0, <1>t, <2>1 DEF PoolTypes, LinksKept
<1>10. Chain'
  BY <1>1, <1>2, <1>4, <1>8, <1>9, ChainKept
<1>11. HeldInv(G)'
  <2>1. \A n \in G : n \in Node /\ (n = m \/ n \in H)
    BY <1>0, <1>t
  <2> QED BY <1>0, <1>3, <1>m, <2>1 DEF HeldInv
<1>12. Covered(G, d)'
  <2>1. ASSUME NEW n \in Node
        PROVE  refCount'[n] >= refCount[n] + 2 * ((d[n] - c[n]) + (InCall(t, n)' - InCall(t, n)))
    <3>1. InCall(t, n)' = 0 /\ InCall(t, n) = IF n = m THEN 1 ELSE 0
      BY <1>0, <1>t DEF PoolTypes, InCall, Calling, Counted
    <3>2. c[n] \in Nat /\ d[n] \in Nat /\ d[n] <= c[n] + IF n = m THEN 2 ELSE 0
      BY <1>0, <1>t
    <3> QED BY <1>r, <3>1, <3>2
  <2>2. G \subseteq Node
    BY <1>0, <1>t
  <2> QED BY <1>1, <1>8, <2>1, <2>2, CoverKept
<1> QED BY <1>1, <1>2, <1>5, <1>6, <1>7, <1>10, <1>11, <1>12 DEF Pool, Moving

-----------------------------------------------------------------------------
(* The nodes of the list.  The invariant says of a set L of nodes, which   *)
(* turns out to be Linked, that it forms the list.                         *)

Succ(n) == toPtr_m(next[n])

\* The list runs from the head to the tail; neither is ever deleted.
Ends(L) ==
  /\ L \subseteq Node /\ head \in L /\ tail \in L
  /\ ~ isMarked_m(next[head]) /\ next[tail] = toMarkable(NULL, FALSE)
  /\ key[head] = LONG_MIN /\ key[tail] = LONG_MAX
  /\ \A n \in L \ {head, tail} : key[n] \in Key

Links(L) ==
  /\ \A n \in L \ {tail} : Succ(n) \in L \ {head}
  /\ \A n \in L \ {head} : \E p \in L \ {tail} : Succ(p) = n

\* Keys ascend along the links, and no key lies between those of two neighbours.
Ascending(L) ==
  /\ \A n \in L \ {head, tail} : key[n] < key[Succ(n)]
  /\ \A p \in L \ {tail}, n \in L \ {head} :
       (p # head /\ key[n] <= key[p]) \/ key[n] >= key[Succ(p)]
  /\ \A m, n \in L \ {head} : key[m] = key[n] => m = n

Shape(L) == Ends(L) /\ Links(L) /\ Ascending(L)

-----------------------------------------------------------------------------
(* The operations.                                                         *)

Walk == {"load", "retain", "recheck"}

Here == {"unlink", "casUnlink", "clear", "arrived", "link", "publish", "mark",
         "grab", "grabRetain", "casUnlinkKey"}

Variables ==
  [pc : Pc, stage : {"first", "next", "again", "delete"}, op : Op \cup {"none"},
   key : Key \cup {LONG_MIN}, prev : Ref, cur : Ref, nxt : Ref, new : Ref,
   seen : MarkablePointer(Ref), todo : Seq(Node)]

ListTypes ==
  /\ key \in [Node -> LONG_MIN .. LONG_MAX]
  /\ my \in [Thread -> Variables]
  /\ calls \in [Thread -> 0 .. Calls]
  /\ published \in [Key -> Nat] /\ delivered \in [Key -> Nat]

\* Where the reference to the next node may be to any node: the extraction by
\* key has read it without a second look, and only compares it.
Unchecked(m) ==
  m.op = "extractWithKey" /\ m.pc \in {"grabRetain", "mark", "casUnlinkKey"}

\* What the place of an operation says about its variables.
Places(m) ==
  /\ m.prev # tail /\ m.cur # head
  /\ m.pc \in Walk \cup Here => m.prev # NULL
  /\ m.pc \in Here \cup {"clearExtracted"} \/ (m.pc \in Walk /\ m.stage = "next")
       => m.cur # NULL
  /\ m.pc \in {"retain", "recheck"} =>
       ~ isMarked_m(m.seen) /\ (m.stage = "next" => m.cur # tail)
  /\ m.pc = "recheck" => toPtr_m(m.seen) # NULL
  /\ m.pc \in {"mark", "casUnlinkKey"} => m.nxt # NULL
  /\ m.pc \in {"unlink", "casUnlink", "clear"} /\ m.stage = "delete" => m.nxt # NULL

Purpose(m) ==
  /\ m.op = "none" <=> m.pc \in {"rest", "fault", "clearNew"}
  /\ m.op \in {"insert", "extractWithKey"} => m.key \in Key
  /\ m.pc \in {"create", "link", "publish"} => m.op = "insert"
  /\ m.pc \in {"grab", "grabRetain", "casUnlinkKey"} => m.op = "extractWithKey"
  /\ m.pc = "mark" => m.op \in {"extractMinimum", "extractWithKey"}
  /\ m.pc = "clearExtracted" => m.op = "extractMinimum"
  /\ m.pc \in {"unlink", "casUnlink", "clear"} /\ m.stage = "delete"
       => m.op = "extractMinimum"
  /\ m.op = "extractMinimum" => m.prev \in {head, NULL}

\* A new node is not in the list, and is not marked.
Fresh(L, m) ==
  /\ m.pc = "clearNew" \/ (m.op = "insert" /\ m.pc # "create") => m.new # NULL
  /\ m.new # NULL => m.new \notin L /\ ~ isMarked_m(next[m.new])
  /\ m.new # NULL /\ m.op = "insert" => key[m.new] = m.key

\* A node that an operation has found in the list: it is there, or it is marked.
Solid(L, n) == n \in L \/ isMarked_m(next[n])

\* What an operation knows of the nodes it has references to.
Sound(L, m) ==
  /\ m.prev # NULL => Solid(L, m.prev)
  /\ m.cur # NULL => Solid(L, m.cur)
  /\ m.nxt # NULL /\ ~ Unchecked(m) => Solid(L, m.nxt) /\ m.nxt # head

\* What it knows of their keys and links.
Knows(L, m) ==
  /\ m.prev # NULL /\ m.op \in {"insert", "extractWithKey"} =>
       m.prev = head \/ key[m.prev] < m.key
  /\ m.pc \in {"link", "publish"} => key[m.cur] > m.key
  /\ m.pc = "publish" => next[m.new] = toMarkable(m.cur, FALSE)
  /\ m.pc \in {"unlink", "casUnlink", "casUnlinkKey"} => isMarked_m(next[m.cur])
  /\ m.pc = "casUnlink" /\ m.cur \in L => m.seen = toMarkable(Succ(m.cur), FALSE)
  /\ m.pc = "casUnlinkKey" /\ m.cur \in L => m.nxt = Succ(m.cur)
  /\ m.pc \in {"clear", "clearExtracted"} => m.cur \notin L

Operation(L, m) ==
  Places(m) /\ Purpose(m) /\ Fresh(L, m) /\ Sound(L, m) /\ Knows(L, m)

\* No two operations have the same new node.
OwnNew ==
  \A t, u \in Thread : my[t].new # NULL /\ my[t].new = my[u].new => t = u

-----------------------------------------------------------------------------
(* References.                                                             *)

Is(p, n) == IF p = n THEN 1 ELSE 0

At(s, i, n) == IF i <= Len(s) THEN Is(s[i], n) ELSE 0

TodoCount(s, n) == At(s, 1, n) + At(s, 2, n) + At(s, 3, n) + At(s, 4, n)

\* The references to n that an operation with variables m has.  The one of the
\* list to a new or an extracted node goes with them.
Count(m, n) ==
  Is(m.prev, n)
  + (IF m.pc = "clear" /\ m.stage = "delete" THEN 2 * Is(m.cur, n) ELSE Is(m.cur, n))
  + (IF m.pc = "clearNew" THEN Is(m.new, n) ELSE 2 * Is(m.new, n))
  + (IF m.pc = "grabRetain" THEN 0 ELSE Is(m.nxt, n))
  + (IF m.pc = "recheck" THEN Is(toPtr_m(m.seen), n) ELSE 0)
  + TodoCount(m.todo, n)

Most == 16

\* f gives the variables of the operations.
Refs(f, n) == {p \in Thread \X (1 .. Most) : p[2] <= Count(f[p[1]], n)}

In(L, n) == IF n \in L THEN 1 ELSE 0

\* The references outside the allocator: one for the list, and those of the threads.
Owned(f, L) == [n \in Node |-> Cardinality(Refs(f, n)) + In(L, n)]

\* The nodes an operation may go on to read or write.
Held(m) ==
  ({m.prev, m.cur, m.new} \cup (IF Unchecked(m) THEN {} ELSE {m.nxt})) \ {NULL}

HeldNodes(f, L) == L \cup UNION {Held(f[t]) : t \in Thread}

-----------------------------------------------------------------------------
(* The invariant.                                                          *)

\* 1 if an element of the list has key k.
Present(L, k) == IF \E n \in L \ {head, tail} : key[n] = k THEN 1 ELSE 0

History(L) == \A k \in Key : delivered[k] + Present(L, k) <= published[k]

ListInv(L) ==
  /\ ListTypes
  /\ Shape(L)
  /\ \A t \in Thread : Operation(L, my[t])
  /\ OwnNew
  /\ History(L)
  /\ \A t \in Thread : Len(my[t].todo) <= 4
  /\ Pool(HeldNodes(my, L), Owned(my, L))

IInv == \E L \in SUBSET Node : ListInv(L)

-----------------------------------------------------------------------------
(* Counting the references.                                                *)

\* One operation has a handful.
LEMMA CountBound ==
  ASSUME NEW m \in Variables, NEW n \in Node
  PROVE  Count(m, n) \in 0 .. Most
<1>1. \A p : Is(p, n) \in {0, 1}
  BY DEF Is
<1>2. \A i \in 1 .. 4 : At(m.todo, i, n) \in {0, 1}
  BY <1>1 DEF At
<1>3. TodoCount(m.todo, n) \in 0 .. 4
  BY <1>2 DEF TodoCount
<1>4. PICK a, b, c, d, e, f :
        /\ a = Is(m.prev, n) /\ b = Is(m.cur, n) /\ c = Is(m.new, n) /\ d = Is(m.nxt, n)
        /\ e = Is(toPtr_m(m.seen), n) /\ f = TodoCount(m.todo, n)
  OBVIOUS
<1>5. a \in {0, 1} /\ b \in {0, 1} /\ c \in {0, 1} /\ d \in {0, 1} /\ e \in {0, 1} /\ f \in 0 .. 4
  BY <1>1, <1>3, <1>4
<1> QED BY <1>4, <1>5 DEF Count, Most

\* A number, whatever the bound.
LEMMA CountNat ==
  ASSUME NEW m \in Variables, NEW n \in Node
  PROVE  Count(m, n) \in Nat
BY CountBound DEF Most

\* As many pairs as numbers.
LEMMA Pairs ==
  ASSUME NEW t, NEW k \in Nat
  PROVE  IsFiniteSet({t} \X (1 .. k)) /\ Cardinality({t} \X (1 .. k)) = k
<1>1. IsFiniteSet({t}) /\ Cardinality({t}) = 1
  BY FS_Singleton
<1>2. IsFiniteSet(1 .. k) /\ Cardinality(1 .. k) = k
  BY FS_Interval
<1>3. /\ IsFiniteSet({t} \X (1 .. k))
      /\ Cardinality({t} \X (1 .. k)) = Cardinality({t}) * Cardinality(1 .. k)
  BY <1>1, <1>2, FS_Product
<1> QED BY <1>1, <1>2, <1>3

\* There are finitely many of the pairs that stand for references.
LEMMA PairsFinite ==
  ASSUME IsFiniteSet(Thread)
  PROVE  IsFiniteSet(Thread \X (1 .. Most))
<1>1. 1 \in Int /\ Most \in Int
  BY DEF Most
<1>2. IsFiniteSet(1 .. Most)
  BY <1>1, FS_Interval
<1> QED BY <1>2, FS_Product

\* The references of one thread, and the rest.
LEMMA Split ==
  ASSUME NEW A, IsFiniteSet(A), NEW t, NEW k \in Nat, A \cap ({t} \X (1 .. k)) = {}
  PROVE  /\ Cardinality(A) \in Nat
         /\ Cardinality(A \cup ({t} \X (1 .. k))) = Cardinality(A) + k
<1> DEFINE B == {t} \X (1 .. k)
<1>1. IsFiniteSet(B) /\ Cardinality(B) = k
  BY Pairs
<1>2. Cardinality(A) \in Nat
  BY FS_CardinalityType
<1>3. Cardinality(A \cup B) = Cardinality(A) + Cardinality(B) - Cardinality(A \cap B)
  BY <1>1, FS_Union
<1>4. Cardinality(A \cap B) = 0
  BY FS_EmptySet
<1> HIDE DEF B
<1>5. PICK a, b : a = Cardinality(A) /\ b = Cardinality(B)
  OBVIOUS
<1>6. a \in Nat /\ b = k /\ Cardinality(A \cup B) = a + b - 0
  BY <1>1, <1>2, <1>3, <1>4, <1>5
<1>7. Cardinality(A \cup B) = Cardinality(A) + k
  BY <1>5, <1>6
<1> QED BY <1>2, <1>7 DEF B

\* The references in R of the other threads; those of t are the first j.
Rest(R, t) == {p \in R : p[1] # t}

First(R, t, j) == \A i \in 1 .. Most : <<t, i>> \in R <=> i <= j

\* Pairs with t come to j, the others to the rest.
LEMMA SplitRefs ==
  ASSUME NEW R, NEW T, R \subseteq T \X (1 .. Most), IsFiniteSet(R),
         NEW t, NEW j \in 0 .. Most,
         First(R, t, j)
  PROVE  /\ Cardinality(Rest(R, t)) \in Nat
         /\ Cardinality(R) = Cardinality(Rest(R, t)) + j
<1> DEFINE A == Rest(R, t)
           B == {t} \X (1 .. j)
<1>1. j \in Nat /\ IsFiniteSet(A) /\ A \cap B = {}
  BY FS_Subset DEF Most, Rest
<1>2. ASSUME NEW p \in R PROVE p \in A \cup B
  <2>1. PICK u \in T, i \in 1 .. Most : p = <<u, i>>
    OBVIOUS
  <2>2. u = t => i \in 1 .. j
    BY <2>1 DEF Most, First
  <2> QED BY <2>1, <2>2 DEF Rest
<1>3. ASSUME NEW p \in B PROVE p \in R
  <2>1. PICK i \in 1 .. j : p = <<t, i>>
    OBVIOUS
  <2>2. i \in 1 .. Most /\ i <= j
    BY DEF Most
  <2> QED BY <2>1, <2>2 DEF First
<1>4. R = A \cup B
  BY <1>2, <1>3 DEF Rest
<1>5. Cardinality(A) \in Nat /\ Cardinality(A \cup B) = Cardinality(A) + j
  BY <1>1, Split
<1> QED BY <1>4, <1>5

\* The references of all the threads change by those of the one that runs.
LEMMA RefsStep ==
  ASSUME NEW f \in [Thread -> Variables], NEW t \in Thread, IsFiniteSet(Thread),
         NEW m \in Variables, NEW g, g = [f EXCEPT ![t] = m], NEW n \in Node
  PROVE  /\ Cardinality(Refs(f, n)) \in Nat /\ Cardinality(Refs(g, n)) \in Nat
         /\ Cardinality(Refs(g, n)) = Cardinality(Refs(f, n)) + Count(m, n) - Count(f[t], n)
<1>1. PICK R, S, j, k : /\ R = Refs(f, n) /\ S = Refs(g, n)
                        /\ j = Count(f[t], n) /\ k = Count(m, n)
  OBVIOUS
<1>2. j \in 0 .. Most /\ k \in 0 .. Most
  BY <1>1, CountBound
<1>3. R \subseteq Thread \X (1 .. Most) /\ S \subseteq Thread \X (1 .. Most)
  BY <1>1 DEF Refs
<1>4. IsFiniteSet(R) /\ IsFiniteSet(S)
  BY <1>3, PairsFinite, FS_Subset
<1>5. First(R, t, j)
  BY <1>1 DEF Refs, First
<1>6. First(S, t, k)
  BY <1>1 DEF Refs, First
<1>7. Rest(R, t) = Rest(S, t)
  BY <1>1 DEF Refs, Rest
<1>8. /\ Cardinality(Rest(R, t)) \in Nat
      /\ Cardinality(R) = Cardinality(Rest(R, t)) + j
  BY <1>2, <1>3, <1>4, <1>5, SplitRefs
<1>9. Cardinality(S) = Cardinality(Rest(S, t)) + k
  BY <1>2, <1>3, <1>4, <1>6, SplitRefs
<1> QED BY <1>1, <1>2, <1>7, <1>8, <1>9 DEF Most

\* There are finitely many references to a node.
LEMMA RefsFinite ==
  ASSUME NEW f, NEW n \in Node, IsFiniteSet(Thread)
  PROVE  IsFiniteSet(Refs(f, n)) /\ Cardinality(Refs(f, n)) \in Nat
<1>1. IsFiniteSet(Thread \X (1 .. Most))
  BY PairsFinite
<1>2. IsFiniteSet(Refs(f, n))
  BY <1>1, FS_Subset DEF Refs
<1> QED BY <1>2, FS_CardinalityType

\* What is held is counted.
LEMMA HeldCounted ==
  ASSUME NEW f \in [Thread -> Variables], IsFiniteSet(Thread), NEW L \in SUBSET Node,
         \A t \in Thread : Purpose(f[t])
  PROVE  /\ HeldNodes(f, L) \subseteq Node /\ Owned(f, L) \in [Node -> Nat]
         /\ \A n \in HeldNodes(f, L) : Owned(f, L)[n] >= 1
<1>1. HeldNodes(f, L) \subseteq Node
  BY DEF HeldNodes, Held, Variables, Ref
<1>2. \A n \in Node : Cardinality(Refs(f, n)) \in Nat /\ In(L, n) \in {0, 1}
  BY RefsFinite DEF In
<1>3. Owned(f, L) \in [Node -> Nat]
  BY <1>2 DEF Owned
<1>4. ASSUME NEW n \in HeldNodes(f, L) PROVE Owned(f, L)[n] >= 1
  <2>0. n \in Node
    BY <1>1
  <2>1. CASE n \in L
    BY <1>2, <2>0, <2>1 DEF Owned, In
  <2>2. CASE n \notin L
    <3>1. PICK t \in Thread : n \in Held(f[t])
      BY <2>2 DEF HeldNodes
    <3>2. PICK m \in Variables : m = f[t]
      OBVIOUS
    <3>3. Purpose(m) /\ n \in Held(m)
      BY <3>1, <3>2
    <3>4. \A p : Is(p, n) \in {0, 1} /\ Is(n, n) = 1
      BY DEF Is
    <3>5. TodoCount(m.todo, n) \in Nat
      BY <3>4 DEF TodoCount, At
    <3>6. Count(m, n) >= 1
      <4>1. \/ Is(m.prev, n) = 1 \/ Is(m.cur, n) = 1 \/ Is(m.new, n) = 1
            \/ m.pc # "grabRetain" /\ Is(m.nxt, n) = 1
        BY <3>3, <3>4 DEF Held, Unchecked, Purpose
      <4>2. PICK a, b, c, d, e, s :
              /\ a = Is(m.prev, n) /\ b = Is(m.cur, n) /\ c = Is(m.new, n) /\ d = Is(m.nxt, n)
              /\ e = Is(toPtr_m(m.seen), n) /\ s = TodoCount(m.todo, n)
        OBVIOUS
      <4>3. /\ a \in {0, 1} /\ b \in {0, 1} /\ c \in {0, 1} /\ d \in {0, 1} /\ e \in {0, 1}
            /\ s \in Nat
        BY <3>4, <3>5, <4>2
      <4>4. a = 1 \/ b = 1 \/ c = 1 \/ (m.pc # "grabRetain" /\ d = 1)
        BY <4>1, <4>2
      <4>5. PICK v, w, x, y :
              /\ v = (m.pc = "clear" /\ m.stage = "delete") /\ w = (m.pc = "clearNew")
              /\ x = (m.pc = "grabRetain") /\ y = (m.pc = "recheck")
        OBVIOUS
      <4>6. Count(m, n) = a + (IF v THEN 2 * b ELSE b) + (IF w THEN c ELSE 2 * c)
                            + (IF x THEN 0 ELSE d) + (IF y THEN e ELSE 0) + s
        BY <4>2, <4>5 DEF Count
      <4>7. a = 1 \/ b = 1 \/ c = 1 \/ (~ x /\ d = 1)
        BY <4>4, <4>5
      <4> QED BY <4>3, <4>6, <4>7
    <3>7. <<t, 1>> \in Refs(f, n)
      <4>1. 1 <= Count(m, n)
        BY <2>0, <3>6, CountBound DEF Most
      <4> QED BY <3>2, <4>1 DEF Refs, Most
    <3>8. Cardinality(Refs(f, n)) # 0
      BY <2>0, <3>7, RefsFinite, FS_EmptySet
    <3> QED BY <1>2, <2>0, <3>8 DEF Owned
  <2> QED BY <2>1, <2>2
<1> QED BY <1>1, <1>3, <1>4

\* The variables of the operations when t has left its own as m.
After(f, t, m) == [f EXCEPT ![t] = m]

\* What the list and the threads have changes by what the running thread does.
LEMMA OwnedStep ==
  ASSUME NEW f \in [Thread -> Variables], NEW t \in Thread, IsFiniteSet(Thread),
         NEW m \in Variables, NEW L, NEW M, NEW n \in Node
  PROVE  Owned(After(f, t, m), M)[n] =
           Owned(f, L)[n] + (Count(m, n) - Count(f[t], n)) + (In(M, n) - In(L, n))
<1>0. PICK g : g = After(f, t, m)
  OBVIOUS
<1>1. PICK j, k, r, s : /\ j = Count(f[t], n) /\ k = Count(m, n)
                        /\ r = Cardinality(Refs(f, n)) /\ s = Cardinality(Refs(g, n))
  OBVIOUS
<1>2. j \in 0 .. Most /\ k \in 0 .. Most /\ r \in Nat /\ s \in Nat /\ s = r + k - j
  <2>1. j \in 0 .. Most /\ k \in 0 .. Most
    BY <1>1, CountBound
  <2>2. g = [f EXCEPT ![t] = m]
    BY <1>0 DEF After
  <2> QED BY <1>1, <2>1, <2>2, RefsStep
<1>3. In(M, n) \in {0, 1} /\ In(L, n) \in {0, 1}
  BY DEF In
<1>4. Owned(g, M)[n] = s + In(M, n) /\ Owned(f, L)[n] = r + In(L, n)
  BY <1>1 DEF Owned, In
<1> QED BY <1>0, <1>1, <1>2, <1>3, <1>4 DEF Most

-----------------------------------------------------------------------------
(* What a step leaves alone.                                               *)

\* The nodes of H keep their keys; those that are marked stay so, and keep their
\* links while they are in the list, M after the step; a node that leaves the list
\* is marked, and one that joins it is not.
Harmless(L, M, H) ==
  /\ \A n \in H : key'[n] = key[n]
  /\ \A n \in H : isMarked_m(next[n]) =>
       isMarked_m(next'[n]) /\ (n \in M => next'[n] = next[n])
  /\ \A n \in L \ M : isMarked_m(next'[n])
  /\ \A n \in M \ L : ~ isMarked_m(next[n])

\* An operation is not disturbed by such a step of another thread.
LEMMA Undisturbed ==
  ASSUME NEW L \in SUBSET Node, NEW M \in SUBSET Node, NEW m \in Variables, Operation(L, m),
         NEW H, Held(m) \subseteq H, Harmless(L, M, H),
         m.new # NULL => m.new \notin M /\ next'[m.new] = next[m.new]
  PROVE  Operation(M, m)'
<1>1. \A n \in H : /\ key'[n] = key[n]
                   /\ isMarked_m(next[n]) =>
                        isMarked_m(next'[n]) /\ (n \in M => next'[n] = next[n])
                   /\ isMarked_m(next[n]) /\ n \notin L => n \notin M
  BY DEF Harmless
<1>2. /\ m.prev # NULL => m.prev \in H
      /\ m.cur # NULL => m.cur \in H
      /\ m.new # NULL => m.new \in H
      /\ m.nxt # NULL /\ ~ Unchecked(m) => m.nxt \in H
  BY DEF Held
<1>3. \A n \in H : Solid(L, n) => Solid(M, n)'
  BY <1>1 DEF Solid, Harmless
<1>4. Places(m)' /\ Purpose(m)'
  BY DEF Operation, Places, Purpose
<1>5. Fresh(M, m)'
  BY <1>1, <1>2 DEF Operation, Fresh
<1>6. Sound(M, m)'
  BY <1>2, <1>3 DEF Operation, Sound, Unchecked
<1>7. Knows(M, m)'
  <2>1. m.prev # NULL /\ m.op \in {"insert", "extractWithKey"} =>
          m.prev = head \/ key'[m.prev] < m.key
    BY <1>1, <1>2 DEF Operation, Knows
  <2>2. m.pc \in {"link", "publish"} => key'[m.cur] > m.key
    BY <1>1, <1>2 DEF Operation, Knows, Places, Here
  <2>3. m.pc = "publish" => next'[m.new] = toMarkable(m.cur, FALSE)
    BY DEF Operation, Knows, Fresh, Purpose
  <2>4. m.pc \in {"unlink", "casUnlink", "casUnlinkKey"} => isMarked_m(next'[m.cur])
    BY <1>1, <1>2 DEF Operation, Knows, Places, Here
  <2>5. m.pc \in {"casUnlink", "casUnlinkKey"} /\ m.cur \in M =>
          m.cur \in L /\ next'[m.cur] = next[m.cur]
    BY <1>1, <1>2 DEF Operation, Knows, Places, Here
  <2>6. m.pc \in {"clear", "clearExtracted"} => m.cur \notin M
    <3>1. m.pc \in {"clear", "clearExtracted"} => m.cur # NULL /\ m.cur \notin L
      BY DEF Operation, Knows, Places, Here
    <3>2. m.pc \in {"clear", "clearExtracted"} => isMarked_m(next[m.cur])
      BY <3>1 DEF Operation, Sound, Solid
    <3> QED BY <1>1, <1>2, <3>1, <3>2
  <2>7. m.pc = "casUnlink" /\ m.cur \in M => m.seen = toMarkable(toPtr_m(next'[m.cur]), FALSE)
    BY <2>5 DEF Operation, Knows, Succ
  <2>8. m.pc = "casUnlinkKey" /\ m.cur \in M => m.nxt = toPtr_m(next'[m.cur])
    BY <2>5 DEF Operation, Knows, Succ
  <2> QED BY <2>1, <2>2, <2>3, <2>4, <2>6, <2>7, <2>8 DEF Knows, Succ
<1> QED BY <1>4, <1>5, <1>6, <1>7 DEF Operation

\* The nodes of the list stay in order as long as no link and no key changes.
LEMMA ShapeKept ==
  ASSUME NEW L \in SUBSET Node, Shape(L),
         \A n \in L : key'[n] = key[n] /\ toPtr_m(next'[n]) = toPtr_m(next[n]),
         ~ isMarked_m(next'[head]), next'[tail] = next[tail]
  PROVE  Shape(L)'
<1>1. \A n \in L : Succ(n)' = Succ(n) /\ key'[n] = key[n]
  BY DEF Succ
<1>2. Ends(L)'
  BY DEF Shape, Ends
<1>3. Links(L)'
  <2>1. \A n \in L \ {tail} : Succ(n)' \in L \ {head}
    BY <1>1 DEF Shape, Links
  <2>2. \A n \in L \ {head} : \E p \in L \ {tail} : Succ(p)' = n
    BY <1>1 DEF Shape, Links
  <2> QED BY <2>1, <2>2 DEF Links
<1>4. Ascending(L)'
  <2>1. \A n \in L \ {tail} : Succ(n) \in L /\ key'[Succ(n)] = key[Succ(n)]
    BY <1>1 DEF Shape, Links
  <2>2. \A n \in L \ {tail} : key'[Succ(n)'] = key[Succ(n)]
    BY <1>1, <2>1
  <2>3. \A n \in L \ {head, tail} : key'[n] < key'[Succ(n)']
    BY <1>1, <2>2 DEF Shape, Ascending
  <2>4. \A p \in L \ {tail}, n \in L \ {head} :
          (p # head /\ key'[n] <= key'[p]) \/ key'[n] >= key'[Succ(p)']
    BY <1>1, <2>2 DEF Shape, Ascending
  <2>5. \A m, n \in L \ {head} : key'[m] = key'[n] => m = n
    BY <1>1 DEF Shape, Ascending
  <2> QED BY <2>3, <2>4, <2>5 DEF Ascending, Succ
<1> QED BY <1>2, <1>3, <1>4 DEF Shape

\* A name for the variables of an operation after a step.
LEMMA Renamed ==
  ASSUME NEW M, NEW u, NEW k, k = my'[u], Operation(M, k)'
  PROVE  Operation(M, my[u])'
<1>1. Places(my[u])' /\ Purpose(my[u])'
  BY DEF Operation, Places, Purpose
<1>2. Fresh(M, my[u])'
  BY DEF Operation, Fresh
<1>3. Sound(M, my[u])'
  BY DEF Operation, Sound, Unchecked, Solid
<1>4. Knows(M, my[u])'
  BY DEF Operation, Knows, Succ
<1> QED BY <1>1, <1>2, <1>3, <1>4 DEF Operation

\* A step of thread t that leaves its variables as m and the list as M.
LEMMA Frame ==
  ASSUME NEW L \in SUBSET Node, ListInv(L), NEW t \in Thread, NEW m \in Variables,
         my' = [my EXCEPT ![t] = m], NEW M \in SUBSET Node,
         key' \in [Node -> LONG_MIN .. LONG_MAX], calls' \in [Thread -> 0 .. Calls],
         published' \in [Key -> Nat], delivered' \in [Key -> Nat],
         Shape(M)', Harmless(L, M, HeldNodes(my, L)), Operation(M, m)', History(M)',
         \A u \in Thread \ {t} : my[u].new # NULL =>
           my[u].new \notin M /\ next'[my[u].new] = next[my[u].new],
         m.new \in {NULL, my[t].new} \/ m.new \in Node \ HeldNodes(my, L),
         Len(m.todo) <= 4, NEW G, NEW d, G = HeldNodes(my', M), d = Owned(my', M), Pool(G, d)'
  PROVE  ListInv(M)'
<1>0. my \in [Thread -> Variables] /\ \A u \in Thread : Operation(L, my[u])
  BY DEF ListInv, ListTypes
<1>1. ListTypes'
  BY <1>0 DEF ListTypes
<1>2. ASSUME NEW u \in Thread PROVE Operation(M, my[u])'
  <2>1. CASE u = t
    <3>1. my'[u] = m
      BY <1>0, <2>1
    <3> QED BY <3>1, Renamed
  <2>2. CASE u # t
    <3>1. PICK k \in Variables : k = my[u] /\ k = my'[u]
      BY <1>0, <2>2
    <3>2. Operation(L, k)
      BY <1>0, <3>1
    <3>3. Held(k) \subseteq HeldNodes(my, L)
      BY <3>1 DEF HeldNodes
    <3>4. k.new # NULL => k.new \notin M /\ next'[k.new] = next[k.new]
      BY <2>2, <3>1
    <3>5. PICK H : H = HeldNodes(my, L)
      OBVIOUS
    <3>6. Operation(M, k)'
      BY <3>2, <3>3, <3>4, <3>5, Undisturbed
    <3> QED BY <3>1, <3>6, Renamed
  <2> QED BY <2>1, <2>2
<1>3. OwnNew'
  <2>1. \A u \in Thread : my[u].new # NULL => my[u].new \in HeldNodes(my, L)
    BY DEF HeldNodes, Held
  <2> QED BY <1>0, <2>1 DEF ListInv, OwnNew
<1>4. \A u \in Thread : Len(my'[u].todo) <= 4
  BY <1>0 DEF ListInv
<1>5. Pool(HeldNodes(my, M), Owned(my, M))'
  BY DEF Pool, HeldInv, Covered
<1> QED BY <1>1, <1>2, <1>3, <1>4, <1>5 DEF ListInv

\* A step that changes no link and no key.
LEMMA SameList ==
  ASSUME NEW L \in SUBSET Node, ListInv(L), NEW t \in Thread, NEW m \in Variables,
         my' = [my EXCEPT ![t] = m], UNCHANGED <<next, key, published, delivered>>,
         calls' \in [Thread -> 0 .. Calls], Operation(L, m), m.new \in {NULL, my[t].new},
         Len(m.todo) <= 4, NEW G, NEW d, G = HeldNodes(my', L), d = Owned(my', L), Pool(G, d)'
  PROVE  ListInv(L)'
<1>1. /\ key' \in [Node -> LONG_MIN .. LONG_MAX]
      /\ published' \in [Key -> Nat] /\ delivered' \in [Key -> Nat]
  BY DEF ListInv, ListTypes
<1>2. Shape(L)'
  <2>1. Shape(L) /\ ~ isMarked_m(next[head])
    BY DEF ListInv, Shape, Ends
  <2> QED BY <2>1, ShapeKept
<1>3. Harmless(L, L, HeldNodes(my, L))
  BY DEF Harmless
<1>4. Operation(L, m)'
  <2>1. Places(m)' /\ Purpose(m)'
    BY DEF Operation, Places, Purpose
  <2>2. Fresh(L, m)' /\ Sound(L, m)'
    BY DEF Operation, Fresh, Sound, Unchecked, Solid
  <2>3. Knows(L, m)'
    BY DEF Operation, Knows, Succ
  <2> QED BY <2>1, <2>2, <2>3 DEF Operation
<1>5. History(L)'
  BY DEF ListInv, History, Present
<1>6. \A u \in Thread \ {t} : my[u].new # NULL =>
        my[u].new \notin L /\ next'[my[u].new] = next[my[u].new]
  BY DEF ListInv, Operation, Fresh
<1> QED BY <1>1, <1>2, <1>3, <1>4, <1>5, <1>6, Frame

\* What is held after a step of thread t that leaves its variables as m.
LEMMA HeldStep ==
  ASSUME NEW L \in SUBSET Node, ListInv(L), NEW t \in Thread, NEW m \in Variables,
         NEW M \in SUBSET Node, Purpose(m)
  PROVE  /\ Owned(After(my, t, m), M) \in [Node -> Nat]
         /\ \A n \in HeldNodes(After(my, t, m), M) : Owned(After(my, t, m), M)[n] >= 1
         /\ HeldNodes(After(my, t, m), M) \subseteq Node
         /\ HeldNodes(After(my, t, m), M) \subseteq HeldNodes(my, L) \cup M \cup Held(m)
         /\ \A n \in Node : Owned(After(my, t, m), M)[n] =
              Owned(my, L)[n] + (Count(m, n) - Count(my[t], n)) + (In(M, n) - In(L, n))
<1>0. my \in [Thread -> Variables] /\ IsFiniteSet(Thread) /\ \A u \in Thread : Purpose(my[u])
  BY ListAssumption DEF ListInv, ListTypes, Operation
<1>g. PICK g : g = After(my, t, m)
  OBVIOUS
<1>1. /\ g \in [Thread -> Variables] /\ \A u \in Thread : Purpose(g[u])
      /\ \A u \in Thread : u # t => g[u] = my[u]
      /\ g[t] = m
  BY <1>0, <1>g DEF After
<1>2. HeldNodes(g, M) \subseteq HeldNodes(my, L) \cup M \cup Held(m)
  <2> SUFFICES ASSUME NEW n \in HeldNodes(g, M), n \notin M, n \notin Held(m)
               PROVE  n \in HeldNodes(my, L)
    OBVIOUS
  <2>1. PICK u \in Thread : n \in Held(g[u])
    BY DEF HeldNodes
  <2>2. u # t /\ g[u] = my[u]
    BY <1>1, <2>1
  <2> QED BY <2>1, <2>2 DEF HeldNodes
<1>3. ASSUME NEW n \in Node
      PROVE  Owned(g, M)[n] =
               Owned(my, L)[n] + (Count(m, n) - Count(my[t], n)) + (In(M, n) - In(L, n))
  BY <1>0, <1>g, OwnedStep
<1> HIDE DEF After
<1>4. /\ HeldNodes(g, M) \subseteq Node /\ Owned(g, M) \in [Node -> Nat]
      /\ \A n \in HeldNodes(g, M) : Owned(g, M)[n] >= 1
  BY <1>0, <1>1, HeldCounted
<1> QED BY <1>g, <1>2, <1>3, <1>4

\* What the operation and the list have after a step is covered by what they had
\* before, and one more reference to r.
Enough(L, M, k, m, r) ==
  \A n \in Node : Count(m, n) + In(M, n) <= Count(k, n) + In(L, n) + Is(r, n)

\* Then the references to a node grow by that to r at most.
LEMMA OwnedBound ==
  ASSUME NEW L \in SUBSET Node, ListInv(L), NEW t \in Thread, NEW m \in Variables,
         NEW M \in SUBSET Node, Purpose(m), NEW r, Enough(L, M, my[t], m, r), NEW n \in Node
  PROVE  Owned(After(my, t, m), M)[n] <= Owned(my, L)[n] + Is(r, n)
<1>1. PICK i, j, k, l, c, d, e : 
        /\ i = Count(m, n) /\ j = Count(my[t], n) /\ k = In(M, n) /\ l = In(L, n)
        /\ c = Owned(my, L)[n] /\ d = Owned(After(my, t, m), M)[n] /\ e = Is(r, n)
  OBVIOUS
<1>2. my[t] \in Variables /\ Owned(my, L) \in [Node -> Nat]
  BY PoolFacts DEF ListInv, ListTypes
<1>3. i \in 0 .. Most /\ j \in 0 .. Most /\ c \in Nat
  BY <1>1, <1>2, CountBound
<1>4. k \in {0, 1} /\ l \in {0, 1} /\ e \in {0, 1}
  BY <1>1 DEF In, Is
<1>5. d = c + (i - j) + (k - l)
  BY <1>1, HeldStep
<1>6. i + k <= j + l + e
  BY <1>1 DEF Enough
<1>7. d <= c + e
  BY <1>3, <1>4, <1>5, <1>6 DEF Most
<1> QED BY <1>1, <1>7

\* A step of t leaves the new nodes of the other threads alone.
Spared(M, t) ==
  \A u \in Thread \ {t} : my[u].new # NULL =>
    my[u].new \notin M /\ next'[my[u].new] = next[my[u].new]

\* A step that writes into links of nodes that are held.
LEMMA StoreFrame ==
  ASSUME NEW L \in SUBSET Node, ListInv(L), NEW t \in Thread, NEW m \in Variables,
         my' = [my EXCEPT ![t] = m], NEW M \in SUBSET Node,
         UNCHANGED <<freeList, refCount, cpc, cnode, cnext, claimed, inAlloc, follow>>,
         key' = key, calls' \in [Thread -> 0 .. Calls],
         published' \in [Key -> Nat], delivered' \in [Key -> Nat],
         next' \in [Node -> MarkablePointer(Ptr)],
         \A n \in Node \ HeldNodes(my, L) : next'[n] = next[n],
         Shape(M)', Harmless(L, M, HeldNodes(my, L)), Operation(M, m)', History(M)', Spared(M, t),
         m.new \in {NULL, my[t].new}, Len(m.todo) <= 4,
         M \cup Held(m) \subseteq HeldNodes(my, L), Enough(L, M, my[t], m, NULL)
  PROVE  ListInv(M)'
<1>1. PICK H, c : H = HeldNodes(my, L) /\ c = Owned(my, L)
  OBVIOUS
<1>2. PICK G, d : G = HeldNodes(After(my, t, m), M) /\ d = Owned(After(my, t, m), M)
  OBVIOUS
<1>3. G = HeldNodes(my', M) /\ d = Owned(my', M)
  BY <1>2 DEF After
<1>4. Purpose(m)
  BY DEF Operation, Purpose
<1>5. /\ d \in [Node -> Nat] /\ \A n \in G : d[n] >= 1
      /\ G \subseteq H
  BY <1>1, <1>2, <1>4, HeldStep
<1>6. ASSUME NEW n \in Node PROVE d[n] <= c[n]
  <2>1. d[n] <= c[n] + Is(NULL, n)
    BY <1>1, <1>2, <1>4, OwnedBound
  <2>2. Is(NULL, n) = 0
    BY DEF Is, NULL, Node
  <2>3. c[n] \in Nat /\ d[n] \in Nat
    BY <1>1, <1>5, PoolFacts DEF ListInv
  <2> QED BY <2>1, <2>2, <2>3
<1>7. Pool(H, c)
  BY <1>1 DEF ListInv
<1>8. IsFiniteSet(Thread)
  BY ListAssumption
<1>9. \A n \in Node \ H : next'[n] = next[n]
  BY <1>1
<1>10. Pool(G, d)'
  BY <1>5, <1>6, <1>7, <1>8, <1>9, StoreStep
<1>11. key' \in [Node -> LONG_MIN .. LONG_MAX]
  BY DEF ListInv, ListTypes
<1> QED BY <1>3, <1>10, <1>11, Frame DEF Spared

\* A step on variables only, that forgets references or gives them other places.
LEMMA LocalFrame ==
  ASSUME NEW L \in SUBSET Node, ListInv(L), NEW t \in Thread, NEW m \in Variables,
         my' = [my EXCEPT ![t] = m], UNCHANGED <<cmemVars, key, published, delivered>>,
         calls' \in [Thread -> 0 .. Calls], Operation(L, m), m.new \in {NULL, my[t].new},
         Len(m.todo) <= 4, Held(m) \subseteq HeldNodes(my, L), Enough(L, L, my[t], m, NULL)
  PROVE  ListInv(L)'
<1>1. PICK H, c : H = HeldNodes(my, L) /\ c = Owned(my, L)
  OBVIOUS
<1>2. PICK G, d : G = HeldNodes(After(my, t, m), L) /\ d = Owned(After(my, t, m), L)
  OBVIOUS
<1>3. G = HeldNodes(my', L) /\ d = Owned(my', L)
  BY <1>2 DEF After
<1>4. Purpose(m) /\ L \subseteq H
  BY <1>1 DEF Operation, HeldNodes
<1>5. /\ d \in [Node -> Nat] /\ \A n \in G : d[n] >= 1
      /\ G \subseteq H
  BY <1>1, <1>2, <1>4, HeldStep
<1>6. ASSUME NEW n \in Node PROVE d[n] <= c[n]
  <2>1. d[n] <= c[n] + Is(NULL, n)
    BY <1>1, <1>2, <1>4, OwnedBound
  <2>2. Is(NULL, n) = 0
    BY DEF Is, NULL, Node
  <2>3. c[n] \in Nat /\ d[n] \in Nat
    BY <1>1, <1>5, PoolFacts DEF ListInv
  <2> QED BY <2>1, <2>2, <2>3
<1>7. Pool(H, c)
  BY <1>1 DEF ListInv
<1>8. IsFiniteSet(Thread)
  BY ListAssumption
<1>9. next' \in [Node -> MarkablePointer(Ptr)] /\ \A n \in Node \ H : next'[n] = next[n]
  BY <1>7, PoolFacts DEF PoolTypes, cmemVars
<1>10. Pool(G, d)'
  BY <1>5, <1>6, <1>7, <1>8, <1>9, StoreStep DEF cmemVars
<1> QED BY <1>3, <1>10, SameList DEF cmemVars

\* A step that takes one more reference.
LEMMA RetainFrame ==
  ASSUME NEW L \in SUBSET Node, ListInv(L), NEW t \in Thread, NEW m \in Variables,
         my' = [my EXCEPT ![t] = m],
         UNCHANGED <<freeList, next, cpc, cnode, cnext, claimed, inAlloc, follow>>,
         UNCHANGED <<key, published, delivered>>,
         NEW r \in Node, refCount' = [refCount EXCEPT ![r] = Retained(@)],
         calls' \in [Thread -> 0 .. Calls], Operation(L, m), m.new \in {NULL, my[t].new},
         Len(m.todo) <= 4, Held(m) \subseteq HeldNodes(my, L), Enough(L, L, my[t], m, r)
  PROVE  ListInv(L)'
<1>1. PICK H, c : H = HeldNodes(my, L) /\ c = Owned(my, L)
  OBVIOUS
<1>2. PICK G, d : G = HeldNodes(After(my, t, m), L) /\ d = Owned(After(my, t, m), L)
  OBVIOUS
<1>3. G = HeldNodes(my', L) /\ d = Owned(my', L)
  BY <1>2 DEF After
<1>4. Purpose(m) /\ L \subseteq H
  BY <1>1 DEF Operation, HeldNodes
<1>5. /\ d \in [Node -> Nat] /\ \A n \in G : d[n] >= 1
      /\ G \subseteq H
  BY <1>1, <1>2, <1>4, HeldStep
<1>6. ASSUME NEW n \in Node PROVE d[n] <= c[n] + IF n = r THEN 1 ELSE 0
  <2>1. d[n] <= c[n] + Is(r, n)
    BY <1>1, <1>2, <1>4, OwnedBound
  <2> QED BY <2>1 DEF Is
<1>7. Pool(H, c)
  BY <1>1 DEF ListInv
<1>8. IsFiniteSet(Thread)
  BY ListAssumption
<1>10. Pool(G, d)'
  BY ZenonT(60), <1>5, <1>6, <1>7, <1>8, RetainStep
<1> QED BY <1>3, <1>10, SameList

-----------------------------------------------------------------------------
(* What an operation does when its variables change.                       *)

\* A variable refers to a node once or not at all.
LEMMA IsType == \A p, n : Is(p, n) \in {0, 1} /\ (n \in Node => Is(NULL, n) = 0)
BY DEF Is, NULL, Node

\* The references that wait to be released, counted one by one.
LEMMA TodoFew ==
  ASSUME NEW n
  PROVE  /\ TodoCount(<<>>, n) = 0
         /\ \A a : TodoCount(<<a>>, n) = Is(a, n)
         /\ \A a, b : TodoCount(<<a, b>>, n) = Is(a, n) + Is(b, n)
<1>0. \A p : Is(p, n) \in Nat
  BY IsType
<1>1. TodoCount(<<>>, n) = 0
  BY DEF TodoCount, At
<1>2. ASSUME NEW a PROVE TodoCount(<<a>>, n) = Is(a, n)
  BY <1>0 DEF TodoCount, At
<1>3. ASSUME NEW a, NEW b PROVE TodoCount(<<a, b>>, n) = Is(a, n) + Is(b, n)
  BY <1>0 DEF TodoCount, At
<1> QED BY <1>1, <1>2, <1>3

\* The same for three references,
LEMMA TodoThree ==
  ASSUME NEW a, NEW b, NEW c, NEW n
  PROVE  TodoCount(<<a, b, c>>, n) = Is(a, n) + Is(b, n) + Is(c, n)
<1>1. \A p : Is(p, n) \in Nat
  BY IsType
<1> QED BY <1>1 DEF TodoCount, At

\* and for four.
LEMMA TodoFour ==
  ASSUME NEW a, NEW b, NEW c, NEW d, NEW n
  PROVE  TodoCount(<<a, b, c, d>>, n) = Is(a, n) + Is(b, n) + Is(c, n) + Is(d, n)
<1>1. \A p : Is(p, n) \in Nat
  BY IsType
<1> QED BY <1>1 DEF TodoCount, At

\* References to nodes that are not needed any more.
LEMMA TodoDropped ==
  ASSUME NEW a, NEW b, NEW n
  PROVE  /\ TodoCount(<<>>, n) <= Is(a, n) + Is(b, n)
         /\ TodoCount(<<a>>, n) <= Is(a, n) + Is(b, n)
         /\ TodoCount(<<a, b>>, n) <= Is(a, n) + Is(b, n)
<1>1. PICK x, y : x = Is(a, n) /\ y = Is(b, n) /\ x \in {0, 1} /\ y \in {0, 1}
  BY IsType
<1>2. TodoCount(<<>>, n) = 0 /\ TodoCount(<<a>>, n) = x /\ TodoCount(<<a, b>>, n) = x + y
  BY <1>1, TodoFew
<1> QED BY <1>1, <1>2

\* One more reference before the others.
LEMMA TodoMore ==
  ASSUME NEW p \in Node, NEW s \in Seq(Node), Len(s) <= 3
  PROVE  /\ <<p>> \o s \in Seq(Node) /\ Len(<<p>> \o s) = Len(s) + 1
         /\ \A n : TodoCount(<<p>> \o s, n) = Is(p, n) + TodoCount(s, n)
<1>1. PICK u : u = <<p>> \o s
  OBVIOUS
<1>2. /\ u \in Seq(Node) /\ Len(u) = Len(s) + 1
      /\ \A i \in 1 .. Len(s) + 1 : u[i] = IF i = 1 THEN p ELSE s[i - 1]
  BY <1>1
<1>3. ASSUME NEW n PROVE TodoCount(u, n) = Is(p, n) + TodoCount(s, n)
  <2>0. Is(p, n) \in Nat /\ \A i \in 1 .. 3 : At(s, i, n) \in Nat
    BY IsType DEF At
  <2>1. At(u, 1, n) = Is(p, n)
    BY <1>2 DEF At
  <2>2. At(u, 2, n) = At(s, 1, n)
    BY <1>2 DEF At
  <2>3. At(u, 3, n) = At(s, 2, n)
    BY <1>2 DEF At
  <2>4. At(u, 4, n) = At(s, 3, n)
    BY <1>2 DEF At
  <2>5. At(s, 4, n) = 0
    BY DEF At
  <2> QED BY <2>0, <2>1, <2>2, <2>3, <2>4, <2>5 DEF TodoCount
<1> QED BY <1>1, <1>2, <1>3

\* One reference less.
LEMMA TodoLess ==
  ASSUME NEW s \in Seq(Node), Len(s) <= 4, s # <<>>
  PROVE  /\ Head(s) \in Node /\ Tail(s) \in Seq(Node) /\ Len(Tail(s)) <= 4
         /\ \A n : TodoCount(Tail(s), n) = TodoCount(s, n) - Is(Head(s), n)
<1>1. PICK u : u = Tail(s)
  OBVIOUS
<1>2. /\ u \in Seq(Node) /\ Len(u) = Len(s) - 1 /\ Head(s) = s[1] /\ Head(s) \in Node
      /\ \A i \in 1 .. Len(s) - 1 : u[i] = s[i + 1]
  BY <1>1
<1>3. ASSUME NEW n PROVE TodoCount(u, n) = TodoCount(s, n) - Is(Head(s), n)
  <2>0. \A i \in 1 .. 4 : At(s, i, n) \in Nat
    BY IsType DEF At
  <2>1. At(s, 1, n) = Is(Head(s), n)
    BY <1>2 DEF At
  <2>2. At(u, 1, n) = At(s, 2, n) /\ At(u, 2, n) = At(s, 3, n) /\ At(u, 3, n) = At(s, 4, n)
    BY <1>2 DEF At
  <2>3. At(u, 4, n) = 0
    BY <1>2 DEF At
  <2> QED BY <2>0, <2>1, <2>2, <2>3 DEF TodoCount
<1> QED BY <1>1, <1>2, <1>3

\* Keys are numbers up to that of the tail.
LEMMA KeyTypes ==
  ASSUME NEW L \in SUBSET Node, ListInv(L)
  PROVE  /\ \A n \in Node : key[n] \in Nat /\ key[n] <= LONG_MAX
         /\ \A k \in Key : k \in Nat /\ k <= LONG_MAX
         /\ LONG_MAX \in Nat
<1>1. LONG_MAX \in Nat /\ Key \subseteq LONG_MIN .. LONG_MAX /\ LONG_MIN = 0
  BY ListAssumption DEF LONG_MIN
<1>2. key \in [Node -> LONG_MIN .. LONG_MAX]
  BY DEF ListInv, ListTypes
<1> QED BY <1>1, <1>2

\* What the invariant says of the thread that runs.
LEMMA Running ==
  ASSUME NEW L \in SUBSET Node, ListInv(L), NEW t \in Thread
  PROVE  /\ my[t] \in Variables /\ Operation(L, my[t]) /\ Len(my[t].todo) <= 4
         /\ calls \in [Thread -> 0 .. Calls]
         /\ L \cup Held(my[t]) \subseteq HeldNodes(my, L)
<1>1. my[t] \in Variables /\ calls \in [Thread -> 0 .. Calls]
  BY DEF ListInv, ListTypes
<1>2. Operation(L, my[t]) /\ Len(my[t].todo) <= 4
  BY DEF ListInv
<1>3. L \cup Held(my[t]) \subseteq HeldNodes(my, L)
  BY DEF HeldNodes
<1> QED BY <1>1, <1>2, <1>3

\* An operation starts again, having dropped its references but the first.
LEMMA Restart ==
  ASSUME NEW L \in SUBSET Node, ListInv(L), NEW t \in Thread, NEW ns \in Seq(Node),
         Len(ns) <= 2, StartAgain(t, ns), Local,
         my[t].prev # NULL, my[t].op # "none", my[t].pc \notin {"create", "grabRetain"},
         my[t].todo = <<>>,
         \A n \in Node : TodoCount(ns, n) <= Is(my[t].cur, n) + Is(my[t].nxt, n)
  PROVE  ListInv(L)'
<1>1. PICK k \in Variables : k = my[t] /\ Operation(L, k)
  BY Running
<1>2. /\ k.prev # NULL /\ k.op # "none" /\ k.pc \notin {"create", "grabRetain", "clearNew"}
      /\ k.todo = <<>>
  BY <1>1 DEF Operation, Purpose
<1>t. \A n : Is(k.prev, n) \in {0, 1} /\ Is(k.cur, n) \in {0, 1} /\ Is(k.new, n) \in {0, 1}
             /\ Is(k.nxt, n) \in {0, 1} /\ Is(toPtr_m(k.seen), n) \in {0, 1}
  BY IsType
<1>n. \A n : TodoCount(ns, n) \in Nat
  BY IsType DEF TodoCount, At
<1>3. CASE Minimum(t)
  <2>1. PICK m : m = [k EXCEPT !.pc = "load", !.stage = "first", !.cur = NULL, !.nxt = NULL,
                               !.todo = ns]
    OBVIOUS
  <2>2. my' = [my EXCEPT ![t] = m]
    BY <1>1, <1>3, <2>1 DEF StartAgain
  <2>3. /\ m \in Variables /\ m.pc = "load" /\ m.stage = "first" /\ m.cur = NULL /\ m.nxt = NULL
        /\ m.todo = ns /\ m.prev = k.prev /\ m.new = k.new /\ m.op = k.op /\ m.key = k.key
        /\ m.op = "extractMinimum"
    <3>1. k.op = "extractMinimum"
      BY <1>1, <1>3 DEF Minimum
    <3>2. NULL \in Ref /\ "load" \in Pc
      BY DEF Ref, Pc
    <3>3. m \in Variables
      BY <2>1, <3>2 DEF Variables
    <3> QED BY <2>1, <3>1, <3>3 DEF Variables
  <2>4. Operation(L, m)
    <3>1. Places(m)
      BY <1>1, <1>2, <2>3 DEF Operation, Places, Here, Walk, NULL, head, tail
    <3>2. Purpose(m)
      BY <1>1, <1>2, <2>3 DEF Operation, Purpose
    <3>3. Fresh(L, m) /\ Sound(L, m)
      BY <1>1, <1>2, <2>3 DEF Operation, Fresh, Sound
    <3>4. Knows(L, m)
      BY <1>1, <1>2, <2>3 DEF Operation, Knows
    <3> QED BY <3>1, <3>2, <3>3, <3>4 DEF Operation
  <2>5. Enough(L, L, k, m, NULL)
    <3> SUFFICES ASSUME NEW n \in Node
                 PROVE  Count(m, n) + In(L, n) <= Count(k, n) + In(L, n) + Is(NULL, n)
      BY DEF Enough
    <3>1. In(L, n) \in {0, 1} /\ Is(NULL, n) = 0
      BY IsType DEF In
    <3>2. TodoCount(m.todo, n) <= Is(k.cur, n) + Is(k.nxt, n) /\ TodoCount(k.todo, n) = 0
      BY <1>1, <1>2, <2>3, TodoFew
    <3>3. Count(m, n) <= Count(k, n)
      BY <1>2, <1>t, <1>n, <2>3, <3>1, <3>2 DEF Count
    <3>5. PICK i, j, e : i = Count(m, n) /\ j = Count(k, n) /\ e = In(L, n)
      OBVIOUS
    <3>6. i \in Nat /\ j \in Nat
      BY <2>3, <3>5, CountNat
    <3>7. i + e <= j + e + 0
      BY <3>1, <3>3, <3>5, <3>6
    <3> QED BY <3>1, <3>5, <3>7
  <2>6. Held(m) \subseteq HeldNodes(my, L)
    BY <1>1, <2>3, Running DEF Held
  <2>7. Len(m.todo) <= 4 /\ m.new \in {NULL, my[t].new}
    BY <1>1, <2>3
  <2> QED BY <1>1, <2>2, <2>3, <2>4, <2>5, <2>6, <2>7, Running, LocalFrame DEF Local
<1>4. CASE ~ Minimum(t)
  <2>1. PICK m : m = [k EXCEPT !.pc = "scan", !.prev = NULL, !.cur = NULL, !.nxt = NULL,
                               !.todo = <<k.prev>> \o ns]
    OBVIOUS
  <2>2. my' = [my EXCEPT ![t] = m]
    BY <1>1, <1>4, <2>1 DEF StartAgain
  <2>0. /\ <<k.prev>> \o ns \in Seq(Node) /\ Len(<<k.prev>> \o ns) <= 4
        /\ \A n : TodoCount(<<k.prev>> \o ns, n) = Is(k.prev, n) + TodoCount(ns, n)
    <3>1. k.prev \in Node
      BY <1>2 DEF Variables, Ref
    <3> QED BY <3>1, TodoMore
  <2>3. /\ m \in Variables /\ m.pc = "scan" /\ m.prev = NULL /\ m.cur = NULL /\ m.nxt = NULL
        /\ m.todo = <<k.prev>> \o ns /\ m.new = k.new /\ m.op = k.op /\ m.key = k.key
        /\ m.op # "extractMinimum" /\ m.stage = k.stage
    <3>1. k.op # "extractMinimum"
      BY <1>1, <1>4 DEF Minimum
    <3>2. NULL \in Ref /\ "scan" \in Pc
      BY DEF Ref, Pc
    <3>3. m \in Variables
      BY <2>0, <2>1, <3>2 DEF Variables
    <3> QED BY <2>1, <3>1, <3>3 DEF Variables
  <2>4. Operation(L, m)
    <3>1. Places(m)
      BY <1>1, <1>2, <2>3 DEF Operation, Places, Here, Walk, NULL, head, tail
    <3>2. Purpose(m)
      BY <1>1, <1>2, <2>3 DEF Operation, Purpose
    <3>3. Fresh(L, m) /\ Sound(L, m)
      BY <1>1, <1>2, <2>3 DEF Operation, Fresh, Sound
    <3>4. Knows(L, m)
      BY <1>1, <1>2, <2>3 DEF Operation, Knows
    <3> QED BY <3>1, <3>2, <3>3, <3>4 DEF Operation
  <2>5. Enough(L, L, k, m, NULL)
    <3> SUFFICES ASSUME NEW n \in Node
                 PROVE  Count(m, n) + In(L, n) <= Count(k, n) + In(L, n) + Is(NULL, n)
      BY DEF Enough
    <3>1. In(L, n) \in {0, 1} /\ Is(NULL, n) = 0
      BY IsType DEF In
    <3>2. TodoCount(m.todo, n) <= Is(k.prev, n) + Is(k.cur, n) + Is(k.nxt, n) /\ TodoCount(k.todo, n) = 0
      <4>1. TodoCount(k.todo, n) = 0
        BY <1>2, TodoFew
      <4>2. TodoCount(m.todo, n) = Is(k.prev, n) + TodoCount(ns, n)
        BY <2>0, <2>3
      <4>3. TodoCount(ns, n) <= Is(k.cur, n) + Is(k.nxt, n)
        BY <1>1
      <4> QED BY <1>t, <1>n, <4>1, <4>2, <4>3
    <3>n. TodoCount(m.todo, n) \in Nat
      BY <1>n, <2>0, <2>3, <1>t
    <3>3. Count(m, n) = 2 * Is(k.new, n) + TodoCount(m.todo, n)
      BY <1>t, <2>3, <3>n, IsType DEF Count
    <3>4. Count(k, n) >= Is(k.prev, n) + Is(k.cur, n) + 2 * Is(k.new, n) + Is(k.nxt, n)
      BY <1>2, <1>t, <3>2 DEF Count
    <3>5. PICK i, j, a, b, c, d, e, s :
            /\ i = Count(m, n) /\ j = Count(k, n) /\ s = TodoCount(m.todo, n) /\ e = In(L, n)
            /\ a = Is(k.prev, n) /\ b = Is(k.cur, n) /\ c = Is(k.new, n) /\ d = Is(k.nxt, n)
      OBVIOUS
    <3>6. i \in 0 .. Most /\ j \in 0 .. Most
      BY <3>5, CountBound, <2>3
    <3>7. i <= j
      BY <1>t, <3>n, <3>2, <3>3, <3>4, <3>5, <3>6 DEF Most
    <3>8. e \in {0, 1} /\ i \in Int /\ j \in Int
      BY <3>1, <3>5, <3>6 DEF Most
    <3>9. i + e <= j + e + 0
      BY <3>7, <3>8
    <3> QED BY <3>1, <3>5, <3>9
  <2>6. Held(m) \subseteq HeldNodes(my, L)
    BY <1>1, <2>3, Running DEF Held
  <2> QED BY <1>1, <2>0, <2>2, <2>3, <2>4, <2>5, <2>6, Running, LocalFrame DEF Local
<1> QED BY <1>3, <1>4

-----------------------------------------------------------------------------
(* The steps that change variables only.                                   *)

\* It is enough to look at the references of the operation if the list stays the same.
LEMMA Cheaper ==
  ASSUME NEW L, NEW k \in Variables, NEW m \in Variables, NEW r,
         \A n \in Node : Count(m, n) <= Count(k, n) + Is(r, n)
  PROVE  Enough(L, L, k, m, r)
<1> SUFFICES ASSUME NEW n \in Node
             PROVE  Count(m, n) + In(L, n) <= Count(k, n) + In(L, n) + Is(r, n)
  BY DEF Enough
<1>1. Count(m, n) \in 0 .. Most /\ Count(k, n) \in 0 .. Most
  BY CountBound
<1>2. PICK i, j, e, s : i = Count(m, n) /\ j = Count(k, n) /\ e = In(L, n) /\ s = Is(r, n)
  OBVIOUS
<1>3. i \in Nat /\ j \in Nat /\ e \in {0, 1} /\ s \in {0, 1}
  BY <1>1, <1>2, IsType DEF In, Most
<1>4. i <= j + s
  BY <1>2
<1> QED BY <1>2, <1>3, <1>4

\* The words of the links.
LEMMA Remarked ==
  ASSUME NEW S, NEW w \in MarkablePointer(S), NEW b \in BOOLEAN
  PROVE  toMarkable_m(w, b) = toMarkable(w.ptr, b)
BY DEF MarkablePointer, toMarkable, toMarkable_m

\* The words that the links hold.
LEMMA LinkWords ==
  ASSUME NEW L \in SUBSET Node, ListInv(L), NEW n \in Node
  PROVE  /\ next \in [Node -> MarkablePointer(Ref)]
         /\ next[n] \in MarkablePointer(Ref) /\ Succ(n) \in Ref
         /\ toMarkable_m(next[n], FALSE) = toMarkable(Succ(n), FALSE)
         /\ isMarked_m(next[n]) \in BOOLEAN
         /\ ~ isMarked_m(next[n]) => next[n] = toMarkable(Succ(n), FALSE)
<1>1. Ptr = Ref
  BY DEF Ptr, Ref
<1>2. next \in [Node -> MarkablePointer(Ref)]
  BY <1>1, PoolFacts DEF ListInv, PoolTypes
<1>3. PICK w \in MarkablePointer(Ref) : w = next[n]
  BY <1>2
<1>4. /\ toMarkable_m(w, FALSE) = toMarkable(w.ptr, FALSE)
      /\ ~ w.mark => w = toMarkable(w.ptr, FALSE)
      /\ w.ptr \in Ref /\ w.mark \in BOOLEAN
  <2>1. w = [ptr |-> w.ptr, mark |-> w.mark] /\ w.ptr \in Ref /\ w.mark \in BOOLEAN
    BY DEF MarkablePointer
  <2>2. toMarkable_m(w, FALSE) = toMarkable(w.ptr, FALSE)
    BY Remarked
  <2>3. ~ w.mark => w.mark = FALSE
    BY <2>1
  <2> QED BY <2>1, <2>2, <2>3 DEF toMarkable
<1> QED BY <1>2, <1>3, <1>4 DEF Succ, toPtr_m, isMarked_m

\* The variables of an operation that has ended, with references to release.
LEMMA Ended ==
  ASSUME NEW L \in SUBSET Node, NEW m, NEW s \in Seq(Node),
         \/ m = [Resting EXCEPT !.todo = s]
         \/ m = [Resting EXCEPT !.pc = "fault"] /\ s = <<>>
  PROVE  /\ m \in Variables /\ Operation(L, m) /\ Operation(L, m)' /\ Held(m) = {} /\ m.new = NULL
         /\ m.todo = s
         /\ \A n \in Node : Count(m, n) = TodoCount(s, n)
<1>0. NULL_D \in MarkablePointer(Ref) /\ LONG_MIN \in Key \cup {LONG_MIN}
  BY DEF NULL_D, toMarkable, MarkablePointer, Ref
<1>1. /\ m.pc \in {"rest", "fault"}
      /\ m.stage = "first" /\ m.op = "none" /\ m.key = LONG_MIN /\ m.prev = NULL
      /\ m.cur = NULL /\ m.nxt = NULL /\ m.new = NULL /\ m.seen = NULL_D /\ m.todo = s
  BY DEF Resting
<1>2. m \in Variables
  BY <1>0 DEF Resting, Variables, Pc, Ref
<1>3. Places(m) /\ Purpose(m) /\ Fresh(L, m) /\ Sound(L, m) /\ Knows(L, m)
  <2>1. Places(m)
    BY <1>1 DEF Places, Walk, Here, NULL, head, tail
  <2>2. Purpose(m)
    BY <1>1 DEF Purpose
  <2>3. Fresh(L, m)
    BY <1>1 DEF Fresh
  <2>4. Sound(L, m)
    BY <1>1 DEF Sound
  <2>5. Knows(L, m)
    BY <1>1 DEF Knows
  <2> QED BY <2>1, <2>2, <2>3, <2>4, <2>5
<1>4. (Places(m) /\ Purpose(m) /\ Fresh(L, m) /\ Sound(L, m) /\ Knows(L, m))'
  <2>1. Places(m)'
    BY <1>1 DEF Places, Walk, Here, NULL, head, tail
  <2>2. Purpose(m)'
    BY <1>1 DEF Purpose
  <2>3. Fresh(L, m)'
    BY <1>1 DEF Fresh
  <2>4. Sound(L, m)'
    BY <1>1 DEF Sound
  <2>5. Knows(L, m)'
    BY <1>1 DEF Knows
  <2> QED BY <2>1, <2>2, <2>3, <2>4, <2>5
<1>5. Held(m) = {}
  BY <1>1 DEF Held
<1>6. ASSUME NEW n \in Node PROVE Count(m, n) = TodoCount(s, n)
  <2>1. TodoCount(s, n) \in Nat /\ Is(NULL, n) = 0
    BY IsType DEF TodoCount, At
  <2> QED BY <1>1, <2>1 DEF Count
<1> QED BY <1>1, <1>2, <1>3, <1>4, <1>5, <1>6 DEF Operation

\* The link of the node to unlink is read, without its mark.
LEMMA ReadUnlinkedStep ==
  ASSUME NEW L \in SUBSET Node, ListInv(L), NEW t \in Thread, ReadUnlinked(t)
  PROVE  ListInv(L)'
<1>1. PICK k \in Variables : k = my[t] /\ Operation(L, k) /\ k.pc = "unlink" /\ k.todo = <<>>
  BY Running DEF ReadUnlinked, Ready
<1>2. k.cur \in Node
  BY <1>1 DEF Operation, Places, Here, Variables, Ref
<1>3. PICK m : m = [k EXCEPT !.seen = toMarkable(Succ(k.cur), FALSE), !.pc = "casUnlink"]
  OBVIOUS
<1>4. my' = [my EXCEPT ![t] = m] /\ Local
  BY <1>1, <1>2, <1>3, LinkWords DEF ReadUnlinked
<1>5. toMarkable(Succ(k.cur), FALSE) \in MarkablePointer(Ref)
  BY <1>2, LinkWords DEF toMarkable, MarkablePointer
<1>6. /\ m \in Variables /\ m.pc = "casUnlink" /\ m.seen = toMarkable(Succ(k.cur), FALSE)
      /\ m.prev = k.prev /\ m.cur = k.cur /\ m.nxt = k.nxt /\ m.new = k.new
      /\ m.op = k.op /\ m.key = k.key /\ m.stage = k.stage /\ m.todo = <<>>
  BY <1>1, <1>3, <1>5 DEF Variables, Pc
<1>7. Operation(L, m)
  <2>1. Places(m) /\ Purpose(m)
    BY <1>1, <1>6 DEF Operation, Places, Purpose, Here, Walk
  <2>2. Fresh(L, m) /\ Sound(L, m)
    BY <1>1, <1>6 DEF Operation, Fresh, Sound, Unchecked
  <2>3. Knows(L, m)
    BY <1>1, <1>6 DEF Operation, Knows
  <2> QED BY <2>1, <2>2, <2>3 DEF Operation
<1>8. Enough(L, L, k, m, NULL)
  <2>1. ASSUME NEW n \in Node PROVE Count(m, n) <= Count(k, n) + Is(NULL, n)
    BY <1>1, <1>6, IsType, TodoFew DEF Count
  <2> QED BY <1>6, <2>1, Cheaper
<1>9. Held(m) \subseteq HeldNodes(my, L)
  BY <1>1, <1>6, Running DEF Held, Unchecked
<1>10. Len(m.todo) <= 4 /\ m.new \in {NULL, my[t].new}
  BY <1>1, <1>6
<1> QED BY <1>1, <1>4, <1>6, <1>7, <1>8, <1>9, <1>10, Running, LocalFrame DEF Local

\* The word of a variable that holds no reference is marked, and leads nowhere.
LEMMA NullWord == NULL_D \in MarkablePointer(Ref) /\ toPtr_m(NULL_D) = NULL /\ isMarked_m(NULL_D)
BY DEF NULL_D, toMarkable, MarkablePointer, Ref, toPtr_m, isMarked_m

\* The word is loaded; a marked one ends the reading.
LEMMA LoadStep ==
  ASSUME NEW L \in SUBSET Node, ListInv(L), NEW t \in Thread, Load(t)
  PROVE  ListInv(L)'
<1>0. Local
  BY DEF Load
<1>1. PICK k \in Variables : /\ k = my[t] /\ Operation(L, k) /\ k.pc = "load" /\ k.todo = <<>>
                            /\ ~ (k.stage = "next" /\ k.cur = tail)
  BY Running DEF Load, Ready, AtTail
<1>2. PICK p : p = Source(t) /\ p = IF k.stage = "next" THEN k.cur ELSE k.prev
  BY <1>1 DEF Source
<1>3. p \in Node /\ k.prev # NULL /\ (k.stage = "next" => p = k.cur)
  BY <1>1, <1>2 DEF Operation, Places, Walk, Variables, Ref
<1>4. PICK w : w = next[p]
  OBVIOUS
<1>5. w \in MarkablePointer(Ref)
  BY <1>3, <1>4, LinkWords
<1>6. CASE ~ isMarked_m(w)
  <2>1. PICK m : m = [k EXCEPT !.seen = w, !.pc = "retain"]
    OBVIOUS
  <2>2. my' = [my EXCEPT ![t] = m]
    BY <1>1, <1>2, <1>4, <1>6, <2>1 DEF Load
  <2>3. /\ m \in Variables
        /\ m.pc = "retain" /\ m.stage = k.stage /\ m.op = k.op /\ m.key = k.key
        /\ m.prev = k.prev /\ m.cur = k.cur /\ m.nxt = k.nxt /\ m.new = k.new
        /\ m.seen = w /\ m.todo = k.todo
    BY <1>1, <1>5, <2>1 DEF Variables, Pc, Ref
  <2>4. Operation(L, m)
    <3>1. Places(m)
      BY <1>1, <2>3, <1>6 DEF Operation, Places, Here, Walk, NULL, head, tail
    <3>2. Purpose(m)
      BY <1>1, <2>3 DEF Operation, Purpose
    <3>3. Fresh(L, m)
      BY <1>1, <2>3 DEF Operation, Fresh
    <3>4. Sound(L, m)
      BY <1>1, <2>3 DEF Operation, Sound, Unchecked
    <3>5. Knows(L, m)
      BY <1>1, <2>3 DEF Operation, Knows
    <3> QED BY <3>1, <3>2, <3>3, <3>4, <3>5 DEF Operation
  <2>5. Enough(L, L, k, m, NULL)
    <3>1. ASSUME NEW n \in Node PROVE Count(m, n) <= Count(k, n) + Is(NULL, n)
      BY <1>1, <2>3, IsType, TodoFew DEF Count
    <3> QED BY <2>3, <3>1, Cheaper
  <2>6. Held(m) \subseteq HeldNodes(my, L)
    BY <1>1, <2>3, Running DEF Held, Unchecked
  <2>7. Len(m.todo) <= 4 /\ m.new \in {NULL, my[t].new}
    BY <1>1, <2>3
  <2> QED BY <1>1, <1>0, <2>2, <2>3, <2>4, <2>5, <2>6, <2>7, Running, LocalFrame DEF Local
<1>7. CASE isMarked_m(w) /\ k.stage = "next"
  <2>1. PICK m : m = [k EXCEPT !.nxt = NULL, !.seen = NULL_D, !.pc = "unlink"]
    OBVIOUS
  <2>2. my' = [my EXCEPT ![t] = m]
    BY <1>1, <1>2, <1>4, <1>7, <2>1 DEF Load, Got
  <2>3. /\ m \in Variables
        /\ m.pc = "unlink" /\ m.stage = k.stage /\ m.op = k.op /\ m.key = k.key
        /\ m.prev = k.prev /\ m.cur = k.cur /\ m.nxt = NULL /\ m.new = k.new
        /\ m.seen = NULL_D /\ m.todo = k.todo
    <3>1. NULL \in Ref /\ NULL_D \in MarkablePointer(Ref) /\ "unlink" \in Pc
      BY NullWord DEF Ref, Pc
    <3>2. m \in Variables
      BY <2>1, <3>1 DEF Variables
    <3> QED BY <2>1, <3>2 DEF Variables
  <2>4. Operation(L, m)
    <3>1. Places(m)
      BY <1>1, <2>3, <1>3, <1>7 DEF Operation, Places, Here, Walk, NULL, head, tail
    <3>2. Purpose(m)
      BY <1>1, <2>3, <1>7 DEF Operation, Purpose
    <3>3. Fresh(L, m)
      BY <1>1, <2>3 DEF Operation, Fresh
    <3>4. Sound(L, m)
      BY <1>1, <2>3 DEF Operation, Sound, Unchecked
    <3>5. Knows(L, m)
      BY <1>1, <2>3, <1>3, <1>4, <1>7 DEF Operation, Knows
    <3> QED BY <3>1, <3>2, <3>3, <3>4, <3>5 DEF Operation
  <2>5. Enough(L, L, k, m, NULL)
    <3>1. ASSUME NEW n \in Node PROVE Count(m, n) <= Count(k, n) + Is(NULL, n)
      BY <1>1, <2>3, IsType, TodoFew DEF Count
    <3> QED BY <2>3, <3>1, Cheaper
  <2>6. Held(m) \subseteq HeldNodes(my, L)
    BY <1>1, <2>3, Running DEF Held, Unchecked
  <2>7. Len(m.todo) <= 4 /\ m.new \in {NULL, my[t].new}
    BY <1>1, <2>3
  <2> QED BY <1>1, <1>0, <2>2, <2>3, <2>4, <2>5, <2>6, <2>7, Running, LocalFrame DEF Local
<1>8. CASE isMarked_m(w) /\ k.stage # "next"
  <2>1. StartAgain(t, <<>>)
    BY <1>1, <1>2, <1>4, <1>8 DEF Load, Got
  <2>2. my[t].prev # NULL /\ my[t].op # "none" /\ my[t].pc \notin {"create", "grabRetain"}
    BY <1>1, <1>3 DEF Operation, Purpose
  <2>3. <<>> \in Seq(Node) /\ Len(<<>>) <= 2 /\ my[t].todo = <<>>
    BY <1>1
  <2>4. ASSUME NEW n \in Node PROVE TodoCount(<<>>, n) <= Is(my[t].cur, n) + Is(my[t].nxt, n)
    BY TodoDropped
  <2> QED BY <1>0, <2>1, <2>2, <2>3, <2>4, Restart
<1> QED BY <1>6, <1>7, <1>8

\* The tail is as far as a scan goes.
LEMMA ReachTailStep ==
  ASSUME NEW L \in SUBSET Node, ListInv(L), NEW t \in Thread, ReachTail(t)
  PROVE  ListInv(L)'
<1>a. Local
  BY DEF ReachTail
<1>b. PICK k \in Variables : /\ k = my[t] /\ Operation(L, k) /\ k.pc = "load" /\ k.todo = <<>>
                            /\ k.stage = "next" /\ k.cur = tail
  BY Running DEF ReachTail, Ready, AtTail
<1>1. PICK m : m = [k EXCEPT !.pc = "arrived"]
  OBVIOUS
<1>2. my' = [my EXCEPT ![t] = m]
  BY <1>b, <1>1 DEF ReachTail
<1>3. /\ m \in Variables
      /\ m.pc = "arrived" /\ m.stage = k.stage /\ m.op = k.op /\ m.key = k.key
      /\ m.prev = k.prev /\ m.cur = k.cur /\ m.nxt = k.nxt /\ m.new = k.new
      /\ m.seen = k.seen /\ m.todo = k.todo
  <2>1. NULL \in Ref /\ NULL_D \in MarkablePointer(Ref) /\ "arrived" \in Pc
    BY NullWord DEF Ref, Pc
  <2>2. m \in Variables
    BY <1>b, <1>1, <2>1 DEF Variables
  <2> QED BY <1>b, <1>1, <2>2 DEF Variables
<1>4. Operation(L, m)
  <2>1. Places(m)
    BY <1>b, <1>3 DEF Operation, Places, Here, Walk, NULL, head, tail
  <2>2. Purpose(m)
    BY <1>b, <1>3 DEF Operation, Purpose
  <2>3. Fresh(L, m)
    BY <1>b, <1>3 DEF Operation, Fresh
  <2>4. Sound(L, m)
    BY <1>b, <1>3 DEF Operation, Sound, Unchecked
  <2>5. Knows(L, m)
    BY <1>b, <1>3 DEF Operation, Knows
  <2> QED BY <2>1, <2>2, <2>3, <2>4, <2>5 DEF Operation
<1>5. Enough(L, L, k, m, NULL)
  <2>1. ASSUME NEW n \in Node PROVE Count(m, n) <= Count(k, n) + Is(NULL, n)
    BY <1>b, <1>3, IsType, TodoFew DEF Count
  <2> QED BY <1>3, <2>1, Cheaper
<1>6. Held(m) \subseteq HeldNodes(my, L)
  BY <1>b, <1>3, Running DEF Held, Unchecked
<1>7. Len(m.todo) <= 4 /\ m.new \in {NULL, my[t].new}
  BY <1>b, <1>3
<1> QED BY <1>b, <1>a, <1>2, <1>3, <1>4, <1>5, <1>6, <1>7, Running, LocalFrame DEF Local

\* The extraction of the minimum has found its element.
LEMMA CheckMarkStep ==
  ASSUME NEW L \in SUBSET Node, ListInv(L), NEW t \in Thread, CheckMark(t)
  PROVE  ListInv(L)'
<1>a. Local
  BY DEF CheckMark
<1>b. PICK k \in Variables : /\ k = my[t] /\ Operation(L, k) /\ k.pc = "arrived" /\ k.todo = <<>>
                            /\ k.op = "extractMinimum" /\ k.nxt # NULL
  BY Running DEF CheckMark, Ready, Arrived, NoNext, Minimum
<1>c. CASE isMarked_m(next[k.cur])
  <2>1. PICK m : m = [k EXCEPT !.pc = "unlink", !.stage = "delete"]
    OBVIOUS
  <2>2. my' = [my EXCEPT ![t] = m]
    BY <1>b, <1>c, <2>1 DEF CheckMark
  <2>3. /\ m \in Variables
        /\ m.pc = "unlink" /\ m.stage = "delete" /\ m.op = k.op /\ m.key = k.key
        /\ m.prev = k.prev /\ m.cur = k.cur /\ m.nxt = k.nxt /\ m.new = k.new
        /\ m.seen = k.seen /\ m.todo = k.todo
    <3>1. NULL \in Ref /\ NULL_D \in MarkablePointer(Ref) /\ "unlink" \in Pc
      BY NullWord DEF Ref, Pc
    <3>2. m \in Variables
      BY <1>b, <2>1, <3>1 DEF Variables
    <3> QED BY <1>b, <2>1, <3>2 DEF Variables
  <2>4. Operation(L, m)
    <3>1. Places(m)
      BY <1>b, <2>3 DEF Operation, Places, Here, Walk, NULL, head, tail
    <3>2. Purpose(m)
      BY <1>b, <2>3 DEF Operation, Purpose
    <3>3. Fresh(L, m)
      BY <1>b, <2>3 DEF Operation, Fresh
    <3>4. Sound(L, m)
      BY <1>b, <2>3 DEF Operation, Sound, Unchecked
    <3>5. Knows(L, m)
      BY <1>b, <2>3, <1>c DEF Operation, Knows
    <3> QED BY <3>1, <3>2, <3>3, <3>4, <3>5 DEF Operation
  <2>5. Enough(L, L, k, m, NULL)
    <3>1. ASSUME NEW n \in Node PROVE Count(m, n) <= Count(k, n) + Is(NULL, n)
      BY <1>b, <2>3, IsType, TodoFew DEF Count
    <3> QED BY <2>3, <3>1, Cheaper
  <2>6. Held(m) \subseteq HeldNodes(my, L)
    BY <1>b, <2>3, Running DEF Held, Unchecked
  <2>7. Len(m.todo) <= 4 /\ m.new \in {NULL, my[t].new}
    BY <1>b, <2>3
  <2> QED BY <1>b, <1>a, <2>2, <2>3, <2>4, <2>5, <2>6, <2>7, Running, LocalFrame DEF Local
<1>d. CASE ~ isMarked_m(next[k.cur])
  <2>1. PICK m : m = [k EXCEPT !.pc = "mark"]
    OBVIOUS
  <2>2. my' = [my EXCEPT ![t] = m]
    BY <1>b, <1>d, <2>1 DEF CheckMark
  <2>3. /\ m \in Variables
        /\ m.pc = "mark" /\ m.stage = k.stage /\ m.op = k.op /\ m.key = k.key
        /\ m.prev = k.prev /\ m.cur = k.cur /\ m.nxt = k.nxt /\ m.new = k.new
        /\ m.seen = k.seen /\ m.todo = k.todo
    <3>1. NULL \in Ref /\ NULL_D \in MarkablePointer(Ref) /\ "mark" \in Pc
      BY NullWord DEF Ref, Pc
    <3>2. m \in Variables
      BY <1>b, <2>1, <3>1 DEF Variables
    <3> QED BY <1>b, <2>1, <3>2 DEF Variables
  <2>4. Operation(L, m)
    <3>1. Places(m)
      BY <1>b, <2>3 DEF Operation, Places, Here, Walk, NULL, head, tail
    <3>2. Purpose(m)
      BY <1>b, <2>3 DEF Operation, Purpose
    <3>3. Fresh(L, m)
      BY <1>b, <2>3 DEF Operation, Fresh
    <3>4. Sound(L, m)
      BY <1>b, <2>3 DEF Operation, Sound, Unchecked
    <3>5. Knows(L, m)
      BY <1>b, <2>3 DEF Operation, Knows
    <3> QED BY <3>1, <3>2, <3>3, <3>4, <3>5 DEF Operation
  <2>5. Enough(L, L, k, m, NULL)
    <3>1. ASSUME NEW n \in Node PROVE Count(m, n) <= Count(k, n) + Is(NULL, n)
      BY <1>b, <2>3, IsType, TodoFew DEF Count
    <3> QED BY <2>3, <3>1, Cheaper
  <2>6. Held(m) \subseteq HeldNodes(my, L)
    BY <1>b, <2>3, Running DEF Held, Unchecked
  <2>7. Len(m.todo) <= 4 /\ m.new \in {NULL, my[t].new}
    BY <1>b, <2>3
  <2> QED BY <1>b, <1>a, <2>2, <2>3, <2>4, <2>5, <2>6, <2>7, Running, LocalFrame DEF Local
<1> QED BY <1>c, <1>d

\* The next node is read without a reference.
LEMMA GrabStep ==
  ASSUME NEW L \in SUBSET Node, ListInv(L), NEW t \in Thread, Grab(t)
  PROVE  ListInv(L)'
<1>a. Local
  BY DEF Grab
<1>b. PICK k \in Variables : /\ k = my[t] /\ Operation(L, k) /\ k.pc = "grab" /\ k.todo = <<>>
  BY Running DEF Grab, Ready
<1>c. k.cur \in Node /\ Succ(k.cur) \in Ref /\ k.op = "extractWithKey"
  BY <1>b, LinkWords DEF Operation, Places, Purpose, Here, Variables, Ref
<1>1. PICK m : m = [k EXCEPT !.nxt = Succ(k.cur), !.pc = "grabRetain"]
  OBVIOUS
<1>2. my' = [my EXCEPT ![t] = m]
  BY <1>b, <1>c, <1>1 DEF Grab, Succ
<1>3. /\ m \in Variables
      /\ m.pc = "grabRetain" /\ m.stage = k.stage /\ m.op = k.op
      /\ m.key = k.key /\ m.prev = k.prev /\ m.cur = k.cur
      /\ m.nxt = Succ(k.cur) /\ m.new = k.new /\ m.seen = k.seen
      /\ m.todo = k.todo
  <2>1. NULL \in Ref /\ NULL_D \in MarkablePointer(Ref) /\ "grabRetain" \in Pc
    BY NullWord DEF Ref, Pc
  <2>2. m \in Variables
    BY <1>b, <1>c, <1>1, <2>1 DEF Variables
  <2> QED BY <1>b, <1>c, <1>1, <2>2 DEF Variables
<1>4. Operation(L, m)
  <2>1. Places(m)
    BY <1>b, <1>c, <1>3 DEF Operation, Places, Here, Walk, NULL, head, tail
  <2>2. Purpose(m)
    BY <1>b, <1>c, <1>3 DEF Operation, Purpose
  <2>3. Fresh(L, m)
    BY <1>b, <1>c, <1>3 DEF Operation, Fresh
  <2>4. Sound(L, m)
    BY <1>b, <1>c, <1>3, <1>c DEF Operation, Sound, Unchecked, Solid
  <2>5. Knows(L, m)
    BY <1>b, <1>c, <1>3 DEF Operation, Knows
  <2> QED BY <2>1, <2>2, <2>3, <2>4, <2>5 DEF Operation
<1>5. Enough(L, L, k, m, NULL)
  <2>1. ASSUME NEW n \in Node PROVE Count(m, n) <= Count(k, n) + Is(NULL, n)
    BY <1>b, <1>c, <1>3, IsType, TodoFew DEF Count
  <2> QED BY <1>3, <2>1, Cheaper
<1>6. Held(m) \subseteq HeldNodes(my, L)
  BY <1>b, <1>c, <1>3, Running DEF Held, Unchecked
<1>7. Len(m.todo) <= 4 /\ m.new \in {NULL, my[t].new}
  BY <1>b, <1>c, <1>3
<1> QED BY <1>b, <1>a, <1>2, <1>3, <1>4, <1>5, <1>6, <1>7, Running, LocalFrame DEF Local

\* An extraction by key begins.
LEMMA ExtractElementWithKeyStep ==
  ASSUME NEW L \in SUBSET Node, ListInv(L), NEW t \in Thread, NEW j \in Key, ExtractElementWithKey(t, j)
  PROVE  ListInv(L)'
<1>a. UNCHANGED <<cmemVars, key, published, delivered>>
  BY DEF ExtractElementWithKey
<1>b. PICK k \in Variables : k = my[t] /\ k.pc = "rest" /\ k.todo = <<>> /\ "extractWithKey" \in Op
  BY Running DEF ExtractElementWithKey, CanCall, Ready
<1>1. PICK m : m = [Resting EXCEPT !.pc = "scan", !.op = "extractWithKey", !.key = j]
  OBVIOUS
<1>2. my' = [my EXCEPT ![t] = m]
  BY <1>1 DEF ExtractElementWithKey
<1>3. /\ m \in Variables
      /\ m.pc = "scan" /\ m.stage = "first" /\ m.op = "extractWithKey" /\ m.key = j
      /\ m.prev = NULL /\ m.cur = NULL /\ m.nxt = NULL /\ m.new = NULL
      /\ m.seen = NULL_D /\ m.todo = <<>>
  <2>1. NULL \in Ref /\ NULL_D \in MarkablePointer(Ref) /\ "scan" \in Pc /\ <<>> \in Seq(Node)
    BY NullWord DEF Ref, Pc
  <2>2. m \in Variables
    BY <1>b, <1>1, <2>1 DEF Variables, Resting
  <2> QED BY <1>1, <2>2 DEF Resting
<1>4. Operation(L, m)
  <2>1. Places(m)
    BY <1>3 DEF Operation, Places, Here, Walk, NULL, head, tail
  <2>2. Purpose(m)
    BY <1>3 DEF Operation, Purpose
  <2>3. Fresh(L, m)
    BY <1>3 DEF Operation, Fresh
  <2>4. Sound(L, m)
    BY <1>3 DEF Operation, Sound, Unchecked
  <2>5. Knows(L, m)
    BY <1>3 DEF Operation, Knows
  <2> QED BY <2>1, <2>2, <2>3, <2>4, <2>5 DEF Operation
<1>5. Enough(L, L, k, m, NULL)
  <2>1. ASSUME NEW n \in Node PROVE Count(m, n) <= Count(k, n) + Is(NULL, n)
    <3>1. Count(k, n) \in Nat
      BY CountBound DEF Most
    <3>2. Count(m, n) = 0 /\ Is(NULL, n) = 0
      BY <1>3, IsType, TodoFew DEF Count
    <3> QED BY <3>1, <3>2
  <2> QED BY <1>3, <2>1, Cheaper
<1>6. Held(m) \subseteq HeldNodes(my, L)
  BY <1>3 DEF Held
<1>7. Len(m.todo) <= 4 /\ m.new \in {NULL, my[t].new}
  BY <1>3
<1>8. calls' \in [Thread -> 0 .. Calls]
  <2>1. calls \in [Thread -> 0 .. Calls] /\ calls[t] < Calls /\ calls' = [calls EXCEPT ![t] = @ + 1]
    BY Running DEF ExtractElementWithKey, CanCall, Called
  <2>2. calls[t] + 1 \in 0 .. Calls
    BY <2>1, ListAssumption
  <2> QED BY <2>1, <2>2
<1> QED BY <1>a, <1>b, <1>2, <1>3, <1>4, <1>5, <1>6, <1>7, <1>8, LocalFrame

\* A help that ended at the tail.
LEMMA UnreachableStep ==
  ASSUME NEW L \in SUBSET Node, ListInv(L), NEW t \in Thread, Unreachable(t)
  PROVE  ListInv(L)'
<1>1. PICK k \in Variables : k = my[t] /\ Operation(L, k) /\ k.pc = "arrived" /\ k.todo = <<>>
  BY Running DEF Unreachable, Ready
<1>2. k.prev # NULL /\ k.cur \in Node /\ k.op # "none" /\ k.pc \notin {"create", "grabRetain"}
  BY <1>1 DEF Operation, Places, Purpose, Here, Variables, Ref
<1>3. StartAgain(t, <<k.cur>>) /\ Local /\ <<k.cur>> \in Seq(Node) /\ Len(<<k.cur>>) <= 2
  BY <1>1, <1>2 DEF Unreachable
<1>4. ASSUME NEW n \in Node PROVE TodoCount(<<k.cur>>, n) <= Is(k.cur, n) + Is(k.nxt, n)
  BY TodoDropped
<1> QED BY <1>1, <1>2, <1>3, <1>4, Restart

\* The operations that lose a race.
LEMMA PublishFailsStep ==
  ASSUME NEW L \in SUBSET Node, ListInv(L), NEW t \in Thread, PublishFails(t)
  PROVE  ListInv(L)'
<1>1. PICK k \in Variables : k = my[t] /\ Operation(L, k) /\ k.pc = "publish" /\ k.todo = <<>>
  BY Running DEF PublishFails, Ready
<1>2. k.prev # NULL /\ k.cur \in Node /\ k.op # "none" /\ k.pc \notin {"create", "grabRetain"}
  BY <1>1 DEF Operation, Places, Purpose, Here, Variables, Ref
<1>3. StartAgain(t, <<k.cur>>) /\ Local /\ <<k.cur>> \in Seq(Node) /\ Len(<<k.cur>>) <= 2
  BY <1>1, <1>2 DEF PublishFails
<1>4. ASSUME NEW n \in Node PROVE TodoCount(<<k.cur>>, n) <= Is(k.cur, n) + Is(k.nxt, n)
  BY TodoDropped
<1> QED BY <1>1, <1>2, <1>3, <1>4, Restart

\* The link of the node to extract has changed.
LEMMA MarkFailsStep ==
  ASSUME NEW L \in SUBSET Node, ListInv(L), NEW t \in Thread, MarkFails(t)
  PROVE  ListInv(L)'
<1>1. PICK k \in Variables : k = my[t] /\ Operation(L, k) /\ k.pc = "mark" /\ k.todo = <<>>
  BY Running DEF MarkFails, Ready
<1>2. k.prev # NULL /\ k.cur \in Node /\ k.op # "none" /\ k.pc \notin {"create", "grabRetain"}
  BY <1>1 DEF Operation, Places, Purpose, Here, Variables, Ref
<1>3. k.nxt \in Node
  BY <1>1 DEF Operation, Places, Variables, Ref
<1>4. /\ StartAgain(t, <<k.cur, k.nxt>>) /\ Local
      /\ <<k.cur, k.nxt>> \in Seq(Node) /\ Len(<<k.cur, k.nxt>>) <= 2
  BY <1>1, <1>2, <1>3 DEF MarkFails
<1>5. ASSUME NEW n \in Node PROVE TodoCount(<<k.cur, k.nxt>>, n) <= Is(k.cur, n) + Is(k.nxt, n)
  BY TodoDropped
<1> QED BY <1>1, <1>2, <1>4, <1>5, Restart

\* The link before the node to extract has changed.
LEMMA UnlinkKeyFailsStep ==
  ASSUME NEW L \in SUBSET Node, ListInv(L), NEW t \in Thread, UnlinkKeyFails(t)
  PROVE  ListInv(L)'
<1>1. PICK k \in Variables : k = my[t] /\ Operation(L, k) /\ k.pc = "casUnlinkKey" /\ k.todo = <<>>
  BY Running DEF UnlinkKeyFails, Ready
<1>2. k.prev # NULL /\ k.cur \in Node /\ k.op # "none" /\ k.pc \notin {"create", "grabRetain"}
  BY <1>1 DEF Operation, Places, Purpose, Here, Variables, Ref
<1>3. k.nxt \in Node
  BY <1>1 DEF Operation, Places, Variables, Ref
<1>4. /\ StartAgain(t, <<k.cur, k.nxt>>) /\ Local
      /\ <<k.cur, k.nxt>> \in Seq(Node) /\ Len(<<k.cur, k.nxt>>) <= 2
  BY <1>1, <1>2, <1>3 DEF UnlinkKeyFails
<1>5. ASSUME NEW n \in Node PROVE TodoCount(<<k.cur, k.nxt>>, n) <= Is(k.cur, n) + Is(k.nxt, n)
  BY TodoDropped
<1> QED BY <1>1, <1>2, <1>4, <1>5, Restart

\* The link before the deleted node has changed.
LEMMA UnlinkFailsStep ==
  ASSUME NEW L \in SUBSET Node, ListInv(L), NEW t \in Thread, UnlinkFails(t)
  PROVE  ListInv(L)'
<1>1. PICK k \in Variables : k = my[t] /\ Operation(L, k) /\ k.pc = "casUnlink" /\ k.todo = <<>>
  BY Running DEF UnlinkFails, Ready
<1>2. k.prev # NULL /\ k.cur \in Node /\ k.op # "none" /\ k.pc \notin {"create", "grabRetain"}
  BY <1>1 DEF Operation, Places, Purpose, Here, Variables, Ref
<1>3. Local
  BY DEF UnlinkFails
<1>4. CASE k.nxt = NULL
  <2>1. StartAgain(t, <<k.cur>>) /\ <<k.cur>> \in Seq(Node) /\ Len(<<k.cur>>) <= 2
    BY <1>1, <1>2, <1>4 DEF UnlinkFails, AfterFailedUnlink
  <2>2. ASSUME NEW n \in Node PROVE TodoCount(<<k.cur>>, n) <= Is(k.cur, n) + Is(k.nxt, n)
    BY TodoDropped
  <2> QED BY <1>1, <1>2, <1>3, <2>1, <2>2, Restart
<1>5. CASE k.nxt # NULL
  <2>1. k.nxt \in Node
    BY <1>5 DEF Variables, Ref
  <2>2. /\ StartAgain(t, <<k.cur, k.nxt>>)
        /\ <<k.cur, k.nxt>> \in Seq(Node) /\ Len(<<k.cur, k.nxt>>) <= 2
    BY <1>1, <1>2, <1>5, <2>1 DEF UnlinkFails, AfterFailedUnlink
  <2>3. ASSUME NEW n \in Node PROVE TodoCount(<<k.cur, k.nxt>>, n) <= Is(k.cur, n) + Is(k.nxt, n)
    BY TodoDropped
  <2> QED BY <1>1, <1>2, <1>3, <2>2, <2>3, Restart
<1> QED BY <1>4, <1>5

\* A reference that there may be, before the others.
LEMMA TodoAnd ==
  ASSUME NEW p \in Ref, NEW s \in Seq(Node), Len(s) <= 3
  PROVE  /\ AndThen(p, s) \in Seq(Node) /\ Len(AndThen(p, s)) <= 4
         /\ \A n \in Node : TodoCount(AndThen(p, s), n) = Is(p, n) + TodoCount(s, n)
<1>1. CASE p = NULL
  <2>1. AndThen(p, s) = s
    BY <1>1 DEF AndThen
  <2>2. ASSUME NEW n \in Node PROVE TodoCount(s, n) = Is(p, n) + TodoCount(s, n)
    <3>1. Is(p, n) = 0 /\ TodoCount(s, n) \in Nat
      BY <1>1, IsType DEF TodoCount, At
    <3> QED BY <3>1
  <2> QED BY <2>1, <2>2
<1>2. CASE p # NULL
  <2>1. AndThen(p, s) = <<p>> \o s /\ p \in Node
    BY <1>2 DEF AndThen, Ref
  <2> QED BY <2>1, TodoMore
<1> QED BY <1>1, <1>2

\* A scan goes on to the next node.
LEMMA AdvanceStep ==
  ASSUME NEW L \in SUBSET Node, ListInv(L), NEW t \in Thread, Advance(t)
  PROVE  ListInv(L)'
<1>a. Local
  BY DEF Advance
<1>b. PICK k \in Variables : /\ k = my[t] /\ Operation(L, k) /\ k.pc = "arrived" /\ k.todo = <<>>
                            /\ k.op # "extractMinimum" /\ (k.nxt # NULL \/ k.cur = tail)
                            /\ ~ key[k.cur] >= k.key
  BY Running DEF Advance, Ready, Arrived, NoNext, Minimum, FarEnough
<1>c. /\ k.prev \in Node /\ k.cur \in Node /\ k.nxt \in Ref
      /\ k.op \in {"insert", "extractWithKey"} /\ k.key \in Key
  <2>1. k.op \in Op \cup {"none"} /\ k.prev \in Ref /\ k.cur \in Ref /\ k.nxt \in Ref
    BY DEF Variables
  <2>2. k.op # "none" /\ k.prev # NULL /\ k.cur # NULL
    BY <1>b DEF Operation, Purpose, Places, Here
  <2> QED BY <1>b, <2>1, <2>2, ListAssumption DEF Operation, Purpose, Ref
<1>d. /\ key[k.cur] \in Nat /\ k.key \in Nat /\ LONG_MAX \in Nat /\ k.key <= LONG_MAX
      /\ key[tail] = LONG_MAX
  BY <1>c, KeyTypes DEF ListInv, Shape, Ends
<1>e. k.cur # tail /\ k.nxt # NULL /\ key[k.cur] < k.key
  <2>1. key[k.cur] < k.key
    BY <1>b, <1>d
  <2>2. k.cur # tail
    BY <1>d, <2>1
  <2> QED BY <1>b, <2>1, <2>2
<1>f. k.nxt # head
  BY <1>b, <1>e DEF Operation, Sound, Unchecked
<1>1. PICK m : m = [k EXCEPT !.pc = "load", !.stage = "next", !.prev = k.cur, !.cur = k.nxt,
                           !.nxt = NULL, !.todo = <<k.prev>>]
  OBVIOUS
<1>2. my' = [my EXCEPT ![t] = m]
  BY <1>b, <1>1 DEF Advance
<1>3. /\ m \in Variables
      /\ m.pc = "load" /\ m.stage = "next" /\ m.op = k.op /\ m.key = k.key
      /\ m.prev = k.cur /\ m.cur = k.nxt /\ m.nxt = NULL /\ m.new = k.new
      /\ m.seen = k.seen /\ m.todo = <<k.prev>>
  <2>1. NULL \in Ref /\ NULL_D \in MarkablePointer(Ref) /\ "load" \in Pc
    BY NullWord DEF Ref, Pc
  <2>2. m \in Variables
    <3>1. <<k.prev>> \in Seq(Node) /\ k.cur \in Ref /\ k.nxt \in Ref
      BY <1>c DEF Ref
    <3> QED BY <1>1, <2>1, <3>1 DEF Variables
  <2>3. m.todo = <<k.prev>> /\ m.nxt = NULL
    BY <1>1 DEF Variables
  <2> QED BY <1>1, <2>2, <2>3 DEF Variables
<1>4. Operation(L, m)
  <2>1. Places(m)
    BY <1>b, <1>3, <1>e, <1>f DEF Operation, Places, Here, Walk, NULL, head, tail
  <2>2. Purpose(m)
    BY <1>b, <1>3, <1>c DEF Operation, Purpose
  <2>3. Fresh(L, m)
    BY <1>b, <1>3 DEF Operation, Fresh
  <2>4. Sound(L, m)
    BY <1>b, <1>3, <1>e DEF Operation, Sound, Unchecked, Solid
  <2>5. Knows(L, m)
    BY <1>b, <1>3, <1>e DEF Operation, Knows
  <2> QED BY <2>1, <2>2, <2>3, <2>4, <2>5 DEF Operation
<1>5. Enough(L, L, k, m, NULL)
  <2>1. ASSUME NEW n \in Node PROVE Count(m, n) <= Count(k, n) + Is(NULL, n)
    BY <1>b, <1>3, IsType, TodoFew DEF Count
  <2> QED BY <1>3, <2>1, Cheaper
<1>6. Held(m) \subseteq HeldNodes(my, L)
  BY <1>b, <1>3, Running DEF Held, Unchecked
<1>7. Len(m.todo) <= 4 /\ m.new \in {NULL, my[t].new}
  BY <1>b, <1>3
<1> QED BY <1>b, <1>a, <1>2, <1>3, <1>4, <1>5, <1>6, <1>7, Running, LocalFrame DEF Local

\* A scan returns what it has found.
LEMMA FoundStep ==
  ASSUME NEW L \in SUBSET Node, ListInv(L), NEW t \in Thread, Found(t)
  PROVE  ListInv(L)'
<1>a. Local
  BY DEF Found
<1>b. PICK k \in Variables : /\ k = my[t] /\ Operation(L, k) /\ k.pc = "arrived" /\ k.todo = <<>>
                            /\ k.op # "extractMinimum" /\ key[k.cur] >= k.key
  BY Running DEF Found, Ready, Arrived, Minimum, FarEnough
<1>c. /\ k.prev \in Node /\ k.cur \in Node /\ k.nxt \in Ref
      /\ k.op \in {"insert", "extractWithKey"} /\ k.key \in Key
  <2>1. k.op \in Op \cup {"none"} /\ k.prev \in Ref /\ k.cur \in Ref /\ k.nxt \in Ref
    BY DEF Variables
  <2>2. k.op # "none" /\ k.prev # NULL /\ k.cur # NULL
    BY <1>b DEF Operation, Purpose, Places, Here
  <2> QED BY <1>b, <2>1, <2>2, ListAssumption DEF Operation, Purpose, Ref
<1>d. CASE k.op = "insert" /\ key[k.cur] = k.key
  <2>0. k.new \in Node
    BY <1>b, <1>d DEF Operation, Fresh, Variables, Ref
  <2>s. PICK s : s = AndThen(k.nxt, <<k.cur, k.prev, k.new>>)
    OBVIOUS
  <2>t. /\ s \in Seq(Node) /\ Len(s) <= 4
        /\ \A n \in Node : TodoCount(s, n) = Is(k.nxt, n) + (Is(k.cur, n) + Is(k.prev, n) + Is(k.new, n))
    <3>1. <<k.cur, k.prev, k.new>> \in Seq(Node) /\ Len(<<k.cur, k.prev, k.new>>) <= 3
      BY <1>c, <2>0
    <3>2. /\ s \in Seq(Node) /\ Len(s) <= 4
          /\ \A n \in Node : TodoCount(s, n) = Is(k.nxt, n) + TodoCount(<<k.cur, k.prev, k.new>>, n)
      BY <1>c, <2>s, <3>1, TodoAnd
    <3>3. ASSUME NEW n \in Node
          PROVE  TodoCount(<<k.cur, k.prev, k.new>>, n) = Is(k.cur, n) + Is(k.prev, n) + Is(k.new, n)
      BY TodoThree
    <3> QED BY <3>2, <3>3
  <2>1. PICK m : m = [Resting EXCEPT !.pc = "clearNew", !.new = k.new, !.todo = s]
    OBVIOUS
  <2>2. my' = [my EXCEPT ![t] = m]
    BY <1>b, <1>d, <2>s, <2>1 DEF Found
  <2>3. /\ m \in Variables
        /\ m.pc = "clearNew" /\ m.stage = "first" /\ m.op = "none" /\ m.key = LONG_MIN
        /\ m.prev = NULL /\ m.cur = NULL /\ m.nxt = NULL /\ m.new = k.new
        /\ m.seen = NULL_D /\ m.todo = s
    <3>1. NULL \in Ref /\ NULL_D \in MarkablePointer(Ref) /\ "clearNew" \in Pc /\ k.new \in Ref
      BY <2>0, NullWord DEF Ref, Pc
    <3>2. m \in Variables
      BY <2>t, <2>1, <3>1 DEF Variables, Resting
    <3> QED BY <2>1, <3>2 DEF Resting
  <2>4. Operation(L, m)
    <3>1. Places(m)
      BY <1>b, <1>d, <2>3 DEF Operation, Places, Here, Walk, NULL, head, tail
    <3>2. Purpose(m)
      BY <1>b, <1>d, <2>3 DEF Operation, Purpose
    <3>3. Fresh(L, m)
      BY <1>b, <1>d, <2>3, <2>0 DEF Operation, Fresh, NULL, Node
    <3>4. Sound(L, m)
      BY <1>b, <1>d, <2>3 DEF Operation, Sound, Unchecked
    <3>5. Knows(L, m)
      BY <1>b, <1>d, <2>3 DEF Operation, Knows
    <3> QED BY <3>1, <3>2, <3>3, <3>4, <3>5 DEF Operation
  <2>5. Enough(L, L, k, m, NULL)
    <3>1. ASSUME NEW n \in Node PROVE Count(m, n) <= Count(k, n) + Is(NULL, n)
      BY <1>b, <2>3, <2>t, IsType, TodoFew DEF Count
    <3> QED BY <2>3, <3>1, Cheaper
  <2>6. Held(m) \subseteq HeldNodes(my, L)
    BY <1>b, <2>3, Running DEF Held, Unchecked
  <2>7. Len(m.todo) <= 4 /\ m.new \in {NULL, my[t].new}
    BY <1>b, <2>3, <2>t
  <2> QED BY <1>b, <1>a, <2>2, <2>3, <2>4, <2>5, <2>6, <2>7, Running, LocalFrame DEF Local
<1>e. CASE k.op = "extractWithKey" /\ key[k.cur] # k.key
  <2>s. PICK s : s = AndThen(k.nxt, <<k.prev, k.cur>>)
    OBVIOUS
  <2>t. /\ s \in Seq(Node) /\ Len(s) <= 4
        /\ \A n \in Node : TodoCount(s, n) = Is(k.nxt, n) + (Is(k.prev, n) + Is(k.cur, n))
    <3>1. <<k.prev, k.cur>> \in Seq(Node) /\ Len(<<k.prev, k.cur>>) <= 3
      BY <1>c
    <3>2. /\ s \in Seq(Node) /\ Len(s) <= 4
          /\ \A n \in Node : TodoCount(s, n) = Is(k.nxt, n) + TodoCount(<<k.prev, k.cur>>, n)
      BY <1>c, <2>s, <3>1, TodoAnd
    <3>3. ASSUME NEW n \in Node PROVE TodoCount(<<k.prev, k.cur>>, n) = Is(k.prev, n) + Is(k.cur, n)
      BY TodoFew
    <3> QED BY <3>2, <3>3
  <2>1. PICK m : m = [Resting EXCEPT !.todo = s]
    OBVIOUS
  <2>2. my' = [my EXCEPT ![t] = m]
    BY <1>b, <1>e, <2>s, <2>1 DEF Found, Finish
  <2>3. /\ m \in Variables /\ Operation(L, m) /\ Held(m) = {} /\ m.new = NULL /\ m.todo = s
        /\ \A n \in Node : Count(m, n) = TodoCount(s, n)
    BY <2>t, <2>1, Ended
  <2>4. Enough(L, L, k, m, NULL)
    <3>1. ASSUME NEW n \in Node PROVE Count(m, n) <= Count(k, n) + Is(NULL, n)
      BY <1>b, <2>3, <2>t, IsType, TodoFew DEF Count
    <3> QED BY <2>3, <3>1, Cheaper
  <2> QED BY <1>b, <1>a, <2>2, <2>3, <2>4, <2>t, Running, LocalFrame DEF Local
<1>f. CASE (k.op = "insert" /\ key[k.cur] # k.key) \/ (k.op = "extractWithKey" /\ key[k.cur] = k.key)
  <2>s. PICK s, p : s = AndThen(k.nxt, <<>>) /\ p = IF key[k.cur] = k.key THEN "grab" ELSE "link"
    OBVIOUS
  <2>t. /\ s \in Seq(Node) /\ Len(s) <= 4
        /\ \A n \in Node : TodoCount(s, n) = Is(k.nxt, n) + 0
    <3>1. <<>> \in Seq(Node) /\ Len(<<>>) <= 3
      OBVIOUS
    <3>2. /\ s \in Seq(Node) /\ Len(s) <= 4
          /\ \A n \in Node : TodoCount(s, n) = Is(k.nxt, n) + TodoCount(<<>>, n)
      BY <1>c, <2>s, <3>1, TodoAnd
    <3> QED BY <3>2, TodoFew
  <2>p. /\ \/ p = "link" /\ k.op = "insert" /\ key[k.cur] > k.key
           \/ p = "grab" /\ k.op = "extractWithKey"
        /\ p \in Pc
    <3>1. key[k.cur] \in Int /\ k.key \in Int
      BY <1>c, KeyTypes
    <3>2. key[k.cur] >= k.key
      BY <1>b
    <3>3. CASE key[k.cur] = k.key
      BY <1>f, <2>s, <3>3 DEF Pc
    <3>4. CASE key[k.cur] # k.key
      <4>1. key[k.cur] > k.key
        BY <3>1, <3>2, <3>4
      <4> QED BY <1>f, <2>s, <3>4, <4>1 DEF Pc
    <3> QED BY <3>3, <3>4
  <2>1. PICK m : m = [k EXCEPT !.pc = p, !.nxt = NULL, !.todo = s]
    OBVIOUS
  <2>2. my' = [my EXCEPT ![t] = m]
    BY <1>b, <1>c, <1>f, <2>s, <2>1 DEF Found
  <2>3. /\ m \in Variables
        /\ m.pc = p /\ m.stage = k.stage /\ m.op = k.op /\ m.key = k.key
        /\ m.prev = k.prev /\ m.cur = k.cur /\ m.nxt = NULL /\ m.new = k.new
        /\ m.seen = k.seen /\ m.todo = s
    <3>1. NULL \in Ref /\ NULL_D \in MarkablePointer(Ref)
      BY NullWord DEF Ref, Pc
    <3>2. m \in Variables
      BY <1>b, <2>t, <2>p, <2>1, <3>1 DEF Variables
    <3> QED BY <1>b, <2>1, <3>2 DEF Variables
  <2>4. Operation(L, m)
    <3>1. Places(m)
      BY <1>b, <2>3, <2>p DEF Operation, Places, Here, Walk, NULL, head, tail
    <3>2. Purpose(m)
      BY <1>b, <2>3, <2>p DEF Operation, Purpose
    <3>3. Fresh(L, m)
      BY <1>b, <2>3, <2>p DEF Operation, Fresh
    <3>4. Sound(L, m)
      BY <1>b, <2>3, <2>p DEF Operation, Sound, Unchecked, Solid
    <3>5. Knows(L, m)
      BY <1>b, <2>3, <2>p DEF Operation, Knows
    <3> QED BY <3>1, <3>2, <3>3, <3>4, <3>5 DEF Operation
  <2>5. Enough(L, L, k, m, NULL)
    <3>1. ASSUME NEW n \in Node PROVE Count(m, n) <= Count(k, n) + Is(NULL, n)
      BY <1>b, <2>3, <2>p, <2>t, IsType, TodoFew DEF Count
    <3> QED BY <2>3, <3>1, Cheaper
  <2>6. Held(m) \subseteq HeldNodes(my, L)
    BY <1>b, <2>3, Running DEF Held, Unchecked
  <2>7. Len(m.todo) <= 4 /\ m.new \in {NULL, my[t].new}
    BY <1>b, <2>3, <2>t
  <2> QED BY <1>b, <1>a, <2>2, <2>3, <2>4, <2>5, <2>6, <2>7, Running, LocalFrame DEF Local
<1> QED BY <1>c, <1>d, <1>e, <1>f

\* An operation ends, with references to release.
LEMMA EndStep ==
  ASSUME NEW L \in SUBSET Node, ListInv(L), NEW t \in Thread, NEW s \in Seq(Node), Len(s) <= 4,
         NEW m, my' = [my EXCEPT ![t] = m], Local,
         \/ m = [Resting EXCEPT !.todo = s]
         \/ m = [Resting EXCEPT !.pc = "fault"] /\ s = <<>>,
         \A n \in Node : TodoCount(s, n) <= Count(my[t], n)
  PROVE  ListInv(L)'
<1>1. PICK k \in Variables : k = my[t]
  BY Running
<1>2. /\ m \in Variables /\ Operation(L, m) /\ Held(m) = {} /\ m.new = NULL /\ m.todo = s
      /\ \A n \in Node : Count(m, n) = TodoCount(s, n)
  BY Ended
<1>3. Enough(L, L, k, m, NULL)
  <2>1. ASSUME NEW n \in Node PROVE Count(m, n) <= Count(k, n) + Is(NULL, n)
    <3>1. PICK i, j : i = Count(m, n) /\ j = Count(k, n)
      OBVIOUS
    <3>2. i \in Nat /\ j \in Nat /\ Is(NULL, n) = 0
      BY <1>2, <3>1, CountNat, IsType
    <3>3. i <= j
      BY <1>1, <1>2, <3>1
    <3> QED BY <3>1, <3>2, <3>3
  <2> QED BY <1>2, <2>1, Cheaper
<1> QED BY <1>1, <1>2, <1>3, Running, LocalFrame DEF Local

\* The node is still linked, and retained now, or it is released again.
LEMMA RecheckStep ==
  ASSUME NEW L \in SUBSET Node, ListInv(L), NEW t \in Thread, Recheck(t)
  PROVE  ListInv(L)'
<1>a. Local
  BY DEF Recheck
<1>b. PICK k \in Variables : /\ k = my[t] /\ Operation(L, k) /\ k.pc = "recheck" /\ k.todo = <<>>
  BY Running DEF Recheck, Ready
<1>c. PICK p, n : p = Source(t) /\ n = toPtr_m(k.seen)
  OBVIOUS
<1>d. p = (IF k.stage = "next" THEN k.cur ELSE k.prev)
  BY <1>b, <1>c DEF Source
<1>e. /\ k.prev \in Node /\ n \in Node /\ (k.stage = "next" => k.cur \in Node /\ k.cur # tail)
      /\ k.op # "none" /\ ~ isMarked_m(k.seen) /\ k.prev # tail
  <2>1. n \in Ref
    BY <1>c DEF Variables, MarkablePointer, toPtr_m
  <2> QED BY <1>b, <1>c, <2>1 DEF Operation, Places, Purpose, Walk, Variables, Ref
<1>f. CASE ~ StillLinked(t)
  <2>1. PICK m : m = [k EXCEPT !.pc = "load", !.seen = NULL_D, !.todo = <<n>>]
    OBVIOUS
  <2>2. my' = [my EXCEPT ![t] = m]
    BY <1>b, <1>c, <1>f, <2>1 DEF Recheck
  <2>3. /\ m \in Variables
        /\ m.pc = "load" /\ m.stage = k.stage /\ m.op = k.op /\ m.key = k.key
        /\ m.prev = k.prev /\ m.cur = k.cur /\ m.nxt = k.nxt /\ m.new = k.new
        /\ m.seen = NULL_D /\ m.todo = <<n>>
    <3>1. NULL \in Ref /\ NULL_D \in MarkablePointer(Ref) /\ "load" \in Pc
      BY NullWord DEF Ref, Pc
    <3>2. m \in Variables
      <4>1. <<n>> \in Seq(Node)
        BY <1>e
      <4> QED BY <2>1, <3>1, <4>1 DEF Variables
    <3> QED BY <1>b, <2>1, <3>2 DEF Variables
  <2>4. Operation(L, m)
    <3>1. Places(m)
      BY <1>b, <2>3 DEF Operation, Places, Here, Walk, NULL, head, tail
    <3>2. Purpose(m)
      BY <1>b, <2>3 DEF Operation, Purpose
    <3>3. Fresh(L, m)
      BY <1>b, <2>3 DEF Operation, Fresh
    <3>4. Sound(L, m)
      BY <1>b, <2>3 DEF Operation, Sound, Unchecked
    <3>5. Knows(L, m)
      BY <1>b, <2>3 DEF Operation, Knows
    <3> QED BY <3>1, <3>2, <3>3, <3>4, <3>5 DEF Operation
  <2>5. Enough(L, L, k, m, NULL)
    <3>1. ASSUME NEW x \in Node PROVE Count(m, x) <= Count(k, x) + Is(NULL, x)
      BY <1>b, <1>c, <2>3, NullWord, IsType, TodoFew DEF Count
    <3> QED BY <2>3, <3>1, Cheaper
  <2>6. Held(m) \subseteq HeldNodes(my, L)
    BY <1>b, <2>3, Running DEF Held, Unchecked
  <2>7. Len(m.todo) <= 4 /\ m.new \in {NULL, my[t].new}
    BY <1>b, <2>3
  <2> QED BY <1>b, <1>a, <2>2, <2>3, <2>4, <2>5, <2>6, <2>7, Running, LocalFrame DEF Local
<1>g. CASE StillLinked(t)
  <2>a. p \in L \ {tail} /\ n \in L \ {head}
    <3>1. p \in Node /\ p # tail /\ p # NULL
      BY <1>d, <1>e DEF Node, NULL
    <3>2. Solid(L, p)
      BY <1>b, <1>d, <3>1 DEF Operation, Sound
    <3>3. next[p] = k.seen
      BY <1>b, <1>c, <1>g DEF StillLinked
    <3>4. p \in L /\ Succ(p) = n
      BY <1>c, <1>e, <3>2, <3>3 DEF Solid, Succ
    <3>5. Succ(p) \in L \ {head}
      BY <3>1, <3>4 DEF ListInv, Shape, Links
    <3> QED BY <3>1, <3>4, <3>5
  <2>n. n # NULL /\ n # head /\ n \in L /\ n \in Ref
    BY <1>e, <2>a DEF Node, NULL, Ref
  <2>b. CASE k.stage = "next"
    <3>1. PICK m : m = [k EXCEPT !.nxt = n, !.seen = NULL_D, !.pc = "arrived"]
      OBVIOUS
    <3>2. my' = [my EXCEPT ![t] = m]
      BY <1>b, <1>c, <1>g, <2>b, <2>n, <3>1 DEF Recheck, Got
    <3>3. /\ m \in Variables
          /\ m.pc = "arrived" /\ m.stage = k.stage /\ m.op = k.op /\ m.key = k.key
          /\ m.prev = k.prev /\ m.cur = k.cur /\ m.nxt = n /\ m.new = k.new
          /\ m.seen = NULL_D /\ m.todo = k.todo
      <4>1. NULL \in Ref /\ NULL_D \in MarkablePointer(Ref) /\ "arrived" \in Pc
        BY NullWord DEF Ref, Pc
      <4>2. m \in Variables
        BY <1>b, <2>n, <3>1, <4>1 DEF Variables
      <4> QED BY <1>b, <3>1, <4>2 DEF Variables
    <3>4. Operation(L, m)
      <4>1. Places(m)
        BY <1>b, <3>3, <1>e, <2>b DEF Operation, Places, Here, Walk, NULL, head, tail
      <4>2. Purpose(m)
        BY <1>b, <3>3 DEF Operation, Purpose
      <4>3. Fresh(L, m)
        BY <1>b, <3>3 DEF Operation, Fresh
      <4>4. Sound(L, m)
        BY <1>b, <3>3, <2>n DEF Operation, Sound, Unchecked, Solid
      <4>5. Knows(L, m)
        BY <1>b, <3>3, <2>b DEF Operation, Knows
      <4> QED BY <4>1, <4>2, <4>3, <4>4, <4>5 DEF Operation
    <3>5. Enough(L, L, k, m, NULL)
      <4>1. ASSUME NEW x \in Node PROVE Count(m, x) <= Count(k, x) + Is(NULL, x)
        BY <1>b, <1>c, <3>3, NullWord, IsType, TodoFew DEF Count
      <4> QED BY <3>3, <4>1, Cheaper
    <3>6. Held(m) \subseteq HeldNodes(my, L)
      BY <1>b, <2>n, <3>3, Running DEF Held, Unchecked
    <3>7. Len(m.todo) <= 4 /\ m.new \in {NULL, my[t].new}
      BY <1>b, <3>3
    <3> QED BY <1>b, <1>a, <3>2, <3>3, <3>4, <3>5, <3>6, <3>7, Running, LocalFrame DEF Local
  <2>c. CASE k.stage # "next" /\ n = tail /\ Minimum(t) /\ k.stage = "first"
    <3>1. PICK m : m = [Resting EXCEPT !.todo = <<k.prev, n>>]
      OBVIOUS
    <3>2. my' = [my EXCEPT ![t] = m]
      BY <1>b, <1>c, <1>g, <2>c, <2>n, <3>1 DEF Recheck, Got, Finish
    <3>3. <<k.prev, n>> \in Seq(Node) /\ Len(<<k.prev, n>>) <= 4
      BY <1>e
    <3>4. ASSUME NEW x \in Node PROVE TodoCount(<<k.prev, n>>, x) <= Count(k, x)
      <4>1. TodoCount(<<k.prev, n>>, x) = Is(k.prev, x) + Is(n, x) /\ TodoCount(k.todo, x) = 0
        BY <1>b, TodoFew
      <4>2. Count(k, x) >= Is(k.prev, x) + Is(n, x)
        BY <1>b, <1>c, <4>1, IsType DEF Count
      <4> QED BY <4>1, <4>2
    <3> QED BY <1>a, <1>b, <3>1, <3>2, <3>3, <3>4, EndStep
  <2>d. CASE k.stage # "next" /\ ~ (n = tail /\ Minimum(t) /\ k.stage = "first")
    <3>1. PICK m : m = [k EXCEPT !.cur = n, !.seen = NULL_D, !.pc = "load", !.stage = "next"]
      OBVIOUS
    <3>2. my' = [my EXCEPT ![t] = m]
      BY <1>b, <1>c, <1>g, <2>d, <2>n, <3>1 DEF Recheck, Got
    <3>3. /\ m \in Variables
          /\ m.pc = "load" /\ m.stage = "next" /\ m.op = k.op /\ m.key = k.key
          /\ m.prev = k.prev /\ m.cur = n /\ m.nxt = k.nxt /\ m.new = k.new
          /\ m.seen = NULL_D /\ m.todo = k.todo
      <4>1. NULL \in Ref /\ NULL_D \in MarkablePointer(Ref) /\ "load" \in Pc
        BY NullWord DEF Ref, Pc
      <4>2. m \in Variables
        BY <1>b, <2>n, <3>1, <4>1 DEF Variables
      <4> QED BY <1>b, <3>1, <4>2 DEF Variables
    <3>4. Operation(L, m)
      <4>1. Places(m)
        BY <1>b, <3>3, <2>n DEF Operation, Places, Here, Walk, NULL, head, tail
      <4>2. Purpose(m)
        BY <1>b, <3>3 DEF Operation, Purpose
      <4>3. Fresh(L, m)
        BY <1>b, <3>3 DEF Operation, Fresh
      <4>4. Sound(L, m)
        BY <1>b, <3>3, <2>n DEF Operation, Sound, Unchecked, Solid
      <4>5. Knows(L, m)
        BY <1>b, <3>3 DEF Operation, Knows
      <4> QED BY <4>1, <4>2, <4>3, <4>4, <4>5 DEF Operation
    <3>5. Enough(L, L, k, m, NULL)
      <4>1. ASSUME NEW x \in Node PROVE Count(m, x) <= Count(k, x) + Is(NULL, x)
        BY <1>b, <1>c, <3>3, NullWord, IsType, TodoFew DEF Count
      <4> QED BY <3>3, <4>1, Cheaper
    <3>6. Held(m) \subseteq HeldNodes(my, L)
      BY <1>b, <2>n, <3>3, Running DEF Held, Unchecked
    <3>7. Len(m.todo) <= 4 /\ m.new \in {NULL, my[t].new}
      BY <1>b, <3>3
    <3> QED BY <1>b, <1>a, <3>2, <3>3, <3>4, <3>5, <3>6, <3>7, Running, LocalFrame DEF Local
  <2> QED BY <2>b, <2>c, <2>d
<1> QED BY <1>f, <1>g

\* A scan begins with the head.
LEMMA StartScanStep ==
  ASSUME NEW L \in SUBSET Node, ListInv(L), NEW t \in Thread, StartScan(t)
  PROVE  ListInv(L)'
<1>a. /\ UNCHANGED <<freeList, next, cpc, cnode, cnext, claimed, inAlloc, follow>>
      /\ UNCHANGED <<key, published, delivered>>
      /\ refCount' = [refCount EXCEPT ![head] = Retained(@)] /\ calls' = calls
  BY DEF StartScan
<1>b. PICK k \in Variables : k = my[t] /\ Operation(L, k) /\ k.pc = "scan" /\ k.todo = <<>>
  BY Running DEF StartScan, Ready
<1>c. head \in Node /\ head \in L /\ head # tail
  BY DEF ListInv, Shape, Ends, head, tail
<1>1. PICK m : m = [k EXCEPT !.prev = head, !.stage = "first", !.pc = "load"]
  OBVIOUS
<1>2. my' = [my EXCEPT ![t] = m]
  BY <1>b, <1>1 DEF StartScan
<1>3. /\ m \in Variables
      /\ m.pc = "load" /\ m.stage = "first" /\ m.op = k.op /\ m.key = k.key
      /\ m.prev = head /\ m.cur = k.cur /\ m.nxt = k.nxt /\ m.new = k.new
      /\ m.seen = k.seen /\ m.todo = k.todo
  <2>1. NULL \in Ref /\ NULL_D \in MarkablePointer(Ref) /\ "load" \in Pc
    BY NullWord DEF Ref, Pc
  <2>2. m \in Variables
    <3>1. head \in Ref
      BY <1>c DEF Ref
    <3> QED BY <1>1, <2>1, <3>1 DEF Variables
  <2> QED BY <1>b, <1>1, <2>2 DEF Variables
<1>4. Operation(L, m)
  <2>1. Places(m)
    BY <1>b, <1>3 DEF Operation, Places, Here, Walk, NULL, head, tail
  <2>2. Purpose(m)
    BY <1>b, <1>3 DEF Operation, Purpose
  <2>3. Fresh(L, m)
    BY <1>b, <1>3 DEF Operation, Fresh
  <2>4. Sound(L, m)
    BY <1>b, <1>3, <1>c DEF Operation, Sound, Unchecked, Solid
  <2>5. Knows(L, m)
    BY <1>b, <1>3 DEF Operation, Knows
  <2> QED BY <2>1, <2>2, <2>3, <2>4, <2>5 DEF Operation
<1>5. Enough(L, L, k, m, head)
  <2>1. ASSUME NEW n \in Node PROVE Count(m, n) <= Count(k, n) + Is(head, n)
    BY <1>b, <1>3, IsType, TodoFew DEF Count
  <2> QED BY <1>3, <2>1, Cheaper
<1>6. Held(m) \subseteq HeldNodes(my, L)
  BY <1>b, <1>c, <1>3, Running DEF Held, Unchecked
<1>7. Len(m.todo) <= 4 /\ m.new \in {NULL, my[t].new}
  BY <1>b, <1>3
<1> QED BY <1>b, <1>a, <1>c, <1>2, <1>3, <1>4, <1>5, <1>6, <1>7, Running, RetainFrame

\* An extraction of the minimum begins.
LEMMA ExtractMinimumElementStep ==
  ASSUME NEW L \in SUBSET Node, ListInv(L), NEW t \in Thread, ExtractMinimumElement(t)
  PROVE  ListInv(L)'
<1>a. /\ UNCHANGED <<freeList, next, cpc, cnode, cnext, claimed, inAlloc, follow>>
      /\ UNCHANGED <<key, published, delivered>>
      /\ refCount' = [refCount EXCEPT ![head] = Retained(@)]
  BY DEF ExtractMinimumElement
<1>b. PICK k \in Variables : k = my[t] /\ k.pc = "rest" /\ k.todo = <<>> /\ "extractMinimum" \in Op
  BY Running DEF ExtractMinimumElement, CanCall, Ready
<1>c. head \in Node /\ head \in L /\ head # tail
  BY DEF ListInv, Shape, Ends, head, tail
<1>1. PICK m : m = [Resting EXCEPT !.pc = "load", !.op = "extractMinimum", !.prev = head]
  OBVIOUS
<1>2. my' = [my EXCEPT ![t] = m]
  BY <1>1 DEF ExtractMinimumElement
<1>3. /\ m \in Variables
      /\ m.pc = "load" /\ m.stage = "first" /\ m.op = "extractMinimum" /\ m.key = LONG_MIN
      /\ m.prev = head /\ m.cur = NULL /\ m.nxt = NULL /\ m.new = NULL
      /\ m.seen = NULL_D /\ m.todo = <<>>
  <2>1. /\ NULL \in Ref /\ NULL_D \in MarkablePointer(Ref) /\ "load" \in Pc /\ <<>> \in Seq(Node)
        /\ head \in Ref
    BY <1>c, NullWord DEF Ref, Pc
  <2>2. m \in Variables
    BY <1>b, <1>1, <2>1 DEF Variables, Resting
  <2> QED BY <1>1, <2>2 DEF Resting
<1>4. Operation(L, m)
  <2>1. Places(m)
    BY <1>c, <1>3 DEF Operation, Places, Here, Walk, NULL, head, tail
  <2>2. Purpose(m)
    BY <1>c, <1>3 DEF Operation, Purpose
  <2>3. Fresh(L, m)
    BY <1>c, <1>3 DEF Operation, Fresh
  <2>4. Sound(L, m)
    BY <1>c, <1>3 DEF Operation, Sound, Unchecked, Solid
  <2>5. Knows(L, m)
    BY <1>c, <1>3 DEF Operation, Knows
  <2> QED BY <2>1, <2>2, <2>3, <2>4, <2>5 DEF Operation
<1>5. Enough(L, L, k, m, head)
  <2>1. ASSUME NEW n \in Node PROVE Count(m, n) <= Count(k, n) + Is(head, n)
    <3>1. Count(k, n) \in Nat
      BY CountBound DEF Most
    <3>2. Count(m, n) = Is(head, n) /\ Is(head, n) \in {0, 1}
      BY <1>3, IsType, TodoFew DEF Count
    <3> QED BY <3>1, <3>2
  <2> QED BY <1>3, <2>1, Cheaper
<1>6. Held(m) \subseteq HeldNodes(my, L)
  BY <1>3, <1>c, Running DEF Held
<1>7. Len(m.todo) <= 4 /\ m.new \in {NULL, my[t].new}
  BY <1>3
<1>8. calls' \in [Thread -> 0 .. Calls]
  <2>1. calls \in [Thread -> 0 .. Calls] /\ calls[t] < Calls /\ calls' = [calls EXCEPT ![t] = @ + 1]
    BY Running DEF ExtractMinimumElement, CanCall, Called
  <2>2. calls[t] + 1 \in 0 .. Calls
    BY <2>1, ListAssumption
  <2> QED BY <2>1, <2>2
<1> QED BY <1>a, <1>b, <1>c, <1>2, <1>3, <1>4, <1>5, <1>6, <1>7, <1>8, RetainFrame

\* The node that the word leads to is retained, whatever it is.
LEMMA RetainSeenStep ==
  ASSUME NEW L \in SUBSET Node, ListInv(L), NEW t \in Thread, RetainSeen(t)
  PROVE  ListInv(L)'
<1>a. /\ UNCHANGED <<freeList, next, rLink, cpc, cnode, cnext, claimed, inAlloc, follow>>
      /\ UNCHANGED <<key, published, delivered>> /\ calls' = calls
  BY DEF RetainSeen, Retain
<1>b. PICK k \in Variables : k = my[t] /\ Operation(L, k) /\ k.pc = "retain" /\ k.todo = <<>>
  BY Running DEF RetainSeen, Ready
<1>r. PICK r : r = toPtr_m(k.seen)
  OBVIOUS
<1>e. r \in Ref
  BY <1>b, <1>r DEF Operation, Purpose, Variables, MarkablePointer, toPtr_m
<1>c. CASE r = NULL
  <2>1. PICK m : m = [Resting EXCEPT !.pc = "fault"]
    OBVIOUS
  <2>2. my' = [my EXCEPT ![t] = m] /\ refCount' = refCount
    BY <1>b, <1>r, <1>c, <2>1 DEF RetainSeen, Retain
  <2>3. ASSUME NEW n \in Node PROVE TodoCount(<<>>, n) <= Count(my[t], n)
    <3>1. Count(my[t], n) \in Nat
      BY <1>b, CountBound DEF Most
    <3> QED BY <3>1, TodoFew
  <2>4. Local
    BY <1>a, <2>2 DEF Local, cmemVars
  <2>5. <<>> \in Seq(Node) /\ Len(<<>>) <= 4
    OBVIOUS
  <2> QED BY <2>1, <2>2, <2>3, <2>4, <2>5, EndStep
<1>d. CASE r # NULL
  <2>a. r \in Node /\ refCount' = [refCount EXCEPT ![r] = Retained(@)]
    BY <1>b, <1>r, <1>e, <1>d DEF Ref, RetainSeen, Retain
  <2>1. PICK m : m = [k EXCEPT !.pc = "recheck"]
    OBVIOUS
  <2>2. my' = [my EXCEPT ![t] = m]
    BY <1>b, <1>r, <1>d, <2>1 DEF RetainSeen, Retain
  <2>3. /\ m \in Variables
        /\ m.pc = "recheck" /\ m.stage = k.stage /\ m.op = k.op /\ m.key = k.key
        /\ m.prev = k.prev /\ m.cur = k.cur /\ m.nxt = k.nxt /\ m.new = k.new
        /\ m.seen = k.seen /\ m.todo = k.todo
    <3>1. NULL \in Ref /\ NULL_D \in MarkablePointer(Ref) /\ "recheck" \in Pc
      BY NullWord DEF Ref, Pc
    <3>2. m \in Variables
      BY <1>b, <1>r, <2>1, <3>1 DEF Variables
    <3> QED BY <1>b, <1>r, <2>1, <3>2 DEF Variables
  <2>4. Operation(L, m)
    <3>1. Places(m)
      BY <1>b, <1>r, <2>3, <1>d DEF Operation, Places, Here, Walk, NULL, head, tail
    <3>2. Purpose(m)
      BY <1>b, <1>r, <2>3 DEF Operation, Purpose
    <3>3. Fresh(L, m)
      BY <1>b, <1>r, <2>3 DEF Operation, Fresh
    <3>4. Sound(L, m)
      BY <1>b, <1>r, <2>3 DEF Operation, Sound, Unchecked
    <3>5. Knows(L, m)
      BY <1>b, <1>r, <2>3 DEF Operation, Knows
    <3> QED BY <3>1, <3>2, <3>3, <3>4, <3>5 DEF Operation
  <2>5. Enough(L, L, k, m, r)
    <3>1. ASSUME NEW n \in Node PROVE Count(m, n) <= Count(k, n) + Is(r, n)
      BY <1>b, <1>r, <2>3, IsType, TodoFew DEF Count
    <3> QED BY <2>3, <3>1, Cheaper
  <2>6. Held(m) \subseteq HeldNodes(my, L)
    BY <1>b, <1>r, <2>3, Running DEF Held, Unchecked
  <2>7. Len(m.todo) <= 4 /\ m.new \in {NULL, my[t].new}
    BY <1>b, <1>r, <2>3
  <2> QED BY <1>b, <1>a, <2>a, <2>2, <2>3, <2>4, <2>5, <2>6, <2>7, Running, RetainFrame
<1> QED BY <1>c, <1>d

\* The node that follows is retained without a second look, or there is none.
LEMMA RetainGrabbedStep ==
  ASSUME NEW L \in SUBSET Node, ListInv(L), NEW t \in Thread, RetainGrabbed(t)
  PROVE  ListInv(L)'
<1>a. /\ UNCHANGED <<freeList, next, rLink, cpc, cnode, cnext, claimed, inAlloc, follow>>
      /\ UNCHANGED <<key, published, delivered>> /\ calls' = calls
  BY DEF RetainGrabbed, Retain
<1>b. PICK k \in Variables : k = my[t] /\ Operation(L, k) /\ k.pc = "grabRetain" /\ k.todo = <<>>
  BY Running DEF RetainGrabbed, Ready
<1>r. PICK r : r = k.nxt
  OBVIOUS
<1>e. r \in Ref /\ k.op = "extractWithKey"
  BY <1>b, <1>r DEF Operation, Purpose, Variables, MarkablePointer, toPtr_m
<1>c. CASE r = NULL
  <2>1. PICK m : m = [Resting EXCEPT !.pc = "fault"]
    OBVIOUS
  <2>2. my' = [my EXCEPT ![t] = m] /\ refCount' = refCount
    BY <1>b, <1>r, <1>c, <2>1 DEF RetainGrabbed, Retain
  <2>3. ASSUME NEW n \in Node PROVE TodoCount(<<>>, n) <= Count(my[t], n)
    <3>1. Count(my[t], n) \in Nat
      BY <1>b, CountBound DEF Most
    <3> QED BY <3>1, TodoFew
  <2>4. Local
    BY <1>a, <2>2 DEF Local, cmemVars
  <2>5. <<>> \in Seq(Node) /\ Len(<<>>) <= 4
    OBVIOUS
  <2> QED BY <2>1, <2>2, <2>3, <2>4, <2>5, EndStep
<1>d. CASE r # NULL
  <2>a. r \in Node /\ refCount' = [refCount EXCEPT ![r] = Retained(@)]
    BY <1>b, <1>r, <1>e, <1>d DEF Ref, RetainGrabbed, Retain
  <2>1. PICK m : m = [k EXCEPT !.pc = "mark"]
    OBVIOUS
  <2>2. my' = [my EXCEPT ![t] = m]
    BY <1>b, <1>r, <1>d, <2>1 DEF RetainGrabbed, Retain
  <2>3. /\ m \in Variables
        /\ m.pc = "mark" /\ m.stage = k.stage /\ m.op = k.op /\ m.key = k.key
        /\ m.prev = k.prev /\ m.cur = k.cur /\ m.nxt = k.nxt /\ m.new = k.new
        /\ m.seen = k.seen /\ m.todo = k.todo
    <3>1. NULL \in Ref /\ NULL_D \in MarkablePointer(Ref) /\ "mark" \in Pc
      BY NullWord DEF Ref, Pc
    <3>2. m \in Variables
      BY <1>b, <1>r, <2>1, <3>1 DEF Variables
    <3> QED BY <1>b, <1>r, <2>1, <3>2 DEF Variables
  <2>4. Operation(L, m)
    <3>1. Places(m)
      BY <1>b, <1>r, <2>3, <1>d DEF Operation, Places, Here, Walk, NULL, head, tail
    <3>2. Purpose(m)
      BY <1>b, <1>r, <2>3, <1>b DEF Operation, Purpose
    <3>3. Fresh(L, m)
      BY <1>b, <1>r, <2>3 DEF Operation, Fresh
    <3>4. Sound(L, m)
      BY <1>b, <1>r, <2>3, <1>e DEF Operation, Sound, Unchecked, Solid
    <3>5. Knows(L, m)
      BY <1>b, <1>r, <2>3 DEF Operation, Knows
    <3> QED BY <3>1, <3>2, <3>3, <3>4, <3>5 DEF Operation
  <2>5. Enough(L, L, k, m, r)
    <3>1. ASSUME NEW n \in Node PROVE Count(m, n) <= Count(k, n) + Is(r, n)
      BY <1>b, <1>r, <2>3, IsType, TodoFew DEF Count
    <3> QED BY <2>3, <3>1, Cheaper
  <2>6. Held(m) \subseteq HeldNodes(my, L)
    BY <1>b, <1>r, <2>3, Running DEF Held, Unchecked
  <2>7. Len(m.todo) <= 4 /\ m.new \in {NULL, my[t].new}
    BY <1>b, <1>r, <2>3
  <2> QED BY <1>b, <1>a, <2>a, <2>2, <2>3, <2>4, <2>5, <2>6, <2>7, Running, RetainFrame
<1> QED BY <1>c, <1>d

-----------------------------------------------------------------------------
(* The list when a node leaves or joins it.                                *)

\* A node of the list has one predecessor.
LEMMA OnePredecessor ==
  ASSUME NEW L \in SUBSET Node, Shape(L), \A n \in Node : key[n] \in Nat,
         NEW p \in L \ {tail}, NEW q \in L \ {tail}, Succ(p) = Succ(q)
  PROVE  p = q
<1>1. /\ \A n \in L \ {head, tail} : key[n] < key[Succ(n)]
      /\ \A i \in L \ {tail}, n \in L \ {head} :
           (i # head /\ key[n] <= key[i]) \/ key[n] >= key[Succ(i)]
      /\ \A m, n \in L \ {head} : key[m] = key[n] => m = n
  BY DEF Shape, Ascending
<1>2. key[p] \in Nat /\ key[q] \in Nat /\ Succ(p) \in Node /\ key[Succ(p)] \in Nat
  BY DEF Shape, Links
<1>3. CASE p = head /\ q # head
  <2>1. key[q] < key[Succ(q)] /\ key[q] >= key[Succ(head)]
    BY <1>1, <1>3
  <2> QED BY <1>2, <1>3, <2>1
<1>4. CASE q = head /\ p # head
  <2>1. key[p] < key[Succ(p)] /\ key[p] >= key[Succ(head)]
    BY <1>1, <1>4
  <2> QED BY <1>2, <1>4, <2>1
<1>5. CASE p # head /\ q # head
  <2>1. key[p] < key[Succ(p)] /\ key[q] < key[Succ(p)]
    BY <1>1, <1>5
  <2>2. key[q] <= key[p] \/ key[q] >= key[Succ(p)]
    BY <1>1, <1>5
  <2>3. key[p] <= key[q] \/ key[p] >= key[Succ(p)]
    BY <1>1, <1>5
  <2>4. key[p] = key[q]
    BY <1>2, <2>1, <2>2, <2>3
  <2> QED BY <1>1, <1>5, <2>4
<1> QED BY <1>3, <1>4, <1>5

\* The link of its predecessor is swung past a node.
LEMMA ShapeWithout ==
  ASSUME NEW L \in SUBSET Node, Shape(L), key' = key, \A n \in Node : key[n] \in Nat,
         NEW p \in L \ {tail}, NEW c \in L \ {head, tail}, Succ(p) = c, p # c,
         next'[p] = toMarkable(Succ(c), FALSE), \A n \in L \ {p} : next'[n] = next[n],
         NEW M, M = L \ {c}
  PROVE  Shape(M)'
<1>a. Ends(L) /\ Links(L) /\ Ascending(L)
  BY DEF Shape
<1>b. \A n \in M \ {p} : Succ(n)' = Succ(n)
  BY DEF Succ
<1>c. Succ(p)' = Succ(c)
  BY DEF Succ, toMarkable, toPtr_m
<1>d. ~ isMarked_m(next'[p])
  BY DEF toMarkable, isMarked_m
<1>e. Succ(c) \in L \ {head} /\ key[c] < key[Succ(c)] /\ key[c] \in Nat
  BY <1>a DEF Links, Ascending
<1>f. Succ(c) # c
  BY <1>e
<1>g. \A n \in M \ {tail} : n # p => Succ(n) \in M \ {head}
  <2> SUFFICES ASSUME NEW n \in M \ {tail}, n # p PROVE Succ(n) \in M \ {head}
    OBVIOUS
  <2>1. Succ(n) \in L \ {head}
    BY <1>a DEF Links
  <2>2. Succ(n) # c
    BY OnePredecessor
  <2> QED BY <2>1, <2>2
<1>1. Ends(M)'
  <2>1. next'[tail] = next[tail] /\ (head # p => next'[head] = next[head])
    BY <1>a DEF Ends
  <2> QED BY <1>a, <1>d, <2>1 DEF Ends
<1>2. Links(M)'
  <2>1. \A n \in M \ {tail} : Succ(n)' \in M \ {head}
    BY <1>b, <1>c, <1>e, <1>f, <1>g
  <2>2. ASSUME NEW n \in M \ {head} PROVE \E q \in M \ {tail} : Succ(q)' = n
    <3>1. PICK q \in L \ {tail} : Succ(q) = n
      BY <1>a DEF Links
    <3>2. CASE q = c
      BY <1>c, <3>1, <3>2
    <3>3. CASE q # c
      BY <1>b, <3>1, <3>3
    <3> QED BY <3>2, <3>3
  <2> QED BY <2>1, <2>2 DEF Links, Succ
<1>3. Ascending(M)'
  <2>1. ASSUME NEW n \in M \ {head, tail} PROVE key[n] < key[Succ(n)']
    <3>1. CASE n = p
      <4>1. key[p] < key[c] /\ key[p] \in Nat /\ key[Succ(c)] \in Nat
        BY <1>a, <1>e, <3>1 DEF Ascending
      <4>2. key[p] < key[Succ(c)]
        BY <1>e, <4>1
      <4> QED BY <1>c, <3>1, <4>2
    <3>2. CASE n # p
      BY <1>a, <1>b, <3>2 DEF Ascending
    <3> QED BY <3>1, <3>2
  <2>2. ASSUME NEW q \in M \ {tail}, NEW n \in M \ {head}
        PROVE  (q # head /\ key[n] <= key[q]) \/ key[n] >= key[Succ(q)']
    <3>1. CASE q # p
      BY <1>a, <1>b, <3>1 DEF Ascending
    <3>2. CASE q = p
      <4>1. (p # head /\ key[n] <= key[p]) \/ key[n] >= key[c]
        BY <1>a DEF Ascending
      <4>2. key[n] <= key[c] \/ key[n] >= key[Succ(c)]
        BY <1>a DEF Ascending
      <4>3. key[n] # key[c]
        BY <1>a DEF Ascending
      <4>4. key[n] \in Nat
        OBVIOUS
      <4>5. (p # head /\ key[n] <= key[p]) \/ key[n] >= key[Succ(c)]
        BY <1>e, <4>1, <4>2, <4>3, <4>4
      <4> QED BY <1>c, <3>2, <4>5
    <3> QED BY <3>1, <3>2
  <2>3. \A m, n \in M \ {head} : key[m] = key[n] => m = n
    BY <1>a DEF Ascending
  <2> QED BY <2>1, <2>2, <2>3 DEF Ascending, Succ
<1> QED BY <1>1, <1>2, <1>3 DEF Shape

\* A node is linked between two others.
LEMMA ShapeWith ==
  ASSUME NEW L \in SUBSET Node, Shape(L), key' = key, \A n \in Node : key[n] \in Nat,
         NEW p \in L \ {tail}, NEW c, Succ(p) = c, NEW x \in Node \ L,
         key[x] \in Key, p = head \/ key[p] < key[x], key[x] < key[c],
         next'[p] = toMarkable(x, FALSE), next'[x] = toMarkable(c, FALSE),
         \A n \in L \ {p} : next'[n] = next[n], NEW M, M = L \cup {x}
  PROVE  Shape(M)'
<1>a. Ends(L) /\ Links(L) /\ Ascending(L)
  BY DEF Shape
<1>b. \A n \in L \ {p} : Succ(n)' = Succ(n)
  BY DEF Succ
<1>c. Succ(p)' = x /\ Succ(x)' = c
  BY DEF Succ, toMarkable, toPtr_m
<1>d. ~ isMarked_m(next'[p])
  BY DEF toMarkable, isMarked_m
<1>e. c \in L \ {head} /\ x # p /\ x # head /\ x # tail /\ key[x] \in Nat /\ key[c] \in Nat
  BY <1>a DEF Links, Ends
<1>f. \A n \in L \ {head} : key[n] \in Nat /\ ((n # p /\ key[n] < key[x]) \/ n = p \/ key[n] >= key[c])
  <2> SUFFICES ASSUME NEW n \in L \ {head}, n # p, ~ key[n] >= key[c] PROVE key[n] < key[x]
    OBVIOUS
  <2>1. p # head /\ key[n] <= key[p]
    BY <1>a DEF Ascending
  <2>2. key[n] \in Nat /\ key[p] \in Nat /\ key[p] < key[x]
    BY <2>1
  <2> QED BY <1>e, <2>1, <2>2
<1>1. Ends(M)'
  <2>1. next'[tail] = next[tail] /\ (head # p => next'[head] = next[head])
    BY <1>a DEF Ends
  <2> QED BY <1>a, <1>d, <2>1 DEF Ends
<1>2. Links(M)'
  <2>1. ASSUME NEW n \in M \ {tail} PROVE Succ(n)' \in M \ {head}
    BY <1>a, <1>b, <1>c, <1>e DEF Links
  <2>2. ASSUME NEW n \in M \ {head} PROVE \E q \in M \ {tail} : Succ(q)' = n
    <3>1. CASE n = x
      BY <1>c, <3>1
    <3>2. CASE n = c
      BY <1>c, <1>e, <3>2
    <3>3. CASE n # x /\ n # c
      <4>1. PICK q \in L \ {tail} : Succ(q) = n
        BY <1>a, <3>3 DEF Links
      <4> QED BY <1>b, <3>3, <4>1
    <3> QED BY <3>1, <3>2, <3>3
  <2> QED BY <2>1, <2>2 DEF Links, Succ
<1>3. Ascending(M)'
  <2>1. ASSUME NEW n \in M \ {head, tail} PROVE key[n] < key[Succ(n)']
    <3>1. CASE n = p
      BY <1>c, <3>1
    <3>2. CASE n = x
      BY <1>c, <3>2
    <3>3. CASE n # p /\ n # x
      BY <1>a, <1>b, <3>3 DEF Ascending
    <3> QED BY <3>1, <3>2, <3>3
  <2>2. ASSUME NEW q \in M \ {tail}, NEW n \in M \ {head}
        PROVE  (q # head /\ key[n] <= key[q]) \/ key[n] >= key[Succ(q)']
    <3>n. key[n] \in Nat /\ (q # x => key[q] \in Nat)
      BY <1>e
    <3>1. CASE q = x
      <4>1. n = x \/ n = p \/ key[n] < key[x] \/ key[n] >= key[c]
        BY <1>f
      <4>2. n = p => key[n] < key[x]
        OBVIOUS
      <4>3. key[n] <= key[x] \/ key[n] >= key[c]
        BY <1>e, <3>n, <4>1, <4>2
      <4> QED BY <1>c, <1>e, <3>1, <4>3
    <3>2. CASE q = p
      <4>1. CASE n = x
        BY <1>c, <1>e, <3>2, <4>1
      <4>2. CASE n # x
        <5>1. (p # head /\ key[n] <= key[p]) \/ key[n] >= key[c]
          BY <1>a, <4>2 DEF Ascending
        <5>2. (p # head /\ key[n] <= key[p]) \/ key[n] >= key[x]
          BY <1>e, <3>n, <5>1
        <5> QED BY <1>c, <3>2, <5>2
      <4> QED BY <4>1, <4>2
    <3>3. CASE q # x /\ q # p
      <4>1. CASE n # x
        BY <1>a, <1>b, <3>3, <4>1 DEF Ascending
      <4>2. CASE n = x
        <5>1. Succ(q) \in L \ {head} /\ Succ(q) # c
          <6>1. Succ(q) \in L \ {head}
            BY <1>a, <3>3 DEF Links
          <6>2. Succ(q) # c
            BY <3>3, OnePredecessor
          <6> QED BY <6>1, <6>2
        <5>2. CASE key[Succ(q)] < key[x] \/ Succ(q) = p
          <6>1. key[Succ(q)] < key[x] /\ key[Succ(q)] \in Nat
            BY <5>1, <5>2
          <6>2. key[x] >= key[Succ(q)]
            BY <1>e, <6>1
          <6> QED BY <1>b, <3>3, <4>2, <6>2
        <5>3. CASE key[Succ(q)] >= key[c]
          <6>1. key[Succ(q)] \in Nat /\ key[Succ(q)] # key[c]
            BY <1>a, <1>e, <5>1 DEF Ascending
          <6>2. ~ key[c] >= key[Succ(q)]
            BY <1>e, <5>3, <6>1
          <6>3. q # head /\ key[c] <= key[q]
            BY <1>a, <1>e, <3>3, <6>2 DEF Ascending
          <6>4. key[x] <= key[q]
            BY <1>e, <3>n, <3>3, <6>3
          <6> QED BY <4>2, <6>3, <6>4
        <5> QED BY <1>f, <5>1, <5>2, <5>3
      <4> QED BY <4>1, <4>2
    <3> QED BY <3>1, <3>2, <3>3
  <2>3. ASSUME NEW m \in M \ {head}, NEW n \in M \ {head}, key[m] = key[n] PROVE m = n
    <3>1. \A i \in L \ {head} : key[i] # key[x]
      <4> SUFFICES ASSUME NEW i \in L \ {head} PROVE key[i] # key[x]
        OBVIOUS
      <4>1. key[i] < key[x] \/ i = p \/ key[i] >= key[c]
        BY <1>f
      <4>2. key[i] \in Nat /\ (i = p => key[i] < key[x])
        BY <1>f
      <4> QED BY <1>e, <4>1, <4>2
    <3>2. \A i, j \in L \ {head} : key[i] = key[j] => i = j
      BY <1>a DEF Ascending
    <3>3. m \in L \ {head} \/ m = x
      OBVIOUS
    <3>4. n \in L \ {head} \/ n = x
      OBVIOUS
    <3> QED BY <2>3, <3>1, <3>2, <3>3, <3>4
  <2> QED BY <2>1, <2>2, <2>3 DEF Ascending, Succ
<1> QED BY <1>1, <1>2, <1>3 DEF Shape

-----------------------------------------------------------------------------
(* The elements linked and returned so far.                                *)

\* Deliveries are covered by insertions if nothing is delivered,
LEMMA HistoryKept ==
  ASSUME NEW L \in SUBSET Node, ListInv(L), NEW M \in SUBSET L, key' = key,
         UNCHANGED <<published, delivered>>
  PROVE  History(M)'
<1> SUFFICES ASSUME NEW k \in Key PROVE delivered'[k] + Present(M, k)' <= published'[k]
  BY DEF History
<1>1. PICK d, p, i, j : d = delivered[k] /\ p = published[k] /\ i = Present(L, k) /\ j = Present(M, k)'
  OBVIOUS
<1>2. d \in Nat /\ p \in Nat /\ d + i <= p
  BY <1>1 DEF ListInv, ListTypes, History
<1>3. i \in {0, 1} /\ j \in {0, 1} /\ j <= i
  BY <1>1 DEF Present
<1>4. d + j <= p
  BY <1>2, <1>3
<1> QED BY <1>1, <1>4

\* if the element delivered leaves the list with it,
LEMMA HistoryDelivered ==
  ASSUME NEW L \in SUBSET Node, ListInv(L), NEW c \in L \ {head, tail}, key' = key,
         published' = published, delivered' = [delivered EXCEPT ![key[c]] = @ + 1]
  PROVE  History(L \ {c})' /\ delivered' \in [Key -> Nat]
<1>1. /\ key[c] \in Key /\ delivered \in [Key -> Nat] /\ published \in [Key -> Nat]
      /\ \A m, n \in L \ {head} : key[m] = key[n] => m = n
  BY DEF ListInv, ListTypes, Shape, Ends, Ascending
<1>2. delivered' \in [Key -> Nat]
  BY <1>1
<1>3. ASSUME NEW k \in Key PROVE delivered'[k] + Present(L \ {c}, k)' <= published'[k]
  <2>1. PICK d, p, i, j : /\ d = delivered[k] /\ p = published[k]
                          /\ i = Present(L, k) /\ j = Present(L \ {c}, k)'
    OBVIOUS
  <2>2. d \in Nat /\ p \in Nat /\ d + i <= p
    BY <1>1, <2>1 DEF ListInv, History
  <2>3. CASE k = key[c]
    <3>1. i = 1
      BY <2>1, <2>3 DEF Present
    <3>2. j = 0
      BY <1>1, <2>1, <2>3 DEF Present
    <3>3. delivered'[k] = d + 1
      BY <1>1, <2>1, <2>3
    <3>4. (d + 1) + j <= p
      BY <2>2, <3>1, <3>2
    <3> QED BY <2>1, <3>3, <3>4
  <2>4. CASE k # key[c]
    <3>1. delivered'[k] = d
      BY <1>1, <2>1, <2>4
    <3>2. i \in {0, 1} /\ j \in {0, 1} /\ j <= i
      BY <2>1 DEF Present
    <3>3. d + j <= p
      BY <2>2, <3>2
    <3> QED BY <2>1, <3>1, <3>3
  <2> QED BY <2>3, <2>4
<1> QED BY <1>2, <1>3 DEF History

\* and if a new element joins the list.
LEMMA HistoryPublished ==
  ASSUME NEW L \in SUBSET Node, ListInv(L), NEW x \in Node, NEW a \in Key, a = key[x], key' = key,
         delivered' = delivered, published' = [published EXCEPT ![a] = @ + 1]
  PROVE  History(L \cup {x})' /\ published' \in [Key -> Nat]
<1>1. delivered \in [Key -> Nat] /\ published \in [Key -> Nat]
  BY DEF ListInv, ListTypes
<1>2. published' \in [Key -> Nat]
  BY <1>1
<1>3. ASSUME NEW k \in Key PROVE delivered'[k] + Present(L \cup {x}, k)' <= published'[k]
  <2>1. PICK d, p, i, j : /\ d = delivered[k] /\ p = published[k]
                          /\ i = Present(L, k) /\ j = Present(L \cup {x}, k)'
    OBVIOUS
  <2>2. d \in Nat /\ p \in Nat /\ d + i <= p /\ i \in {0, 1} /\ j \in {0, 1}
    BY <1>1, <2>1 DEF ListInv, History, Present
  <2>3. CASE k = a
    <3>1. published'[k] = p + 1
      BY <1>1, <2>1, <2>3
    <3>2. d + j <= p + 1
      BY <2>2
    <3> QED BY <2>1, <3>1, <3>2
  <2>4. CASE k # a
    <3>1. published'[k] = p
      BY <1>1, <2>1, <2>4
    <3>2. j = 1 => i = 1
      BY <2>1, <2>4 DEF Present
    <3>3. d + j <= p
      BY <2>2, <3>2
    <3> QED BY <2>1, <3>1, <3>3
  <2> QED BY <2>3, <2>4
<1> QED BY <1>2, <1>3 DEF History

-----------------------------------------------------------------------------
(* The steps that write a link.                                            *)

\* Thread t writes w into the link of x, which leaves its variables as m and the
\* list as M.
LEMMA WriteFrame ==
  ASSUME NEW L \in SUBSET Node, ListInv(L), NEW t \in Thread, NEW m \in Variables,
         my' = [my EXCEPT ![t] = m], NEW M \in SUBSET Node,
         NEW x \in Node, NEW w \in MarkablePointer(Ref), Store(x, w),
         x \in L \cup Held(my[t]), x \in L \/ isMarked_m(next[x]) \/ x = my[t].new,
         isMarked_m(next[x]) => isMarked_m(w) /\ x \notin M,
         M \subseteq L \cup ({my[t].new} \ {NULL}), \A n \in L \ M : isMarked_m(next[n]),
         published' \in [Key -> Nat], delivered' \in [Key -> Nat],
         Shape(M)', Operation(M, m)', History(M)',
         m.new \in {NULL, my[t].new}, Len(m.todo) <= 4,
         Held(m) \subseteq HeldNodes(my, L), Enough(L, M, my[t], m, NULL)
  PROVE  ListInv(M)'
<1>1. /\ UNCHANGED <<freeList, refCount, cpc, cnode, cnext, claimed, inAlloc, follow>>
      /\ key' = key /\ calls' = calls /\ next' = [next EXCEPT ![x] = w]
  BY DEF Store
<1>2. PICK H : H = HeldNodes(my, L)
  OBVIOUS
<1>3. /\ my \in [Thread -> Variables] /\ calls \in [Thread -> 0 .. Calls]
      /\ OwnNew /\ L \cup Held(my[t]) \subseteq H
  BY <1>2, Running DEF ListInv, ListTypes
<1>4. next \in [Node -> MarkablePointer(Ref)]
  BY LinkWords
<1>5. /\ next' \in [Node -> MarkablePointer(Ref)]
      /\ \A n \in Node : n # x => next'[n] = next[n]
      /\ next'[x] = w
  BY <1>1, <1>4
<1>6. next' \in [Node -> MarkablePointer(Ptr)] /\ \A n \in Node \ H : next'[n] = next[n]
  <2>1. x \in H
    BY <1>3
  <2> QED BY <1>5, <2>1 DEF Ptr, Ref
<1>7. \A u \in Thread : my[u].new # NULL =>
        my[u].new \in Node /\ my[u].new \notin L /\ ~ isMarked_m(next[my[u].new])
  <2> SUFFICES ASSUME NEW u \in Thread, my[u].new # NULL
               PROVE  my[u].new \in Node /\ my[u].new \notin L /\ ~ isMarked_m(next[my[u].new])
    OBVIOUS
  <2>1. Operation(L, my[u]) /\ my[u] \in Variables
    BY Running
  <2> QED BY <2>1 DEF Operation, Fresh, Variables, Ref
<1>8. Spared(M, t)
  <2> SUFFICES ASSUME NEW u \in Thread \ {t}, my[u].new # NULL
               PROVE  my[u].new \notin M /\ next'[my[u].new] = next[my[u].new]
    BY DEF Spared
  <2>1. my[u].new # my[t].new
    BY <1>3 DEF OwnNew
  <2>2. my[u].new # x
    BY <1>7, <2>1
  <2> QED BY <1>5, <1>7, <2>1, <2>2
<1>9. Harmless(L, M, H)
  <2>0. H \subseteq Node
    BY <1>2, PoolFacts DEF ListInv
  <2>1. \A n \in H : key'[n] = key[n]
    BY <1>1
  <2>2. \A n \in H : isMarked_m(next[n]) =>
          isMarked_m(next'[n]) /\ (n \in M => next'[n] = next[n])
    BY <1>5, <2>0
  <2>3. \A n \in L \ M : isMarked_m(next'[n])
    BY <1>5
  <2>4. \A n \in M \ L : ~ isMarked_m(next[n])
    BY <1>7
  <2> QED BY <2>1, <2>2, <2>3, <2>4 DEF Harmless
<1>10. M \cup Held(m) \subseteq H
  <2>1. my[t].new # NULL => my[t].new \in Held(my[t])
    BY DEF Held
  <2> QED BY <1>2, <1>3, <2>1
<1>11. calls' \in [Thread -> 0 .. Calls]
  BY <1>1, <1>3
<1> QED BY <1>1, <1>2, <1>6, <1>8, <1>9, <1>10, <1>11, StoreFrame

\* The list drops its reference to a node, or gets one.
LEMMA CheaperWithout ==
  ASSUME NEW L, NEW k \in Variables, NEW m \in Variables, NEW c \in L,
         \A n \in Node : Count(m, n) <= Count(k, n) + Is(c, n)
  PROVE  Enough(L, L \ {c}, k, m, NULL)
<1> SUFFICES ASSUME NEW n \in Node
             PROVE  Count(m, n) + In(L \ {c}, n) <= Count(k, n) + In(L, n) + Is(NULL, n)
  BY DEF Enough
<1>1. Count(m, n) \in 0 .. Most /\ Count(k, n) \in 0 .. Most
  BY CountBound
<1>2. PICK i, j, e, f, s, z : /\ i = Count(m, n) /\ j = Count(k, n) /\ e = In(L \ {c}, n)
                              /\ f = In(L, n) /\ s = Is(c, n) /\ z = Is(NULL, n)
  OBVIOUS
<1>3. i \in Nat /\ j \in Nat /\ e \in {0, 1} /\ s \in {0, 1} /\ f = e + s /\ z = 0
  <2>1. i \in Nat /\ j \in Nat
    BY <1>1, <1>2 DEF Most
  <2>2. e \in {0, 1} /\ s \in {0, 1} /\ f = e + s
    BY <1>2 DEF In, Is
  <2> QED BY <1>2, <2>1, <2>2, IsType
<1>4. i <= j + s
  BY <1>2
<1> QED BY <1>2, <1>3, <1>4

\* A node that joins the list with two of the references of the operation.
LEMMA CheaperWith ==
  ASSUME NEW L, NEW k \in Variables, NEW m \in Variables, NEW c \in Node \ L,
         \A n \in Node : Count(m, n) + Is(c, n) <= Count(k, n)
  PROVE  Enough(L, L \cup {c}, k, m, NULL)
<1> SUFFICES ASSUME NEW n \in Node
             PROVE  Count(m, n) + In(L \cup {c}, n) <= Count(k, n) + In(L, n) + Is(NULL, n)
  BY DEF Enough
<1>1. Count(m, n) \in 0 .. Most /\ Count(k, n) \in 0 .. Most
  BY CountBound
<1>2. PICK i, j, e, f, s, z : /\ i = Count(m, n) /\ j = Count(k, n) /\ e = In(L \cup {c}, n)
                              /\ f = In(L, n) /\ s = Is(c, n) /\ z = Is(NULL, n)
  OBVIOUS
<1>3. i \in Nat /\ j \in Nat /\ f \in {0, 1} /\ s \in {0, 1} /\ e = f + s /\ z = 0
  <2>1. i \in Nat /\ j \in Nat
    BY <1>1, <1>2 DEF Most
  <2>2. f \in {0, 1} /\ s \in {0, 1} /\ e = f + s
    BY <1>2 DEF In, Is
  <2> QED BY <1>2, <2>1, <2>2, IsType
<1>4. i + s <= j
  BY <1>2
<1> QED BY <1>2, <1>3, <1>4

\* The places where an operation is about to change the link of its previous node.
LEMMA Predecessor ==
  ASSUME NEW L \in SUBSET Node, ListInv(L), NEW t \in Thread,
         my[t].pc \in {"casUnlink", "casUnlinkKey", "publish"}, Precedes(t)
  PROVE  /\ my[t].prev \in L \ {tail} /\ my[t].cur \in L \ {head}
         /\ Succ(my[t].prev) = my[t].cur /\ ~ isMarked_m(next[my[t].prev])
         /\ my[t].pc # "publish" => /\ my[t].cur # tail /\ my[t].prev # my[t].cur
                                    /\ isMarked_m(next[my[t].cur])
                                    /\ Minimum(t) => my[t].prev = head
<1>1. PICK k \in Variables : /\ k = my[t] /\ Operation(L, k)
                            /\ k.pc \in {"casUnlink", "casUnlinkKey", "publish"}
  BY Running
<1>2. k.prev \in Node /\ k.prev # NULL /\ k.prev # tail
  BY <1>1 DEF Operation, Places, Here, Variables, Ref
<1>3. Succ(k.prev) = k.cur /\ ~ isMarked_m(next[k.prev])
  BY <1>1 DEF Precedes, Succ, toMarkable, toPtr_m, isMarked_m
<1>4. k.prev \in L
  BY <1>1, <1>2, <1>3 DEF Operation, Sound, Solid
<1>5. k.cur \in L \ {head}
  BY <1>2, <1>3, <1>4 DEF ListInv, Shape, Links
<1>6. ASSUME k.pc # "publish"
      PROVE  /\ k.cur # tail /\ k.prev # k.cur /\ isMarked_m(next[k.cur])
             /\ Minimum(t) => k.prev = head
  <2>1. isMarked_m(next[k.cur])
    BY <1>1, <1>6 DEF Operation, Knows
  <2>2. ~ isMarked_m(next[tail])
    BY DEF ListInv, Shape, Ends, toMarkable, isMarked_m
  <2>3. Minimum(t) => k.prev = head
    BY <1>1, <1>2 DEF Operation, Purpose, Minimum
  <2> QED BY <1>3, <2>1, <2>2, <2>3
<1> QED BY <1>1, <1>2, <1>3, <1>4, <1>5, <1>6

\* The link of its predecessor is swung past a deleted node.
LEMMA CasUnlinkStep ==
  ASSUME NEW L \in SUBSET Node, ListInv(L), NEW t \in Thread, CasUnlink(t)
  PROVE  \E M \in SUBSET Node : M = L \ {my[t].cur} /\ ListInv(M)'
<1>a. Ready(t, "casUnlink") /\ Precedes(t)
  BY DEF CasUnlink
<1>b. PICK k \in Variables : /\ k = my[t] /\ Operation(L, k) /\ k.pc = "casUnlink" /\ k.todo = <<>>
  BY <1>a, Running DEF Ready
<1>c. /\ k.prev \in L \ {tail} /\ k.cur \in L \ {head, tail} /\ k.prev # k.cur
      /\ Succ(k.prev) = k.cur /\ ~ isMarked_m(next[k.prev]) /\ isMarked_m(next[k.cur])
  BY <1>a, <1>b, Predecessor
<1>d. PICK M, w : M = L \ {k.cur} /\ w = k.seen
  OBVIOUS
<1>e. w = toMarkable(Succ(k.cur), FALSE) /\ w \in MarkablePointer(Ref)
  BY <1>b, <1>c, <1>d DEF Operation, Knows, Variables
<1>f. Store(k.prev, w) /\ key' = key /\ published' = published
  BY <1>b, <1>d DEF CasUnlink, Store
<1>n. /\ next \in [Node -> MarkablePointer(Ref)] /\ next' = [next EXCEPT ![k.prev] = w]
      /\ next'[k.prev] = w /\ \A n \in Node \ {k.prev} : next'[n] = next[n]
  BY <1>c, <1>f, LinkWords DEF Store
<1>1. PICK m : m = [k EXCEPT !.pc = "clear", !.seen = NULL_D]
  OBVIOUS
<1>2. my' = [my EXCEPT ![t] = m]
  BY <1>b, <1>1 DEF CasUnlink
<1>3. /\ m \in Variables
      /\ m.pc = "clear" /\ m.stage = k.stage /\ m.op = k.op /\ m.key = k.key
      /\ m.prev = k.prev /\ m.cur = k.cur /\ m.nxt = k.nxt /\ m.new = k.new
      /\ m.seen = NULL_D /\ m.todo = k.todo
  <2>1. NULL_D \in MarkablePointer(Ref) /\ "clear" \in Pc
    BY NullWord DEF Pc
  <2>2. m \in Variables
    BY <1>1, <2>1 DEF Variables
  <2> QED BY <1>1, <2>2 DEF Variables
<1>4. Shape(M)'
  <2>1. Shape(L) /\ \A n \in Node : key[n] \in Nat
    BY KeyTypes DEF ListInv
  <2>2. \A n \in L \ {k.prev} : next'[n] = next[n]
    BY <1>n
  <2> QED BY <1>c, <1>d, <1>e, <1>f, <1>n, <2>1, <2>2, ShapeWithout
<1>5. Operation(M, m)'
  <2>0. \A n \in Node : Solid(L, n) => Solid(M, n)'
    BY <1>c, <1>d, <1>n DEF Solid
  <2>1. Places(m)'
    BY <1>b, <1>3, NullWord DEF Operation, Places, Here, Walk
  <2>2. Purpose(m)'
    BY <1>b, <1>3 DEF Operation, Purpose
  <2>3. Fresh(M, m)'
    <3>1. m.new # NULL => /\ m.new \in Node /\ m.new \notin L /\ ~ isMarked_m(next[m.new])
                          /\ m.op = "insert" => key[m.new] = m.key
      BY <1>b, <1>3 DEF Operation, Fresh, Variables, Ref
    <3>2. m.op = "insert" => m.new # NULL
      BY <1>b, <1>3 DEF Operation, Fresh
    <3>3. m.new # NULL => m.new \notin M /\ next'[m.new] = next[m.new]
      BY <1>c, <1>d, <1>n, <3>1
    <3> QED BY <1>3, <1>f, <3>1, <3>2, <3>3 DEF Fresh
  <2>4. Sound(M, m)'
    <3>1. /\ m.prev # NULL => m.prev \in Node /\ Solid(L, m.prev)
          /\ m.cur # NULL => m.cur \in Node /\ Solid(L, m.cur)
          /\ m.nxt # NULL => m.nxt \in Node /\ Solid(L, m.nxt) /\ m.nxt # head
      BY <1>b, <1>3 DEF Operation, Sound, Unchecked, Variables, Ref
    <3> QED BY <2>0, <3>1 DEF Sound
  <2>5. Knows(M, m)'
    BY <1>b, <1>d, <1>f, <1>3 DEF Operation, Knows
  <2> QED BY <2>1, <2>2, <2>3, <2>4, <2>5 DEF Operation
<1>6. History(M)' /\ published' \in [Key -> Nat] /\ delivered' \in [Key -> Nat]
  <2>1. published' \in [Key -> Nat]
    BY <1>f DEF ListInv, ListTypes
  <2>2. CASE Deleting(t)
    <3>1. delivered' = [delivered EXCEPT ![key[k.cur]] = @ + 1]
      BY <1>b, <2>2 DEF CasUnlink, Deliver
    <3> QED BY <1>c, <1>d, <1>f, <2>1, <3>1, HistoryDelivered
  <2>3. CASE ~ Deleting(t)
    <3>1. delivered' = delivered
      BY <2>3 DEF CasUnlink
    <3>2. delivered' \in [Key -> Nat]
      BY <3>1 DEF ListInv, ListTypes
    <3> QED BY <1>d, <1>f, <2>1, <3>1, <3>2, HistoryKept
  <2> QED BY <2>2, <2>3
<1>7. Enough(L, M, k, m, NULL)
  <2>1. ASSUME NEW n \in Node PROVE Count(m, n) <= Count(k, n) + Is(k.cur, n)
    <3>1. PICK a, b, c, d : /\ a = Is(k.prev, n) /\ b = Is(k.cur, n)
                            /\ c = Is(k.new, n) /\ d = Is(k.nxt, n)
      OBVIOUS
    <3>2. /\ a \in {0, 1} /\ b \in {0, 1} /\ c \in {0, 1} /\ d \in {0, 1}
          /\ TodoCount(k.todo, n) = 0 /\ Is(NULL, n) = 0
      BY <1>b, <3>1, IsType, TodoFew
    <3>3. Count(k, n) = a + b + 2 * c + d
      BY <1>b, <3>1, <3>2 DEF Count
    <3>4. Count(m, n) = a + (IF m.stage = "delete" THEN 2 * b ELSE b) + 2 * c + d
      BY <1>b, <1>3, <3>1, <3>2 DEF Count
    <3>5. Count(m, n) <= Count(k, n) + b
      BY <3>2, <3>3, <3>4
    <3> QED BY <3>1, <3>5
  <2> QED BY <1>c, <1>d, <1>3, <2>1, CheaperWithout
<1>8. Held(m) \subseteq HeldNodes(my, L) /\ Len(m.todo) <= 4 /\ m.new \in {NULL, my[t].new}
  BY <1>b, <1>3, Running DEF Held, Unchecked
<1>9. /\ M \subseteq L \cup ({my[t].new} \ {NULL}) /\ M \in SUBSET Node
      /\ \A n \in L \ M : isMarked_m(next[n])
  BY <1>c, <1>d
<1>10. ListInv(M)'
  BY <1>b, <1>c, <1>e, <1>f, <1>2, <1>3, <1>4, <1>5, <1>6, <1>7, <1>8, <1>9, WriteFrame
<1> QED BY <1>b, <1>d, <1>10

\* A write into a node that is not in the list leaves the list alone.
LEMMA OutsideShape ==
  ASSUME NEW L \in SUBSET Node, ListInv(L), key' = key, \A n \in L : next'[n] = next[n]
  PROVE  Shape(L)'
<1>1. Shape(L) /\ head \in L /\ tail \in L /\ ~ isMarked_m(next[head])
  BY DEF ListInv, Shape, Ends
<1> QED BY <1>1, ShapeKept

\* An operation writes a last link, and ends.
LEMMA EndWrite ==
  ASSUME NEW L \in SUBSET Node, ListInv(L), NEW t \in Thread, NEW s \in Seq(Node), Len(s) <= 4,
         Finish(t, s), NEW x \in Node \ L, NEW w \in MarkablePointer(Ref), Store(x, w),
         x \in Held(my[t]), isMarked_m(next[x]) \/ x = my[t].new,
         isMarked_m(next[x]) => isMarked_m(w), UNCHANGED <<published, delivered>>,
         \A n \in Node : TodoCount(s, n) <= Count(my[t], n)
  PROVE  ListInv(L)'
<1>1. PICK k \in Variables : k = my[t]
  BY Running
<1>2. PICK m : m = [Resting EXCEPT !.todo = s]
  OBVIOUS
<1>3. my' = [my EXCEPT ![t] = m]
  BY <1>2 DEF Finish
<1>4. /\ m \in Variables /\ Operation(L, m)' /\ Held(m) = {} /\ m.new = NULL /\ m.todo = s
      /\ \A n \in Node : Count(m, n) = TodoCount(s, n)
  BY <1>2, Ended
<1>5. next \in [Node -> MarkablePointer(Ref)] /\ next' = [next EXCEPT ![x] = w] /\ key' = key
  BY LinkWords DEF Store
<1>6. Shape(L)'
  <2>1. \A n \in L : next'[n] = next[n]
    BY <1>5
  <2> QED BY <1>5, <2>1, OutsideShape
<1>7. History(L)' /\ published' \in [Key -> Nat] /\ delivered' \in [Key -> Nat]
  <2>1. published' \in [Key -> Nat] /\ delivered' \in [Key -> Nat]
    BY DEF ListInv, ListTypes
  <2> QED BY <1>5, <2>1, HistoryKept
<1>8. Enough(L, L, k, m, NULL)
  <2>1. ASSUME NEW n \in Node PROVE Count(m, n) <= Count(k, n) + Is(NULL, n)
    <3>1. PICK i, j : i = Count(m, n) /\ j = Count(k, n)
      OBVIOUS
    <3>2. i \in Nat /\ j \in Nat /\ Is(NULL, n) = 0
      BY <1>4, <3>1, CountBound, IsType DEF Most
    <3>3. i <= j
      BY <1>1, <1>4, <3>1
    <3> QED BY <3>1, <3>2, <3>3
  <2> QED BY <1>4, <2>1, Cheaper
<1>9. Held(m) \subseteq HeldNodes(my, L) /\ x \in L \cup Held(my[t])
  BY <1>4
<1>10. L \subseteq L \cup ({my[t].new} \ {NULL}) /\ \A n \in L \ L : isMarked_m(next[n])
  OBVIOUS
<1> QED BY <1>1, <1>3, <1>4, <1>6, <1>7, <1>8, <1>9, <1>10, WriteFrame

\* A new node that is not needed is deleted.
LEMMA ClearNewStep ==
  ASSUME NEW L \in SUBSET Node, ListInv(L), NEW t \in Thread, ClearNew(t)
  PROVE  ListInv(L)'
<1>b. PICK k \in Variables : k = my[t] /\ Operation(L, k) /\ k.pc = "clearNew" /\ k.todo = <<>>
  BY Running DEF ClearNew, Ready
<1>1. k.new \in Node \ L /\ ~ isMarked_m(next[k.new])
  BY <1>b DEF Operation, Fresh, Variables, Ref
<1>2. PICK w, s : w = toMarkable(NULL, FALSE) /\ s = <<k.new>>
  OBVIOUS
<1>3. w \in MarkablePointer(Ref) /\ s \in Seq(Node) /\ Len(s) <= 4
  BY <1>1, <1>2 DEF toMarkable, MarkablePointer, Ref
<1>4. Finish(t, s) /\ Store(k.new, w) /\ UNCHANGED <<published, delivered>>
  BY <1>b, <1>2 DEF ClearNew
<1>5. k.new \in Held(k)
  BY <1>1 DEF Held, Node, NULL
<1>6. ASSUME NEW n \in Node PROVE TodoCount(s, n) <= Count(k, n)
  <2>1. TodoCount(s, n) = Is(k.new, n) /\ TodoCount(k.todo, n) = 0
    BY <1>b, <1>2, TodoFew
  <2> QED BY <1>b, <2>1, IsType DEF Count
<1> QED BY <1>b, <1>1, <1>3, <1>4, <1>5, <1>6, EndWrite

\* The link of the extracted node is cleared once more.
LEMMA ClearExtractedStep ==
  ASSUME NEW L \in SUBSET Node, ListInv(L), NEW t \in Thread, ClearExtracted(t)
  PROVE  ListInv(L)'
<1>b. PICK k \in Variables : k = my[t] /\ Operation(L, k) /\ k.pc = "clearExtracted" /\ k.todo = <<>>
  BY Running DEF ClearExtracted, Ready
<1>1. k.cur \in Node \ L /\ isMarked_m(next[k.cur])
  <2>1. k.cur \in Node /\ k.cur # NULL
    BY <1>b DEF Operation, Places, Variables, Ref
  <2>2. k.cur \notin L
    BY <1>b DEF Operation, Knows
  <2> QED BY <1>b, <2>1, <2>2 DEF Operation, Sound, Solid
<1>2. PICK w, s : w = NULL_D /\ s = <<k.cur>>
  OBVIOUS
<1>3. w \in MarkablePointer(Ref) /\ isMarked_m(w) /\ s \in Seq(Node) /\ Len(s) <= 4
  BY <1>1, <1>2, NullWord
<1>4. Finish(t, s) /\ Store(k.cur, w) /\ UNCHANGED <<published, delivered>>
  BY <1>b, <1>2 DEF ClearExtracted, Unlinked
<1>5. k.cur \in Held(k)
  BY <1>1 DEF Held, Node, NULL
<1>6. ASSUME NEW n \in Node PROVE TodoCount(s, n) <= Count(k, n)
  <2>1. TodoCount(s, n) = Is(k.cur, n) /\ TodoCount(k.todo, n) = 0
    BY <1>b, <1>2, TodoFew
  <2> QED BY <1>b, <2>1, IsType DEF Count
<1> QED BY <1>b, <1>1, <1>3, <1>4, <1>5, <1>6, EndWrite

\* The new node is linked to its next one, the list not yet to it.
LEMMA LinkStep ==
  ASSUME NEW L \in SUBSET Node, ListInv(L), NEW t \in Thread, Link(t)
  PROVE  ListInv(L)'
<1>b. PICK k \in Variables : k = my[t] /\ Operation(L, k) /\ k.pc = "link" /\ k.todo = <<>>
  BY Running DEF Link, Ready
<1>c. /\ k.new \in Node \ L /\ ~ isMarked_m(next[k.new]) /\ k.op = "insert" /\ k.new # NULL
      /\ k.cur \in Node /\ k.cur # NULL
  BY <1>b DEF Operation, Purpose, Fresh, Places, Here, Variables, Ref
<1>d. PICK w : w = toMarkable(k.cur, FALSE)
  OBVIOUS
<1>e. w \in MarkablePointer(Ref) /\ ~ isMarked_m(w)
  BY <1>c, <1>d DEF toMarkable, MarkablePointer, Ref, isMarked_m
<1>f. Store(k.new, w) /\ key' = key /\ UNCHANGED <<published, delivered>>
  BY <1>b, <1>d DEF Link, Store
<1>n. /\ next \in [Node -> MarkablePointer(Ref)] /\ next' = [next EXCEPT ![k.new] = w]
      /\ next'[k.new] = w /\ \A n \in Node \ {k.new} : next'[n] = next[n]
  BY <1>c, <1>f, LinkWords DEF Store
<1>1. PICK m : m = [k EXCEPT !.pc = "publish"]
  OBVIOUS
<1>2. my' = [my EXCEPT ![t] = m]
  BY <1>b, <1>1 DEF Link
<1>3. /\ m \in Variables
      /\ m.pc = "publish" /\ m.stage = k.stage /\ m.op = k.op /\ m.key = k.key
      /\ m.prev = k.prev /\ m.cur = k.cur /\ m.nxt = k.nxt /\ m.new = k.new
      /\ m.seen = k.seen /\ m.todo = k.todo
  BY <1>1 DEF Variables, Pc
<1>4. Shape(L)'
  <2>1. \A n \in L : next'[n] = next[n]
    BY <1>c, <1>n
  <2> QED BY <1>f, <2>1, OutsideShape
<1>5. Operation(L, m)'
  <2>0. \A n \in Node : Solid(L, n) => Solid(L, n)'
    BY <1>c, <1>n DEF Solid
  <2>1. Places(m)'
    BY <1>b, <1>3 DEF Operation, Places, Here, Walk
  <2>2. Purpose(m)'
    BY <1>b, <1>c, <1>3 DEF Operation, Purpose
  <2>3. Fresh(L, m)'
    BY <1>b, <1>c, <1>d, <1>e, <1>f, <1>n, <1>3 DEF Operation, Fresh
  <2>4. Sound(L, m)'
    <3>1. /\ m.prev # NULL => m.prev \in Node /\ Solid(L, m.prev)
          /\ m.cur # NULL => m.cur \in Node /\ Solid(L, m.cur)
          /\ m.nxt # NULL => m.nxt \in Node /\ Solid(L, m.nxt) /\ m.nxt # head
      BY <1>b, <1>3 DEF Operation, Sound, Unchecked, Variables, Ref
    <3> QED BY <2>0, <3>1 DEF Sound
  <2>5. Knows(L, m)'
    BY <1>b, <1>d, <1>f, <1>n, <1>3 DEF Operation, Knows
  <2> QED BY <2>1, <2>2, <2>3, <2>4, <2>5 DEF Operation
<1>6. History(L)' /\ published' \in [Key -> Nat] /\ delivered' \in [Key -> Nat]
  <2>1. published' \in [Key -> Nat] /\ delivered' \in [Key -> Nat]
    BY <1>f DEF ListInv, ListTypes
  <2> QED BY <1>f, <2>1, HistoryKept
<1>7. Enough(L, L, k, m, NULL)
  <2>1. ASSUME NEW n \in Node PROVE Count(m, n) <= Count(k, n) + Is(NULL, n)
    <3>1. PICK a, b, c, d : /\ a = Is(k.prev, n) /\ b = Is(k.cur, n)
                            /\ c = Is(k.new, n) /\ d = Is(k.nxt, n)
      OBVIOUS
    <3>2. /\ a \in {0, 1} /\ b \in {0, 1} /\ c \in {0, 1} /\ d \in {0, 1}
          /\ TodoCount(k.todo, n) = 0 /\ Is(NULL, n) = 0
      BY <1>b, <3>1, IsType, TodoFew
    <3>3. Count(k, n) = a + b + 2 * c + d /\ Count(m, n) = a + b + 2 * c + d
      BY <1>b, <1>3, <3>1, <3>2 DEF Count
    <3> QED BY <3>2, <3>3
  <2> QED BY <1>3, <2>1, Cheaper
<1>8. Held(m) \subseteq HeldNodes(my, L) /\ Len(m.todo) <= 4 /\ m.new \in {NULL, my[t].new}
  BY <1>b, <1>3, Running DEF Held, Unchecked
<1>9. /\ L \subseteq L \cup ({my[t].new} \ {NULL}) /\ \A n \in L \ L : isMarked_m(next[n])
      /\ k.new \in L \cup Held(my[t]) /\ k.new = my[t].new
  BY <1>b, <1>c DEF Held
<1> QED BY <1>b, <1>c, <1>e, <1>f, <1>2, <1>3, <1>4, <1>5, <1>6, <1>7, <1>8, <1>9, WriteFrame

\* A node is deleted by marking its link.
LEMMA MarkStep ==
  ASSUME NEW L \in SUBSET Node, ListInv(L), NEW t \in Thread, Mark(t)
  PROVE  ListInv(L)'
<1>b. PICK k \in Variables : k = my[t] /\ Operation(L, k) /\ k.pc = "mark" /\ k.todo = <<>>
  BY Running DEF Mark, Ready
<1>c. /\ k.cur \in L /\ k.cur # head /\ k.cur # tail /\ k.cur # NULL /\ Succ(k.cur) = k.nxt
      /\ ~ isMarked_m(next[k.cur]) /\ k.nxt \in Ref /\ k.nxt # NULL
      /\ k.op \in {"extractMinimum", "extractWithKey"} /\ k.new \in Ref
  <2>1. /\ k.cur \in Node /\ k.cur # NULL /\ k.cur # head /\ k.nxt \in Ref /\ k.nxt # NULL
        /\ k.op \in {"extractMinimum", "extractWithKey"} /\ k.new \in Ref
    BY <1>b DEF Operation, Places, Purpose, Here, Variables, Ref
  <2>2. Succ(k.cur) = k.nxt /\ ~ isMarked_m(next[k.cur])
    BY <1>b DEF Mark, Succ, toMarkable, toPtr_m, isMarked_m
  <2>3. k.cur \in L
    BY <1>b, <2>1, <2>2 DEF Operation, Sound, Solid
  <2>4. Succ(tail) = NULL
    BY DEF ListInv, Shape, Ends, Succ, toMarkable, toPtr_m
  <2> QED BY <2>1, <2>2, <2>3, <2>4
<1>d. PICK w : w = toMarkable(k.nxt, TRUE)
  OBVIOUS
<1>e. w \in MarkablePointer(Ref) /\ isMarked_m(w) /\ toPtr_m(w) = k.nxt
  BY <1>c, <1>d DEF toMarkable, MarkablePointer, isMarked_m, toPtr_m
<1>f. Store(k.cur, w) /\ key' = key /\ UNCHANGED <<published, delivered>>
  BY <1>b, <1>d DEF Mark, Marked, Store
<1>n. /\ next \in [Node -> MarkablePointer(Ref)] /\ next' = [next EXCEPT ![k.cur] = w]
      /\ next'[k.cur] = w /\ \A n \in Node \ {k.cur} : next'[n] = next[n]
  BY <1>c, <1>f, LinkWords DEF Store
<1>p. PICK p : p = IF Minimum(t) THEN "unlink" ELSE "casUnlinkKey"
  OBVIOUS
<1>o. /\ \/ p = "unlink" /\ k.op = "extractMinimum"
         \/ p = "casUnlinkKey" /\ k.op = "extractWithKey"
      /\ p \in Pc
  BY <1>b, <1>c, <1>p DEF Minimum, Pc
<1>1. PICK m : m = [k EXCEPT !.pc = p, !.stage = "delete"]
  OBVIOUS
<1>2. my' = [my EXCEPT ![t] = m]
  BY <1>b, <1>p, <1>1 DEF Mark
<1>3. /\ m \in Variables
      /\ m.pc = p /\ m.stage = "delete" /\ m.op = k.op /\ m.key = k.key
      /\ m.prev = k.prev /\ m.cur = k.cur /\ m.nxt = k.nxt /\ m.new = k.new
      /\ m.seen = k.seen /\ m.todo = k.todo
  BY <1>1, <1>o DEF Variables
<1>s. \A n \in L : toPtr_m(next'[n]) = toPtr_m(next[n])
  BY <1>c, <1>e, <1>n DEF Succ
<1>4. Shape(L)'
  <2>1. /\ Shape(L) /\ head \in L /\ tail \in L /\ ~ isMarked_m(next[head])
    BY DEF ListInv, Shape, Ends
  <2>2. ~ isMarked_m(next'[head]) /\ next'[tail] = next[tail]
    BY <1>c, <1>n, <2>1
  <2> QED BY <1>f, <1>s, <2>1, <2>2, ShapeKept
<1>5. Operation(L, m)'
  <2>0. \A n \in Node : Solid(L, n) => Solid(L, n)'
    BY <1>e, <1>n DEF Solid
  <2>1. Places(m)'
    BY <1>b, <1>c, <1>o, <1>3 DEF Operation, Places, Here, Walk
  <2>2. Purpose(m)'
    BY <1>b, <1>o, <1>3 DEF Operation, Purpose
  <2>3. Fresh(L, m)'
    <3>1. m.new # NULL => m.new \in Node /\ m.new \notin L /\ ~ isMarked_m(next[m.new])
      BY <1>b, <1>c, <1>3 DEF Operation, Fresh, Ref
    <3>2. m.pc # "clearNew" /\ m.op # "insert"
      BY <1>o, <1>3
    <3> QED BY <1>c, <1>n, <3>1, <3>2 DEF Fresh
  <2>4. Sound(L, m)'
    <3>1. /\ m.prev # NULL => m.prev \in Node /\ Solid(L, m.prev)
          /\ m.cur # NULL => m.cur \in Node /\ Solid(L, m.cur)
          /\ m.nxt # NULL /\ ~ Unchecked(m) => m.nxt \in Node /\ Solid(L, m.nxt) /\ m.nxt # head
      BY <1>b, <1>o, <1>3 DEF Operation, Sound, Unchecked, Variables, Ref
    <3> QED BY <2>0, <3>1 DEF Sound, Unchecked
  <2>5. Knows(L, m)'
    <3>1. Succ(k.cur)' = k.nxt /\ isMarked_m(next'[k.cur])
      BY <1>e, <1>n DEF Succ
    <3>2. m.pc \in {"unlink", "casUnlinkKey"}
      BY <1>o, <1>3
    <3>3. m.prev # NULL /\ m.op \in {"insert", "extractWithKey"} =>
            m.prev = head \/ key[m.prev] < m.key
      BY <1>b, <1>3 DEF Operation, Knows
    <3> QED BY <1>f, <1>3, <3>1, <3>2, <3>3 DEF Knows
  <2> QED BY <2>1, <2>2, <2>3, <2>4, <2>5 DEF Operation
<1>6. History(L)' /\ published' \in [Key -> Nat] /\ delivered' \in [Key -> Nat]
  <2>1. published' \in [Key -> Nat] /\ delivered' \in [Key -> Nat]
    BY <1>f DEF ListInv, ListTypes
  <2> QED BY <1>f, <2>1, HistoryKept
<1>7. Enough(L, L, k, m, NULL)
  <2>1. ASSUME NEW n \in Node PROVE Count(m, n) <= Count(k, n) + Is(NULL, n)
    <3>1. PICK a, b, c, d : /\ a = Is(k.prev, n) /\ b = Is(k.cur, n)
                            /\ c = Is(k.new, n) /\ d = Is(k.nxt, n)
      OBVIOUS
    <3>2. /\ a \in {0, 1} /\ b \in {0, 1} /\ c \in {0, 1} /\ d \in {0, 1}
          /\ TodoCount(k.todo, n) = 0 /\ Is(NULL, n) = 0
      BY <1>b, <3>1, IsType, TodoFew
    <3>3. Count(k, n) = a + b + 2 * c + d /\ Count(m, n) = a + b + 2 * c + d
      BY <1>b, <1>o, <1>3, <3>1, <3>2 DEF Count
    <3> QED BY <3>2, <3>3
  <2> QED BY <1>3, <2>1, Cheaper
<1>8. Held(m) \subseteq HeldNodes(my, L) /\ Len(m.todo) <= 4 /\ m.new \in {NULL, my[t].new}
  BY <1>b, <1>o, <1>3, Running DEF Held, Unchecked
<1>9. /\ L \subseteq L \cup ({my[t].new} \ {NULL}) /\ \A n \in L \ L : isMarked_m(next[n])
      /\ k.cur \in L \cup Held(my[t])
  BY <1>c
<1> QED BY <1>b, <1>c, <1>e, <1>f, <1>2, <1>3, <1>4, <1>5, <1>6, <1>7, <1>8, <1>9, WriteFrame

\* The link of an unlinked node is cleared.
LEMMA ClearUnlinkedStep ==
  ASSUME NEW L \in SUBSET Node, ListInv(L), NEW t \in Thread, ClearUnlinked(t)
  PROVE  ListInv(L)'
<1>b. PICK k \in Variables : k = my[t] /\ Operation(L, k) /\ k.pc = "clear" /\ k.todo = <<>>
  BY Running DEF ClearUnlinked, Ready
<1>c. /\ k.cur \in Node \ L /\ isMarked_m(next[k.cur]) /\ k.cur # NULL /\ k.cur # head
      /\ k.prev \in Node /\ (k.stage = "delete" => k.nxt \in Node /\ k.op = "extractMinimum")
  <2>1. k.cur \in Node /\ k.cur # NULL /\ k.prev \in Node /\ k.cur # head
    BY <1>b DEF Operation, Places, Here, Variables, Ref
  <2>2. k.stage = "delete" => k.nxt \in Node /\ k.op = "extractMinimum"
    BY <1>b DEF Operation, Places, Purpose, Variables, Ref
  <2>3. k.cur \notin L
    BY <1>b DEF Operation, Knows
  <2> QED BY <1>b, <2>1, <2>2, <2>3 DEF Operation, Sound, Solid
<1>d. PICK w : w = NULL_D
  OBVIOUS
<1>e. w \in MarkablePointer(Ref) /\ isMarked_m(w)
  BY <1>d, NullWord
<1>f. Store(k.cur, w) /\ key' = key /\ UNCHANGED <<published, delivered>>
  BY <1>b, <1>d DEF ClearUnlinked, Unlinked, Store
<1>n. /\ next \in [Node -> MarkablePointer(Ref)] /\ next' = [next EXCEPT ![k.cur] = w]
      /\ next'[k.cur] = w /\ \A n \in Node \ {k.cur} : next'[n] = next[n]
  BY <1>c, <1>f, LinkWords DEF Store
<1>g. Shape(L)'
  <2>1. \A n \in L : next'[n] = next[n]
    BY <1>c, <1>n
  <2> QED BY <1>f, <2>1, OutsideShape
<1>h. History(L)' /\ published' \in [Key -> Nat] /\ delivered' \in [Key -> Nat]
  <2>1. published' \in [Key -> Nat] /\ delivered' \in [Key -> Nat]
    BY <1>f DEF ListInv, ListTypes
  <2> QED BY <1>f, <2>1, HistoryKept
<1>i. /\ L \subseteq L \cup ({my[t].new} \ {NULL}) /\ \A n \in L \ L : isMarked_m(next[n])
      /\ k.cur \in L \cup Held(my[t])
  BY <1>b, <1>c DEF Held
<1>j. \A n \in Node : Solid(L, n) => Solid(L, n)'
  BY <1>e, <1>n DEF Solid
<1>k. /\ k.new # NULL => /\ k.new \notin L /\ ~ isMarked_m(next'[k.new])
                         /\ k.op = "insert" => key[k.new] = k.key
      /\ k.op = "insert" => k.new # NULL
  <2>1. k.new # NULL => /\ k.new \in Node /\ k.new \notin L /\ ~ isMarked_m(next[k.new])
                        /\ k.op = "insert" => key[k.new] = k.key
    BY <1>b DEF Operation, Fresh, Variables, Ref
  <2>2. k.op = "insert" => k.new # NULL
    BY <1>b DEF Operation, Fresh
  <2> QED BY <1>c, <1>n, <2>1, <2>2
<1>l. CASE Deleting(t)
  <2>s. PICK s : s = <<k.nxt, k.prev, k.cur>>
    OBVIOUS
  <2>t. /\ s \in Seq(Node) /\ Len(s) <= 4 /\ k.stage = "delete"
    BY <1>b, <1>c, <1>l, <2>s DEF Deleting
  <2>1. PICK m : m = [k EXCEPT !.pc = "clearExtracted", !.prev = NULL, !.nxt = NULL, !.todo = s]
    OBVIOUS
  <2>2. my' = [my EXCEPT ![t] = m]
    BY <1>b, <1>l, <2>s, <2>1 DEF ClearUnlinked
  <2>3. /\ m \in Variables
        /\ m.pc = "clearExtracted" /\ m.stage = k.stage /\ m.op = k.op /\ m.key = k.key
        /\ m.prev = NULL /\ m.cur = k.cur /\ m.nxt = NULL /\ m.new = k.new
        /\ m.seen = k.seen /\ m.todo = s
    <3>1. NULL \in Ref /\ "clearExtracted" \in Pc
      BY DEF Ref, Pc
    <3>2. m \in Variables
      BY <2>t, <2>1, <3>1 DEF Variables
    <3> QED BY <2>1, <3>2 DEF Variables
  <2>5. Operation(L, m)'
    <3>1. Places(m)'
      BY <1>b, <1>c, <2>3 DEF Operation, Places, Here, Walk, NULL, tail
    <3>2. Purpose(m)'
      BY <1>b, <1>c, <2>t, <2>3 DEF Operation, Purpose
    <3>3. Fresh(L, m)'
      BY <1>c, <1>f, <1>k, <2>t, <2>3 DEF Fresh
    <3>4. Sound(L, m)'
      BY <1>b, <1>c, <1>j, <2>3 DEF Operation, Sound
    <3>5. Knows(L, m)'
      BY <1>b, <1>c, <2>3 DEF Operation, Knows
    <3> QED BY <3>1, <3>2, <3>3, <3>4, <3>5 DEF Operation
  <2>7. Enough(L, L, k, m, NULL)
    <3>1. ASSUME NEW n \in Node PROVE Count(m, n) <= Count(k, n) + Is(NULL, n)
      <4>1. PICK a, b, c, d : /\ a = Is(k.prev, n) /\ b = Is(k.cur, n)
                              /\ c = Is(k.new, n) /\ d = Is(k.nxt, n)
        OBVIOUS
      <4>2. /\ a \in {0, 1} /\ b \in {0, 1} /\ c \in {0, 1} /\ d \in {0, 1}
            /\ TodoCount(k.todo, n) = 0 /\ Is(NULL, n) = 0
        BY <1>b, <4>1, IsType, TodoFew
      <4>3. TodoCount(s, n) = d + a + b
        BY <2>s, <4>1, TodoThree
      <4>4. Count(k, n) = a + 2 * b + 2 * c + d
        BY <1>b, <2>t, <4>1, <4>2 DEF Count
      <4>5. Count(m, n) = b + 2 * c + (d + a + b)
        BY <2>3, <4>1, <4>2, <4>3 DEF Count
      <4> QED BY <4>2, <4>4, <4>5
    <3> QED BY <2>3, <3>1, Cheaper
  <2>8. Held(m) \subseteq HeldNodes(my, L) /\ Len(m.todo) <= 4 /\ m.new \in {NULL, my[t].new}
    BY <1>b, <2>t, <2>3, Running DEF Held, Unchecked
  <2> QED BY <1>b, <1>c, <1>e, <1>f, <1>g, <1>h, <1>i, <2>2, <2>3, <2>5, <2>7, <2>8, WriteFrame
<1>m. CASE ~ Deleting(t)
  <2>s. PICK s : s = <<k.cur>>
    OBVIOUS
  <2>t. s \in Seq(Node) /\ Len(s) <= 4 /\ k.stage # "delete"
    BY <1>b, <1>c, <1>m, <2>s DEF Deleting
  <2>1. PICK m : m = [k EXCEPT !.pc = "load", !.stage = "again", !.cur = NULL, !.todo = s]
    OBVIOUS
  <2>2. my' = [my EXCEPT ![t] = m]
    BY <1>b, <1>m, <2>s, <2>1 DEF ClearUnlinked
  <2>3. /\ m \in Variables
        /\ m.pc = "load" /\ m.stage = "again" /\ m.op = k.op /\ m.key = k.key
        /\ m.prev = k.prev /\ m.cur = NULL /\ m.nxt = k.nxt /\ m.new = k.new
        /\ m.seen = k.seen /\ m.todo = s
    <3>1. NULL \in Ref /\ "load" \in Pc
      BY DEF Ref, Pc
    <3>2. m \in Variables
      BY <2>t, <2>1, <3>1 DEF Variables
    <3> QED BY <2>1, <3>2 DEF Variables
  <2>5. Operation(L, m)'
    <3>1. Places(m)'
      BY <1>b, <1>c, <2>3 DEF Operation, Places, Here, Walk, NULL, head, tail, Node
    <3>2. Purpose(m)'
      BY <1>b, <1>c, <2>t, <2>3 DEF Operation, Purpose
    <3>3. Fresh(L, m)'
      BY <1>c, <1>f, <1>k, <2>t, <2>3 DEF Fresh
    <3>4. Sound(L, m)'
      <4>1. /\ m.prev \in Node /\ Solid(L, m.prev) /\ m.cur = NULL
            /\ m.nxt # NULL => m.nxt \in Node /\ Solid(L, m.nxt) /\ m.nxt # head
        BY <1>b, <1>c, <2>3 DEF Operation, Sound, Unchecked, Variables, Ref, Node, NULL
      <4> QED BY <1>j, <4>1 DEF Sound
    <3>5. Knows(L, m)'
      BY <1>b, <1>c, <1>f, <2>3 DEF Operation, Knows
    <3> QED BY <3>1, <3>2, <3>3, <3>4, <3>5 DEF Operation
  <2>7. Enough(L, L, k, m, NULL)
    <3>1. ASSUME NEW n \in Node PROVE Count(m, n) <= Count(k, n) + Is(NULL, n)
      <4>1. PICK a, b, c, d : /\ a = Is(k.prev, n) /\ b = Is(k.cur, n)
                              /\ c = Is(k.new, n) /\ d = Is(k.nxt, n)
        OBVIOUS
      <4>2. /\ a \in {0, 1} /\ b \in {0, 1} /\ c \in {0, 1} /\ d \in {0, 1}
            /\ TodoCount(k.todo, n) = 0 /\ Is(NULL, n) = 0 /\ TodoCount(s, n) = b
        BY <1>b, <2>s, <4>1, IsType, TodoFew
      <4>4. Count(k, n) = a + b + 2 * c + d
        BY <1>b, <2>t, <4>1, <4>2 DEF Count
      <4>5. Count(m, n) = a + 2 * c + d + b
        BY <2>3, <4>1, <4>2 DEF Count
      <4> QED BY <4>2, <4>4, <4>5
    <3> QED BY <2>3, <3>1, Cheaper
  <2>8. Held(m) \subseteq HeldNodes(my, L) /\ Len(m.todo) <= 4 /\ m.new \in {NULL, my[t].new}
    BY <1>b, <2>t, <2>3, Running DEF Held, Unchecked
  <2> QED BY <1>b, <1>c, <1>e, <1>f, <1>g, <1>h, <1>i, <2>2, <2>3, <2>5, <2>7, <2>8, WriteFrame
<1> QED BY <1>l, <1>m

\* The extraction by key unlinks its element itself.
LEMMA CasUnlinkKeyStep ==
  ASSUME NEW L \in SUBSET Node, ListInv(L), NEW t \in Thread, CasUnlinkKey(t)
  PROVE  \E M \in SUBSET Node : M = L \ {my[t].cur} /\ ListInv(M)'
<1>a. Ready(t, "casUnlinkKey") /\ Precedes(t)
  BY DEF CasUnlinkKey
<1>b. PICK k \in Variables : k = my[t] /\ Operation(L, k) /\ k.pc = "casUnlinkKey" /\ k.todo = <<>>
  BY <1>a, Running DEF Ready
<1>c. /\ k.prev \in L \ {tail} /\ k.cur \in L \ {head, tail} /\ k.prev # k.cur
      /\ Succ(k.prev) = k.cur /\ ~ isMarked_m(next[k.prev]) /\ isMarked_m(next[k.cur])
  BY <1>a, <1>b, Predecessor
<1>d. PICK M, w, s : /\ M = L \ {k.cur} /\ w = toMarkable(k.nxt, FALSE)
                     /\ s = <<k.prev, k.nxt, k.cur, k.cur>>
  OBVIOUS
<1>e. /\ k.nxt = Succ(k.cur) /\ k.nxt \in Node /\ w = toMarkable(Succ(k.cur), FALSE)
      /\ w \in MarkablePointer(Ref) /\ s \in Seq(Node) /\ Len(s) <= 4
  <2>1. k.nxt = Succ(k.cur)
    BY <1>b, <1>c DEF Operation, Knows
  <2>2. k.nxt \in Node
    BY <1>c, <2>1 DEF ListInv, Shape, Links
  <2>3. w \in MarkablePointer(Ref)
    BY <1>d, <2>2 DEF toMarkable, MarkablePointer, Ref
  <2>4. s \in Seq(Node) /\ Len(s) <= 4
    BY <1>c, <1>d, <2>2
  <2> QED BY <1>d, <2>1, <2>2, <2>3, <2>4
<1>f. /\ Store(k.prev, w) /\ key' = key /\ published' = published
      /\ delivered' = [delivered EXCEPT ![key[k.cur]] = @ + 1]
  BY <1>b, <1>d DEF CasUnlinkKey, Store, Deliver
<1>n. /\ next \in [Node -> MarkablePointer(Ref)] /\ next' = [next EXCEPT ![k.prev] = w]
      /\ next'[k.prev] = w /\ \A n \in Node \ {k.prev} : next'[n] = next[n]
  BY <1>c, <1>f, LinkWords DEF Store
<1>1. PICK m : m = [Resting EXCEPT !.todo = s]
  OBVIOUS
<1>2. my' = [my EXCEPT ![t] = m]
  BY <1>b, <1>d, <1>1 DEF CasUnlinkKey, Finish
<1>9. /\ M \subseteq L \cup ({my[t].new} \ {NULL}) /\ M \in SUBSET Node
      /\ \A n \in L \ M : isMarked_m(next[n])
  BY <1>c, <1>d
<1>3. /\ m \in Variables /\ Operation(M, m)' /\ Held(m) = {} /\ m.new = NULL /\ m.todo = s
      /\ \A n \in Node : Count(m, n) = TodoCount(s, n)
  <2>1. M \in SUBSET Node
    BY <1>9
  <2>2. s \in Seq(Node)
    BY <1>e
  <2> QED BY <2>1, <2>2, <1>1, Ended
<1>4. Shape(M)'
  <2>1. Shape(L) /\ \A n \in Node : key[n] \in Nat
    BY KeyTypes DEF ListInv
  <2>2. \A n \in L \ {k.prev} : next'[n] = next[n]
    BY <1>n
  <2> QED BY <1>c, <1>d, <1>e, <1>f, <1>n, <2>1, <2>2, ShapeWithout
<1>6. History(M)' /\ published' \in [Key -> Nat] /\ delivered' \in [Key -> Nat]
  <2>1. published' \in [Key -> Nat]
    BY <1>f DEF ListInv, ListTypes
  <2> QED BY <1>c, <1>d, <1>f, <2>1, HistoryDelivered
<1>7. Enough(L, M, k, m, NULL)
  <2>1. ASSUME NEW n \in Node PROVE Count(m, n) <= Count(k, n) + Is(k.cur, n)
    <3>1. PICK a, b, c, d : /\ a = Is(k.prev, n) /\ b = Is(k.cur, n)
                            /\ c = Is(k.new, n) /\ d = Is(k.nxt, n)
      OBVIOUS
    <3>2. /\ a \in {0, 1} /\ b \in {0, 1} /\ c \in {0, 1} /\ d \in {0, 1}
          /\ TodoCount(k.todo, n) = 0 /\ Is(NULL, n) = 0
      BY <1>b, <3>1, IsType, TodoFew
    <3>3. Count(m, n) = a + d + b + b
      BY <1>d, <1>3, <3>1, TodoFour
    <3>4. Count(k, n) = a + b + 2 * c + d
      BY <1>b, <3>1, <3>2 DEF Count
    <3>5. Count(m, n) <= Count(k, n) + b
      BY <3>2, <3>3, <3>4
    <3> QED BY <3>1, <3>5
  <2> QED BY <1>c, <1>d, <1>3, <2>1, CheaperWithout
<1>8. Held(m) \subseteq HeldNodes(my, L) /\ Len(m.todo) <= 4 /\ m.new \in {NULL, my[t].new}
  BY <1>e, <1>3
<1>10. ListInv(M)'
  BY <1>b, <1>c, <1>e, <1>f, <1>2, <1>3, <1>4, <1>6, <1>7, <1>8, <1>9, WriteFrame
<1> QED BY <1>b, <1>d, <1>9, <1>10

\* The new node joins the list.
LEMMA PublishStep ==
  ASSUME NEW L \in SUBSET Node, ListInv(L), NEW t \in Thread, Publish(t)
  PROVE  \E M \in SUBSET Node : M = L \cup {my[t].new} /\ my[t].new \in Node \ L /\ ListInv(M)'
<1>a. Ready(t, "publish") /\ Precedes(t)
  BY DEF Publish
<1>b. PICK k \in Variables : k = my[t] /\ Operation(L, k) /\ k.pc = "publish" /\ k.todo = <<>>
  BY <1>a, Running DEF Ready
<1>c. /\ k.prev \in L \ {tail} /\ k.cur \in L \ {head} /\ Succ(k.prev) = k.cur
      /\ ~ isMarked_m(next[k.prev])
  BY <1>a, <1>b, Predecessor
<1>x. /\ k.new \in Node \ L /\ k.new # NULL /\ k.op = "insert" /\ key[k.new] = k.key /\ k.key \in Key
      /\ next[k.new] = toMarkable(k.cur, FALSE)
      /\ k.prev = head \/ key[k.prev] < key[k.new]
      /\ key[k.new] < key[k.cur]
  <2>1. k.op = "insert" /\ k.key \in Key
    BY <1>b DEF Operation, Purpose
  <2>2. k.new # NULL /\ k.new \in Node /\ k.new \notin L /\ key[k.new] = k.key
    BY <1>b, <2>1 DEF Operation, Fresh, Variables, Ref
  <2>3. key[k.cur] > k.key /\ next[k.new] = toMarkable(k.cur, FALSE)
    BY <1>b DEF Operation, Knows
  <2>4. k.prev = head \/ key[k.prev] < k.key
    BY <1>b, <1>c, <2>1 DEF Operation, Knows, Node, NULL
  <2>5. key[k.cur] \in Nat /\ k.key \in Nat
    BY <1>c, <2>1, KeyTypes
  <2> QED BY <2>1, <2>2, <2>3, <2>4, <2>5
<1>d. PICK M, w, s : /\ M = L \cup {k.new} /\ w = toMarkable(k.new, FALSE)
                     /\ s = <<k.cur, k.prev, k.new>>
  OBVIOUS
<1>e. w \in MarkablePointer(Ref) /\ s \in Seq(Node) /\ Len(s) <= 4
  BY <1>c, <1>d, <1>x DEF toMarkable, MarkablePointer, Ref
<1>f. /\ Store(k.prev, w) /\ key' = key /\ delivered' = delivered
      /\ published' = [published EXCEPT ![k.key] = @ + 1]
  BY <1>b, <1>d DEF Publish, Store
<1>n. /\ next \in [Node -> MarkablePointer(Ref)] /\ next' = [next EXCEPT ![k.prev] = w]
      /\ next'[k.prev] = w /\ \A n \in Node \ {k.prev} : next'[n] = next[n]
  BY <1>c, <1>f, LinkWords DEF Store
<1>1. PICK m : m = [Resting EXCEPT !.todo = s]
  OBVIOUS
<1>2. my' = [my EXCEPT ![t] = m]
  BY <1>b, <1>d, <1>1 DEF Publish, Finish
<1>9. /\ M \subseteq L \cup ({my[t].new} \ {NULL}) /\ M \in SUBSET Node
      /\ \A n \in L \ M : isMarked_m(next[n])
  BY <1>b, <1>d, <1>x
<1>3. /\ m \in Variables /\ Operation(M, m)' /\ Held(m) = {} /\ m.new = NULL /\ m.todo = s
      /\ \A n \in Node : Count(m, n) = TodoCount(s, n)
  BY <1>e, <1>1, <1>9, Ended
<1>4. Shape(M)'
  <2>1. Shape(L) /\ \A n \in Node : key[n] \in Nat
    BY KeyTypes DEF ListInv
  <2>2. \A n \in L \ {k.prev} : next'[n] = next[n]
    BY <1>n
  <2>3. next'[k.new] = toMarkable(k.cur, FALSE)
    BY <1>c, <1>n, <1>x
  <2>4. key[k.new] \in Key
    BY <1>x
  <2> QED BY <1>c, <1>d, <1>f, <1>n, <1>x, <2>1, <2>2, <2>3, <2>4, ShapeWith
<1>6. History(M)' /\ published' \in [Key -> Nat] /\ delivered' \in [Key -> Nat]
  <2>1. delivered' \in [Key -> Nat]
    BY <1>f DEF ListInv, ListTypes
  <2> QED BY <1>d, <1>f, <1>x, <2>1, HistoryPublished
<1>7. Enough(L, M, k, m, NULL)
  <2>1. ASSUME NEW n \in Node PROVE Count(m, n) + Is(k.new, n) <= Count(k, n)
    <3>1. PICK a, b, c, d : /\ a = Is(k.prev, n) /\ b = Is(k.cur, n)
                            /\ c = Is(k.new, n) /\ d = Is(k.nxt, n)
      OBVIOUS
    <3>2. /\ a \in {0, 1} /\ b \in {0, 1} /\ c \in {0, 1} /\ d \in {0, 1}
          /\ TodoCount(k.todo, n) = 0 /\ Is(NULL, n) = 0
      BY <1>b, <3>1, IsType, TodoFew
    <3>3. Count(m, n) = b + a + c
      BY <1>d, <1>3, <3>1, TodoThree
    <3>4. Count(k, n) = a + b + 2 * c + d
      BY <1>b, <3>1, <3>2 DEF Count
    <3>5. Count(m, n) + c <= Count(k, n)
      BY <3>2, <3>3, <3>4
    <3> QED BY <3>1, <3>5
  <2> QED BY <1>d, <1>x, <1>3, <2>1, CheaperWith
<1>8. Held(m) \subseteq HeldNodes(my, L) /\ Len(m.todo) <= 4 /\ m.new \in {NULL, my[t].new}
  BY <1>e, <1>3
<1>10. ListInv(M)'
  BY <1>b, <1>c, <1>e, <1>f, <1>2, <1>3, <1>4, <1>6, <1>7, <1>8, <1>9, WriteFrame
<1> QED BY <1>b, <1>d, <1>x, <1>9, <1>10


-----------------------------------------------------------------------------
(* The calls of the allocator.                                             *)

\* A reference that waits is given to the allocator.
LEMMA ReleasingStep ==
  ASSUME NEW L \in SUBSET Node, ListInv(L), NEW t \in Thread, Release(t)
  PROVE  ListInv(L)'
<1>a. UNCHANGED <<next, key, calls, published, delivered>>
  BY DEF Release, CallRelease
<1>b. PICK k \in Variables : k = my[t] /\ Operation(L, k) /\ k.todo # <<>> /\ Len(k.todo) <= 4
  BY Running DEF Release
<1>c. PICK x, s : x = Head(k.todo) /\ s = Tail(k.todo)
  OBVIOUS
<1>d. x \in Node /\ s \in Seq(Node) /\ Len(s) <= 4
      /\ \A n : TodoCount(s, n) = TodoCount(k.todo, n) - Is(x, n)
  <2>1. k.todo \in Seq(Node)
    BY DEF Variables
  <2> QED BY <1>b, <1>c, <2>1, TodoLess
<1>1. PICK m : m = [k EXCEPT !.todo = s]
  OBVIOUS
<1>2. my' = [my EXCEPT ![t] = m] /\ CallRelease(t, x, FALSE)
  <2>1. my \in [Thread -> Variables]
    BY DEF ListInv, ListTypes
  <2> QED BY <1>b, <1>c, <1>1, <2>1 DEF Release
<1>3. /\ m \in Variables
      /\ m.pc = k.pc /\ m.stage = k.stage /\ m.op = k.op /\ m.key = k.key
      /\ m.prev = k.prev /\ m.cur = k.cur /\ m.nxt = k.nxt /\ m.new = k.new
      /\ m.seen = k.seen /\ m.todo = s
  <2>1. m \in Variables
    BY <1>d, <1>1 DEF Variables
  <2> QED BY <1>1, <2>1 DEF Variables
<1>4. Operation(L, m) /\ Purpose(m)
  <2>1. Places(m)
    BY <1>b, <1>3 DEF Operation, Places
  <2>2. Purpose(m)
    BY <1>b, <1>3 DEF Operation, Purpose
  <2>3. Fresh(L, m)
    BY <1>b, <1>3 DEF Operation, Fresh
  <2>4. Sound(L, m)
    BY <1>b, <1>3 DEF Operation, Sound, Unchecked
  <2>5. Knows(L, m)
    BY <1>b, <1>3 DEF Operation, Knows
  <2> QED BY <2>1, <2>2, <2>3, <2>4, <2>5 DEF Operation
<1>5. ASSUME NEW n \in Node PROVE Count(m, n) = Count(k, n) - Is(x, n)
  <2>1. PICK e, f, r : e = TodoCount(s, n) /\ f = TodoCount(k.todo, n) /\ r = Is(x, n)
    OBVIOUS
  <2>2. PICK a, b, c, d, g : /\ a = Is(k.prev, n) /\ b = Is(k.cur, n)
                             /\ c = Is(k.new, n) /\ d = Is(k.nxt, n)
                             /\ g = Is(toPtr_m(k.seen), n)
    OBVIOUS
  <2>3. /\ a \in {0, 1} /\ b \in {0, 1} /\ c \in {0, 1} /\ d \in {0, 1} /\ g \in {0, 1}
        /\ r \in {0, 1} /\ e = f - r
    BY <1>d, <2>1, <2>2, IsType
  <2>4. PICK h : h = a + (IF k.pc = "clear" /\ k.stage = "delete" THEN 2 * b ELSE b)
                     + (IF k.pc = "clearNew" THEN c ELSE 2 * c)
                     + (IF k.pc = "grabRetain" THEN 0 ELSE d)
                     + (IF k.pc = "recheck" THEN g ELSE 0)
    OBVIOUS
  <2>5. h \in Nat
    BY <2>3, <2>4
  <2>6. Count(k, n) = h + f
    BY <2>1, <2>2, <2>4 DEF Count
  <2>7. Count(m, n) = h + e
    BY <1>3, <2>1, <2>2, <2>4 DEF Count
  <2>8. f \in Nat
    <3>1. \A i \in 1 .. 4 : At(k.todo, i, n) \in Nat
      BY IsType DEF At
    <3> QED BY <2>1, <3>1 DEF TodoCount
  <2> QED BY <2>1, <2>3, <2>5, <2>6, <2>7, <2>8
<1>6. PICK H, c : H = HeldNodes(my, L) /\ c = Owned(my, L)
  OBVIOUS
<1>7. PICK G, d : G = HeldNodes(After(my, t, m), L) /\ d = Owned(After(my, t, m), L)
  OBVIOUS
<1>8. G = HeldNodes(my', L) /\ d = Owned(my', L)
  BY <1>2, <1>7 DEF After
<1>9. /\ d \in [Node -> Nat] /\ \A n \in G : d[n] >= 1
      /\ G \subseteq H \cup L \cup Held(m)
  BY <1>3, <1>4, <1>6, <1>7, HeldStep
<1>10. G \subseteq H
  <2>1. L \cup Held(k) \subseteq H
    BY <1>b, <1>6, Running
  <2>2. Held(m) = Held(k)
    BY <1>3 DEF Held, Unchecked
  <2> QED BY <1>9, <2>1, <2>2
<1>11. ASSUME NEW n \in Node PROVE d[n] <= c[n] - IF n = x THEN 1 ELSE 0
  <2>1. PICK i, j, r, l : i = Count(m, n) /\ j = Count(k, n) /\ r = Is(x, n) /\ l = In(L, n)
    OBVIOUS
  <2>2. i \in Nat /\ j \in Nat /\ r \in {0, 1} /\ l \in {0, 1} /\ i = j - r
    BY <1>b, <1>3, <1>5, <2>1, CountBound, IsType DEF Most, In
  <2>3. d[n] = c[n] + (i - j) + (l - l)
    BY <1>b, <1>3, <1>4, <1>6, <1>7, <2>1, HeldStep
  <2>4. c[n] \in Nat /\ r = IF n = x THEN 1 ELSE 0
    <3>1. Pool(H, c)
      BY <1>6 DEF ListInv
    <3> QED BY <2>1, <3>1, PoolFacts DEF Is
  <2> QED BY <2>2, <2>3, <2>4
<1>12. Pool(G, d)'
  <2>1. Pool(H, c)
    BY <1>6 DEF ListInv
  <2>2. IsFiniteSet(Thread)
    BY ListAssumption
  <2> QED BY ZenonT(60), <1>d, <1>2, <1>9, <1>10, <1>11, <2>1, <2>2, ReleaseStep
<1>13. calls' \in [Thread -> 0 .. Calls]
  BY <1>a DEF ListInv, ListTypes
<1> QED BY <1>a, <1>b, <1>d, <1>2, <1>3, <1>4, <1>8, <1>12, <1>13, SameList

\* The allocation of a new node begins, or ends without one.
LEMMA CallFrame ==
  ASSUME NEW L \in SUBSET Node, ListInv(L), NEW t \in Thread, NEW m \in Variables,
         my' = [my EXCEPT ![t] = m], Operation(L, m), Held(m) = {}, m.new = NULL, m.todo = <<>>,
         \A n \in Node : Count(m, n) = 0,
         UNCHANGED <<freeList, refCount, next, cnode, cnext, claimed, inAlloc, follow>>,
         UNCHANGED <<key, published, delivered>>, calls' \in [Thread -> 0 .. Calls],
         cpc[t] \in {"idle", "outOfMemory"},
         NEW p \in {"idle", "readHead"}, cpc' = [cpc EXCEPT ![t] = p]
  PROVE  ListInv(L)'
<1>1. PICK H, c : H = HeldNodes(my, L) /\ c = Owned(my, L)
  OBVIOUS
<1>2. PICK G, d : G = HeldNodes(After(my, t, m), L) /\ d = Owned(After(my, t, m), L)
  OBVIOUS
<1>3. G = HeldNodes(my', L) /\ d = Owned(my', L)
  BY <1>2 DEF After
<1>4. Purpose(m) /\ L \subseteq H
  BY <1>1, Running DEF Operation
<1>5. /\ d \in [Node -> Nat] /\ \A n \in G : d[n] >= 1
      /\ G \subseteq H \cup L \cup Held(m)
  BY <1>1, <1>2, <1>4, HeldStep
<1>6. ASSUME NEW n \in Node PROVE d[n] <= c[n]
  <2>1. PICK i, j, l : i = Count(m, n) /\ j = Count(my[t], n) /\ l = In(L, n)
    OBVIOUS
  <2>2. i = 0 /\ j \in Nat /\ l \in {0, 1}
    <3>1. my[t] \in Variables
      BY Running
    <3>2. j \in 0 .. Most
      BY <2>1, <3>1, CountBound
    <3> QED BY <2>1, <3>2 DEF Most, In
  <2>3. d[n] = c[n] + (i - j) + (l - l)
    BY <1>1, <1>2, <1>4, <2>1, HeldStep
  <2>4. c[n] \in Nat
    <3>1. Pool(H, c)
      BY <1>1 DEF ListInv
    <3> QED BY <3>1, PoolFacts
  <2> QED BY <2>2, <2>3, <2>4
<1>7. Pool(H, c) /\ IsFiniteSet(Thread)
  BY <1>1, ListAssumption DEF ListInv
<1>8. Pool(G, d)'
  BY <1>4, <1>5, <1>6, <1>7, CallStep
<1>9. Len(m.todo) <= 4 /\ m.new \in {NULL, my[t].new}
  OBVIOUS
<1> QED BY <1>3, <1>8, <1>9, SameList

\* The insertion allocates its node.
LEMMA InsertStep ==
  ASSUME NEW L \in SUBSET Node, ListInv(L), NEW t \in Thread, NEW j \in Key, Insert(t, j)
  PROVE  ListInv(L)'
<1>a. /\ UNCHANGED <<freeList, refCount, next, cnode, cnext, claimed, inAlloc, follow>>
      /\ UNCHANGED <<key, published, delivered>>
      /\ cpc[t] \in {"idle", "outOfMemory"} /\ cpc' = [cpc EXCEPT ![t] = "readHead"]
  BY DEF Insert, CallAlloc
<1>b. "insert" \in Op
  BY DEF Insert, CanCall
<1>1. PICK m : m = [Resting EXCEPT !.pc = "create", !.op = "insert", !.key = j]
  OBVIOUS
<1>2. my' = [my EXCEPT ![t] = m]
  BY <1>1 DEF Insert
<1>3. /\ m \in Variables
      /\ m.pc = "create" /\ m.stage = "first" /\ m.op = "insert" /\ m.key = j
      /\ m.prev = NULL /\ m.cur = NULL /\ m.nxt = NULL /\ m.new = NULL
      /\ m.seen = NULL_D /\ m.todo = <<>>
  <2>1. NULL \in Ref /\ NULL_D \in MarkablePointer(Ref) /\ "create" \in Pc /\ <<>> \in Seq(Node)
    BY NullWord DEF Ref, Pc
  <2>2. m \in Variables
    BY <1>b, <1>1, <2>1 DEF Variables, Resting
  <2> QED BY <1>1, <2>2 DEF Resting
<1>4. Operation(L, m)
  <2>1. Places(m)
    BY <1>3 DEF Operation, Places, Here, Walk, NULL, head, tail
  <2>2. Purpose(m)
    BY <1>3 DEF Operation, Purpose
  <2>3. Fresh(L, m)
    BY <1>3 DEF Operation, Fresh
  <2>4. Sound(L, m)
    BY <1>3 DEF Operation, Sound, Unchecked
  <2>5. Knows(L, m)
    BY <1>3 DEF Operation, Knows
  <2> QED BY <2>1, <2>2, <2>3, <2>4, <2>5 DEF Operation
<1>5. \A n \in Node : Count(m, n) = 0
  BY <1>3, IsType, TodoFew DEF Count
<1>6. Held(m) = {}
  BY <1>3 DEF Held
<1>7. calls' \in [Thread -> 0 .. Calls]
  <2>1. calls \in [Thread -> 0 .. Calls] /\ calls[t] < Calls /\ calls' = [calls EXCEPT ![t] = @ + 1]
    BY Running DEF Insert, CanCall, Called
  <2>2. calls[t] + 1 \in 0 .. Calls
    BY <2>1, ListAssumption
  <2> QED BY <2>1, <2>2
<1> QED BY <1>a, <1>2, <1>3, <1>4, <1>5, <1>6, <1>7, CallFrame

\* There is no node left for the insertion.
LEMMA CreateFailedStep ==
  ASSUME NEW L \in SUBSET Node, ListInv(L), NEW t \in Thread, CreateFailed(t)
  PROVE  ListInv(L)'
<1>a. /\ UNCHANGED <<freeList, refCount, next, cnode, cnext, claimed, inAlloc, follow>>
      /\ UNCHANGED <<key, published, delivered>>
      /\ cpc[t] \in {"idle", "outOfMemory"} /\ cpc' = [cpc EXCEPT ![t] = "idle"]
      /\ calls' = calls
  BY DEF CreateFailed
<1>1. PICK s, m : s = <<>> /\ m = [Resting EXCEPT !.todo = s]
  OBVIOUS
<1>2. my' = [my EXCEPT ![t] = m]
  BY <1>1 DEF CreateFailed, Finish
<1>3. /\ m \in Variables /\ Operation(L, m) /\ Held(m) = {} /\ m.new = NULL /\ m.todo = s
      /\ \A n \in Node : Count(m, n) = TodoCount(s, n)
  <2>1. s \in Seq(Node)
    BY <1>1
  <2> QED BY <1>1, <2>1, Ended
<1>4. \A n \in Node : Count(m, n) = 0
  BY <1>1, <1>3, TodoFew
<1>5. calls' \in [Thread -> 0 .. Calls]
  BY <1>a DEF ListInv, ListTypes
<1> QED BY <1>a, <1>1, <1>2, <1>3, <1>4, <1>5, CallFrame

\* A step of the allocator.
LEMMA CmemStep ==
  ASSUME NEW L \in SUBSET Node, ListInv(L), NEW t \in Thread, cmemStep(t), UNCHANGED listVars
  PROVE  ListInv(L)'
<1>a. /\ key' = key /\ my' = my /\ calls' = calls
      /\ published' = published /\ delivered' = delivered
  BY DEF listVars
<1>1. PICK H, c : H = HeldNodes(my, L) /\ c = Owned(my, L)
  OBVIOUS
<1>2. Pool(H, c)' /\ \A n \in H : next'[n] = next[n]
  <2>1. Pool(H, c) /\ IsFiniteSet(Thread)
    BY <1>1, ListAssumption DEF ListInv
  <2> QED BY <2>1, AllocatorStep
<1>3. PICK m \in Variables : /\ m = my[t] /\ Operation(L, m) /\ Len(m.todo) <= 4
                            /\ Held(m) \subseteq H
  BY <1>1, Running
<1>4. L \subseteq H
  BY <1>1, Running
<1>5. /\ my' = [my EXCEPT ![t] = m]
      /\ key' \in [Node -> LONG_MIN .. LONG_MAX] /\ calls' \in [Thread -> 0 .. Calls]
      /\ published' \in [Key -> Nat] /\ delivered' \in [Key -> Nat]
  BY <1>a, <1>3 DEF ListInv, ListTypes
<1>6. \A u \in Thread : my[u].new # NULL =>
        my[u].new \in H /\ my[u].new \notin L /\ next'[my[u].new] = next[my[u].new]
  <2>1. \A u \in Thread : my[u].new # NULL => my[u].new \in H
    BY <1>1 DEF HeldNodes, Held
  <2>2. \A u \in Thread : my[u].new # NULL => my[u].new \notin L
    BY DEF ListInv, Operation, Fresh
  <2> QED BY <1>2, <2>1, <2>2
<1>7. Harmless(L, L, H)
  BY <1>a, <1>2 DEF Harmless
<1>8. Operation(L, m)'
  BY <1>3, <1>6, <1>7, Undisturbed
<1>9. Shape(L)'
  <2>1. Shape(L) /\ head \in L /\ tail \in L /\ ~ isMarked_m(next[head])
    BY DEF ListInv, Shape, Ends
  <2>2. \A n \in L : next'[n] = next[n]
    BY <1>2, <1>4
  <2> QED BY <1>a, <2>1, <2>2, ShapeKept
<1>10. History(L)'
  BY <1>a, HistoryKept
<1>11. H = HeldNodes(my', L) /\ c = Owned(my', L)
  BY <1>a, <1>1
<1> QED BY <1>1, <1>2, <1>3, <1>5, <1>6, <1>7, <1>8, <1>9, <1>10, <1>11, Frame

\* The allocation ends with a new node.
LEMMA CreatingStep ==
  ASSUME NEW L \in SUBSET Node, ListInv(L), NEW t \in Thread, Created(t)
  PROVE  ListInv(L)'
<1>a. /\ cpc[t] = "allocated"
      /\ UNCHANGED <<freeList, cnext, claimed, inAlloc, follow>>
      /\ next' = [next EXCEPT ![cnode[t]] = toMarkable(NULL, FALSE)]
      /\ refCount' = [refCount EXCEPT ![cnode[t]] = Retained(@)]
      /\ cpc' = [cpc EXCEPT ![t] = "idle"] /\ cnode' = [cnode EXCEPT ![t] = NULL]
      /\ calls' = calls /\ published' = published /\ delivered' = delivered
  BY DEF Created
<1>b. PICK k \in Variables : /\ k = my[t] /\ Operation(L, k) /\ k.pc = "create"
                            /\ Len(k.todo) <= 4 /\ k.op = "insert" /\ k.key \in Key
  <2>1. my[t].pc = "create" /\ Operation(L, my[t])
    BY Running DEF Created
  <2>2. my[t].op = "insert" /\ my[t].key \in Key
    BY <2>1 DEF Operation, Purpose
  <2> QED BY <2>1, <2>2, Running
<1>1. PICK H, c : H = HeldNodes(my, L) /\ c = Owned(my, L)
  OBVIOUS
<1>2. Pool(H, c) /\ IsFiniteSet(Thread) /\ L \subseteq H /\ Held(k) \subseteq H
  BY <1>b, <1>1, ListAssumption, Running DEF ListInv
<1>3. PICK x : x = cnode[t] /\ x \in Node /\ x \notin H /\ x # NULL
  <2>1. cnode[t] \in Node
    BY <1>a, <1>2, PoolFacts DEF Control, Counted
  <2>2. Taking(t, cnode[t])
    BY <1>a DEF Taking
  <2>3. cnode[t] \notin H
    BY <1>2, <2>2 DEF Pool, HeldInv
  <2> QED BY <2>1, <2>3 DEF Node, NULL
<1>4. PICK m : m = [k EXCEPT !.new = x, !.pc = "scan"]
  OBVIOUS
<1>5. /\ m \in Variables
      /\ m.pc = "scan" /\ m.stage = k.stage /\ m.op = k.op /\ m.key = k.key
      /\ m.prev = k.prev /\ m.cur = k.cur /\ m.nxt = k.nxt /\ m.new = x
      /\ m.seen = k.seen /\ m.todo = k.todo
  <2>1. x \in Ref /\ "scan" \in Pc
    BY <1>3 DEF Ref, Pc
  <2>2. m \in Variables
    BY <1>4, <2>1 DEF Variables
  <2> QED BY <1>4, <2>2 DEF Variables
<1>6. my' = [my EXCEPT ![t] = m] /\ key' = [key EXCEPT ![x] = m.key]
  <2>1. my \in [Thread -> Variables]
    BY DEF ListInv, ListTypes
  <2>2. my' = [my EXCEPT ![t] = m]
    BY <1>b, <1>3, <1>4, <2>1 DEF Created
  <2> QED BY <1>b, <1>3, <1>5, <2>2 DEF Created
<1>7. /\ \A n \in H : next'[n] = next[n] /\ key'[n] = key[n]
      /\ key'[x] = m.key /\ ~ isMarked_m(next'[x])
  <2>1. key \in [Node -> LONG_MIN .. LONG_MAX] /\ next \in [Node -> MarkablePointer(Ref)]
    BY <1>3, LinkWords DEF ListInv, ListTypes
  <2>2. H \subseteq Node
    BY <1>2, PoolFacts
  <2> QED BY <1>a, <1>3, <1>6, <2>1, <2>2 DEF toMarkable, isMarked_m
<1>8. /\ key' \in [Node -> LONG_MIN .. LONG_MAX] /\ calls' \in [Thread -> 0 .. Calls]
      /\ published' \in [Key -> Nat] /\ delivered' \in [Key -> Nat]
  <2>1. m.key \in LONG_MIN .. LONG_MAX
    BY <1>b, <1>5, ListAssumption
  <2> QED BY <1>a, <1>6, <2>1 DEF ListInv, ListTypes
<1>9. Harmless(L, L, H)
  BY <1>7 DEF Harmless
<1>10. Operation(L, m)'
  <2>0. \A n \in H : Solid(L, n) => Solid(L, n)'
    BY <1>7 DEF Solid
  <2>1. Places(m)'
    BY <1>b, <1>5 DEF Operation, Places, Here, Walk
  <2>2. Purpose(m)'
    BY <1>b, <1>5 DEF Operation, Purpose
  <2>3. Fresh(L, m)'
    BY <1>b, <1>2, <1>3, <1>5, <1>7 DEF Fresh
  <2>4. /\ m.prev # NULL => m.prev \in H /\ Solid(L, m.prev)
        /\ m.cur # NULL => m.cur \in H /\ Solid(L, m.cur)
        /\ m.nxt # NULL => m.nxt \in H /\ Solid(L, m.nxt) /\ m.nxt # head
    <3>1. ~ Unchecked(k)
      BY <1>b DEF Unchecked
    <3> QED BY <1>b, <1>2, <1>5, <3>1 DEF Operation, Sound, Held
  <2>5. Sound(L, m)'
    BY <2>0, <2>4 DEF Sound
  <2>6. Knows(L, m)'
    BY <1>b, <1>5, <1>7, <2>4 DEF Operation, Knows
  <2> QED BY <2>1, <2>2, <2>3, <2>5, <2>6 DEF Operation
<1>11. Shape(L)'
  <2>1. Shape(L) /\ head \in L /\ tail \in L /\ ~ isMarked_m(next[head])
    BY DEF ListInv, Shape, Ends
  <2>2. \A n \in L : next'[n] = next[n] /\ key'[n] = key[n]
    BY <1>2, <1>7
  <2> QED BY <2>1, <2>2, ShapeKept
<1>12. History(L)'
  <2>1. \A n \in L : key'[n] = key[n]
    BY <1>2, <1>7
  <2>2. \A j \in Key : Present(L, j)' = Present(L, j)
    BY <2>1 DEF Present
  <2> QED BY <1>a, <2>2 DEF ListInv, History
<1>13. \A u \in Thread : my[u].new # NULL =>
         my[u].new \notin L /\ next'[my[u].new] = next[my[u].new]
  <2>1. \A u \in Thread : my[u].new # NULL => my[u].new \in H
    BY <1>1 DEF HeldNodes, Held
  <2>2. \A u \in Thread : my[u].new # NULL => my[u].new \notin L
    BY DEF ListInv, Operation, Fresh
  <2> QED BY <1>7, <2>1, <2>2
<1>14. PICK G, d : G = HeldNodes(After(my, t, m), L) /\ d = Owned(After(my, t, m), L)
  OBVIOUS
<1>15. G = HeldNodes(my', L) /\ d = Owned(my', L)
  BY <1>6, <1>14 DEF After
<1>16. Purpose(m)
  BY <1>b, <1>5 DEF Operation, Purpose
<1>17. /\ d \in [Node -> Nat] /\ \A n \in G : d[n] >= 1
       /\ G \subseteq H \cup L \cup Held(m)
  BY <1>1, <1>5, <1>14, <1>16, HeldStep
<1>18. G \subseteq H \cup {x}
  <2>1. Held(m) \subseteq Held(k) \cup {x}
    BY <1>b, <1>5 DEF Held, Unchecked
  <2> QED BY <1>2, <1>17, <2>1
<1>19. ASSUME NEW n \in Node PROVE d[n] <= c[n] + IF n = x THEN 2 ELSE 0
  <2>1. PICK i, j, l : i = Count(m, n) /\ j = Count(k, n) /\ l = In(L, n)
    OBVIOUS
  <2>2. i \in 0 .. Most /\ j \in 0 .. Most /\ l \in {0, 1}
    BY <1>5, <2>1, CountBound DEF In
  <2>3. d[n] = c[n] + (i - j) + (l - l)
    BY <1>b, <1>1, <1>5, <1>14, <1>16, <2>1, HeldStep
  <2>4. c[n] \in Nat
    BY <1>2, PoolFacts
  <2>5. i <= j + 2 * Is(x, n)
    <3>1. PICK a, b, e, g, f, h : /\ a = Is(k.prev, n) /\ b = Is(k.cur, n) /\ e = Is(k.new, n)
                                  /\ g = Is(k.nxt, n) /\ f = TodoCount(k.todo, n) /\ h = Is(x, n)
      OBVIOUS
    <3>2. /\ a \in {0, 1} /\ b \in {0, 1} /\ e \in {0, 1} /\ g \in {0, 1} /\ h \in {0, 1}
      BY <3>1, IsType
    <3>3. f \in Nat
      <4>1. \A q \in 1 .. 4 : At(k.todo, q, n) \in Nat
        BY IsType DEF At
      <4> QED BY <3>1, <4>1 DEF TodoCount
    <3>4. j = a + b + 2 * e + g + f
      BY <1>b, <2>1, <3>1, <3>2, <3>3 DEF Count
    <3>5. i = a + b + 2 * h + g + f
      BY <1>5, <2>1, <3>1, <3>2, <3>3 DEF Count
    <3>6. i <= j + 2 * h
      BY <3>2, <3>3, <3>4, <3>5
    <3> QED BY <3>1, <3>6
  <2>6. 2 * Is(x, n) = IF n = x THEN 2 ELSE 0
    BY DEF Is
  <2> QED BY <2>2, <2>3, <2>4, <2>5, <2>6 DEF Most
<1>20. Pool(G, d)'
  BY ZenonT(60), <1>a, <1>2, <1>3, <1>17, <1>18, <1>19, CreatedStep
<1>21. m.new \in {NULL, my[t].new} \/ m.new \in Node \ H
  BY <1>3, <1>5
<1> QED BY <1>b, <1>1, <1>5, <1>6, <1>8, <1>9, <1>10, <1>11, <1>12, <1>13, <1>15, <1>20, <1>21, Frame

-----------------------------------------------------------------------------
(* Steps.                                                                  *)

\* What a step of thread t does to the list: nothing, or a new node joins it, or a
\* deleted one leaves it, the first one if the step belongs to an extraction of the minimum.
Change(L, M, t) ==
  /\ \A n \in L : key'[n] = key[n]
  /\ \A u \in Thread \ {t} : my'[u] = my[u]
  /\ \/ M = L /\ delivered' = delivered
     \/ M = L \cup {my[t].new} /\ my[t].new \in Node \ L /\ key' = key /\ delivered' = delivered
     \/ /\ M = L \ {my[t].cur} /\ my[t].cur \in L \ {head, tail} /\ key' = key
        /\ \/ delivered' = delivered
           \/ delivered' = [delivered EXCEPT ![key[my[t].cur]] = @ + 1]
        /\ Minimum(t) => Succ(head) = my[t].cur

\* The steps of the operations that leave the nodes of the list as they are.
KeepsList(t) ==
  \/ Release(t)
  \/ Load(t) \/ RetainSeen(t) \/ Recheck(t)
  \/ ReadUnlinked(t) \/ UnlinkFails(t) \/ ClearUnlinked(t)
  \/ StartScan(t) \/ ReachTail(t) \/ Unreachable(t) \/ Advance(t) \/ Found(t)
  \/ CreateFailed(t) \/ ClearNew(t)
  \/ Link(t) \/ PublishFails(t)
  \/ CheckMark(t) \/ Grab(t) \/ RetainGrabbed(t) \/ Mark(t) \/ MarkFails(t)
  \/ ClearExtracted(t) \/ UnlinkKeyFails(t)

\* The invariant after these steps,
LEMMA KeepsListStep ==
  ASSUME NEW L \in SUBSET Node, ListInv(L), NEW t \in Thread, KeepsList(t)
  PROVE  ListInv(L)'
<1>1. CASE Release(t) \/ Load(t) \/ RetainSeen(t) \/ Recheck(t) \/ ReadUnlinked(t) \/ UnlinkFails(t)
  BY <1>1, ReleasingStep, LoadStep, RetainSeenStep, RecheckStep, ReadUnlinkedStep, UnlinkFailsStep
<1>2. CASE ClearUnlinked(t) \/ StartScan(t) \/ ReachTail(t) \/ Unreachable(t) \/ Advance(t)
           \/ Found(t)
  BY <1>2, ClearUnlinkedStep, StartScanStep, ReachTailStep, UnreachableStep, AdvanceStep, FoundStep
<1>3. CASE CreateFailed(t) \/ ClearNew(t) \/ Link(t) \/ PublishFails(t) \/ CheckMark(t) \/ Grab(t)
  BY <1>3, CreateFailedStep, ClearNewStep, LinkStep, PublishFailsStep, CheckMarkStep, GrabStep
<1>4. CASE RetainGrabbed(t) \/ Mark(t) \/ MarkFails(t) \/ ClearExtracted(t) \/ UnlinkKeyFails(t)
  BY <1>4, RetainGrabbedStep, MarkStep, MarkFailsStep, ClearExtractedStep, UnlinkKeyFailsStep
<1> QED BY <1>1, <1>2, <1>3, <1>4 DEF KeepsList

\* and what they do to the list.
LEMMA KeepsListChange ==
  ASSUME NEW L \in SUBSET Node, ListInv(L), NEW t \in Thread, KeepsList(t)
  PROVE  Change(L, L, t)
<1>0. my \in [Thread -> Variables]
  BY DEF ListInv, ListTypes
<1>1. key' = key /\ delivered' = delivered
  BY DEF KeepsList, Release, Load, RetainSeen, Retain, Recheck, ReadUnlinked, UnlinkFails,
     ClearUnlinked, Store, StartScan, ReachTail, Unreachable, Advance, Found, CreateFailed,
     ClearNew, Link, PublishFails, CheckMark, Grab, RetainGrabbed, Mark, MarkFails,
     ClearExtracted, UnlinkKeyFails, Local
<1>2. ASSUME NEW u \in Thread, u # t PROVE my'[u] = my[u]
  <2>1. CASE Release(t) \/ Load(t) \/ RetainSeen(t) \/ Recheck(t) \/ ReadUnlinked(t) \/ UnlinkFails(t)
    BY <1>0, <1>2, <2>1 DEF Release, Load, Got, StartAgain, Finish, RetainSeen, Retain, Recheck,
       ReadUnlinked, UnlinkFails, AfterFailedUnlink
  <2>2. CASE ClearUnlinked(t) \/ StartScan(t) \/ ReachTail(t) \/ Unreachable(t) \/ Advance(t)
    BY <1>0, <1>2, <2>2 DEF ClearUnlinked, StartScan, ReachTail, Unreachable, StartAgain, Advance
  <2>3. CASE Found(t)
    BY <1>0, <1>2, <2>3 DEF Found, Finish
  <2>4. CASE CreateFailed(t) \/ ClearNew(t) \/ Link(t) \/ PublishFails(t) \/ CheckMark(t) \/ Grab(t)
    BY <1>0, <1>2, <2>4 DEF CreateFailed, Finish, ClearNew, Link, PublishFails, StartAgain,
       CheckMark, Grab
  <2>5. CASE RetainGrabbed(t) \/ Mark(t) \/ MarkFails(t) \/ ClearExtracted(t) \/ UnlinkKeyFails(t)
    BY <1>0, <1>2, <2>5 DEF RetainGrabbed, Retain, Mark, MarkFails, StartAgain, ClearExtracted,
       Finish, UnlinkKeyFails
  <2> QED BY <2>1, <2>2, <2>3, <2>4, <2>5 DEF KeepsList
<1> QED BY <1>1, <1>2 DEF Change

\* The other steps of an operation.
LEMMA ContinueStep ==
  ASSUME NEW L \in SUBSET Node, ListInv(L), NEW t \in Thread, Continue(t)
  PROVE  \E M \in SUBSET Node : ListInv(M)' /\ Change(L, M, t)
<1>0. my \in [Thread -> Variables]
  BY DEF ListInv, ListTypes
<1>1. CASE KeepsList(t)
  BY <1>1, KeepsListStep, KeepsListChange
<1>2. CASE cmemStep(t) /\ UNCHANGED listVars
  <2>1. Change(L, L, t)
    BY <1>2 DEF Change, listVars
  <2> QED BY <1>2, <2>1, CmemStep
<1>3. CASE Created(t)
  <2>1. ListInv(L)'
    BY <1>3, CreatingStep
  <2>2. cnode[t] \notin L /\ \A n \in L : key'[n] = key[n]
    <3>1. Taking(t, cnode[t])
      BY <1>3 DEF Created, Taking
    <3>2. L \subseteq HeldNodes(my, L)
      BY DEF HeldNodes
    <3>3. cnode[t] \notin L
      BY <3>1, <3>2 DEF ListInv, Pool, HeldInv
    <3> QED BY <1>3, <3>3 DEF Created, ListInv, ListTypes
  <2>3. delivered' = delivered /\ \A u \in Thread \ {t} : my'[u] = my[u]
    BY <1>0, <1>3 DEF Created
  <2> QED BY <2>1, <2>2, <2>3 DEF Change
<1>4. CASE Publish(t)
  <2>1. PICK M \in SUBSET Node : M = L \cup {my[t].new} /\ my[t].new \in Node \ L /\ ListInv(M)'
    BY <1>4, PublishStep
  <2>2. key' = key /\ delivered' = delivered /\ \A u \in Thread \ {t} : my'[u] = my[u]
    BY <1>0, <1>4 DEF Publish, Store, Finish
  <2> QED BY <2>1, <2>2 DEF Change
<1>5. CASE CasUnlink(t)
  <2>1. PICK M \in SUBSET Node : M = L \ {my[t].cur} /\ ListInv(M)'
    BY <1>5, CasUnlinkStep
  <2>2. my[t].cur \in L \ {head, tail} /\ (Minimum(t) => Succ(head) = my[t].cur)
    BY <1>5, Predecessor DEF CasUnlink, Ready
  <2>3. /\ key' = key /\ \A u \in Thread \ {t} : my'[u] = my[u]
        /\ \/ delivered' = delivered
           \/ delivered' = [delivered EXCEPT ![key[my[t].cur]] = @ + 1]
    BY <1>0, <1>5 DEF CasUnlink, Store, Deliver
  <2> QED BY <2>1, <2>2, <2>3 DEF Change
<1>6. CASE CasUnlinkKey(t)
  <2>1. PICK M \in SUBSET Node : M = L \ {my[t].cur} /\ ListInv(M)'
    BY <1>6, CasUnlinkKeyStep
  <2>2. my[t].cur \in L \ {head, tail} /\ (Minimum(t) => Succ(head) = my[t].cur)
    BY <1>6, Predecessor DEF CasUnlinkKey, Ready
  <2>3. /\ key' = key /\ \A u \in Thread \ {t} : my'[u] = my[u]
        /\ delivered' = [delivered EXCEPT ![key[my[t].cur]] = @ + 1]
    BY <1>0, <1>6 DEF CasUnlinkKey, Store, Finish, Deliver
  <2> QED BY <2>1, <2>2, <2>3 DEF Change
<1> QED BY <1>1, <1>2, <1>3, <1>4, <1>5, <1>6 DEF Continue, KeepsList

\* The calls of operations.
LEMMA StartStep ==
  ASSUME NEW L \in SUBSET Node, ListInv(L), NEW t \in Thread, Start(t)
  PROVE  ListInv(L)' /\ Change(L, L, t)
<1>1. ListInv(L)'
  BY InsertStep, ExtractElementWithKeyStep, ExtractMinimumElementStep DEF Start
<1>2. my \in [Thread -> Variables]
  BY DEF ListInv, ListTypes
<1>3. key' = key /\ delivered' = delivered /\ \A u \in Thread \ {t} : my'[u] = my[u]
  BY <1>2 DEF Start, Insert, ExtractElementWithKey, ExtractMinimumElement
<1> QED BY <1>1, <1>3 DEF Change

\* A step of another kind changes nothing.
LEMMA Stutter ==
  ASSUME NEW L \in SUBSET Node, ListInv(L), UNCHANGED vars
  PROVE  ListInv(L)'
<1>0. /\ UNCHANGED <<freeList, refCount, next, cpc, cnode, cnext, claimed, inAlloc, follow>>
      /\ UNCHANGED <<key, my, calls, published, delivered>>
  BY DEF vars, cmemVars, listVars
<1>1. ListTypes' /\ OwnNew' /\ History(L)' /\ \A t \in Thread : Len(my'[t].todo) <= 4
  BY <1>0 DEF ListInv, ListTypes, OwnNew, History, Present
<1>2. Shape(L)'
  <2>1. Shape(L) /\ head \in L /\ tail \in L /\ ~ isMarked_m(next[head])
    BY DEF ListInv, Shape, Ends
  <2> QED BY <1>0, <2>1, ShapeKept
<1>3. ASSUME NEW t \in Thread PROVE Operation(L, my[t])'
  <2>1. PICK k : k = my[t] /\ k = my'[t]
    BY <1>0
  <2>2. Operation(L, k)
    BY <2>1 DEF ListInv
  <2>3. Operation(L, k)'
    <3>1. Places(k)' /\ Purpose(k)'
      BY <2>2 DEF Operation, Places, Purpose
    <3>2. Fresh(L, k)' /\ Sound(L, k)'
      BY <1>0, <2>2 DEF Operation, Fresh, Sound, Unchecked, Solid
    <3>3. Knows(L, k)'
      BY <1>0, <2>2 DEF Operation, Knows, Succ
    <3> QED BY <3>1, <3>2, <3>3 DEF Operation
  <2> QED BY <2>1, <2>3, Renamed
<1>4. Pool(HeldNodes(my, L), Owned(my, L))'
  <2>1. PICK H, c : H = HeldNodes(my, L) /\ c = Owned(my, L)
    OBVIOUS
  <2>2. H = HeldNodes(my', L) /\ c = Owned(my', L)
    BY <1>0, <2>1
  <2>3. Pool(H, c)
    BY <2>1 DEF ListInv
  <2>4. PoolTypes' /\ Control' /\ Moving' /\ Chain'
    <3>1. PoolTypes' /\ Control'
      BY <1>0, <2>3 DEF Pool, PoolTypes, Control
    <3>2. \A n : /\ isRetained(n)' <=> isRetained(n)
                 /\ \A u : (Pushing(u, n)' <=> Pushing(u, n)) /\ (Taking(u, n)' <=> Taking(u, n))
      BY <1>0 DEF isRetained, Pushing, Taking
    <3>3. \A n : InList(n)' <=> InList(n)
      BY <3>2 DEF InList
    <3>4. PushInv' /\ TakeInv'
      BY <1>0, <2>3, <3>2 DEF Pool, Moving, PushInv, TakeInv
    <3>5. PopInv'
      BY <1>0, <2>3 DEF Pool, Moving, PopInv, Pushing
    <3>6. HeadInv' /\ ChainInv' /\ LoadInv'
      <4>1. HeadInv'
        BY <1>0, <2>3, <3>3 DEF Pool, Chain, HeadInv
      <4>2. ChainInv'
        BY <1>0, <2>3, <3>3 DEF Pool, Chain, ChainInv
      <4>3. LoadInv'
        BY <1>0, <2>3, <3>3 DEF Pool, Chain, LoadInv
      <4> QED BY <4>1, <4>2, <4>3
    <3> QED BY <3>1, <3>4, <3>5, <3>6 DEF Moving, Chain
  <2>5. HeldInv(H)' /\ Covered(H, c)'
    BY <1>0, <2>3 DEF Pool, HeldInv, Covered, CallRefs, Calling, Taking, isRetained
  <2>6. Pool(H, c)'
    BY <2>4, <2>5 DEF Pool
  <2> QED BY <2>2, <2>6 DEF Pool, HeldInv, Covered
<1> QED BY <1>1, <1>2, <1>3, <1>4 DEF ListInv

\* The invariant is inductive.
LEMMA IInvStep == IInv /\ [Next]_vars => IInv'
<1> SUFFICES ASSUME IInv, [Next]_vars PROVE IInv'
  OBVIOUS
<1>1. PICK L \in SUBSET Node : ListInv(L)
  BY DEF IInv
<1>2. CASE UNCHANGED vars
  <2>1. ListInv(L)'
    BY <1>1, <1>2, Stutter
  <2> QED BY <2>1 DEF IInv
<1>3. CASE Next
  <2>1. PICK t \in Thread : Start(t) \/ Continue(t)
    BY <1>3 DEF Next
  <2>2. PICK M \in SUBSET Node : ListInv(M)'
    BY <1>1, <2>1, StartStep, ContinueStep
  <2> QED BY <2>2 DEF IInv
<1> QED BY <1>2, <1>3

-----------------------------------------------------------------------------
(* The chain from the head.  The set L of the invariant is that of the     *)
(* nodes on the chain.                                                     *)

\* A nonempty set of numbers has a least element.
LEMMA LeastElement ==
  ASSUME NEW S, S \subseteq Nat, S # {}
  PROVE  \E m \in S : \A x \in S : m <= x
<1> DEFINE R == {ss \in Nat \X Nat : ss[1] < ss[2]}
<1>1. IsWellFoundedOn(OpToRel(<, Nat), Nat)
  BY ONLY NatLessThanWellFounded, Zenon
<1>2. OpToRel(<, Nat) = R
  BY DEF OpToRel
<1>3. IsWellFoundedOn(R, Nat)
  BY <1>1, <1>2
<1>4. PICK m \in S : \A x \in S : <<x, m>> \notin R
  <2> HIDE DEF R
  <2> QED BY <1>3, WFMin
<1>5. \A x \in S : m <= x
  <2> SUFFICES ASSUME NEW x \in S PROVE m <= x
    OBVIOUS
  <2>1. x \in Nat /\ m \in Nat
    OBVIOUS
  <2>2. <<x, m>> \notin R
    BY <1>4
  <2> QED BY <2>1, <2>2
<1> QED BY <1>5

\* The pool has room for the head and the tail.
LEMMA PoolSize == N \in Nat /\ N >= 2 /\ Node = 1 .. N /\ NULL \notin Node
<1>1. Len(Contents) \in Nat
  BY ListAssumption
<1> QED BY <1>1, ListAssumption, PoolAssumption DEF Node, NULL

\* The node that the link of a node of the chain leads to.
Following(p) == IF p \in {NULL, tail} THEN NULL ELSE toPtr_m(next[p])

\* f is the chain, as far as k.
IsChain(f, k) == f = [i \in 1 .. k |-> IF i = 1 THEN head ELSE Following(f[i - 1])]

\* There is such a function.
LEMMA ChainExists == \E f : IsChain(f, N)
<1> DEFINE Bad == {k \in 1 .. N : \A f : ~ IsChain(f, k)}
<1> SUFFICES ASSUME Bad # {} PROVE FALSE
  BY PoolSize
<1>1. Bad \subseteq Nat
  OBVIOUS
<1>2. PICK k \in Bad : \A y \in Bad : k <= y
  <2> HIDE DEF Bad
  <2> QED BY <1>1, LeastElement
<1>3. CASE k = 1
  <2> DEFINE f == [i \in 1 .. 1 |-> head]
  <2>1. IsChain(f, 1)
    BY DEF IsChain
  <2> QED BY <1>2, <1>3, <2>1
<1>4. CASE k # 1
  <2>1. k - 1 \in 1 .. N /\ k - 1 \notin Bad
    BY <1>2, <1>4, PoolSize
  <2>2. PICK f : IsChain(f, k - 1)
    BY <2>1
  <2> DEFINE g == [i \in 1 .. k |-> IF i = k THEN Following(f[k - 1]) ELSE f[i]]
  <2>3. \A i \in 1 .. k - 1 : f[i] = IF i = 1 THEN head ELSE Following(f[i - 1])
    BY <2>2 DEF IsChain
  <2>4. \A i \in 1 .. k - 1 : g[i] = f[i]
    BY <2>1
  <2>5. \A i \in 1 .. k : i # k => i \in 1 .. k - 1
    BY <2>1
  <2>6. k \in 1 .. k /\ k - 1 \in 1 .. k - 1 /\ \A i \in 1 .. k - 1 : i # 1 => i - 1 \in 1 .. k - 1
    BY <2>1
  <2>7. ASSUME NEW i \in 1 .. k PROVE g[i] = IF i = 1 THEN head ELSE Following(g[i - 1])
    <3>1. CASE i = k
      <4>1. g[i - 1] = f[k - 1]
        BY <3>1, <2>4, <2>6
      <4> QED BY <1>4, <3>1, <4>1
    <3>2. CASE i # k
      <4>1. i \in 1 .. k - 1 /\ g[i] = f[i]
        BY <3>2, <2>4, <2>5
      <4>2. i # 1 => g[i - 1] = f[i - 1]
        BY <4>1, <2>4, <2>6
      <4> QED BY <4>1, <4>2, <2>3
    <3> QED BY <3>1, <3>2
  <2>8. g = [i \in 1 .. k |-> IF i = 1 THEN head ELSE Following(g[i - 1])]
    <3>1. g = [i \in 1 .. k |-> g[i]]
      OBVIOUS
    <3> HIDE DEF g
    <3> QED BY <2>7, <3>1
  <2>9. IsChain(g, k)
    BY <2>8 DEF IsChain
  <2> QED BY <1>2, <2>9
<1> QED BY <1>3, <1>4

\* The chain of the model is that function.
LEMMA ChainUnfolds ==
  /\ ChainAt[1] = head
  /\ \A i \in 1 .. N - 1 : ChainAt[i + 1] = Following(ChainAt[i])
<1>1. IsChain(ChainAt, N)
  BY ChainExists DEF IsChain, ChainAt, Following
<1> QED BY <1>1, PoolSize DEF IsChain

\* The chain stays among the nodes of the list, and does not come back to the head.
LEMMA ChainNodes ==
  ASSUME NEW L \in SUBSET Node, Shape(L), NEW i \in 1 .. N
  PROVE  ChainAt[i] = NULL \/ (ChainAt[i] \in L /\ (i # 1 => ChainAt[i] # head))
<1> DEFINE Good(k) == ChainAt[k] = NULL \/ (ChainAt[k] \in L /\ (k # 1 => ChainAt[k] # head))
           Bad == {k \in 1 .. N : ~ Good(k)}
<1> SUFFICES ASSUME Bad # {} PROVE FALSE
  OBVIOUS
<1>1. PICK k \in Bad : \A y \in Bad : k <= y
  <2>1. Bad \subseteq Nat
    OBVIOUS
  <2> HIDE DEF Bad
  <2> QED BY <2>1, LeastElement
<1>2. k # 1
  BY <1>1, ChainUnfolds DEF Shape, Ends
<1>3. k - 1 \in 1 .. N - 1 /\ (k - 1) + 1 = k /\ k - 1 \in 1 .. N /\ k - 1 \notin Bad
  BY <1>1, <1>2, PoolSize
<1>4. PICK n : n = ChainAt[k - 1]
  OBVIOUS
<1>5. ChainAt[k] = Following(n)
  <2>1. ChainAt[(k - 1) + 1] = Following(ChainAt[k - 1])
    BY <1>3, ChainUnfolds
  <2> QED BY <1>3, <1>4, <2>1
<1>6. n = NULL \/ n \in L
  BY <1>3, <1>4
<1>7. Following(n) = NULL \/ Following(n) \in L \ {head}
  BY <1>6 DEF Following, Shape, Links, Succ
<1> QED BY <1>1, <1>5, <1>7

\* A node of the chain has the next one as its successor.
LEMMA ChainNext ==
  ASSUME NEW L \in SUBSET Node, Shape(L), NEW i \in 1 .. N - 1, ChainAt[i + 1] # NULL
  PROVE  /\ i \in 1 .. N /\ i + 1 \in 1 .. N
         /\ ChainAt[i] \in L \ {tail} /\ ChainAt[i + 1] = Succ(ChainAt[i])
         /\ ChainAt[i + 1] \in L \ {head}
         /\ i # 1 => ChainAt[i] # head
<1>1. i \in 1 .. N /\ i + 1 \in 1 .. N /\ i + 1 # 1
  BY PoolSize
<1>2. PICK n, m : n = ChainAt[i] /\ m = ChainAt[i + 1]
  OBVIOUS
<1>3. m = Following(n)
  BY <1>2, ChainUnfolds
<1>4. n \notin {NULL, tail} /\ m = Succ(n)
  BY <1>2, <1>3 DEF Following, Succ
<1>5. n \in L /\ (i # 1 => n # head)
  BY <1>1, <1>2, <1>4, ChainNodes
<1>6. m \in L \ {head}
  BY <1>1, <1>2, ChainNodes
<1> QED BY <1>1, <1>2, <1>4, <1>5, <1>6

\* Nor does it come back to any other node.
LEMMA ChainDistinct ==
  ASSUME NEW L \in SUBSET Node, Shape(L), \A n \in Node : key[n] \in Nat,
         NEW a \in 1 .. N, NEW b \in 1 .. N, ChainAt[a] # NULL, ChainAt[a] = ChainAt[b]
  PROVE  a = b
<1> DEFINE Bad == {k \in 1 .. N : /\ ChainAt[k] # NULL
                                  /\ \E j \in k + 1 .. N : ChainAt[j] = ChainAt[k]}
<1> SUFFICES ASSUME Bad # {} PROVE FALSE
  BY PoolSize
<1>1. PICK k \in Bad : \A y \in Bad : k <= y
  <2>1. Bad \subseteq Nat
    OBVIOUS
  <2> HIDE DEF Bad
  <2> QED BY <2>1, LeastElement
<1>2. PICK j \in k + 1 .. N : ChainAt[j] = ChainAt[k]
  BY <1>1
<1>3. /\ k \in 1 .. N /\ j - 1 \in 1 .. N - 1 /\ (j - 1) + 1 = j /\ j - 1 >= k /\ j \in 1 .. N
      /\ ChainAt[k] # NULL
  BY <1>1, <1>2, PoolSize
<1>4. /\ ChainAt[j - 1] \in L \ {tail} /\ ChainAt[j] = Succ(ChainAt[j - 1]) /\ ChainAt[j] # head
  <2>1. PICK i : i = j - 1 /\ i \in 1 .. N - 1 /\ i + 1 = j
    BY <1>3
  <2>2. ChainAt[i + 1] # NULL
    BY <1>2, <1>3, <2>1
  <2> QED BY <2>1, <2>2, ChainNext
<1>5. k # 1
  BY <1>2, <1>4, ChainUnfolds
<1>6. k - 1 \in 1 .. N - 1 /\ (k - 1) + 1 = k /\ k - 1 \in 1 .. N /\ j - 1 \in (k - 1) + 1 .. N
  BY <1>3, <1>5, PoolSize
<1>7. ChainAt[k - 1] \in L \ {tail} /\ ChainAt[k] = Succ(ChainAt[k - 1])
  <2>1. PICK i : i = k - 1 /\ i \in 1 .. N - 1 /\ i + 1 = k
    BY <1>6
  <2>2. ChainAt[i + 1] # NULL
    BY <1>3, <2>1
  <2> QED BY <2>1, <2>2, ChainNext
<1>8. ChainAt[k - 1] = ChainAt[j - 1]
  BY <1>2, <1>4, <1>7, OnePredecessor
<1>9. ChainAt[k - 1] # NULL
  BY <1>7, PoolSize
<1>10. k - 1 \in Bad
  BY <1>6, <1>8, <1>9
<1>11. k <= k - 1
  BY <1>1, <1>10
<1> QED BY <1>3, <1>11

\* Once it has ended it goes on ending.
LEMMA ChainEnds ==
  ASSUME NEW i \in 1 .. N, NEW j \in 1 .. N, i <= j, ChainAt[i] = NULL
  PROVE  ChainAt[j] = NULL
<1> DEFINE Bad == {k \in i .. N : ChainAt[k] # NULL}
<1> SUFFICES ASSUME Bad # {} PROVE FALSE
  BY PoolSize
<1>1. PICK k \in Bad : \A y \in Bad : k <= y
  <2>1. Bad \subseteq Nat
    OBVIOUS
  <2> HIDE DEF Bad
  <2> QED BY <2>1, LeastElement
<1>2. k - 1 \in 1 .. N - 1 /\ (k - 1) + 1 = k /\ k - 1 \in i .. N /\ k - 1 \notin Bad
  BY <1>1, PoolSize
<1>3. ChainAt[(k - 1) + 1] = Following(ChainAt[k - 1])
  BY <1>2, ChainUnfolds
<1> QED BY <1>1, <1>2, <1>3 DEF Following

\* So a chain that has not ended has seen all the nodes.
LEMMA ChainFull ==
  ASSUME NEW L \in SUBSET Node, Shape(L), \A n \in Node : key[n] \in Nat,
         ChainAt[N] # NULL, NEW x \in Node
  PROVE  x \in Linked
<1> SUFFICES ASSUME x \notin Linked PROVE FALSE
  OBVIOUS
<1> DEFINE T == Node \ {x}
           f == [i \in 1 .. N |-> ChainAt[i]]
<1>1. \A i \in 1 .. N : ChainAt[i] # NULL
  BY ChainEnds, PoolSize
<1>2. \A i \in 1 .. N : ChainAt[i] \in T
  BY <1>1, ChainNodes DEF Linked
<1>3. f \in [1 .. N -> T]
  BY <1>2
<1>4. \A a, b \in 1 .. N : f[a] = f[b] => a = b
  BY <1>1, ChainDistinct
<1>5. IsFiniteSet(1 .. N) /\ Cardinality(1 .. N) = N
  BY PoolSize, FS_Interval
<1>6. IsFiniteSet(T) /\ Cardinality(T) = N - 1
  <2>1. IsFiniteSet(Node) /\ Cardinality(Node) = N
    BY <1>5, PoolSize
  <2>2. IsFiniteSet(Node \ {x}) /\ Cardinality(Node \ {x}) = N - 1
    BY <2>1, FS_RemoveElement
  <2> QED BY <2>2
<1>7. f \in Injection(1 .. N, T)
  BY <1>3, <1>4 DEF Injection, IsInjective
<1>8. Cardinality(1 .. N) <= Cardinality(T)
  <2> HIDE DEF T, f
  <2> QED BY <1>5, <1>6, <1>7, FS_Injection
<1> QED BY <1>5, <1>6, <1>8, PoolSize

\* The nodes of the list are those on the chain.
LEMMA LinkedNodes ==
  ASSUME NEW L \in SUBSET Node, Shape(L), \A n \in Node : key[n] \in Nat
  PROVE  Linked = L
<1>1. Linked \subseteq L
  BY ChainNodes DEF Linked
<1> DEFINE Bad == L \ Linked
           Keys == {key[n] : n \in Bad}
<1>2. SUFFICES ASSUME Bad # {} PROVE FALSE
  BY <1>1
<1>3. PICK x \in Bad : \A y \in Bad : key[x] <= key[y]
  <2>1. Keys \subseteq Nat /\ Keys # {}
    BY <1>2
  <2>2. PICK k \in Keys : \A j \in Keys : k <= j
    <3> HIDE DEF Keys
    <3> QED BY <2>1, LeastElement
  <2> QED BY <2>2
<1>4. x # head
  BY ChainUnfolds, PoolSize, <1>3 DEF Linked, head
<1>5. PICK p \in L \ {tail} : Succ(p) = x
  BY <1>3, <1>4 DEF Shape, Links
<1>6. p \in Linked
  <2>1. p # head => key[p] < key[x]
    BY <1>5 DEF Shape, Ascending
  <2>2. CASE p = head
    BY <2>2, ChainUnfolds, PoolSize DEF Linked, head
  <2>3. CASE p # head
    BY <1>3, <2>1, <2>3
  <2> QED BY <2>2, <2>3
<1>7. PICK i \in 1 .. N : ChainAt[i] = p
  BY <1>6 DEF Linked
<1>8. CASE i = N
  <2>1. ChainAt[N] # NULL
    BY <1>5, <1>7, <1>8, PoolSize
  <2> QED BY <1>3, <2>1, ChainFull
<1>9. CASE i # N
  <2>1. i \in 1 .. N - 1 /\ i + 1 \in 1 .. N
    BY <1>9, PoolSize
  <2>2. p # NULL /\ p # tail /\ x # NULL
    BY <1>3, <1>5, PoolSize
  <2>3. ChainAt[i + 1] = x
    BY <1>5, <1>7, <2>1, <2>2, ChainUnfolds DEF Following, Succ
  <2> QED BY <1>3, <2>1, <2>2, <2>3 DEF Linked
<1> QED BY <1>8, <1>9

-----------------------------------------------------------------------------
(* The initial state.                                                      *)

\* The head, the tail and the initial elements.
Initially == 1 .. Len(Contents) + 2

\* What the initial state is like, with a name for the last node in use.
LEMMA InitWords ==
  ASSUME Init
  PROVE  \E last \in 2 .. N :
           /\ last = Len(Contents) + 2
           /\ freeList = toMarkable(IF N = last THEN NULL ELSE last + 1, FALSE)
           /\ refCount = [n \in Node |-> IF n <= last THEN 2 ELSE 1]
           /\ next \in [Node -> MarkablePointer(Ref)]
           /\ \A n \in Node : ~ isMarked_m(next[n])
           /\ Succ(head) = (IF last = 2 THEN tail ELSE 3)
           /\ next[tail] = toMarkable(NULL, FALSE)
           /\ \A n \in 3 .. last : Succ(n) = IF n = last THEN tail ELSE n + 1
           /\ \A n \in last + 1 .. N : Succ(n) = IF n = N THEN NULL ELSE n + 1
           /\ key \in [Node -> LONG_MIN .. LONG_MAX]
           /\ key[head] = LONG_MIN /\ key[tail] = LONG_MAX
           /\ \A n \in 3 .. last : key[n] = Contents[n - 2]
<1>1. PICK last : last = Len(Contents) + 2
  OBVIOUS
<1>2. last \in 2 .. N /\ Contents \in Seq(Key \ {LONG_MAX}) /\ Len(Contents) \in Nat
  BY <1>1, ListAssumption, PoolSize
<1>3. PICK f : f = [n \in Node |->
                 CASE n = head -> IF last = 2 THEN tail ELSE 3
                   [] n = tail \/ (n = N /\ n # last) -> NULL
                   [] n = last /\ n # tail -> tail
                   [] OTHER -> n + 1]
  OBVIOUS
<1>4. /\ freeList = toMarkable(IF N = last THEN NULL ELSE last + 1, FALSE)
      /\ refCount = [n \in Node |-> IF n <= last THEN 2 ELSE 1]
      /\ next = [n \in Node |-> toMarkable(f[n], FALSE)]
      /\ key = [n \in Node |-> CASE n = tail -> LONG_MAX
                                 [] n \in 3 .. last -> Contents[n - 2]
                                 [] OTHER -> LONG_MIN]
  BY <1>1, <1>3 DEF Init
<1>5. /\ head \in Node /\ tail \in Node /\ 3 .. last \subseteq Node /\ last + 1 .. N \subseteq Node
      /\ head \notin 3 .. last /\ head # tail
  BY <1>2, PoolSize DEF head, tail
<1>6. \A n \in Node : f[n] \in Ref
  BY <1>2, <1>3, <1>5, PoolSize DEF head, tail, Ref
<1>7. /\ next \in [Node -> MarkablePointer(Ref)]
      /\ \A n \in Node : ~ isMarked_m(next[n]) /\ Succ(n) = f[n] /\ next[n] = toMarkable(f[n], FALSE)
  BY <1>4, <1>6 DEF toMarkable, MarkablePointer, isMarked_m, Succ, toPtr_m
<1>8. /\ Succ(head) = (IF last = 2 THEN tail ELSE 3) /\ next[tail] = toMarkable(NULL, FALSE)
      /\ \A n \in 3 .. last : Succ(n) = IF n = last THEN tail ELSE n + 1
      /\ \A n \in last + 1 .. N : Succ(n) = IF n = N THEN NULL ELSE n + 1
  <2>1. f[head] = (IF last = 2 THEN tail ELSE 3) /\ f[tail] = NULL
    BY <1>2, <1>3, <1>5, PoolSize DEF head, tail
  <2>2. \A n \in 3 .. last : f[n] = IF n = last THEN tail ELSE n + 1
    BY <1>2, <1>3, <1>5, PoolSize DEF head, tail
  <2>3. \A n \in last + 1 .. N : f[n] = IF n = N THEN NULL ELSE n + 1
    BY <1>2, <1>3, <1>5, PoolSize DEF head, tail
  <2> QED BY <1>5, <1>7, <2>1, <2>2, <2>3
<1>9. \A n \in 3 .. last : Contents[n - 2] \in Key
  <2>1. \A n \in 3 .. last : n - 2 \in 1 .. Len(Contents)
    BY <1>1, <1>2
  <2> QED BY <1>2, <2>1
<1>10. /\ key \in [Node -> LONG_MIN .. LONG_MAX]
       /\ key[head] = LONG_MIN /\ key[tail] = LONG_MAX
       /\ \A n \in 3 .. last : key[n] = Contents[n - 2]
  <2>1. Key \subseteq LONG_MIN .. LONG_MAX /\ LONG_MIN \in LONG_MIN .. LONG_MAX
        /\ LONG_MAX \in LONG_MIN .. LONG_MAX
    BY ListAssumption DEF LONG_MIN
  <2>2. tail \notin 3 .. last
    BY DEF tail
  <2> QED BY <1>4, <1>5, <1>9, <2>1, <2>2
<1> QED BY <1>1, <1>2, <1>4, <1>7, <1>8, <1>10

\* The initial elements are in order.
LEMMA InitShape == Init => Shape(Initially) /\ Initially \in SUBSET Node
<1> SUFFICES ASSUME Init PROVE Shape(Initially) /\ Initially \in SUBSET Node
  OBVIOUS
<1>1. PICK last \in 2 .. N :
        /\ last = Len(Contents) + 2
        /\ next \in [Node -> MarkablePointer(Ref)]
        /\ \A n \in Node : ~ isMarked_m(next[n])
        /\ Succ(head) = (IF last = 2 THEN tail ELSE 3)
        /\ next[tail] = toMarkable(NULL, FALSE)
        /\ \A n \in 3 .. last : Succ(n) = IF n = last THEN tail ELSE n + 1
        /\ key[head] = LONG_MIN /\ key[tail] = LONG_MAX
        /\ \A n \in 3 .. last : key[n] = Contents[n - 2]
  BY InitWords
<1>2. PICK L : L = 1 .. last /\ L = Initially
  BY <1>1 DEF Initially
<1>3. /\ L \in SUBSET Node /\ head \in L /\ tail \in L /\ L \ {head, tail} = 3 .. last
      /\ last \in Nat /\ head = 1 /\ tail = 2 /\ head # tail
  BY <1>1, <1>2, PoolSize DEF head, tail
<1>4. \A n \in 3 .. last : /\ Contents[n - 2] \in Key /\ Contents[n - 2] \in Nat
                           /\ Contents[n - 2] < LONG_MAX
  <2>1. \A n \in 3 .. last : n - 2 \in 1 .. Len(Contents)
    BY <1>1
  <2>2. Contents \in Seq(Key \ {LONG_MAX}) /\ Key \subseteq 0 .. LONG_MAX /\ LONG_MAX \in Nat
    BY ListAssumption DEF LONG_MIN
  <2>3. \A n \in 3 .. last : Contents[n - 2] \in Key \ {LONG_MAX}
    BY <2>1, <2>2
  <2>4. \A k \in Key \ {LONG_MAX} : k \in Nat /\ k < LONG_MAX
    BY <2>2
  <2> QED BY <2>3, <2>4
<1>5. \A i, j \in 3 .. last : i < j => key[i] < key[j]
  <2> SUFFICES ASSUME NEW i \in 3 .. last, NEW j \in 3 .. last, i < j PROVE key[i] < key[j]
    OBVIOUS
  <2>1. i - 2 \in 1 .. Len(Contents) /\ j - 2 \in 1 .. Len(Contents) /\ i - 2 < j - 2
    BY <1>1
  <2>2. Contents[i - 2] < Contents[j - 2]
    BY <2>1, ListAssumption
  <2> QED BY <1>1, <2>2
<1>6. \A n \in 3 .. last : key[n] \in Nat /\ key[n] < LONG_MAX /\ key[n] \in Key
  BY <1>1, <1>4
<1>7. key[tail] \in Nat /\ \A n \in 3 .. last : key[n] < key[tail]
  BY <1>1, <1>6, ListAssumption
<1>8. Ends(L)
  BY <1>1, <1>3, <1>6 DEF Ends
<1>9. Links(L)
  <2>1. ASSUME NEW n \in L \ {tail} PROVE Succ(n) \in L \ {head}
    <3>1. CASE n = head
      BY <1>1, <1>2, <1>3, <3>1
    <3>2. CASE n # head
      BY <1>1, <1>2, <1>3, <3>2
    <3> QED BY <3>1, <3>2
  <2>2. ASSUME NEW n \in L \ {head} PROVE \E p \in L \ {tail} : Succ(p) = n
    <3>1. CASE n = tail /\ last = 2
      BY <1>1, <1>3, <3>1
    <3>2. CASE n = tail /\ last # 2
      <4>1. last \in 3 .. last /\ last \in L \ {tail}
        BY <1>1, <1>2, <1>3, <3>2
      <4> QED BY <1>1, <3>2, <4>1
    <3>3. CASE n = 3
      <4>1. last # 2
        BY <1>2, <1>3, <3>3
      <4> QED BY <1>1, <1>3, <3>3, <4>1
    <3>4. CASE n \notin {tail, 3}
      <4>1. n - 1 \in 3 .. last /\ n - 1 # last /\ (n - 1) + 1 = n
        BY <1>2, <1>3, <3>4
      <4>2. Succ(n - 1) = n /\ n - 1 \in L \ {tail}
        BY <1>1, <1>3, <4>1
      <4> QED BY <4>2
    <3> QED BY <3>1, <3>2, <3>3, <3>4
  <2> QED BY <2>1, <2>2 DEF Links
<1>10. Ascending(L)
  <2>1. ASSUME NEW n \in L \ {head, tail} PROVE key[n] < key[Succ(n)]
    <3>1. n \in 3 .. last
      BY <1>3
    <3>2. CASE n = last
      BY <1>1, <1>7, <3>1, <3>2
    <3>3. CASE n # last
      <4>1. n + 1 \in 3 .. last /\ n < n + 1 /\ Succ(n) = n + 1
        BY <1>1, <1>3, <3>1, <3>3
      <4> QED BY <1>5, <3>1, <4>1
    <3> QED BY <3>2, <3>3
  <2>2. ASSUME NEW p \in L \ {tail}, NEW n \in L \ {head}
        PROVE  (p # head /\ key[n] <= key[p]) \/ key[n] >= key[Succ(p)]
    <3>0. /\ n = tail \/ n \in 3 .. last
          /\ p = head \/ p \in 3 .. last
          /\ \A i, j \in 3 .. last : i <= j => key[i] <= key[j]
      <4>1. \A i, j \in 3 .. last : i <= j => i = j \/ i < j
        BY <1>3
      <4> QED BY <1>3, <1>5, <1>6, <4>1
    <3>1. CASE p # head /\ n # tail /\ n <= p
      BY <3>0, <3>1
    <3>2. CASE Succ(p) = n
      <4>1. key[n] \in Nat
        BY <1>6, <1>7, <3>0
      <4> QED BY <3>2, <4>1
    <3>3. CASE n = tail /\ Succ(p) # n
      <4>1. Succ(p) \in 3 .. last
        BY <1>1, <1>3, <3>0, <3>3
      <4>2. key[Succ(p)] < key[n] /\ key[Succ(p)] \in Nat /\ key[n] \in Nat
        BY <1>6, <1>7, <3>3, <4>1
      <4> QED BY <4>2
    <3>4. CASE n \in 3 .. last /\ p = head
      <4>1. Succ(p) = 3 /\ 3 \in 3 .. last /\ 3 <= n
        BY <1>1, <1>3, <3>4
      <4> QED BY <1>6, <3>0, <3>4, <4>1
    <3>5. CASE n \in 3 .. last /\ p \in 3 .. last /\ ~ (n <= p)
      <4>1. Succ(p) = p + 1 /\ p + 1 \in 3 .. last /\ p + 1 <= n
        BY <1>1, <1>3, <3>5
      <4> QED BY <1>6, <3>0, <3>5, <4>1
    <3> QED BY <1>3, <3>0, <3>1, <3>2, <3>3, <3>4, <3>5
  <2>3. ASSUME NEW m \in L \ {head}, NEW n \in L \ {head}, key[m] = key[n] PROVE m = n
    <3>0. (n = tail \/ n \in 3 .. last) /\ (m = tail \/ m \in 3 .. last)
      BY <1>3
    <3>1. CASE n \in 3 .. last /\ m \in 3 .. last
      <4>1. ~ (n < m) /\ ~ (m < n)
        BY <1>5, <1>6, <2>3, <3>1
      <4> QED BY <1>3, <3>1, <4>1
    <3>2. CASE n = tail \/ m = tail
      BY <1>6, <1>7, <2>3, <3>0, <3>2
    <3> QED BY <3>0, <3>1, <3>2
  <2> QED BY <2>1, <2>2, <2>3 DEF Ascending
<1> QED BY <1>2, <1>3, <1>8, <1>9, <1>10 DEF Shape

\* The pool covers the references of the list to them, and nobody is in the allocator.
LEMMA InitPool ==
  ASSUME Init, NEW d, d = [n \in Node |-> In(Initially, n)]
  PROVE  Pool(Initially, d)
<1>1. PICK last \in 2 .. N :
        /\ last = Len(Contents) + 2
        /\ freeList = toMarkable(IF N = last THEN NULL ELSE last + 1, FALSE)
        /\ refCount = [n \in Node |-> IF n <= last THEN 2 ELSE 1]
        /\ next \in [Node -> MarkablePointer(Ref)]
        /\ \A n \in Node : ~ isMarked_m(next[n])
        /\ \A n \in last + 1 .. N : Succ(n) = IF n = N THEN NULL ELSE n + 1
  BY InitWords
<1>2. PICK L : L = 1 .. last /\ L = Initially
  BY <1>1 DEF Initially
<1>3. /\ cpc = [t \in Thread |-> "idle"] /\ cnode = [t \in Thread |-> NULL]
      /\ cnext = [t \in Thread |-> NULL_D] /\ claimed = [t \in Thread |-> <<>>]
      /\ inAlloc = [t \in Thread |-> FALSE] /\ follow = [t \in Thread |-> FALSE]
  BY DEF Init
<1>4. last \in Nat /\ L \in SUBSET Node
  BY <1>1, <1>2, PoolSize
<1>5. Ptr = Ref /\ NULL \in Ptr /\ NULL_D \in MarkablePointer(Ptr)
  BY NullWord DEF Ptr, Ref
<1>6. PoolTypes
  <2>1. freeList \in MarkablePointer(Ptr)
    <3>1. (IF N = last THEN NULL ELSE last + 1) \in Ptr
      BY <1>1, PoolSize DEF Ptr
    <3> QED BY <1>1, <3>1 DEF toMarkable, MarkablePointer
  <2>2. refCount \in [Node -> Nat]
    BY <1>1
  <2>3. cpc \in [Thread -> CallPlace] /\ claimed \in [Thread -> Seq(Node)]
    BY <1>3 DEF CallPlace
  <2> QED BY <1>1, <1>3, <1>5, <2>1, <2>2, <2>3 DEF PoolTypes
<1>7. Control
  BY <1>3 DEF Control, Counted, Pushes
<1>8. \A t \in Thread, n \in Node : ~ Pushing(t, n) /\ ~ Taking(t, n) /\ ~ Calling(t, n)
  BY <1>3 DEF Pushing, Taking, Calling, Counted, Pushes
<1>9. Moving
  BY <1>3, <1>8 DEF Moving, PushInv, TakeInv, PopInv
<1>10. \A n \in Node : (isRetained(n) <=> n \in L) /\ (InList(n) <=> n \in last + 1 .. N)
  <2> SUFFICES ASSUME NEW n \in Node
               PROVE  (isRetained(n) <=> n \in L) /\ (InList(n) <=> n \in last + 1 .. N)
    OBVIOUS
  <2>1. refCount[n] = IF n <= last THEN 2 ELSE 1
    BY <1>1
  <2>2. isRetained(n) <=> n <= last
    BY <2>1 DEF isRetained
  <2>3. (n <= last <=> n \in L) /\ (~ (n <= last) <=> n \in last + 1 .. N)
    BY <1>1, <1>2, PoolSize
  <2> QED BY <1>8, <2>2, <2>3 DEF InList
<1>11. Chain
  <2>1. toPtr_m(freeList) = (IF N = last THEN NULL ELSE last + 1) /\ ~ isMarked_m(freeList)
    BY <1>1 DEF toMarkable, toPtr_m, isMarked_m
  <2>2. HeadInv
    <3>1. N # last => last + 1 \in last + 1 .. N /\ last + 1 \in Node
      BY <1>1, PoolSize
    <3> QED BY <1>10, <2>1, <3>1 DEF HeadInv
  <2>3. ChainInv
    <3> SUFFICES ASSUME NEW n \in Node, InList(n)
                 PROVE  /\ ~ isMarked_m(next[n])
                        /\ toPtr_m(next[n]) # NULL =>
                             /\ InList(toPtr_m(next[n]))
                             /\ next[n] # freeList
                             /\ \A m \in Node : InList(m) /\ next[m] = next[n] => m = n
      BY DEF ChainInv
    <3>1. n \in last + 1 .. N /\ toPtr_m(next[n]) = IF n = N THEN NULL ELSE n + 1
      BY <1>1, <1>10 DEF Succ
    <3>2. ASSUME toPtr_m(next[n]) # NULL
          PROVE  /\ InList(toPtr_m(next[n]))
                 /\ next[n] # freeList
                 /\ \A m \in Node : InList(m) /\ next[m] = next[n] => m = n
      <4>1. n # N /\ toPtr_m(next[n]) = n + 1 /\ n + 1 \in last + 1 .. N /\ n + 1 \in Node
        BY <1>1, <3>1, <3>2, PoolSize
      <4>2. InList(toPtr_m(next[n]))
        BY <1>10, <4>1
      <4>3. next[n] # freeList
        <5>1. n + 1 # last + 1 /\ n + 1 # NULL
          BY <1>1, <3>1, <4>1, PoolSize
        <5> QED BY <2>1, <4>1, <5>1
      <4>4. ASSUME NEW m \in Node, InList(m), next[m] = next[n] PROVE m = n
        <5>1. m \in last + 1 .. N /\ toPtr_m(next[m]) = IF m = N THEN NULL ELSE m + 1
          BY <1>1, <1>10, <4>4 DEF Succ
        <5>2. m + 1 = n + 1
          BY <3>2, <4>1, <4>4, <5>1
        <5> QED BY <1>1, <3>1, <5>1, <5>2, PoolSize
      <4> QED BY <4>2, <4>3, <4>4
    <3> QED BY <1>1, <3>2
  <2>4. LoadInv
    BY <1>3 DEF LoadInv
  <2> QED BY <2>2, <2>3, <2>4 DEF Chain
<1>12. HeldInv(L)
  BY <1>4, <1>8, <1>10 DEF HeldInv
<1>13. Covered(L, d)
  <2>1. d \in [Node -> Nat] /\ \A n \in Node : d[n] = IF n \in L THEN 1 ELSE 0
    BY <1>2 DEF In
  <2>2. ASSUME NEW n \in Node PROVE refCount[n] >= 2 * (d[n] + Cardinality(CallRefs(n)))
    <3>1. CallRefs(n) = {}
      BY <1>8 DEF CallRefs
    <3>2. Cardinality(CallRefs(n)) = 0
      BY <3>1, FS_EmptySet
    <3>3. refCount[n] = (IF n <= last THEN 2 ELSE 1) /\ (n <= last <=> n \in L)
      BY <1>1, <1>2, PoolSize
    <3> QED BY <2>1, <3>2, <3>3
  <2> QED BY <1>4, <2>1, <2>2 DEF Covered
<1> QED BY <1>2, <1>6, <1>7, <1>9, <1>11, <1>12, <1>13 DEF Pool

\* Nobody is in an operation.
LEMMA InitListInv == Init => ListInv(Initially) /\ Initially \in SUBSET Node
<1> SUFFICES ASSUME Init PROVE ListInv(Initially) /\ Initially \in SUBSET Node
  OBVIOUS
<1>1. PICK L \in SUBSET Node : L = Initially /\ Shape(L)
  BY InitShape
<1>2. /\ my = [t \in Thread |-> Resting] /\ calls = [t \in Thread |-> 0]
      /\ published = [k \in Key |-> IF k \in Range(Contents) THEN 1 ELSE 0]
      /\ delivered = [k \in Key |-> 0]
  BY DEF Init
<1>3. PICK m : m = Resting
  OBVIOUS
<1>4. /\ m \in Variables /\ Operation(L, m) /\ Held(m) = {} /\ m.new = NULL /\ m.todo = <<>>
      /\ \A n \in Node : Count(m, n) = 0
  <2>0. PICK s : s = <<>>
    OBVIOUS
  <2>1. s = <<>> /\ s \in Seq(Node)
    BY <2>0
  <2>2. m = [Resting EXCEPT !.todo = s]
    BY <1>3, <2>1 DEF Resting
  <2>3. /\ m \in Variables /\ Operation(L, m) /\ Held(m) = {} /\ m.new = NULL /\ m.todo = s
        /\ \A n \in Node : Count(m, n) = TodoCount(s, n)
    BY <2>1, <2>2, Ended
  <2> QED BY <2>1, <2>3, TodoFew
<1>5. my = [t \in Thread |-> m]
  BY <1>2, <1>3
<1>6. ListTypes
  <2>1. key \in [Node -> LONG_MIN .. LONG_MAX]
    BY InitWords
  <2>2. Calls \in Nat
    BY ListAssumption
  <2> QED BY <1>2, <1>4, <1>5, <2>1, <2>2 DEF ListTypes
<1>7. \A t \in Thread : Operation(L, my[t]) /\ Len(my[t].todo) <= 4
  BY <1>4, <1>5
<1>8. OwnNew
  BY <1>4, <1>5 DEF OwnNew
<1>9. History(L)
  <2> SUFFICES ASSUME NEW k \in Key PROVE delivered[k] + Present(L, k) <= published[k]
    BY DEF History
  <2>1. PICK last \in 2 .. N : /\ last = Len(Contents) + 2
                               /\ \A n \in 3 .. last : key[n] = Contents[n - 2]
    BY InitWords
  <2>2. ASSUME NEW n \in L \ {head, tail}, key[n] = k PROVE k \in Range(Contents)
    <3>1. n \in 3 .. last
      BY <1>1, <2>1, PoolSize DEF Initially, head, tail
    <3>2. n - 2 \in 1 .. Len(Contents) /\ k = Contents[n - 2]
      BY <2>1, <2>2, <3>1
    <3>3. DOMAIN Contents = 1 .. Len(Contents)
      BY ListAssumption
    <3> QED BY <3>2, <3>3 DEF Range
  <2>3. delivered[k] = 0 /\ published[k] = (IF k \in Range(Contents) THEN 1 ELSE 0)
    BY <1>2
  <2>4. CASE Present(L, k) = 1
    BY <2>2, <2>3, <2>4 DEF Present
  <2>5. CASE Present(L, k) = 0
    BY <2>3, <2>5
  <2> QED BY <2>4, <2>5 DEF Present
<1>10. Pool(HeldNodes(my, L), Owned(my, L))
  <2>1. HeldNodes(my, L) = L
    BY <1>4, <1>5 DEF HeldNodes
  <2>2. ASSUME NEW n \in Node PROVE Cardinality(Refs(my, n)) = 0
    <3>1. \A p \in Thread \X (1 .. Most) : Count(my[p[1]], n) = 0
      BY <1>4, <1>5
    <3>2. Refs(my, n) = {}
      BY <3>1 DEF Refs, Most
    <3> QED BY <3>2, FS_EmptySet
  <2>3. \A n \in Node : In(L, n) \in Nat
    BY DEF In
  <2>4. PICK d : d = [n \in Node |-> In(L, n)]
    OBVIOUS
  <2>5. Owned(my, L) = d
    BY <2>2, <2>3, <2>4 DEF Owned
  <2>6. Pool(L, d)
    BY <1>1, <2>4, InitPool
  <2> QED BY <2>1, <2>5, <2>6
<1> QED BY <1>1, <1>6, <1>7, <1>8, <1>9, <1>10 DEF ListInv

-----------------------------------------------------------------------------
(* Theorems.                                                               *)

\* The inductive invariant holds.
LEMMA Invariance == Spec => []IInv
<1>1. Init => IInv
  BY InitListInv DEF IInv
<1> QED BY <1>1, IInvStep, PTL DEF Spec

\* Whatever the invariant says of a list, it says of the nodes on the chain.
LEMMA LinkedInv ==
  ASSUME NEW L \in SUBSET Node, ListInv(L)
  PROVE  Linked = L /\ Elements = L \ {head, tail} /\ \A n \in Node : key[n] \in Nat
<1>1. Shape(L) /\ \A n \in Node : key[n] \in Nat
  BY KeyTypes DEF ListInv
<1> QED BY <1>1, LinkedNodes DEF Elements

\* In particular, the elements are those of L, before a step
LEMMA LinkedAlways == \A L \in SUBSET Node : ListInv(L) => Elements = L \ {head, tail}
BY LinkedInv

\* and after it.
LEMMA LinkedAfter == (\A L \in SUBSET Node : ListInv(L) => Elements = L \ {head, tail})'
BY LinkedAlways, PTL

\* Every variable has its type.
THEOREM TypeCorrect == Spec => []TypeOK
<1>1. IInv => TypeOK
  <2> SUFFICES ASSUME NEW L \in SUBSET Node, ListInv(L) PROVE TypeOK
    BY DEF IInv
  <2>1. PoolTypes
    BY PoolFacts DEF ListInv
  <2>2. Ptr = Ref
    BY DEF Ptr, Ref
  <2> QED BY <2>1, <2>2 DEF ListInv, ListTypes, Variables, PoolTypes, TypeOK
<1> QED BY <1>1, Invariance, PTL

\* Whatever is inserted and deleted at the same time, the chain of links from the head
\* ends at the tail, and its keys ascend.
THEOREM Sorted == Spec => []ListSorted
<1>1. IInv => ListSorted
  <2> SUFFICES ASSUME NEW L \in SUBSET Node, ListInv(L) PROVE ListSorted
    BY DEF IInv
  <2>1. Linked = L /\ Shape(L) /\ tail \in L
    BY LinkedInv DEF ListInv, Shape, Ends
  <2>2. ASSUME NEW i \in 2 .. N - 1, ChainAt[i + 1] # NULL
        PROVE  key[ChainAt[i]] < key[ChainAt[i + 1]]
    <3>1. i \in 1 .. N - 1 /\ i # 1
      BY PoolSize
    <3>2. ChainAt[i] \in L \ {head, tail} /\ ChainAt[i + 1] = Succ(ChainAt[i])
      BY <2>1, <2>2, <3>1, ChainNext
    <3> QED BY <2>1, <3>2 DEF Shape, Ascending
  <2> QED BY <2>1, <2>2 DEF ListSorted
<1> QED BY <1>1, Invariance, PTL

\* No node is reclaimed while it is linked, or while an operation goes on to read or
\* write its fields.
THEOREM NotReclaimed == Spec => []UsedNotReclaimed
<1>1. IInv => UsedNotReclaimed
  <2> SUFFICES ASSUME NEW L \in SUBSET Node, ListInv(L),
                      NEW n \in Linked \cup UNION {Used(t) : t \in Thread}
               PROVE  isRetained(n)
    BY DEF IInv, UsedNotReclaimed
  <2>1. PICK H : H = HeldNodes(my, L) /\ \A x \in H : isRetained(x)
    BY DEF ListInv, Pool, HeldInv
  <2>2. CASE n \in Linked
    BY <2>1, <2>2, LinkedInv DEF HeldNodes
  <2>3. CASE \E t \in Thread : n \in Used(t)
    <3>1. PICK t \in Thread : n \in Used(t)
      BY <2>3
    <3>2. n \in Held(my[t])
      BY <3>1 DEF Used, Held, Unchecked
    <3> QED BY <2>1, <3>1, <3>2 DEF HeldNodes
  <2> QED BY <2>2, <2>3
<1> QED BY <1>1, Invariance, PTL

\* No element is returned by two extractions, nor returned and left in the list.
THEOREM Once == Spec => []ExtractedOnce
<1>1. IInv => ExtractedOnce
  <2> SUFFICES ASSUME NEW L \in SUBSET Node, ListInv(L), NEW k \in Key
               PROVE  delivered[k] + Cardinality({n \in Elements : key[n] = k}) <= published[k]
    BY DEF IInv, ExtractedOnce
  <2>1. PICK S : S = {n \in Elements : key[n] = k}
    OBVIOUS
  <2>2. Elements = L \ {head, tail} /\ Shape(L)
    BY LinkedInv DEF ListInv
  <2>3. Cardinality(S) = Present(L, k)
    <3>1. CASE S = {}
      <4>1. Present(L, k) = 0
        BY <2>1, <2>2, <3>1 DEF Present
      <4> QED BY <3>1, <4>1, FS_EmptySet
    <3>2. CASE S # {}
      <4>1. PICK n \in S : TRUE
        BY <3>2
      <4>2. S = {n}
        BY <2>1, <2>2, <4>1 DEF Shape, Ascending
      <4>3. Present(L, k) = 1
        BY <2>1, <2>2, <4>1 DEF Present
      <4> QED BY <4>2, <4>3, FS_Singleton
    <3> QED BY <3>1, <3>2
  <2>4. delivered[k] + Present(L, k) <= published[k]
    BY DEF ListInv, History
  <2> QED BY <2>1, <2>3, <2>4
<1> QED BY <1>1, Invariance, PTL

\* A step and its thread.
LEMMA ChangeStep ==
  ASSUME NEW L \in SUBSET Node, ListInv(L), Next
  PROVE  \E t \in Thread, M \in SUBSET Node : ListInv(M)' /\ Change(L, M, t)
<1>1. PICK t \in Thread : Start(t) \/ Continue(t)
  BY DEF Next
<1>2. PICK M \in SUBSET Node : ListInv(M)' /\ Change(L, M, t)
  BY <1>1, StartStep, ContinueStep
<1> QED BY <1>2

\* The extraction of the minimum takes the smallest key in the list at the time.
THEOREM Smallest == Spec => TakesMinimum
<1>1. ASSUME IInv, [Next]_vars
      PROVE  [\A t \in Thread :
                delivered' # delivered /\ my'[t] # my[t] /\ Minimum(t)
                  => \A k \in LinkedKeys : key[my[t].cur] <= k]_vars
  <2> SUFFICES ASSUME Next, NEW t \in Thread, delivered' # delivered, my'[t] # my[t],
                      Minimum(t), NEW k \in LinkedKeys
               PROVE  key[my[t].cur] <= k
    BY <1>1
  <2>1. PICK L \in SUBSET Node : ListInv(L)
    BY <1>1 DEF IInv
  <2>2. PICK v \in Thread, M \in SUBSET Node : ListInv(M)' /\ Change(L, M, v)
    BY <2>1, ChangeStep
  <2>3. v = t
    BY <2>2 DEF Change
  <2>4. my[t].cur \in L /\ Succ(head) = my[t].cur
    BY <2>2, <2>3 DEF Change
  <2>5. PICK n \in L \ {head, tail} : key[n] = k
    BY <2>1, LinkedInv DEF LinkedKeys
  <2>6. Shape(L) /\ head \in L \ {tail} /\ \A x \in Node : key[x] \in Nat
    BY <2>1, LinkedInv DEF ListInv, Shape, Ends, head, tail
  <2>7. key[n] >= key[my[t].cur]
    BY <2>4, <2>5, <2>6 DEF Shape, Ascending
  <2> QED BY <2>4, <2>5, <2>6, <2>7
<1> QED BY <1>1, Invariance, PTL DEF Spec, TakesMinimum

\* The keys in the list at first.
LEMMA InitKeys == Init => KS!Init
<1> SUFFICES ASSUME Init PROVE KS!Init
  OBVIOUS
<1>1. PICK last \in 2 .. N : /\ last = Len(Contents) + 2
                             /\ \A n \in 3 .. last : key[n] = Contents[n - 2]
  BY InitWords
<1>2. Elements = 3 .. last
  <2>1. Elements = Initially \ {head, tail}
    BY InitListInv, LinkedInv
  <2> QED BY <1>1, <2>1, PoolSize DEF Initially, head, tail
<1>3. DOMAIN Contents = 1 .. Len(Contents) /\ Len(Contents) \in Nat
  BY ListAssumption
<1>4. LinkedKeys \subseteq Range(Contents)
  <2> SUFFICES ASSUME NEW n \in 3 .. last PROVE key[n] \in Range(Contents)
    BY <1>2 DEF LinkedKeys
  <2>1. n - 2 \in DOMAIN Contents /\ key[n] = Contents[n - 2]
    BY <1>1, <1>3
  <2> QED BY <2>1 DEF Range
<1>5. Range(Contents) \subseteq LinkedKeys
  <2> SUFFICES ASSUME NEW i \in 1 .. Len(Contents) PROVE Contents[i] \in LinkedKeys
    BY <1>3 DEF Range
  <2>1. i + 2 \in 3 .. last /\ (i + 2) - 2 = i
    BY <1>1, <1>3
  <2>2. key[i + 2] = Contents[i]
    BY <1>1, <2>1
  <2> QED BY <1>2, <2>1, <2>2 DEF LinkedKeys
<1>6. delivered = [k \in Key |-> 0]
  BY DEF Init
<1> QED BY <1>4, <1>5, <1>6 DEF KS!Init

\* A step of the list is a step of the set of keys, or none.
LEMMA KeysStep == IInv /\ [Next]_vars => [KS!Next]_<<LinkedKeys, delivered>>
<1>1. CASE UNCHANGED vars
  BY <1>1 DEF vars, cmemVars, listVars, LinkedKeys, Elements, Linked, ChainAt
<1> SUFFICES ASSUME IInv, Next PROVE [KS!Next]_<<LinkedKeys, delivered>>
  BY <1>1
<1>2. PICK L \in SUBSET Node : ListInv(L)
  BY DEF IInv
<1>3. PICK t \in Thread, M \in SUBSET Node : ListInv(M)' /\ Change(L, M, t)
  BY <1>2, ChangeStep
<1>4. /\ Elements = L \ {head, tail} /\ Elements' = M \ {head, tail}
      /\ head \in L /\ tail \in L /\ head # tail
  BY <1>2, <1>3, LinkedInv, LinkedAfter DEF ListInv, Shape, Ends, head, tail
<1>5. /\ LinkedKeys = {key[n] : n \in L \ {head, tail}}
      /\ LinkedKeys' = {key'[n] : n \in M \ {head, tail}}
  BY <1>4 DEF LinkedKeys
<1>6. CASE M = L /\ delivered' = delivered
  BY <1>3, <1>5, <1>6 DEF Change
<1>7. CASE M = L \cup {my[t].new} /\ my[t].new \in Node \ L /\ key' = key /\ delivered' = delivered
  <2>0. PICK x \in Node \ L : x = my[t].new
    BY <1>7
  <2>1. PICK k : x = my[t].new /\ k = key[x]
    BY <2>0
  <2>2. k \in Key /\ \A n \in L \ {head} : key[n] # k
    <3>1. /\ \A n \in M \ {head, tail} : key'[n] \in Key
          /\ \A m, n \in M \ {head} : key'[m] = key'[n] => m = n
      BY <1>3 DEF ListInv, Shape, Ends, Ascending
    <3> QED BY <1>4, <1>7, <2>1, <3>1
  <2>3. LinkedKeys' = LinkedKeys \cup {k} /\ k \notin LinkedKeys
    BY <1>4, <1>5, <1>7, <2>1, <2>2
  <2>4. KS!Add(k)
    BY <1>7, <2>3 DEF KS!Add
  <2> QED BY <2>2, <2>4 DEF KS!Next
<1>8. CASE /\ M = L \ {my[t].cur} /\ my[t].cur \in L \ {head, tail} /\ key' = key
           /\ \/ delivered' = delivered
              \/ delivered' = [delivered EXCEPT ![key[my[t].cur]] = @ + 1]
  <2>0. PICK x \in L \ {head, tail} : x = my[t].cur
    BY <1>8
  <2>1. PICK k : x = my[t].cur /\ k = key[x]
    BY <2>0
  <2>2. k \in Key /\ \A n \in L \ {head} : key[n] = k => n = x
    BY <1>2, <2>1 DEF ListInv, Shape, Ends, Ascending
  <2>3. LinkedKeys' = LinkedKeys \ {k} /\ k \in LinkedKeys
    BY <1>4, <1>5, <1>8, <2>1, <2>2
  <2>4. KS!Drop(k) \/ KS!Extract(k)
    BY <1>8, <2>1, <2>3 DEF KS!Drop, KS!Extract
  <2> QED BY <2>2, <2>4 DEF KS!Next
<1> QED BY <1>3, <1>6, <1>7, <1>8 DEF Change

\* The list is a set of keys that changes one key at a time.
THEOREM OneKeyAtATime == Spec => ImplementsKeySet
<1>1. Init => KS!Init
  BY InitKeys
<1>2. IInv /\ [Next]_vars => [KS!Next]_<<LinkedKeys, delivered>>
  BY KeysStep
<1> QED BY <1>1, <1>2, Invariance, PTL DEF Spec, ImplementsKeySet, KS!Spec

=============================================================================
