------------------------- MODULE ReclamationProofs --------------------------
(***************************************************************************)
(* No node that anybody refers to is reclaimed, the free list stays a list *)
(* of free nodes, and the pool keeps its nodes: proofs for                 *)
(* ReclamationClient, for every set of threads, slots and cells and every  *)
(* number of nodes, with and without retained links.                       *)
(*                                                                         *)
(* The first part is about references.  The second, on top of it, is about *)
(* the free list: it holds exactly the free nodes, and, without retained   *)
(* links, the counts are exact and an allocation fails only when no node   *)
(* is free.                                                                *)
(***************************************************************************)
EXTENDS ReclamationClient, FiniteSetTheorems, SequenceTheorems, WellFoundedInduction, TLAPS

-----------------------------------------------------------------------------
(* The inductive invariant.                                                *)

Pushes == {"clearLink", "readTop", "writeNext", "casPush"}

Counted == {"recheckHead", "readNext", "casPop", "clearClaim", "clearNext",
            "allocated", "decrement"}

\* What the control state of a thread says about its variables.
ControlInv ==
  \A t \in Thread :
    /\ cpc[t] \in Counted \cup {"retainHead"} => cnode[t] \in Node
    /\ cpc[t] \notin Pushes \cup {"decrement", "readLink"}
         => claimed[t] = <<>> /\ ~ follow[t] /\ ~ inAlloc[t]
    /\ cpc[t] \in Pushes \cup {"readLink"} => claimed[t] # <<>>
    /\ cpc[t] \in {"readLink", "clearLink"} => follow[t]
    /\ inAlloc[t] => ~ follow[t]
    /\ ~ follow[t] /\ cpc[t] = "decrement" => claimed[t] = <<>>
    /\ ~ follow[t] => Len(claimed[t]) <= 1
    /\ pc[t] \in {"retain", "recheck", "publish", "unlink", "discard"}
         => cpc[t] = "idle" /\ seen[t] \in Node
    /\ pc[t] \in {"publish", "unlink", "discard"} => Held(t, seen[t])
    /\ pc[t] \in {"load", "retain", "recheck", "publish"} => at[t] \in Cell

\* A cell leads to a node, or is a marked null pointer.
CellInv ==
  \A c \in Cell :
    \/ cell[c] = NULL_D
    \/ toPtr_m(cell[c]) \in Node /\ ~ isMarked_m(cell[c])

\* A node that is being pushed is claimed, by one frame of one thread.
PushInv ==
  /\ \A t \in Thread : \A n \in Pushing(t) :
       /\ ~ isRetained(n)
       /\ \A u \in Thread : ~ Taking(u, n) /\ (n \in Pushing(u) => u = t)
  /\ \A t \in Thread : \A i, j \in 1 .. Len(claimed[t]) :
       claimed[t][i] = claimed[t][j] => i = j

\* A node is taken by one thread, and claimed until that clears the claim bit.
TakeInv ==
  /\ \A t, u \in Thread : \A n \in Node : Taking(t, n) /\ Taking(u, n) => t = u
  /\ \A t \in Thread : \A n \in Node :
       Taking(t, n) => (isRetained(n) <=> cpc[t] # "clearClaim")

\* A node that was seen at the head and retained is not pushed again.
PopInv ==
  \A t \in Thread : cpc[t] \in {"readNext", "casPop"} =>
    \A u \in Thread : cnode[t] \notin Pushing(u)

\* A retained link that has been followed is cleared before the node is pushed.
GoneInv ==
  \A t \in Thread :
    follow[t] /\ cpc[t] \in {"readTop", "writeNext", "casPush"} =>
      rLink[Top(t)] = NULL

\* The links of the free list lead from free nodes to free nodes, to each from
\* one at most, and to the first from none.
HeadInv ==
  /\ ~ isMarked_m(freeList)
  /\ toPtr_m(freeList) # NULL => toPtr_m(freeList) \in Node /\ InList(toPtr_m(freeList))

ChainInv ==
  \A n \in Node : InList(n) =>
    /\ ~ isMarked_m(next[n])
    /\ toPtr_m(next[n]) # NULL =>
         /\ toPtr_m(next[n]) \in Node /\ InList(toPtr_m(next[n]))
         /\ next[n] # freeList
         /\ \A m \in Node : InList(m) /\ next[m] = next[n] => m = n

\* What a pop is about to install is still the link of the head, if that is free.
LoadInv ==
  \A t \in Thread :
    cpc[t] = "casPop" /\ InList(cnode[t]) => cnext[t] = next[cnode[t]]

\* Somebody outside the allocator refers to n.
Referred(n) ==
  SlotRefs(n) # {} \/ CellRefs(n) # {} \/ LinkRefs(n) # {}

\* Such a node is retained, and not being handed out.
HeldInv ==
  \A n \in Node : Referred(n) =>
    isRetained(n) /\ \A t \in Thread : ~ Taking(t, n)

IInv ==
  /\ TypeOK /\ ControlInv /\ CellInv
  /\ PushInv /\ TakeInv /\ PopInv /\ GoneInv
  /\ HeadInv /\ ChainInv /\ LoadInv
  /\ HeldInv /\ CountsSuffice

-----------------------------------------------------------------------------
(* Counting references.                                                    *)

\* There are finitely many references to a node.
LEMMA Finiteness ==
  ASSUME NEW n \in Node
  PROVE  /\ IsFiniteSet(SlotRefs(n)) /\ IsFiniteSet(CellRefs(n))
         /\ IsFiniteSet(CallRefs(n)) /\ IsFiniteSet(SeenRefs(n))
         /\ IsFiniteSet(LinkRefs(n))
<1>1. IsFiniteSet(Thread \X Slot)
  BY ClientAssumption, FS_Product
<1>2. IsFiniteSet(Node)
  BY PoolAssumption, FS_Interval DEF Node
<1>3. /\ SlotRefs(n) \subseteq Thread \X Slot /\ CellRefs(n) \subseteq Cell
      /\ CallRefs(n) \subseteq Thread /\ SeenRefs(n) \subseteq Thread
      /\ LinkRefs(n) \subseteq Node
  BY DEF SlotRefs, CellRefs, CallRefs, SeenRefs, LinkRefs
<1> QED BY <1>1, <1>2, <1>3, ClientAssumption, FS_Subset

\* So their numbers are natural numbers.
LEMMA Cardinals ==
  ASSUME NEW n \in Node
  PROVE  /\ Cardinality(SlotRefs(n)) \in Nat /\ Cardinality(CellRefs(n)) \in Nat
         /\ Cardinality(CallRefs(n)) \in Nat /\ Cardinality(SeenRefs(n)) \in Nat
         /\ Cardinality(LinkRefs(n)) \in Nat /\ References(n) \in Nat
<1>1. /\ Cardinality(SlotRefs(n)) \in Nat /\ Cardinality(CellRefs(n)) \in Nat
      /\ Cardinality(CallRefs(n)) \in Nat /\ Cardinality(SeenRefs(n)) \in Nat
      /\ Cardinality(LinkRefs(n)) \in Nat
  BY Finiteness, FS_CardinalityType
<1> QED BY <1>1 DEF References

\* A set with an element has at least one.
LEMMA SomeMember ==
  ASSUME NEW S, IsFiniteSet(S), NEW a \in S
  PROVE  Cardinality(S) >= 1
<1>1. IsFiniteSet(S \ {a}) /\ Cardinality(S \ {a}) = Cardinality(S) - 1
  BY FS_RemoveElement
<1>2. Cardinality(S \ {a}) \in Nat /\ Cardinality(S) \in Nat
  BY <1>1, FS_CardinalityType
<1> QED BY <1>1, <1>2

\* A set with two different elements has at least two.
LEMMA TwoMembers ==
  ASSUME NEW S, IsFiniteSet(S), NEW a \in S, NEW b \in S, a # b
  PROVE  Cardinality(S) >= 2
<1>1. IsFiniteSet(S \ {a}) /\ Cardinality(S \ {a}) = Cardinality(S) - 1
  BY FS_RemoveElement
<1>2. Cardinality(S \ {a}) >= 1
  BY <1>1, SomeMember, b \in S \ {a}
<1>3. Cardinality(S \ {a}) \in Nat /\ Cardinality(S) \in Nat
  BY <1>1, FS_CardinalityType
<1> QED BY <1>1, <1>2, <1>3

\* A set that has grown by one element at most, and one that has lost one.
LEMMA Grown ==
  ASSUME NEW S, NEW R, NEW a, IsFiniteSet(S), R \subseteq S \cup {a}
  PROVE  IsFiniteSet(R) /\ Cardinality(R) <= Cardinality(S) + 1
<1>1. /\ IsFiniteSet(S \cup {a})
      /\ Cardinality(S \cup {a}) = Cardinality(S)
           \/ Cardinality(S \cup {a}) = Cardinality(S) + 1
  BY FS_AddElement
<1>2. IsFiniteSet(R) /\ Cardinality(R) <= Cardinality(S \cup {a})
  BY <1>1, FS_Subset
<1>3. Cardinality(S) \in Nat /\ Cardinality(S \cup {a}) \in Nat /\ Cardinality(R) \in Nat
  BY <1>1, <1>2, FS_CardinalityType
<1> QED BY <1>1, <1>2, <1>3

\* A set that loses an element gets smaller.
LEMMA Shrunk ==
  ASSUME NEW S, NEW R, NEW a \in S, IsFiniteSet(S), R \subseteq S \ {a}
  PROVE  IsFiniteSet(R) /\ Cardinality(R) <= Cardinality(S) - 1
<1>1. IsFiniteSet(S \ {a}) /\ Cardinality(S \ {a}) = Cardinality(S) - 1
  BY FS_RemoveElement
<1> QED BY <1>1, FS_Subset

\* References keep a count up.
LEMMA CallCounted ==
  ASSUME IInv, NEW n \in Node, NEW t \in CallRefs(n)
  PROVE  /\ refCount[n] \in Nat /\ refCount[n] >= 2
         /\ (\E u \in CallRefs(n) : u # t) \/ SeenRefs(n) # {} \/ Referred(n)
              => refCount[n] >= 4
<1>1. refCount[n] \in Nat /\ refCount[n] >= 2 * References(n)
  BY DEF IInv, TypeOK, CountsSuffice
<1>2. Cardinality(CallRefs(n)) >= 1
  BY Finiteness, SomeMember
<1>3. References(n) >= 1
  BY <1>2, Cardinals DEF References
<1>4. ASSUME NEW u \in CallRefs(n), u # t PROVE References(n) >= 2
  <2>1. Cardinality(CallRefs(n)) >= 2
    BY <1>4, Finiteness, TwoMembers
  <2> QED BY <2>1, Cardinals DEF References
<1>5. ASSUME SeenRefs(n) # {} PROVE References(n) >= 2
  <2>1. Cardinality(SeenRefs(n)) >= 1
    BY <1>5, Finiteness, SomeMember
  <2> QED BY <1>2, <2>1, Cardinals DEF References
<1>6. ASSUME Referred(n) PROVE References(n) >= 2
  <2>1. \/ Cardinality(SlotRefs(n)) >= 1 \/ Cardinality(CellRefs(n)) >= 1
        \/ Cardinality(LinkRefs(n)) >= 1
    BY <1>6, Finiteness, SomeMember DEF Referred
  <2> QED BY <1>2, <2>1, Cardinals DEF References
<1>7. References(n) \in Nat
  BY Cardinals
<1> QED BY <1>1, <1>3, <1>4, <1>5, <1>6, <1>7

-----------------------------------------------------------------------------
(* The initial states.                                                     *)

\* The inductive invariant holds at first.
LEMMA InitIInv == Init => IInv
<1> SUFFICES ASSUME Init PROVE IInv
  OBVIOUS
<1> USE PoolAssumption, ClientAssumption DEF Init, cmemInit, Node
<1>1. TypeOK
  BY DEF TypeOK, Ref, Word, Linked, MarkablePointer, toMarkable, NULL, NULL_D, Pc, Cpc
<1>2. ControlInv /\ CellInv
  BY DEF ControlInv, CellInv, Counted, Pushes
<1>3. \A t \in Thread : Pushing(t) = {} /\ \A n \in Node : ~ Taking(t, n)
  BY DEF Pushing, Taking
<1>4. \A n \in Node : InList(n)
  BY <1>3 DEF InList, isRetained
<1>5. PushInv /\ TakeInv /\ PopInv /\ GoneInv /\ LoadInv
  BY <1>3 DEF PushInv, TakeInv, PopInv, GoneInv, LoadInv
<1>6. HeadInv
  BY <1>4 DEF HeadInv, toMarkable, isMarked_m, toPtr_m
<1>7. ChainInv
  BY <1>4 DEF ChainInv, toMarkable, isMarked_m, toPtr_m, NULL
<1>8. \A n \in Node : SlotRefs(n) = {} /\ CellRefs(n) = {} /\ CallRefs(n) = {}
                        /\ SeenRefs(n) = {} /\ LinkRefs(n) = {}
  BY DEF SlotRefs, CellRefs, CallRefs, SeenRefs, LinkRefs, NULL, NULL_D, toMarkable, toPtr_m
<1>9. HeldInv /\ CountsSuffice
  <2> HIDE DEF Init, cmemInit
  <2>1. \A n \in Node : References(n) = 0
    BY <1>8, FS_EmptySet DEF References
  <2>2. \A n \in Node : refCount[n] = 1
    BY DEF Init, cmemInit
  <2> QED BY <1>8, <2>1, <2>2 DEF HeldInv, Referred, CountsSuffice
<1> QED BY <1>1, <1>2, <1>5, <1>6, <1>7, <1>9 DEF IInv

-----------------------------------------------------------------------------
(* The steps that move nodes between the free list and the threads.        *)

\* A pop, and a push, that succeed; the decrement that claims a node.
Pop(t) == CasPop(t) /\ StillHead(t) /\ cpc' = [cpc EXCEPT ![t] = "clearClaim"]
Push(t) == CasPush(t) /\ TopUnchanged(t)
Claim(t) == Decrement(t) /\ refCount[cnode[t]] = 2

\* All others leave the nodes where they are.
Unaffected ==
  /\ claimed' = claimed
  /\ \A n \in Node : isRetained(n)' <=> isRetained(n)
  /\ \A t \in Thread, n \in Node : Taking(t, n)' <=> Taking(t, n)
  /\ \A t \in Thread : cpc'[t] = "clearClaim" <=> cpc[t] = "clearClaim"

\* The claim bit changes with the last reference only.
LEMMA DecrementParity ==
  ASSUME NEW old \in Nat, old >= 2
  PROVE  /\ Decremented(old) \in Nat
         /\ (old - Decremented(old)) % 2 = 1 <=> old = 2
         /\ old # 2 => (Decremented(old) % 2 = 0 <=> old % 2 = 0)
         /\ old = 2 => Decremented(old) = 1
BY DEF Decremented

\* A decrement claims the node when it takes the last reference, and leaves the claim bit alone
\* otherwise.
LEMMA DecrementFacts ==
  ASSUME IInv, NEW t \in Thread, Decrement(t)
  PROVE  /\ cnode[t] \in Node /\ t \in CallRefs(cnode[t])
         /\ refCount[cnode[t]] \in Nat /\ refCount[cnode[t]] >= 2
         /\ Claim(t) \/ (/\ refCount[cnode[t]] # 2
                         /\ claimed' = claimed /\ Unwind(t, claimed[t])
                         /\ \A n \in Node : isRetained(n)' <=> isRetained(n))
         /\ Claim(t) => /\ claimed' = [claimed EXCEPT ![t] = Append(@, cnode[t])]
                        /\ cnode' = [cnode EXCEPT ![t] = NULL]
                        /\ cpc' = [cpc EXCEPT ![t] = IF follow[t] THEN "readLink"
                                                              ELSE "readTop"]
                        /\ UNCHANGED <<inAlloc, follow>>
                        /\ refCount' = [refCount EXCEPT ![cnode[t]] = 1]
<1>1. cpc[t] = "decrement" /\ cnode[t] \in Node
  BY DEF IInv, ControlInv, Counted, Decrement
<1>2. t \in CallRefs(cnode[t])
  BY <1>1 DEF CallRefs
<1>3. refCount[cnode[t]] \in Nat /\ refCount[cnode[t]] >= 2
  BY <1>1, <1>2, CallCounted
<1>4. ASSUME refCount[cnode[t]] # 2
      PROVE  /\ claimed' = claimed /\ Unwind(t, claimed[t])
             /\ \A n \in Node : isRetained(n)' <=> isRetained(n)
  <2>1. claimed' = claimed /\ Unwind(t, claimed[t])
    BY <1>3, <1>4, DecrementParity DEF Decrement
  <2>2. refCount' = [refCount EXCEPT ![cnode[t]] = Decremented(refCount[cnode[t]])]
    BY DEF Decrement
  <2>3. refCount \in [Node -> Nat]
    BY DEF IInv, TypeOK
  <2> QED BY <1>1, <1>3, <1>4, <2>1, <2>2, <2>3, DecrementParity DEF isRetained
<1>5. ASSUME refCount[cnode[t]] = 2
      PROVE  /\ claimed' = [claimed EXCEPT ![t] = Append(@, cnode[t])]
             /\ cnode' = [cnode EXCEPT ![t] = NULL]
             /\ cpc' = [cpc EXCEPT ![t] = IF follow[t] THEN "readLink" ELSE "readTop"]
             /\ UNCHANGED <<inAlloc, follow>>
             /\ refCount' = [refCount EXCEPT ![cnode[t]] = 1]
  BY <1>5, <1>3, DecrementParity DEF Decrement
<1> QED BY <1>1, <1>2, <1>3, <1>4, <1>5 DEF Claim

\* Taking a reference leaves the claim bit alone.
LEMMA RetainedParity ==
  ASSUME NEW old \in Nat
  PROVE  /\ Retained(old) \in Nat
         /\ Retained(old) % 2 = 0 <=> old % 2 = 0
BY DEF Retained

\* Only five kinds of steps concern the free list, the claim bits and the nodes pushed and taken.
LEMMA UnaffectedBy ==
  ASSUME IInv, NEW t \in Thread, Start(t) \/ Continue(t),
         ~ Pop(t), ~ Push(t), ~ Claim(t), ~ ClearClaim(t),
         \A s \in Slot : ~ Created(t, s)
  PROVE  Unaffected
<1>1. /\ refCount \in [Node -> Nat] /\ cpc \in [Thread -> Cpc] /\ cnode \in [Thread -> Ref]
      /\ local \in [Thread -> [Slot -> Ref]] /\ seen \in [Thread -> Ref]
  BY DEF IInv, TypeOK
<1>2. ASSUME NEW n \in Node, refCount' = [refCount EXCEPT ![n] = Retained(@)]
      PROVE  \A m \in Node : isRetained(m)' <=> isRetained(m)
  BY <1>1, <1>2, RetainedParity DEF isRetained
<1>3. ASSUME refCount' = refCount
      PROVE  \A m \in Node : isRetained(m)' <=> isRetained(m)
  BY <1>3 DEF isRetained
<1>4. ASSUME cpc' = cpc, cnode' = cnode
      PROVE  /\ \A u \in Thread, n \in Node : Taking(u, n)' <=> Taking(u, n)
             /\ \A u \in Thread : cpc'[u] = "clearClaim" <=> cpc[u] = "clearClaim"
  BY <1>4 DEF Taking
<1> DEFINE Out(l) == l \notin {"clearClaim", "clearNext", "allocated"}
<1>5. ASSUME NEW l, NEW m, Out(cpc[t]), Out(l),
             cpc' = [cpc EXCEPT ![t] = l], cnode' = [cnode EXCEPT ![t] = m] \/ cnode' = cnode
      PROVE  /\ \A u \in Thread, n \in Node : Taking(u, n)' <=> Taking(u, n)
             /\ \A u \in Thread : cpc'[u] = "clearClaim" <=> cpc[u] = "clearClaim"
  BY <1>1, <1>5 DEF Taking
<1>6. CASE cmemStep(t) /\ UNCHANGED clientVars
  <2>1. CASE ReadHead(t)
    BY <2>1, <1>1, <1>3, <1>5 DEF ReadHead, Unaffected
  <2>2. CASE RetainHead(t)
    BY <2>2, <1>1, <1>2, <1>5 DEF RetainHead, Unaffected, IInv, ControlInv
  <2>3. CASE RecheckHead(t)
    BY <2>3, <1>1, <1>3, <1>5 DEF RecheckHead, ReleaseInAlloc, Unaffected
  <2>4. CASE ReadNext(t)
    BY <2>4, <1>1, <1>3, <1>5 DEF ReadNext, Unaffected
  <2>5. CASE CasPop(t)
    BY <2>5, <1>1, <1>3, <1>5 DEF CasPop, Pop, ReleaseInAlloc, Unaffected
  <2>6. CASE ClearNext(t)
    BY <2>6, <1>1, <1>3 DEF ClearNext, Unaffected, Taking
  <2>7. CASE Decrement(t)
    BY <2>7, <1>1, <1>5, DecrementFacts DEF Unwind, Return, Unaffected, Decrement
  <2>8. CASE ReadLink(t)
    BY <2>8, <1>1, <1>3, <1>5 DEF ReadLink, Unaffected
  <2>9. CASE ClearLink(t) \/ ReadTop(t) \/ WriteNext(t)
    BY <2>9, <1>1, <1>3, <1>5 DEF ClearLink, ReadTop, WriteNext, Unaffected
  <2>10. CASE CasPush(t)
    BY <2>10, <1>1, <1>3, <1>5 DEF CasPush, Push, Unaffected
  <2> QED BY <1>6, <2>1, <2>2, <2>3, <2>4, <2>5, <2>6, <2>7, <2>8, <2>9, <2>10 DEF cmemStep
<1>7. CASE Start(t)
  <2>1. CASE CreateNode(t)
    BY <2>1, <1>1, <1>3, <1>5 DEF CreateNode, CallAlloc, Unaffected
  <2>2. ASSUME NEW s \in Slot, NEW d \in Slot, RetainNode(t, s, d) PROVE Unaffected
    <3>1. local[t][s] \in Node
      BY <2>2, <1>1 DEF RetainNode, Ref
    <3> QED BY <2>2, <3>1, <1>2, <1>4 DEF RetainNode, Unaffected
  <2>3. ASSUME NEW s \in Slot, ReleaseNode(t, s) PROVE Unaffected
    BY <2>3, <1>1, <1>3, <1>4, <1>5 DEF ReleaseNode, CallRelease, Unaffected
  <2>4. ASSUME NEW c \in Cell, ReadAndRetain(t, c) PROVE Unaffected
    BY <2>4, <1>3, <1>4 DEF ReadAndRetain, cmemVars, Unaffected
  <2>5. ASSUME NEW s \in Slot, NEW c \in Cell, LinkNode(t, s, c) PROVE Unaffected
    BY <2>5, <1>3, <1>4 DEF LinkNode, Unaffected
  <2>6. ASSUME NEW s \in Slot, NEW d \in Slot, NEW c \in Cell, CasUnlink(t, s, d, c)
        PROVE Unaffected
    BY <2>6, <1>3, <1>4 DEF CasUnlink, cmemVars, Unaffected
  <2>7. ASSUME NEW s \in Slot, NEW d \in Slot, SetRetainedLink(t, s, d) PROVE Unaffected
    BY <2>7, <1>3, <1>4 DEF SetRetainedLink, Unaffected
  <2> QED BY <1>7, <2>1, <2>2, <2>3, <2>4, <2>5, <2>6, <2>7 DEF Start
<1>8. CASE CreateFailed(t)
  BY <1>8, <1>1, <1>3, <1>5 DEF CreateFailed, Unaffected
<1>9. CASE RetainSeen(t)
  <2>1. seen[t] \in Node
    BY <1>9 DEF RetainSeen, IInv, ControlInv
  <2> QED BY <1>9, <2>1, <1>2, <1>4 DEF RetainSeen, Unaffected
<1>10. CASE Reread(t)
  BY <1>10, <1>1, <1>3, <1>4, <1>5 DEF Reread, CallRelease, Unaffected
<1>11. CASE Load(t) \/ CasPublishFails(t) \/ ClearForwardLink(t)
  BY <1>11, <1>3, <1>4 DEF Load, CasPublishFails, ClearForwardLink, cmemVars, Unaffected
<1>12. ASSUME NEW s \in Slot, RecheckSeen(t, s) \/ CasPublish(t, s) PROVE Unaffected
  BY <1>12, <1>3, <1>4 DEF RecheckSeen, CasPublish, cmemVars, Unaffected
<1> QED BY <1>6, <1>7, <1>8, <1>9, <1>10, <1>11, <1>12 DEF Continue

\* The other ones leave the nodes pushed and the free nodes the same.
LEMMA UnaffectedEffect ==
  ASSUME Unaffected
  PROVE  /\ \A u \in Thread : Pushing(u)' = Pushing(u)
         /\ \A n \in Node : InList(n)' <=> InList(n)
<1>1. \A u \in Thread : Pushing(u)' = Pushing(u)
  BY DEF Unaffected, Pushing
<1> QED BY <1>1 DEF Unaffected, InList

\* The length of a sequence without its last element, in the terms of SubSeq.
LEMMA FrontLength ==
  ASSUME NEW k \in Nat, k >= 1
  PROVE  (IF 1 <= k - 1 THEN (k - 1) - 1 + 1 ELSE 0) = k - 1
OBVIOUS

\* A sequence without its last element.
LEMMA FrontFacts ==
  ASSUME NEW s \in Seq(Node), Len(s) >= 1
  PROVE  /\ Len(SubSeq(s, 1, Len(s) - 1)) = Len(s) - 1
         /\ \A i \in 1 .. Len(s) - 1 : SubSeq(s, 1, Len(s) - 1)[i] = s[i]
<1>1. Len(s) \in Nat
  OBVIOUS
<1>2. (IF 1 <= Len(s) - 1 THEN (Len(s) - 1) - 1 + 1 ELSE 0) = Len(s) - 1
  BY FrontLength, <1>1, Zenon
<1>3. Len(SubSeq(s, 1, Len(s) - 1))
        = IF 1 <= Len(s) - 1 THEN (Len(s) - 1) - 1 + 1 ELSE 0
  BY SubSeqProperties
<1>4. \A i \in 1 .. (Len(s) - 1) - 1 + 1 : SubSeq(s, 1, Len(s) - 1)[i] = s[1 + i - 1]
  BY SubSeqProperties
<1>5. Len(SubSeq(s, 1, Len(s) - 1)) = Len(s) - 1
  BY <1>2, <1>3
<1> QED BY <1>4, <1>1, <1>5

\* The nodes on the stack of a thread when it grows and shrinks.
LEMMA StackFacts ==
  ASSUME NEW t \in Thread, claimed \in [Thread -> Seq(Node)]
  PROVE  /\ \A u \in Thread : Pushing(u) \subseteq Node
         /\ claimed[t] # <<>> => Top(t) \in Node /\ Top(t) \in Pushing(t)
         /\ \A n \in Node : claimed' = [claimed EXCEPT ![t] = Append(@, n)] =>
              /\ Pushing(t)' = Pushing(t) \cup {n}
              /\ Top(t)' = n
         /\ claimed[t] # <<>> /\ claimed' = [claimed EXCEPT ![t] = Popped(t)]
              /\ (\A i, j \in 1 .. Len(claimed[t]) : claimed[t][i] = claimed[t][j] => i = j)
              => Pushing(t)' = Pushing(t) \ {Top(t)}
<1> DEFINE s == claimed[t]
<1>1. s \in Seq(Node) /\ Len(s) \in Nat /\ \A i \in 1 .. Len(s) : s[i] \in Node
  OBVIOUS
<1>2. ASSUME s # <<>> PROVE Top(t) \in Node /\ Top(t) \in Pushing(t)
  <2>1. Len(s) \in 1 .. Len(s)
    BY <1>1, <1>2
  <2> QED BY <1>1, <2>1 DEF Top, Pushing
<1>3. ASSUME NEW n \in Node, claimed' = [claimed EXCEPT ![t] = Append(@, n)]
      PROVE  Pushing(t)' = Pushing(t) \cup {n} /\ Top(t)' = n
  <2>1. claimed'[t] = Append(s, n)
    BY <1>3
  <2>2. /\ Len(claimed'[t]) = Len(s) + 1
        /\ \A i \in 1 .. Len(s) : claimed'[t][i] = s[i]
        /\ claimed'[t][Len(s) + 1] = n
    BY <1>1, <2>1
  <2>3. 1 .. Len(s) + 1 = (1 .. Len(s)) \cup {Len(s) + 1}
    BY <1>1
  <2> QED BY <2>2, <2>3 DEF Pushing, Top
<1>4. ASSUME s # <<>>, claimed' = [claimed EXCEPT ![t] = Popped(t)],
             \A i, j \in 1 .. Len(s) : s[i] = s[j] => i = j
      PROVE  Pushing(t)' = Pushing(t) \ {Top(t)}
  <2>1. Len(s) >= 1 /\ Len(s) \in 1 .. Len(s)
    BY <1>1, <1>4
  <2>2. claimed'[t] = SubSeq(s, 1, Len(s) - 1)
    BY <1>4 DEF Popped
  <2>3. Len(claimed'[t]) = Len(s) - 1
    BY <1>1, <2>1, <2>2, FrontFacts
  <2>4. \A i \in 1 .. Len(s) - 1 : claimed'[t][i] = s[i]
    BY <1>1, <2>1, <2>2, FrontFacts
  <2>5. \A i \in 1 .. Len(s) : i \in 1 .. Len(s) - 1 <=> i # Len(s)
    BY <1>1, <2>1
  <2>6. ASSUME NEW n PROVE n \in Pushing(t)' <=> n \in Pushing(t) /\ n # Top(t)
    <3>1. n \in Pushing(t)' <=> \E i \in 1 .. Len(s) - 1 : s[i] = n
      BY <2>3, <2>4 DEF Pushing
    <3>2. n \in Pushing(t) <=> \E i \in 1 .. Len(s) : s[i] = n
      BY DEF Pushing
    <3> QED BY <1>4, <2>1, <2>5, <3>1, <3>2 DEF Top
  <2> QED BY <2>6
<1>5. \A u \in Thread : Pushing(u) \subseteq Node
  BY DEF Pushing
<1> QED BY <1>2, <1>3, <1>4, <1>5

\* A pop takes the first node from the free list.
LEMMA PopEffect ==
  ASSUME IInv, NEW t \in Thread, Pop(t)
  PROVE  /\ cnode[t] \in Node /\ InList(cnode[t])
         /\ freeList = toMarkable(cnode[t], FALSE)
         /\ \A n \in Node : isRetained(n)' <=> isRetained(n)
         /\ \A u \in Thread : Pushing(u)' = Pushing(u)
         /\ \A u \in Thread, n \in Node :
              Taking(u, n)' <=> Taking(u, n) \/ (u = t /\ n = cnode[t])
         /\ \A n \in Node : InList(n)' <=> InList(n) /\ n # cnode[t]
<1>1. cpc[t] = "casPop" /\ cnode[t] \in Node
  BY DEF Pop, CasPop, IInv, ControlInv, Counted
<1>2. freeList = toMarkable(cnode[t], FALSE)
  BY DEF Pop, StillHead
<1>3. InList(cnode[t])
  BY <1>1, <1>2, PoolAssumption DEF IInv, HeadInv, toMarkable, toPtr_m, Node, NULL
<1>4. /\ refCount' = refCount /\ claimed' = claimed
      /\ cpc' = [cpc EXCEPT ![t] = "clearClaim"] /\ cpc' # cpc
      /\ cpc \in [Thread -> Cpc]
  BY <1>1 DEF Pop, CasPop, IInv, TypeOK
<1>5. cnode' = cnode
  BY <1>1, <1>4 DEF Pop, CasPop, ReleaseInAlloc
<1>6. /\ \A n \in Node : isRetained(n)' <=> isRetained(n)
      /\ \A u \in Thread : Pushing(u)' = Pushing(u)
  BY <1>4 DEF isRetained, Pushing
<1>7. \A u \in Thread, n \in Node :
        Taking(u, n)' <=> Taking(u, n) \/ (u = t /\ n = cnode[t])
  BY <1>1, <1>4, <1>5 DEF Taking
<1> QED BY <1>1, <1>2, <1>3, <1>6, <1>7 DEF InList

\* The node that has been popped is retained.
LEMMA ClearClaimEffect ==
  ASSUME IInv, NEW t \in Thread, ClearClaim(t)
  PROVE  /\ cnode[t] \in Node /\ Taking(t, cnode[t])
         /\ \A n \in Node : isRetained(n)' <=> isRetained(n) \/ n = cnode[t]
         /\ refCount[cnode[t]] \in Nat /\ refCount[cnode[t]] >= 3
         /\ refCount' = [refCount EXCEPT ![cnode[t]] = refCount[cnode[t]] - 1]
         /\ \A u \in Thread : Pushing(u)' = Pushing(u)
         /\ \A u \in Thread, n \in Node : Taking(u, n)' <=> Taking(u, n)
         /\ \A n \in Node : InList(n)' <=> InList(n)
<1>1. cpc[t] = "clearClaim" /\ cnode[t] \in Node
  BY DEF ClearClaim, IInv, ControlInv, Counted
<1>2. Taking(t, cnode[t]) /\ t \in CallRefs(cnode[t])
  BY <1>1 DEF Taking, CallRefs
<1>3. ~ isRetained(cnode[t])
  BY <1>1, <1>2 DEF IInv, TakeInv
<1>4. refCount[cnode[t]] \in Nat /\ refCount[cnode[t]] >= 3
  BY <1>1, <1>2, <1>3, CallCounted DEF isRetained
<1>5. refCount' = [refCount EXCEPT ![cnode[t]] = refCount[cnode[t]] - 1]
  BY DEF ClearClaim, Unclaimed
<1>6. \A n \in Node : isRetained(n)' <=> isRetained(n) \/ n = cnode[t]
  <2>1. (refCount[cnode[t]] - 1) % 2 = 0
    BY <1>3, <1>4 DEF isRetained
  <2> QED BY <1>1, <1>5, <2>1 DEF isRetained, IInv, TypeOK
<1>7. \A u \in Thread : Pushing(u)' = Pushing(u)
  BY DEF ClearClaim, Pushing
<1>8. \A u \in Thread, n \in Node : Taking(u, n)' <=> Taking(u, n)
  BY <1>1 DEF ClearClaim, Taking, IInv, TypeOK
<1> QED BY <1>1, <1>2, <1>4, <1>5, <1>6, <1>7, <1>8 DEF InList

\* The thread that claims a node is going to push it.
LEMMA ClaimEffect ==
  ASSUME IInv, NEW t \in Thread, Claim(t)
  PROVE  /\ cnode[t] \in Node /\ t \in CallRefs(cnode[t])
         /\ \A n \in Node : isRetained(n)' <=> isRetained(n) /\ n # cnode[t]
         /\ isRetained(cnode[t])
         /\ \A u \in Thread : cnode[t] \notin Pushing(u) /\ ~ Taking(u, cnode[t])
         /\ Pushing(t)' = Pushing(t) \cup {cnode[t]} /\ Top(t)' = cnode[t]
         /\ \A u \in Thread : u # t => Pushing(u)' = Pushing(u)
         /\ \A u \in Thread, n \in Node : Taking(u, n)' <=> Taking(u, n)
         /\ \A n \in Node : InList(n)' <=> InList(n)
<1>1. /\ cpc[t] = "decrement" /\ cnode[t] \in Node /\ t \in CallRefs(cnode[t])
      /\ refCount[cnode[t]] = 2
      /\ claimed' = [claimed EXCEPT ![t] = Append(@, cnode[t])]
      /\ cnode' = [cnode EXCEPT ![t] = NULL]
      /\ cpc' = [cpc EXCEPT ![t] = IF follow[t] THEN "readLink" ELSE "readTop"]
      /\ refCount' = [refCount EXCEPT ![cnode[t]] = 1]
  BY DecrementFacts DEF Claim, Decrement
<1>2. /\ refCount \in [Node -> Nat] /\ claimed \in [Thread -> Seq(Node)]
      /\ cpc \in [Thread -> Cpc] /\ cnode \in [Thread -> Ref]
  BY DEF IInv, TypeOK
<1>3. /\ isRetained(cnode[t])
      /\ \A n \in Node : isRetained(n)' <=> isRetained(n) /\ n # cnode[t]
  BY <1>1, <1>2 DEF isRetained
<1>4. \A u \in Thread : cnode[t] \notin Pushing(u)
  BY <1>3 DEF IInv, PushInv
<1>5. ASSUME NEW u \in Thread, Taking(u, cnode[t]) PROVE FALSE
  <2>1. u # t /\ u \in CallRefs(cnode[t])
    BY <1>1, <1>5 DEF Taking, CallRefs
  <2> QED BY <1>1, <2>1, CallCounted
<1>6. Pushing(t)' = Pushing(t) \cup {cnode[t]} /\ Top(t)' = cnode[t]
  BY <1>1, <1>2, StackFacts
<1>7. \A u \in Thread : u # t => Pushing(u)' = Pushing(u)
  BY <1>1, <1>2 DEF Pushing
<1>8. \A u \in Thread, n \in Node : Taking(u, n)' <=> Taking(u, n)
  BY <1>1, <1>2 DEF Taking
<1>9. \A n \in Node : InList(n)' <=> InList(n)
  BY <1>1, <1>3, <1>6, <1>7, <1>8 DEF InList
<1> QED BY <1>1, <1>3, <1>4, <1>5, <1>6, <1>7, <1>8, <1>9

\* A push puts its node at the head of the free list.
LEMMA PushEffect ==
  ASSUME IInv, NEW t \in Thread, Push(t)
  PROVE  /\ Top(t) \in Node /\ Top(t) \in Pushing(t)
         /\ freeList = next[Top(t)] /\ freeList' = toMarkable(Top(t), FALSE)
         /\ \A n \in Node : isRetained(n)' <=> isRetained(n)
         /\ Pushing(t)' = Pushing(t) \ {Top(t)}
         /\ \A u \in Thread : u # t => Pushing(u)' = Pushing(u)
         /\ \A u \in Thread, n \in Node : Taking(u, n)' <=> Taking(u, n)
         /\ \A n \in Node : InList(n)' <=> InList(n) \/ n = Top(t)
<1>1. /\ cpc[t] = "casPush" /\ freeList = next[Top(t)]
      /\ freeList' = toMarkable(Top(t), FALSE)
      /\ claimed' = [claimed EXCEPT ![t] = Popped(t)]
      /\ Unwind(t, Popped(t)) /\ refCount' = refCount
  BY DEF Push, CasPush, TopUnchanged
<1>2. /\ claimed \in [Thread -> Seq(Node)] /\ claimed[t] # <<>>
      /\ cpc \in [Thread -> Cpc] /\ cnode \in [Thread -> Ref]
      /\ \A i, j \in 1 .. Len(claimed[t]) : claimed[t][i] = claimed[t][j] => i = j
  BY <1>1 DEF IInv, TypeOK, ControlInv, Pushes, PushInv
<1>3. /\ Top(t) \in Node /\ Top(t) \in Pushing(t)
      /\ Pushing(t)' = Pushing(t) \ {Top(t)}
  BY <1>1, <1>2, StackFacts
<1>4. \A u \in Thread : u # t => Pushing(u)' = Pushing(u)
  BY <1>1, <1>2 DEF Pushing
<1>5. \A n \in Node : isRetained(n)' <=> isRetained(n)
  BY <1>1 DEF isRetained
<1>6. \A u \in Thread, n \in Node : Taking(u, n)' <=> Taking(u, n)
  BY <1>1, <1>2 DEF Taking, Unwind, Return
<1>7. /\ ~ isRetained(Top(t))
      /\ \A u \in Thread : ~ Taking(u, Top(t)) /\ (Top(t) \in Pushing(u) => u = t)
  BY <1>3 DEF IInv, PushInv
<1>8. \A n \in Node : InList(n)' <=> InList(n) \/ n = Top(t)
  BY <1>3, <1>4, <1>5, <1>6, <1>7 DEF InList
<1> QED BY <1>1, <1>3, <1>4, <1>5, <1>6, <1>8

\* The caller has the node of its allocation.
LEMMA CreatedEffect ==
  ASSUME IInv, NEW t \in Thread, NEW s \in Slot, Created(t, s)
  PROVE  /\ cnode[t] \in Node /\ Taking(t, cnode[t]) /\ isRetained(cnode[t])
         /\ \A n \in Node : isRetained(n)' <=> isRetained(n)
         /\ \A u \in Thread : Pushing(u)' = Pushing(u)
         /\ \A u \in Thread, n \in Node : Taking(u, n)' <=> Taking(u, n) /\ u # t
         /\ \A n \in Node : InList(n)' <=> InList(n)
<1>1. cpc[t] = "allocated" /\ cnode[t] \in Node
  BY DEF Created, IInv, ControlInv, Counted
<1>2. Taking(t, cnode[t]) /\ isRetained(cnode[t])
  BY <1>1 DEF Taking, IInv, TakeInv
<1>3. /\ \A n \in Node : isRetained(n)' <=> isRetained(n)
      /\ \A u \in Thread : Pushing(u)' = Pushing(u)
  BY DEF Created, isRetained, Pushing
<1>4. \A u \in Thread, n \in Node : Taking(u, n)' <=> Taking(u, n) /\ u # t
  BY <1>1 DEF Created, Taking, IInv, TypeOK
<1>5. \A n \in Node : Taking(t, n) => n = cnode[t]
  BY DEF Taking
<1> QED BY <1>1, <1>2, <1>3, <1>4, <1>5 DEF InList

-----------------------------------------------------------------------------
(* What each step leaves alone.                                            *)

\* A step changes the variables of its own thread only.
LEMMA Others ==
  ASSUME IInv, NEW t \in Thread, Start(t) \/ Continue(t), NEW u \in Thread, u # t
  PROVE  /\ cpc'[u] = cpc[u] /\ cnode'[u] = cnode[u] /\ cnext'[u] = cnext[u]
         /\ claimed'[u] = claimed[u] /\ follow'[u] = follow[u]
         /\ local'[u] = local[u] /\ pc'[u] = pc[u] /\ seen'[u] = seen[u]
<1>1. /\ cpc \in [Thread -> Cpc] /\ cnode \in [Thread -> Ref] /\ cnext \in [Thread -> Word]
      /\ claimed \in [Thread -> Seq(Node)] /\ follow \in [Thread -> BOOLEAN]
      /\ local \in [Thread -> [Slot -> Ref]] /\ pc \in [Thread -> Pc]
      /\ seen \in [Thread -> Ref]
  BY DEF IInv, TypeOK
<1>2. CASE cmemStep(t) /\ UNCHANGED clientVars
  BY <1>1, <1>2 DEF cmemStep, ReadHead, RetainHead, RecheckHead, ReadNext, CasPop, ClearClaim,
     ClearNext, Decrement, ReadLink, ClearLink, ReadTop, WriteNext, CasPush,
     ReleaseInAlloc, Unwind, Return, clientVars
<1>3. CASE Start(t)
  BY <1>1, <1>3 DEF Start, CreateNode, CallAlloc, RetainNode, ReleaseNode, CallRelease,
     ReadAndRetain, LinkNode, CasUnlink, SetRetainedLink, Goto, cmemVars
<1>4. CASE Continue(t) /\ ~ (cmemStep(t) /\ UNCHANGED clientVars)
  BY <1>1, <1>4 DEF Continue, Created, CreateFailed, Load, RetainSeen, RecheckSeen, Reread,
     CallRelease, CasPublish, CasPublishFails, ClearForwardLink, Goto, cmemVars
<1> QED BY <1>2, <1>3, <1>4 DEF Continue

\* Only pops and pushes write the head of the free list.
LEMMA HeadKept ==
  ASSUME NEW t \in Thread, Start(t) \/ Continue(t), ~ Pop(t), ~ Push(t), IInv
  PROVE  freeList' = freeList
<1>1. CASE cmemStep(t) /\ UNCHANGED clientVars
  BY <1>1 DEF cmemStep, ReadHead, RetainHead, RecheckHead, ReadNext, CasPop, ClearClaim,
     ClearNext, Decrement, ReadLink, ClearLink, ReadTop, WriteNext, CasPush, Pop, Push
<1>2. CASE Start(t)
  BY <1>2 DEF Start, CreateNode, CallAlloc, RetainNode, ReleaseNode, CallRelease,
     ReadAndRetain, LinkNode, CasUnlink, SetRetainedLink, cmemVars
<1>3. CASE Continue(t) /\ ~ (cmemStep(t) /\ UNCHANGED clientVars)
  BY <1>3 DEF Continue, Created, CreateFailed, Load, RetainSeen, RecheckSeen, Reread,
     CallRelease, CasPublish, CasPublishFails, ClearForwardLink, cmemVars
<1> QED BY <1>1, <1>2, <1>3 DEF Continue

\* Nobody writes the link of a free node.
LEMMA LinksKept ==
  ASSUME IInv, NEW t \in Thread, Start(t) \/ Continue(t), NEW n \in Node, InList(n)
  PROVE  next'[n] = next[n]
<1>1. ASSUME NEW m, NEW w, next' = [next EXCEPT ![m] = w], m # n
      PROVE  next'[n] = next[n]
  BY <1>1 DEF IInv, TypeOK
<1>2. CASE cmemStep(t) /\ UNCHANGED clientVars
  <2>1. CASE ClearNext(t)
    <3>1. Taking(t, cnode[t])
      BY <2>1 DEF ClearNext, Taking
    <3> QED BY <2>1, <3>1, <1>1 DEF ClearNext, InList
  <2>2. CASE WriteNext(t)
    <3>1. Top(t) \in Pushing(t)
      BY <2>2, StackFacts DEF WriteNext, IInv, TypeOK, ControlInv, Pushes
    <3> QED BY <2>2, <3>1, <1>1 DEF WriteNext, InList
  <2>3. CASE ~ ClearNext(t) /\ ~ WriteNext(t)
    BY <1>2, <2>3 DEF cmemStep, ReadHead, RetainHead, RecheckHead, ReadNext, CasPop,
       ClearClaim, Decrement, ReadLink, ClearLink, ReadTop, CasPush
  <2> QED BY <2>1, <2>2, <2>3
<1>3. CASE Start(t)
  <2>1. ASSUME NEW s \in Slot, NEW c \in Cell, LinkNode(t, s, c) PROVE next'[n] = next[n]
    <3>1. local[t][s] \in Node
      BY <2>1 DEF LinkNode, IInv, TypeOK, Ref
    <3>2. <<t, s>> \in SlotRefs(local[t][s])
      BY <2>1 DEF SlotRefs
    <3>3. isRetained(local[t][s])
      BY <3>1, <3>2 DEF IInv, HeldInv, Referred
    <3> QED BY <2>1, <3>3, <1>1 DEF LinkNode, InList
  <2>2. CASE \A s \in Slot, c \in Cell : ~ LinkNode(t, s, c)
    BY <1>3, <2>2 DEF Start, CreateNode, CallAlloc, RetainNode, ReleaseNode, CallRelease,
       ReadAndRetain, CasUnlink, SetRetainedLink, cmemVars
  <2> QED BY <2>1, <2>2
<1>4. CASE Continue(t) /\ ~ (cmemStep(t) /\ UNCHANGED clientVars)
  <2>1. ASSUME NEW s \in Slot, Created(t, s) PROVE next'[n] = next[n]
    <3>1. Taking(t, cnode[t])
      BY <2>1 DEF Created, Taking
    <3> QED BY <2>1, <3>1, <1>1 DEF Created, InList
  <2>2. CASE ClearForwardLink(t)
    <3>1. seen[t] \in Node /\ Held(t, seen[t])
      BY <2>2 DEF ClearForwardLink, IInv, ControlInv
    <3>2. PICK s \in Slot : <<t, s>> \in SlotRefs(seen[t])
      BY <3>1 DEF Held, SlotRefs
    <3>3. isRetained(seen[t])
      BY <3>1, <3>2 DEF IInv, HeldInv, Referred
    <3> QED BY <2>2, <3>3, <1>1 DEF ClearForwardLink, InList
  <2>3. CASE ~ ClearForwardLink(t) /\ \A s \in Slot : ~ Created(t, s)
    BY <1>4, <2>3 DEF Continue, CreateFailed, Load, RetainSeen, RecheckSeen, Reread,
       CallRelease, CasPublish, CasPublishFails, cmemVars
  <2> QED BY <2>1, <2>2, <2>3
<1> QED BY <1>2, <1>3, <1>4 DEF Continue

-----------------------------------------------------------------------------
(* Nodes on their way.                                                     *)

\* A node that is pushed stays claimed, and pushed by one thread.
LEMMA PushStep ==
  ASSUME IInv, NEW t \in Thread, Start(t) \/ Continue(t)
  PROVE  PushInv'
<1>1. /\ \A u \in Thread : \A n \in Pushing(u) :
           /\ ~ isRetained(n)
           /\ \A v \in Thread : ~ Taking(v, n) /\ (n \in Pushing(v) => v = u)
      /\ \A u \in Thread : \A i, j \in 1 .. Len(claimed[u]) :
           claimed[u][i] = claimed[u][j] => i = j
      /\ claimed \in [Thread -> Seq(Node)]
  BY DEF IInv, PushInv, TypeOK
<1>2. \A u \in Thread : Pushing(u) \subseteq Node
  BY <1>1, StackFacts
<1>3. CASE Unaffected
  BY <1>1, <1>2, <1>3, UnaffectedEffect DEF PushInv, Unaffected
<1>4. CASE Pop(t)
  <2>1. claimed' = claimed
    BY <1>4 DEF Pop, CasPop
  <2>2. \A u \in Thread : cnode[t] \notin Pushing(u)
    BY <1>4, PopEffect DEF InList
  <2>3. /\ \A n \in Node : isRetained(n)' <=> isRetained(n)
        /\ \A u \in Thread : Pushing(u)' = Pushing(u)
        /\ \A u \in Thread, n \in Node :
             Taking(u, n)' <=> Taking(u, n) \/ (u = t /\ n = cnode[t])
    BY <1>4, PopEffect
  <2> QED BY <1>1, <1>2, <2>1, <2>2, <2>3 DEF PushInv
<1>5. CASE ClearClaim(t)
  <2>1. claimed' = claimed
    BY <1>5 DEF ClearClaim
  <2>2. \A u \in Thread : cnode[t] \notin Pushing(u)
    BY <1>1, <1>5, ClearClaimEffect
  <2> QED BY <1>1, <1>2, <1>5, <2>1, <2>2, ClearClaimEffect DEF PushInv
<1>6. ASSUME NEW s \in Slot, Created(t, s) PROVE PushInv'
  <2>1. claimed' = claimed
    BY <1>6 DEF Created
  <2> QED BY <1>1, <1>2, <1>6, <2>1, CreatedEffect DEF PushInv
<1>7. CASE Claim(t)
  <2>1. \A u \in Thread : \A n \in Pushing(u)' :
          /\ ~ isRetained(n)'
          /\ \A v \in Thread : ~ Taking(v, n)' /\ (n \in Pushing(v)' => v = u)
    BY <1>1, <1>2, <1>7, ClaimEffect
  <2>2. ASSUME NEW u \in Thread, NEW i \in 1 .. Len(claimed'[u]), NEW j \in 1 .. Len(claimed'[u]),
               claimed'[u][i] = claimed'[u][j]
        PROVE  i = j
    <3>1. CASE u # t
      BY <1>1, <2>2, <3>1, Others
    <3>2. CASE u = t
      <4>1. claimed'[t] = Append(claimed[t], cnode[t]) /\ cnode[t] \in Node
        BY <1>1, <1>7, DecrementFacts DEF Claim
      <4>2. \A k \in 1 .. Len(claimed[t]) : claimed[t][k] # cnode[t]
        BY <1>7, ClaimEffect DEF Pushing
      <4>3. claimed[t] \in Seq(Node)
        BY <1>1
      <4> QED BY <1>1, <2>2, <3>2, <4>1, <4>2, <4>3
    <3> QED BY <3>1, <3>2
  <2> QED BY <2>1, <2>2 DEF PushInv
<1>8. CASE Push(t)
  <2>1. \A u \in Thread : \A n \in Pushing(u)' :
          /\ ~ isRetained(n)'
          /\ \A v \in Thread : ~ Taking(v, n)' /\ (n \in Pushing(v)' => v = u)
    <3>1. /\ \A n \in Node : isRetained(n)' <=> isRetained(n)
          /\ Pushing(t)' \subseteq Pushing(t)
          /\ \A u \in Thread : u # t => Pushing(u)' = Pushing(u)
          /\ \A u \in Thread, n \in Node : Taking(u, n)' <=> Taking(u, n)
      BY <1>8, PushEffect
    <3>2. \A u \in Thread : Pushing(u)' \subseteq Pushing(u)
      BY <3>1
    <3> QED BY <1>1, <1>2, <3>1, <3>2
  <2>2. ASSUME NEW u \in Thread, NEW i \in 1 .. Len(claimed'[u]), NEW j \in 1 .. Len(claimed'[u]),
               claimed'[u][i] = claimed'[u][j]
        PROVE  i = j
    <3>1. CASE u # t
      BY <1>1, <2>2, <3>1, Others
    <3>2. CASE u = t
      <4>1. claimed'[t] = SubSeq(claimed[t], 1, Len(claimed[t]) - 1)
        BY <1>1, <1>8 DEF Push, CasPush, Popped
      <4>2. claimed[t] \in Seq(Node) /\ claimed[t] # <<>>
        BY <1>1, <1>8 DEF Push, CasPush, IInv, ControlInv, Pushes
      <4>3. Len(claimed[t]) \in Nat /\ Len(claimed[t]) >= 1
        BY <4>2
      <4>4. /\ Len(claimed'[t]) = Len(claimed[t]) - 1
            /\ \A k \in 1 .. Len(claimed[t]) - 1 : claimed'[t][k] = claimed[t][k]
        BY <4>1, <4>2, <4>3, FrontFacts
      <4> QED BY <1>1, <2>2, <3>2, <4>3, <4>4
    <3> QED BY <3>1, <3>2
  <2> QED BY <2>1, <2>2 DEF PushInv
<1> QED BY <1>3, <1>4, <1>5, <1>6, <1>7, <1>8, UnaffectedBy

\* A node that is taken is taken by one thread.
LEMMA TakeStep ==
  ASSUME IInv, NEW t \in Thread, Start(t) \/ Continue(t)
  PROVE  TakeInv'
<1>1. /\ \A u, v \in Thread : \A n \in Node : Taking(u, n) /\ Taking(v, n) => u = v
      /\ \A u \in Thread : \A n \in Node :
           Taking(u, n) => (isRetained(n) <=> cpc[u] # "clearClaim")
  BY DEF IInv, TakeInv
<1>2. \A u, n : Taking(u, n) => n = cnode[u]
  BY DEF Taking
<1>3. CASE Unaffected
  BY <1>1, <1>3 DEF TakeInv, Unaffected
<1>4. CASE Pop(t)
  <2>1. InList(cnode[t]) /\ cpc'[t] = "clearClaim"
    BY <1>4, PopEffect DEF Pop, IInv, TypeOK
  <2>2. ~ isRetained(cnode[t]) /\ \A u \in Thread : ~ Taking(u, cnode[t])
    BY <2>1 DEF InList
  <2>3. \A u \in Thread : u # t => cpc'[u] = cpc[u]
    BY Others
  <2>4. \A n \in Node : ~ Taking(t, n)
    BY <1>4 DEF Pop, CasPop, Taking
  <2>5. /\ \A n \in Node : isRetained(n)' <=> isRetained(n)
        /\ \A u \in Thread, n \in Node :
             Taking(u, n)' <=> Taking(u, n) \/ (u = t /\ n = cnode[t])
    BY <1>4, PopEffect
  <2> QED BY <1>1, <2>1, <2>2, <2>3, <2>4, <2>5 DEF TakeInv
<1>5. CASE ClearClaim(t)
  <2>1. cpc'[t] = "clearNext"
    BY <1>5 DEF ClearClaim, IInv, TypeOK
  <2>2. \A u \in Thread : u # t => cpc'[u] = cpc[u]
    BY Others
  <2> QED BY <1>1, <1>2, <1>5, <2>1, <2>2, ClearClaimEffect DEF TakeInv
<1>6. ASSUME NEW s \in Slot, Created(t, s) PROVE TakeInv'
  <2>1. \A u \in Thread : u # t => cpc'[u] = cpc[u]
    BY Others
  <2> QED BY <1>1, <1>6, <2>1, CreatedEffect DEF TakeInv
<1>7. CASE Claim(t)
  <2>1. \A u \in Thread : u # t => cpc'[u] = cpc[u]
    BY Others
  <2>2. \A n \in Node : ~ Taking(t, n)
    BY <1>7 DEF Claim, Decrement, Taking
  <2> QED BY <1>1, <1>7, <2>1, <2>2, ClaimEffect DEF TakeInv
<1>8. CASE Push(t)
  <2>1. \A u \in Thread : u # t => cpc'[u] = cpc[u]
    BY Others
  <2>2. \A n \in Node : ~ Taking(t, n)
    BY <1>8 DEF Push, CasPush, Taking
  <2> QED BY <1>1, <1>8, <2>1, <2>2, PushEffect DEF TakeInv
<1> QED BY <1>3, <1>4, <1>5, <1>6, <1>7, <1>8, UnaffectedBy

\* How a thread comes to the last two steps of a pop.
LEMMA PopControl ==
  ASSUME IInv, NEW t \in Thread, Start(t) \/ Continue(t), cpc'[t] \in {"readNext", "casPop"}
  PROVE  /\ cnode'[t] = cnode[t]
         /\ cpc[t] = "readNext" \/ (RecheckHead(t) /\ StillHead(t))
         /\ cpc'[t] = "casPop" => cpc[t] = "readNext" /\ ReadNext(t)
<1>1. cpc \in [Thread -> Cpc]
  BY DEF IInv, TypeOK
<1>2. /\ claimed[t] # <<>> => cpc[t] \in Pushes \cup {"decrement", "readLink"}
      /\ pc[t] \in {"retain", "recheck", "publish", "unlink", "discard"} => cpc[t] = "idle"
  BY DEF IInv, ControlInv
<1>3. CASE cmemStep(t) /\ UNCHANGED clientVars
  BY <1>1, <1>3 DEF cmemStep, ReadHead, RetainHead, RecheckHead, ReadNext, CasPop,
     ClearClaim, ClearNext, Decrement, ReadLink, ClearLink, ReadTop, WriteNext, CasPush,
     ReleaseInAlloc, Unwind, Return
<1>4. CASE Start(t)
  BY <1>1, <1>4 DEF Start, CreateNode, CallAlloc, RetainNode, ReleaseNode, CallRelease,
     ReadAndRetain, LinkNode, CasUnlink, SetRetainedLink, AtRest, cmemVars
<1>5. CASE Continue(t) /\ ~ (cmemStep(t) /\ UNCHANGED clientVars)
  BY <1>1, <1>2, <1>5 DEF Continue, Created, CreateFailed, Load, RetainSeen, RecheckSeen,
     Reread, CallRelease, CasPublish, CasPublishFails, ClearForwardLink, cmemVars
<1> QED BY <1>3, <1>4, <1>5 DEF Continue

\* A node that was seen at the head and retained is not pushed again.
LEMMA PopStep ==
  ASSUME IInv, NEW t \in Thread, Start(t) \/ Continue(t)
  PROVE  PopInv'
<1> SUFFICES ASSUME NEW u \in Thread, cpc'[u] \in {"readNext", "casPop"}, NEW v \in Thread
             PROVE  cnode'[u] \notin Pushing(v)'
  BY DEF PopInv
<1>1. \A n \in Node : (\E w \in Thread : n \in Pushing(w)')
        => (\E w \in Thread : n \in Pushing(w)) \/ (Claim(t) /\ n = cnode[t])
  <2>1. CASE Unaffected
    BY <2>1, UnaffectedEffect
  <2>2. CASE Pop(t)
    <3>1. \A w \in Thread : Pushing(w)' = Pushing(w)
      BY <2>2, PopEffect
    <3> QED BY <3>1
  <2>3. CASE ClearClaim(t)
    BY <2>3, ClearClaimEffect
  <2>4. ASSUME NEW s \in Slot, Created(t, s)
        PROVE  \A w \in Thread : Pushing(w)' = Pushing(w)
    BY <2>4, CreatedEffect
  <2>5. CASE Claim(t)
    BY <2>5, ClaimEffect
  <2>6. CASE Push(t)
    <3>1. \A w \in Thread : Pushing(w)' \subseteq Pushing(w)
      BY <2>6, PushEffect
    <3> QED BY <3>1
  <2> QED BY <2>1, <2>2, <2>3, <2>4, <2>5, <2>6, UnaffectedBy
<1>2. CASE u = t
  <2>1. cnode'[t] = cnode[t] /\ ~ Claim(t)
    BY <1>2, PopControl DEF RecheckHead, Claim, Decrement
  <2>2. CASE cpc[t] = "readNext"
    <3>1. cnode[t] \in Node /\ \A w \in Thread : cnode[t] \notin Pushing(w)
      BY <2>2 DEF IInv, ControlInv, Counted, PopInv
    <3> QED BY <1>1, <1>2, <2>1, <3>1
  <2>3. CASE RecheckHead(t) /\ StillHead(t)
    <3>1. cnode[t] \in Node /\ freeList = toMarkable(cnode[t], FALSE)
      BY <2>3 DEF IInv, ControlInv, Counted, RecheckHead, StillHead
    <3>2. InList(cnode[t])
      BY <3>1, PoolAssumption DEF IInv, HeadInv, toMarkable, toPtr_m, Node, NULL
    <3>3. \A w \in Thread : cnode[t] \notin Pushing(w)
      BY <3>2 DEF InList
    <3> QED BY <1>1, <1>2, <2>1, <3>1, <3>3
  <2> QED BY <1>2, <2>2, <2>3, PopControl
<1>3. CASE u # t
  <2>1. cpc[u] \in {"readNext", "casPop"} /\ cnode'[u] = cnode[u]
    BY <1>3, Others
  <2>2. cnode[u] \in Node /\ u \in CallRefs(cnode[u])
    BY <2>1 DEF IInv, ControlInv, Counted, CallRefs
  <2>3. \A w \in Thread : cnode[u] \notin Pushing(w)
    BY <2>1 DEF IInv, PopInv
  <2>4. ~ (Claim(t) /\ cnode[u] = cnode[t])
    BY <1>3, <2>2, ClaimEffect, CallCounted DEF Claim
  <2> QED BY <1>1, <2>1, <2>2, <2>3, <2>4
<1> QED BY <1>2, <1>3

\* A retained link changes to NULL, or is that of a retained node.
LEMMA RetainedLinksKept ==
  ASSUME IInv, NEW t \in Thread, Start(t) \/ Continue(t), NEW n \in Node
  PROVE  /\ rLink'[n] = NULL \/ rLink'[n] = rLink[n]
              \/ \E s, d \in Slot : SetRetainedLink(t, s, d) /\ n = local[t][s]
         /\ ~ ClearLink(t) /\ rLink'[n] # rLink[n] => isRetained(n)
<1>1. rLink \in [Node -> Ref] /\ local \in [Thread -> [Slot -> Ref]]
  BY DEF IInv, TypeOK
<1>2. CASE cmemStep(t) /\ UNCHANGED clientVars
  BY <1>1, <1>2 DEF cmemStep, ReadHead, RetainHead, RecheckHead, ReadNext, CasPop,
     ClearClaim, ClearNext, Decrement, ReadLink, ClearLink, ReadTop, WriteNext, CasPush
<1>3. CASE Start(t)
  <2>1. ASSUME NEW s \in Slot, NEW d \in Slot, SetRetainedLink(t, s, d)
        PROVE  rLink'[n] # rLink[n] => n = local[t][s] /\ isRetained(n)
    <3>1. rLink'[n] # rLink[n] => n = local[t][s]
      BY <1>1, <2>1 DEF SetRetainedLink
    <3>2. n = local[t][s] => <<t, s>> \in SlotRefs(n)
      BY DEF SlotRefs
    <3> QED BY <3>1, <3>2 DEF IInv, HeldInv, Referred
  <2>2. CASE \A s, d \in Slot : ~ SetRetainedLink(t, s, d)
    BY <1>3, <2>2 DEF Start, CreateNode, CallAlloc, RetainNode, ReleaseNode, CallRelease,
       ReadAndRetain, LinkNode, CasUnlink, cmemVars
  <2> QED BY <2>1, <2>2
<1>4. CASE Continue(t) /\ ~ (cmemStep(t) /\ UNCHANGED clientVars)
  <2>1. ASSUME NEW s \in Slot, Created(t, s)
        PROVE  rLink'[n] # rLink[n] => n = cnode[t] /\ isRetained(n) /\ rLink'[n] = NULL
    <3>1. rLink'[n] # rLink[n] => n = cnode[t] /\ rLink'[n] = NULL
      BY <1>1, <2>1 DEF Created
    <3> QED BY <2>1, <3>1, CreatedEffect
  <2>2. CASE \A s \in Slot : ~ Created(t, s)
    BY <1>4, <2>2 DEF Continue, CreateFailed, Load, RetainSeen, RecheckSeen, Reread,
       CallRelease, CasPublish, CasPublishFails, ClearForwardLink, cmemVars
  <2> QED BY <2>1, <2>2
<1> QED BY <1>2, <1>3, <1>4 DEF Continue

\* How a thread comes to the push of a node whose retained link it follows.
LEMMA GoneControl ==
  ASSUME IInv, NEW t \in Thread, Start(t) \/ Continue(t),
         follow'[t], cpc'[t] \in {"readTop", "writeNext", "casPush"}
  PROVE  /\ claimed'[t] = claimed[t] /\ claimed[t] # <<>>
         /\ ClearLink(t) \/ (follow[t] /\ cpc[t] \in {"readTop", "writeNext", "casPush"})
<1>1. /\ cpc \in [Thread -> Cpc] /\ follow \in [Thread -> BOOLEAN]
      /\ claimed \in [Thread -> Seq(Node)]
  BY DEF IInv, TypeOK
<1>2. /\ cpc[t] \notin Pushes \cup {"decrement", "readLink"}
           => claimed[t] = <<>> /\ ~ follow[t]
      /\ cpc[t] \in Pushes \cup {"readLink"} => claimed[t] # <<>>
      /\ pc[t] \in {"retain", "recheck", "publish", "unlink", "discard"} => cpc[t] = "idle"
  BY DEF IInv, ControlInv
<1>3. CASE cmemStep(t) /\ UNCHANGED clientVars
  <2>1. CASE Decrement(t)
    BY <1>1, <1>2, <2>1, DecrementFacts DEF Unwind, Return, Decrement
  <2>2. CASE ~ Decrement(t)
    BY <1>1, <1>2, <1>3, <2>2 DEF cmemStep, ReadHead, RetainHead, RecheckHead, ReadNext,
       CasPop, ClearClaim, ClearNext, ReadLink, ClearLink, ReadTop, WriteNext,
       CasPush, ReleaseInAlloc, Unwind, Return, Pushes
  <2> QED BY <2>1, <2>2
<1>4. CASE Start(t)
  BY <1>1, <1>2, <1>4 DEF Start, CreateNode, CallAlloc, RetainNode, ReleaseNode, CallRelease,
     ReadAndRetain, LinkNode, CasUnlink, SetRetainedLink, AtRest, cmemVars, Pushes
<1>5. CASE Continue(t) /\ ~ (cmemStep(t) /\ UNCHANGED clientVars)
  BY <1>1, <1>2, <1>5 DEF Continue, Created, CreateFailed, Load, RetainSeen, RecheckSeen,
     Reread, CallRelease, CasPublish, CasPublishFails, ClearForwardLink, cmemVars, Pushes
<1> QED BY <1>3, <1>4, <1>5 DEF Continue

\* What the invariant says of the nodes that left the free list under a pop is kept.
LEMMA GoneStep ==
  ASSUME IInv, NEW t \in Thread, Start(t) \/ Continue(t)
  PROVE  GoneInv'
<1> SUFFICES ASSUME NEW u \in Thread, follow'[u], cpc'[u] \in {"readTop", "writeNext", "casPush"}
             PROVE  (rLink[Top(u)])' = NULL
  BY DEF GoneInv
<1>1. claimed'[u] = claimed[u] /\ claimed[u] # <<>>
  <2>1. CASE u = t
    BY <2>1, GoneControl
  <2>2. CASE u # t
    <3>1. claimed'[u] = claimed[u] /\ cpc'[u] = cpc[u]
      BY <2>2, Others
    <3> QED BY <3>1 DEF IInv, ControlInv, Pushes
  <2> QED BY <2>1, <2>2
<1>2. Top(u)' = Top(u) /\ Top(u) \in Node /\ Top(u) \in Pushing(u)
  <2>1. Top(u)' = Top(u)
    BY <1>1 DEF Top
  <2> QED BY <1>1, <2>1, StackFacts DEF IInv, TypeOK
<1>3. ~ isRetained(Top(u))
  BY <1>2 DEF IInv, PushInv
<1>4. CASE ClearLink(t)
  <2>1. CASE u = t
    BY <1>2, <1>4, <2>1 DEF ClearLink, IInv, TypeOK
  <2>2. CASE u # t
    <3>1. follow[u] /\ cpc[u] \in {"readTop", "writeNext", "casPush"}
      BY <2>2, Others
    <3>2. rLink[Top(u)] = NULL
      BY <3>1 DEF IInv, GoneInv
    <3> QED BY <1>2, <1>4, <3>2 DEF ClearLink, IInv, TypeOK
  <2> QED BY <2>1, <2>2
<1>5. CASE ~ ClearLink(t)
  <2>1. follow[u] /\ cpc[u] \in {"readTop", "writeNext", "casPush"}
    <3>1. CASE u = t
      BY <1>5, <3>1, GoneControl
    <3>2. CASE u # t
      BY <3>2, Others
    <3> QED BY <3>1, <3>2
  <2>2. rLink[Top(u)] = NULL
    BY <2>1 DEF IInv, GoneInv
  <2>3. rLink'[Top(u)] = rLink[Top(u)]
    BY <1>2, <1>3, <1>5, RetainedLinksKept
  <2> QED BY <1>2, <2>2, <2>3
<1> QED BY <1>4, <1>5

-----------------------------------------------------------------------------
(* The free list.                                                          *)

\* Most steps change neither the list nor its links.
LEMMA ListKept ==
  ASSUME IInv, NEW t \in Thread, Start(t) \/ Continue(t), ~ Pop(t), ~ Push(t)
  PROVE  /\ freeList' = freeList
         /\ \A n \in Node : InList(n)' <=> InList(n)
<1>1. freeList' = freeList
  BY HeadKept
<1>2. CASE Unaffected
  BY <1>1, <1>2, UnaffectedEffect
<1>3. CASE ClearClaim(t)
  BY <1>1, <1>3, ClearClaimEffect
<1>4. CASE Claim(t)
  BY <1>1, <1>4, ClaimEffect
<1>5. ASSUME NEW s \in Slot, Created(t, s) PROVE \A n \in Node : InList(n)' <=> InList(n)
  BY <1>5, CreatedEffect
<1>6. \A n \in Node : InList(n)' <=> InList(n)
  BY <1>2, <1>3, <1>4, <1>5, UnaffectedBy
<1> QED BY <1>1, <1>6

\* The links of the free list go on leading from free nodes to free nodes.
LEMMA ListStep ==
  ASSUME IInv, NEW t \in Thread, Start(t) \/ Continue(t)
  PROVE  HeadInv' /\ ChainInv'
<1>1. /\ ~ isMarked_m(freeList)
      /\ toPtr_m(freeList) # NULL =>
           toPtr_m(freeList) \in Node /\ InList(toPtr_m(freeList))
  BY DEF IInv, HeadInv
<1>2. \A n \in Node : InList(n) =>
        /\ ~ isMarked_m(next[n])
        /\ toPtr_m(next[n]) # NULL =>
             /\ toPtr_m(next[n]) \in Node /\ InList(toPtr_m(next[n]))
             /\ next[n] # freeList
             /\ \A m \in Node : InList(m) /\ next[m] = next[n] => m = n
  BY DEF IInv, ChainInv
<1>3. \A n \in Node : InList(n) => next'[n] = next[n]
  BY LinksKept
<1>4. CASE ~ Pop(t) /\ ~ Push(t)
  <2>1. freeList' = freeList /\ \A n \in Node : InList(n)' <=> InList(n)
    BY <1>4, ListKept
  <2>2. HeadInv'
    BY <1>1, <2>1 DEF HeadInv, toPtr_m, isMarked_m
  <2>3. ChainInv'
    BY <1>2, <1>3, <2>1 DEF ChainInv, toPtr_m, isMarked_m
  <2> QED BY <2>2, <2>3
<1>5. CASE Pop(t)
  <2> DEFINE n == cnode[t]
  <2>1. /\ n \in Node /\ InList(n) /\ freeList = toMarkable(n, FALSE)
        /\ \A m \in Node : InList(m)' <=> InList(m) /\ m # n
    BY <1>5, PopEffect
  <2>2. freeList' = next[n]
    <3>1. cpc[t] = "casPop" /\ cnext[t] = next[n]
      BY <1>5, <2>1 DEF Pop, CasPop, IInv, LoadInv
    <3> QED BY <1>5, <3>1 DEF Pop, CasPop
  <2>3. \A m \in Node : InList(m) => toPtr_m(next[m]) # n \/ isMarked_m(next[m])
    <3>1. ASSUME NEW m \in Node, InList(m), toPtr_m(next[m]) = n, ~ isMarked_m(next[m])
          PROVE  FALSE
      <4>1. next[m] = toMarkable(n, FALSE)
        BY <3>1 DEF IInv, TypeOK, Word, MarkablePointer, toMarkable, toPtr_m, isMarked_m
      <4>2. toPtr_m(next[m]) # NULL
        BY <2>1, <3>1, PoolAssumption DEF Node, NULL
      <4> QED BY <1>2, <2>1, <3>1, <4>1, <4>2
    <3> QED BY <3>1
  <2>4. HeadInv'
    BY <1>2, <2>1, <2>2, <2>3 DEF HeadInv, toPtr_m, isMarked_m
  <2>5. ASSUME NEW m \in Node, InList(m), m # n
        PROVE  /\ next'[m] = next[m] /\ ~ isMarked_m(next[m])
               /\ toPtr_m(next[m]) # NULL =>
                    /\ toPtr_m(next[m]) \in Node
                    /\ InList(toPtr_m(next[m])) /\ toPtr_m(next[m]) # n
                    /\ next[m] # freeList'
                    /\ \A o \in Node : InList(o) /\ next[o] = next[m] => o = m
    <3>1. next'[m] = next[m] /\ ~ isMarked_m(next[m])
      BY <1>2, <1>3, <2>5
    <3>2. ASSUME toPtr_m(next[m]) # NULL PROVE next[m] # freeList'
      BY <1>2, <2>1, <2>2, <2>5, <3>2
    <3>3. toPtr_m(next[m]) # n
      BY <2>3, <2>5, <3>1
    <3> QED BY <1>2, <2>5, <3>1, <3>2, <3>3
  <2>6. ChainInv'
    <3>1. ASSUME NEW m \in Node, InList(m)'
          PROVE  /\ ~ isMarked_m(next[m])'
                 /\ toPtr_m(next[m])' # NULL =>
                      /\ toPtr_m(next[m])' \in Node /\ InList(toPtr_m(next[m]))'
                      /\ next'[m] # freeList'
                      /\ \A o \in Node : InList(o)' /\ next'[o] = next'[m] => o = m
      BY <1>3, <2>1, <2>5, <3>1 DEF toPtr_m, isMarked_m
    <3> QED BY <3>1 DEF ChainInv
  <2> QED BY <2>4, <2>6
<1>6. CASE Push(t)
  <2> DEFINE n == Top(t)
  <2>1. /\ n \in Node /\ n \in Pushing(t)
        /\ freeList = next[n] /\ freeList' = toMarkable(n, FALSE)
        /\ \A m \in Node : InList(m)' <=> InList(m) \/ m = n
    BY <1>6, PushEffect
  <2>2. ~ InList(n) /\ next' = next
    BY <1>6, <2>1 DEF InList, Push, CasPush
  <2>3. HeadInv'
    BY <2>1 DEF HeadInv, toMarkable, toPtr_m, isMarked_m
  <2>4. ASSUME NEW m \in Node, InList(m) \/ m = n
        PROVE  /\ ~ isMarked_m(next[m])
               /\ toPtr_m(next[m]) # NULL =>
                    /\ toPtr_m(next[m]) \in Node
                    /\ InList(toPtr_m(next[m])) /\ toPtr_m(next[m]) # n
                    /\ next[m] # freeList'
                    /\ \A o \in Node : (InList(o) \/ o = n) /\ next[o] = next[m] => o = m
    <3>1. /\ ~ isMarked_m(next[m])
          /\ toPtr_m(next[m]) # NULL =>
               toPtr_m(next[m]) \in Node /\ InList(toPtr_m(next[m]))
      BY <1>1, <1>2, <2>1, <2>4
    <3>2. ASSUME toPtr_m(next[m]) # NULL
          PROVE  toPtr_m(next[m]) # n /\ next[m] # freeList'
      BY <2>1, <2>2, <3>1, <3>2 DEF toMarkable, toPtr_m
    <3>3. ASSUME toPtr_m(next[m]) # NULL, NEW o \in Node, InList(o) \/ o = n,
                 next[o] = next[m]
          PROVE  o = m
      BY <1>2, <2>1, <2>2, <2>4, <3>3
    <3> QED BY <3>1, <3>2, <3>3
  <2>5. ChainInv'
    <3>1. ASSUME NEW m \in Node, InList(m)'
          PROVE  /\ ~ isMarked_m(next[m])'
                 /\ toPtr_m(next[m])' # NULL =>
                      /\ toPtr_m(next[m])' \in Node /\ InList(toPtr_m(next[m]))'
                      /\ next'[m] # freeList'
                      /\ \A o \in Node : InList(o)' /\ next'[o] = next'[m] => o = m
      BY <2>1, <2>2, <2>4, <3>1 DEF toPtr_m, isMarked_m
    <3> QED BY <3>1 DEF ChainInv
  <2> QED BY <2>3, <2>5
<1> QED BY <1>4, <1>5, <1>6

\* What a pop is about to install stays the link of the head.
LEMMA LoadStep ==
  ASSUME IInv, NEW t \in Thread, Start(t) \/ Continue(t)
  PROVE  LoadInv'
<1> SUFFICES ASSUME NEW u \in Thread, cpc'[u] = "casPop", InList(cnode[u])'
             PROVE  cnext'[u] = next'[cnode'[u]]
  BY DEF LoadInv
<1>1. cpc[u] \in {"readNext", "casPop"} /\ cnode'[u] = cnode[u]
  <2>1. CASE u = t
    BY <2>1, PopControl
  <2>2. CASE u # t
    BY <2>2, Others
  <2> QED BY <2>1, <2>2
<1>2. cnode[u] \in Node /\ \A v \in Thread : cnode[u] \notin Pushing(v)
  BY <1>1 DEF IInv, ControlInv, Counted, PopInv
<1>3. InList(cnode[u])
  <2>1. InList(cnode[u])' => \E n \in Node : n = cnode[u] /\ InList(n)'
    BY <1>1, <1>2
  <2>2. CASE Pop(t)
    BY <1>1, <1>2, <2>2, PopEffect
  <2>3. CASE Push(t)
    BY <1>1, <1>2, <2>3, PushEffect
  <2>4. CASE ~ Pop(t) /\ ~ Push(t)
    BY <1>1, <1>2, <2>4, ListKept
  <2> QED BY <2>2, <2>3, <2>4
<1>4. next'[cnode[u]] = next[cnode[u]]
  BY <1>2, <1>3, LinksKept
<1>5. CASE u = t
  BY <1>1, <1>4, <1>5, PopControl DEF ReadNext, IInv, TypeOK
<1>6. CASE u # t
  <2>1. cnext'[u] = cnext[u] /\ cpc[u] = "casPop"
    BY <1>6, Others
  <2> QED BY <1>1, <1>3, <1>4, <2>1 DEF IInv, LoadInv
<1> QED BY <1>5, <1>6

-----------------------------------------------------------------------------
(* Types, and control.                                                     *)

\* A count with the claim bit set can lose it.
LEMMA UnclaimedNat ==
  ASSUME NEW old \in Nat, old % 2 # 0
  PROVE  Unclaimed(old) \in Nat
BY DEF Unclaimed

\* Types are kept.
LEMMA TypeStep ==
  ASSUME IInv, NEW t \in Thread, Start(t) \/ Continue(t)
  PROVE  TypeOK'
<1>0. /\ NULL \in Ref /\ Node \subseteq Ref
      /\ NULL_D \in Word /\ NULL_D \in MarkablePointer(Ref)
      /\ \A n \in Ref \cup {Linked} : toMarkable(n, FALSE) \in Word
      /\ \A n \in Ref : toMarkable(n, FALSE) \in MarkablePointer(Ref)
      /\ \A w \in MarkablePointer(Ref) : toPtr_m(w) \in Ref
  BY DEF Ref, Word, MarkablePointer, toMarkable, toPtr_m, NULL_D
<1>1. TypeOK
  BY DEF IInv
<1>2. /\ cpc[t] \in Counted \cup {"retainHead"} => cnode[t] \in Node
      /\ cpc[t] \in Pushes \cup {"readLink"} => claimed[t] # <<>>
      /\ pc[t] \in {"retain", "recheck", "publish", "unlink", "discard"} => seen[t] \in Node
      /\ pc[t] \in {"load", "retain", "recheck", "publish"} => at[t] \in Cell
  BY DEF IInv, ControlInv
<1>3. CASE cmemStep(t) /\ UNCHANGED clientVars
  <2>1. CASE ReadHead(t)
    <3>1. toPtr_m(freeList) \in Ref
      BY <1>0 DEF IInv, HeadInv
    <3>2. cpc' \in [Thread -> Cpc] /\ cnode' \in [Thread -> Ref]
      BY <1>1, <2>1, <3>1 DEF ReadHead, TypeOK, Cpc
    <3> QED BY <1>1, <1>3, <2>1, <3>2 DEF ReadHead, TypeOK, clientVars
  <2>2. CASE RetainHead(t)
    <3>1. cnode[t] \in Node
      BY <1>2, <2>2 DEF RetainHead
    <3>2. Retained(refCount[cnode[t]]) \in Nat
      BY <1>1, <3>1 DEF TypeOK, Retained
    <3>3. refCount' \in [Node -> Nat]
      BY <1>1, <2>2, <3>2 DEF RetainHead, TypeOK
    <3>4. cpc' \in [Thread -> Cpc]
      BY <1>1, <2>2 DEF RetainHead, TypeOK, Cpc
    <3> QED BY <1>1, <1>3, <2>2, <3>3, <3>4 DEF RetainHead, TypeOK, clientVars
  <2>3. CASE RecheckHead(t)
    <3>1. /\ cpc' \in [Thread -> Cpc] /\ inAlloc' \in [Thread -> BOOLEAN]
          /\ UNCHANGED <<cnode, follow>>
      BY <1>1, <2>3 DEF RecheckHead, ReleaseInAlloc, TypeOK, Cpc
    <3> QED BY <1>1, <1>3, <2>3, <3>1 DEF RecheckHead, TypeOK, clientVars
  <2>4. CASE ReadNext(t)
    BY <1>1, <1>2, <1>3, <2>4 DEF ReadNext, TypeOK, clientVars, Cpc, Counted
  <2>5. CASE CasPop(t)
    <3>1. /\ cpc' \in [Thread -> Cpc] /\ inAlloc' \in [Thread -> BOOLEAN]
          /\ UNCHANGED <<cnode, follow>>
      BY <1>1, <2>5 DEF CasPop, ReleaseInAlloc, TypeOK, Cpc
    <3>2. freeList' \in Word /\ cnext' \in [Thread -> Word]
      BY <1>0, <1>1, <2>5 DEF CasPop, TypeOK
    <3> QED BY <1>1, <1>3, <2>5, <3>1, <3>2 DEF CasPop, TypeOK, clientVars
  <2>6. CASE ClearClaim(t)
    <3>1. refCount' \in [Node -> Nat]
      <4>1. cnode[t] \in Node /\ ~ isRetained(cnode[t])
        BY <1>2, <2>6 DEF ClearClaim, Counted, IInv, TakeInv, Taking
      <4>2. Unclaimed(refCount[cnode[t]]) \in Nat
        BY <1>1, <4>1, UnclaimedNat DEF TypeOK, isRetained
      <4> QED BY <1>1, <2>6, <4>2 DEF ClearClaim, TypeOK
    <3>2. cpc' \in [Thread -> Cpc]
      BY <1>1, <2>6 DEF ClearClaim, TypeOK, Cpc
    <3> QED BY <1>1, <1>3, <2>6, <3>1, <3>2 DEF ClearClaim, TypeOK, clientVars
  <2>7. CASE ClearNext(t)
    <3>1. next' \in [Node -> Word] /\ cpc' \in [Thread -> Cpc]
      BY <1>0, <1>1, <2>7 DEF ClearNext, TypeOK, Cpc
    <3> QED BY <1>1, <1>3, <2>7, <3>1 DEF ClearNext, TypeOK, clientVars
  <2>8. CASE Decrement(t)
    <3>1. cnode[t] \in Node /\ refCount[cnode[t]] \in Nat /\ refCount[cnode[t]] >= 2
      BY <2>8, DecrementFacts
    <3>2. Decremented(refCount[cnode[t]]) \in Nat
      BY <3>1, DecrementParity
    <3>3. refCount' \in [Node -> Nat]
      BY <1>1, <2>8, <3>1, <3>2 DEF Decrement, TypeOK
    <3>4. /\ claimed' \in [Thread -> Seq(Node)] /\ cnode' \in [Thread -> Ref]
          /\ cpc' \in [Thread -> Cpc] /\ inAlloc' \in [Thread -> BOOLEAN]
          /\ follow' \in [Thread -> BOOLEAN]
      <4>1. CASE Claim(t)
        <5>1. Append(claimed[t], cnode[t]) \in Seq(Node)
          BY <1>1, <3>1 DEF TypeOK
        <5>2. /\ claimed' = [claimed EXCEPT ![t] = Append(@, cnode[t])]
              /\ cnode' = [cnode EXCEPT ![t] = NULL]
              /\ cpc' = [cpc EXCEPT ![t] = IF follow[t] THEN "readLink" ELSE "readTop"]
              /\ UNCHANGED <<inAlloc, follow>>
          BY <2>8, <4>1, DecrementFacts
        <5>3. claimed' \in [Thread -> Seq(Node)]
          BY <1>1, <5>1, <5>2 DEF TypeOK
        <5> QED BY <1>0, <1>1, <5>2, <5>3 DEF TypeOK, Cpc
      <4>2. CASE ~ Claim(t)
        <5>1. claimed' = claimed /\ Unwind(t, claimed[t])
          BY <2>8, <4>2, DecrementFacts
        <5> QED BY <1>0, <1>1, <5>1 DEF Unwind, Return, TypeOK, Cpc
      <4> QED BY <4>1, <4>2
    <3> QED BY <1>1, <1>3, <2>8, <3>3, <3>4 DEF Decrement, TypeOK, clientVars
  <2>9. CASE ReadLink(t)
    <3>1. Top(t) \in Node
      BY <1>1, <1>2, <2>9, StackFacts DEF ReadLink, TypeOK
    <3>2. rLink[Top(t)] \in Ref
      BY <1>1, <3>1 DEF TypeOK
    <3>3. cpc' \in [Thread -> Cpc] /\ cnode' \in [Thread -> Ref]
      BY <1>1, <2>9, <3>2 DEF ReadLink, TypeOK, Cpc
    <3> QED BY <1>1, <1>3, <2>9, <3>3 DEF ReadLink, TypeOK, clientVars
  <2>10. CASE ClearLink(t) \/ ReadTop(t) \/ WriteNext(t)
    <3>1. Top(t) \in Node
      BY <1>1, <1>2, <2>10, StackFacts DEF ClearLink, ReadTop, WriteNext, TypeOK, Pushes
    <3>2. cpc' \in [Thread -> Cpc]
      BY <1>1, <2>10 DEF ClearLink, ReadTop, WriteNext, TypeOK, Cpc
    <3>3. rLink' \in [Node -> Ref]
      BY <1>0, <1>1, <2>10, <3>1 DEF ClearLink, ReadTop, WriteNext, TypeOK
    <3>4. cnext' \in [Thread -> Word]
      BY <1>0, <1>1, <2>10, <3>1 DEF ClearLink, ReadTop, WriteNext, TypeOK
    <3>5. next' \in [Node -> Word]
      BY <1>0, <1>1, <2>10, <3>1 DEF ClearLink, ReadTop, WriteNext, TypeOK
    <3> QED BY <1>1, <1>3, <2>10, <3>2, <3>3, <3>4, <3>5
            DEF ClearLink, ReadTop, WriteNext, TypeOK, clientVars
  <2>11. CASE CasPush(t)
    <3>1. claimed[t] # <<>> /\ Top(t) \in Node /\ claimed[t] \in Seq(Node)
      BY <1>1, <1>2, <2>11, StackFacts DEF CasPush, TypeOK, Pushes
    <3>2. Popped(t) \in Seq(Node)
      BY <3>1, FrontFacts DEF Popped
    <3>3. /\ claimed' \in [Thread -> Seq(Node)] /\ freeList' \in Word
      <4>1. claimed' \in [Thread -> Seq(Node)]
        BY <1>1, <2>11, <3>2 DEF CasPush, TypeOK
      <4>2. toMarkable(Top(t), FALSE) \in Word
        BY <1>0, <3>1
      <4> QED BY <1>1, <2>11, <4>1, <4>2 DEF CasPush, TypeOK
    <3>4. /\ cnode' \in [Thread -> Ref] /\ cpc' \in [Thread -> Cpc]
          /\ inAlloc' \in [Thread -> BOOLEAN] /\ follow' \in [Thread -> BOOLEAN]
      BY <1>0, <1>1, <2>11 DEF CasPush, Unwind, Return, TypeOK, Cpc
    <3> QED BY <1>1, <1>3, <2>11, <3>3, <3>4 DEF CasPush, TypeOK, clientVars
  <2> QED BY <1>3, <2>1, <2>2, <2>3, <2>4, <2>5, <2>6, <2>7, <2>8, <2>9, <2>10, <2>11
          DEF cmemStep
<1>4. ASSUME NEW n \in Ref, CallRelease(t, n, RetainedLinks)
      PROVE  /\ cpc' \in [Thread -> Cpc] /\ cnode' \in [Thread -> Ref]
             /\ follow' \in [Thread -> BOOLEAN]
             /\ UNCHANGED <<freeList, refCount, next, rLink, cnext, claimed, inAlloc>>
  <2>1. UNCHANGED <<freeList, refCount, next, rLink, cnext, claimed, inAlloc>>
    BY <1>4 DEF CallRelease
  <2>2. CASE n = NULL
    BY <1>1, <1>4, <2>1, <2>2 DEF CallRelease, TypeOK
  <2>3. CASE n # NULL
    <3>1. /\ cpc' = [cpc EXCEPT ![t] = "decrement"]
          /\ cnode' = [cnode EXCEPT ![t] = n]
          /\ follow' = [follow EXCEPT ![t] = RetainedLinks]
      BY <1>4, <2>3 DEF CallRelease
    <3> QED BY <1>1, <2>1, <3>1, ClientAssumption DEF TypeOK, Cpc
  <2> QED BY <2>2, <2>3
<1>5. CASE Start(t)
  <2>1. CASE CreateNode(t)
    BY <1>1, <2>1 DEF CreateNode, CallAlloc, Goto, TypeOK, Cpc, Pc
  <2>2. ASSUME NEW s \in Slot, NEW d \in Slot, RetainNode(t, s, d) PROVE TypeOK'
    <3>1. local[t][s] \in Node
      BY <1>1, <2>2 DEF RetainNode, TypeOK, Ref
    <3>2. Retained(refCount[local[t][s]]) \in Nat
      BY <1>1, <3>1 DEF TypeOK, Retained
    <3>3. refCount' \in [Node -> Nat]
      BY <1>1, <2>2, <3>2 DEF RetainNode, TypeOK
    <3>4. local' \in [Thread -> [Slot -> Ref]]
      BY <1>0, <1>1, <2>2, <3>1 DEF RetainNode, TypeOK
    <3> QED BY <1>1, <2>2, <3>3, <3>4 DEF RetainNode, TypeOK
  <2>3. ASSUME NEW s \in Slot, ReleaseNode(t, s) PROVE TypeOK'
    <3>1. CallRelease(t, local[t][s], RetainedLinks) /\ local[t][s] \in Ref
      BY <1>1, <2>3 DEF ReleaseNode, TypeOK
    <3>2. local' \in [Thread -> [Slot -> Ref]]
      BY <1>0, <1>1, <2>3 DEF ReleaseNode, TypeOK
    <3> QED BY <1>1, <1>4, <2>3, <3>1, <3>2 DEF ReleaseNode, TypeOK
  <2>4. ASSUME NEW c \in Cell, ReadAndRetain(t, c) PROVE TypeOK'
    BY <1>1, <2>4 DEF ReadAndRetain, Goto, TypeOK, cmemVars, Pc
  <2>5. ASSUME NEW s \in Slot, NEW c \in Cell, LinkNode(t, s, c) PROVE TypeOK'
    <3>1. local[t][s] \in Ref
      BY <1>1 DEF TypeOK
    <3>0. toMarkable(Linked, FALSE) \in Word
      BY <1>0, Zenon
    <3>2. next' \in [Node -> Word]
      BY <1>1, <2>5, <3>0 DEF LinkNode, TypeOK
    <3>3. /\ seen' \in [Thread -> Ref] /\ at' \in [Thread -> Cell \cup {NoCell}]
          /\ pc' \in [Thread -> Pc]
      BY <1>1, <2>5, <3>1 DEF LinkNode, Goto, TypeOK, Pc
    <3> QED BY <1>1, <2>5, <3>2, <3>3 DEF LinkNode, TypeOK
  <2>6. ASSUME NEW s \in Slot, NEW d \in Slot, NEW c \in Cell, CasUnlink(t, s, d, c)
        PROVE  TypeOK'
    <3>1. local[t][s] \in Ref
      BY <1>1 DEF TypeOK
    <3>2. cell' \in [Cell -> MarkablePointer(Ref)]
      BY <1>0, <1>1, <2>6 DEF CasUnlink, TypeOK
    <3>3. local' \in [Thread -> [Slot -> Ref]]
      BY <1>1, <2>6, <3>1 DEF CasUnlink, TypeOK
    <3>4. seen' \in [Thread -> Ref] /\ pc' \in [Thread -> Pc]
      BY <1>1, <2>6, <3>1 DEF CasUnlink, Goto, TypeOK, Pc
    <3> QED BY <1>1, <2>6, <3>2, <3>3, <3>4 DEF CasUnlink, TypeOK, cmemVars
  <2>7. ASSUME NEW s \in Slot, NEW d \in Slot, SetRetainedLink(t, s, d) PROVE TypeOK'
    <3>1. local[t][d] \in Ref
      BY <1>1 DEF TypeOK
    <3>2. rLink' \in [Node -> Ref]
      BY <1>1, <2>7, <3>1 DEF SetRetainedLink, TypeOK
    <3>3. local' \in [Thread -> [Slot -> Ref]]
      BY <1>0, <1>1, <2>7 DEF SetRetainedLink, TypeOK
    <3> QED BY <1>1, <2>7, <3>2, <3>3 DEF SetRetainedLink, TypeOK
  <2> QED BY <1>5, <2>1, <2>2, <2>3, <2>4, <2>5, <2>6, <2>7 DEF Start
<1>6. CASE Continue(t) /\ ~ (cmemStep(t) /\ UNCHANGED clientVars)
  <2>1. ASSUME NEW s \in Slot, Created(t, s) PROVE TypeOK'
    <3>1. cnode[t] \in Ref
      BY <1>1 DEF TypeOK
    <3>2. local' \in [Thread -> [Slot -> Ref]]
      BY <1>1, <2>1, <3>1 DEF Created, TypeOK
    <3>3. rLink' \in [Node -> Ref] /\ next' \in [Node -> Word]
      BY <1>0, <1>1, <2>1 DEF Created, TypeOK
    <3>4. /\ cpc' \in [Thread -> Cpc] /\ cnode' \in [Thread -> Ref]
          /\ pc' \in [Thread -> Pc]
      BY <1>0, <1>1, <2>1 DEF Created, Goto, TypeOK, Cpc, Pc
    <3> QED BY <1>1, <2>1, <3>2, <3>3, <3>4 DEF Created, TypeOK
  <2>2. CASE CreateFailed(t)
    BY <1>1, <2>2 DEF CreateFailed, Goto, TypeOK, Cpc, Pc
  <2>3. CASE Load(t)
    <3>1. toPtr_m(cell[at[t]]) \in Ref
      <4>1. cell[at[t]] \in MarkablePointer(Ref)
        BY <1>1, <1>2, <2>3 DEF Load, TypeOK
      <4> QED BY <1>0, <4>1
    <3>2. /\ pc' \in [Thread -> Pc] /\ seen' \in [Thread -> Ref]
          /\ at' \in [Thread -> Cell \cup {NoCell}]
      BY <1>1, <2>3, <3>1 DEF Load, Goto, TypeOK, Pc
    <3> QED BY <1>1, <2>3, <3>2 DEF Load, TypeOK, cmemVars
  <2>4. CASE RetainSeen(t)
    <3>1. seen[t] \in Node
      BY <1>2, <2>4 DEF RetainSeen
    <3>2. Retained(refCount[seen[t]]) \in Nat
      BY <1>1, <3>1 DEF TypeOK, Retained
    <3>3. refCount' \in [Node -> Nat]
      BY <1>1, <2>4, <3>2 DEF RetainSeen, TypeOK
    <3>4. pc' \in [Thread -> Pc]
      BY <1>1, <2>4 DEF RetainSeen, Goto, TypeOK, Pc
    <3> QED BY <1>1, <2>4, <3>3, <3>4 DEF RetainSeen, TypeOK
  <2>5. ASSUME NEW s \in Slot, RecheckSeen(t, s) PROVE TypeOK'
    <3>1. seen[t] \in Ref
      BY <1>1 DEF TypeOK
    <3>2. local' \in [Thread -> [Slot -> Ref]]
      BY <1>1, <2>5, <3>1 DEF RecheckSeen, TypeOK
    <3>3. /\ seen' \in [Thread -> Ref] /\ at' \in [Thread -> Cell \cup {NoCell}]
          /\ pc' \in [Thread -> Pc]
      BY <1>0, <1>1, <2>5 DEF RecheckSeen, Goto, TypeOK, Pc
    <3> QED BY <1>1, <2>5, <3>2, <3>3 DEF RecheckSeen, TypeOK, cmemVars
  <2>6. CASE Reread(t)
    <3>1. CallRelease(t, seen[t], RetainedLinks) /\ seen[t] \in Ref
      BY <1>1, <2>6 DEF Reread, TypeOK
    <3>2. pc' \in [Thread -> Pc] /\ seen' \in [Thread -> Ref]
      BY <1>0, <1>1, <2>6 DEF Reread, Goto, TypeOK, Pc
    <3> QED BY <1>1, <1>4, <2>6, <3>1, <3>2 DEF Reread, TypeOK
  <2>7. ASSUME NEW s \in Slot, CasPublish(t, s) PROVE TypeOK'
    <3>1. toMarkable(seen[t], FALSE) \in MarkablePointer(Ref)
      BY <1>0, <1>1 DEF TypeOK
    <3>2. cell' \in [Cell -> MarkablePointer(Ref)]
      BY <1>1, <2>7, <3>1 DEF CasPublish, TypeOK
    <3>3. local' \in [Thread -> [Slot -> Ref]]
      BY <1>0, <1>1, <2>7 DEF CasPublish, TypeOK
    <3>4. /\ seen' \in [Thread -> Ref] /\ at' \in [Thread -> Cell \cup {NoCell}]
          /\ pc' \in [Thread -> Pc]
      BY <1>0, <1>1, <2>7 DEF CasPublish, Goto, TypeOK, Pc
    <3> QED BY <1>1, <2>7, <3>2, <3>3, <3>4 DEF CasPublish, TypeOK, cmemVars
  <2>8. CASE CasPublishFails(t)
    BY <1>1, <2>8 DEF CasPublishFails, Goto, TypeOK, cmemVars, Pc
  <2>9. CASE ClearForwardLink(t)
    <3>1. PICK w \in Word : next' = [next EXCEPT ![seen[t]] = w]
      BY <1>0, <2>9 DEF ClearForwardLink, ClearedLinks, Word, MarkablePointer, toMarkable, NULL_D
    <3>2. next' \in [Node -> Word]
      BY <1>1, <3>1 DEF TypeOK
    <3>3. seen' \in [Thread -> Ref] /\ pc' \in [Thread -> Pc]
      BY <1>0, <1>1, <2>9 DEF ClearForwardLink, Goto, TypeOK, Pc
    <3> QED BY <1>1, <2>9, <3>2, <3>3 DEF ClearForwardLink, TypeOK
  <2> QED BY <1>6, <2>1, <2>2, <2>3, <2>4, <2>5, <2>6, <2>7, <2>8, <2>9 DEF Continue
<1> QED BY <1>3, <1>5, <1>6 DEF Continue

\* A step leaves the calls of the other threads alone.
LEMMA OthersAlso ==
  ASSUME IInv, NEW t \in Thread, Start(t) \/ Continue(t), NEW u \in Thread, u # t
  PROVE  inAlloc'[u] = inAlloc[u] /\ at'[u] = at[u]
<1>1. inAlloc \in [Thread -> BOOLEAN] /\ at \in [Thread -> Cell \cup {NoCell}]
  BY DEF IInv, TypeOK
<1>2. CASE cmemStep(t) /\ UNCHANGED clientVars
  BY <1>1, <1>2 DEF cmemStep, ReadHead, RetainHead, RecheckHead, ReadNext, CasPop, ClearClaim,
     ClearNext, Decrement, ReadLink, ClearLink, ReadTop, WriteNext, CasPush,
     ReleaseInAlloc, Unwind, Return, clientVars
<1>3. CASE Start(t)
  BY <1>1, <1>3 DEF Start, CreateNode, CallAlloc, RetainNode, ReleaseNode, CallRelease,
     ReadAndRetain, LinkNode, CasUnlink, SetRetainedLink, cmemVars
<1>4. CASE Continue(t) /\ ~ (cmemStep(t) /\ UNCHANGED clientVars)
  BY <1>1, <1>4 DEF Continue, Created, CreateFailed, Load, RetainSeen, RecheckSeen, Reread,
     CallRelease, CasPublish, CasPublishFails, ClearForwardLink, cmemVars
<1> QED BY <1>2, <1>3, <1>4 DEF Continue

\* The control state inside the allocator, and in the client.
CallControl(u) ==
  /\ cpc[u] \in Counted \cup {"retainHead"} => cnode[u] \in Node
  /\ cpc[u] \notin Pushes \cup {"decrement", "readLink"}
       => claimed[u] = <<>> /\ ~ follow[u] /\ ~ inAlloc[u]
  /\ cpc[u] \in Pushes \cup {"readLink"} => claimed[u] # <<>>
  /\ cpc[u] \in {"readLink", "clearLink"} => follow[u]
  /\ inAlloc[u] => ~ follow[u]
  /\ ~ follow[u] /\ cpc[u] = "decrement" => claimed[u] = <<>>
  /\ ~ follow[u] => Len(claimed[u]) <= 1

ClientControl(u) ==
  /\ pc[u] \in {"retain", "recheck", "publish", "unlink", "discard"}
       => cpc[u] = "idle" /\ seen[u] \in Node
  /\ pc[u] \in {"publish", "unlink", "discard"} => Held(u, seen[u])
  /\ pc[u] \in {"load", "retain", "recheck", "publish"} => at[u] \in Cell

\* The state of the call of the running thread, after its step.
LEMMA CallControlStep ==
  ASSUME IInv, NEW t \in Thread, Start(t) \/ Continue(t)
  PROVE  CallControl(t)'
<1>4. /\ cpc \in [Thread -> Cpc] /\ cnode \in [Thread -> Ref]
      /\ claimed \in [Thread -> Seq(Node)] /\ follow \in [Thread -> BOOLEAN]
      /\ inAlloc \in [Thread -> BOOLEAN] /\ at \in [Thread -> Cell \cup {NoCell}]
      /\ local \in [Thread -> [Slot -> Ref]] /\ pc \in [Thread -> Pc]
      /\ seen \in [Thread -> Ref]
  BY DEF IInv, TypeOK
<1>5. CallControl(t) /\ Len(<<>>) = 0
  BY DEF IInv, ControlInv, CallControl
<1>6. CASE cmemStep(t) /\ UNCHANGED clientVars
  <2>1. CASE ReadHead(t)
    <3>1. cpc'[t] = "retainHead" => cnode'[t] \in Node
      BY <1>4, <2>1 DEF ReadHead, IInv, HeadInv
    <3>2. cpc'[t] \in {"outOfMemory", "retainHead"}
      BY <1>4, <1>5, <2>1 DEF ReadHead, CallControl
    <3> QED BY <1>4, <1>5, <2>1, <3>1, <3>2 DEF ReadHead, CallControl, Pushes, Counted
  <2>2. CASE RetainHead(t) \/ ReadNext(t) \/ ClearClaim(t) \/ ClearNext(t)
    BY <1>4, <1>5, <2>2
       DEF RetainHead, ReadNext, ClearClaim, ClearNext, CallControl, Pushes, Counted
  <2>3. CASE RecheckHead(t)
    BY <1>4, <1>5, <2>3
       DEF RecheckHead, ReleaseInAlloc, CallControl, Pushes, Counted
  <2>4. CASE CasPop(t)
    BY <1>4, <1>5, <2>4
       DEF CasPop, ReleaseInAlloc, CallControl, Pushes, Counted
  <2>5. CASE Decrement(t)
    <3>1. cpc[t] = "decrement" /\ cnode[t] \in Node
      BY <2>5, DecrementFacts DEF Decrement
    <3>2. CASE Claim(t)
      <4>1. /\ claimed' = [claimed EXCEPT ![t] = Append(@, cnode[t])]
            /\ cpc' = [cpc EXCEPT ![t] = IF follow[t] THEN "readLink" ELSE "readTop"]
            /\ UNCHANGED <<inAlloc, follow>>
        BY <2>5, <3>2, DecrementFacts
      <4>2. claimed'[t] # <<>> /\ Len(claimed'[t]) = Len(claimed[t]) + 1
        <5>1. claimed'[t] = Append(claimed[t], cnode[t]) /\ claimed[t] \in Seq(Node)
          BY <1>4, <4>1
        <5>2. Len(claimed'[t]) = Len(claimed[t]) + 1 /\ Len(claimed[t]) \in Nat
          BY <3>1, <5>1
        <5> QED BY <1>5, <5>2
      <4>3. ~ follow[t] => Len(claimed'[t]) = 1
        BY <1>5, <3>1, <4>2 DEF CallControl
      <4> QED BY <1>4, <1>5, <3>1, <4>1, <4>2, <4>3 DEF CallControl, Pushes, Counted
    <3>3. CASE ~ Claim(t)
      <4>1. claimed' = claimed /\ Unwind(t, claimed[t])
        BY <2>5, <3>3, DecrementFacts
      <4> QED BY <1>4, <1>5, <3>1, <4>1 DEF Unwind, Return, CallControl, Pushes, Counted
    <3> QED BY <3>2, <3>3
  <2>6. CASE ReadLink(t)
    <3>1. Top(t) \in Node
      BY <1>4, <1>5, <2>6, StackFacts DEF ReadLink, CallControl
    <3>2. rLink[Top(t)] # NULL => rLink[Top(t)] \in Node
      BY <3>1 DEF IInv, TypeOK, Ref
    <3> QED BY <1>4, <1>5, <2>6, <3>2 DEF ReadLink, CallControl, Pushes, Counted
  <2>7. CASE ClearLink(t) \/ ReadTop(t) \/ WriteNext(t)
    BY <1>4, <1>5, <2>7 DEF ClearLink, ReadTop, WriteNext, CallControl, Pushes, Counted
  <2>8. CASE CasPush(t)
    <3>1. claimed[t] # <<>> /\ claimed[t] \in Seq(Node) /\ cpc[t] = "casPush"
      BY <1>4, <1>5, <2>8 DEF CasPush, CallControl, Pushes
    <3>2. CASE TopUnchanged(t)
      <4>1. claimed' = [claimed EXCEPT ![t] = Popped(t)] /\ Unwind(t, Popped(t))
        BY <2>8, <3>2 DEF CasPush
      <4>2. Popped(t) \in Seq(Node) /\ Len(Popped(t)) = Len(claimed[t]) - 1
        BY <3>1, FrontFacts DEF Popped
      <4>3. ~ follow[t] => Popped(t) = <<>>
        <5>1. Len(claimed[t]) \in Nat /\ Len(claimed[t]) >= 1
          BY <3>1
        <5> QED BY <1>5, <4>2, <5>1 DEF CallControl
      <4>4. Popped(t) # <<>> => follow[t] /\ cpc'[t] = "clearLink" /\ UNCHANGED <<inAlloc, follow>>
        BY <1>4, <4>1, <4>3 DEF Unwind
      <4>5. Popped(t) = <<>> =>
              cpc'[t] \in {"readHead", "idle"} /\ ~ inAlloc'[t] /\ ~ follow'[t]
        BY <1>4, <4>1 DEF Unwind, Return
      <4>6. claimed'[t] = Popped(t)
        BY <1>4, <4>1
      <4> QED BY <1>4, <1>5, <3>1, <4>3, <4>4, <4>5, <4>6 DEF CallControl, Pushes, Counted
    <3>3. CASE ~ TopUnchanged(t)
      BY <1>4, <1>5, <2>8, <3>3 DEF CasPush, CallControl, Pushes, Counted
    <3> QED BY <3>2, <3>3
  <2> QED BY <1>6, <2>1, <2>2, <2>3, <2>4, <2>5, <2>6, <2>7, <2>8 DEF cmemStep
<1>7. CASE Start(t)
  <2>1. /\ cpc[t] = "idle" /\ claimed[t] = <<>> /\ ~ follow[t] /\ ~ inAlloc[t]
    BY <1>5, <1>7 DEF Start, CreateNode, RetainNode, ReleaseNode, ReadAndRetain, LinkNode,
       CasUnlink, SetRetainedLink, AtRest, Pushes, CallControl
  <2>2. CASE CreateNode(t)
    BY <1>4, <1>5, <2>1, <2>2 DEF CreateNode, CallAlloc, CallControl, Pushes, Counted
  <2>3. ASSUME NEW s \in Slot, ReleaseNode(t, s) PROVE CallControl(t)'
    <3>1. local[t][s] \in Node /\ local[t][s] # NULL
      BY <1>4, <2>3 DEF ReleaseNode, Ref
    <3> QED BY <1>4, <1>5, <2>1, <2>3, <3>1
            DEF ReleaseNode, CallRelease, CallControl, Pushes, Counted
  <2>4. CASE ~ CreateNode(t) /\ \A s \in Slot : ~ ReleaseNode(t, s)
    <3>1. UNCHANGED <<cpc, cnode, claimed, follow, inAlloc>>
      BY <1>7, <2>4 DEF Start, RetainNode, ReadAndRetain, LinkNode, CasUnlink,
         SetRetainedLink, cmemVars
    <3> QED BY <1>5, <3>1 DEF CallControl
  <2> QED BY <2>2, <2>3, <2>4
<1>8. CASE Continue(t) /\ ~ (cmemStep(t) /\ UNCHANGED clientVars)
  <2>1. ASSUME NEW s \in Slot, Created(t, s) PROVE CallControl(t)'
    BY <1>4, <1>5, <2>1 DEF Created, CallControl, Pushes, Counted
  <2>2. CASE CreateFailed(t)
    BY <1>4, <1>5, <2>2 DEF CreateFailed, CallControl, Pushes, Counted
  <2>3. CASE Reread(t)
    <3>1. seen[t] \in Node /\ seen[t] # NULL /\ cpc[t] = "idle"
      BY <2>3, PoolAssumption DEF Reread, Node, NULL, IInv, ControlInv
    <3> QED BY <1>4, <1>5, <2>3, <3>1 DEF Reread, CallRelease, CallControl, Pushes, Counted
  <2>4. CASE ~ CreateFailed(t) /\ ~ Reread(t) /\ \A s \in Slot : ~ Created(t, s)
    <3>1. UNCHANGED <<cpc, cnode, claimed, follow, inAlloc>>
      BY <1>8, <2>4 DEF Continue, Load, RetainSeen, RecheckSeen, CasPublish,
         CasPublishFails, ClearForwardLink, cmemVars
    <3> QED BY <1>5, <3>1 DEF CallControl
  <2> QED BY <2>1, <2>2, <2>3, <2>4
<1> QED BY <1>6, <1>7, <1>8 DEF Continue

\* The state of the client of the running thread, after its step.
LEMMA ClientControlStep ==
  ASSUME IInv, NEW t \in Thread, Start(t) \/ Continue(t)
  PROVE  ClientControl(t)'
<1>1. /\ cpc \in [Thread -> Cpc] /\ at \in [Thread -> Cell \cup {NoCell}]
      /\ local \in [Thread -> [Slot -> Ref]] /\ pc \in [Thread -> Pc]
      /\ seen \in [Thread -> Ref]
  BY DEF IInv, TypeOK
<1>2. ClientControl(t)
  BY DEF IInv, ControlInv, ClientControl
<1> USE DEF ClientControl, Held, Goto
<1>3. CASE cmemStep(t) /\ UNCHANGED clientVars
  <2>1. cpc[t] # "idle" /\ UNCHANGED <<local, pc, seen, at>>
    BY <1>3 DEF cmemStep, ReadHead, RetainHead, RecheckHead, ReadNext, CasPop, ClearClaim,
       ClearNext, Decrement, ReadLink, ClearLink, ReadTop, WriteNext, CasPush, clientVars
  <2> QED BY <1>2, <2>1
<1>4. CASE Start(t)
  <2>1. cpc[t] = "idle" /\ pc[t] = "rest"
    BY <1>4 DEF Start, CreateNode, RetainNode, ReleaseNode, ReadAndRetain, LinkNode,
       CasUnlink, SetRetainedLink, AtRest
  <2>2. CASE CreateNode(t)
    BY <1>1, <2>2 DEF CreateNode
  <2>3. ASSUME NEW s \in Slot, NEW d \in Slot,
               RetainNode(t, s, d) \/ ReleaseNode(t, s) \/ SetRetainedLink(t, s, d)
        PROVE  ClientControl(t)'
    <3>1. pc' = pc
      BY <2>3 DEF RetainNode, ReleaseNode, SetRetainedLink
    <3> QED BY <2>1, <3>1
  <2>4. ASSUME NEW c \in Cell, ReadAndRetain(t, c) PROVE ClientControl(t)'
    BY <1>1, <2>4 DEF ReadAndRetain
  <2>5. ASSUME NEW s \in Slot, NEW c \in Cell, LinkNode(t, s, c) PROVE ClientControl(t)'
    <3>1. local[t][s] \in Node
      BY <1>1, <2>5 DEF LinkNode, Ref
    <3>2. /\ pc'[t] = "publish" /\ cpc'[t] = "idle" /\ at'[t] = c
          /\ seen'[t] = local[t][s] /\ local'[t][s] = local[t][s]
      BY <1>1, <2>1, <2>5 DEF LinkNode
    <3> QED BY <3>1, <3>2
  <2>6. ASSUME NEW s \in Slot, NEW d \in Slot, NEW c \in Cell, CasUnlink(t, s, d, c)
        PROVE  ClientControl(t)'
    <3>1. local[t][s] \in Node
      BY <1>1, <2>6 DEF CasUnlink, Ref
    <3>2. /\ pc'[t] = "unlink" /\ cpc'[t] = "idle"
          /\ seen'[t] = local[t][s] /\ local'[t][d] = local[t][s]
      BY <1>1, <2>1, <2>6 DEF CasUnlink, cmemVars
    <3> QED BY <3>1, <3>2
  <2> QED BY <1>4, <2>2, <2>3, <2>4, <2>5, <2>6 DEF Start
<1>5. CASE Continue(t) /\ ~ (cmemStep(t) /\ UNCHANGED clientVars)
  <2>1. ASSUME NEW s \in Slot, Created(t, s) \/ RecheckSeen(t, s) \/ CasPublish(t, s)
        PROVE  ClientControl(t)'
    <3>1. pc'[t] = "rest"
      BY <1>1, <2>1 DEF Created, RecheckSeen, CasPublish
    <3> QED BY <3>1
  <2>2. CASE CreateFailed(t) \/ ClearForwardLink(t)
    <3>1. pc'[t] = "rest"
      BY <1>1, <2>2 DEF CreateFailed, ClearForwardLink
    <3> QED BY <3>1
  <2>3. CASE Load(t)
    <3>1. ~ isMarked_m(cell[at[t]]) => toPtr_m(cell[at[t]]) \in Node
      BY <1>2, <2>3 DEF Load, IInv, CellInv, NULL_D, toMarkable, isMarked_m
    <3>2. /\ cpc'[t] = "idle"
          /\ \/ pc'[t] = "rest"
             \/ pc'[t] = "retain" /\ seen'[t] \in Node /\ at'[t] = at[t]
      BY <1>1, <2>3, <3>1 DEF Load, cmemVars
    <3> QED BY <1>2, <2>3, <3>2 DEF Load
  <2>4. CASE RetainSeen(t)
    <3>1. pc'[t] = "recheck" /\ UNCHANGED <<cpc, seen, at>>
      BY <1>1, <2>4 DEF RetainSeen
    <3> QED BY <1>2, <2>4, <3>1 DEF RetainSeen
  <2>5. CASE Reread(t)
    <3>1. pc'[t] = "load" /\ UNCHANGED at
      BY <1>1, <2>5 DEF Reread
    <3> QED BY <1>2, <2>5, <3>1 DEF Reread
  <2>6. CASE CasPublishFails(t)
    <3>1. pc'[t] = "discard" /\ UNCHANGED <<cpc, seen, local>>
      BY <1>1, <2>6 DEF CasPublishFails, cmemVars
    <3> QED BY <1>2, <2>6, <3>1 DEF CasPublishFails
  <2> QED BY <1>5, <2>1, <2>2, <2>3, <2>4, <2>5, <2>6 DEF Continue
<1> QED BY <1>3, <1>4, <1>5 DEF Continue

\* Both, for all threads.
LEMMA ControlStep ==
  ASSUME IInv, NEW t \in Thread, Start(t) \/ Continue(t)
  PROVE  ControlInv'
<1>1. ASSUME NEW u \in Thread PROVE CallControl(u)' /\ ClientControl(u)'
  <2>1. CASE u = t
    BY <2>1, CallControlStep, ClientControlStep
  <2>2. CASE u # t
    <3>1. /\ cpc'[u] = cpc[u] /\ cnode'[u] = cnode[u] /\ claimed'[u] = claimed[u]
          /\ follow'[u] = follow[u] /\ inAlloc'[u] = inAlloc[u] /\ at'[u] = at[u]
          /\ local'[u] = local[u] /\ pc'[u] = pc[u] /\ seen'[u] = seen[u]
      BY <2>2, Others, OthersAlso
    <3>2. CallControl(u) /\ ClientControl(u)
      BY DEF IInv, ControlInv, CallControl, ClientControl
    <3> QED BY <3>1, <3>2 DEF CallControl, ClientControl, Held
  <2> QED BY <2>1, <2>2
<1> QED BY <1>1 DEF ControlInv, CallControl, ClientControl

\* The words in the cells.
LEMMA CellStep ==
  ASSUME IInv, NEW t \in Thread, Start(t) \/ Continue(t)
  PROVE  CellInv'
<1>1. /\ \A c \in Cell : cell[c] = NULL_D \/ (toPtr_m(cell[c]) \in Node /\ ~ isMarked_m(cell[c]))
      /\ cell \in [Cell -> MarkablePointer(Ref)]
  BY DEF IInv, TypeOK, CellInv
<1>2. ASSUME NEW c \in Cell, NEW w, cell' = [cell EXCEPT ![c] = w],
             w = NULL_D \/ (toPtr_m(w) \in Node /\ ~ isMarked_m(w))
      PROVE  CellInv'
  BY <1>1, <1>2 DEF CellInv, toPtr_m, isMarked_m
<1>3. ASSUME NEW s \in Slot, CasPublish(t, s) PROVE CellInv'
  <2>1. seen[t] \in Node /\ at[t] \in Cell
    BY <1>3 DEF CasPublish, IInv, ControlInv
  <2> DEFINE w == toMarkable(seen[t], FALSE)
  <2>2. toPtr_m(w) \in Node /\ ~ isMarked_m(w)
    BY <2>1 DEF toMarkable, toPtr_m, isMarked_m
  <2>3. cell' = [cell EXCEPT ![at[t]] = w]
    BY <1>3 DEF CasPublish
  <2> HIDE DEF w
  <2> QED BY <1>2, <2>1, <2>2, <2>3
<1>4. ASSUME NEW s \in Slot, NEW d \in Slot, NEW c \in Cell, CasUnlink(t, s, d, c)
      PROVE  CellInv'
  BY <1>2, <1>4 DEF CasUnlink
<1>5. CASE /\ \A s \in Slot : ~ CasPublish(t, s)
           /\ \A s, d \in Slot, c \in Cell : ~ CasUnlink(t, s, d, c)
  <2>1. cell' = cell
    <3>1. CASE cmemStep(t) /\ UNCHANGED clientVars
      BY <3>1 DEF clientVars
    <3>2. CASE Start(t)
      BY <1>5, <3>2 DEF Start, CreateNode, CallAlloc, RetainNode, ReleaseNode,
         ReadAndRetain, LinkNode, SetRetainedLink
    <3>3. CASE Continue(t) /\ ~ (cmemStep(t) /\ UNCHANGED clientVars)
      BY <1>5, <3>3 DEF Continue, Created, CreateFailed, Load, RetainSeen, RecheckSeen,
         Reread, CasPublishFails, ClearForwardLink
    <3> QED BY <3>1, <3>2, <3>3 DEF Continue
  <2> QED BY <1>1, <2>1 DEF CellInv, toPtr_m, isMarked_m
<1> QED BY <1>3, <1>4, <1>5

-----------------------------------------------------------------------------
(* References, and who loses and gains them.                               *)

\* The claimed nodes of a thread in the middle of a release stay where they are,
\* but for claims and pushes.
LEMMA StackKept ==
  ASSUME IInv, NEW t \in Thread, Start(t) \/ Continue(t), claimed[t] # <<>>,
         ~ Push(t), ~ Claim(t)
  PROVE  claimed'[t] = claimed[t] /\ follow'[t] = follow[t] /\ cpc'[t] # "readLink"
<1>1. /\ cpc \in [Thread -> Cpc] /\ follow \in [Thread -> BOOLEAN]
      /\ claimed \in [Thread -> Seq(Node)]
  BY DEF IInv, TypeOK
<1>2. /\ cpc[t] \in Pushes \cup {"decrement", "readLink"}
      /\ pc[t] \in {"retain", "recheck", "publish", "unlink", "discard"} => cpc[t] = "idle"
  BY DEF IInv, ControlInv
<1>3. CASE cmemStep(t) /\ UNCHANGED clientVars
  <2>1. CASE Decrement(t)
    <3>1. claimed' = claimed /\ Unwind(t, claimed[t])
      BY <2>1, DecrementFacts
    <3> QED BY <1>1, <3>1 DEF Unwind
  <2>2. CASE ~ Decrement(t)
    BY <1>1, <1>2, <1>3, <2>2 DEF cmemStep, ReadHead, RetainHead, RecheckHead, ReadNext,
       CasPop, ClearClaim, ClearNext, ReadLink, ClearLink, ReadTop, WriteNext,
       CasPush, Push, Pushes
  <2> QED BY <2>1, <2>2
<1>4. CASE Start(t)
  BY <1>2, <1>4 DEF Start, CreateNode, RetainNode, ReleaseNode, ReadAndRetain, LinkNode,
     CasUnlink, SetRetainedLink, AtRest, Pushes
<1>5. CASE Continue(t) /\ ~ (cmemStep(t) /\ UNCHANGED clientVars)
  BY <1>1, <1>2, <1>5 DEF Continue, Created, CreateFailed, Load, RetainSeen, RecheckSeen,
     Reread, CasPublish, CasPublishFails, ClearForwardLink, cmemVars, Pushes
<1> QED BY <1>3, <1>4, <1>5 DEF Continue

\* A retained link whose release has begun stays gone, until it is cleared.
LEMMA GoneKept ==
  ASSUME IInv, NEW t \in Thread, Start(t) \/ Continue(t), NEW m \in Node,
         LinkGone(m), rLink'[m] # NULL, rLink'[m] = rLink[m]
  PROVE  LinkGone(m)'
<1>1. PICK u \in Thread :
        follow[u] /\ m \in Pushing(u) /\ ~ (m = Top(u) /\ cpc[u] = "readLink")
  BY DEF LinkGone
<1>2. CASE u # t
  <2>1. cpc'[u] = cpc[u] /\ claimed'[u] = claimed[u] /\ follow'[u] = follow[u]
    BY <1>2, Others
  <2> QED BY <1>1, <2>1 DEF LinkGone, Pushing, Top
<1>3. CASE u = t
  <2>1. claimed[t] # <<>> /\ claimed \in [Thread -> Seq(Node)]
    BY <1>1, <1>3 DEF Pushing, IInv, TypeOK
  <2>2. CASE Push(t)
    <3>1. Pushing(t)' = Pushing(t) \ {Top(t)} /\ cpc[t] = "casPush"
      BY <2>2, PushEffect DEF Push, CasPush
    <3>2. rLink[Top(t)] = NULL
      BY <1>1, <1>3, <3>1 DEF IInv, GoneInv
    <3>3. m \in Pushing(t)'
      BY <1>1, <1>3, <3>1, <3>2
    <3>4. claimed' = [claimed EXCEPT ![t] = Popped(t)] /\ Unwind(t, Popped(t))
      BY <2>2 DEF Push, CasPush
    <3>5. Popped(t) # <<>>
      BY <2>1, <3>3, <3>4 DEF Pushing
    <3>6. follow' = follow /\ cpc'[t] = "clearLink"
      BY <3>4, <3>5 DEF Unwind, IInv, TypeOK
    <3> QED BY <1>1, <1>3, <3>3, <3>6 DEF LinkGone
  <2>3. CASE Claim(t)
    <3>1. /\ Pushing(t)' = Pushing(t) \cup {cnode[t]} /\ Top(t)' = cnode[t]
          /\ cnode[t] \notin Pushing(t)
      BY <2>3, ClaimEffect
    <3>2. follow' = follow
      BY <2>3, DecrementFacts DEF Claim
    <3> QED BY <1>1, <1>3, <3>1, <3>2 DEF LinkGone
  <2>4. CASE ~ Push(t) /\ ~ Claim(t)
    <3>1. claimed'[t] = claimed[t] /\ follow'[t] = follow[t] /\ cpc'[t] # "readLink"
      BY <2>1, <2>4, StackKept
    <3> QED BY <1>1, <1>3, <3>1 DEF LinkGone, Pushing
  <2> QED BY <2>2, <2>3, <2>4
<1> QED BY <1>2, <1>3

\* A node gets a new retained link to it only from SetRetainedLink.
LEMMA LinkRefsStep ==
  ASSUME IInv, NEW t \in Thread, Start(t) \/ Continue(t), NEW n \in Node
  PROVE  \A m \in LinkRefs(n)' :
           m \in LinkRefs(n)
             \/ \E s, d \in Slot : SetRetainedLink(t, s, d) /\ m = local[t][s]
<1> SUFFICES ASSUME NEW m \in Node, rLink'[m] = n, ~ LinkGone(m)',
                    \A s, d \in Slot : ~ (SetRetainedLink(t, s, d) /\ m = local[t][s])
             PROVE  m \in LinkRefs(n)
  BY DEF LinkRefs
<1>1. n # NULL
  BY PoolAssumption DEF Node, NULL
<1>2. rLink'[m] = rLink[m]
  BY <1>1, RetainedLinksKept
<1>3. ~ LinkGone(m)
  BY <1>1, <1>2, GoneKept
<1> QED BY <1>2, <1>3 DEF LinkRefs

\* Only the references of the thread that takes the step change.
LEMMA OthersRefs ==
  ASSUME IInv, NEW t \in Thread, Start(t) \/ Continue(t), NEW n \in Node
  PROVE  /\ \A u \in Thread : u # t =>
              /\ u \in CallRefs(n)' <=> u \in CallRefs(n)
              /\ u \in SeenRefs(n)' <=> u \in SeenRefs(n)
         /\ CallRefs(n)' \subseteq Thread /\ SeenRefs(n)' \subseteq Thread
<1>1. \A u \in Thread : u # t =>
        /\ cpc'[u] = cpc[u] /\ cnode'[u] = cnode[u] /\ pc'[u] = pc[u] /\ seen'[u] = seen[u]
  BY Others
<1> QED BY <1>1 DEF CallRefs, SeenRefs

\* What writing one slot, and one cell, does to the references.
LEMMA SlotWritten ==
  ASSUME local \in [Thread -> [Slot -> Ref]], NEW t \in Thread, NEW s \in Slot, NEW v,
         local' = [local EXCEPT ![t][s] = v], NEW n \in Node
  PROVE  /\ SlotRefs(n)' \subseteq SlotRefs(n) \cup {<<t, s>>}
         /\ v # n => SlotRefs(n)' \subseteq SlotRefs(n)
         /\ v # n /\ local[t][s] = n =>
              <<t, s>> \in SlotRefs(n) /\ SlotRefs(n)' \subseteq SlotRefs(n) \ {<<t, s>>}
<1>1. ASSUME NEW p \in Thread \X Slot, p # <<t, s>>
      PROVE  local'[p[1]][p[2]] = local[p[1]][p[2]]
  <2>1. PICK u \in Thread, r \in Slot : p = <<u, r>>
    OBVIOUS
  <2> QED BY <1>1, <2>1
<1>2. local'[t][s] = v
  OBVIOUS
<1> QED BY <1>1, <1>2 DEF SlotRefs

\* The references of the cells to a node when one cell is written.
LEMMA CellWritten ==
  ASSUME cell \in [Cell -> MarkablePointer(Ref)], NEW c \in Cell, NEW w,
         cell' = [cell EXCEPT ![c] = w], NEW n \in Node
  PROVE  /\ CellRefs(n)' \subseteq CellRefs(n) \cup {c}
         /\ toPtr_m(w) # n => CellRefs(n)' \subseteq CellRefs(n)
         /\ toPtr_m(w) # n /\ toPtr_m(cell[c]) = n =>
              c \in CellRefs(n) /\ CellRefs(n)' \subseteq CellRefs(n) \ {c}
BY DEF CellRefs, toPtr_m

\* Steps that write no slot, and no cell.
LEMMA SlotsKept ==
  ASSUME NEW n \in Node, local' = local
  PROVE  SlotRefs(n)' = SlotRefs(n)
BY DEF SlotRefs

\* The references of the cells when none is written.
LEMMA CellsKept ==
  ASSUME NEW n \in Node, cell' = cell
  PROVE  CellRefs(n)' = CellRefs(n)
BY DEF CellRefs, toPtr_m

\* Nodes become referred to by being handed out by the allocator only.
LEMMA ReferredStep ==
  ASSUME IInv, NEW t \in Thread, Start(t) \/ Continue(t), NEW n \in Node, Referred(n)'
  PROVE  Referred(n) \/ \E s \in Slot : Created(t, s) /\ n = cnode[t]
<1>1. /\ local \in [Thread -> [Slot -> Ref]] /\ cell \in [Cell -> MarkablePointer(Ref)]
      /\ n # NULL
  BY PoolAssumption DEF IInv, TypeOK, Node, NULL
<1>2. ASSUME NEW s \in Slot, local[t][s] = n PROVE Referred(n)
  <2>1. <<t, s>> \in SlotRefs(n)
    BY <1>2 DEF SlotRefs
  <2> QED BY <2>1 DEF Referred
<1>3. CASE LinkRefs(n)' # {} /\ LinkRefs(n) = {}
  <2>1. PICK s \in Slot, d \in Slot : SetRetainedLink(t, s, d) /\ local[t][s] \in LinkRefs(n)'
    BY <1>3, LinkRefsStep
  <2>2. \E m \in Node : m = local[t][s] /\ rLink'[m] = n
    BY <2>1 DEF LinkRefs
  <2>3. local[t][d] = n
    BY <2>1, <2>2 DEF SetRetainedLink, IInv, TypeOK
  <2> QED BY <1>2, <2>3
<1>4. CASE SlotRefs(n)' # {} /\ SlotRefs(n) = {}
  <2>1. ASSUME NEW s \in Slot, NEW v, local' = [local EXCEPT ![t][s] = v] PROVE v = n
    BY <1>1, <1>4, <2>1, SlotWritten
  <2>2. local' # local
    BY <1>4, SlotsKept
  <2>3. CASE Start(t)
    <3>1. ASSUME NEW s \in Slot, NEW d \in Slot, NEW c \in Cell,
                 CasUnlink(t, s, d, c)
          PROVE  Referred(n)
      <4>1. local[t][s] = n
        BY <2>1, <3>1 DEF CasUnlink
      <4> QED BY <1>2, <4>1
    <3>2. ASSUME NEW s \in Slot, NEW d \in Slot, RetainNode(t, s, d)
          PROVE  Referred(n)
      <4>1. local[t][s] = n
        BY <2>1, <3>2 DEF RetainNode
      <4> QED BY <1>2, <4>1
    <3>3. ASSUME NEW s \in Slot, NEW d \in Slot, ReleaseNode(t, s) \/ SetRetainedLink(t, d, s)
          PROVE  FALSE
      BY <1>1, <2>1, <3>3 DEF ReleaseNode, SetRetainedLink
    <3> QED BY <2>2, <2>3, <3>1, <3>2, <3>3 DEF Start, CreateNode, ReadAndRetain, LinkNode
  <2>4. CASE Continue(t)
    <3>1. ASSUME NEW s \in Slot, Created(t, s) PROVE n = cnode[t]
      BY <2>1, <3>1 DEF Created
    <3>2. ASSUME NEW s \in Slot, RecheckSeen(t, s) PROVE Referred(n)
      <4>1. seen[t] = n /\ at[t] \in Cell
        BY <2>1, <3>2 DEF RecheckSeen, IInv, ControlInv
      <4>2. at[t] \in CellRefs(n)
        BY <3>2, <4>1 DEF RecheckSeen, StillLinked, CellRefs, toMarkable, toPtr_m
      <4> QED BY <4>2 DEF Referred
    <3>3. ASSUME NEW s \in Slot, CasPublish(t, s) PROVE FALSE
      BY <1>1, <2>1, <3>3 DEF CasPublish
    <3> QED BY <2>2, <2>4, <3>1, <3>2, <3>3 DEF Continue, CreateFailed, Load, RetainSeen,
            Reread, CasPublishFails, ClearForwardLink, clientVars
  <2> QED BY <2>3, <2>4
<1>5. CASE CellRefs(n)' # {} /\ CellRefs(n) = {}
  <2>1. ASSUME NEW c \in Cell, NEW w, cell' = [cell EXCEPT ![c] = w] PROVE toPtr_m(w) = n
    BY <1>1, <1>5, <2>1, CellWritten
  <2>2. cell' # cell
    BY <1>5, CellsKept
  <2>3. ASSUME NEW s \in Slot, CasPublish(t, s) PROVE Referred(n)
    <3>1. at[t] \in Cell /\ toPtr_m(toMarkable(seen[t], FALSE)) = n
      BY <2>1, <2>3 DEF CasPublish, IInv, ControlInv
    <3>2. local[t][s] = n
      BY <2>3, <3>1 DEF CasPublish, toMarkable, toPtr_m
    <3> QED BY <1>2, <3>2
  <2>4. ASSUME NEW s \in Slot, NEW d \in Slot, NEW c \in Cell, CasUnlink(t, s, d, c)
        PROVE  FALSE
    <3>1. toPtr_m(NULL_D) = n
      BY <2>1, <2>4 DEF CasUnlink
    <3> QED BY <1>1, <3>1 DEF toPtr_m, NULL_D, toMarkable
  <2>5. CASE Start(t)
    BY <2>2, <2>4, <2>5 DEF Start, CreateNode, RetainNode, ReleaseNode, ReadAndRetain,
       LinkNode, SetRetainedLink
  <2>6. CASE Continue(t)
    BY <2>2, <2>3, <2>6 DEF Continue, Created, CreateFailed, Load, RetainSeen, RecheckSeen,
       Reread, CasPublishFails, ClearForwardLink, clientVars
  <2> QED BY <2>5, <2>6
<1> QED BY <1>3, <1>4, <1>5 DEF Referred

\* What is referred to is retained, after a step.
LEMMA HeldStep ==
  ASSUME IInv, NEW t \in Thread, Start(t) \/ Continue(t)
  PROVE  HeldInv'
<1> SUFFICES ASSUME NEW n \in Node, Referred(n)'
             PROVE  isRetained(n)' /\ \A u \in Thread : ~ Taking(u, n)'
  BY DEF HeldInv
<1>1. CASE Referred(n)
  <2>1. isRetained(n) /\ \A u \in Thread : ~ Taking(u, n)
    BY <1>1 DEF IInv, HeldInv
  <2>2. CASE Unaffected
    BY <2>1, <2>2 DEF Unaffected
  <2>3. CASE Pop(t)
    <3>1. n # cnode[t]
      BY <2>1, <2>3, PopEffect DEF InList
    <3> QED BY <2>1, <2>3, <3>1, PopEffect
  <2>4. CASE ClearClaim(t)
    BY <2>1, <2>4, ClearClaimEffect
  <2>5. ASSUME NEW s \in Slot, Created(t, s)
        PROVE  isRetained(n)' /\ \A u \in Thread : ~ Taking(u, n)'
    BY <2>1, <2>5, CreatedEffect
  <2>6. CASE Claim(t)
    <3>1. n # cnode[t]
      <4>1. cnode[t] \in Node /\ t \in CallRefs(cnode[t]) /\ refCount[cnode[t]] = 2
        BY <2>6, ClaimEffect DEF Claim
      <4> QED BY <1>1, <4>1, CallCounted
    <3> QED BY <2>1, <2>6, <3>1, ClaimEffect
  <2>7. CASE Push(t)
    BY <2>1, <2>7, PushEffect
  <2> QED BY <2>2, <2>3, <2>4, <2>5, <2>6, <2>7, UnaffectedBy
<1>2. ASSUME NEW s \in Slot, Created(t, s), n = cnode[t]
      PROVE  isRetained(n)' /\ \A u \in Thread : ~ Taking(u, n)'
  <2>1. Taking(t, n) /\ isRetained(n)'
    BY <1>2, CreatedEffect
  <2>2. \A u \in Thread : Taking(u, n) => u = t
    BY <2>1 DEF IInv, TakeInv
  <2> QED BY <1>2, <2>1, <2>2, CreatedEffect
<1> QED BY <1>1, <1>2, ReferredStep

-----------------------------------------------------------------------------
(* The references, counted.                                                *)

\* R has k elements more than S at most.
Changes(S, R, k) ==
  \/ k = 0 /\ R \subseteq S
  \/ k = 1 /\ \E x : R \subseteq S \cup {x}
  \/ k = -1 /\ \E x \in S : R \subseteq S \ {x}

\* The size of a set that changes by one element at most.
LEMMA Changed ==
  ASSUME NEW S, NEW R, NEW k \in {-1, 0, 1}, IsFiniteSet(S), Changes(S, R, k)
  PROVE  /\ Cardinality(R) \in Nat /\ Cardinality(S) \in Nat
         /\ Cardinality(R) <= Cardinality(S) + k
<1>1. Cardinality(S) \in Nat
  BY FS_CardinalityType
<1>2. CASE k = 0
  <2>1. R \subseteq S
    BY <1>2 DEF Changes
  <2>2. IsFiniteSet(R) /\ Cardinality(R) <= Cardinality(S)
    BY <2>1, FS_Subset
  <2>3. Cardinality(R) \in Nat
    BY <2>2, FS_CardinalityType
  <2> QED BY <1>1, <1>2, <2>2, <2>3
<1>3. CASE k = 1
  <2>1. PICK x : R \subseteq S \cup {x}
    BY <1>3 DEF Changes
  <2>2. IsFiniteSet(R) /\ Cardinality(R) <= Cardinality(S) + 1
    BY <2>1, Grown
  <2>3. Cardinality(R) \in Nat
    BY <2>2, FS_CardinalityType
  <2> QED BY <1>1, <1>3, <2>2, <2>3
<1>4. CASE k = -1
  <2>1. PICK x \in S : R \subseteq S \ {x}
    BY <1>4 DEF Changes
  <2>2. IsFiniteSet(R) /\ Cardinality(R) <= Cardinality(S) - 1
    BY <2>1, Shrunk
  <2>3. Cardinality(R) \in Nat
    BY <2>2, FS_CardinalityType
  <2> QED BY <1>1, <1>4, <2>2, <2>3
<1> QED BY <1>2, <1>3, <1>4

\* The number of references to a node changes by the sum of the changes of its parts.
LEMMA Tally ==
  ASSUME NEW n \in Node,
         NEW a \in {-1, 0, 1}, NEW b \in {-1, 0, 1}, NEW c \in {-1, 0, 1},
         NEW d \in {-1, 0, 1}, NEW e \in {-1, 0, 1},
         Changes(SlotRefs(n), SlotRefs(n)', a), Changes(CellRefs(n), CellRefs(n)', b),
         Changes(CallRefs(n), CallRefs(n)', c), Changes(SeenRefs(n), SeenRefs(n)', d),
         Changes(LinkRefs(n), LinkRefs(n)', e)
  PROVE  /\ References(n)' \in Nat /\ References(n) \in Nat
         /\ References(n)' <= References(n) + (a + b + c + d + e)
<1>1. /\ Cardinality(SlotRefs(n))' \in Nat /\ Cardinality(SlotRefs(n)) \in Nat
      /\ Cardinality(SlotRefs(n))' <= Cardinality(SlotRefs(n)) + a
  BY Finiteness, Changed
<1>2. /\ Cardinality(CellRefs(n))' \in Nat /\ Cardinality(CellRefs(n)) \in Nat
      /\ Cardinality(CellRefs(n))' <= Cardinality(CellRefs(n)) + b
  BY Finiteness, Changed
<1>3. /\ Cardinality(CallRefs(n))' \in Nat /\ Cardinality(CallRefs(n)) \in Nat
      /\ Cardinality(CallRefs(n))' <= Cardinality(CallRefs(n)) + c
  BY Finiteness, Changed
<1>4. /\ Cardinality(SeenRefs(n))' \in Nat /\ Cardinality(SeenRefs(n)) \in Nat
      /\ Cardinality(SeenRefs(n))' <= Cardinality(SeenRefs(n)) + d
  BY Finiteness, Changed
<1>5. /\ Cardinality(LinkRefs(n))' \in Nat /\ Cardinality(LinkRefs(n)) \in Nat
      /\ Cardinality(LinkRefs(n))' <= Cardinality(LinkRefs(n)) + e
  BY Finiteness, Changed
<1> QED BY <1>1, <1>2, <1>3, <1>4, <1>5 DEF References

\* The call of the stepping thread, and its second look, by membership.
LEMMA CallWritten ==
  ASSUME IInv, NEW t \in Thread, Start(t) \/ Continue(t), NEW n \in Node
  PROVE  /\ Changes(CallRefs(n), CallRefs(n)', 1)
         /\ t \notin CallRefs(n)' => Changes(CallRefs(n), CallRefs(n)', 0)
         /\ t \in CallRefs(n) => Changes(CallRefs(n), CallRefs(n)', 0)
         /\ t \in CallRefs(n) /\ t \notin CallRefs(n)'
              => Changes(CallRefs(n), CallRefs(n)', -1)
<1>1. /\ \A u \in Thread : u # t => (u \in CallRefs(n)' <=> u \in CallRefs(n))
      /\ CallRefs(n)' \subseteq Thread
  BY OthersRefs
<1>2. CallRefs(n)' \subseteq CallRefs(n) \cup {t}
  BY <1>1
<1>3. t \notin CallRefs(n)' => CallRefs(n)' \subseteq CallRefs(n) \ {t}
  BY <1>2, <1>1
<1> QED BY <1>2, <1>3 DEF Changes

\* The part of the running thread in the references that were read and retained.
LEMMA SeenWritten ==
  ASSUME IInv, NEW t \in Thread, Start(t) \/ Continue(t), NEW n \in Node
  PROVE  /\ Changes(SeenRefs(n), SeenRefs(n)', 1)
         /\ t \notin SeenRefs(n)' => Changes(SeenRefs(n), SeenRefs(n)', 0)
         /\ t \in SeenRefs(n) => Changes(SeenRefs(n), SeenRefs(n)', 0)
         /\ t \in SeenRefs(n) /\ t \notin SeenRefs(n)'
              => Changes(SeenRefs(n), SeenRefs(n)', -1)
<1>1. /\ \A u \in Thread : u # t => (u \in SeenRefs(n)' <=> u \in SeenRefs(n))
      /\ SeenRefs(n)' \subseteq Thread
  BY OthersRefs
<1>2. SeenRefs(n)' \subseteq SeenRefs(n) \cup {t}
  BY <1>1
<1>3. t \notin SeenRefs(n)' => SeenRefs(n)' \subseteq SeenRefs(n) \ {t}
  BY <1>2, <1>1
<1> QED BY <1>2, <1>3 DEF Changes

\* A count that changes with the references covers them after the step.
LEMMA Balanced ==
  ASSUME IInv, NEW n \in Node,
         NEW a \in {-1, 0, 1}, NEW b \in {-1, 0, 1}, NEW c \in {-1, 0, 1},
         NEW d \in {-1, 0, 1}, NEW e \in {-1, 0, 1},
         Changes(SlotRefs(n), SlotRefs(n)', a), Changes(CellRefs(n), CellRefs(n)', b),
         Changes(CallRefs(n), CallRefs(n)', c), Changes(SeenRefs(n), SeenRefs(n)', d),
         Changes(LinkRefs(n), LinkRefs(n)', e),
         refCount'[n] \in Nat, refCount'[n] >= refCount[n] + 2 * (a + b + c + d + e)
  PROVE  refCount'[n] >= 2 * References(n)'
<1>1. /\ References(n)' \in Nat /\ References(n) \in Nat
      /\ References(n)' <= References(n) + (a + b + c + d + e)
  BY Tally
<1>2. refCount[n] \in Nat /\ refCount[n] >= 2 * References(n)
  BY DEF IInv, TypeOK, CountsSuffice
<1> DEFINE k == a + b + c + d + e
<1>3. k \in Int /\ References(n)' <= References(n) + k /\ refCount'[n] >= refCount[n] + 2 * k
  BY <1>1
<1> HIDE DEF k
<1> QED BY <1>1, <1>2, <1>3

\* Only linking a node adds to the retained links.
LEMMA LinksWritten ==
  ASSUME IInv, NEW t \in Thread, Start(t) \/ Continue(t), NEW n \in Node,
         \A s, d \in Slot : ~ SetRetainedLink(t, s, d)
  PROVE  Changes(LinkRefs(n), LinkRefs(n)', 0)
BY LinkRefsStep DEF Changes

\* Parts of the references that a step leaves alone.
LEMMA Unchanged ==
  ASSUME NEW n \in Node
  PROVE  /\ local' = local => Changes(SlotRefs(n), SlotRefs(n)', 0)
         /\ cell' = cell => Changes(CellRefs(n), CellRefs(n)', 0)
         /\ pc' = pc /\ seen' = seen => Changes(SeenRefs(n), SeenRefs(n)', 0)
         /\ cpc' = cpc /\ cnode' = cnode => Changes(CallRefs(n), CallRefs(n)', 0)
BY SlotsKept, CellsKept DEF Changes, SeenRefs, CallRefs

\* The steps inside the allocator.
LEMMA CallCountStep ==
  ASSUME IInv, NEW t \in Thread, cmemStep(t), UNCHANGED clientVars, NEW n \in Node,
         refCount'[n] \in Nat
  PROVE  refCount'[n] >= 2 * References(n)'
<1>1. /\ refCount \in [Node -> Nat] /\ cpc \in [Thread -> Cpc] /\ cnode \in [Thread -> Ref]
      /\ claimed \in [Thread -> Seq(Node)]
  BY DEF IInv, TypeOK
<1>2. Start(t) \/ Continue(t)
  BY DEF Continue
<1>3. \A s, d \in Slot : ~ SetRetainedLink(t, s, d)
  BY DEF SetRetainedLink, AtRest, cmemStep, ReadHead, RetainHead, RecheckHead, ReadNext,
     CasPop, ClearClaim, ClearNext, Decrement, ReadLink, ClearLink, ReadTop, WriteNext, CasPush
<1>4. /\ Changes(SlotRefs(n), SlotRefs(n)', 0) /\ Changes(CellRefs(n), CellRefs(n)', 0)
      /\ Changes(SeenRefs(n), SeenRefs(n)', 0) /\ Changes(LinkRefs(n), LinkRefs(n)', 0)
  BY <1>2, <1>3, LinksWritten, Unchanged DEF clientVars
<1>5. ASSUME NEW c \in {-1, 0, 1}, Changes(CallRefs(n), CallRefs(n)', c),
             refCount'[n] >= refCount[n] + 2 * c
      PROVE  refCount'[n] >= 2 * References(n)'
  <2>1. refCount'[n] >= refCount[n] + 2 * (0 + 0 + c + 0 + 0)
    BY <1>1, <1>5
  <2> QED BY <1>4, <1>5, <2>1, Balanced
<1>6. CASE RetainHead(t)
  <2>1. cnode[t] \in Node
    BY <1>6 DEF RetainHead, IInv, ControlInv
  <2>2. CASE n = cnode[t]
    <3>1. refCount'[n] >= refCount[n] + 2 * 1
      BY <1>1, <1>6, <2>2 DEF RetainHead, Retained
    <3> QED BY <1>2, <1>5, <3>1, CallWritten
  <2>3. CASE n # cnode[t]
    <3>1. refCount'[n] >= refCount[n] + 2 * 0
      BY <1>1, <1>6, <2>3 DEF RetainHead
    <3>2. t \notin CallRefs(n)'
      BY <1>6, <2>3 DEF RetainHead, CallRefs
    <3> QED BY <1>2, <1>5, <3>1, <3>2, CallWritten
  <2> QED BY <2>2, <2>3
<1>7. CASE Decrement(t)
  <2>1. /\ cnode[t] \in Node /\ t \in CallRefs(cnode[t])
        /\ refCount[cnode[t]] \in Nat /\ refCount[cnode[t]] >= 2
    BY <1>7, DecrementFacts
  <2>2. t \notin CallRefs(n)'
    <3>1. CASE Claim(t)
      <4>1. cpc' = [cpc EXCEPT ![t] = IF follow[t] THEN "readLink" ELSE "readTop"]
        BY <1>7, <3>1, DecrementFacts
      <4>2. cpc'[t] \in {"readLink", "readTop"}
        BY <1>1, <4>1
      <4> QED BY <4>2 DEF CallRefs
    <3>2. CASE ~ Claim(t)
      <4>1. Unwind(t, claimed[t])
        BY <1>7, <3>2, DecrementFacts
      <4> QED BY <1>1, <4>1 DEF Unwind, Return, CallRefs
    <3> QED BY <3>1, <3>2
  <2>3. refCount' = [refCount EXCEPT ![cnode[t]] = Decremented(refCount[cnode[t]])]
    BY <1>7 DEF Decrement
  <2>4. CASE n # cnode[t]
    <3>1. refCount'[n] >= refCount[n] + 2 * 0
      BY <1>1, <2>3, <2>4
    <3> QED BY <1>2, <1>5, <2>2, <3>1, CallWritten
  <2>5. CASE n = cnode[t]
    <3>1. Changes(CallRefs(n), CallRefs(n)', -1)
      BY <1>2, <2>1, <2>2, <2>5, CallWritten
    <3>2. refCount'[n] = Decremented(refCount[n])
      BY <1>1, <2>1, <2>3, <2>5
    <3>3. CASE refCount[n] = 2
      <4>1. /\ References(n)' \in Nat /\ References(n) \in Nat
            /\ References(n)' <= References(n) + (0 + 0 + (-1) + 0 + 0)
        BY <1>4, <3>1, Tally
      <4>2. 2 >= 2 * References(n)
        BY <3>3 DEF IInv, CountsSuffice
      <4>3. References(n)' = 0
        BY <4>1, <4>2
      <4> QED BY <3>2, <3>3, <4>3 DEF Decremented
    <3>4. CASE refCount[n] # 2
      <4>1. refCount'[n] >= refCount[n] + 2 * (-1)
        BY <2>1, <2>5, <3>2, <3>4 DEF Decremented
      <4> QED BY <1>5, <3>1, <4>1
    <3> QED BY <3>3, <3>4
  <2> QED BY <2>4, <2>5
<1>8. CASE ReadLink(t)
  <2>1. cpc[t] = "readLink" /\ claimed[t] # <<>> /\ follow[t]
    BY <1>8 DEF ReadLink, IInv, ControlInv
  <2>2. Top(t) \in Node /\ Top(t) \in Pushing(t)
    BY <1>1, <2>1, StackFacts
  <2>3. refCount'[n] >= refCount[n] + 2 * 0
    BY <1>1, <1>8 DEF ReadLink
  <2>4. CASE rLink[Top(t)] = n
    <3>1. \A u \in Thread : Top(t) \in Pushing(u) => u = t
      BY <2>2 DEF IInv, PushInv
    <3>2. ~ LinkGone(Top(t))
      BY <2>1, <3>1 DEF LinkGone
    <3>3. Top(t) \in LinkRefs(n)
      BY <2>2, <2>4, <3>2 DEF LinkRefs
    <3>4. /\ follow'[t] /\ Pushing(t)' = Pushing(t) /\ cpc'[t] # "readLink"
          /\ rLink' = rLink
      BY <1>1, <1>8, <2>1 DEF ReadLink, Pushing
    <3>5. \A m \in Node : m = Top(t) => LinkGone(m)'
      BY <2>2, <3>4 DEF LinkGone
    <3>6. Top(t) \notin LinkRefs(n)'
      BY <3>5 DEF LinkRefs
    <3>7. LinkRefs(n)' \subseteq LinkRefs(n) \ {Top(t)}
      BY <1>4, <3>6 DEF Changes
    <3>8. Changes(LinkRefs(n), LinkRefs(n)', -1)
      BY <3>3, <3>7 DEF Changes
    <3>9. Changes(CallRefs(n), CallRefs(n)', 1)
      BY <1>2, CallWritten
    <3>10. refCount'[n] >= refCount[n] + 2 * (0 + 0 + 1 + 0 + (-1))
      BY <1>1, <2>3
    <3> QED BY <1>4, <3>8, <3>9, <3>10, Balanced
  <2>5. CASE rLink[Top(t)] # n
    <3>1. t \notin CallRefs(n)'
      BY <1>1, <1>8, <2>5 DEF ReadLink, CallRefs
    <3> QED BY <1>2, <1>5, <2>3, <3>1, CallWritten
  <2> QED BY <2>4, <2>5
<1>9. CASE ~ RetainHead(t) /\ ~ Decrement(t) /\ ~ ReadLink(t)
  <2>1. t \in CallRefs(n)' => t \in CallRefs(n)
    BY <1>1, <1>9 DEF CallRefs, cmemStep, ReadHead, RecheckHead, ReadNext, CasPop,
       ClearClaim, ClearNext, ClearLink, ReadTop, WriteNext, CasPush,
       ReleaseInAlloc, Unwind, Return
  <2>2. Changes(CallRefs(n), CallRefs(n)', 0)
    BY <1>2, <2>1, CallWritten
  <2>3. CASE ClearClaim(t) /\ n = cnode[t]
    <3>1. ~ isRetained(n) /\ refCount[n] \in Nat /\ refCount[n] >= 3
          /\ refCount'[n] = refCount[n] - 1
      BY <1>1, <2>3, ClearClaimEffect DEF ClearClaim, IInv, TakeInv
    <3>2. /\ References(n)' \in Nat /\ References(n) \in Nat
          /\ References(n)' <= References(n) + (0 + 0 + 0 + 0 + 0)
      BY <1>4, <2>2, Tally
    <3>3. refCount[n] >= 2 * References(n)
      BY DEF IInv, CountsSuffice
    <3>4. refCount[n] # 2 * References(n)
      BY <3>1, <3>2 DEF isRetained
    <3> QED BY <3>1, <3>2, <3>3, <3>4
  <2>4. CASE ~ (ClearClaim(t) /\ n = cnode[t])
    <3>1. refCount'[n] = refCount[n]
      BY <1>1, <1>9, <2>4 DEF cmemStep, ReadHead, RecheckHead, ReadNext, CasPop,
         ClearClaim, ClearNext, ClearLink, ReadTop, WriteNext, CasPush
    <3>2. refCount'[n] >= refCount[n] + 2 * 0
      BY <1>1, <3>1
    <3> QED BY <1>5, <2>2, <3>2
  <2> QED BY <2>3, <2>4
<1> QED BY <1>6, <1>7, <1>8, <1>9

\* One slot, and one cell.
LEMMA SlotCounted ==
  ASSUME local \in [Thread -> [Slot -> Ref]], NEW t \in Thread, NEW s \in Slot, NEW v,
         local' = [local EXCEPT ![t][s] = v], NEW n \in Node
  PROVE  /\ Changes(SlotRefs(n), SlotRefs(n)', 1)
         /\ v # n => Changes(SlotRefs(n), SlotRefs(n)', 0)
         /\ v # n /\ local[t][s] = n => Changes(SlotRefs(n), SlotRefs(n)', -1)
<1>1. /\ SlotRefs(n)' \subseteq SlotRefs(n) \cup {<<t, s>>}
      /\ v # n => SlotRefs(n)' \subseteq SlotRefs(n)
      /\ v # n /\ local[t][s] = n =>
           <<t, s>> \in SlotRefs(n) /\ SlotRefs(n)' \subseteq SlotRefs(n) \ {<<t, s>>}
  BY SlotWritten
<1> DEFINE p == <<t, s>>
<1> HIDE DEF p
<1>2. /\ SlotRefs(n)' \subseteq SlotRefs(n) \cup {p}
      /\ v # n /\ local[t][s] = n =>
           p \in SlotRefs(n) /\ SlotRefs(n)' \subseteq SlotRefs(n) \ {p}
  BY <1>1 DEF p
<1> QED BY <1>1, <1>2 DEF Changes

\* The references of the cells to a node, counted, when one cell is written.
LEMMA CellCounted ==
  ASSUME cell \in [Cell -> MarkablePointer(Ref)], NEW c \in Cell, NEW w,
         cell' = [cell EXCEPT ![c] = w], NEW n \in Node
  PROVE  /\ Changes(CellRefs(n), CellRefs(n)', 1)
         /\ toPtr_m(w) # n => Changes(CellRefs(n), CellRefs(n)', 0)
         /\ toPtr_m(w) # n /\ toPtr_m(cell[c]) = n =>
              Changes(CellRefs(n), CellRefs(n)', -1)
<1>1. /\ CellRefs(n)' \subseteq CellRefs(n) \cup {c}
      /\ toPtr_m(w) # n => CellRefs(n)' \subseteq CellRefs(n)
      /\ toPtr_m(w) # n /\ toPtr_m(cell[c]) = n =>
           c \in CellRefs(n) /\ CellRefs(n)' \subseteq CellRefs(n) \ {c}
  BY CellWritten
<1> QED BY <1>1 DEF Changes

\* The steps outside.
LEMMA StartCountStep ==
  ASSUME IInv, NEW t \in Thread, Start(t), NEW n \in Node, refCount'[n] \in Nat
  PROVE  refCount'[n] >= 2 * References(n)'
<1>1. /\ refCount \in [Node -> Nat] /\ cpc \in [Thread -> Cpc] /\ cnode \in [Thread -> Ref]
      /\ local \in [Thread -> [Slot -> Ref]] /\ cell \in [Cell -> MarkablePointer(Ref)]
      /\ rLink \in [Node -> Ref] /\ pc \in [Thread -> Pc]
      /\ n # NULL
  BY PoolAssumption DEF IInv, TypeOK, Node, NULL
<1>2. Start(t) \/ Continue(t)
  OBVIOUS
<1>3. cpc[t] = "idle" /\ pc[t] = "rest" /\ t \notin CallRefs(n) /\ t \notin SeenRefs(n)
  BY DEF Start, CreateNode, RetainNode, ReleaseNode, ReadAndRetain, LinkNode,
     CasUnlink, SetRetainedLink, AtRest, CallRefs, SeenRefs
<1>4. Changes(SeenRefs(n), SeenRefs(n)', 0)
  <2>1. pc'[t] # "recheck"
    BY <1>1, <1>3 DEF Start, CreateNode, RetainNode, ReleaseNode, ReadAndRetain, LinkNode,
       CasUnlink, SetRetainedLink, Goto
  <2> QED BY <1>2, <2>1, SeenWritten DEF SeenRefs
<1>5. (\A s, d \in Slot : ~ SetRetainedLink(t, s, d)) => Changes(LinkRefs(n), LinkRefs(n)', 0)
  BY <1>2, LinksWritten
<1>6. (\A s \in Slot : ~ ReleaseNode(t, s)) => Changes(CallRefs(n), CallRefs(n)', 0)
  <2>1. (\A s \in Slot : ~ ReleaseNode(t, s)) => cpc'[t] \in {"idle", "readHead"}
    BY <1>1, <1>3 DEF Start, CreateNode, CallAlloc, RetainNode, ReadAndRetain, LinkNode,
       CasUnlink, SetRetainedLink, cmemVars
  <2> QED BY <1>2, <2>1, CallWritten DEF CallRefs
<1>7. ASSUME NEW s \in Slot, NEW d \in Slot, RetainNode(t, s, d)
      PROVE  refCount'[n] >= 2 * References(n)'
  <2>1. /\ local[t][s] \in Node /\ local' = [local EXCEPT ![t][d] = local[t][s]]
        /\ refCount' = [refCount EXCEPT ![local[t][s]] = Retained(@)]
        /\ cell' = cell /\ UNCHANGED <<cpc, rLink>>
    BY <1>1, <1>7 DEF RetainNode, Ref
  <2>2. /\ \A r, q \in Slot : ~ SetRetainedLink(t, r, q)
        /\ \A r \in Slot : ~ ReleaseNode(t, r)
    <3>1. refCount' # refCount
      BY <1>1, <2>1 DEF Retained
    <3> QED BY <3>1 DEF SetRetainedLink, ReleaseNode, CallRelease
  <2>3. /\ Changes(CellRefs(n), CellRefs(n)', 0) /\ Changes(CallRefs(n), CallRefs(n)', 0)
        /\ Changes(LinkRefs(n), LinkRefs(n)', 0)
    BY <1>5, <1>6, <2>1, <2>2, Unchanged
  <2>4. CASE n = local[t][s]
    <3>1. Changes(SlotRefs(n), SlotRefs(n)', 1)
      BY <1>1, <2>1, SlotCounted
    <3>2. refCount'[n] >= refCount[n] + 2 * (1 + 0 + 0 + 0 + 0)
      BY <1>1, <2>1, <2>4 DEF Retained
    <3> QED BY <1>4, <2>3, <3>1, <3>2, Balanced
  <2>5. CASE n # local[t][s]
    <3>1. Changes(SlotRefs(n), SlotRefs(n)', 0)
      BY <1>1, <2>1, <2>5, SlotCounted
    <3>2. refCount'[n] >= refCount[n] + 2 * (0 + 0 + 0 + 0 + 0)
      BY <1>1, <2>1, <2>5
    <3> QED BY <1>4, <2>3, <3>1, <3>2, Balanced
  <2> QED BY <2>4, <2>5
<1>8. ASSUME NEW s \in Slot, ReleaseNode(t, s)
      PROVE  refCount'[n] >= 2 * References(n)'
  <2>1. /\ local[t][s] # NULL /\ local' = [local EXCEPT ![t][s] = NULL]
        /\ cell' = cell /\ rLink' = rLink /\ refCount' = refCount
        /\ cpc' = [cpc EXCEPT ![t] = "decrement"]
        /\ cnode' = [cnode EXCEPT ![t] = local[t][s]]
    BY <1>8 DEF ReleaseNode, CallRelease
  <2>2. \A r, q \in Slot : ~ SetRetainedLink(t, r, q)
    <3>1. cpc' # cpc
      BY <1>1, <1>3, <2>1
    <3> QED BY <3>1 DEF SetRetainedLink
  <2>3. /\ Changes(CellRefs(n), CellRefs(n)', 0) /\ Changes(LinkRefs(n), LinkRefs(n)', 0)
        /\ refCount'[n] >= refCount[n] + 2 * (-1 + 0 + 1 + 0 + 0)
        /\ refCount'[n] >= refCount[n] + 2 * (0 + 0 + 0 + 0 + 0)
    BY <1>1, <1>5, <2>1, <2>2, Unchanged
  <2>4. CASE n = local[t][s]
    <3>1. Changes(SlotRefs(n), SlotRefs(n)', -1)
      BY <1>1, <2>1, <2>4, SlotCounted
    <3>2. Changes(CallRefs(n), CallRefs(n)', 1)
      BY <1>2, CallWritten
    <3> QED BY <1>4, <2>3, <3>1, <3>2, Balanced
  <2>5. CASE n # local[t][s]
    <3>1. Changes(SlotRefs(n), SlotRefs(n)', 0)
      BY <1>1, <2>1, SlotCounted
    <3>2. t \notin CallRefs(n)'
      BY <1>1, <2>1, <2>5 DEF CallRefs
    <3>3. Changes(CallRefs(n), CallRefs(n)', 0)
      BY <1>2, <3>2, CallWritten
    <3> QED BY <1>4, <2>3, <3>1, <3>3, Balanced
  <2> QED BY <2>4, <2>5
<1>9. ASSUME NEW s \in Slot, NEW d \in Slot, NEW c \in Cell, CasUnlink(t, s, d, c)
      PROVE  refCount'[n] >= 2 * References(n)'
  <2>1. /\ local[t][s] # NULL /\ local' = [local EXCEPT ![t][d] = local[t][s]]
        /\ toPtr_m(cell[c]) = local[t][s] /\ cell' = [cell EXCEPT ![c] = NULL_D]
        /\ toPtr_m(NULL_D) = NULL
        /\ UNCHANGED <<refCount, cpc, cnode, rLink>>
    BY <1>9 DEF CasUnlink, cmemVars, toMarkable, toPtr_m, NULL_D
  <2>2. \A r, q \in Slot : ~ SetRetainedLink(t, r, q)
    <3>1. pc' # pc
      BY <1>1, <1>3, <1>9 DEF CasUnlink, Goto
    <3> QED BY <3>1 DEF SetRetainedLink
  <2>3. /\ Changes(CallRefs(n), CallRefs(n)', 0) /\ Changes(LinkRefs(n), LinkRefs(n)', 0)
        /\ refCount'[n] >= refCount[n] + 2 * (1 + -1 + 0 + 0 + 0)
        /\ refCount'[n] >= refCount[n] + 2 * (0 + 0 + 0 + 0 + 0)
    BY <1>1, <1>5, <2>1, <2>2, Unchanged
  <2>4. CASE n = local[t][s]
    <3>1. Changes(SlotRefs(n), SlotRefs(n)', 1)
      BY <1>1, <2>1, SlotCounted
    <3>2. Changes(CellRefs(n), CellRefs(n)', -1)
      BY <1>1, <2>1, <2>4, CellCounted
    <3> QED BY <1>4, <2>3, <3>1, <3>2, Balanced
  <2>5. CASE n # local[t][s]
    <3>1. Changes(SlotRefs(n), SlotRefs(n)', 0)
      BY <1>1, <2>1, <2>5, SlotCounted
    <3>2. Changes(CellRefs(n), CellRefs(n)', 0)
      BY <1>1, <2>1, CellCounted
    <3> QED BY <1>4, <2>3, <3>1, <3>2, Balanced
  <2> QED BY <2>4, <2>5
<1>10. ASSUME NEW s \in Slot, NEW d \in Slot, SetRetainedLink(t, s, d)
       PROVE  refCount'[n] >= 2 * References(n)'
  <2>1. /\ local[t][s] \in Node /\ local[t][d] # NULL
        /\ local' = [local EXCEPT ![t][d] = NULL]
        /\ rLink' = [rLink EXCEPT ![local[t][s]] = local[t][d]]
        /\ UNCHANGED <<refCount, cpc, cnode, cell>>
    BY <1>1, <1>10 DEF SetRetainedLink, Ref
  <2>2. /\ Changes(CallRefs(n), CallRefs(n)', 0) /\ Changes(CellRefs(n), CellRefs(n)', 0)
        /\ refCount'[n] >= refCount[n] + 2 * (-1 + 0 + 0 + 0 + 1)
        /\ refCount'[n] >= refCount[n] + 2 * (0 + 0 + 0 + 0 + 0)
    BY <1>1, <2>1, Unchanged
  <2>3. \A m \in LinkRefs(n)' : m \in LinkRefs(n) \/ m = local[t][s]
    <3>1. ASSUME NEW m \in Node, m # local[t][s] PROVE rLink'[m] = rLink[m]
      BY <1>1, <2>1, <3>1
    <3>2. ASSUME NEW m \in LinkRefs(n)', m # local[t][s] PROVE m \in LinkRefs(n)
      <4>1. m \in Node /\ rLink'[m] = n /\ rLink[m] = n /\ ~ LinkGone(m)'
        BY <3>1, <3>2 DEF LinkRefs
      <4>2. ~ LinkGone(m)
        BY <1>1, <1>2, <4>1, GoneKept
      <4> QED BY <4>1, <4>2 DEF LinkRefs
    <3> QED BY <3>2
  <2>4. CASE n = local[t][d]
    <3>1. Changes(SlotRefs(n), SlotRefs(n)', -1)
      BY <1>1, <2>1, <2>4, SlotCounted
    <3>2. LinkRefs(n)' \subseteq LinkRefs(n) \cup {local[t][s]}
      BY <2>3
    <3>3. Changes(LinkRefs(n), LinkRefs(n)', 1)
      BY <3>2 DEF Changes
    <3> QED BY <1>4, <2>2, <3>1, <3>3, Balanced
  <2>5. CASE n # local[t][d]
    <3>1. Changes(SlotRefs(n), SlotRefs(n)', 0)
      BY <1>1, <2>1, SlotCounted
    <3>2. local[t][s] \notin LinkRefs(n)'
      <4>1. rLink'[local[t][s]] = local[t][d]
        BY <1>1, <2>1
      <4>2. \A m \in Node : m = local[t][s] => rLink'[m] # n
        BY <2>5, <4>1
      <4> QED BY <4>2 DEF LinkRefs
    <3>3. Changes(LinkRefs(n), LinkRefs(n)', 0)
      BY <2>3, <3>2 DEF Changes
    <3> QED BY <1>4, <2>2, <3>1, <3>3, Balanced
  <2> QED BY <2>4, <2>5
<1>11. CASE /\ \A s, d \in Slot : ~ RetainNode(t, s, d) /\ ~ SetRetainedLink(t, s, d)
            /\ \A s \in Slot : ~ ReleaseNode(t, s)
            /\ \A s, d \in Slot, c \in Cell : ~ CasUnlink(t, s, d, c)
  <2>1. UNCHANGED <<local, cell, refCount>>
    BY <1>11 DEF Start, CreateNode, CallAlloc, ReadAndRetain, LinkNode, cmemVars
  <2>2. /\ Changes(SlotRefs(n), SlotRefs(n)', 0) /\ Changes(CellRefs(n), CellRefs(n)', 0)
        /\ Changes(CallRefs(n), CallRefs(n)', 0) /\ Changes(LinkRefs(n), LinkRefs(n)', 0)
        /\ refCount'[n] >= refCount[n] + 2 * (0 + 0 + 0 + 0 + 0)
    BY <1>1, <1>5, <1>6, <1>11, <2>1, Unchanged
  <2> QED BY <1>4, <2>2, Balanced
<1> QED BY <1>7, <1>8, <1>9, <1>10, <1>11

\* The counts cover the references after the steps of the client.
LEMMA ContinueCountStep ==
  ASSUME IInv, NEW t \in Thread, Continue(t), ~ (cmemStep(t) /\ UNCHANGED clientVars),
         NEW n \in Node, refCount'[n] \in Nat
  PROVE  refCount'[n] >= 2 * References(n)'
<1>1. /\ refCount \in [Node -> Nat] /\ cpc \in [Thread -> Cpc] /\ cnode \in [Thread -> Ref]
      /\ local \in [Thread -> [Slot -> Ref]] /\ cell \in [Cell -> MarkablePointer(Ref)]
      /\ pc \in [Thread -> Pc] /\ seen \in [Thread -> Ref]
      /\ n # NULL
  BY PoolAssumption DEF IInv, TypeOK, Node, NULL
<1>2. Start(t) \/ Continue(t)
  OBVIOUS
<1>3. Changes(LinkRefs(n), LinkRefs(n)', 0)
  <2>1. \A s, d \in Slot : ~ SetRetainedLink(t, s, d)
    <3>1. pc[t] # "rest"
      BY DEF Continue, Created, CreateFailed, Load, RetainSeen, RecheckSeen, Reread,
         CasPublish, CasPublishFails, ClearForwardLink
    <3> QED BY <3>1 DEF SetRetainedLink, AtRest
  <2> QED BY <1>2, <2>1, LinksWritten
<1>4. ASSUME NEW s \in Slot, Created(t, s)
      PROVE  refCount'[n] >= 2 * References(n)'
  <2>1. /\ cpc[t] = "allocated" /\ local' = [local EXCEPT ![t][s] = cnode[t]]
        /\ cpc' = [cpc EXCEPT ![t] = "idle"]
        /\ pc[t] = "create" /\ pc' = [pc EXCEPT ![t] = "rest"]
        /\ UNCHANGED <<refCount, cell>>
    BY <1>4 DEF Created, Goto
  <2>2. /\ t \notin CallRefs(n)' /\ t \notin SeenRefs(n)'
        /\ n = cnode[t] => t \in CallRefs(n)
    BY <1>1, <2>1 DEF CallRefs, SeenRefs
  <2>3. /\ Changes(CellRefs(n), CellRefs(n)', 0) /\ Changes(SeenRefs(n), SeenRefs(n)', 0)
        /\ refCount'[n] >= refCount[n] + 2 * (1 + 0 + -1 + 0 + 0)
        /\ refCount'[n] >= refCount[n] + 2 * (0 + 0 + 0 + 0 + 0)
    BY <1>1, <1>2, <2>1, <2>2, Unchanged, SeenWritten
  <2>4. CASE n = cnode[t]
    <3>1. Changes(SlotRefs(n), SlotRefs(n)', 1)
      BY <1>1, <2>1, SlotCounted
    <3>2. Changes(CallRefs(n), CallRefs(n)', -1)
      BY <1>2, <2>2, <2>4, CallWritten
    <3> QED BY <1>3, <2>3, <3>1, <3>2, Balanced
  <2>5. CASE n # cnode[t]
    <3>1. Changes(SlotRefs(n), SlotRefs(n)', 0)
      BY <1>1, <2>1, <2>5, SlotCounted
    <3>2. Changes(CallRefs(n), CallRefs(n)', 0)
      BY <1>2, <2>2, CallWritten
    <3> QED BY <1>3, <2>3, <3>1, <3>2, Balanced
  <2> QED BY <2>4, <2>5
<1>5. CASE RetainSeen(t)
  <2>1. /\ seen[t] \in Node /\ refCount' = [refCount EXCEPT ![seen[t]] = Retained(@)]
        /\ UNCHANGED <<local, cell, cpc, cnode, seen>>
    BY <1>5 DEF RetainSeen, IInv, ControlInv
  <2>2. /\ Changes(SlotRefs(n), SlotRefs(n)', 0) /\ Changes(CellRefs(n), CellRefs(n)', 0)
        /\ Changes(CallRefs(n), CallRefs(n)', 0)
    BY <2>1, Unchanged
  <2>3. CASE n = seen[t]
    <3>1. Changes(SeenRefs(n), SeenRefs(n)', 1)
      BY <1>2, SeenWritten
    <3>2. refCount'[n] >= refCount[n] + 2 * (0 + 0 + 0 + 1 + 0)
      BY <1>1, <2>1, <2>3 DEF Retained
    <3> QED BY <1>3, <2>2, <3>1, <3>2, Balanced
  <2>4. CASE n # seen[t]
    <3>1. t \notin SeenRefs(n)'
      BY <2>1, <2>4 DEF SeenRefs
    <3>2. Changes(SeenRefs(n), SeenRefs(n)', 0)
      BY <1>2, <3>1, SeenWritten
    <3>3. refCount'[n] >= refCount[n] + 2 * (0 + 0 + 0 + 0 + 0)
      BY <1>1, <2>1, <2>4
    <3> QED BY <1>3, <2>2, <3>2, <3>3, Balanced
  <2> QED BY <2>3, <2>4
<1>6. ASSUME NEW s \in Slot, RecheckSeen(t, s)
      PROVE  refCount'[n] >= 2 * References(n)'
  <2>1. /\ pc[t] = "recheck" /\ pc' = [pc EXCEPT ![t] = "rest"]
        /\ local' = [local EXCEPT ![t][s] = seen[t]]
        /\ UNCHANGED <<refCount, cpc, cnode, cell>>
    BY <1>6 DEF RecheckSeen, Goto, cmemVars
  <2>2. t \notin SeenRefs(n)' /\ (n = seen[t] => t \in SeenRefs(n))
    BY <1>1, <2>1 DEF SeenRefs
  <2>3. /\ Changes(CellRefs(n), CellRefs(n)', 0) /\ Changes(CallRefs(n), CallRefs(n)', 0)
        /\ refCount'[n] >= refCount[n] + 2 * (1 + 0 + 0 + -1 + 0)
        /\ refCount'[n] >= refCount[n] + 2 * (0 + 0 + 0 + 0 + 0)
    BY <1>1, <2>1, Unchanged
  <2>4. CASE n = seen[t]
    <3>1. Changes(SlotRefs(n), SlotRefs(n)', 1)
      BY <1>1, <2>1, SlotCounted
    <3>2. Changes(SeenRefs(n), SeenRefs(n)', -1)
      BY <1>2, <2>2, <2>4, SeenWritten
    <3> QED BY <1>3, <2>3, <3>1, <3>2, Balanced
  <2>5. CASE n # seen[t]
    <3>1. Changes(SlotRefs(n), SlotRefs(n)', 0)
      BY <1>1, <2>1, <2>5, SlotCounted
    <3>2. Changes(SeenRefs(n), SeenRefs(n)', 0)
      BY <1>2, <2>2, SeenWritten
    <3> QED BY <1>3, <2>3, <3>1, <3>2, Balanced
  <2> QED BY <2>4, <2>5
<1>7. CASE Reread(t)
  <2>1. /\ pc[t] = "recheck" /\ pc' = [pc EXCEPT ![t] = "load"]
        /\ seen[t] \in Node
        /\ UNCHANGED <<refCount, local, cell>>
    BY <1>7 DEF Reread, Goto, CallRelease, IInv, ControlInv
  <2>2. /\ cpc' = [cpc EXCEPT ![t] = "decrement"]
        /\ cnode' = [cnode EXCEPT ![t] = seen[t]]
    BY <1>7, <2>1, PoolAssumption DEF Reread, CallRelease, Node, NULL
  <2>3. t \notin SeenRefs(n)' /\ (n = seen[t] => t \in SeenRefs(n))
    BY <1>1, <2>1 DEF SeenRefs
  <2>4. /\ Changes(SlotRefs(n), SlotRefs(n)', 0) /\ Changes(CellRefs(n), CellRefs(n)', 0)
        /\ refCount'[n] >= refCount[n] + 2 * (0 + 0 + 1 + -1 + 0)
        /\ refCount'[n] >= refCount[n] + 2 * (0 + 0 + 0 + 0 + 0)
    BY <1>1, <2>1, Unchanged
  <2>5. CASE n = seen[t]
    <3>1. Changes(SeenRefs(n), SeenRefs(n)', -1)
      BY <1>2, <2>3, <2>5, SeenWritten
    <3>2. Changes(CallRefs(n), CallRefs(n)', 1)
      BY <1>2, CallWritten
    <3> QED BY <1>3, <2>4, <3>1, <3>2, Balanced
  <2>6. CASE n # seen[t]
    <3>1. t \notin CallRefs(n)'
      BY <1>1, <2>2, <2>6 DEF CallRefs
    <3>2. Changes(CallRefs(n), CallRefs(n)', 0) /\ Changes(SeenRefs(n), SeenRefs(n)', 0)
      BY <1>2, <2>3, <3>1, CallWritten, SeenWritten
    <3> QED BY <1>3, <2>4, <3>2, Balanced
  <2> QED BY <2>5, <2>6
<1>8. ASSUME NEW s \in Slot, CasPublish(t, s)
      PROVE  refCount'[n] >= 2 * References(n)'
  <2>1. /\ pc' = [pc EXCEPT ![t] = "rest"] /\ at[t] \in Cell
        /\ local[t][s] = seen[t] /\ local' = [local EXCEPT ![t][s] = NULL]
        /\ cell' = [cell EXCEPT ![at[t]] = toMarkable(seen[t], FALSE)]
        /\ toPtr_m(toMarkable(seen[t], FALSE)) = seen[t]
        /\ UNCHANGED <<refCount, cpc, cnode>>
    BY <1>8 DEF CasPublish, Goto, cmemVars, IInv, ControlInv, toMarkable, toPtr_m
  <2>2. t \notin SeenRefs(n)'
    BY <1>1, <2>1 DEF SeenRefs
  <2>3. /\ Changes(SeenRefs(n), SeenRefs(n)', 0) /\ Changes(CallRefs(n), CallRefs(n)', 0)
        /\ refCount'[n] >= refCount[n] + 2 * (-1 + 1 + 0 + 0 + 0)
        /\ refCount'[n] >= refCount[n] + 2 * (0 + 0 + 0 + 0 + 0)
    <3>1. Changes(SeenRefs(n), SeenRefs(n)', 0)
      BY <1>2, <2>2, SeenWritten
    <3>2. Changes(CallRefs(n), CallRefs(n)', 0)
      BY <2>1, Unchanged
    <3>3. refCount'[n] = refCount[n] /\ refCount[n] \in Nat
      BY <1>1, <2>1
    <3> QED BY <3>1, <3>2, <3>3
  <2> DEFINE w == toMarkable(seen[t], FALSE)
  <2>4. toPtr_m(w) = seen[t] /\ cell' = [cell EXCEPT ![at[t]] = w]
    BY <2>1
  <2> HIDE DEF w
  <2>5. CASE n = seen[t]
    <3>1. Changes(SlotRefs(n), SlotRefs(n)', -1)
      BY <1>1, <2>1, <2>5, SlotCounted
    <3>2. Changes(CellRefs(n), CellRefs(n)', 1)
      BY <1>1, <2>1, <2>4, CellCounted
    <3> QED BY <1>3, <2>3, <3>1, <3>2, Balanced
  <2>6. CASE n # seen[t]
    <3>1. Changes(SlotRefs(n), SlotRefs(n)', 0)
      BY <1>1, <2>1, SlotCounted
    <3>2. Changes(CellRefs(n), CellRefs(n)', 0)
      BY <1>1, <2>1, <2>4, <2>6, CellCounted
    <3> QED BY <1>3, <2>3, <3>1, <3>2, Balanced
  <2> QED BY <2>5, <2>6
<1>9. CASE CreateFailed(t) \/ Load(t) \/ CasPublishFails(t) \/ ClearForwardLink(t)
  <2>1. UNCHANGED <<local, cell, refCount>>
    BY <1>9 DEF CreateFailed, Load, CasPublishFails, ClearForwardLink, cmemVars
  <2>2. t \notin SeenRefs(n)'
    BY <1>1, <1>9 DEF CreateFailed, Load, CasPublishFails, ClearForwardLink, Goto, SeenRefs
  <2>3. t \in CallRefs(n)' => t \in CallRefs(n)
    BY <1>1, <1>9 DEF CreateFailed, Load, CasPublishFails, ClearForwardLink, cmemVars, CallRefs
  <2>4. /\ Changes(SlotRefs(n), SlotRefs(n)', 0) /\ Changes(CellRefs(n), CellRefs(n)', 0)
        /\ Changes(CallRefs(n), CallRefs(n)', 0) /\ Changes(SeenRefs(n), SeenRefs(n)', 0)
        /\ refCount'[n] >= refCount[n] + 2 * (0 + 0 + 0 + 0 + 0)
    BY <1>1, <1>2, <2>1, <2>2, <2>3, Unchanged, CallWritten, SeenWritten
  <2> QED BY <1>3, <2>4, Balanced
<1> QED BY <1>4, <1>5, <1>6, <1>7, <1>8, <1>9 DEF Continue

\* They do after every step.
LEMMA CountStep ==
  ASSUME IInv, NEW t \in Thread, Start(t) \/ Continue(t)
  PROVE  CountsSuffice'
<1> SUFFICES ASSUME NEW n \in Node
             PROVE  refCount'[n] >= 2 * References(n)'
  BY DEF CountsSuffice
<1>1. refCount'[n] \in Nat
  BY TypeStep DEF TypeOK
<1> QED BY <1>1, CallCountStep, StartCountStep, ContinueCountStep DEF Continue

-----------------------------------------------------------------------------
(* The invariant, and what follows from it.                                *)

\* The inductive invariant is kept by every step,
LEMMA NextIInv ==
  ASSUME IInv, Next
  PROVE  IInv'
<1> PICK t \in Thread : Start(t) \/ Continue(t)
  BY DEF Next
<1>1. TypeOK' /\ ControlInv' /\ CellInv'
  BY TypeStep, ControlStep, CellStep
<1>2. PushInv' /\ TakeInv' /\ PopInv' /\ GoneInv'
  BY PushStep, TakeStep, PopStep, GoneStep
<1>3. HeadInv' /\ ChainInv' /\ LoadInv'
  BY ListStep, LoadStep
<1>4. HeldInv' /\ CountsSuffice'
  BY HeldStep, CountStep
<1> QED BY <1>1, <1>2, <1>3, <1>4 DEF IInv

\* and by a step that changes nothing.
LEMMA StutterIInv ==
  ASSUME IInv, UNCHANGED vars
  PROVE  IInv'
<1> USE DEF vars, cmemVars, clientVars
<1>1. /\ \A t \in Thread : Pushing(t)' = Pushing(t) /\ Top(t)' = Top(t)
      /\ \A t \in Thread, n \in Node : Taking(t, n)' <=> Taking(t, n)
      /\ \A n \in Node : isRetained(n)' <=> isRetained(n)
  BY DEF Pushing, Top, Taking, isRetained
<1>2. /\ \A n \in Node : InList(n)' <=> InList(n)
      /\ \A n \in Node : LinkGone(n)' <=> LinkGone(n)
  BY <1>1 DEF InList, LinkGone
<1>3. \A n \in Node : /\ SlotRefs(n)' = SlotRefs(n) /\ CellRefs(n)' = CellRefs(n)
                      /\ CallRefs(n)' = CallRefs(n) /\ SeenRefs(n)' = SeenRefs(n)
                      /\ LinkRefs(n)' = LinkRefs(n)
  BY <1>2 DEF SlotRefs, CellRefs, CallRefs, SeenRefs, LinkRefs, toPtr_m
<1>4. TypeOK' /\ ControlInv' /\ CellInv'
  BY DEF IInv, TypeOK, ControlInv, CellInv, Held, toPtr_m, isMarked_m
<1>5. PushInv' /\ TakeInv' /\ PopInv' /\ GoneInv'
  <2>1. \A t \in Thread : Pushing(t) \subseteq Node
    BY StackFacts DEF IInv, TypeOK
  <2> QED BY <1>1, <2>1 DEF IInv, PushInv, TakeInv, PopInv, GoneInv
<1>6. HeadInv' /\ ChainInv' /\ LoadInv'
  <2>1. HeadInv'
    BY <1>2 DEF IInv, HeadInv, toPtr_m, isMarked_m
  <2>2. ChainInv'
    BY <1>2 DEF IInv, ChainInv, toPtr_m, isMarked_m
  <2>3. LoadInv'
    <3>1. \A t \in Thread : cpc[t] = "casPop" => cnode[t] \in Node
      BY DEF IInv, ControlInv, Counted
    <3> QED BY <1>2, <3>1 DEF IInv, LoadInv
  <2> QED BY <2>1, <2>2, <2>3
<1>7. HeldInv'
  BY <1>1, <1>3 DEF IInv, HeldInv, Referred
<1>8. CountsSuffice'
  <2>1. \A n \in Node : References(n)' = References(n)
    BY <1>3 DEF References
  <2> QED BY <2>1 DEF IInv, CountsSuffice
<1> QED BY <1>4, <1>5, <1>6, <1>7, <1>8 DEF IInv

\* The inductive invariant holds in every reachable state.
LEMMA Invariance == Spec => []IInv
<1>1. Init => IInv
  BY InitIInv
<1>2. IInv /\ [Next]_vars => IInv'
  BY NextIInv, StutterIInv
<1> QED BY <1>1, <1>2, PTL DEF Spec

\* Every variable has its type; in particular, however the increments and the
\* decrements of the threads interleave, no reference count drops below zero, and
\* a load always yields a word that is a pointer to a node of the pool or null.
THEOREM TypeCorrect == Spec => []TypeOK
<1>1. IInv => TypeOK
  BY DEF IInv
<1> QED BY <1>1, Invariance, PTL

\* Whatever the threads do at the same time, no node that a local variable, a
\* shared link or the retained link of a node in use refers to is reclaimed by
\* cmem_releaseNode: its claim bit is clear.
THEOREM NotReclaimed == Spec => []HeldNotReclaimed
<1>1. ASSUME IInv PROVE HeldNotReclaimed
  <2>1. \A n \in Node : Referred(n) => isRetained(n)
    BY <1>1 DEF IInv, HeldInv
  <2>2. /\ local \in [Thread -> [Slot -> Ref]] /\ cell \in [Cell -> MarkablePointer(Ref)]
        /\ rLink \in [Node -> Ref]
    BY <1>1 DEF IInv, TypeOK
  <2>3. ASSUME NEW t \in Thread, NEW s \in Slot, local[t][s] # NULL
        PROVE  isRetained(local[t][s])
    <3>1. local[t][s] \in Node /\ <<t, s>> \in SlotRefs(local[t][s])
      BY <2>2, <2>3 DEF Ref, SlotRefs
    <3> QED BY <2>1, <3>1 DEF Referred
  <2>4. ASSUME NEW c \in Cell, toPtr_m(cell[c]) # NULL
        PROVE  isRetained(toPtr_m(cell[c]))
    <3>1. toPtr_m(cell[c]) \in Node
      BY <1>1, <2>4 DEF IInv, CellInv, NULL_D, toMarkable, toPtr_m
    <3>2. c \in CellRefs(toPtr_m(cell[c]))
      BY DEF CellRefs
    <3> QED BY <2>1, <3>1, <3>2 DEF Referred
  <2>5. ASSUME NEW n \in Node, isRetained(n), rLink[n] # NULL
        PROVE  isRetained(rLink[n])
    <3>1. ~ LinkGone(n)
      BY <1>1, <2>5 DEF IInv, PushInv, LinkGone
    <3>2. rLink[n] \in Node /\ n \in LinkRefs(rLink[n])
      BY <2>2, <2>5, <3>1 DEF Ref, LinkRefs
    <3> QED BY <2>1, <3>2 DEF Referred
  <2> QED BY <2>3, <2>4, <2>5 DEF HeldNotReclaimed
<1> QED BY <1>1, Invariance, PTL

\* The count of a node never falls below the references there are to it, in the
\* middle of every cmem_allocNode, cmem_releaseNode and readAndRetainNode_d.
THEOREM CountsSafe == Spec => []CountsSuffice
<1>1. IInv => CountsSuffice
  BY DEF IInv
<1> QED BY <1>1, Invariance, PTL

\* A node that cmem_allocNode hands out goes to one thread, and no slot and no cell
\* refers to it any more.
THEOREM Exclusive == Spec => []AllocatedExclusive
<1>1. ASSUME IInv PROVE AllocatedExclusive
  <2> SUFFICES ASSUME NEW t \in Thread, NEW n \in Node, Taking(t, n)
               PROVE  /\ \A u \in Thread : ~ Held(u, n) /\ (u # t => ~ Taking(u, n))
                      /\ \A c \in Cell : toPtr_m(cell[c]) # n
    BY DEF AllocatedExclusive
  <2>1. ~ Referred(n)
    BY <1>1 DEF IInv, HeldInv
  <2>2. ASSUME NEW u \in Thread, Held(u, n) PROVE FALSE
    <3>1. PICK s \in Slot : local[u][s] = n
      BY <2>2 DEF Held
    <3>2. <<u, s>> \in SlotRefs(n)
      BY <3>1 DEF SlotRefs
    <3> QED BY <2>1, <3>2 DEF Referred
  <2>3. \A c \in Cell : toPtr_m(cell[c]) # n
    BY <2>1 DEF Referred, CellRefs
  <2>4. \A u \in Thread : u # t => ~ Taking(u, n)
    BY <1>1 DEF IInv, TakeInv
  <2> QED BY <2>2, <2>3, <2>4
<1> QED BY <1>1, Invariance, PTL

\* No thread writes the link of a free node while it stays on the free list: the
\* word that cmem_allocNode has read is still right when its CAS succeeds.
THEOREM LinksStable == Spec => FreeLinksStable
<1>1. ASSUME IInv, [Next]_vars
      PROVE  [\A n \in Node : InList(n) /\ InList(n)' => next'[n] = next[n]]_vars
  <2>1. CASE Next
    BY <1>1, <2>1, LinksKept DEF Next
  <2>2. CASE UNCHANGED vars
    BY <2>2
  <2> QED BY <1>1, <2>1, <2>2
<1> QED BY <1>1, Invariance, PTL DEF Spec, FreeLinksStable

-----------------------------------------------------------------------------
(* Least elements, instead of induction.                                   *)

\* A nonempty set of numbers has a least element.
LEMMA LeastElement ==
  ASSUME NEW S, S \subseteq Nat, S # {}
  PROVE  \E m \in S : \A x \in S : m <= x
<1> DEFINE R == {ss \in Nat \X Nat : ss[1] < ss[2]}
<1>1. IsWellFoundedOn(OpToRel(<, Nat), Nat)
  BY ONLY NatLessThanWellFounded, Zenon
<1>2. OpToRel(<, Nat) = R
  BY DEF OpToRel
<1>3. IsWellFoundedOn(R, Nat)
  BY <1>1, <1>2
<1>4. PICK m \in S : \A x \in S : <<x, m>> \notin R
  <2> HIDE DEF R
  <2> QED BY <1>3, WFMin
<1>5. \A x \in S : m <= x
  <2> SUFFICES ASSUME NEW x \in S PROVE m <= x
    OBVIOUS
  <2>1. x \in Nat /\ m \in Nat
    OBVIOUS
  <2>2. <<x, m>> \notin R
    BY <1>4
  <2> QED BY <2>1, <2>2
<1> QED BY <1>5

-----------------------------------------------------------------------------
(* The free list reaches every free node.                                  *)

\* The links of the free nodes of S do not lead out of S.
Closed(S) ==
  /\ toPtr_m(freeList) \in S \cup {NULL}
  /\ \A n \in S : InList(n) => toPtr_m(next[n]) \in S \cup {NULL}

\* Whatever set of nodes the head of the list and the links of free nodes stay in,
\* all the free nodes are there.
ReachInv ==
  \A S \in SUBSET Node : Closed(S) => {n \in Node : InList(n)} \subseteq S

\* One chain of all the nodes.
LEMMA InitReach == Init => ReachInv
<1> SUFFICES ASSUME Init, NEW S \in SUBSET Node, Closed(S), NEW x \in Node, x \notin S
             PROVE  FALSE
  BY DEF ReachInv
<1> DEFINE T == Node \ S
<1>1. T \subseteq Nat /\ T # {}
  BY PoolAssumption DEF Node
<1>2. PICK m \in T : \A y \in T : m <= y
  <2> HIDE DEF T
  <2> QED BY <1>1, LeastElement
<1>3. /\ freeList = toMarkable(1, FALSE)
      /\ next = [n \in Node |-> toMarkable(IF n = N THEN NULL ELSE n + 1, FALSE)]
      /\ refCount = [n \in Node |-> 1]
      /\ claimed = [t \in Thread |-> <<>>] /\ cpc = [t \in Thread |-> "idle"]
  BY DEF Init, cmemInit
<1>4. \A n \in Node : InList(n)
  BY <1>3 DEF InList, isRetained, Pushing, Taking
<1>5. m # 1
  BY <1>3 DEF Closed, toMarkable, toPtr_m, NULL
<1>6. m - 1 \in Node /\ m - 1 # N /\ (m - 1) + 1 = m
  BY <1>5, PoolAssumption DEF Node
<1>7. m - 1 \in S
  BY <1>2, <1>6, PoolAssumption DEF Node
<1>8. toPtr_m(next[m - 1]) = m
  BY <1>3, <1>6 DEF toMarkable, toPtr_m
<1>9. m # NULL
  BY PoolAssumption DEF Node, NULL
<1> QED BY <1>4, <1>7, <1>8, <1>9 DEF Closed

\* A pop takes away the head, a push adds one, and nothing else changes the list.
LEMMA ReachStep ==
  ASSUME IInv, ReachInv, NEW t \in Thread, Start(t) \/ Continue(t)
  PROVE  ReachInv'
<1> SUFFICES ASSUME NEW S \in SUBSET Node, Closed(S)'
             PROVE  \A n \in Node : InList(n)' => n \in S
  BY DEF ReachInv
<1>1. \A n \in Node : InList(n) => next'[n] = next[n]
  BY LinksKept
<1>2. /\ toPtr_m(freeList') \in S \cup {NULL}
      /\ \A n \in S : InList(n)' => toPtr_m(next'[n]) \in S \cup {NULL}
  BY DEF Closed, toPtr_m
<1>3. CASE ~ Pop(t) /\ ~ Push(t)
  <2>1. freeList' = freeList /\ \A n \in Node : InList(n)' <=> InList(n)
    BY <1>3, ListKept
  <2>2. Closed(S)
    BY <1>1, <1>2, <2>1 DEF Closed
  <2> QED BY <2>1, <2>2 DEF ReachInv
<1>4. CASE Pop(t)
  <2>1. PICK n \in Node : n = cnode[t]
    BY <1>4, PopEffect
  <2>2. /\ InList(n) /\ freeList = toMarkable(n, FALSE)
        /\ \A m \in Node : InList(m)' <=> InList(m) /\ m # n
    BY <1>4, <2>1, PopEffect
  <2>3. freeList' = next[n]
    <3>1. cpc[t] = "casPop" /\ cnext[t] = next[n]
      BY <1>4, <2>1, <2>2 DEF Pop, CasPop, IInv, LoadInv
    <3> QED BY <1>4, <3>1 DEF Pop, CasPop
  <2> DEFINE T == S \cup {n}
  <2>4. T \in SUBSET Node
    OBVIOUS
  <2>5. toPtr_m(freeList) \in T
    BY <2>2 DEF toMarkable, toPtr_m
  <2>6. \A m \in T : InList(m) => toPtr_m(next[m]) \in T \cup {NULL}
    BY <1>1, <1>2, <2>2, <2>3
  <2>7. Closed(T)
    BY <2>5, <2>6 DEF Closed
  <2>8. {m \in Node : InList(m)} \subseteq T
    <3> HIDE DEF T
    <3> QED BY <2>4, <2>7 DEF ReachInv
  <2> QED BY <2>2, <2>8
<1>5. CASE Push(t)
  <2>1. PICK n \in Node : n = Top(t)
    BY <1>5, PushEffect
  <2>2. /\ freeList = next[n] /\ freeList' = toMarkable(n, FALSE)
        /\ \A m \in Node : InList(m)' <=> InList(m) \/ m = n
    BY <1>5, <2>1, PushEffect
  <2>3. next' = next
    BY <1>5 DEF Push, CasPush
  <2>4. n \in S
    BY <1>2, <2>2, PoolAssumption DEF toMarkable, toPtr_m, Node, NULL
  <2>5. Closed(S)
    BY <1>2, <2>2, <2>3, <2>4 DEF Closed
  <2> QED BY <2>2, <2>4, <2>5 DEF ReachInv
<1> QED BY <1>3, <1>4, <1>5

-----------------------------------------------------------------------------
(* The chain from the head of the list.                                    *)

\* The node that the link of a node leads to.
After(prev) == IF prev = NULL THEN NULL ELSE toPtr_m(next[prev])

\* f is the chain, as far as k.
IsChain(f, k) ==
  f = [i \in 1 .. k |-> IF i = 1 THEN toPtr_m(freeList) ELSE After(f[i - 1])]

\* There is such a function.
LEMMA ChainExists == \E f : IsChain(f, N + 1)
<1> DEFINE Bad == {k \in 1 .. N + 1 : \A f : ~ IsChain(f, k)}
<1> SUFFICES ASSUME Bad # {} PROVE FALSE
  BY PoolAssumption
<1>1. Bad \subseteq Nat
  OBVIOUS
<1>2. PICK k \in Bad : \A y \in Bad : k <= y
  <2> HIDE DEF Bad
  <2> QED BY <1>1, LeastElement
<1>3. CASE k = 1
  <2> DEFINE f == [i \in 1 .. 1 |-> toPtr_m(freeList)]
  <2>1. IsChain(f, 1)
    BY DEF IsChain
  <2> QED BY <1>2, <1>3, <2>1
<1>4. CASE k # 1
  <2>1. k - 1 \in 1 .. N + 1 /\ k - 1 \notin Bad
    BY <1>2, <1>4, PoolAssumption
  <2>2. PICK f : IsChain(f, k - 1)
    BY <2>1
  <2> DEFINE g == [i \in 1 .. k |-> IF i = k THEN After(f[k - 1]) ELSE f[i]]
  <2>3. \A i \in 1 .. k - 1 : f[i] = IF i = 1 THEN toPtr_m(freeList) ELSE After(f[i - 1])
    BY <2>2 DEF IsChain
  <2>4. \A i \in 1 .. k - 1 : g[i] = f[i]
    BY <2>1
  <2>5. \A i \in 1 .. k : i # k => i \in 1 .. k - 1
    BY <2>1
  <2>6. k \in 1 .. k /\ k - 1 \in 1 .. k - 1 /\ \A i \in 1 .. k - 1 : i # 1 => i - 1 \in 1 .. k - 1
    BY <2>1
  <2>7. ASSUME NEW i \in 1 .. k
        PROVE  g[i] = IF i = 1 THEN toPtr_m(freeList) ELSE After(g[i - 1])
    <3>1. CASE i = k
      <4>1. g[i - 1] = f[k - 1]
        BY <3>1, <2>4, <2>6
      <4> QED BY <1>4, <3>1, <4>1
    <3>2. CASE i # k
      <4>1. i \in 1 .. k - 1 /\ g[i] = f[i]
        BY <3>2, <2>4, <2>5
      <4>2. i # 1 => g[i - 1] = f[i - 1]
        BY <4>1, <2>4, <2>6
      <4> QED BY <4>1, <4>2, <2>3
    <3> QED BY <3>1, <3>2
  <2>8. g = [i \in 1 .. k |-> IF i = 1 THEN toPtr_m(freeList) ELSE After(g[i - 1])]
    <3>1. g = [i \in 1 .. k |-> g[i]]
      OBVIOUS
    <3> HIDE DEF g
    <3> QED BY <2>7, <3>1
  <2>9. IsChain(g, k)
    BY <2>8 DEF IsChain
  <2> QED BY <1>2, <2>9
<1> QED BY <1>3, <1>4

\* The chain of the model is that function.
LEMMA ChainUnfolds ==
  /\ ChainAt[1] = toPtr_m(freeList)
  /\ \A i \in 1 .. N : ChainAt[i + 1] = After(ChainAt[i])
<1>1. IsChain(ChainAt, N + 1)
  BY ChainExists DEF IsChain, ChainAt, After
<1> QED BY <1>1, PoolAssumption DEF IsChain

\* The chain runs through free nodes.
LEMMA ChainNodes ==
  ASSUME IInv, NEW i \in 1 .. N + 1
  PROVE  ChainAt[i] = NULL \/ (ChainAt[i] \in Node /\ InList(ChainAt[i]))
<1> DEFINE Free(v) == v = NULL \/ (v \in Node /\ InList(v))
           Bad == {k \in 1 .. N + 1 : ~ Free(ChainAt[k])}
<1> SUFFICES ASSUME Bad # {} PROVE FALSE
  OBVIOUS
<1>1. PICK k \in Bad : \A y \in Bad : k <= y
  <2>1. Bad \subseteq Nat
    OBVIOUS
  <2> HIDE DEF Bad
  <2> QED BY <2>1, LeastElement
<1>2. k # 1
  BY <1>1, ChainUnfolds DEF IInv, HeadInv
<1>3. k - 1 \in 1 .. N /\ (k - 1) + 1 = k /\ k - 1 \in 1 .. N + 1 /\ k - 1 \notin Bad
  BY <1>1, <1>2, PoolAssumption
<1>4. PICK n : n = ChainAt[k - 1]
  OBVIOUS
<1>5. ChainAt[k] = After(n)
  <2>1. ChainAt[(k - 1) + 1] = After(ChainAt[k - 1])
    BY <1>3, ChainUnfolds
  <2> QED BY <1>3, <1>4, <2>1
<1>6. n = NULL \/ (n \in Node /\ InList(n))
  BY <1>3, <1>4
<1> QED BY <1>1, <1>5, <1>6 DEF After, IInv, ChainInv

\* Once the chain has ended it goes on ending.
LEMMA ChainEnds ==
  ASSUME IInv, NEW i \in 1 .. N + 1, NEW j \in 1 .. N + 1, i <= j, ChainAt[i] = NULL
  PROVE  ChainAt[j] = NULL
<1> DEFINE Bad == {k \in i .. N + 1 : ChainAt[k] # NULL}
<1> SUFFICES ASSUME Bad # {} PROVE FALSE
  BY PoolAssumption
<1>1. PICK k \in Bad : \A y \in Bad : k <= y
  <2>1. Bad \subseteq Nat
    OBVIOUS
  <2> HIDE DEF Bad
  <2> QED BY <2>1, LeastElement
<1>2. k - 1 \in 1 .. N /\ (k - 1) + 1 = k /\ k - 1 \in i .. N + 1 /\ k - 1 \notin Bad
  BY <1>1, PoolAssumption
<1>3. ChainAt[(k - 1) + 1] = After(ChainAt[k - 1])
  BY <1>2, ChainUnfolds
<1> QED BY <1>1, <1>2, <1>3 DEF After

\* Two free nodes with the same link are one, and nobody leads to the head.
LEMMA SamePredecessor ==
  ASSUME IInv, NEW n \in Node, InList(n), toPtr_m(next[n]) # NULL
  PROVE  /\ toPtr_m(next[n]) # toPtr_m(freeList)
         /\ \A m \in Node : InList(m) /\ toPtr_m(next[m]) = toPtr_m(next[n]) => m = n
<1>1. \A m \in Node : InList(m) => next[m] \in Word /\ ~ isMarked_m(next[m])
  BY DEF IInv, TypeOK, ChainInv
<1>2. freeList \in Word /\ ~ isMarked_m(freeList)
  BY DEF IInv, TypeOK, HeadInv
<1>3. \A v, w \in Word : ~ isMarked_m(v) /\ ~ isMarked_m(w) /\ toPtr_m(v) = toPtr_m(w) => v = w
  BY DEF Word, MarkablePointer, isMarked_m, toPtr_m
<1>4. /\ next[n] # freeList
      /\ \A m \in Node : InList(m) /\ next[m] = next[n] => m = n
  BY DEF IInv, ChainInv
<1> QED BY <1>1, <1>2, <1>3, <1>4

\* The chain does not come back to a node.
LEMMA ChainDistinct ==
  ASSUME IInv, NEW a \in 1 .. N + 1, NEW b \in 1 .. N + 1, ChainAt[a] # NULL,
         ChainAt[a] = ChainAt[b]
  PROVE  a = b
<1> DEFINE Bad == {k \in 1 .. N + 1 : /\ ChainAt[k] # NULL
                                      /\ \E j \in k + 1 .. N + 1 : ChainAt[j] = ChainAt[k]}
<1> SUFFICES ASSUME Bad # {} PROVE FALSE
  BY PoolAssumption
<1>1. PICK k \in Bad : \A y \in Bad : k <= y
  <2>1. Bad \subseteq Nat
    OBVIOUS
  <2> HIDE DEF Bad
  <2> QED BY <2>1, LeastElement
<1>2. PICK j \in k + 1 .. N + 1 : ChainAt[j] = ChainAt[k]
  BY <1>1
<1>3. k \in 1 .. N + 1 /\ j - 1 \in 1 .. N /\ (j - 1) + 1 = j /\ j - 1 >= k
      /\ ChainAt[k] # NULL /\ j - 1 \in 1 .. N + 1
  BY <1>1, <1>2, PoolAssumption
<1>4. PICK m : m = ChainAt[j - 1]
  OBVIOUS
<1>5. ChainAt[j] = After(m)
  <2>1. ChainAt[(j - 1) + 1] = After(ChainAt[j - 1])
    BY <1>3, ChainUnfolds
  <2> QED BY <1>3, <1>4, <2>1
<1>6. m # NULL /\ toPtr_m(next[m]) = ChainAt[k]
  BY <1>2, <1>3, <1>5 DEF After
<1>7. m \in Node /\ InList(m)
  BY <1>3, <1>4, <1>6, ChainNodes
<1>8. k # 1
  <2>1. toPtr_m(next[m]) # toPtr_m(freeList)
    BY <1>3, <1>6, <1>7, SamePredecessor
  <2> QED BY <1>6, <2>1, ChainUnfolds
<1>9. k - 1 \in 1 .. N /\ (k - 1) + 1 = k /\ k - 1 \in 1 .. N + 1 /\ k - 1 \notin Bad
      /\ j - 1 \in (k - 1) + 1 .. N + 1
  BY <1>1, <1>3, <1>8, PoolAssumption
<1>10. PICK n : n = ChainAt[k - 1]
  OBVIOUS
<1>11. ChainAt[k] = After(n)
  <2>1. ChainAt[(k - 1) + 1] = After(ChainAt[k - 1])
    BY <1>9, ChainUnfolds
  <2> QED BY <1>9, <1>10, <2>1
<1>12. n # NULL /\ toPtr_m(next[n]) = ChainAt[k]
  BY <1>3, <1>11 DEF After
<1>13. n \in Node /\ InList(n)
  BY <1>9, <1>10, <1>12, ChainNodes
<1>14. m = n
  BY <1>3, <1>6, <1>7, <1>12, <1>13, SamePredecessor
<1>15. ChainAt[j - 1] = ChainAt[k - 1] /\ ChainAt[k - 1] # NULL
  BY <1>4, <1>10, <1>12, <1>14
<1> QED BY <1>9, <1>15

\* It ends, as there are not that many nodes.
LEMMA ChainShort ==
  ASSUME IInv
  PROVE  ChainAt[N + 1] = NULL
<1> SUFFICES ASSUME ChainAt[N + 1] # NULL PROVE FALSE
  OBVIOUS
<1> DEFINE I == 1 .. N + 1
           f == [i \in I |-> ChainAt[i]]
<1>1. \A i \in I : ChainAt[i] # NULL
  BY ChainEnds, PoolAssumption
<1>2. f \in [I -> Node]
  BY <1>1, ChainNodes
<1>3. \A i, j \in I : f[i] = f[j] => i = j
  BY <1>1, ChainDistinct
<1>4. IsFiniteSet(I) /\ Cardinality(I) = N + 1 /\ IsFiniteSet(Node) /\ Cardinality(Node) = N
  BY FS_Interval, PoolAssumption DEF Node
<1>5. Cardinality(I) > Cardinality(Node)
  BY <1>4, PoolAssumption
<1>6. \E x, y \in I : x # y /\ f[x] = f[y]
  <2> HIDE DEF I, f
  <2> QED BY <1>2, <1>4, <1>5, FS_PigeonHole
<1> QED BY <1>3, <1>6

\* So it holds the free nodes, all of them.
LEMMA ChainFree ==
  ASSUME IInv, ReachInv
  PROVE  FreeListIntact
<1> DEFINE S == {ChainAt[i] : i \in 1 .. N} \ {NULL}
<1>1. \A i \in 1 .. N : i \in 1 .. N + 1 /\ i + 1 \in 1 .. N + 1
  BY PoolAssumption
<1>2. S \in SUBSET Node /\ \A n \in S : InList(n)
  BY <1>1, ChainNodes
<1>3. toPtr_m(freeList) \in S \cup {NULL}
  BY ChainUnfolds, PoolAssumption
<1>4. ASSUME NEW n \in S
      PROVE  toPtr_m(next[n]) \in S \cup {NULL}
  <2>1. PICK i \in 1 .. N : ChainAt[i] = n
    BY <1>4
  <2>2. ChainAt[i + 1] = toPtr_m(next[n])
    BY <1>4, <2>1, ChainUnfolds DEF After
  <2>3. CASE i = N
    BY <2>2, <2>3, ChainShort
  <2>4. CASE i # N
    BY <2>1, <2>2, <2>4, PoolAssumption
  <2> QED BY <2>3, <2>4
<1>5. Closed(S)
  <2> HIDE DEF S
  <2> QED BY <1>3, <1>4 DEF Closed
<1>6. {n \in Node : InList(n)} \subseteq S
  <2> HIDE DEF S
  <2> QED BY <1>2, <1>5 DEF ReachInv
<1>7. S = {n \in Node : InList(n)}
  <2> HIDE DEF S
  <2> QED BY <1>2, <1>6
<1> QED BY <1>7, ChainShort DEF FreeListIntact

\* The invariant of the list holds in every reachable state.
LEMMA Reaching == Spec => []ReachInv
<1>1. IInv /\ ReachInv /\ [Next]_vars => ReachInv'
  <2>1. ASSUME IInv, ReachInv, UNCHANGED vars PROVE ReachInv'
    <3>1. \A n \in Node : InList(n)' <=> InList(n)
      BY <2>1 DEF vars, cmemVars, InList, isRetained, Pushing, Taking
    <3>2. ASSUME NEW S \in SUBSET Node PROVE Closed(S)' <=> Closed(S)
      BY <2>1, <3>1, <3>2 DEF vars, cmemVars, Closed
    <3> QED BY <2>1, <3>1, <3>2 DEF ReachInv
  <2> QED BY <2>1, ReachStep DEF Next
<1> QED BY InitReach, <1>1, Invariance, PTL DEF Spec

\* The chain from freeList ends, and holds exactly the claimed nodes that no thread is
\* pushing or popping: however the pops and pushes of cmem_allocNode and
\* cmem_releaseNode interleave, no node is lost, chained twice or chained in use.
THEOREM ListIntact == Spec => []FreeListIntact
<1>1. IInv /\ ReachInv => FreeListIntact
  BY ChainFree
<1> QED BY <1>1, Invariance, Reaching, PTL

-----------------------------------------------------------------------------
(* Exact counts, where nodes have no retained links (the list).            *)

\* No link is set, and none is followed.
NoLinks ==
  /\ \A t \in Thread : ~ follow[t]
  /\ \A n \in Node : rLink[n] = NULL

\* A count is that of the references there are, or has the claim bit on top.
CountsTight ==
  \A n \in Node : refCount[n] >= 1 /\ refCount[n] <= 2 * References(n) + 1

\* Only SetRetainedLink sets a link, and only a release that is told to follows one.
LEMMA NoLinksStep ==
  ASSUME ~ RetainedLinks, IInv, NoLinks, NEW t \in Thread, Start(t) \/ Continue(t)
  PROVE  NoLinks'
<1>1. /\ follow \in [Thread -> BOOLEAN] /\ rLink \in [Node -> Ref]
      /\ \A u \in Thread : ~ follow[u]
      /\ \A n \in Node : rLink[n] = NULL
  BY DEF IInv, TypeOK, NoLinks
<1>2. \A u \in Thread : u # t => follow'[u] = follow[u]
  BY Others
<1>3. cpc[t] \notin {"readLink", "clearLink"}
  BY <1>1 DEF IInv, ControlInv
<1>4. CASE cmemStep(t) /\ UNCHANGED clientVars
  <2>1. rLink' = rLink /\ ~ follow'[t]
    BY <1>1, <1>3, <1>4 DEF cmemStep, ReadHead, RetainHead, RecheckHead, ReadNext, CasPop,
       ClearClaim, ClearNext, Decrement, ReadLink, ClearLink, ReadTop, WriteNext, CasPush,
       ReleaseInAlloc, Unwind, Return
  <2> QED BY <1>1, <1>2, <2>1 DEF NoLinks
<1>5. CASE Start(t)
  <2>1. rLink' = rLink /\ ~ follow'[t]
    BY <1>1, <1>5 DEF Start, CreateNode, CallAlloc, RetainNode, ReleaseNode, CallRelease,
       ReadAndRetain, LinkNode, CasUnlink, SetRetainedLink, cmemVars
  <2> QED BY <1>1, <1>2, <2>1 DEF NoLinks
<1>6. CASE Continue(t) /\ ~ (cmemStep(t) /\ UNCHANGED clientVars)
  <2>1. /\ ~ follow'[t]
        /\ rLink' = rLink \/ rLink' = [rLink EXCEPT ![cnode[t]] = NULL]
    BY <1>1, <1>6 DEF Continue, Created, CreateFailed, Load, RetainSeen, RecheckSeen, Reread,
       CallRelease, CasPublish, CasPublishFails, ClearForwardLink, cmemVars
  <2>2. \A n \in Node : rLink'[n] = NULL
    BY <1>1, <2>1
  <2> QED BY <1>1, <1>2, <2>1, <2>2 DEF NoLinks
<1> QED BY <1>4, <1>5, <1>6 DEF Continue

\* The sets of references after a step are finite, too.
LEMMA FinitenessNext ==
  ASSUME NEW n \in Node
  PROVE  /\ IsFiniteSet(SlotRefs(n)') /\ IsFiniteSet(CellRefs(n)')
         /\ IsFiniteSet(CallRefs(n)') /\ IsFiniteSet(SeenRefs(n)')
         /\ IsFiniteSet(LinkRefs(n)')
<1>1. IsFiniteSet(Thread \X Slot)
  BY ClientAssumption, FS_Product
<1>2. IsFiniteSet(Node)
  BY PoolAssumption, FS_Interval DEF Node
<1>3. /\ SlotRefs(n)' \subseteq Thread \X Slot /\ CellRefs(n)' \subseteq Cell
      /\ CallRefs(n)' \subseteq Thread /\ SeenRefs(n)' \subseteq Thread
      /\ LinkRefs(n)' \subseteq Node
  BY DEF SlotRefs, CellRefs, CallRefs, SeenRefs, LinkRefs
<1> QED BY <1>1, <1>2, <1>3, ClientAssumption, FS_Subset

\* A node that loses a slot's, b cells', c calls' and d second looks' references, or
\* gains some where the number is negative, and whose count goes down accordingly.
LEMMA BalancedBack ==
  ASSUME IInv, NoLinks, CountsTight, NEW n \in Node,
         NEW a \in {-1, 0, 1}, NEW b \in {-1, 0, 1}, NEW c \in {-1, 0, 1}, NEW d \in {-1, 0, 1},
         Changes(SlotRefs(n)', SlotRefs(n), a), Changes(CellRefs(n)', CellRefs(n), b),
         Changes(CallRefs(n)', CallRefs(n), c), Changes(SeenRefs(n)', SeenRefs(n), d),
         refCount'[n] \in Nat, refCount'[n] + 2 * (a + b + c + d) <= refCount[n]
  PROVE  refCount'[n] <= 2 * References(n)' + 1
<1>1. /\ Cardinality(SlotRefs(n)') \in Nat /\ Cardinality(SlotRefs(n)) \in Nat
      /\ Cardinality(SlotRefs(n)) <= Cardinality(SlotRefs(n)') + a
  BY FinitenessNext, Changed
<1>2. /\ Cardinality(CellRefs(n)') \in Nat /\ Cardinality(CellRefs(n)) \in Nat
      /\ Cardinality(CellRefs(n)) <= Cardinality(CellRefs(n)') + b
  BY FinitenessNext, Changed
<1>3. /\ Cardinality(CallRefs(n)') \in Nat /\ Cardinality(CallRefs(n)) \in Nat
      /\ Cardinality(CallRefs(n)) <= Cardinality(CallRefs(n)') + c
  BY FinitenessNext, Changed
<1>4. /\ Cardinality(SeenRefs(n)') \in Nat /\ Cardinality(SeenRefs(n)) \in Nat
      /\ Cardinality(SeenRefs(n)) <= Cardinality(SeenRefs(n)') + d
  BY FinitenessNext, Changed
<1>5. Cardinality(LinkRefs(n)) = 0 /\ Cardinality(LinkRefs(n)') \in Nat
  <2>1. LinkRefs(n) = {}
    BY PoolAssumption DEF NoLinks, LinkRefs, Node, NULL
  <2> QED BY <2>1, FinitenessNext, FS_EmptySet, FS_CardinalityType
<1> DEFINE k == a + b + c + d
<1>6. k \in Int /\ refCount'[n] + 2 * k <= refCount[n]
  OBVIOUS
<1>7. /\ References(n) \in Nat /\ References(n)' \in Nat
      /\ References(n) <= References(n)' + k
  BY <1>1, <1>2, <1>3, <1>4, <1>5 DEF References
<1>8. refCount[n] \in Nat /\ refCount[n] <= 2 * References(n) + 1
  BY DEF IInv, TypeOK, CountsTight
<1> HIDE DEF k
<1> QED BY <1>6, <1>7, <1>8

\* The sets of references of one step, seen from the state it leads to.
LEMMA SlotBack ==
  ASSUME local \in [Thread -> [Slot -> Ref]], NEW t \in Thread, NEW s \in Slot, NEW v,
         local' = [local EXCEPT ![t][s] = v], NEW n \in Node
  PROVE  /\ Changes(SlotRefs(n)', SlotRefs(n), 1)
         /\ local[t][s] # n => Changes(SlotRefs(n)', SlotRefs(n), 0)
         /\ local[t][s] # n /\ v = n => Changes(SlotRefs(n)', SlotRefs(n), -1)
<1> DEFINE p == <<t, s>>
<1>1. /\ p \in Thread \X Slot /\ p[1] = t /\ p[2] = s
      /\ \A q \in Thread \X Slot : q # p => local'[q[1]][q[2]] = local[q[1]][q[2]]
      /\ local'[t][s] = v
  <2>1. \A u \in Thread, r \in Slot : <<u, r>> # p => local'[u][r] = local[u][r]
    OBVIOUS
  <2> QED BY <2>1
<1> HIDE DEF p
<1>2. /\ SlotRefs(n) \subseteq SlotRefs(n)' \cup {p}
      /\ local[t][s] # n => SlotRefs(n) \subseteq SlotRefs(n)' /\ p \notin SlotRefs(n)
      /\ v = n => p \in SlotRefs(n)'
  BY <1>1 DEF SlotRefs
<1>3. ASSUME local[t][s] # n, v = n
      PROVE  SlotRefs(n) \subseteq SlotRefs(n)' \ {p} /\ p \in SlotRefs(n)'
  BY <1>2, <1>3
<1> QED BY <1>2, <1>3 DEF Changes

\* One cell.
LEMMA CellBack ==
  ASSUME cell \in [Cell -> MarkablePointer(Ref)], NEW c \in Cell, NEW w,
         cell' = [cell EXCEPT ![c] = w], NEW n \in Node
  PROVE  /\ Changes(CellRefs(n)', CellRefs(n), 1)
         /\ toPtr_m(cell[c]) # n => Changes(CellRefs(n)', CellRefs(n), 0)
         /\ toPtr_m(cell[c]) # n /\ toPtr_m(w) = n => Changes(CellRefs(n)', CellRefs(n), -1)
<1>1. cell'[c] = w /\ \A e \in Cell : e # c => cell'[e] = cell[e]
  OBVIOUS
<1>2. /\ CellRefs(n) \subseteq CellRefs(n)' \cup {c}
      /\ toPtr_m(cell[c]) # n => CellRefs(n) \subseteq CellRefs(n)' /\ c \notin CellRefs(n)
      /\ toPtr_m(w) = n => c \in CellRefs(n)'
  BY <1>1 DEF CellRefs, toPtr_m
<1>3. ASSUME toPtr_m(cell[c]) # n, toPtr_m(w) = n
      PROVE  CellRefs(n) \subseteq CellRefs(n)' \ {c} /\ c \in CellRefs(n)'
  BY <1>2, <1>3
<1> QED BY <1>2, <1>3 DEF Changes

\* The call of the stepping thread.
LEMMA CallBack ==
  ASSUME IInv, NEW t \in Thread, Start(t) \/ Continue(t), NEW n \in Node
  PROVE  /\ Changes(CallRefs(n)', CallRefs(n), 1)
         /\ t \notin CallRefs(n) => Changes(CallRefs(n)', CallRefs(n), 0)
         /\ t \in CallRefs(n)' => Changes(CallRefs(n)', CallRefs(n), 0)
         /\ t \in CallRefs(n)' /\ t \notin CallRefs(n) => Changes(CallRefs(n)', CallRefs(n), -1)
<1>1. /\ \A u \in Thread : u # t => (u \in CallRefs(n)' <=> u \in CallRefs(n))
      /\ CallRefs(n) \subseteq Thread
  BY OthersRefs DEF CallRefs
<1>2. CallRefs(n) \subseteq CallRefs(n)' \cup {t}
  BY <1>1
<1>3. t \notin CallRefs(n) => CallRefs(n) \subseteq CallRefs(n)' \ {t}
  BY <1>2
<1> QED BY <1>2, <1>3 DEF Changes

\* Its second look.
LEMMA SeenBack ==
  ASSUME IInv, NEW t \in Thread, Start(t) \/ Continue(t), NEW n \in Node
  PROVE  /\ Changes(SeenRefs(n)', SeenRefs(n), 1)
         /\ t \notin SeenRefs(n) => Changes(SeenRefs(n)', SeenRefs(n), 0)
         /\ t \in SeenRefs(n)' => Changes(SeenRefs(n)', SeenRefs(n), 0)
         /\ t \in SeenRefs(n)' /\ t \notin SeenRefs(n) => Changes(SeenRefs(n)', SeenRefs(n), -1)
<1>1. /\ \A u \in Thread : u # t => (u \in SeenRefs(n)' <=> u \in SeenRefs(n))
      /\ SeenRefs(n) \subseteq Thread
  BY OthersRefs DEF SeenRefs
<1>2. SeenRefs(n) \subseteq SeenRefs(n)' \cup {t}
  BY <1>1
<1>3. t \notin SeenRefs(n) => SeenRefs(n) \subseteq SeenRefs(n)' \ {t}
  BY <1>2
<1> QED BY <1>2, <1>3 DEF Changes

\* What a step leaves alone.
LEMMA SameBack ==
  ASSUME NEW n \in Node
  PROVE  /\ local' = local => Changes(SlotRefs(n)', SlotRefs(n), 0)
         /\ cell' = cell => Changes(CellRefs(n)', CellRefs(n), 0)
         /\ pc' = pc /\ seen' = seen => Changes(SeenRefs(n)', SeenRefs(n), 0)
         /\ cpc' = cpc /\ cnode' = cnode => Changes(CallRefs(n)', CallRefs(n), 0)
BY DEF Changes, SlotRefs, CellRefs, SeenRefs, CallRefs, toPtr_m

\* The steps inside the allocator lose no reference without counting it.
LEMMA CallTightStep ==
  ASSUME IInv, NoLinks, CountsTight, NEW t \in Thread, cmemStep(t), UNCHANGED clientVars,
         NEW n \in Node, refCount'[n] \in Nat
  PROVE  refCount'[n] >= 1 /\ refCount'[n] <= 2 * References(n)' + 1
<1>1. /\ refCount \in [Node -> Nat] /\ cpc \in [Thread -> Cpc] /\ cnode \in [Thread -> Ref]
      /\ claimed \in [Thread -> Seq(Node)] /\ refCount[n] >= 1
  BY DEF IInv, TypeOK, CountsTight
<1>2. Start(t) \/ Continue(t)
  BY DEF Continue
<1>3. /\ Changes(SlotRefs(n)', SlotRefs(n), 0) /\ Changes(CellRefs(n)', CellRefs(n), 0)
      /\ Changes(SeenRefs(n)', SeenRefs(n), 0)
  BY SameBack DEF clientVars
<1>4. cpc[t] \notin {"readLink", "clearLink"}
  BY DEF IInv, ControlInv, NoLinks
<1>5. ASSUME NEW c \in {-1, 0, 1}, Changes(CallRefs(n)', CallRefs(n), c),
             refCount'[n] + 2 * c <= refCount[n]
      PROVE  refCount'[n] <= 2 * References(n)' + 1
  <2>1. refCount'[n] + 2 * (0 + 0 + c + 0) <= refCount[n]
    BY <1>5
  <2> QED BY <1>3, <1>5, <2>1, BalancedBack
<1>6. CASE RetainHead(t)
  <2>1. cnode[t] \in Node
    BY <1>6 DEF RetainHead, IInv, ControlInv
  <2>2. t \notin CallRefs(n)
    BY <1>6 DEF RetainHead, CallRefs
  <2>3. CASE n = cnode[t]
    <3>1. t \in CallRefs(n)' /\ refCount'[n] = refCount[n] + 2
      BY <1>1, <1>6, <2>3 DEF RetainHead, Retained, CallRefs
    <3>2. Changes(CallRefs(n)', CallRefs(n), -1)
      BY <1>2, <2>2, <3>1, CallBack
    <3>3. refCount'[n] + 2 * (-1) <= refCount[n] /\ refCount'[n] >= 1
      BY <1>1, <3>1
    <3> QED BY <1>5, <3>2, <3>3
  <2>4. CASE n # cnode[t]
    <3>1. refCount'[n] = refCount[n]
      BY <1>1, <1>6, <2>4 DEF RetainHead
    <3>2. refCount'[n] + 2 * 0 <= refCount[n] /\ refCount'[n] >= 1
      BY <1>1, <3>1
    <3> QED BY <1>2, <1>5, <2>2, <3>2, CallBack
  <2> QED BY <2>3, <2>4
<1>7. CASE Decrement(t)
  <2>1. /\ cnode[t] \in Node
        /\ refCount[cnode[t]] \in Nat /\ refCount[cnode[t]] >= 2
        /\ refCount' = [refCount EXCEPT ![cnode[t]] = Decremented(refCount[cnode[t]])]
    BY <1>7, DecrementFacts DEF Decrement
  <2>2. CASE n # cnode[t]
    <3>1. refCount'[n] = refCount[n] /\ t \notin CallRefs(n)
      BY <1>1, <2>1, <2>2 DEF CallRefs
    <3>2. refCount'[n] + 2 * 0 <= refCount[n] /\ refCount'[n] >= 1
      BY <1>1, <3>1
    <3> QED BY <1>2, <1>5, <3>1, <3>2, CallBack
  <2>3. CASE n = cnode[t]
    <3>1. refCount'[n] = Decremented(refCount[n])
      BY <1>1, <2>1, <2>3
    <3>2. CASE refCount[n] = 2
      <4>1. refCount'[n] = 1
        BY <3>1, <3>2 DEF Decremented
      <4>2. References(n)' \in Nat
        <5>1. /\ Cardinality(SlotRefs(n)') \in Nat /\ Cardinality(CellRefs(n)') \in Nat
              /\ Cardinality(CallRefs(n)') \in Nat /\ Cardinality(SeenRefs(n)') \in Nat
              /\ Cardinality(LinkRefs(n)') \in Nat
          BY FinitenessNext, FS_CardinalityType
        <5> QED BY <5>1 DEF References
      <4> QED BY <4>1, <4>2
    <3>3. CASE refCount[n] # 2
      <4>1. refCount'[n] + 2 * 1 <= refCount[n] /\ refCount'[n] >= 1
        BY <2>1, <2>3, <3>1, <3>3 DEF Decremented
      <4>2. Changes(CallRefs(n)', CallRefs(n), 1)
        BY <1>2, CallBack
      <4> QED BY <1>5, <4>1, <4>2
    <3> QED BY <3>2, <3>3
  <2> QED BY <2>2, <2>3
<1>8. CASE ~ RetainHead(t) /\ ~ Decrement(t)
  <2>1. t \in CallRefs(n) => t \in CallRefs(n)'
    BY <1>1, <1>4, <1>8 DEF CallRefs, cmemStep, ReadHead, RecheckHead, ReadNext, CasPop,
       ClearClaim, ClearNext, ReadLink, ClearLink, ReadTop, WriteNext, CasPush, ReleaseInAlloc
  <2>2. Changes(CallRefs(n)', CallRefs(n), 0)
    BY <1>2, <2>1, CallBack
  <2>3. refCount'[n] + 2 * 0 <= refCount[n] /\ refCount'[n] >= 1
    <3>1. CASE ClearClaim(t) /\ n = cnode[t]
      BY <3>1, ClearClaimEffect, <1>1
    <3>2. CASE ~ (ClearClaim(t) /\ n = cnode[t])
      <4>1. refCount'[n] = refCount[n]
        BY <1>1, <1>8, <3>2 DEF cmemStep, ReadHead, RecheckHead, ReadNext, CasPop,
           ClearClaim, ClearNext, ReadLink, ClearLink, ReadTop, WriteNext, CasPush
      <4> QED BY <1>1, <4>1
    <3> QED BY <3>1, <3>2
  <2> QED BY <1>5, <2>2, <2>3
<1> QED BY <1>6, <1>7, <1>8

\* Nor do the steps that start an operation.
LEMMA StartTightStep ==
  ASSUME ~ RetainedLinks, IInv, NoLinks, CountsTight, NEW t \in Thread, Start(t), NEW n \in Node,
         refCount'[n] \in Nat
  PROVE  refCount'[n] >= 1 /\ refCount'[n] <= 2 * References(n)' + 1
<1>1. /\ refCount \in [Node -> Nat] /\ cpc \in [Thread -> Cpc] /\ cnode \in [Thread -> Ref]
      /\ local \in [Thread -> [Slot -> Ref]] /\ cell \in [Cell -> MarkablePointer(Ref)]
      /\ pc \in [Thread -> Pc] /\ n # NULL /\ refCount[n] >= 1
  BY PoolAssumption DEF IInv, TypeOK, CountsTight, Node, NULL
<1>2. Start(t) \/ Continue(t)
  OBVIOUS
<1>3. cpc[t] = "idle" /\ pc[t] = "rest"
  BY DEF Start, CreateNode, RetainNode, ReleaseNode, ReadAndRetain, LinkNode, CasUnlink,
     SetRetainedLink, AtRest
<1>4. t \notin CallRefs(n) /\ t \notin SeenRefs(n)
  BY <1>3 DEF CallRefs, SeenRefs
<1>5. Changes(CallRefs(n)', CallRefs(n), 0) /\ Changes(SeenRefs(n)', SeenRefs(n), 0)
  BY <1>2, <1>4, CallBack, SeenBack
<1>6. ASSUME UNCHANGED <<local, cell, refCount>>
      PROVE  refCount'[n] >= 1 /\ refCount'[n] <= 2 * References(n)' + 1
  <2>1. /\ Changes(SlotRefs(n)', SlotRefs(n), 0) /\ Changes(CellRefs(n)', CellRefs(n), 0)
        /\ refCount'[n] + 2 * (0 + 0 + 0 + 0) <= refCount[n] /\ refCount'[n] >= 1
    BY <1>1, <1>6, SameBack
  <2> QED BY <1>5, <2>1, BalancedBack
<1>7. ASSUME NEW s \in Slot, NEW d \in Slot, RetainNode(t, s, d)
      PROVE  refCount'[n] >= 1 /\ refCount'[n] <= 2 * References(n)' + 1
  <2>1. PICK v : v = local[t][s]
    OBVIOUS
  <2>2. /\ local[t][d] = NULL /\ local' = [local EXCEPT ![t][d] = v] /\ cell' = cell
        /\ refCount' = [refCount EXCEPT ![v] = Retained(@)]
    BY <1>7, <2>1 DEF RetainNode
  <2>3. Changes(CellRefs(n)', CellRefs(n), 0)
    BY <2>2, SameBack
  <2>4. CASE n = v
    <3>1. Changes(SlotRefs(n)', SlotRefs(n), -1)
      BY <1>1, <2>2, <2>4, SlotBack
    <3>2. refCount'[n] + 2 * (-1 + 0 + 0 + 0) <= refCount[n] /\ refCount'[n] >= 1
      BY <1>1, <2>2, <2>4 DEF Retained
    <3> QED BY <1>5, <2>3, <3>1, <3>2, BalancedBack
  <2>5. CASE n # v
    <3>1. Changes(SlotRefs(n)', SlotRefs(n), 0)
      BY <1>1, <2>2, SlotBack
    <3>2. refCount'[n] + 2 * (0 + 0 + 0 + 0) <= refCount[n] /\ refCount'[n] >= 1
      BY <1>1, <2>2, <2>5
    <3> QED BY <1>5, <2>3, <3>1, <3>2, BalancedBack
  <2> QED BY <2>4, <2>5
<1>8. ASSUME NEW s \in Slot, ReleaseNode(t, s)
      PROVE  refCount'[n] >= 1 /\ refCount'[n] <= 2 * References(n)' + 1
  <2>1. PICK v : v = local[t][s]
    OBVIOUS
  <2>2. /\ v # NULL /\ local' = [local EXCEPT ![t][s] = NULL] /\ cell' = cell
        /\ refCount' = refCount
        /\ cpc' = [cpc EXCEPT ![t] = "decrement"] /\ cnode' = [cnode EXCEPT ![t] = v]
    BY <1>8, <2>1 DEF ReleaseNode, CallRelease
  <2>3. Changes(CellRefs(n)', CellRefs(n), 0)
    BY <2>2, SameBack
  <2>4. CASE n = v
    <3>1. Changes(SlotRefs(n)', SlotRefs(n), 1)
      BY <1>1, <2>2, SlotBack
    <3>2. t \in CallRefs(n)'
      BY <1>1, <2>2, <2>4 DEF CallRefs
    <3>3. Changes(CallRefs(n)', CallRefs(n), -1)
      BY <1>2, <1>4, <3>2, CallBack
    <3>4. refCount'[n] + 2 * (1 + 0 + -1 + 0) <= refCount[n] /\ refCount'[n] >= 1
      BY <1>1, <2>2
    <3> QED BY <1>5, <2>3, <3>1, <3>3, <3>4, BalancedBack
  <2>5. CASE n # v
    <3>1. Changes(SlotRefs(n)', SlotRefs(n), 0)
      BY <1>1, <2>1, <2>2, <2>5, SlotBack
    <3>2. refCount'[n] + 2 * (0 + 0 + 0 + 0) <= refCount[n] /\ refCount'[n] >= 1
      BY <1>1, <2>2
    <3> QED BY <1>5, <2>3, <3>1, <3>2, BalancedBack
  <2> QED BY <2>4, <2>5
<1>9. ASSUME NEW s \in Slot, NEW d \in Slot, NEW e \in Cell, CasUnlink(t, s, d, e)
      PROVE  refCount'[n] >= 1 /\ refCount'[n] <= 2 * References(n)' + 1
  <2>1. PICK v : v = local[t][s]
    OBVIOUS
  <2>2. /\ local[t][d] = NULL /\ local' = [local EXCEPT ![t][d] = v]
        /\ toPtr_m(cell[e]) = v /\ cell' = [cell EXCEPT ![e] = NULL_D]
        /\ refCount' = refCount
    BY <1>9, <2>1 DEF CasUnlink, cmemVars, toMarkable, toPtr_m
  <2>3. CASE n = v
    <3>1. Changes(SlotRefs(n)', SlotRefs(n), -1)
      BY <1>1, <2>2, <2>3, SlotBack
    <3>2. Changes(CellRefs(n)', CellRefs(n), 1)
      BY <1>1, <2>2, CellBack
    <3>3. refCount'[n] + 2 * (-1 + 1 + 0 + 0) <= refCount[n] /\ refCount'[n] >= 1
      BY <1>1, <2>2
    <3> QED BY <1>5, <3>1, <3>2, <3>3, BalancedBack
  <2>4. CASE n # v
    <3>1. Changes(SlotRefs(n)', SlotRefs(n), 0)
      BY <1>1, <2>2, SlotBack
    <3>2. Changes(CellRefs(n)', CellRefs(n), 0)
      BY <1>1, <2>2, <2>4, CellBack
    <3>3. refCount'[n] + 2 * (0 + 0 + 0 + 0) <= refCount[n] /\ refCount'[n] >= 1
      BY <1>1, <2>2
    <3> QED BY <1>5, <3>1, <3>2, <3>3, BalancedBack
  <2> QED BY <2>3, <2>4
<1>10. \A s, d \in Slot : ~ SetRetainedLink(t, s, d)
  BY DEF SetRetainedLink
<1>11. CASE CreateNode(t) \/ (\E c \in Cell : ReadAndRetain(t, c))
              \/ (\E s \in Slot, c \in Cell : LinkNode(t, s, c))
  <2>1. UNCHANGED <<local, cell, refCount>>
    BY <1>11 DEF CreateNode, CallAlloc, ReadAndRetain, LinkNode, cmemVars
  <2> QED BY <1>6, <2>1
<1> QED BY <1>7, <1>8, <1>9, <1>10, <1>11 DEF Start

\* Nor do those that go on with it.
LEMMA ContinueTightStep ==
  ASSUME IInv, NoLinks, CountsTight, NEW t \in Thread, Continue(t),
         ~ (cmemStep(t) /\ UNCHANGED clientVars), NEW n \in Node, refCount'[n] \in Nat
  PROVE  refCount'[n] >= 1 /\ refCount'[n] <= 2 * References(n)' + 1
<1>1. /\ refCount \in [Node -> Nat] /\ cpc \in [Thread -> Cpc] /\ cnode \in [Thread -> Ref]
      /\ local \in [Thread -> [Slot -> Ref]] /\ cell \in [Cell -> MarkablePointer(Ref)]
      /\ pc \in [Thread -> Pc] /\ seen \in [Thread -> Ref] /\ n # NULL /\ refCount[n] >= 1
  BY PoolAssumption DEF IInv, TypeOK, CountsTight, Node, NULL
<1>2. Start(t) \/ Continue(t)
  OBVIOUS
<1>3. refCount'[n] = refCount[n] =>
        refCount'[n] + 2 * (0 + 0 + 0 + 0) <= refCount[n] /\ refCount'[n] >= 1
  BY <1>1
<1>4. ASSUME NEW s \in Slot, Created(t, s)
      PROVE  refCount'[n] >= 1 /\ refCount'[n] <= 2 * References(n)' + 1
  <2>1. PICK v : v = cnode[t]
    OBVIOUS
  <2>2. /\ cpc[t] = "allocated" /\ local[t][s] = NULL
        /\ local' = [local EXCEPT ![t][s] = v]
        /\ pc[t] = "create" /\ UNCHANGED <<refCount, cell>>
    BY <1>4, <2>1 DEF Created
  <2>3. t \notin SeenRefs(n) /\ (n # v => t \notin CallRefs(n))
    BY <2>1, <2>2 DEF SeenRefs, CallRefs
  <2>4. Changes(CellRefs(n)', CellRefs(n), 0) /\ Changes(SeenRefs(n)', SeenRefs(n), 0)
    BY <1>2, <2>2, <2>3, SameBack, SeenBack
  <2>5. CASE n = v
    <3>1. Changes(SlotRefs(n)', SlotRefs(n), -1)
      BY <1>1, <2>2, <2>5, SlotBack
    <3>2. Changes(CallRefs(n)', CallRefs(n), 1)
      BY <1>2, CallBack
    <3>3. refCount'[n] + 2 * (-1 + 0 + 1 + 0) <= refCount[n] /\ refCount'[n] >= 1
      BY <1>1, <2>2
    <3> QED BY <2>4, <3>1, <3>2, <3>3, BalancedBack
  <2>6. CASE n # v
    <3>1. Changes(SlotRefs(n)', SlotRefs(n), 0)
      BY <1>1, <2>2, SlotBack
    <3>2. Changes(CallRefs(n)', CallRefs(n), 0)
      BY <1>2, <2>3, <2>6, CallBack
    <3> QED BY <1>3, <2>2, <2>4, <3>1, <3>2, BalancedBack
  <2> QED BY <2>5, <2>6
<1>5. CASE RetainSeen(t)
  <2>1. /\ seen[t] \in Node /\ refCount' = [refCount EXCEPT ![seen[t]] = Retained(@)]
        /\ pc[t] = "retain" /\ pc' = [pc EXCEPT ![t] = "recheck"]
        /\ UNCHANGED <<local, cell, cpc, cnode, seen>>
    BY <1>5 DEF RetainSeen, Goto, IInv, ControlInv
  <2>2. /\ Changes(SlotRefs(n)', SlotRefs(n), 0) /\ Changes(CellRefs(n)', CellRefs(n), 0)
        /\ Changes(CallRefs(n)', CallRefs(n), 0) /\ t \notin SeenRefs(n)
    BY <2>1, SameBack DEF SeenRefs
  <2>3. CASE n = seen[t]
    <3>1. t \in SeenRefs(n)'
      BY <1>1, <2>1, <2>3 DEF SeenRefs
    <3>2. Changes(SeenRefs(n)', SeenRefs(n), -1)
      BY <1>2, <2>2, <3>1, SeenBack
    <3>3. refCount'[n] + 2 * (0 + 0 + 0 + -1) <= refCount[n] /\ refCount'[n] >= 1
      BY <1>1, <2>1, <2>3 DEF Retained
    <3> QED BY <2>2, <3>2, <3>3, BalancedBack
  <2>4. CASE n # seen[t]
    <3>1. Changes(SeenRefs(n)', SeenRefs(n), 0)
      BY <1>2, <2>2, SeenBack
    <3>2. refCount'[n] = refCount[n]
      BY <1>1, <2>1, <2>4
    <3> QED BY <1>3, <2>2, <3>1, <3>2, BalancedBack
  <2> QED BY <2>3, <2>4
<1>6. ASSUME NEW s \in Slot, RecheckSeen(t, s)
      PROVE  refCount'[n] >= 1 /\ refCount'[n] <= 2 * References(n)' + 1
  <2>1. PICK v : v = seen[t]
    OBVIOUS
  <2>2. /\ local[t][s] = NULL /\ local' = [local EXCEPT ![t][s] = v]
        /\ UNCHANGED <<refCount, cpc, cnode, cell>>
    BY <1>6, <2>1 DEF RecheckSeen, cmemVars
  <2>3. Changes(CellRefs(n)', CellRefs(n), 0) /\ Changes(CallRefs(n)', CallRefs(n), 0)
    BY <2>2, SameBack
  <2>4. CASE n = v
    <3>1. Changes(SlotRefs(n)', SlotRefs(n), -1)
      BY <1>1, <2>2, <2>4, SlotBack
    <3>2. Changes(SeenRefs(n)', SeenRefs(n), 1)
      BY <1>2, SeenBack
    <3>3. refCount'[n] + 2 * (-1 + 0 + 0 + 1) <= refCount[n] /\ refCount'[n] >= 1
      BY <1>1, <2>2
    <3> QED BY <2>3, <3>1, <3>2, <3>3, BalancedBack
  <2>5. CASE n # v
    <3>1. Changes(SlotRefs(n)', SlotRefs(n), 0)
      BY <1>1, <2>2, SlotBack
    <3>2. t \notin SeenRefs(n)
      BY <2>1, <2>5 DEF SeenRefs
    <3>3. Changes(SeenRefs(n)', SeenRefs(n), 0)
      BY <1>2, <3>2, SeenBack
    <3> QED BY <1>3, <2>2, <2>3, <3>1, <3>3, BalancedBack
  <2> QED BY <2>4, <2>5
<1>7. CASE Reread(t)
  <2>1. PICK v : v = seen[t]
    OBVIOUS
  <2>2. /\ pc[t] = "recheck" /\ v \in Node /\ cpc[t] = "idle"
        /\ UNCHANGED <<refCount, local, cell>>
    BY <1>7, <2>1 DEF Reread, CallRelease, IInv, ControlInv
  <2>3. cpc' = [cpc EXCEPT ![t] = "decrement"] /\ cnode' = [cnode EXCEPT ![t] = v]
    BY <1>7, <2>1, <2>2, PoolAssumption DEF Reread, CallRelease, Node, NULL
  <2>4. /\ Changes(SlotRefs(n)', SlotRefs(n), 0) /\ Changes(CellRefs(n)', CellRefs(n), 0)
        /\ t \notin CallRefs(n)
    BY <2>2, SameBack DEF CallRefs
  <2>5. CASE n = v
    <3>1. t \in CallRefs(n)'
      BY <1>1, <2>3, <2>5 DEF CallRefs
    <3>2. Changes(CallRefs(n)', CallRefs(n), -1) /\ Changes(SeenRefs(n)', SeenRefs(n), 1)
      BY <1>2, <2>4, <3>1, CallBack, SeenBack
    <3>3. refCount'[n] + 2 * (0 + 0 + -1 + 1) <= refCount[n] /\ refCount'[n] >= 1
      BY <1>1, <2>2
    <3> QED BY <2>4, <3>2, <3>3, BalancedBack
  <2>6. CASE n # v
    <3>1. t \notin SeenRefs(n)
      BY <2>1, <2>6 DEF SeenRefs
    <3>2. Changes(CallRefs(n)', CallRefs(n), 0) /\ Changes(SeenRefs(n)', SeenRefs(n), 0)
      BY <1>2, <2>4, <3>1, CallBack, SeenBack
    <3> QED BY <1>3, <2>2, <2>4, <3>2, BalancedBack
  <2> QED BY <2>5, <2>6
<1>8. ASSUME NEW s \in Slot, CasPublish(t, s)
      PROVE  refCount'[n] >= 1 /\ refCount'[n] <= 2 * References(n)' + 1
  <2>1. PICK v : v = seen[t]
    OBVIOUS
  <2>2. PICK e \in Cell : e = at[t]
    BY <1>8 DEF CasPublish, IInv, ControlInv
  <2> DEFINE w == toMarkable(v, FALSE)
  <2>3. /\ pc[t] = "publish" /\ local[t][s] = v /\ local' = [local EXCEPT ![t][s] = NULL]
        /\ toPtr_m(cell[e]) = NULL /\ cell' = [cell EXCEPT ![e] = w] /\ toPtr_m(w) = v
        /\ UNCHANGED <<refCount, cpc, cnode>>
    BY <1>8, <2>1, <2>2 DEF CasPublish, cmemVars, toMarkable, toPtr_m, NULL_D
  <2> HIDE DEF w
  <2>4. t \notin SeenRefs(n)
    BY <2>3 DEF SeenRefs
  <2>5. Changes(CallRefs(n)', CallRefs(n), 0) /\ Changes(SeenRefs(n)', SeenRefs(n), 0)
    BY <1>2, <2>3, <2>4, SameBack, SeenBack
  <2>6. CASE n = v
    <3>1. Changes(SlotRefs(n)', SlotRefs(n), 1)
      BY <1>1, <2>3, SlotBack
    <3>2. Changes(CellRefs(n)', CellRefs(n), -1)
      BY <1>1, <2>3, <2>6, CellBack
    <3>3. refCount'[n] + 2 * (1 + -1 + 0 + 0) <= refCount[n] /\ refCount'[n] >= 1
      BY <1>1, <2>3
    <3> QED BY <2>5, <3>1, <3>2, <3>3, BalancedBack
  <2>7. CASE n # v
    <3>1. Changes(SlotRefs(n)', SlotRefs(n), 0)
      BY <1>1, <2>3, <2>7, SlotBack
    <3>2. Changes(CellRefs(n)', CellRefs(n), 0)
      BY <1>1, <2>3, CellBack
    <3> QED BY <1>3, <2>3, <2>5, <3>1, <3>2, BalancedBack
  <2> QED BY <2>6, <2>7
<1>9. CASE CreateFailed(t) \/ Load(t) \/ CasPublishFails(t) \/ ClearForwardLink(t)
  <2>1. UNCHANGED <<local, cell, refCount>>
    BY <1>9 DEF CreateFailed, Load, CasPublishFails, ClearForwardLink, cmemVars
  <2>2. t \notin SeenRefs(n) /\ t \notin CallRefs(n)
    <3>1. pc[t] # "recheck" /\ cpc[t] \in {"idle", "outOfMemory"}
      BY <1>9 DEF CreateFailed, Load, CasPublishFails, ClearForwardLink, IInv, ControlInv
    <3> QED BY <3>1 DEF SeenRefs, CallRefs
  <2>3. /\ Changes(SlotRefs(n)', SlotRefs(n), 0) /\ Changes(CellRefs(n)', CellRefs(n), 0)
        /\ Changes(CallRefs(n)', CallRefs(n), 0) /\ Changes(SeenRefs(n)', SeenRefs(n), 0)
    BY <1>2, <2>1, <2>2, SameBack, CallBack, SeenBack
  <2> QED BY <1>3, <2>1, <2>3, BalancedBack
<1> QED BY <1>4, <1>5, <1>6, <1>7, <1>8, <1>9 DEF Continue

\* The counts stay tight in every reachable state.
LEMMA Tight ==
  ASSUME ~ RetainedLinks
  PROVE  Spec => [](NoLinks /\ CountsTight)
<1>1. ASSUME Init PROVE NoLinks /\ CountsTight
  <2>1. NoLinks /\ \A n \in Node : refCount[n] = 1
    BY <1>1 DEF Init, cmemInit, NoLinks
  <2>2. IInv
    BY <1>1, InitIInv
  <2>3. \A n \in Node : References(n) \in Nat
    BY Cardinals
  <2> QED BY <2>1, <2>3 DEF CountsTight
<1>2. IInv /\ NoLinks /\ CountsTight /\ [Next]_vars => (NoLinks /\ CountsTight)'
  <2>1. ASSUME IInv, NoLinks, CountsTight, NEW t \in Thread, Start(t) \/ Continue(t)
        PROVE  NoLinks' /\ CountsTight'
    <3>1. NoLinks'
      BY <2>1, NoLinksStep
    <3>2. ASSUME NEW n \in Node
          PROVE  refCount'[n] >= 1 /\ refCount'[n] <= 2 * References(n)' + 1
      <4>1. refCount'[n] \in Nat
        BY <2>1, TypeStep DEF TypeOK
      <4> QED BY <2>1, <4>1, CallTightStep, StartTightStep, ContinueTightStep DEF Continue
    <3> QED BY <3>1, <3>2 DEF CountsTight
  <2>2. ASSUME IInv, NoLinks, CountsTight, UNCHANGED vars PROVE NoLinks' /\ CountsTight'
    <3>1. NoLinks' /\ refCount' = refCount
      BY <2>2 DEF vars, cmemVars, NoLinks
    <3>2. ASSUME NEW n \in Node PROVE References(n)' = References(n)
      <4>1. \A m \in Node : LinkGone(m)' <=> LinkGone(m)
        BY <2>2 DEF vars, cmemVars, LinkGone, Pushing, Top
      <4>2. /\ SlotRefs(n)' = SlotRefs(n) /\ CellRefs(n)' = CellRefs(n)
            /\ CallRefs(n)' = CallRefs(n) /\ SeenRefs(n)' = SeenRefs(n)
            /\ LinkRefs(n)' = LinkRefs(n)
        BY <2>2, <4>1 DEF vars, cmemVars, clientVars, SlotRefs, CellRefs, CallRefs, SeenRefs,
           LinkRefs, toPtr_m
      <4> QED BY <4>2 DEF References
    <3> QED BY <2>2, <3>1, <3>2 DEF CountsTight
  <2> QED BY <2>1, <2>2 DEF Next
<1> QED BY <1>1, <1>2, Invariance, PTL DEF Spec

\* Without retained links no reference is lost or counted twice, in the middle of every
\* cmem_allocNode, cmem_releaseNode and readAndRetainNode_d: the node of a reference
\* that is dropped comes back to the pool, neither too early nor never.
THEOREM Exact ==
  ASSUME ~ RetainedLinks
  PROVE  Spec => []CountsExact
<1>1. ASSUME IInv, CountsTight PROVE CountsExact
  <2> SUFFICES ASSUME NEW n \in Node PROVE refCount[n] \div 2 = References(n)
    BY DEF CountsExact
  <2>1. refCount[n] \in Nat /\ References(n) \in Nat
    BY <1>1, Cardinals DEF IInv, TypeOK
  <2>2. refCount[n] >= 2 * References(n) /\ refCount[n] <= 2 * References(n) + 1
    BY <1>1 DEF IInv, CountsSuffice, CountsTight
  <2> QED BY <2>1, <2>2
<1> QED BY <1>1, Invariance, Tight, PTL

-----------------------------------------------------------------------------
(* What an allocation that fails has seen.                                 *)

\* Thread u is working on n, inside a call or between a read and its second look.
Busy(u, n) == n \in Pushing(u) \/ u \in CallRefs(n) \/ u \in SeenRefs(n)

\* A thread works on one node at a time, and is then inside an operation.
LEMMA OneNode ==
  ASSUME IInv, NoLinks, NEW u \in Thread, NEW m \in Node, Busy(u, m)
  PROVE  /\ ~ AtRest(u) /\ cpc[u] # "readHead"
         /\ \A n \in Node : Busy(u, n) => m = n
<1>1. ~ follow[u] /\ claimed[u] \in Seq(Node)
  BY DEF NoLinks, IInv, TypeOK
<1>2. /\ cpc[u] \notin Pushes \cup {"decrement", "readLink"} => claimed[u] = <<>>
      /\ cpc[u] = "decrement" => claimed[u] = <<>>
      /\ cpc[u] # "readLink" /\ Len(claimed[u]) <= 1
      /\ pc[u] = "recheck" => cpc[u] = "idle"
  BY <1>1 DEF IInv, ControlInv
<1>3. claimed[u] = <<>> => Pushing(u) = {}
  <2>1. Len(<<>>) = 0
    OBVIOUS
  <2> QED BY <2>1 DEF Pushing
<1>4. \A x, y \in Pushing(u) : x = y
  <2>1. \A i \in 1 .. Len(claimed[u]) : i = 1
    BY <1>1, <1>2
  <2> QED BY <2>1 DEF Pushing
<1>5. ASSUME NEW n \in Node
      PROVE  /\ n \in Pushing(u) => cpc[u] \in Pushes
             /\ u \in CallRefs(n) => cpc[u] \in Counted /\ cnode[u] = n
             /\ u \in SeenRefs(n) => cpc[u] = "idle" /\ pc[u] = "recheck" /\ seen[u] = n
  BY <1>2, <1>3 DEF CallRefs, SeenRefs, Counted
<1>6. Pushes \cap Counted = {} /\ "idle" \notin Pushes \cup Counted
      /\ "readHead" \notin Pushes \cup Counted
  BY DEF Pushes, Counted
<1>7. \A n \in Node : Busy(u, n) => m = n
  BY <1>4, <1>5, <1>6 DEF Busy
<1>8. ~ AtRest(u) /\ cpc[u] # "readHead"
  BY <1>5, <1>6 DEF Busy, AtRest
<1> QED BY <1>7, <1>8

\* When the free list is empty, some thread works on each node that no slot and no cell
\* refers to.
LEMMA UnusedBusy ==
  ASSUME IInv, NoLinks, CountsTight, ReachInv, toPtr_m(freeList) = NULL,
         NEW n \in Node, SlotRefs(n) = {}, CellRefs(n) = {}
  PROVE  \E u \in Thread : Busy(u, n)
<1>1. ~ InList(n)
  <2>1. Closed({})
    BY DEF Closed
  <2> QED BY <2>1 DEF ReachInv
<1>2. CASE isRetained(n)
  <2>1. refCount[n] \in Nat /\ refCount[n] >= 2 /\ refCount[n] <= 2 * References(n) + 1
    <3>1. refCount[n] \in Nat /\ refCount[n] >= 1 /\ refCount[n] <= 2 * References(n) + 1
      BY DEF IInv, TypeOK, CountsTight
    <3>2. refCount[n] # 1
      BY <1>2 DEF isRetained
    <3> QED BY <3>1, <3>2
  <2>2. References(n) \in Nat /\ References(n) # 0
    BY <2>1, Cardinals
  <2>3. LinkRefs(n) = {}
    BY PoolAssumption DEF NoLinks, LinkRefs, Node, NULL
  <2>4. CallRefs(n) # {} \/ SeenRefs(n) # {}
    <3>1. ASSUME CallRefs(n) = {}, SeenRefs(n) = {} PROVE FALSE
      <4>1. References(n) = 0
        BY <2>3, <3>1, FS_EmptySet DEF References
      <4> QED BY <2>2, <4>1
    <3> QED BY <3>1
  <2>5. CallRefs(n) \subseteq Thread /\ SeenRefs(n) \subseteq Thread
    BY DEF CallRefs, SeenRefs
  <2> QED BY <2>4, <2>5 DEF Busy
<1>3. CASE ~ isRetained(n)
  <2>1. PICK u \in Thread : n \in Pushing(u) \/ Taking(u, n)
    BY <1>1, <1>3 DEF InList
  <2>2. Taking(u, n) => u \in CallRefs(n)
    BY DEF Taking, CallRefs
  <2> QED BY <2>1, <2>2 DEF Busy
<1> QED BY <1>2, <1>3

\* So there are enough of these threads.
LEMMA EnoughBusy ==
  ASSUME IInv, NoLinks, CountsTight, ReachInv, toPtr_m(freeList) = NULL,
         NEW t \in Thread, cpc[t] = "readHead"
  PROVE  Cardinality({n \in Node : SlotRefs(n) = {} /\ CellRefs(n) = {}})
           <= Cardinality({u \in Thread \ {t} : ~ AtRest(u)})
<1> DEFINE S == {n \in Node : SlotRefs(n) = {} /\ CellRefs(n) = {}}
           T == {u \in Thread \ {t} : ~ AtRest(u)}
           f == [n \in S |-> CHOOSE u \in Thread : Busy(u, n)]
<1>1. \A n \in S : n \in Node /\ f[n] \in Thread /\ Busy(f[n], n)
  BY UnusedBusy
<1>2. f \in [S -> T]
  BY <1>1, OneNode
<1>3. \A m, n \in S : f[m] = f[n] => m = n
  BY <1>1, OneNode
<1>4. IsFiniteSet(T) /\ IsFiniteSet(S)
  <2>1. IsFiniteSet(Node) /\ S \subseteq Node /\ T \subseteq Thread
    BY PoolAssumption, FS_Interval DEF Node
  <2> QED BY <2>1, ClientAssumption, FS_Subset
<1>5. f \in Injection(S, T)
  BY <1>2, <1>3 DEF Injection, IsInjective
<1>6. Cardinality(S) <= Cardinality(T)
  <2> HIDE DEF S, T, f
  <2> QED BY <1>4, <1>5, FS_Injection
<1> QED BY <1>6

\* The pool looks empty to an allocation only when it is, but for one node for each other
\* thread that is in the middle of an operation.
THEOREM Empty == Spec => EmptyMeansUsed
<1>1. CASE RetainedLinks
  <2>1. [Next]_vars => [\A t \in Thread :
               cpc[t] = "readHead" /\ cpc'[t] = "outOfMemory" /\ ~ RetainedLinks =>
                 Cardinality({n \in Node : SlotRefs(n) = {} /\ CellRefs(n) = {}})
                   <= Cardinality({u \in Thread \ {t} : ~ AtRest(u)})]_vars
    BY <1>1
  <2> QED BY <2>1, PTL DEF Spec, EmptyMeansUsed
<1>2. CASE ~ RetainedLinks
  <2>1. ASSUME IInv, NoLinks, CountsTight, ReachInv, [Next]_vars
        PROVE  [\A t \in Thread :
                 cpc[t] = "readHead" /\ cpc'[t] = "outOfMemory" /\ ~ RetainedLinks =>
                   Cardinality({n \in Node : SlotRefs(n) = {} /\ CellRefs(n) = {}})
                     <= Cardinality({u \in Thread \ {t} : ~ AtRest(u)})]_vars
    <3> SUFFICES ASSUME NEW t \in Thread, cpc[t] = "readHead", cpc'[t] = "outOfMemory"
                 PROVE  Cardinality({n \in Node : SlotRefs(n) = {} /\ CellRefs(n) = {}})
                          <= Cardinality({u \in Thread \ {t} : ~ AtRest(u)})
      OBVIOUS
    <3>1. PICK v \in Thread : Start(v) \/ Continue(v)
      BY <2>1 DEF Next, vars, cmemVars
    <3>2. v = t
      BY <2>1, <3>1, Others
    <3>3. cpc \in [Thread -> Cpc]
      BY <2>1 DEF IInv, TypeOK
    <3>4. ReadHead(t)
      BY <3>1, <3>2, <3>3 DEF Start, CreateNode, RetainNode, ReleaseNode, ReadAndRetain, LinkNode,
         CasUnlink, SetRetainedLink, AtRest, Continue, cmemStep, RetainHead, RecheckHead,
         ReadNext, CasPop, ClearClaim, ClearNext, Decrement, ReadLink, ClearLink, ReadTop,
         WriteNext, CasPush, Created, CreateFailed, Load, RetainSeen, RecheckSeen, Reread,
         CallRelease, CasPublish, CasPublishFails, ClearForwardLink, cmemVars
    <3>5. toPtr_m(freeList) = NULL
      BY <3>3, <3>4 DEF ReadHead
    <3> QED BY <2>1, <3>5, EnoughBusy
  <2>2. Spec => [](NoLinks /\ CountsTight)
    BY <1>2, Tight
  <2> QED BY <2>1, <2>2, Invariance, Reaching, PTL DEF Spec, EmptyMeansUsed
<1> QED BY <1>1, <1>2

=============================================================================
