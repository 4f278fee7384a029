---------------------------- MODULE LockFreeList ----------------------------
(***************************************************************************)
(* The concurrent sorted list of SPCLockFreeList.c, on top of the          *)
(* allocator of MemoryReclamation: the release build, where assertions are *)
(* not compiled in.  Nodes are linked in the order of their keys, between  *)
(* a head and a tail; a node is deleted by marking its own link and then   *)
(* swinging the link of its predecessor past it.                           *)
(*                                                                         *)
(* Every access to a shared word is one action of the calling thread, as   *)
(* in the allocator; work on a thread's own variables goes with the access *)
(* before it.  The nodes an operation releases one after the other wait in *)
(* todo, and the operation goes on when they have been released.           *)
(***************************************************************************)
EXTENDS MemoryReclamation, FiniteSets, SequencesExt

CONSTANTS Key,        \* keys of elements
          LONG_MAX,   \* the key of the tail; that of the head, LONG_MIN, is 0
          Contents,   \* keys of the initial elements, ascending, below that of the tail
          Op,         \* operations that threads call
          Calls       \* bound: calls made by each thread

LONG_MIN == 0

ASSUME ListAssumption ==
  /\ IsFiniteSet(Thread)
  /\ LONG_MAX \in Nat /\ Key \subseteq LONG_MIN .. LONG_MAX
  /\ Contents \in Seq(Key \ {LONG_MAX}) /\ N >= Len(Contents) + 2
  /\ \A i, j \in 1 .. Len(Contents) : i < j => Contents[i] < Contents[j]
  /\ Op \subseteq {"insert", "extractMinimum", "extractWithKey"}
  /\ Calls \in Nat

\* The first nodes allocated.
head == 1
tail == 2

VARIABLES
  key,        \* key[n]: the key of node n; its data goes with it
  my,         \* my[t]: the local variables of the operation t is in
  calls,      \* calls[t]: how many operations t has started
  published,  \* history: elements with key k linked into the list so far
  delivered   \* history: elements with key k returned by extractions so far

listVars == <<key, my, calls, published, delivered>>
vars == <<cmemVars, listVars>>

\* The local variables between operations.  The references are rPrev, rCurNode
\* (rFirstNode, rNode, rNextNode of the insertion), rNextNode and rNewNode; seen
\* is the word loaded for the next comparison; stage tells what is read:
\* "first", the link of prev; "next", that of cur; "again", that of prev once
\* more after helping a deletion; "delete", none.
Resting ==
  [pc |-> "rest", stage |-> "first", op |-> "none", key |-> LONG_MIN,
   prev |-> NULL, cur |-> NULL, nxt |-> NULL, new |-> NULL,
   seen |-> NULL_D, todo |-> <<>>]

\* Thread t is about to execute the instruction labelled pc.
Ready(t, pc) == my[t].pc = pc /\ my[t].todo = <<>> /\ cpc[t] = "idle"

CanCall(t, op) == Ready(t, "rest") /\ op \in Op /\ calls[t] < Calls

Minimum(t) == my[t].op = "extractMinimum"

Called(t) == calls' = [calls EXCEPT ![t] = @ + 1]

\* The reference to n, if there is one, before those of ns.
AndThen(n, ns) == IF n = NULL THEN ns ELSE <<n>> \o ns

\* The operation is over, but for the references of ns.
Finish(t, ns) == my' = [my EXCEPT ![t] = [Resting EXCEPT !.todo = ns]]

\* The references of ns are released and the operation starts again: a scan from
\* its own reference to the head, the extraction of the minimum with the one it has.
StartAgain(t, ns) ==
  my' = [my EXCEPT ![t] =
    IF Minimum(t)
    THEN [@ EXCEPT !.pc = "load", !.stage = "first", !.cur = NULL, !.nxt = NULL,
                   !.todo = ns]
    ELSE [@ EXCEPT !.pc = "scan", !.prev = NULL, !.cur = NULL, !.nxt = NULL,
                   !.todo = <<my[t].prev>> \o ns]]

Release(t) ==
  /\ my[t].todo # <<>>
  /\ CallRelease(t, Head(my[t].todo), FALSE)
  /\ my' = [my EXCEPT ![t].todo = Tail(@)]
  /\ UNCHANGED <<key, calls, published, delivered>>

\* cmem_retainNode; there is no memory at NULL, and the process dies.
Retain(t, n, label) ==
  /\ IF n = NULL
     THEN /\ my' = [my EXCEPT ![t] = [Resting EXCEPT !.pc = "fault"]]
          /\ UNCHANGED refCount
     ELSE /\ my' = [my EXCEPT ![t].pc = label]
          /\ refCount' = [refCount EXCEPT ![n] = Retained(@)]
  /\ UNCHANGED <<freeList, next, rLink, cpc, cnode, cnext, claimed, inAlloc,
                 follow, key, calls, published, delivered>>

\* A step that changes nothing but local variables.
Local == UNCHANGED <<cmemVars, key, calls, published, delivered>>

\* A step that writes w into the link of n.
Store(n, w) ==
  /\ next' = [next EXCEPT ![n] = w]
  /\ UNCHANGED <<freeList, refCount, rLink, cpc, cnode, cnext, claimed, inAlloc,
                 follow, key, calls>>

-----------------------------------------------------------------------------
(* readAndRetainNode_d.                                                    *)

\* The node whose link is read.
Source(t) == IF my[t].stage = "next" THEN my[t].cur ELSE my[t].prev

\* What the caller does with the node returned, which is NULL when the link was
\* marked.
Got(t, n) ==
  IF my[t].stage = "next"
  THEN my' = [my EXCEPT ![t].nxt = n, ![t].seen = NULL_D,
                        ![t].pc = IF n = NULL THEN "unlink" ELSE "arrived"]
  ELSE IF n = NULL THEN StartAgain(t, <<>>)
  ELSE IF n = tail /\ Minimum(t) /\ my[t].stage = "first"
       THEN Finish(t, <<my[t].prev, n>>)
  ELSE my' = [my EXCEPT ![t].cur = n, ![t].seen = NULL_D, ![t].pc = "load",
                        ![t].stage = "next"]

AtTail(t) == my[t].stage = "next" /\ my[t].cur = tail

Load(t) ==
  /\ Ready(t, "load") /\ ~ AtTail(t)
  /\ LET w == next[Source(t)]
     IN IF isMarked_m(w)
        THEN Got(t, NULL)
        ELSE my' = [my EXCEPT ![t].seen = w, ![t].pc = "retain"]
  /\ Local

RetainSeen(t) ==
  /\ Ready(t, "retain")
  /\ Retain(t, toPtr_m(my[t].seen), "recheck")

MutantStillLinked(t) == TRUE
StillLinked(t) == next[Source(t)] = my[t].seen

Recheck(t) ==
  /\ Ready(t, "recheck")
  /\ IF StillLinked(t)
     THEN Got(t, toPtr_m(my[t].seen))
     ELSE my' = [my EXCEPT ![t].pc = "load", ![t].seen = NULL_D,
                           ![t].todo = <<toPtr_m(my[t].seen)>>]
  /\ Local

-----------------------------------------------------------------------------
(* unlinkNode, by readNextNode_r on the way ("next") or by the extraction  *)
(* of the minimum ("delete").                                              *)

Deleting(t) == my[t].stage = "delete"

ReadUnlinked(t) ==
  /\ Ready(t, "unlink")
  /\ my' = [my EXCEPT ![t].seen = toMarkable_m(next[my[t].cur], FALSE),
                      ![t].pc = "casUnlink"]
  /\ Local

\* The element with key k is about to be returned by t.
Deliver(k) == delivered' = [delivered EXCEPT ![k] = @ + 1]

MutantPrecedes(t) == TRUE
\* The comparison of the CAS on the link of prev.
Precedes(t) == next[my[t].prev] = toMarkable(my[t].cur, FALSE)

CasUnlink(t) ==
  /\ Ready(t, "casUnlink")
  /\ Precedes(t)
  /\ Store(my[t].prev, my[t].seen)
  /\ my' = [my EXCEPT ![t].pc = "clear", ![t].seen = NULL_D]
  /\ IF Deleting(t) THEN Deliver(key[my[t].cur]) ELSE UNCHANGED delivered
  /\ UNCHANGED published

MutantAfterFailedUnlink(t) == my' = [my EXCEPT ![t].pc = "unlink"]
\* Somebody else has changed the link of prev: the operation starts again.
AfterFailedUnlink(t) ==
  StartAgain(t, IF my[t].nxt = NULL THEN <<my[t].cur>> ELSE <<my[t].cur, my[t].nxt>>)

UnlinkFails(t) ==
  /\ Ready(t, "casUnlink")
  /\ ~ Precedes(t)
  /\ AfterFailedUnlink(t)
  /\ Local

MutantUnlinked == toMarkable(NULL, FALSE)
\* The link of a node that has left the list.
Unlinked == NULL_D

\* A helper drops its own reference to the node, the extraction of the minimum
\* its references one by one.
ClearUnlinked(t) ==
  /\ Ready(t, "clear")
  /\ Store(my[t].cur, Unlinked)
  /\ my' = [my EXCEPT ![t] =
       IF Deleting(t)
       THEN [@ EXCEPT !.pc = "clearExtracted", !.prev = NULL, !.nxt = NULL,
                      !.todo = <<my[t].nxt, my[t].prev, my[t].cur>>]
       ELSE [@ EXCEPT !.pc = "load", !.stage = "again", !.cur = NULL,
                      !.todo = <<my[t].cur>>]]
  /\ UNCHANGED <<published, delivered>>

-----------------------------------------------------------------------------
(* readNextNode_r returns: the loop of scanForKey_r.                       *)

StartScan(t) ==
  /\ Ready(t, "scan")
  /\ refCount' = [refCount EXCEPT ![head] = Retained(@)]
  /\ my' = [my EXCEPT ![t].prev = head, ![t].stage = "first", ![t].pc = "load"]
  /\ UNCHANGED <<freeList, next, rLink, cpc, cnode, cnext, claimed, inAlloc,
                 follow, key, calls, published, delivered>>

\* The tail has no next node to read.
ReachTail(t) ==
  /\ Ready(t, "load") /\ AtTail(t)
  /\ my' = [my EXCEPT ![t].pc = "arrived"]
  /\ Local

NoNext(t) == my[t].nxt = NULL /\ (Minimum(t) \/ my[t].cur # tail)

\* Only a help that ended at the tail brings the extraction of the minimum here.
Unreachable(t) ==
  /\ Ready(t, "arrived")
  /\ NoNext(t)
  /\ StartAgain(t, <<my[t].cur>>)
  /\ Local

Arrived(t) == Ready(t, "arrived") /\ ~ NoNext(t)

MutantFarEnough(t) == key[my[t].cur] > my[t].key
FarEnough(t) == key[my[t].cur] >= my[t].key

Advance(t) ==
  /\ Arrived(t) /\ ~ Minimum(t)
  /\ ~ FarEnough(t)
  /\ my' = [my EXCEPT ![t].pc = "load", ![t].stage = "next",
              ![t].prev = my[t].cur, ![t].cur = my[t].nxt, ![t].nxt = NULL,
              ![t].todo = <<my[t].prev>>]
  /\ Local

\* The scan returns cur; its caller compares the keys.
Found(t) ==
  /\ Arrived(t) /\ ~ Minimum(t)
  /\ FarEnough(t)
  /\ LET m == my[t]
         match == key[m.cur] = m.key
     IN CASE m.op = "insert" /\ match ->
               my' = [my EXCEPT ![t] = [Resting EXCEPT !.pc = "clearNew", !.new = m.new,
                        !.todo = AndThen(m.nxt, <<m.cur, m.prev, m.new>>)]]
          [] m.op = "extractWithKey" /\ ~ match ->
               Finish(t, AndThen(m.nxt, <<m.prev, m.cur>>))
          [] OTHER ->
               my' = [my EXCEPT ![t].pc = IF match THEN "grab" ELSE "link",
                        ![t].nxt = NULL, ![t].todo = AndThen(m.nxt, <<>>)]
  /\ Local

-----------------------------------------------------------------------------
(* SPCLockFreeListInsertElement.                                           *)

Insert(t, k) ==
  /\ CanCall(t, "insert")
  /\ CallAlloc(t)
  /\ my' = [my EXCEPT ![t] = [Resting EXCEPT !.pc = "create", !.op = "insert", !.key = k]]
  /\ Called(t)
  /\ UNCHANGED <<key, published, delivered>>

\* createNode, and the reference that the list will own.
Created(t) ==
  /\ my[t].pc = "create" /\ cpc[t] = "allocated"
  /\ key' = [key EXCEPT ![cnode[t]] = my[t].key]
  /\ next' = [next EXCEPT ![cnode[t]] = toMarkable(NULL, FALSE)]
  /\ refCount' = [refCount EXCEPT ![cnode[t]] = Retained(@)]
  /\ my' = [my EXCEPT ![t].new = cnode[t], ![t].pc = "scan"]
  /\ cpc' = [cpc EXCEPT ![t] = "idle"]
  /\ cnode' = [cnode EXCEPT ![t] = NULL]
  /\ UNCHANGED <<freeList, rLink, cnext, claimed, inAlloc, follow, calls,
                 published, delivered>>

CreateFailed(t) ==
  /\ my[t].pc = "create" /\ cpc[t] = "outOfMemory"
  /\ Finish(t, <<>>)
  /\ cpc' = [cpc EXCEPT ![t] = "idle"]
  /\ UNCHANGED <<freeList, refCount, next, rLink, cnode, cnext, claimed,
                 inAlloc, follow, key, calls, published, delivered>>

\* An element with the key is in the list: the new node is deleted.
ClearNew(t) ==
  /\ Ready(t, "clearNew")
  /\ Store(my[t].new, toMarkable(NULL, FALSE))
  /\ Finish(t, <<my[t].new>>)
  /\ UNCHANGED <<published, delivered>>

Link(t) ==
  /\ Ready(t, "link")
  /\ Store(my[t].new, toMarkable(my[t].cur, FALSE))
  /\ my' = [my EXCEPT ![t].pc = "publish"]
  /\ UNCHANGED <<published, delivered>>

Publish(t) ==
  /\ Ready(t, "publish")
  /\ Precedes(t)
  /\ Store(my[t].prev, toMarkable(my[t].new, FALSE))
  /\ Finish(t, <<my[t].cur, my[t].prev, my[t].new>>)
  /\ published' = [published EXCEPT ![my[t].key] = @ + 1]
  /\ UNCHANGED delivered

PublishFails(t) ==
  /\ Ready(t, "publish")
  /\ ~ Precedes(t)
  /\ StartAgain(t, <<my[t].cur>>)
  /\ Local

-----------------------------------------------------------------------------
(* The extractions.                                                        *)

ExtractMinimumElement(t) ==
  /\ CanCall(t, "extractMinimum")
  /\ refCount' = [refCount EXCEPT ![head] = Retained(@)]
  /\ my' = [my EXCEPT ![t] = [Resting EXCEPT !.pc = "load", !.op = "extractMinimum",
                                             !.prev = head]]
  /\ Called(t)
  /\ UNCHANGED <<freeList, next, rLink, cpc, cnode, cnext, claimed, inAlloc,
                 follow, key, published, delivered>>

ExtractElementWithKey(t, k) ==
  /\ CanCall(t, "extractWithKey")
  /\ my' = [my EXCEPT ![t] = [Resting EXCEPT !.pc = "scan", !.op = "extractWithKey",
                                             !.key = k]]
  /\ Called(t)
  /\ UNCHANGED <<cmemVars, key, published, delivered>>

\* A node that has been marked in the meantime is unlinked and extracted all the
\* same.
CheckMark(t) ==
  /\ Arrived(t) /\ Minimum(t)
  /\ IF isMarked_m(next[my[t].cur])
     THEN my' = [my EXCEPT ![t].pc = "unlink", ![t].stage = "delete"]
     ELSE my' = [my EXCEPT ![t].pc = "mark"]
  /\ Local

\* The next node is read from the link again, and retained without a second look.
Grab(t) ==
  /\ Ready(t, "grab")
  /\ my' = [my EXCEPT ![t].nxt = toPtr_m(next[my[t].cur]), ![t].pc = "grabRetain"]
  /\ Local

RetainGrabbed(t) ==
  /\ Ready(t, "grabRetain")
  /\ Retain(t, my[t].nxt, "mark")

MutantMarked(n) == toMarkable(n, FALSE)
Marked(n) == toMarkable(n, TRUE)

Mark(t) ==
  /\ Ready(t, "mark")
  /\ next[my[t].cur] = toMarkable(my[t].nxt, FALSE)
  /\ Store(my[t].cur, Marked(my[t].nxt))
  /\ my' = [my EXCEPT ![t].pc = IF Minimum(t) THEN "unlink" ELSE "casUnlinkKey",
                      ![t].stage = "delete"]
  /\ UNCHANGED <<published, delivered>>

MarkFails(t) ==
  /\ Ready(t, "mark")
  /\ next[my[t].cur] # toMarkable(my[t].nxt, FALSE)
  /\ StartAgain(t, <<my[t].cur, my[t].nxt>>)
  /\ Local

\* The element of the minimum has been extracted: its link is cleared once more
\* and the reference of the list is dropped.
ClearExtracted(t) ==
  /\ Ready(t, "clearExtracted")
  /\ Store(my[t].cur, Unlinked)
  /\ Finish(t, <<my[t].cur>>)
  /\ UNCHANGED <<published, delivered>>

CasUnlinkKey(t) ==
  /\ Ready(t, "casUnlinkKey")
  /\ Precedes(t)
  /\ Store(my[t].prev, toMarkable(my[t].nxt, FALSE))
  /\ Finish(t, <<my[t].prev, my[t].nxt, my[t].cur, my[t].cur>>)
  /\ Deliver(key[my[t].cur])
  /\ UNCHANGED published

UnlinkKeyFails(t) ==
  /\ Ready(t, "casUnlinkKey")
  /\ ~ Precedes(t)
  /\ StartAgain(t, <<my[t].cur, my[t].nxt>>)
  /\ Local

-----------------------------------------------------------------------------
\* SPCLockFreeListInit, and the insertion of the initial elements: the first
\* nodes of the pool are head, tail and the elements in the order of their keys.
Init ==
  LET last == Len(Contents) + 2
      After(n) == CASE n = head -> IF last = 2 THEN tail ELSE 3
                    [] n = tail \/ (n = N /\ n # last) -> NULL
                    [] n = last /\ n # tail -> tail
                    [] OTHER -> n + 1
  IN /\ freeList = toMarkable(IF N = last THEN NULL ELSE last + 1, FALSE)
     /\ refCount = [n \in Node |-> IF n <= last THEN 2 ELSE 1]
     /\ next = [n \in Node |-> toMarkable(After(n), FALSE)]
     /\ key = [n \in Node |-> CASE n = tail -> LONG_MAX
                                [] n \in 3 .. last -> Contents[n - 2]
                                [] OTHER -> LONG_MIN]
     /\ rLink = [n \in Node |-> NULL]
     /\ cpc = [t \in Thread |-> "idle"]
     /\ cnode = [t \in Thread |-> NULL]
     /\ cnext = [t \in Thread |-> NULL_D]
     /\ claimed = [t \in Thread |-> <<>>]
     /\ inAlloc = [t \in Thread |-> FALSE]
     /\ follow = [t \in Thread |-> FALSE]
     /\ my = [t \in Thread |-> Resting]
     /\ calls = [t \in Thread |-> 0]
     /\ published = [k \in Key |-> IF k \in Range(Contents) THEN 1 ELSE 0]
     /\ delivered = [k \in Key |-> 0]

Start(t) ==
  \/ \E k \in Key : Insert(t, k) \/ ExtractElementWithKey(t, k)
  \/ ExtractMinimumElement(t)

\* Thread t continues the operation it is in.
Continue(t) ==
  \/ cmemStep(t) /\ UNCHANGED listVars
  \/ Release(t)
  \/ Load(t) \/ RetainSeen(t) \/ Recheck(t)
  \/ ReadUnlinked(t) \/ CasUnlink(t) \/ UnlinkFails(t) \/ ClearUnlinked(t)
  \/ StartScan(t) \/ ReachTail(t) \/ Unreachable(t) \/ Advance(t) \/ Found(t)
  \/ Created(t) \/ CreateFailed(t) \/ ClearNew(t)
  \/ Link(t) \/ Publish(t) \/ PublishFails(t)
  \/ CheckMark(t) \/ Grab(t) \/ RetainGrabbed(t) \/ Mark(t) \/ MarkFails(t)
  \/ ClearExtracted(t) \/ CasUnlinkKey(t) \/ UnlinkKeyFails(t)

Next == \E t \in Thread : Start(t) \/ Continue(t)

Spec == Init /\ [][Next]_vars

\* Some thread that is inside an operation runs, any other may be suspended.
LockFreeSpec == Spec /\ WF_vars(\E t \in Thread : Continue(t))

-----------------------------------------------------------------------------
(* Properties.                                                             *)

Ref == Node \cup {NULL}

Pc == {"rest", "fault", "scan", "load", "retain", "recheck", "unlink", "casUnlink",
       "clear", "arrived", "create", "clearNew", "link", "publish", "mark",
       "grab", "grabRetain", "clearExtracted", "casUnlinkKey"}

\* Every variable of the list has its type.
TypeOK ==
  /\ next \in [Node -> MarkablePointer(Ref)]
  /\ refCount \in [Node -> Nat]
  /\ key \in [Node -> LONG_MIN .. LONG_MAX]
  /\ my \in [Thread ->
       [pc : Pc, stage : {"first", "next", "again", "delete"}, op : Op \cup {"none"},
        key : Key \cup {LONG_MIN}, prev : Ref, cur : Ref, nxt : Ref, new : Ref,
        seen : MarkablePointer(Ref), todo : Seq(Node)]]
  /\ calls \in [Thread -> 0 .. Calls]
  /\ published \in [Key -> Nat] /\ delivered \in [Key -> Nat]

\* The node at place i of the chain that starts at the head, whatever the marks.
ChainAt ==
  LET node[i \in 1 .. N] ==
        IF i = 1 THEN head
        ELSE LET prev == node[i - 1]
             IN IF prev \in {NULL, tail} THEN NULL ELSE toPtr_m(next[prev])
  IN node

Linked == {ChainAt[i] : i \in 1 .. N} \ {NULL}

Elements == Linked \ {head, tail}

LinkedKeys == {key[n] : n \in Elements}

\* Whatever is inserted and deleted at the same time, the chain from the head
\* ends at the tail and its keys ascend: no deletion cuts off the rest of the
\* list, no insertion links a node in the wrong place or twice.
ListSorted ==
  /\ tail \in Linked
  /\ \A i \in 2 .. N - 1 :
       ChainAt[i + 1] # NULL => key[ChainAt[i]] < key[ChainAt[i + 1]]

\* The nodes whose fields thread t goes on to read or write.
Used(t) ==
  LET m == my[t]
  IN ({m.prev, m.cur, m.new} \cup (IF m.op = "extractWithKey" THEN {} ELSE {m.nxt}))
       \ {NULL}

\* No node is reclaimed while it is linked, or while an operation reads or
\* writes its fields: the assertions of retainNode, releaseNode and
\* readNextNode_r.  (The extraction by key only compares its next node.)
UsedNotReclaimed ==
  \A n \in Linked \cup UNION {Used(t) : t \in Thread} : isRetained(n)

\* No element is returned by two extractions, nor returned and left in the list.
ExtractedOnce ==
  \A k \in Key :
    delivered[k] + Cardinality({n \in Elements : key[n] = k}) <= published[k]

\* The extraction of the minimum takes the smallest key in the list at the time.
TakesMinimum ==
  [][\A t \in Thread :
       delivered' # delivered /\ my'[t] # my[t] /\ Minimum(t)
         => \A k \in LinkedKeys : key[my[t].cur] <= k]_vars

KS == INSTANCE KeySet WITH contents <- LinkedKeys, Initial <- Range(Contents)

\* The list is a set of keys that changes one key at a time: a deletion never
\* takes a node with it that is being inserted next to the deleted one.
ImplementsKeySet == KS!Spec

\* No operation reads or writes through NULL.
NoFault == \A t \in Thread : my[t].pc # "fault"

Quiet == \A t \in Thread : Ready(t, "rest")

\* When no operation is under way, an element that has left the list has been
\* returned by an extraction.
NothingLost ==
  Quiet => \A k \in Key :
    published[k] <= delivered[k] + Cardinality({n \in Elements : key[n] = k})

\* When no operation is under way, a node out of the list is back in the pool.
NodesReturned == Quiet => \A n \in Node : isRetained(n) => n \in Linked

\* Only the extraction by key dereferences NULL: whatever it leaves behind, insertions
\* and extractions of the minimum find their way.
FaultByKeyOnly ==
  [][\A t \in Thread :
       my[t].pc # "fault" /\ my'[t].pc = "fault" => my[t].op = "extractWithKey"]_vars

\* Lock freedom: the calls under way (boundedly many) all return although only
\* some thread is sure to run, any other being suspended at any instruction; unless
\* the process dies of a fault.
LockFree == []<>(Quiet \/ ~ NoFault)
=============================================================================
