--------------------------- MODULE PriorityQueue ----------------------------
(***************************************************************************)
(* The lock-free priority queue of SPCPriorityQueue.c: a skip list whose   *)
(* nodes are linked in the order of their keys on level 0 and, up to their *)
(* heights, on the levels above.  An element is extracted by marking the   *)
(* data of its node, which takes it; then its links are marked and it is   *)
(* unlinked level by level, by the extraction and by whoever meets it.     *)
(* The release build is modelled, where assertions are not compiled in.    *)
(*                                                                         *)
(* Every access to a shared word is one action of the calling thread.  The *)
(* functions call each other recursively: stack[t] holds the frames of     *)
(* thread t, the active one first.  A frame of readNextNode_r and of the   *)
(* loop of scanForKey_r around it is a scan; one of                        *)
(* helpDeleteAndReleaseNode_r goes on as one of unlinkNodeAtLevel.  The    *)
(* nodes that a frame releases one after the other wait in todo.           *)
(*                                                                         *)
(* The allocator underneath (MemoryReclamation, where it is taken apart)   *)
(* is used in single steps: an allocation, a decrement, a push.            *)
(***************************************************************************)
EXTENDS MarkablePointers, FiniteSets, SequencesExt

CONSTANTS Producer,    \* threads that insert
          Consumer,    \* threads that extract and peek
          N,           \* nodes in the pool, those of head and tail included
          kMaxLevels,
          Key,         \* keys of elements
          KEY_MAX,     \* the key of the tail (SPC_PQ_KEY_MAX)
          Contents,    \* [key, height] of the initial elements, ascending
          Calls        \* bound: calls made by each thread

Thread == Producer \cup Consumer
Node == 1 .. N
Level == 0 .. kMaxLevels - 1

ASSUME QueueAssumption ==
  /\ kMaxLevels \in Nat \ {0} /\ KEY_MAX \in Nat /\ Key \subseteq Nat
  /\ N \in Nat /\ N >= Len(Contents) + 2 /\ Calls \in Nat
  /\ Contents \in Seq([key : 1 .. KEY_MAX - 1, height : 1 .. kMaxLevels])
  /\ \A i, j \in DOMAIN Contents : i < j => Contents[i].key < Contents[j].key

\* The first nodes allocated.
head == 1
tail == 2

VARIABLES
  node,     \* node[n]: the fields of node n
  free,     \* the free list, its head first
  stack,    \* stack[t]: the frames of thread t, the active one first
  calls,    \* calls[t]: how many operations t has started
  lowest    \* history, lowest[t]: the keys that have been the smallest in the
            \*   queue (KEY_MAX: none) since t started its extraction

vars == <<node, free, stack, calls, lowest>>

\* The fields of _SPCPriorityQueueNode: data belongs to one call of the
\* insertion (<<>>: NULL), and its mark says that the element has been taken.
NewNode(k, e, h, count) ==
  [refCount |-> count, key |-> k, data |-> toMarkable(e, FALSE),
   next |-> [l \in Level |-> toMarkable(NULL, FALSE)],
   rPrev |-> NULL, height |-> h, validTo |-> 0]

\* A frame.  seen is the word loaded for the next comparison; at runs over
\* levels; other is a second predecessor; drop says that the result (of a scan)
\* or the node (of an unlink) is released on return.
Resting ==
  [pc |-> "rest", node |-> NULL, prev |-> NULL, nxt |-> NULL, other |-> NULL,
   level |-> 0, at |-> 0, key |-> 0, seen |-> NULL_D, drop |-> FALSE,
   saved |-> [l \in Level |-> NULL], todo |-> <<>>]

Top(t) == Head(stack[t])

\* Thread t is about to execute the instruction labelled pc.
At(t, pc) == Top(t).pc = pc /\ Top(t).todo = <<>>

Local == UNCHANGED <<node, free, calls>>
Access == UNCHANGED <<free, calls>>

Goto(t, f) == stack' = [stack EXCEPT ![t] = <<f>> \o Tail(@)]

\* Frame f of t calls g.
Call(t, f, g) == stack' = [stack EXCEPT ![t] = <<g, f>> \o Tail(@)]

Caller(t) == stack[t][2]

Refs(nodes) == [i \in DOMAIN nodes |-> toMarkable(nodes[i], FALSE)]

\* The active frame returns its predecessor and next node (NULL: discarded); the
\* caller releases nodes before it goes on.
Return(t, prev, nxt, nodes) ==
  LET c == [Caller(t) EXCEPT !.prev = prev, !.nxt = nxt, !.todo = Refs(nodes)]
  IN stack' = [stack EXCEPT ![t] = <<c>> \o SubSeq(@, 3, Len(@))]

\* The operation ends with the release of nodes.
Finish(t, nodes) == Goto(t, [Resting EXCEPT !.todo = Refs(nodes)])

-----------------------------------------------------------------------------
(* References (retainNode, releaseNode).                                   *)

Retained(n) == [node EXCEPT ![n].refCount = @ + 2]

isRetained(n) == node[n].refCount % 2 = 0

MutantDecremented(old) == old - 2
\* With its last reference the node gets its claim bit.
Decremented(old) == IF old = 2 THEN 1 ELSE old - 2

\* A reference is given back; with the last one the node is claimed, its
\* retained link released, and the node pushed (a marked entry of todo).
Release(t) ==
  LET f == Top(t)
      n == Head(f.todo).ptr
      last == node[n].refCount = 2
      Then(entries) == Goto(t, [f EXCEPT !.todo = entries \o Tail(@)])
  IN /\ f.todo # <<>>
     /\ \/ /\ isMarked_m(Head(f.todo)) \/ (last /\ node[n].rPrev = NULL)
           /\ node' = [node EXCEPT ![n].rPrev = NULL,
                        ![n].refCount = IF isMarked_m(Head(f.todo)) THEN @ ELSE Decremented(@)]
           /\ free' = <<n>> \o free
           /\ Then(<<>>)
        \/ /\ ~ isMarked_m(Head(f.todo)) /\ ~ (last /\ node[n].rPrev = NULL)
           /\ node' = [node EXCEPT ![n].refCount = Decremented(@)]
           /\ Then(IF last THEN <<toMarkable(node[n].rPrev, FALSE), toMarkable(n, TRUE)>>
                           ELSE <<>>)
           /\ UNCHANGED free
     /\ UNCHANGED calls

-----------------------------------------------------------------------------
(* readNextNode_r with readAndRetainNode_d, in the loop of scanForKey_r.   *)

\* scanForKey_r from prev; with key 0 it stops at once: readNextNode_r.
Scan(prev, level, key, drop) ==
  [Resting EXCEPT !.pc = "read", !.prev = prev, !.level = level, !.key = key,
                  !.drop = drop]

\* helpDeleteAndReleaseNode_r
Help(n, level) ==
  [Resting EXCEPT !.pc = "mark", !.node = n, !.level = level, !.at = level,
                  !.drop = TRUE]

ReadMark(t) ==
  LET f == [Top(t) EXCEPT !.pc = "load"]
  IN /\ At(t, "read")
     /\ IF isMarked_m(node[f.prev].data)
        THEN Call(t, f, Help(f.prev, f.level))
        ELSE Goto(t, f)
     /\ Local

\* Retaining NULL is a fault: the thread stops there.
Load(t) ==
  LET f == Top(t)
      w == node[f.prev].next[f.level]
  IN /\ At(t, "load")
     /\ IF isMarked_m(w)
        THEN Call(t, f, Help(f.prev, f.level))
        ELSE Goto(t, [f EXCEPT !.seen = w,
                        !.pc = IF w.ptr = NULL THEN "fault" ELSE "retain"])
     /\ Local

RetainSeen(t) ==
  /\ At(t, "retain")
  /\ node' = Retained(Top(t).seen.ptr)
  /\ Goto(t, [Top(t) EXCEPT !.pc = "recheck"])
  /\ Access

StillLinked(f) == node[f.prev].next[f.level] = f.seen

MutantFarEnough(n, key) == node[n].key > key
FarEnough(n, key) == node[n].key >= key

Recheck(t) ==
  LET f == Top(t)
      n == f.seen.ptr
  IN /\ At(t, "recheck")
     /\ IF ~ StillLinked(f)
        THEN Goto(t, [f EXCEPT !.pc = "load", !.todo = Refs(<<n>>)])
        ELSE IF FarEnough(n, f.key)
        THEN IF f.drop THEN Return(t, f.prev, NULL, <<n>>) ELSE Return(t, f.prev, n, <<>>)
        ELSE Goto(t, [f EXCEPT !.pc = "read", !.prev = n, !.todo = Refs(<<f.prev>>)])
     /\ Local

-----------------------------------------------------------------------------
(* helpDeleteAndReleaseNode_r, and the marking of the links by an          *)
(* extraction ("markAll").                                                 *)

MarkLink(t, pc, done) ==
  LET f == Top(t)
  IN /\ At(t, pc)
     /\ node' = [node EXCEPT ![f.node].next[f.at] = toMarkable_m(@, TRUE)]
     /\ Goto(t, [f EXCEPT !.at = @ + 1,
                   !.pc = IF f.at + 1 < node[f.node].height THEN pc ELSE done])
     /\ Access

\* Without a retained link the predecessor is searched from the head.
ReadPrev(t) ==
  LET f == Top(t)
      p == node[f.node].rPrev
  IN /\ At(t, "rprev")
     /\ Goto(t, IF p = NULL
                THEN [f EXCEPT !.prev = head, !.at = kMaxLevels - 1, !.pc = "hold"]
                ELSE [f EXCEPT !.prev = p, !.pc = "valid"])
     /\ Local

\* So it is when the retained link is not linked yet on this level.
CheckPrev(t) ==
  LET f == Top(t)
  IN /\ At(t, "valid")
     /\ Goto(t, IF f.level >= node[f.prev].validTo
                THEN [f EXCEPT !.prev = head, !.at = kMaxLevels - 1, !.pc = "hold"]
                ELSE [f EXCEPT !.at = f.level - 1, !.pc = "hold"])
     /\ Local

HoldPrev(t) ==
  /\ At(t, "hold")
  /\ node' = Retained(Top(t).prev)
  /\ Goto(t, [Top(t) EXCEPT !.pc = "descend"])
  /\ Access

Descend(t) ==
  LET f == Top(t)
  IN /\ At(t, "descend")
     /\ IF f.at >= f.level
        THEN Call(t, [f EXCEPT !.at = @ - 1], Scan(f.prev, f.at, node[f.node].key, TRUE))
        ELSE Goto(t, [f EXCEPT !.pc = "unlink"])
     /\ Local

-----------------------------------------------------------------------------
(* unlinkNodeAtLevel with isNodeUnlinkedAtLevel.                           *)

Unlink(n, prev, level) ==
  [Resting EXCEPT !.pc = "unlink", !.node = n, !.prev = prev, !.level = level]

ReturnUnlinked(t) ==
  Return(t, Top(t).prev, Caller(t).nxt,
         IF Top(t).drop THEN <<Top(t).node>> ELSE <<>>)

Cleared(f) == node[f.node].next[f.level] = NULL_D

\* The link of an unlinked node is cleared: nothing is left to do.
CheckCleared(t) ==
  LET f == Top(t)
  IN /\ At(t, "unlink")
     /\ IF Cleared(f)
        THEN ReturnUnlinked(t)
        ELSE Call(t, [f EXCEPT !.pc = "check"],
                  Scan(f.prev, f.level, node[f.node].key, FALSE))
     /\ Local

SameKey(f) == f.nxt # f.node /\ node[f.nxt].key = node[f.node].key

\* Another node with the key: the search goes on behind it, from a second
\* reference to the predecessor.  The reference to the other node is forgotten.
CheckSame(t) ==
  LET f == Top(t)
  IN /\ At(t, "check") /\ SameKey(f)
     /\ node' = Retained(f.prev)
     /\ Call(t, [f EXCEPT !.pc = "checkNext", !.other = f.prev],
             Scan(f.prev, f.level, 0, FALSE))
     /\ Access

CheckFound(t) ==
  LET f == Top(t)
  IN /\ At(t, "check") /\ ~ SameKey(f)
     /\ Goto(t, [f EXCEPT !.pc = "decide", !.todo = Refs(<<f.nxt>>)])
     /\ Local

\* prev is the temporary predecessor here, other the one to come back to.
CheckNext(t) ==
  LET f == Top(t)
      onto == IF f.nxt = f.node THEN f.prev ELSE f.other
      off  == IF f.nxt = f.node THEN f.other ELSE f.prev
  IN /\ At(t, "checkNext")
     /\ IF SameKey(f)
        THEN Call(t, [f EXCEPT !.todo = <<>>],
                  [Scan(f.nxt, f.level, 0, FALSE) EXCEPT !.todo = Refs(<<f.prev>>)])
        ELSE Goto(t, [f EXCEPT !.pc = "decide", !.prev = onto, !.other = NULL,
                               !.todo = Refs(<<off, f.nxt>>)])
     /\ Local

MutantBehind(f) == node[f.nxt].key >= node[f.node].key
\* The key of the node found is read after its release.
Behind(f) == node[f.nxt].key > node[f.node].key

Decide(t) ==
  LET f == Top(t)
  IN /\ At(t, "decide")
     /\ IF Behind(f)
        THEN ReturnUnlinked(t)
        ELSE Goto(t, [f EXCEPT !.pc = "recheckCleared", !.nxt = NULL])
     /\ Local

RecheckCleared(t) ==
  /\ At(t, "recheckCleared")
  /\ IF Cleared(Top(t))
     THEN ReturnUnlinked(t)
     ELSE Goto(t, [Top(t) EXCEPT !.pc = "readNext"])
  /\ Local

ReadNext(t) ==
  LET f == Top(t)
  IN /\ At(t, "readNext")
     /\ Goto(t, [f EXCEPT !.seen = toMarkable_m(node[f.node].next[f.level], FALSE),
                          !.pc = "casUnlink"])
     /\ Local

Precedes(f) == node[f.prev].next[f.level] = toMarkable(f.node, FALSE)

MutantAfterFailedUnlink == "readNext"
AfterFailedUnlink == "unlink"

CasUnlink(t) ==
  LET f == Top(t)
  IN /\ At(t, "casUnlink")
     /\ IF Precedes(f)
        THEN /\ node' = [node EXCEPT ![f.prev].next[f.level] = f.seen]
             /\ Goto(t, [f EXCEPT !.pc = "clear", !.seen = NULL_D])
        ELSE /\ UNCHANGED node
             /\ Goto(t, [f EXCEPT !.pc = AfterFailedUnlink, !.seen = NULL_D])
     /\ Access

Clear(t) ==
  LET f == Top(t)
  IN /\ At(t, "clear")
     /\ node' = [node EXCEPT ![f.node].next[f.level] = NULL_D]
     /\ ReturnUnlinked(t)
     /\ Access

-----------------------------------------------------------------------------
(* SPCPriorityQueueInsertElement.                                          *)

CanCall(t) == At(t, "rest") /\ calls[t] < Calls

Called(t) == calls' = [calls EXCEPT ![t] = @ + 1]

\* chooseRandomHeight: any height.
Heights == 1 .. kMaxLevels

\* createNode, and the reference that the queue will own.  An empty pool ends
\* the call.
InsertElement(t, k, h) ==
  LET n == Head(free)
  IN /\ t \in Producer /\ CanCall(t)
     /\ IF free = <<>>
        THEN UNCHANGED <<node, free, stack>>
        ELSE /\ free' = Tail(free)
             /\ node' = [node EXCEPT ![n] =
                           NewNode(k, <<t, calls[t]>>, h, @.refCount + 3)]
             /\ Goto(t, [Resting EXCEPT !.pc = "enter", !.node = n, !.key = k])
     /\ Called(t)

\* Frame f goes on with the scan of level l, from the predecessor above.
Below(t, f, l) ==
  IF l >= 1 THEN Call(t, [f EXCEPT !.pc = "save", !.level = l], Scan(f.prev, l, f.key, TRUE))
            ELSE Call(t, [f EXCEPT !.pc = "found", !.level = 0], Scan(f.prev, 0, f.key, FALSE))

Enter(t) ==
  /\ At(t, "enter")
  /\ node' = Retained(head)
  /\ Below(t, [Top(t) EXCEPT !.prev = head], kMaxLevels - 1)
  /\ Access

\* The predecessor is remembered on the levels of the new node.
Save(t) ==
  LET f == Top(t)
      wanted == f.level < node[f.node].height
  IN /\ At(t, "save")
     /\ node' = IF wanted THEN Retained(f.prev) ELSE node
     /\ Below(t, IF wanted THEN [f EXCEPT !.saved[f.level] = f.prev] ELSE f, f.level - 1)
     /\ Access

\* The key is compared with that of the node found, tail included.
Found(t) ==
  LET f == Top(t)
      w == node[f.nxt].data
  IN /\ At(t, "found")
     /\ Goto(t, IF ~ isMarked_m(w) /\ node[f.nxt].key = f.key
                THEN [f EXCEPT !.pc = "replace", !.seen = w]
                ELSE [f EXCEPT !.pc = "link"])
     /\ Local

\* The predecessors remembered on the levels above.
Saved(f) == [l \in 1 .. node[f.node].height - 1 |-> f.saved[l]]

MutantSameData(f) == TRUE
SameData(f) == node[f.nxt].data = f.seen

\* An element with the key gives way to the new one; the new node is deleted.
Replace(t) ==
  LET f == Top(t)
  IN /\ At(t, "replace")
     /\ IF SameData(f)
        THEN /\ node' = [node EXCEPT ![f.nxt].data = node[f.node].data]
             /\ Finish(t, <<f.prev, f.nxt>> \o Saved(f) \o <<f.node, f.node>>)
        ELSE /\ UNCHANGED node
             /\ Call(t, [f EXCEPT !.pc = "found", !.seen = NULL_D],
                     [Scan(f.prev, 0, f.key, FALSE) EXCEPT !.todo = Refs(<<f.nxt>>)])
     /\ Access

\* Frame f goes on with the next level up.
Above(t, f) ==
  Goto(t, [f EXCEPT !.pc = "raise", !.level = @ + 1, !.prev = NULL, !.nxt = NULL,
                    !.todo = Refs(<<f.nxt, f.prev>>)])

CanLink(f) == node[f.prev].next[f.level] = toMarkable(f.nxt, FALSE)

\* The new node's own link, private until now, is set before the CAS.
Link(t) ==
  LET f == Top(t)
      set == [node EXCEPT ![f.node].next[0] = toMarkable(f.nxt, FALSE)]
  IN /\ At(t, "link")
     /\ IF CanLink(f)
        THEN /\ node' = [set EXCEPT ![f.prev].next[0] = toMarkable(f.node, FALSE)]
             /\ Above(t, f)
        ELSE /\ node' = set
             /\ Call(t, [f EXCEPT !.pc = "found"],
                     [Scan(f.prev, 0, f.key, FALSE) EXCEPT !.todo = Refs(<<f.nxt>>)])
     /\ Access

\* The next level is prepared, or the insertion is complete.
Raise(t) ==
  LET f == Top(t)
      high == f.level < node[f.node].height
  IN /\ At(t, "raise")
     /\ node' = [node EXCEPT ![f.node].validTo = f.level]
     /\ IF high
        THEN Call(t, [f EXCEPT !.pc = "setUpper", !.saved[f.level] = NULL],
                  Scan(f.saved[f.level], f.level, f.key, FALSE))
        ELSE Goto(t, [f EXCEPT !.pc = "final"])
     /\ Access

\* This store may overwrite a deletion mark.
SetUpper(t) ==
  LET f == Top(t)
  IN /\ At(t, "setUpper")
     /\ node' = [node EXCEPT ![f.node].next[f.level] = toMarkable(f.nxt, FALSE)]
     /\ Goto(t, [f EXCEPT !.pc = "checkMark"])
     /\ Access

Taken(n) == isMarked_m(node[n].data)

\* The element has been taken in the meantime: the level is left alone.
CheckMark(t) ==
  LET f == Top(t)
  IN /\ At(t, "checkMark")
     /\ IF Taken(f.node) THEN Above(t, f) ELSE Goto(t, [f EXCEPT !.pc = "linkUpper"])
     /\ Local

LinkUpper(t) ==
  LET f == Top(t)
  IN /\ At(t, "linkUpper")
     /\ IF CanLink(f)
        THEN /\ node' = [node EXCEPT ![f.prev].next[f.level] = toMarkable(f.node, FALSE)]
             /\ Goto(t, [f EXCEPT !.pc = "linked"])
        ELSE /\ UNCHANGED node
             /\ Call(t, [f EXCEPT !.pc = "setUpper"],
                     [Scan(f.prev, f.level, f.key, FALSE) EXCEPT !.todo = Refs(<<f.nxt>>)])
     /\ Access

MutantTooLate(n) == FALSE
\* Was the element taken while its node was being linked?
TooLate(n) == Taken(n)

CheckLate(t) ==
  LET f == Top(t)
  IN /\ At(t, "linked")
     /\ IF TooLate(f.node) THEN Goto(t, [f EXCEPT !.pc = "late"]) ELSE Above(t, f)
     /\ Local

\* A level linked too late for the extraction to see is unlinked again.
UndoLate(t) ==
  LET f == Top(t)
  IN /\ At(t, "late")
     /\ IF Cleared(f)
        THEN Above(t, f)
        ELSE Call(t, [f EXCEPT !.pc = "undone"], Unlink(f.node, f.prev, f.level))
     /\ Local

Undone(t) == At(t, "undone") /\ Above(t, Top(t)) /\ Local

Final(t) ==
  LET f == Top(t)
  IN /\ At(t, "final")
     /\ IF Taken(f.node)
        THEN Call(t, [f EXCEPT !.pc = "helped", !.node = NULL], Help(f.node, 0))
        ELSE Finish(t, <<f.node>>)
     /\ Local

\* The help has released the node and returns its predecessor.
Helped(t) == At(t, "helped") /\ Finish(t, <<Top(t).prev>>) /\ Local

-----------------------------------------------------------------------------
(* SPCPriorityQueueExtractMinimumElement.                                  *)

ExtractMinimumElement(t) ==
  /\ t \in Consumer /\ CanCall(t)
  /\ node' = Retained(head)
  /\ Call(t, [Resting EXCEPT !.pc = "first"], Scan(head, 0, 0, FALSE))
  /\ Called(t)
  /\ UNCHANGED free

\* Is the node found still the first one behind its predecessor?
First(t) ==
  LET f == Top(t)
  IN /\ At(t, "first")
     /\ CASE f.nxt = tail -> Finish(t, <<f.prev, f.nxt>>)
          [] f.nxt # tail /\ node[f.prev].next[0].ptr = f.nxt ->
               Goto(t, [f EXCEPT !.pc = "readData"])
          [] OTHER ->
               Call(t, f, [Scan(f.prev, 0, 0, FALSE) EXCEPT !.todo = Refs(<<f.nxt>>)])
     /\ Local

\* The node of an element taken by another extraction is deleted, and the
\* search goes on from its predecessor.
ReadData(t) ==
  LET f == Top(t)
      w == node[f.nxt].data
  IN /\ At(t, "readData")
     /\ IF isMarked_m(w)
        THEN Call(t, [f EXCEPT !.pc = "next", !.other = f.prev, !.nxt = NULL], Help(f.nxt, 0))
        ELSE Goto(t, [f EXCEPT !.pc = "take", !.seen = w])
     /\ Local

NextFirst(t) ==
  LET f == Top(t)
  IN /\ At(t, "next")
     /\ Call(t, [f EXCEPT !.pc = "first", !.other = NULL],
             [Scan(f.prev, 0, 0, FALSE) EXCEPT !.todo = Refs(<<f.other>>)])
     /\ Local

\* The element is taken by marking its data.
Take(t) ==
  LET f == Top(t)
  IN /\ At(t, "take")
     /\ IF SameData(f)
        THEN /\ node' = [node EXCEPT ![f.nxt].data = toMarkable_m(@, TRUE)]
             /\ Goto(t, [f EXCEPT !.pc = "setPrev"])
        ELSE /\ UNCHANGED node
             /\ Goto(t, [f EXCEPT !.pc = "first", !.seen = NULL_D])
     /\ Access

\* The node takes over the reference to its predecessor.
SetPrev(t) ==
  LET f == Top(t)
  IN /\ At(t, "setPrev")
     /\ node' = [node EXCEPT ![f.nxt].rPrev = f.prev]
     /\ Goto(t, [Resting EXCEPT !.pc = "markAll", !.node = f.nxt])
     /\ Access

EnterAgain(t) ==
  LET f == Top(t)
      l == node[f.node].height - 1
  IN /\ At(t, "again")
     /\ node' = Retained(head)
     /\ Call(t, [f EXCEPT !.pc = "below", !.level = l], Unlink(f.node, head, l))
     /\ Access

UnlinkBelow(t) ==
  LET f == Top(t)
      l == f.level - 1
  IN /\ At(t, "below")
     /\ IF f.level = 0
        THEN Finish(t, <<f.prev, f.node, f.node>>)
        ELSE Call(t, [f EXCEPT !.level = l], Unlink(f.node, f.prev, l))
     /\ Local

-----------------------------------------------------------------------------
(* SPCPriorityQueuePeek_MPSC.                                              *)

\* The first node is not retained: the operation is for a single consumer.
Peek(t) ==
  LET n == toPtr_m(node[head].next[0])
  IN /\ Consumer = {t} /\ CanCall(t)
     /\ Goto(t, IF n = tail THEN Resting ELSE [Resting EXCEPT !.pc = "peek", !.nxt = n])
     /\ Called(t)
     /\ UNCHANGED <<node, free>>

Peeked(t) == At(t, "peek") /\ Goto(t, Resting) /\ Local

-----------------------------------------------------------------------------
\* The chain of level l from the head, whatever the marks; 0 where it has ended.
Chain(l) ==
  LET at[i \in Node] ==
        IF i = 1 THEN head
        ELSE IF at[i - 1] \in {NULL, tail} THEN NULL
        ELSE toPtr_m(node[at[i - 1]].next[l])
  IN at

Linked(l) == Range(Chain(l)) \ {NULL}

\* The nodes of the elements that are in the queue.
Live == {n \in Linked(0) \ {head, tail} : ~ Taken(n)}

LowestKey ==
  LET keys == {node[n].key : n \in Live} \cup {KEY_MAX}
  IN CHOOSE k \in keys : \A j \in keys : k <= j

\* Is thread t looking for the minimum?
Searching(t) ==
  \E i \in DOMAIN stack[t] : stack[t][i].pc \in {"first", "readData", "next", "take"}

\* SPCPriorityQueueInit, and the insertion of the initial elements: the first
\* nodes of the pool are head, tail and the elements in the order of their keys.
LastInUse == Len(Contents) + 2

HeightInUse(n) == IF n <= 2 THEN kMaxLevels ELSE Contents[n - 2].height

AfterInUse(n, l) ==
  LET higher == {m \in 3 .. LastInUse : HeightInUse(m) > l /\ (n = head \/ m > n)}
  IN IF higher = {} THEN tail ELSE CHOOSE m \in higher : \A j \in higher : m <= j

LinkInUse(n, l) ==
  toMarkable(IF n = tail \/ l >= HeightInUse(n) THEN NULL ELSE AfterInUse(n, l), FALSE)

KeyInUse(n) == CASE n = head -> 0 [] n = tail -> KEY_MAX [] OTHER -> Contents[n - 2].key

InUse(n) ==
  [NewNode(KeyInUse(n), IF n <= 2 THEN <<>> ELSE <<n>>, HeightInUse(n), 2)
   EXCEPT !.next = [l \in Level |-> LinkInUse(n, l)], !.validTo = HeightInUse(n)]

Init ==
  /\ node = [n \in Node |-> IF n <= LastInUse THEN InUse(n) ELSE NewNode(0, <<>>, 0, 1)]
  /\ free = [i \in 1 .. N - LastInUse |-> LastInUse + i]
  /\ stack = [t \in Thread |-> <<Resting>>]
  /\ calls = [t \in Thread |-> 0]
  /\ lowest = [t \in Thread |-> {}]

Start(t) ==
  \/ \E k \in Key, h \in Heights : InsertElement(t, k, h)
  \/ ExtractMinimumElement(t)
  \/ Peek(t)

\* Thread t continues the operation it is in.
Continue(t) ==
  \/ Release(t)
  \/ ReadMark(t) \/ Load(t) \/ RetainSeen(t) \/ Recheck(t)
  \/ MarkLink(t, "mark", "rprev") \/ MarkLink(t, "markAll", "again")
  \/ ReadPrev(t) \/ CheckPrev(t) \/ HoldPrev(t) \/ Descend(t)
  \/ CheckCleared(t) \/ CheckSame(t) \/ CheckFound(t) \/ CheckNext(t) \/ Decide(t)
  \/ RecheckCleared(t) \/ ReadNext(t) \/ CasUnlink(t) \/ Clear(t)
  \/ Enter(t) \/ Save(t) \/ Found(t) \/ Replace(t) \/ Link(t) \/ Raise(t)
  \/ SetUpper(t) \/ CheckMark(t) \/ LinkUpper(t) \/ CheckLate(t) \/ UndoLate(t)
  \/ Undone(t) \/ Final(t) \/ Helped(t)
  \/ First(t) \/ ReadData(t) \/ NextFirst(t) \/ Take(t) \/ SetPrev(t)
  \/ EnterAgain(t) \/ UnlinkBelow(t) \/ Peeked(t)

\* The history of the smallest key goes with every step.
Record ==
  lowest' = [t \in Thread |->
    IF Searching(t)' THEN {LowestKey'} \cup (IF Searching(t) THEN lowest[t] ELSE {}) ELSE {}]

Next == (\E t \in Thread : Start(t) \/ Continue(t)) /\ Record

Spec == Init /\ [][Next]_vars

\* Some thread that is inside an operation runs, any other may be suspended.
LockFreeSpec == Spec /\ WF_vars((\E t \in Thread : Continue(t)) /\ Record)

-----------------------------------------------------------------------------
(* Properties.                                                             *)

Ref == Node \cup {NULL}

\* Every variable has its type.
TypeOK ==
  /\ \A n \in Node :
       /\ node[n].refCount \in Nat /\ node[n].height \in 0 .. kMaxLevels
       /\ node[n].next \in [Level -> MarkablePointer(Ref)]
       /\ node[n].rPrev \in Ref /\ node[n].validTo \in 0 .. kMaxLevels
  /\ free \in Seq(Node)
  /\ \A t \in Thread : \A i \in DOMAIN stack[t] :
       LET f == stack[t][i]
       IN /\ {f.node, f.prev, f.nxt, f.other} \cup Range(f.saved) \subseteq Ref
          /\ f.level \in 0 .. kMaxLevels /\ f.todo \in Seq(MarkablePointer(Ref))
  /\ calls \in [Thread -> 0 .. Calls]

\* No operation reads or writes through NULL.
NoFault == \A t \in Thread : Top(t).pc # "fault"

\* Whatever is inserted and deleted at the same time, every level leads from the
\* head to the tail with ascending keys, and no two elements have the same key.
LevelsSorted ==
  /\ \A l \in Level :
       LET chain == Chain(l)
       IN /\ \E i \in Node : chain[i] = tail
          /\ \A i \in 2 .. N - 1 : chain[i + 1] # NULL
               => node[chain[i]].key <= node[chain[i + 1]].key
  /\ \A m, n \in Live : m # n => node[m].key # node[n].key

\* The nodes whose fields thread t goes on to read or write: all that its active
\* frame refers to (the found node, when its key is read after its release, and
\* the node peeked at are the exceptions), what the waiting frames keep.
Used(t) ==
  LET f == Top(t)
      Kept(g) == {g.node, g.other} \cup Range(g.saved)
  IN ((IF f.pc \in {"decide", "peek"} THEN {} ELSE {f.nxt}) \cup {f.prev}
        \cup UNION {Kept(stack[t][i]) : i \in DOMAIN stack[t]}) \ {NULL}

\* No node is reclaimed while it is linked on some level, or while an operation
\* reads or writes its fields: the assertions of retainNode, releaseNode and
\* readNextNode_r.
UsedNotReclaimed ==
  /\ \A l \in Level : \A n \in Linked(l) : isRetained(n)
  /\ \A t \in Thread : \A n \in Used(t) : isRetained(n)

\* With one consumer the node peeked at, which nobody retains, is neither
\* reclaimed nor taken before its data has been read.
PeekValid ==
  \A t \in Thread : At(t, "peek") => isRetained(Top(t).nxt) /\ ~ Taken(Top(t).nxt)

\* An extraction takes an element whose key was the smallest in the queue at
\* some time during the call, and finds the queue empty only if it was.
TakesMinimum ==
  [][\A t \in Thread :
       /\ Top(t).pc = "take" /\ Head(stack'[t]).pc = "setPrev"
            => node[Top(t).nxt].key \in lowest[t]
       /\ At(t, "first") /\ Top(t).nxt = tail => KEY_MAX \in lowest[t]]_vars

\* The queue as a set of keys with their elements.
QueueContents ==
  [k \in {node[n].key : n \in Live} |->
     toPtr_m(node[CHOOSE n \in Live : node[n].key = k].data)]

\* The element that an extraction is about to return.
Extracted == [t \in Consumer |-> IF At(t, "setPrev") THEN Top(t).seen.ptr ELSE <<>>]

KM == INSTANCE KeyMap WITH contents <- QueueContents, got <- Extracted

\* The queue is a map from keys to elements that changes one key at a time, by
\* an insertion under its key or by an extraction, which returns the element it
\* takes: nothing is lost, nothing comes back, nothing is returned twice.
ImplementsKeyMap == KM!Spec

Quiet == \A t \in Thread : At(t, "rest")

\* When no operation is under way, a node is in the pool or in the queue with
\* the one reference of the queue.
NodesReturned ==
  Quiet => \A n \in Node : node[n].refCount \in {1, 2} /\ (isRetained(n) => n \in Linked(0))

\* Lock freedom: the calls under way all return although only some thread is
\* sure to run, any other being suspended at any instruction.
LockFree == []<>Quiet
=============================================================================
