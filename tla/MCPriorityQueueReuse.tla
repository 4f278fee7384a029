------------------------ MODULE MCPriorityQueueReuse ------------------------
(***************************************************************************)
(* Two long behaviours of PriorityQueue, each driven by a schedule, in     *)
(* which a node is reclaimed while it is linked: the key of the node found *)
(* in isNodeUnlinkedAtLevel is read after the node has been released, when *)
(* it may have been used again for another key.  Every step is one of      *)
(* PriorityQueue, so that what TLC finds here the specification allows.    *)
(***************************************************************************)
EXTENDS PriorityQueue

CONSTANT Schedule

\* How much of the schedule has been done.
VARIABLE stage

\* Thread t runs, with the calls op, until it comes to pc with nothing to release; with
\* the predecessor prev if that is not NULL, in the frame at a given depth if that is not 0.
Run(t, op, pc, prev, depth) == [t |-> t, op |-> op, pc |-> pc, prev |-> prev, depth |-> depth]

Extract == [key |-> 0, height |-> 0]

Insert(k, h) == [key |-> k, height |-> h]

Runs(r) ==
  IF ~ At(r.t, "rest") THEN Continue(r.t)
  ELSE IF r.op = Extract THEN ExtractMinimumElement(r.t)
  ELSE InsertElement(r.t, r.op.key, r.op.height)

Arrives(r) ==
  LET f == Head(stack'[r.t])
  IN /\ f.pc = r.pc /\ f.todo = <<>>
     /\ r.prev \in {NULL, f.prev}
     /\ r.depth \in {0, Len(stack'[r.t])}

ScheduledInit == Init /\ stage = 1

ScheduledNext ==
  /\ stage <= Len(Schedule)
  /\ Runs(Schedule[stage])
  /\ Record
  /\ stage' = IF Arrives(Schedule[stage]) THEN stage + 1 ELSE stage

Scheduled == ScheduledInit /\ [][ScheduledNext]_<<vars, stage>>

-----------------------------------------------------------------------------
(* One level, two consumers a and b, one producer p.                       *)

One == <<[key |-> 2, height |-> 1]>>

\* a takes node 3.  A duplicate in front of it, node 4, is taken by b; a, which looks
\* for node 3 among the duplicates, helps there.  p inserts a smaller key, node 5: a
\* comes to it, releases it, and is about to read its key.
\* b extracts node 5, p takes it for a larger key: now a believes that node 3 is unlinked.
TwoConsumers ==
  <<Run("a", Extract, "markAll", NULL, 0), Run("p", Insert(2, 1), "rest", NULL, 0),
    Run("b", Extract, "markAll", NULL, 0), Run("a", Extract, "read", 4, 0),
    Run("a", Extract, "load", head, 3), Run("p", Insert(1, 1), "rest", NULL, 0),
    Run("a", Extract, "decide", NULL, 0), Run("b", Extract, "rest", NULL, 0),
    Run("b", Extract, "rest", NULL, 0), Run("p", Insert(3, 1), "enter", NULL, 0),
    Run("a", Extract, "rest", NULL, 0)>>

-----------------------------------------------------------------------------
(* Two levels, one consumer c, two producers p and q.                      *)

Empty == <<>>

\* p inserts node 3, which is extracted before p has linked it on level 1.  p links it
\* there too late, and has to unlink it again: it takes the part of a above, q that of p,
\* and c that of b.
TwoLevels ==
  <<Run("p", Insert(2, 2), "linkUpper", NULL, 0), Run("c", Extract, "rest", NULL, 0),
    Run("p", Insert(2, 2), "linked", NULL, 0), Run("q", Insert(2, 2), "rest", NULL, 0),
    Run("p", Insert(2, 2), "read", 4, 0), Run("c", Extract, "markAll", NULL, 0),
    Run("p", Insert(2, 2), "load", head, 3), Run("q", Insert(1, 2), "rest", NULL, 0),
    Run("p", Insert(2, 2), "decide", NULL, 0), Run("c", Extract, "rest", NULL, 0),
    Run("c", Extract, "rest", NULL, 0), Run("q", Insert(3, 1), "enter", NULL, 0),
    Run("p", Insert(2, 2), "rest", NULL, 0)>>
=============================================================================
