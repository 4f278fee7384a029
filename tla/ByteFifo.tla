------------------------------ MODULE ByteFifo ------------------------------
(***************************************************************************)
(* What the ring buffer promises its one producer and its one consumer: a  *)
(* bounded queue of bytes.  Batches go in whole at one end, and come out   *)
(* whole at the other, in the order they went in.                          *)
(***************************************************************************)
EXTENDS Naturals, Sequences

CONSTANTS Byte,      \* the bytes
          Capacity   \* how many of them the queue holds

VARIABLES queue,     \* the bytes published and not consumed
          taken      \* the batch consumed last

fifoVars == <<queue, taken>>

Init == queue = <<>> /\ taken = <<>>

\* The producer publishes a batch, if there is room for it.
Put(batch) ==
  /\ batch # <<>>
  /\ Len(queue) + Len(batch) <= Capacity
  /\ queue' = queue \o batch
  /\ UNCHANGED taken

\* The consumer takes the first n bytes.
Get(n) ==
  /\ taken' = SubSeq(queue, 1, n)
  /\ queue' = SubSeq(queue, n + 1, Len(queue))

\* The consumer drops the first n bytes unread.
Drop(n) ==
  /\ queue' = SubSeq(queue, n + 1, Len(queue))
  /\ UNCHANGED taken

Next ==
  \/ \E k \in 1 .. Capacity : \E batch \in [1 .. k -> Byte] : Put(batch)
  \/ \E n \in 1 .. Len(queue) : Get(n) \/ Drop(n)

Spec == Init /\ [][Next]_fifoVars
=============================================================================
