----------------------------- MODULE RingBuffer -----------------------------
(***************************************************************************)
(* The ring buffer of SPCRingBuffer.h, used as its documentation says: by  *)
(* one producer thread and one consumer thread.  The only word both write  *)
(* is fillCount; tailOffset belongs to the consumer, headOffset to the     *)
(* producer.  The bytes are copied by the callers, between a Get... and a  *)
(* Mark... call, one at a time and in any interleaving.                    *)
(*                                                                         *)
(* The memory behind the buffer is mapped twice in a row (RingBufferInit), *)
(* so offset o of the second mapping is byte o % Length.                   *)
(***************************************************************************)
EXTENDS Naturals, Sequences

CONSTANTS Byte,     \* the bytes that are written
          Length    \* _length, in bytes

ASSUME LengthAssumption == Length \in Nat \ {0}

VARIABLES
  buffer,       \* the bytes, at 0 .. Length - 1
  tailOffset,   \* where the consumer reads
  headOffset,   \* where the producer writes
  fillCount,    \* the bytes published and not consumed
  wpc,          \* where the producer is
  wavail,       \* the bytes GetForWrite told the producer it may write
  wlen,         \* the bytes the producer has written since
  rpc,          \* where the consumer is
  ravail,       \* the bytes GetForRead told the consumer it may read
  rdata,        \* the bytes the consumer has copied since
  rlen,         \* the bytes the consumer marks as read
  taken         \* history: the batch consumed last

producerVars == <<headOffset, wpc, wavail, wlen>>
consumerVars == <<tailOffset, rpc, ravail, rdata, rlen, taken>>
vars == <<buffer, fillCount, producerVars, consumerVars>>

Place(offset) == offset % Length

MutantAdvanced(offset, n) == offset + n
Advanced(offset, n) == (offset + n) % Length

-----------------------------------------------------------------------------
(* The producer.                                                           *)

MutantRoom == Length
Room == Length - fillCount

\* A full buffer gives NULL: the producer has nothing to write to.
GetForWrite ==
  /\ wpc = "idle"
  /\ Room # 0
  /\ wavail' = Room
  /\ wlen' = 0
  /\ wpc' = "write"
  /\ UNCHANGED <<buffer, fillCount, headOffset, consumerVars>>

WriteByte(b) ==
  /\ wpc = "write"
  /\ wlen < wavail
  /\ buffer' = [buffer EXCEPT ![Place(headOffset + wlen)] = b]
  /\ wlen' = wlen + 1
  /\ UNCHANGED <<fillCount, headOffset, wpc, wavail, consumerVars>>

\* SPCRingBufferMarkWritten is two steps: the offset, then the count.
MarkWrittenOffset ==
  /\ wpc = "write"
  /\ wlen > 0
  /\ headOffset' = Advanced(headOffset, wlen)
  /\ wpc' = "publish"
  /\ UNCHANGED <<buffer, fillCount, wavail, wlen, consumerVars>>

MarkWrittenCount ==
  /\ wpc = "publish"
  /\ fillCount' = fillCount + wlen
  /\ wavail' = 0
  /\ wlen' = 0
  /\ wpc' = "idle"
  /\ UNCHANGED <<buffer, headOffset, consumerVars>>

-----------------------------------------------------------------------------
(* The consumer.                                                           *)

GetForRead ==
  /\ rpc = "idle"
  /\ fillCount # 0
  /\ ravail' = fillCount
  /\ rdata' = <<>>
  /\ rpc' = "read"
  /\ UNCHANGED <<buffer, fillCount, tailOffset, rlen, taken, producerVars>>

ReadByte ==
  /\ rpc = "read"
  /\ Len(rdata) < ravail
  /\ rdata' = Append(rdata, buffer[Place(tailOffset + Len(rdata))])
  /\ UNCHANGED <<buffer, fillCount, tailOffset, rpc, ravail, rlen, taken,
                 producerVars>>

\* SPCRingBufferMarkRead is two steps: the offset, then the count.
MarkReadOffset ==
  /\ rpc = "read"
  /\ rdata # <<>>
  /\ rlen' = Len(rdata)
  /\ tailOffset' = Advanced(tailOffset, Len(rdata))
  /\ rpc' = "release"
  /\ UNCHANGED <<buffer, fillCount, ravail, rdata, taken, producerVars>>

\* SPCRingBufferClear: GetForRead, then MarkRead of all it found, unread.
Clear ==
  /\ rpc = "read"
  /\ rdata = <<>>
  /\ rlen' = ravail
  /\ tailOffset' = Advanced(tailOffset, ravail)
  /\ rpc' = "release"
  /\ UNCHANGED <<buffer, fillCount, ravail, rdata, taken, producerVars>>

MarkReadCount ==
  /\ rpc = "release"
  /\ fillCount' = fillCount - rlen
  /\ taken' = IF rdata = <<>> THEN taken ELSE rdata
  /\ ravail' = 0
  /\ rdata' = <<>>
  /\ rlen' = 0
  /\ rpc' = "idle"
  /\ UNCHANGED <<buffer, tailOffset, producerVars>>

-----------------------------------------------------------------------------
\* The state SPCRingBufferInit leaves when it succeeds.
Init ==
  /\ buffer \in [0 .. Length - 1 -> Byte]
  /\ tailOffset = 0 /\ headOffset = 0 /\ fillCount = 0
  /\ wpc = "idle" /\ wavail = 0 /\ wlen = 0
  /\ rpc = "idle" /\ ravail = 0 /\ rdata = <<>> /\ rlen = 0
  /\ taken = <<>>

Producer ==
  \/ GetForWrite
  \/ \E b \in Byte : WriteByte(b)
  \/ MarkWrittenOffset
  \/ MarkWrittenCount

Consumer ==
  \/ GetForRead
  \/ ReadByte
  \/ MarkReadOffset
  \/ Clear
  \/ MarkReadCount

Next == Producer \/ Consumer

Spec == Init /\ [][Next]_vars

-----------------------------------------------------------------------------
(* Properties.                                                             *)

\* Every variable has its type; the count never exceeds the length (the
\* assertion of SPCRingBufferMarkWritten), nor goes below zero.
TypeOK ==
  /\ buffer \in [0 .. Length - 1 -> Byte]
  /\ tailOffset \in 0 .. Length - 1
  /\ headOffset \in 0 .. Length - 1
  /\ fillCount \in 0 .. Length
  /\ wpc \in {"idle", "write", "publish"}
  /\ wavail \in 0 .. Length
  /\ wlen \in 0 .. Length
  /\ rpc \in {"idle", "read", "release"}
  /\ ravail \in 0 .. Length
  /\ rdata \in Seq(Byte)
  /\ rlen \in 0 .. Length
  /\ taken \in Seq(Byte)

\* Where the unread bytes start, whether or not the consumer has moved the
\* offset past the batch it is giving back.
Start ==
  IF rpc = "release" THEN (tailOffset + (Length - rlen)) % Length
                     ELSE tailOffset

\* The bytes published and not consumed, oldest first.
Contents == [i \in 1 .. fillCount |-> buffer[Place(Start + (i - 1))]]

\* The bytes the consumer may be reading, and those the producer may be writing.
Readable ==
  IF rpc = "read" THEN {Place(tailOffset + i) : i \in 0 .. ravail - 1} ELSE {}

Writable ==
  IF wpc = "write" THEN {Place(headOffset + i) : i \in 0 .. wavail - 1} ELSE {}

\* The chunk handed to the reader and the chunk handed to the writer never
\* overlap, though each was computed from a count the other has changed since.
ChunksDisjoint == Readable \cap Writable = {}

Fifo == INSTANCE ByteFifo WITH queue <- Contents, Capacity <- Length

\* The ring buffer is a bounded queue of bytes: what the consumer copies out of
\* its chunk is what the producer published, in order, none lost or repeated.
ImplementsFifo == Fifo!Spec
=============================================================================
