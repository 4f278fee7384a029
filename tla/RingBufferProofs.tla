-------------------------- MODULE RingBufferProofs --------------------------
(***************************************************************************)
(* The ring buffer is a bounded queue of bytes, for every length and every *)
(* set of bytes: proofs for RingBuffer.                                    *)
(*                                                                         *)
(* The invariant speaks of offsets without %: an offset plus at most       *)
(* Length wraps at most once.                                              *)
(***************************************************************************)
EXTENDS RingBuffer, TLAPS

Wrapped(x) == IF x < Length THEN x ELSE x - Length

\* The bytes between the two offsets: those counted, without the ones being
\* given back and with the ones being published.
Distance ==
  (fillCount - (IF rpc = "release" THEN rlen ELSE 0))
    + (IF wpc = "publish" THEN wlen ELSE 0)

\* The offsets agree with the count, whatever both sides are in the middle of.
OffsetsInv == headOffset = Wrapped(tailOffset + Distance)

\* The consumer never holds more than the count, the producer never more than
\* the rest: each side only ever changes the count in the other's favour.
ConsumerInv ==
  /\ rpc = "idle" => rlen = 0 /\ rdata = <<>>
  /\ rpc = "read" => ravail \in 1 .. fillCount /\ Len(rdata) <= ravail
  /\ rpc = "release" => /\ rlen \in 1 .. fillCount
                        /\ rdata = <<>> \/ Len(rdata) = rlen

ProducerInv ==
  /\ wpc = "write" => wavail <= Length - fillCount /\ wlen <= wavail
  /\ wpc = "publish" => wlen \in 1 .. Length - fillCount

\* What the consumer has copied is still what the buffer holds.
CopyInv ==
  \A i \in 1 .. Len(rdata) : rdata[i] = buffer[Place(Start + (i - 1))]

IInv == TypeOK /\ OffsetsInv /\ ConsumerInv /\ ProducerInv /\ CopyInv

-----------------------------------------------------------------------------
(* Arithmetic.                                                             *)

\* A modulus of something below twice the divisor subtracts it at most once.
LEMMA WrapOnce ==
  ASSUME NEW x \in 0 .. 2 * Length - 1
  PROVE  /\ x % Length = Wrapped(x)
         /\ Wrapped(x) \in 0 .. Length - 1
<1>1. CASE x < Length
  BY <1>1, LengthAssumption DEF Wrapped
<1>2. CASE ~(x < Length)
  <2>1. x = Length + (x - Length) /\ x - Length \in 0 .. Length - 1
    BY <1>2, LengthAssumption
  <2>2. x % Length = x - Length
    BY <1>2, <2>1, LengthAssumption
  <2> QED BY <1>2, <2>1, <2>2 DEF Wrapped
<1> QED BY <1>1, <1>2

\* The sum of two offsets is taken modulo the length by one subtraction at most.
LEMMA SumWrapsOnce ==
  ASSUME NEW x \in 0 .. Length - 1, NEW y \in 0 .. Length - 1
  PROVE  (x + y) % Length = Wrapped(x + y)
<1>1. x + y \in 0 .. 2 * Length - 1
  BY LengthAssumption
<1> QED BY <1>1, WrapOnce

-----------------------------------------------------------------------------
(* The invariant is inductive.                                             *)

\* The inductive invariant holds at first.
LEMMA InitIInv == Init => IInv
<1> SUFFICES ASSUME Init PROVE IInv
  OBVIOUS
<1>1. TypeOK
  BY LengthAssumption DEF Init, TypeOK
<1>2. OffsetsInv /\ ConsumerInv /\ ProducerInv
  BY LengthAssumption DEF Init, OffsetsInv, ConsumerInv, ProducerInv, Distance,
     Wrapped
<1>3. CopyInv
  BY DEF Init, CopyInv
<1> QED BY <1>1, <1>2, <1>3 DEF IInv

\* The first unread byte stays where it is while the consumer moves the offset.
LEMMA StartFacts ==
  ASSUME IInv
  PROVE  /\ Start \in 0 .. Length - 1
         /\ rpc # "release" => Start = tailOffset
         /\ rpc = "release" => tailOffset = Wrapped(Start + rlen)
         /\ \A i \in 0 .. Length :
              Place(Start + i) = Wrapped(Start + i) /\ Place(Start + i) \in 0 .. Length - 1
<1> USE LengthAssumption
<1>1. /\ tailOffset \in 0 .. Length - 1
      /\ rpc = "release" => rlen \in 1 .. Length
  BY DEF IInv, TypeOK, ConsumerInv
<1>2. /\ Start \in 0 .. Length - 1
      /\ rpc # "release" => Start = tailOffset
      /\ rpc = "release" => tailOffset = Wrapped(Start + rlen)
  <2>1. CASE rpc = "release"
    <3>1. tailOffset + (Length - rlen) \in 0 .. 2 * Length - 1
      BY <1>1, <2>1
    <3>2. Start = Wrapped(tailOffset + (Length - rlen)) /\ Start \in 0 .. Length - 1
      BY <3>1, <2>1, WrapOnce DEF Start
    <3>3. tailOffset = Wrapped(Start + rlen)
      BY <3>1, <3>2, <1>1, <2>1 DEF Wrapped
    <3> QED BY <2>1, <3>2, <3>3
  <2>2. CASE rpc # "release"
    BY <1>1, <2>2 DEF Start
  <2> QED BY <2>1, <2>2
<1>3. ASSUME NEW i \in 0 .. Length
      PROVE Place(Start + i) = Wrapped(Start + i) /\ Place(Start + i) \in 0 .. Length - 1
  <2>1. Start + i \in 0 .. 2 * Length - 1
    BY <1>2
  <2> QED BY <2>1, WrapOnce DEF Place
<1> QED BY <1>2, <1>3

\* The producer writes behind the last unread byte.
LEMMA HeadFacts ==
  ASSUME IInv
  PROVE  /\ wpc # "publish" => headOffset = Wrapped(Start + fillCount)
         /\ wpc = "publish" => headOffset = Wrapped(Start + (fillCount + wlen))
         /\ \A k \in 0 .. Length - fillCount - 1 :
              wpc = "write" => Place(headOffset + k) = Wrapped(Start + (fillCount + k))
<1> USE LengthAssumption
<1>1. /\ tailOffset \in 0 .. Length - 1 /\ headOffset \in 0 .. Length - 1
      /\ fillCount \in 0 .. Length /\ wlen \in 0 .. Length
      /\ rpc = "release" => rlen \in 1 .. fillCount
      /\ wpc = "publish" => wlen \in 1 .. Length - fillCount
      /\ headOffset = Wrapped(tailOffset + Distance)
  BY DEF IInv, TypeOK, ConsumerInv, ProducerInv, OffsetsInv
<1>2. /\ Start \in 0 .. Length - 1
      /\ rpc # "release" => Start = tailOffset
      /\ rpc = "release" => tailOffset = Wrapped(Start + rlen)
  BY StartFacts
<1>3. /\ wpc # "publish" => headOffset = Wrapped(Start + fillCount)
      /\ wpc = "publish" => headOffset = Wrapped(Start + (fillCount + wlen))
  <2>1. CASE rpc = "release"
    BY <1>1, <1>2, <2>1 DEF Distance, Wrapped
  <2>2. CASE rpc # "release"
    BY <1>1, <1>2, <2>2 DEF Distance, Wrapped
  <2> QED BY <2>1, <2>2
<1>4. ASSUME NEW k \in 0 .. Length - fillCount - 1, wpc = "write"
      PROVE Place(headOffset + k) = Wrapped(Start + (fillCount + k))
  <2>1. headOffset + k \in 0 .. 2 * Length - 1
    BY <1>1
  <2>2. Place(headOffset + k) = Wrapped(headOffset + k)
    BY <2>1, WrapOnce DEF Place
  <2> QED BY <1>1, <1>2, <1>3, <1>4, <2>2 DEF Wrapped
<1> QED BY <1>3, <1>4

\* Places less than Length apart are different.
LEMMA PlacesDiffer ==
  ASSUME NEW s \in 0 .. Length - 1, NEW i \in 0 .. Length - 1,
         NEW j \in 0 .. Length - 1, i # j
  PROVE  Wrapped(s + i) # Wrapped(s + j)
BY LengthAssumption DEF Wrapped

\* It is kept when the producer asks for room,
LEMMA GetForWriteStep ==
  ASSUME IInv, GetForWrite
  PROVE  IInv'
<1> USE LengthAssumption
<1>1. TypeOK'
  BY DEF IInv, TypeOK, GetForWrite, consumerVars, Room
<1>2. OffsetsInv' /\ ConsumerInv' /\ ProducerInv'
  BY DEF IInv, TypeOK, OffsetsInv, Distance, Wrapped, ConsumerInv, ProducerInv,
     GetForWrite, consumerVars, Room
<1>3. CopyInv'
  BY DEF IInv, CopyInv, GetForWrite, consumerVars, Start, Place
<1> QED BY <1>1, <1>2, <1>3 DEF IInv

\* The byte written is none of those the consumer has copied.
LEMMA WriteByteStep ==
  ASSUME IInv, NEW b \in Byte, WriteByte(b)
  PROVE  IInv'
<1> USE LengthAssumption
<1>1. /\ Place(headOffset + wlen) = Wrapped(Start + (fillCount + wlen))
      /\ fillCount + wlen \in 0 .. Length - 1
  <2>1. wlen \in 0 .. Length - fillCount - 1 /\ fillCount \in 0 .. Length
    BY DEF IInv, TypeOK, ProducerInv, WriteByte
  <2> QED BY <2>1, HeadFacts DEF WriteByte
<1>2. TypeOK'
  BY DEF IInv, TypeOK, ProducerInv, WriteByte, consumerVars
<1>3. OffsetsInv' /\ ConsumerInv' /\ ProducerInv'
  BY DEF IInv, TypeOK, OffsetsInv, Distance, Wrapped, ConsumerInv, ProducerInv,
     WriteByte, consumerVars
<1>4. CopyInv'
  <2> SUFFICES ASSUME NEW i \in 1 .. Len(rdata)
               PROVE rdata[i] = buffer'[Place(Start + (i - 1))]
    BY DEF CopyInv, WriteByte, consumerVars, Start, Place
  <2>1. i - 1 \in 0 .. fillCount - 1 /\ fillCount \in 0 .. Length
    BY DEF IInv, TypeOK, ConsumerInv
  <2>2. /\ Place(Start + (i - 1)) = Wrapped(Start + (i - 1))
        /\ Start \in 0 .. Length - 1
    BY <2>1, StartFacts
  <2>3. /\ i - 1 \in 0 .. Length - 1
        /\ i - 1 # fillCount + wlen
    BY <1>1, <2>1 DEF IInv, TypeOK
  <2>4. Wrapped(Start + (i - 1)) # Wrapped(Start + (fillCount + wlen))
    BY <1>1, <2>2, <2>3, PlacesDiffer
  <2>5. Place(Start + (i - 1)) # Place(headOffset + wlen)
    BY <1>1, <2>2, <2>4
  <2>6. Place(Start + (i - 1)) \in 0 .. Length - 1
    BY <2>3, StartFacts
  <2> QED BY <2>5, <2>6 DEF IInv, TypeOK, CopyInv, WriteByte
<1> QED BY <1>2, <1>3, <1>4 DEF IInv

\* when it moves its offset,
LEMMA MarkWrittenOffsetStep ==
  ASSUME IInv, MarkWrittenOffset
  PROVE  IInv'
<1> USE LengthAssumption
<1>1. /\ headOffset' = Wrapped(headOffset + wlen)
      /\ headOffset' \in 0 .. Length - 1
      /\ wlen \in 1 .. Length - fillCount
  <2>1. /\ headOffset + wlen \in 0 .. 2 * Length - 1
        /\ wlen \in 1 .. Length - fillCount
    BY DEF IInv, TypeOK, ProducerInv, MarkWrittenOffset
  <2> QED BY <2>1, WrapOnce DEF MarkWrittenOffset, Advanced
<1>2. TypeOK'
  BY <1>1 DEF IInv, TypeOK, MarkWrittenOffset, consumerVars
<1>3. ConsumerInv' /\ ProducerInv'
  BY <1>1 DEF IInv, ConsumerInv, ProducerInv, MarkWrittenOffset, consumerVars
<1>4. OffsetsInv'
  <2>1. rpc = "release" => rlen \in 1 .. fillCount
    BY DEF IInv, ConsumerInv
  <2> QED
    BY <1>1, <2>1 DEF IInv, TypeOK, OffsetsInv, Distance, Wrapped,
       MarkWrittenOffset, consumerVars
<1>5. CopyInv'
  BY DEF IInv, CopyInv, MarkWrittenOffset, consumerVars, Start, Place
<1> QED BY <1>2, <1>3, <1>4, <1>5 DEF IInv

\* when it raises the fill count,
LEMMA MarkWrittenCountStep ==
  ASSUME IInv, MarkWrittenCount
  PROVE  IInv'
<1> USE LengthAssumption
<1>1. TypeOK'
  BY DEF IInv, TypeOK, ProducerInv, MarkWrittenCount, consumerVars
<1>2. OffsetsInv' /\ ConsumerInv' /\ ProducerInv'
  BY DEF IInv, TypeOK, OffsetsInv, Distance, Wrapped, ConsumerInv, ProducerInv,
     MarkWrittenCount, consumerVars
<1>3. CopyInv'
  BY DEF IInv, CopyInv, MarkWrittenCount, consumerVars, Start, Place
<1> QED BY <1>1, <1>2, <1>3 DEF IInv

\* when the consumer asks for what there is to read,
LEMMA GetForReadStep ==
  ASSUME IInv, GetForRead
  PROVE  IInv'
<1> USE LengthAssumption
<1>1. TypeOK'
  BY DEF IInv, TypeOK, GetForRead, producerVars
<1>2. OffsetsInv' /\ ConsumerInv' /\ ProducerInv'
  BY DEF IInv, TypeOK, OffsetsInv, Distance, Wrapped, ConsumerInv, ProducerInv,
     GetForRead, producerVars
<1>3. CopyInv'
  BY DEF CopyInv, GetForRead
<1> QED BY <1>1, <1>2, <1>3 DEF IInv

\* when it reads a byte,
LEMMA ReadByteStep ==
  ASSUME IInv, ReadByte
  PROVE  IInv'
<1> USE LengthAssumption
<1>1. /\ Len(rdata) \in 0 .. Length - 1
      /\ rdata \in Seq(Byte)
      /\ Start = tailOffset /\ Start' = Start
  BY StartFacts DEF IInv, TypeOK, ConsumerInv, ReadByte, producerVars, Start
<1>2. buffer[Place(tailOffset + Len(rdata))] \in Byte
  <2>1. Len(rdata) \in 0 .. Length
    BY <1>1
  <2>2. Place(Start + Len(rdata)) \in 0 .. Length - 1
    BY <2>1, StartFacts
  <2>3. buffer \in [0 .. Length - 1 -> Byte]
    BY DEF IInv, TypeOK
  <2> QED BY <1>1, <2>2, <2>3
<1>3. rdata' \in Seq(Byte) /\ Len(rdata') = Len(rdata) + 1
  BY <1>1, <1>2 DEF ReadByte
<1>4. TypeOK'
  BY <1>3 DEF IInv, TypeOK, ReadByte, producerVars
<1>5. OffsetsInv' /\ ConsumerInv' /\ ProducerInv'
  BY <1>1, <1>3 DEF IInv, TypeOK, OffsetsInv, Distance, Wrapped, ConsumerInv,
     ProducerInv, ReadByte, producerVars
<1>6. CopyInv'
  <2> SUFFICES ASSUME NEW i \in 1 .. Len(rdata')
               PROVE rdata'[i] = buffer[Place(Start + (i - 1))]
    BY <1>1 DEF CopyInv, ReadByte, Place
  <2>1. CASE i \in 1 .. Len(rdata)
    BY <1>1, <1>2, <2>1 DEF IInv, CopyInv, ReadByte
  <2>2. CASE i = Len(rdata) + 1
    BY <1>1, <1>2, <2>2 DEF ReadByte
  <2> QED BY <1>1, <1>3, <2>1, <2>2
<1> QED BY <1>4, <1>5, <1>6 DEF IInv

\* Giving back n bytes moves the offset, and not yet the first unread byte.
LEMMA StartKept ==
  ASSUME IInv, rpc = "read", NEW n \in 1 .. fillCount,
         rpc' = "release", rlen' = n, tailOffset' = Advanced(tailOffset, n)
  PROVE  /\ tailOffset' = Wrapped(tailOffset + n)
         /\ tailOffset' \in 0 .. Length - 1
         /\ Start' = Start
<1> USE LengthAssumption
<1>1. tailOffset \in 0 .. Length - 1 /\ n \in 1 .. Length
  BY DEF IInv, TypeOK
<1>2. /\ tailOffset' = Wrapped(tailOffset + n)
      /\ tailOffset' \in 0 .. Length - 1
  <2>1. tailOffset + n \in 0 .. 2 * Length - 1
    BY <1>1
  <2> QED BY <2>1, WrapOnce DEF Advanced
<1>3. tailOffset' + (Length - n) \in 0 .. 2 * Length - 1
  BY <1>1, <1>2
<1>4. Start' = Wrapped(tailOffset' + (Length - n))
  BY <1>3, WrapOnce DEF Start
<1>5. Wrapped(tailOffset' + (Length - n)) = tailOffset
  BY <1>1, <1>2, <1>3 DEF Wrapped
<1> QED BY <1>2, <1>4, <1>5 DEF Start

\* when it moves its own offset, or drops everything,
LEMMA GiveBackStep ==
  ASSUME IInv, MarkReadOffset \/ Clear
  PROVE  IInv' /\ Start' = Start
<1> USE LengthAssumption
<1>1. PICK n \in 1 .. fillCount :
        /\ rpc = "read" /\ rpc' = "release" /\ rlen' = n
        /\ tailOffset' = Advanced(tailOffset, n)
        /\ rdata = <<>> \/ Len(rdata) = n
  BY DEF IInv, TypeOK, ConsumerInv, MarkReadOffset, Clear
<1>2. /\ tailOffset' = Wrapped(tailOffset + n)
      /\ tailOffset' \in 0 .. Length - 1
      /\ Start' = Start
  BY <1>1, StartKept
<1>3. UNCHANGED <<buffer, fillCount, ravail, rdata, taken, headOffset, wpc,
                  wavail, wlen>>
  BY DEF MarkReadOffset, Clear, producerVars
<1>4. TypeOK'
  BY <1>1, <1>2, <1>3 DEF IInv, TypeOK
<1>5. ConsumerInv' /\ ProducerInv'
  BY <1>1, <1>3 DEF IInv, ConsumerInv, ProducerInv
<1>6. OffsetsInv'
  BY <1>1, <1>2, <1>3 DEF IInv, TypeOK, ProducerInv, OffsetsInv, Distance, Wrapped
<1>7. CopyInv'
  BY <1>2, <1>3 DEF IInv, CopyInv, Place
<1> QED BY <1>2, <1>4, <1>5, <1>6, <1>7 DEF IInv

\* and when it lowers the fill count.
LEMMA MarkReadCountStep ==
  ASSUME IInv, MarkReadCount
  PROVE  IInv' /\ Start' = Wrapped(Start + rlen)
<1> USE LengthAssumption
<1>1. /\ rlen \in 1 .. fillCount /\ rpc = "release"
      /\ tailOffset = Wrapped(Start + rlen)
  BY StartFacts DEF IInv, ConsumerInv, MarkReadCount
<1>2. TypeOK'
  BY <1>1 DEF IInv, TypeOK, MarkReadCount, producerVars
<1>3. ConsumerInv' /\ ProducerInv'
  BY <1>1 DEF IInv, TypeOK, ConsumerInv, ProducerInv, MarkReadCount, producerVars
<1>4. OffsetsInv'
  BY <1>1 DEF IInv, TypeOK, OffsetsInv, Distance, Wrapped, MarkReadCount,
     producerVars
<1>5. CopyInv' /\ Start' = Wrapped(Start + rlen)
  BY <1>1 DEF CopyInv, MarkReadCount, Start
<1> QED BY <1>2, <1>3, <1>4, <1>5 DEF IInv

\* So the inductive invariant is kept by every step.
LEMMA NextIInv == IInv /\ [Next]_vars => IInv'
<1> SUFFICES ASSUME IInv, [Next]_vars PROVE IInv'
  OBVIOUS
<1>1. CASE Producer
  BY <1>1, GetForWriteStep, WriteByteStep, MarkWrittenOffsetStep,
     MarkWrittenCountStep DEF Producer
<1>2. CASE Consumer
  BY <1>2, GetForReadStep, ReadByteStep, GiveBackStep, MarkReadCountStep
     DEF Consumer
<1>3. CASE UNCHANGED vars
  BY <1>3 DEF vars, producerVars, consumerVars, IInv, TypeOK, OffsetsInv,
     Distance, Wrapped, ConsumerInv, ProducerInv, CopyInv, Start, Place
<1> QED BY <1>1, <1>2, <1>3 DEF Next

\* The inductive invariant holds in every reachable state.
LEMMA Inductive == Spec => []IInv
BY InitIInv, NextIInv, PTL DEF Spec

\* Offsets stay inside the buffer and the count between 0 and the length: no
\* call sequence of one producer and one consumer trips the assertions.
THEOREM TypeCorrect == Spec => []TypeOK
<1>1. IInv => TypeOK
  BY DEF IInv
<1> QED BY <1>1, Inductive, PTL

\* The chunks handed to the two sides never overlap.
THEOREM NoOverlap == Spec => []ChunksDisjoint
<1>1. IInv => ChunksDisjoint
  <2> SUFFICES ASSUME IInv, rpc = "read", wpc = "write",
                      NEW i \in 0 .. ravail - 1, NEW k \in 0 .. wavail - 1
               PROVE Place(tailOffset + i) # Place(headOffset + k)
    BY DEF ChunksDisjoint, Readable, Writable
  <2> USE LengthAssumption
  <2>1. /\ i \in 0 .. fillCount - 1 /\ i \in 0 .. Length - 1
        /\ k \in 0 .. Length - fillCount - 1
        /\ fillCount + k \in 0 .. Length - 1 /\ i # fillCount + k
    BY DEF IInv, TypeOK, ConsumerInv, ProducerInv
  <2>2. /\ Start \in 0 .. Length - 1
        /\ Place(tailOffset + i) = Wrapped(Start + i)
    BY <2>1, StartFacts
  <2>3. Place(headOffset + k) = Wrapped(Start + (fillCount + k))
    BY <2>1, HeadFacts
  <2> QED BY <2>1, <2>2, <2>3, PlacesDiffer
<1> QED BY <1>1, Inductive, PTL

-----------------------------------------------------------------------------
(* Every step is a step of the queue, or leaves the queue alone.           *)

\* The contents of the buffer are the fillCount bytes from the start.
LEMMA ContentsFacts ==
  ASSUME IInv
  PROVE  /\ Contents \in Seq(Byte)
         /\ Len(Contents) = fillCount
         /\ \A i \in 1 .. fillCount : Contents[i] = buffer[Place(Start + (i - 1))]
<1> USE LengthAssumption
<1>1. fillCount \in 0 .. Length
  BY DEF IInv, TypeOK
<1>2. ASSUME NEW i \in 1 .. fillCount
      PROVE buffer[Place(Start + (i - 1))] \in Byte
  <2>1. i - 1 \in 0 .. Length
    BY <1>1
  <2> QED BY <2>1, StartFacts DEF IInv, TypeOK
<1> QED BY <1>1, <1>2 DEF Contents

\* Sequences with the same elements are the same.
LEMMA SameSequence ==
  ASSUME NEW S, NEW s \in Seq(S), NEW t \in Seq(S), Len(s) = Len(t),
         \A i \in 1 .. Len(s) : s[i] = t[i]
  PROVE  s = t
OBVIOUS

\* A step that leaves the bytes in the buffer alone leaves the contents alone.
LEMMA StutterStep ==
  ASSUME IInv, UNCHANGED <<fillCount, taken>>, Start' = Start,
         \A i \in 1 .. fillCount :
           buffer'[Place(Start + (i - 1))] = buffer[Place(Start + (i - 1))]
  PROVE  UNCHANGED Fifo!fifoVars
<1>1. Contents' = Contents
  BY DEF Contents, Place
<1> QED BY <1>1 DEF Fifo!fifoVars

\* A byte is written outside the queue.
LEMMA WriteByteStutters ==
  ASSUME IInv, NEW b \in Byte, WriteByte(b)
  PROVE  UNCHANGED Fifo!fifoVars
<1> USE LengthAssumption
<1>1. UNCHANGED <<fillCount, taken>> /\ Start' = Start
  BY DEF WriteByte, consumerVars, Start
<1>2. /\ wlen \in 0 .. Length - fillCount - 1 /\ fillCount \in 0 .. Length
      /\ wpc = "write"
  BY DEF IInv, TypeOK, ProducerInv, WriteByte
<1>3. Place(headOffset + wlen) = Wrapped(Start + (fillCount + wlen))
  BY <1>2, HeadFacts
<1>4. ASSUME NEW i \in 1 .. fillCount
      PROVE buffer'[Place(Start + (i - 1))] = buffer[Place(Start + (i - 1))]
  <2>1. /\ i - 1 \in 0 .. Length - 1 /\ fillCount + wlen \in 0 .. Length - 1
        /\ i - 1 # fillCount + wlen
    BY <1>2
  <2>2. /\ Start \in 0 .. Length - 1
        /\ Place(Start + (i - 1)) = Wrapped(Start + (i - 1))
        /\ Place(Start + (i - 1)) \in 0 .. Length - 1
    BY <2>1, StartFacts
  <2>3. Place(Start + (i - 1)) # Place(headOffset + wlen)
    BY <1>3, <2>1, <2>2, PlacesDiffer
  <2> QED BY <2>2, <2>3 DEF IInv, TypeOK, WriteByte
<1> QED BY <1>1, <1>4, StutterStep

\* Publishing the count appends the bytes written.
LEMMA MarkWrittenCountPuts ==
  ASSUME IInv, MarkWrittenCount
  PROVE  Fifo!Next
<1> USE LengthAssumption
<1> DEFINE batch ==
      [i \in 1 .. wlen |-> buffer[Place(Start + (fillCount + (i - 1)))]]
<1>1. /\ fillCount \in 0 .. Length /\ wlen \in 1 .. Length - fillCount
      /\ buffer' = buffer /\ Start' = Start /\ taken' = taken
      /\ fillCount' = fillCount + wlen
  BY DEF IInv, TypeOK, ProducerInv, MarkWrittenCount, consumerVars, Start
<1>2. batch \in [1 .. wlen -> Byte]
  <2> SUFFICES ASSUME NEW i \in 1 .. wlen
               PROVE buffer[Place(Start + (fillCount + (i - 1)))] \in Byte
    OBVIOUS
  <2>1. fillCount + (i - 1) \in 0 .. Length
    BY <1>1
  <2> QED BY <2>1, StartFacts DEF IInv, TypeOK
<1>8. \A i \in 1 .. wlen : batch[i] = buffer[Place(Start + (fillCount + (i - 1)))]
  OBVIOUS
<1> HIDE DEF batch
<1>3. batch \in Seq(Byte) /\ Len(batch) = wlen /\ batch # <<>>
  BY <1>1, <1>2
<1>4. Contents \in Seq(Byte) /\ Len(Contents) = fillCount
  BY ContentsFacts
<1>5. Contents' = Contents \o batch
  <2>1. Contents' = [i \in 1 .. fillCount + wlen |-> buffer[Place(Start + (i - 1))]]
    BY <1>1 DEF Contents, Place
  <2>2. Contents \o batch \in Seq(Byte) /\ Len(Contents \o batch) = fillCount + wlen
    BY <1>3, <1>4
  <2>3. ASSUME NEW i \in 1 .. fillCount + wlen
        PROVE (Contents \o batch)[i] = buffer[Place(Start + (i - 1))]
    <3>1. CASE i <= fillCount
      BY <3>1, <1>1, <1>3, <1>4 DEF Contents
    <3>2. CASE i > fillCount
      <4>1. i - fillCount \in 1 .. wlen
            /\ fillCount + ((i - fillCount) - 1) = i - 1
        BY <3>2, <1>1
      <4>2. (Contents \o batch)[i] = batch[i - fillCount]
        BY <3>2, <1>1, <1>3, <1>4
      <4>3. batch[i - fillCount]
              = buffer[Place(Start + (fillCount + ((i - fillCount) - 1)))]
        BY <1>8, <4>1
      <4> QED BY <4>1, <4>2, <4>3
    <3>3. i <= fillCount \/ i > fillCount
      BY <1>1
    <3> QED BY <3>1, <3>2, <3>3
  <2>4. ASSUME NEW i \in 1 .. fillCount + wlen
        PROVE buffer[Place(Start + (i - 1))] \in Byte
    <3>1. i - 1 \in 0 .. Length
      BY <1>1
    <3> QED BY <3>1, StartFacts DEF IInv, TypeOK
  <2>5. /\ Contents' \in Seq(Byte) /\ Len(Contents') = fillCount + wlen
        /\ \A i \in 1 .. fillCount + wlen :
             Contents'[i] = buffer[Place(Start + (i - 1))]
    BY <1>1, <2>1, <2>4
  <2> QED BY <1>1, <2>2, <2>3, <2>5, SameSequence
<1>6. Fifo!Put(batch)
  BY <1>1, <1>3, <1>4, <1>5 DEF Fifo!Put
<1>7. wlen \in 1 .. Length
  BY <1>1
<1> QED BY <1>2, <1>6, <1>7 DEF Fifo!Next

\* Taking the bytes out of the count removes them from the front.
LEMMA MarkReadCountGets ==
  ASSUME IInv, MarkReadCount
  PROVE  Fifo!Next
<1> USE LengthAssumption
<1>1. /\ fillCount \in 0 .. Length /\ rlen \in 1 .. fillCount
      /\ fillCount' = fillCount - rlen /\ buffer' = buffer
      /\ rdata = <<>> \/ Len(rdata) = rlen
      /\ rdata \in Seq(Byte)
      /\ taken' = IF rdata = <<>> THEN taken ELSE rdata
  BY DEF IInv, TypeOK, ConsumerInv, MarkReadCount, producerVars
<1>2. Contents \in Seq(Byte) /\ Len(Contents) = fillCount
  BY ContentsFacts
<1>3. /\ Start \in 0 .. Length - 1
      /\ Start' = Wrapped(Start + rlen)
  BY StartFacts, MarkReadCountStep
<1>4. Contents' = SubSeq(Contents, rlen + 1, Len(Contents))
  <2>1. ASSUME NEW i \in 1 .. fillCount - rlen
        PROVE Place(Start' + (i - 1)) = Place(Start + ((i + rlen) - 1))
    <3>1. /\ Start' \in 0 .. Length - 1
          /\ i - 1 \in 0 .. Length - 1 /\ (i + rlen) - 1 \in 0 .. Length - 1
      BY <1>1, <1>3 DEF Wrapped
    <3>2. Place(Start + ((i + rlen) - 1)) = Wrapped(Start + ((i + rlen) - 1))
      BY <3>1, StartFacts
    <3>3. Place(Start' + (i - 1)) = Wrapped(Start' + (i - 1))
      BY <3>1, SumWrapsOnce DEF Place
    <3>4. Wrapped(Start' + (i - 1)) = Wrapped(Start + ((i + rlen) - 1))
      BY <1>1, <1>3, <3>1 DEF Wrapped
    <3> QED BY <3>2, <3>3, <3>4
  <2>2. Contents' = [i \in 1 .. fillCount - rlen |->
                       buffer[Place(Start' + (i - 1))]]
    BY <1>1 DEF Contents, Place
  <2>3. ASSUME NEW i \in 1 .. fillCount - rlen
        PROVE buffer[Place(Start' + (i - 1))] = Contents[i + rlen]
    <3>1. i + rlen \in 1 .. fillCount
      BY <1>1
    <3> QED BY <2>1, <3>1 DEF Contents
  <2>4. SubSeq(Contents, rlen + 1, fillCount)
          = [i \in 1 .. fillCount - rlen |-> Contents[i + rlen]]
    BY <1>1, <1>2
  <2> QED BY <1>2, <2>2, <2>3, <2>4
<1>5. CASE rdata = <<>>
  <2>1. Fifo!Drop(rlen)
    BY <1>1, <1>4, <1>5 DEF Fifo!Drop
  <2> QED BY <1>1, <1>2, <2>1 DEF Fifo!Next
<1>6. CASE rdata # <<>>
  <2>1. taken' = SubSeq(Contents, 1, rlen)
    <3>1. /\ SubSeq(Contents, 1, rlen) \in Seq(Byte)
          /\ Len(SubSeq(Contents, 1, rlen)) = rlen
          /\ \A i \in 1 .. rlen : SubSeq(Contents, 1, rlen)[i] = Contents[i]
      BY <1>1, <1>2
    <3>2. taken' = rdata /\ Len(rdata) = rlen
      BY <1>1, <1>6
    <3>3. \A i \in 1 .. rlen : rdata[i] = Contents[i]
      BY <1>1, <3>2 DEF IInv, CopyInv, Contents
    <3> QED BY <1>1, <3>1, <3>2, <3>3
  <2>2. Fifo!Get(rlen)
    BY <1>4, <2>1 DEF Fifo!Get
  <2> QED BY <1>1, <1>2, <2>2 DEF Fifo!Next
<1> QED BY <1>5, <1>6

\* The ring buffer implements the bounded queue of bytes: for every length and
\* every choice of batches, the consumer takes out what the producer put in.
THEOREM Implementation == Spec => ImplementsFifo
<1>1. Init => Fifo!Init
  BY DEF Init, Fifo!Init, Contents
<1>2. IInv /\ [Next]_vars => [Fifo!Next]_(Fifo!fifoVars)
  <2> SUFFICES ASSUME IInv, [Next]_vars
               PROVE Fifo!Next \/ UNCHANGED Fifo!fifoVars
    OBVIOUS
  <2>1. CASE GetForWrite \/ MarkWrittenOffset
    BY <2>1, StutterStep DEF GetForWrite, MarkWrittenOffset, consumerVars, Start
  <2>2. CASE \E b \in Byte : WriteByte(b)
    BY <2>2, WriteByteStutters
  <2>3. CASE MarkWrittenCount
    BY <2>3, MarkWrittenCountPuts
  <2>4. CASE GetForRead \/ ReadByte
    BY <2>4, StutterStep DEF GetForRead, ReadByte, producerVars, Start
  <2>5. CASE MarkReadOffset \/ Clear
    <3>1. Start' = Start
      BY <2>5, GiveBackStep
    <3> QED BY <2>5, <3>1, StutterStep DEF MarkReadOffset, Clear, producerVars
  <2>6. CASE MarkReadCount
    BY <2>6, MarkReadCountGets
  <2>7. CASE UNCHANGED vars
    BY <2>7, StutterStep DEF vars, producerVars, consumerVars, Start
  <2> QED
    BY <2>1, <2>2, <2>3, <2>4, <2>5, <2>6, <2>7 DEF Next, Producer, Consumer
<1> QED BY <1>1, <1>2, Inductive, PTL DEF Spec, ImplementsFifo, Fifo!Spec
=============================================================================
