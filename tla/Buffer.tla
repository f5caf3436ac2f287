-------------------------------- MODULE Buffer --------------------------------
(***************************************************************************)
(* src/core/Buffer.{h,cpp}: a byte buffer in one vector with room in       *)
(* front.  The bytes held are those from readerIndex_ to writerIndex_.     *)
(* When there is no room behind them they are moved to the front if that   *)
(* makes enough, else the vector grows.                                    *)
(*                                                                         *)
(* Lengths stay far from the limits of size_t; nobody asks                 *)
(* retrieveAsString for more than is readable.                             *)
(***************************************************************************)
EXTENDS Integers, Sequences

CONSTANTS
    Byte,      \* what a cell holds
    Zero,      \* what the vector fills new cells with
    HeadRoom,      \* kPrependSize
    Initial,   \* the size asked of the constructor
    Extra,     \* the size of readFromFd's second buffer
    Chunks,    \* the data passed in
    Reserves,  \* the arguments of shrink and ensureWritableBytes
    MaxSize    \* bound on buffer_.size()

ASSUME BufferAssumption ==
    /\ Zero \in Byte
    /\ HeadRoom \in Nat /\ Initial \in Nat /\ Extra \in Nat /\ MaxSize \in Nat
    /\ Chunks \subseteq Seq(Byte)
    /\ Reserves \subseteq Nat

VARIABLE b     \* mem: buffer_, reader: readerIndex_, writer: writerIndex_

Readable(x) == x.writer - x.reader
Writable(x) == Len(x.mem) - x.writer
Bytes(x)    == SubSeq(x.mem, x.reader + 1, x.writer)

(* memcpy or memmove of data to index at. *)
Copy(x, at, data) ==
    [x EXCEPT !.mem = [i \in 1 .. Len(@) |->
        IF i \in at + 1 .. at + Len(data) THEN data[i - at] ELSE @[i]]]

Resize(x, n) ==
    [x EXCEPT !.mem = [i \in 1 .. n |-> IF i <= Len(@) THEN @[i] ELSE Zero]]

(* Seeded fault: the room in front is not counted. *)
FragmentsSufficeTight(x, n) == Readable(x) + n <= Len(x.mem)

FragmentsSuffice(x, n) == HeadRoom + Readable(x) + n <= Len(x.mem)

EnsureWritable(x, n) ==
    IF Writable(x) >= n THEN x
    ELSE IF FragmentsSuffice(x, n)
         THEN [Copy(x, HeadRoom, Bytes(x)) EXCEPT !.reader = HeadRoom, !.writer = HeadRoom + Readable(x)]
         ELSE Resize(x, x.writer + n)

Appended(x, data) ==
    LET e == EnsureWritable(x, Len(data))
    IN  [Copy(e, e.writer, data) EXCEPT !.writer = @ + Len(data)]

(* Seeded fault: the overflow is appended before the rest is counted. *)
ReceivedShort(x, data) ==
    LET rest == SubSeq(data, Writable(x) + 1, Len(data))
    IN  Appended(Copy(x, x.writer, data), IF rest = <<>> THEN data ELSE rest)

(* readv into the vector; what it does not hold is appended from extrabuf. *)
Received(x, data) ==
    LET here == IF Len(data) <= Writable(x) THEN Len(data) ELSE Writable(x)
        full == [Copy(x, x.writer, SubSeq(data, 1, here)) EXCEPT !.writer = @ + here]
    IN  Appended(full, SubSeq(data, here + 1, Len(data)))

-----------------------------------------------------------------------------
Init == b = [mem |-> [i \in 1 .. Initial + HeadRoom |-> Zero], reader |-> HeadRoom, writer |-> HeadRoom]

Bounded == Len(b'.mem) <= MaxSize

AppendData(data) == b' = Appended(b, data) /\ Bounded

(* A read that fails or finds the end of the stream changes nothing. *)
ReadFromFd(data) ==
    /\ Len(data) <= Writable(b) + Extra
    /\ b' = Received(b, data)
    /\ Bounded

(* retrieve, and with it retrieveAsString and the bytes that writeToFd has *)
(* written; more than there is is not retrieved.                           *)
Retrieve(n) ==
    /\ n <= Readable(b)
    /\ b' = [b EXCEPT !.reader = @ + n]

RetrieveAll == b' = [b EXCEPT !.reader = HeadRoom, !.writer = HeadRoom]

(* Ignored if it does not fit. *)
Prepend(data) ==
    /\ b.reader >= Len(data)
    /\ b' = [Copy(b, b.reader - Len(data), data) EXCEPT !.reader = @ - Len(data)]

EnsureWritableBytes(n) == b' = EnsureWritable(b, n) /\ Bounded

Shrink(n) == b' = Resize(b, b.writer + n) /\ Bounded

Next ==
    \/ \E data \in Chunks : AppendData(data) \/ ReadFromFd(data) \/ Prepend(data)
    \/ \E n \in 0 .. Len(b.mem) : Retrieve(n)
    \/ \E n \in Reserves : EnsureWritableBytes(n) \/ Shrink(n)
    \/ RetrieveAll

Spec == Init /\ [][Next]_b

-----------------------------------------------------------------------------
(* The indices stay in order and inside the vector, so no memcpy reaches   *)
(* past its end, whichever of moving and growing has made the room.        *)
IndicesOK ==
    /\ b.mem \in Seq(Byte)
    /\ 0 <= b.reader /\ b.reader <= b.writer /\ b.writer <= Len(b.mem)

(* The buffer implements the byte queue: nothing is lost, repeated or      *)
(* reordered by compaction, growth, shrinking and the two-part read, and   *)
(* none of them eats the room that prepend needs in front.                 *)
Q == INSTANCE ByteQueue WITH queue <- Bytes(b),
                             room  <- IF b.reader < HeadRoom THEN b.reader ELSE HeadRoom
IsByteQueue == Q!Spec
=============================================================================
