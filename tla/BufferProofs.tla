----------------------------- MODULE BufferProofs -----------------------------
(***************************************************************************)
(* Buffer for any alphabet, sizes and sequence of calls: the indices stay  *)
(* inside the vector, and the bytes held are those of a byte queue.        *)
(*                                                                         *)
(* IndicesOK is nearly inductive; Held adds that the state is a record.    *)
(* The rest is one lemma for each operation on a buffer: what it makes of  *)
(* the bytes held, and what it leaves of the room in front of them.        *)
(***************************************************************************)
EXTENDS Buffer, SequenceTheorems, TLAPS

State == [mem : Seq(Byte), reader : Nat, writer : Nat]

Held(x) == x \in State /\ x.reader <= x.writer /\ x.writer <= Len(x.mem)

(* No operation but Prepend comes closer to the beginning of the vector    *)
(* than it was, unless there is all the room that was promised.            *)
RoomKept(x, y) == y.reader >= x.reader \/ y.reader = HeadRoom

-----------------------------------------------------------------------------
(* The bytes held, one by one; two buffers that hold the same number of    *)
(* bytes and agree on each hold the same bytes.                            *)
LEMMA BytesAre ==
    ASSUME NEW x, Held(x)
    PROVE  /\ Bytes(x) \in Seq(Byte)
           /\ Len(Bytes(x)) = Readable(x)
           /\ \A i \in 1 .. Readable(x) : Bytes(x)[i] = x.mem[x.reader + i]
<1>1. x.mem \in Seq(Byte) /\ x.reader \in Nat /\ x.writer \in Nat
  BY DEF Held, State
<1>2. \A i \in x.reader + 1 .. x.writer : x.mem[i] \in Byte
  <2>1. \A i \in 1 .. Len(x.mem) : x.mem[i] \in Byte
    BY <1>1, ElementOfSeq
  <2> QED
    BY <1>1, <2>1, LenProperties DEF Held
<1>3. x.reader + 1 \in Int /\ x.writer \in Int
  BY <1>1
<1>4. /\ SubSeq(x.mem, x.reader + 1, x.writer) \in Seq(Byte)
      /\ Len(SubSeq(x.mem, x.reader + 1, x.writer)) =
            IF x.reader + 1 <= x.writer THEN x.writer - (x.reader + 1) + 1 ELSE 0
      /\ \A i \in 1 .. x.writer - (x.reader + 1) + 1 :
            SubSeq(x.mem, x.reader + 1, x.writer)[i] = x.mem[x.reader + 1 + i - 1]
  BY <1>2, <1>3, SubSeqProperties
<1>5. x.reader <= x.writer
  BY DEF Held
<1>6. ASSUME NEW i \in 1 .. Readable(x) PROVE Bytes(x)[i] = x.mem[x.reader + i]
  <2>1. i \in 1 .. x.writer - (x.reader + 1) + 1 /\ x.reader + 1 + i - 1 = x.reader + i
    BY <1>1 DEF Readable
  <2> QED
    BY <1>4, <2>1 DEF Bytes
<1>7. x.writer - (x.reader + 1) + 1 = Readable(x) /\ Readable(x) \in Nat
      /\ (~(x.reader + 1 <= x.writer) => Readable(x) = 0)
  BY <1>1, <1>5 DEF Readable
<1>8. Bytes(x) \in Seq(Byte) /\ Len(Bytes(x)) = Readable(x)
  BY <1>4, <1>7, Zenon DEF Bytes
<1> QED
  BY <1>6, <1>8

LEMMA SameBytes ==
    ASSUME NEW x, NEW y, Held(x), Held(y), Readable(y) = Readable(x),
           \A i \in 1 .. Readable(x) : y.mem[y.reader + i] = x.mem[x.reader + i]
    PROVE  Bytes(y) = Bytes(x)
<1>1. /\ Bytes(x) \in Seq(Byte) /\ Bytes(y) \in Seq(Byte)
      /\ Len(Bytes(x)) = Readable(x) /\ Len(Bytes(y)) = Readable(x)
      /\ \A i \in 1 .. Readable(x) : Bytes(y)[i] = Bytes(x)[i]
  BY BytesAre
<1> QED
  BY <1>1, SeqEqual

(* Three runs of bytes can be joined in any order. *)
Joined(p, q, r) == (p \o q) \o r = p \o (q \o r)
LEMMA Joins ==
    ASSUME NEW p \in Seq(Byte), NEW q \in Seq(Byte), NEW r \in Seq(Byte)
    PROVE  Joined(p, q, r)
  BY ONLY p \in Seq(Byte), q \in Seq(Byte), r \in Seq(Byte), ConcatAssociative, SMTT(20) DEF Joined

(* Setting the indices. *)
WithIndices(x, r, w) == [x EXCEPT !.reader = r, !.writer = w]

LEMMA SetIndices ==
    ASSUME NEW x \in State, NEW r \in Nat, NEW w \in Nat
    PROVE  LET y == WithIndices(x, r, w)
           IN  y \in State /\ y.mem = x.mem /\ y.reader = r /\ y.writer = w
  BY DEF State, WithIndices

(* memcpy inside the vector. *)
LEMMA CopyWrites ==
    ASSUME NEW x \in State, NEW at \in Nat, NEW data \in Seq(Byte)
    PROVE  LET y == Copy(x, at, data)
           IN  /\ y \in State /\ y.reader = x.reader /\ y.writer = x.writer
               /\ Len(y.mem) = Len(x.mem)
               /\ \A i \in 1 .. Len(x.mem) :
                     y.mem[i] = IF i \in at + 1 .. at + Len(data) THEN data[i - at] ELSE x.mem[i]
<1> DEFINE e(i) == IF i \in at + 1 .. at + Len(data) THEN data[i - at] ELSE x.mem[i]
           m == [i \in 1 .. Len(x.mem) |-> e(i)]
<1>1. x.mem \in Seq(Byte) /\ Len(x.mem) \in Nat /\ Len(data) \in Nat
  BY LenProperties DEF State
<1>2. DOMAIN x.mem = 1 .. Len(x.mem)
  BY <1>1, LenProperties
<1>3. \A i \in 1 .. Len(x.mem) : e(i) \in Byte
  <2> SUFFICES ASSUME NEW i \in 1 .. Len(x.mem) PROVE e(i) \in Byte
    OBVIOUS
  <2>1. i \in at + 1 .. at + Len(data) => i - at \in 1 .. Len(data)
    BY <1>1
  <2> QED
    BY <1>1, <2>1, ElementOfSeq
<1>4. m \in Seq(Byte) /\ Len(m) = Len(x.mem)
  BY <1>1, <1>3
<1>5. Copy(x, at, data) = [x EXCEPT !.mem = m]
  BY <1>2 DEF Copy
<1>6. \A i \in 1 .. Len(x.mem) : m[i] = e(i)
  OBVIOUS
<1> HIDE DEF m
<1>7. /\ Copy(x, at, data).mem = m /\ Copy(x, at, data) \in State
      /\ Copy(x, at, data).reader = x.reader /\ Copy(x, at, data).writer = x.writer
  BY <1>4, <1>5 DEF State
<1> QED
  BY <1>4, <1>6, <1>7

(* resize() at or beyond the writer index keeps the bytes. *)
LEMMA ResizeKeeps ==
    ASSUME NEW x, Held(x), NEW n \in Nat, n >= x.writer
    PROVE  LET y == Resize(x, n)
           IN  Held(y) /\ Bytes(y) = Bytes(x) /\ y.reader = x.reader /\ Writable(y) = n - x.writer
<1> DEFINE y == Resize(x, n)
           e(i) == IF i <= Len(x.mem) THEN x.mem[i] ELSE Zero
           m == [i \in 1 .. n |-> e(i)]
<1>1. x \in State /\ x.mem \in Seq(Byte) /\ Len(x.mem) \in Nat /\ x.reader \in Nat /\ x.writer \in Nat
  BY LenProperties DEF Held, State
<1>2. \A i \in 1 .. n : e(i) \in Byte
  BY <1>1, ElementOfSeq, BufferAssumption
<1>3. m \in Seq(Byte) /\ Len(m) = n
  BY <1>2
<1>4. y = [x EXCEPT !.mem = m]
  BY DEF Resize
<1>5. \A i \in 1 .. n : m[i] = e(i)
  OBVIOUS
<1> HIDE DEF m, y
<1>6. y \in State /\ y.mem = m /\ y.reader = x.reader /\ y.writer = x.writer
  BY <1>1, <1>3, <1>4 DEF State
<1>7. Held(y)
  BY <1>3, <1>6 DEF Held
<1>8. Readable(y) = Readable(x)
  BY <1>6 DEF Readable
<1>9. ASSUME NEW i \in 1 .. Readable(x) PROVE y.mem[y.reader + i] = x.mem[x.reader + i]
  <2>0. /\ x.reader \in Nat /\ x.writer \in Nat /\ Len(x.mem) \in Nat
        /\ x.writer <= Len(x.mem) /\ x.writer <= n
    BY <1>1 DEF Held
  <2>1. x.reader + i \in 1 .. n /\ x.reader + i <= Len(x.mem)
    BY <2>0 DEF Readable
  <2> QED
    BY <1>5, <1>6, <2>1
<1>10. Bytes(y) = Bytes(x)
  BY <1>7, <1>8, <1>9, SameBytes
<1>11. Writable(y) = n - x.writer
  BY <1>3, <1>6 DEF Writable
<1> QED
  BY <1>6, <1>7, <1>10, <1>11 DEF y

(* ensureWritableBytes: the room asked for is there, whether the bytes     *)
(* have been moved or the vector has grown.                                *)
LEMMA EnsureMakesRoom ==
    ASSUME NEW x, Held(x), NEW n \in Nat
    PROVE  LET e == EnsureWritable(x, n)
           IN  Held(e) /\ Bytes(e) = Bytes(x) /\ Writable(e) >= n /\ RoomKept(x, e)
<1>1. /\ x \in State /\ x.mem \in Seq(Byte) /\ Len(x.mem) \in Nat /\ x.reader \in Nat /\ x.writer \in Nat
      /\ x.reader <= x.writer /\ x.writer <= Len(x.mem) /\ HeadRoom \in Nat
  BY LenProperties, BufferAssumption DEF Held, State
<1>2. CASE Writable(x) >= n
  BY <1>1, <1>2 DEF EnsureWritable, RoomKept
<1>3. CASE ~(Writable(x) >= n) /\ FragmentsSuffice(x, n)
  <2> DEFINE c == Copy(x, HeadRoom, Bytes(x))
             y == [c EXCEPT !.reader = HeadRoom, !.writer = HeadRoom + Readable(x)]
  <2>1. /\ Bytes(x) \in Seq(Byte) /\ Len(Bytes(x)) = Readable(x)
        /\ \A i \in 1 .. Readable(x) : Bytes(x)[i] = x.mem[x.reader + i]
    BY BytesAre
  <2>2. /\ c \in State /\ Len(c.mem) = Len(x.mem)
        /\ \A i \in 1 .. Len(x.mem) :
              c.mem[i] = IF i \in HeadRoom + 1 .. HeadRoom + Len(Bytes(x))
                         THEN Bytes(x)[i - HeadRoom] ELSE x.mem[i]
    <3> DEFINE held == Bytes(x)
    <3>1. x \in State /\ HeadRoom \in Nat /\ held \in Seq(Byte)
      BY <1>1, <2>1
    <3> HIDE DEF held
    <3>2. /\ Copy(x, HeadRoom, held) \in State
          /\ Len(Copy(x, HeadRoom, held).mem) = Len(x.mem)
          /\ \A i \in 1 .. Len(x.mem) :
                Copy(x, HeadRoom, held).mem[i] =
                   IF i \in HeadRoom + 1 .. HeadRoom + Len(held) THEN held[i - HeadRoom] ELSE x.mem[i]
      BY <3>1, CopyWrites
    <3> QED
      BY <3>2 DEF held
  <2>3. EnsureWritable(x, n) = y
    BY <1>3 DEF EnsureWritable
  <2> HIDE DEF c
  <2>4. Readable(x) \in Nat
    BY <1>1 DEF Readable
  <2>5. y \in State /\ y.mem = c.mem /\ y.reader = HeadRoom /\ y.writer = HeadRoom + Readable(x)
    <3>1. HeadRoom + Readable(x) \in Nat
      BY <1>1, <2>4
    <3> DEFINE w == HeadRoom + Readable(x)
    <3>2. y = WithIndices(c, HeadRoom, w) /\ w \in Nat
      BY <3>1 DEF WithIndices
    <3>3. w = HeadRoom + Readable(x)
      OBVIOUS
    <3> HIDE DEF y, w
    <3>4. WithIndices(c, HeadRoom, w) \in State /\ WithIndices(c, HeadRoom, w).mem = c.mem
          /\ WithIndices(c, HeadRoom, w).reader = HeadRoom /\ WithIndices(c, HeadRoom, w).writer = w
      <4>1. c \in State /\ HeadRoom \in Nat
        BY <1>1, <2>2
      <4> QED
        BY <3>2, <4>1, SetIndices
    <3> QED
      BY <3>2, <3>3, <3>4
  <2> HIDE DEF y
  <2>6. HeadRoom + Readable(x) + n <= Len(x.mem)
    BY <1>3 DEF FragmentsSuffice
  <2>7. Held(y) /\ Writable(y) >= n
    BY <1>1, <2>2, <2>4, <2>5, <2>6 DEF Held, Writable
  <2>8. Readable(y) = Readable(x)
    BY <1>1, <2>4, <2>5 DEF Readable
  <2>9. ASSUME NEW i \in 1 .. Readable(x) PROVE y.mem[y.reader + i] = x.mem[x.reader + i]
    <3> DEFINE k == HeadRoom + i
    <3>1. /\ k \in 1 .. Len(x.mem) /\ k \in HeadRoom + 1 .. HeadRoom + Len(Bytes(x))
          /\ k - HeadRoom = i /\ y.reader + i = k
      <4>1. /\ HeadRoom \in Nat /\ Len(x.mem) \in Nat /\ Readable(x) \in Nat
            /\ HeadRoom + Readable(x) <= Len(x.mem)
            /\ Len(Bytes(x)) = Readable(x) /\ y.reader = HeadRoom
        BY <1>1, <2>1, <2>4, <2>5, <2>6
      <4> QED
        BY <4>1
    <3> HIDE DEF k
    <3>2. c.mem[k] = Bytes(x)[k - HeadRoom]
      BY <2>2, <3>1, Zenon
    <3> QED
      BY <2>1, <2>5, <3>1, <3>2, Zenon
  <2>10. Bytes(y) = Bytes(x)
    BY <2>7, <2>8, <2>9, SameBytes
  <2> QED
    BY <2>3, <2>5, <2>7, <2>10 DEF RoomKept
<1>4. CASE ~(Writable(x) >= n) /\ ~FragmentsSuffice(x, n)
  <2> DEFINE k == x.writer + n
             y == Resize(x, k)
  <2>1. k \in Nat /\ k >= x.writer /\ k - x.writer = n
    BY <1>1
  <2>2. EnsureWritable(x, n) = y
    BY <1>4 DEF EnsureWritable
  <2> HIDE DEF k
  <2>3. Held(y) /\ Bytes(y) = Bytes(x) /\ y.reader = x.reader /\ Writable(y) = k - x.writer
    BY <2>1, ResizeKeeps
  <2> HIDE DEF y
  <2> QED
    BY <1>1, <2>1, <2>2, <2>3 DEF RoomKept
<1> QED
  BY <1>2, <1>3, <1>4

(* Bytes written behind the writer index, inside the vector, are added. *)
LEMMA WriteBehind ==
    ASSUME NEW x, Held(x), NEW data \in Seq(Byte), Len(data) <= Writable(x)
    PROVE  LET y == [Copy(x, x.writer, data) EXCEPT !.writer = @ + Len(data)]
           IN  Held(y) /\ Bytes(y) = Bytes(x) \o data /\ y.reader = x.reader
<1> DEFINE c == Copy(x, x.writer, data)
           y == [c EXCEPT !.writer = @ + Len(data)]
<1>1. /\ x \in State /\ x.mem \in Seq(Byte) /\ Len(x.mem) \in Nat /\ x.reader \in Nat /\ x.writer \in Nat
      /\ x.reader <= x.writer /\ x.writer <= Len(x.mem) /\ Len(data) \in Nat
  BY LenProperties DEF Held, State
<1>2. /\ c \in State /\ c.reader = x.reader /\ c.writer = x.writer
      /\ Len(c.mem) = Len(x.mem)
      /\ \A i \in 1 .. Len(x.mem) :
            c.mem[i] = IF i \in x.writer + 1 .. x.writer + Len(data)
                       THEN data[i - x.writer] ELSE x.mem[i]
  <2> DEFINE at == x.writer
  <2>1. x \in State /\ at \in Nat
    BY <1>1
  <2> HIDE DEF at
  <2>2. /\ Copy(x, at, data) \in State
        /\ Copy(x, at, data).reader = x.reader /\ Copy(x, at, data).writer = x.writer
        /\ Len(Copy(x, at, data).mem) = Len(x.mem)
        /\ \A i \in 1 .. Len(x.mem) :
              Copy(x, at, data).mem[i] = IF i \in at + 1 .. at + Len(data) THEN data[i - at] ELSE x.mem[i]
    BY <2>1, CopyWrites
  <2> QED
    BY <2>2, Zenon DEF at
<1> HIDE DEF c
<1>3. y \in State /\ y.mem = c.mem /\ y.reader = x.reader /\ y.writer = x.writer + Len(data)
  <2>1. c.writer + Len(data) \in Nat /\ c.reader \in Nat
    BY <1>1, <1>2
  <2> DEFINE w == c.writer + Len(data)
  <2>2. y = WithIndices(c, c.reader, w)
    BY <1>2 DEF State, WithIndices
  <2>3. w = x.writer + Len(data) /\ w \in Nat
    BY <1>2, <2>1
  <2> DEFINE r == c.reader
  <2>4. c \in State /\ r \in Nat /\ w \in Nat
    BY <1>2, <2>1, <2>3
  <2> HIDE DEF w, y, r
  <2>5. /\ WithIndices(c, r, w) \in State /\ WithIndices(c, r, w).mem = c.mem
        /\ WithIndices(c, r, w).reader = r /\ WithIndices(c, r, w).writer = w
    BY <2>4, SetIndices
  <2> QED
    BY <1>2, <2>2, <2>3, <2>5, Zenon DEF r
<1> HIDE DEF y
<1>4. Held(y)
  BY <1>1, <1>2, <1>3 DEF Held, Writable
<1>5. /\ Bytes(x) \in Seq(Byte) /\ Len(Bytes(x)) = Readable(x)
      /\ \A i \in 1 .. Readable(x) : Bytes(x)[i] = x.mem[x.reader + i]
  BY BytesAre
<1>6. /\ Bytes(y) \in Seq(Byte) /\ Len(Bytes(y)) = Readable(y)
      /\ \A i \in 1 .. Readable(y) : Bytes(y)[i] = y.mem[y.reader + i]
  BY <1>4, BytesAre
<1>7. Readable(y) = Readable(x) + Len(data) /\ Readable(x) \in Nat
  BY <1>1, <1>3 DEF Readable
<1>8. /\ Bytes(x) \o data \in Seq(Byte)
      /\ Len(Bytes(x) \o data) = Readable(x) + Len(data)
      /\ \A i \in 1 .. Readable(x) + Len(data) : (Bytes(x) \o data)[i] =
            IF i <= Readable(x) THEN Bytes(x)[i] ELSE data[i - Readable(x)]
  <2>1. /\ Bytes(x) \o data \in Seq(Byte)
        /\ Len(Bytes(x) \o data) = Len(Bytes(x)) + Len(data)
        /\ \A i \in 1 .. Len(Bytes(x)) + Len(data) : (Bytes(x) \o data)[i] =
              IF i <= Len(Bytes(x)) THEN Bytes(x)[i] ELSE data[i - Len(Bytes(x))]
    BY <1>5, ConcatProperties
  <2> QED
    BY <1>5, <2>1, Zenon
<1>8a. /\ Len(x.mem) \in Nat /\ x.reader \in Nat /\ x.writer \in Nat /\ Len(data) \in Nat
       /\ x.reader <= x.writer /\ x.writer <= Len(x.mem)
  BY <1>1
<1>9. ASSUME NEW i \in 1 .. Readable(x) + Len(data) PROVE Bytes(y)[i] = (Bytes(x) \o data)[i]
  <2>1. /\ Bytes(y)[i] = c.mem[x.reader + i] /\ x.reader + i \in 1 .. Len(x.mem)
    <3>1. i \in 1 .. Readable(y) /\ y.reader + i = x.reader + i
      BY <1>3, <1>7
    <3>2. Bytes(y)[i] = c.mem[x.reader + i]
      BY <1>3, <1>6, <3>1, Zenon
    <3>3. x.reader + i \in 1 .. Len(x.mem)
      BY <1>8a DEF Readable, Writable
    <3> QED
      BY <3>2, <3>3
  <2> DEFINE k == x.reader + i
  <2>2. CASE i <= Readable(x)
    <3>1. x.reader + i \notin x.writer + 1 .. x.writer + Len(data)
      BY <1>8a, <2>2 DEF Readable
    <3>2. c.mem[x.reader + i] = x.mem[x.reader + i]
      BY <1>2, <2>1, <3>1
    <3>3. i \in 1 .. Readable(x)
      BY <1>7, <2>2
    <3> QED
      BY <1>5, <1>8, <2>1, <2>2, <3>2, <3>3
  <2>3. CASE i > Readable(x)
    <3>1. /\ k \in x.writer + 1 .. x.writer + Len(data) /\ k \in 1 .. Len(x.mem)
          /\ k - x.writer = i - Readable(x) /\ ~(i <= Readable(x))
      <4>1. k \in 1 .. Len(x.mem)
        BY <2>1
      <4> QED
        BY <1>8a, <2>3, <4>1 DEF Readable
    <3>4. Bytes(y)[i] = c.mem[k]
      BY <2>1
    <3> HIDE DEF k
    <3>2. c.mem[k] = data[k - x.writer]
      BY <1>2, <3>1, Zenon
    <3>3. (Bytes(x) \o data)[i] = data[i - Readable(x)]
      BY <1>8, <3>1
    <3> QED
      BY <3>1, <3>2, <3>3, <3>4, Zenon
  <2>4. i <= Readable(x) \/ i > Readable(x)
    BY <1>7
  <2> QED
    BY <2>2, <2>3, <2>4, Zenon
<1>10. Bytes(y) = Bytes(x) \o data
  BY <1>6, <1>7, <1>8, <1>9, SeqEqual
<1> QED
  BY <1>3, <1>4, <1>10 DEF c, y

(* append() adds its bytes at the end. *)
LEMMA AppendedHolds ==
    ASSUME NEW x, Held(x), NEW data \in Seq(Byte)
    PROVE  LET y == Appended(x, data)
           IN  Held(y) /\ Bytes(y) = Bytes(x) \o data /\ RoomKept(x, y)
<1> DEFINE e == EnsureWritable(x, Len(data))
           y == [Copy(e, e.writer, data) EXCEPT !.writer = @ + Len(data)]
<1>1. Len(data) \in Nat
  BY LenProperties
<1>2. Held(e) /\ Bytes(e) = Bytes(x) /\ Writable(e) >= Len(data) /\ RoomKept(x, e)
  BY <1>1, EnsureMakesRoom
<1> HIDE DEF e
<1>3. Len(data) <= Writable(e)
  BY <1>2
<1>4. Held(y) /\ Bytes(y) = Bytes(e) \o data /\ y.reader = e.reader
  BY <1>2, <1>3, WriteBehind
<1>5. Appended(x, data) = y
  BY DEF Appended, e
<1> HIDE DEF y
<1> QED
  BY <1>2, <1>4, <1>5 DEF RoomKept

(* readFromFd: what fits is read into the vector, the rest is appended. *)
LEMMA ReceivedHolds ==
    ASSUME NEW x, Held(x), NEW data \in Seq(Byte)
    PROVE  LET y == Received(x, data)
           IN  Held(y) /\ Bytes(y) = Bytes(x) \o data /\ RoomKept(x, y)
<1> DEFINE here == IF Len(data) <= Writable(x) THEN Len(data) ELSE Writable(x)
           first == SubSeq(data, 1, here)
           rest == SubSeq(data, here + 1, Len(data))
           full == [Copy(x, x.writer, first) EXCEPT !.writer = @ + here]
<1>1. Len(data) \in Nat /\ Writable(x) \in Nat
  BY LenProperties DEF Held, State, Writable
<1>2. here \in 0 .. Len(data) /\ here <= Writable(x)
  BY <1>1
<1>3. Received(x, data) = Appended(full, rest)
  BY DEF Received
<1> HIDE DEF here
<1>4. first \in Seq(Byte) /\ rest \in Seq(Byte) /\ Len(first) = here /\ first \o rest = data
  <2>1. \A i \in 1 .. Len(data) : data[i] \in Byte
    BY ElementOfSeq
  <2>2. first \in Seq(Byte) /\ Len(first) = here
    <3>1. \A i \in 1 .. here : data[i] \in Byte
      BY <1>1, <1>2, <2>1
    <3>2. 1 \in Int /\ here \in Int
      BY <1>2
    <3>3. first \in Seq(Byte) /\ Len(first) = IF 1 <= here THEN here - 1 + 1 ELSE 0
      BY <3>1, <3>2, SubSeqProperties
    <3> QED
      BY <1>2, <3>3
  <2>3. rest \in Seq(Byte)
    <3>1. \A i \in here + 1 .. Len(data) : data[i] \in Byte
      BY <1>1, <1>2, <2>1
    <3>2. here + 1 \in Int /\ Len(data) \in Int
      BY <1>1, <1>2
    <3> QED
      BY <3>1, <3>2, SubSeqProperties
  <2>4. first \o rest = SubSeq(data, 1, Len(data))
    <3>1. 1 \in 1 .. Len(data) + 1 /\ here \in 1 - 1 .. Len(data) /\ Len(data) \in here .. Len(data)
      BY <1>1, <1>2
    <3> QED
      BY <3>1, ConcatAdjacentSubSeq
  <2> QED
    BY <2>2, <2>3, <2>4, SubSeqFull
<1> HIDE DEF first, rest
<1>5. Held(full) /\ Bytes(full) = Bytes(x) \o first /\ full.reader = x.reader
  <2> DEFINE y == [Copy(x, x.writer, first) EXCEPT !.writer = @ + Len(first)]
  <2>1. Len(first) <= Writable(x)
    BY <1>2, <1>4
  <2>2. Held(y) /\ Bytes(y) = Bytes(x) \o first /\ y.reader = x.reader
    BY <1>4, <2>1, WriteBehind
  <2> QED
    BY <1>4, <2>2
<1> HIDE DEF full
<1> DEFINE y == Appended(full, rest)
<1>6. Held(y) /\ Bytes(y) = Bytes(full) \o rest /\ RoomKept(full, y)
  BY <1>4, <1>5, AppendedHolds
<1> HIDE DEF y
<1>7. (Bytes(x) \o first) \o rest = Bytes(x) \o (first \o rest)
  <2>1. Bytes(x) \in Seq(Byte)
    BY BytesAre
  <2>2. Joined(Bytes(x), first, rest)
    BY <1>4, <2>1, Joins
  <2> QED
    BY <2>2 DEF Joined
<1> QED
  BY <1>3, <1>4, <1>5, <1>6, <1>7 DEF RoomKept, y

(* prepend() writes in front of the bytes held. *)
LEMMA PrependHolds ==
    ASSUME NEW x, Held(x), NEW data \in Seq(Byte), x.reader >= Len(data)
    PROVE  LET y == [Copy(x, x.reader - Len(data), data) EXCEPT !.reader = @ - Len(data)]
           IN  Held(y) /\ Bytes(y) = data \o Bytes(x) /\ y.reader = x.reader - Len(data)
<1> DEFINE r == x.reader - Len(data)
           c == Copy(x, r, data)
           y == [c EXCEPT !.reader = @ - Len(data)]
<1>1. /\ x \in State /\ x.mem \in Seq(Byte) /\ Len(x.mem) \in Nat /\ x.reader \in Nat /\ x.writer \in Nat
      /\ x.reader <= x.writer /\ x.writer <= Len(x.mem) /\ Len(data) \in Nat
  BY LenProperties DEF Held, State
<1>2. r \in Nat /\ r + Len(data) = x.reader
  BY <1>1
<1> HIDE DEF r
<1>3. /\ c \in State /\ c.reader = x.reader /\ c.writer = x.writer
      /\ Len(c.mem) = Len(x.mem)
      /\ \A i \in 1 .. Len(x.mem) :
            c.mem[i] = IF i \in r + 1 .. r + Len(data) THEN data[i - r] ELSE x.mem[i]
  <2>1. x \in State /\ r \in Nat
    BY <1>1, <1>2
  <2> QED
    BY <2>1, CopyWrites
<1> HIDE DEF c
<1>4. y \in State /\ y.mem = c.mem /\ y.reader = r /\ y.writer = x.writer
  <2>1. c.reader - Len(data) = r
    BY <1>1, <1>2, <1>3
  <2> DEFINE w == c.writer
  <2>2. y = WithIndices(c, r, w)
    BY <1>3, <2>1 DEF State, WithIndices
  <2>3. c \in State /\ r \in Nat /\ w \in Nat /\ w = x.writer
    BY <1>1, <1>2, <1>3
  <2> HIDE DEF y, w
  <2>4. /\ WithIndices(c, r, w) \in State /\ WithIndices(c, r, w).mem = c.mem
        /\ WithIndices(c, r, w).reader = r /\ WithIndices(c, r, w).writer = w
    <3>1. c \in State /\ r \in Nat /\ w \in Nat
      BY <2>3
    <3> QED
      BY <3>1, SetIndices
  <2> QED
    BY <2>2, <2>3, <2>4
<1> HIDE DEF y
<1>5. Held(y)
  BY <1>1, <1>2, <1>3, <1>4 DEF Held
<1>6. /\ Bytes(x) \in Seq(Byte) /\ Len(Bytes(x)) = Readable(x)
      /\ \A i \in 1 .. Readable(x) : Bytes(x)[i] = x.mem[x.reader + i]
  BY BytesAre
<1>7. /\ Bytes(y) \in Seq(Byte) /\ Len(Bytes(y)) = Readable(y)
      /\ \A i \in 1 .. Readable(y) : Bytes(y)[i] = y.mem[y.reader + i]
  BY <1>5, BytesAre
<1>8. Readable(y) = Len(data) + Readable(x) /\ Readable(x) \in Nat
  BY <1>1, <1>2, <1>4 DEF Readable
<1>9. /\ data \o Bytes(x) \in Seq(Byte)
      /\ Len(data \o Bytes(x)) = Len(data) + Readable(x)
      /\ \A i \in 1 .. Len(data) + Readable(x) : (data \o Bytes(x))[i] =
            IF i <= Len(data) THEN data[i] ELSE Bytes(x)[i - Len(data)]
  <2>1. /\ data \o Bytes(x) \in Seq(Byte)
        /\ Len(data \o Bytes(x)) = Len(data) + Len(Bytes(x))
        /\ \A i \in 1 .. Len(data) + Len(Bytes(x)) : (data \o Bytes(x))[i] =
              IF i <= Len(data) THEN data[i] ELSE Bytes(x)[i - Len(data)]
    BY <1>6, ConcatProperties
  <2> QED
    BY <1>6, <2>1, Zenon
<1>10. ASSUME NEW i \in 1 .. Len(data) + Readable(x) PROVE Bytes(y)[i] = (data \o Bytes(x))[i]
  <2> DEFINE k == r + i
             j == i - Len(data)
  <2>1. /\ k \in 1 .. Len(x.mem) /\ i \in 1 .. Readable(y) /\ y.reader + i = k /\ k - r = i
    <3>1. i \in Nat /\ 1 <= i /\ i <= Len(data) + Readable(x)
      BY <1>1, <1>8
    <3>2. i <= Readable(y) /\ Readable(y) \in Nat
      BY <1>1, <1>8, <3>1
    <3>3. r + i <= Len(x.mem) /\ r + i \in Nat /\ y.reader = r
      <4>1. /\ x.reader \in Nat /\ x.writer \in Nat /\ Len(x.mem) \in Nat /\ Len(data) \in Nat
            /\ x.writer <= Len(x.mem) /\ r \in Nat /\ r + Len(data) = x.reader /\ y.reader = r
        BY <1>1, <1>2, <1>4
      <4> QED
        BY <3>1, <4>1 DEF Readable
    <3> QED
      BY <1>1, <1>2, <3>1, <3>2, <3>3
  <2>2. Bytes(y)[i] = c.mem[k]
    BY <1>4, <1>7, <2>1, Zenon
  <2>3. i <= Len(data) => k \in r + 1 .. r + Len(data)
    BY <1>1, <1>2
  <2>4. i > Len(data) => /\ k \notin r + 1 .. r + Len(data) /\ ~(i <= Len(data))
                         /\ j \in 1 .. Readable(x) /\ x.reader + j = k
    BY <1>1, <1>2, <1>8
  <2>5. i <= Len(data) \/ i > Len(data)
    BY <1>1
  <2>6. (data \o Bytes(x))[i] = IF i <= Len(data) THEN data[i] ELSE Bytes(x)[j]
    BY <1>9
  <2> HIDE DEF k, j
  <2>7. CASE i <= Len(data)
    <3>1. c.mem[k] = data[k - r]
      BY <1>3, <2>1, <2>3, <2>7, Zenon
    <3> QED
      BY <2>1, <2>2, <2>6, <2>7, <3>1, Zenon
  <2>8. CASE i > Len(data)
    <3>1. c.mem[k] = x.mem[k]
      BY <1>3, <2>1, <2>4, <2>8, Zenon
    <3>2. Bytes(x)[j] = x.mem[k]
      BY <1>6, <2>4, <2>8, Zenon
    <3> QED
      BY <2>2, <2>4, <2>6, <2>8, <3>1, <3>2, Zenon
  <2> QED
    BY <2>5, <2>7, <2>8, Zenon
<1>11. Bytes(y) = data \o Bytes(x)
  BY <1>7, <1>8, <1>9, <1>10, SeqEqual
<1> QED
  BY <1>4, <1>5, <1>11 DEF c, y, r

(* retrieve() takes bytes from the front. *)
LEMMA RetrieveHolds ==
    ASSUME NEW x, Held(x), NEW n \in Nat, n <= Readable(x)
    PROVE  LET y == [x EXCEPT !.reader = @ + n]
           IN  /\ Held(y) /\ y.reader = x.reader + n
               /\ Bytes(y) = SubSeq(Bytes(x), n + 1, Len(Bytes(x)))
<1> DEFINE r == x.reader + n
           y == [x EXCEPT !.reader = @ + n]
           t == SubSeq(Bytes(x), n + 1, Len(Bytes(x)))
<1>1. /\ x \in State /\ x.reader \in Nat /\ x.writer \in Nat
      /\ x.reader <= x.writer /\ x.writer <= Len(x.mem) /\ Len(x.mem) \in Nat
  BY LenProperties DEF Held, State
<1>2. y \in State /\ y.mem = x.mem /\ y.reader = r /\ y.writer = x.writer
  BY <1>1 DEF State
<1> HIDE DEF y
<1>3. Held(y)
  BY <1>1, <1>2 DEF Held, Readable
<1>4. /\ Bytes(x) \in Seq(Byte) /\ Len(Bytes(x)) = Readable(x)
      /\ \A i \in 1 .. Readable(x) : Bytes(x)[i] = x.mem[x.reader + i]
  BY BytesAre
<1>5. /\ Bytes(y) \in Seq(Byte) /\ Len(Bytes(y)) = Readable(y)
      /\ \A i \in 1 .. Readable(y) : Bytes(y)[i] = y.mem[y.reader + i]
  BY <1>3, BytesAre
<1>6. Readable(x) \in Nat /\ Readable(y) \in Nat /\ Readable(y) = Readable(x) - n
  <2>1. /\ x.reader \in Nat /\ x.writer \in Nat /\ x.reader <= x.writer /\ r = x.reader + n
        /\ y.reader = r /\ y.writer = x.writer /\ n <= Readable(x)
    BY <1>1, <1>2
  <2> QED
    BY <2>1 DEF Readable
<1>7. /\ t \in Seq(Byte) /\ Len(t) = Readable(y)
      /\ \A i \in 1 .. Readable(y) : t[i] = Bytes(x)[n + i]
  <2> DEFINE s == Bytes(x)
             l == Readable(x)
  <2>1. s \in Seq(Byte) /\ Len(s) = l /\ l \in Nat /\ n <= l /\ t = SubSeq(s, n + 1, l)
    BY <1>4, <1>6
  <2> HIDE DEF s, l, t
  <2>2. \A i \in n + 1 .. l : s[i] \in Byte
    BY <2>1, ElementOfSeq
  <2>3. n + 1 \in Int /\ l \in Int
    BY <2>1
  <2>4. /\ SubSeq(s, n + 1, l) \in Seq(Byte)
        /\ Len(SubSeq(s, n + 1, l)) = IF n + 1 <= l THEN l - (n + 1) + 1 ELSE 0
        /\ \A i \in 1 .. l - (n + 1) + 1 : SubSeq(s, n + 1, l)[i] = s[n + 1 + i - 1]
    BY <2>2, <2>3, SubSeqProperties
  <2>5. Readable(y) = l - n
    BY <1>6 DEF l
  <2>6. l - (n + 1) + 1 = l - n /\ (~(n + 1 <= l) => l - n = 0)
    BY <2>1
  <2>7. \A i \in 1 .. l - n : n + 1 + i - 1 = n + i
    BY <2>1
  <2>8. \A i \in 1 .. l - n : t[i] = s[n + i]
    BY <2>1, <2>4, <2>6, <2>7
  <2>9. t \in Seq(Byte) /\ Len(t) = l - n
    BY <2>1, <2>4, <2>6
  <2> QED
    BY <2>5, <2>8, <2>9 DEF s
<1>8. ASSUME NEW i \in 1 .. Readable(y) PROVE Bytes(y)[i] = t[i]
  <2> DEFINE k == n + i
  <2>1. k \in 1 .. Readable(x) /\ x.reader + k = y.reader + i
    BY <1>1, <1>2, <1>6
  <2>2. t[i] = Bytes(x)[k]
    BY <1>7
  <2> HIDE DEF k, t
  <2>3. Bytes(x)[k] = x.mem[y.reader + i]
    BY <1>4, <2>1, Zenon
  <2> QED
    BY <1>2, <1>5, <2>2, <2>3, Zenon
<1> HIDE DEF t
<1>9. Bytes(y) = t
  BY <1>5, <1>7, <1>8, SeqEqual
<1> QED
  BY <1>2, <1>3, <1>9 DEF y, t

(* retrieveAll() leaves an empty buffer with all its room in front. *)
LEMMA RetrieveAllHolds ==
    ASSUME NEW x, Held(x), Len(x.mem) >= HeadRoom
    PROVE  LET y == [x EXCEPT !.reader = HeadRoom, !.writer = HeadRoom]
           IN  Held(y) /\ Bytes(y) = <<>> /\ y.reader = HeadRoom /\ y.mem = x.mem
<1> DEFINE y == [x EXCEPT !.reader = HeadRoom, !.writer = HeadRoom]
<1>1. HeadRoom \in Nat /\ x \in State /\ Len(x.mem) \in Nat
  BY BufferAssumption, LenProperties DEF Held, State
<1>2. y \in State /\ y.mem = x.mem /\ y.reader = HeadRoom /\ y.writer = HeadRoom
  <2>1. y = WithIndices(x, HeadRoom, HeadRoom)
    BY DEF WithIndices
  <2>2. /\ WithIndices(x, HeadRoom, HeadRoom) \in State
        /\ WithIndices(x, HeadRoom, HeadRoom).mem = x.mem
        /\ WithIndices(x, HeadRoom, HeadRoom).reader = HeadRoom
        /\ WithIndices(x, HeadRoom, HeadRoom).writer = HeadRoom
    <3>1. x \in State /\ HeadRoom \in Nat
      BY <1>1
    <3> QED
      BY <3>1, SetIndices
  <2> QED
    BY <2>1, <2>2
<1> HIDE DEF y
<1>3. Held(y) /\ Readable(y) = 0
  BY <1>1, <1>2 DEF Held, Readable
<1>4. Bytes(y) \in Seq(Byte) /\ Len(Bytes(y)) = 0
  BY <1>3, BytesAre
<1>5. Bytes(y) = <<>>
  BY <1>4
<1> QED
  BY <1>2, <1>3, <1>5 DEF y

-----------------------------------------------------------------------------
(* The writer index never comes before HeadRoom, so the vector is never    *)
(* shorter than that, and retrieveAll can always put the indices there.    *)
BufferInv == Held(b) /\ HeadRoom <= b.writer

LEMMA InitHolds == Init => BufferInv /\ Bytes(b) = <<>> /\ b.reader = HeadRoom
<1> SUFFICES ASSUME Init PROVE BufferInv /\ Bytes(b) = <<>> /\ b.reader = HeadRoom
  OBVIOUS
<1> DEFINE n == Initial + HeadRoom
           m == [i \in 1 .. n |-> Zero]
<1>1. HeadRoom \in Nat /\ n \in Nat /\ HeadRoom <= n /\ Zero \in Byte
  BY BufferAssumption
<1>2. m \in Seq(Byte) /\ Len(m) = n
  BY <1>1
<1>3. b = [mem |-> m, reader |-> HeadRoom, writer |-> HeadRoom]
  BY DEF Init
<1> HIDE DEF m, n
<1>4. Held(b) /\ Readable(b) = 0
  BY <1>1, <1>2, <1>3 DEF Held, State, Readable
<1>5. Bytes(b) \in Seq(Byte) /\ Len(Bytes(b)) = 0
  BY <1>4, BytesAre
<1>6. Bytes(b) = <<>>
  BY <1>5
<1> QED
  BY <1>1, <1>3, <1>4, <1>6 DEF BufferInv

(* The writer index after a call that keeps or adds bytes: it is a number  *)
(* of bytes behind the reader index, which came no closer to the front.    *)
LEMMA WriterStays ==
    ASSUME NEW x, Held(x), HeadRoom <= x.writer,
           NEW y, Held(y), RoomKept(x, y), Readable(x) <= Readable(y)
    PROVE  HeadRoom <= y.writer
<1>1. /\ x.reader \in Nat /\ x.writer \in Nat /\ y.reader \in Nat /\ y.writer \in Nat /\ HeadRoom \in Nat
      /\ x.reader <= x.writer /\ y.reader <= y.writer
  BY BufferAssumption DEF Held, State
<1> QED
  BY <1>1 DEF RoomKept, Readable

-----------------------------------------------------------------------------
(* The room in front as the byte queue counts it.                          *)
RoomOf(x) == IF x.reader < HeadRoom THEN x.reader ELSE HeadRoom

LEMMA RoomOfKept ==
    ASSUME NEW x, Held(x), NEW y, Held(y), RoomKept(x, y)
    PROVE  RoomOf(x) <= RoomOf(y) /\ RoomOf(y) <= HeadRoom
<1>1. x.reader \in Nat /\ y.reader \in Nat /\ HeadRoom \in Nat
  BY BufferAssumption DEF Held, State
<1> QED
  BY <1>1 DEF RoomKept, RoomOf

(* What every call does, in the terms of the byte queue.                   *)
QPut(data) == Bytes(b') = Bytes(b) \o data /\ RoomKept(b, b')

LEMMA Growing ==
    ASSUME BufferInv, NEW data \in Seq(Byte), Held(b'), QPut(data)
    PROVE  BufferInv'
<1>1. Readable(b) <= Readable(b')
  <2>1. Bytes(b) \in Seq(Byte) /\ Len(Bytes(b)) = Readable(b)
    BY BytesAre DEF BufferInv
  <2>2. Len(Bytes(b')) = Readable(b')
    BY BytesAre
  <2> DEFINE s == Bytes(b)
  <2>3. s \in Seq(Byte) /\ Bytes(b') = s \o data
    BY <2>1 DEF QPut
  <2>4. s = Bytes(b)
    OBVIOUS
  <2> HIDE DEF s
  <2>5. Len(s \o data) = Len(s) + Len(data) /\ Len(s) \in Nat /\ Len(data) \in Nat
    BY <2>3
  <2> QED
    BY <2>1, <2>2, <2>3, <2>4, <2>5
<1>2. HeadRoom <= b'.writer
  BY <1>1, WriterStays DEF BufferInv, QPut
<1> QED
  BY <1>2 DEF BufferInv

LEMMA Rearranging ==
    ASSUME BufferInv, Held(b'), Bytes(b') = Bytes(b), RoomKept(b, b')
    PROVE  BufferInv'
<1>1. Bytes(b) \in Seq(Byte) /\ Len(Bytes(b)) = Readable(b) /\ Len(Bytes(b')) = Readable(b')
  BY BytesAre DEF BufferInv
<1>2. Readable(b) <= Readable(b')
  BY <1>1
<1>3. HeadRoom <= b'.writer
  BY <1>2, WriterStays DEF BufferInv
<1> QED
  BY <1>3 DEF BufferInv

-----------------------------------------------------------------------------
(* Each call keeps the invariant and is a step of the byte queue.          *)
LEMMA PutStep ==
    ASSUME BufferInv, NEW data \in Chunks, Held(b'), QPut(data)
    PROVE  BufferInv' /\ Q!Next
<1>1. data \in Seq(Byte)
  BY BufferAssumption
<1>2. BufferInv'
  BY <1>1, Growing
<1>3. RoomOf(b) <= RoomOf(b') /\ RoomOf(b') <= HeadRoom
  BY RoomOfKept DEF BufferInv, QPut
<1>4. Q!Put(data)
  BY <1>3 DEF Q!Put, Q!KeepsRoom, QPut, RoomOf
<1> QED
  BY <1>2, <1>4 DEF Q!Next

LEMMA RearrangeStep ==
    ASSUME BufferInv, Held(b'), Bytes(b') = Bytes(b), RoomKept(b, b')
    PROVE  BufferInv' /\ Q!Next
<1>1. BufferInv'
  BY Rearranging
<1>2. RoomOf(b) <= RoomOf(b') /\ RoomOf(b') <= HeadRoom
  BY RoomOfKept DEF BufferInv
<1>3. Q!Rearrange
  BY <1>2 DEF Q!Rearrange, Q!KeepsRoom, RoomOf
<1> QED
  BY <1>1, <1>3 DEF Q!Next

LEMMA PrependStep ==
    ASSUME BufferInv, NEW data \in Chunks, Prepend(data)
    PROVE  BufferInv' /\ Q!Next
<1>1. data \in Seq(Byte) /\ Held(b) /\ HeadRoom \in Nat /\ Len(data) \in Nat
  BY BufferAssumption, LenProperties DEF BufferInv
<1> DEFINE y == [Copy(b, b.reader - Len(data), data) EXCEPT !.reader = @ - Len(data)]
<1>2. b.reader >= Len(data) /\ b' = y
  BY DEF Prepend
<1>3. Held(y) /\ Bytes(y) = data \o Bytes(b) /\ y.reader = b.reader - Len(data)
  BY <1>1, <1>2, PrependHolds
<1> HIDE DEF y
<1>4. Held(b') /\ Bytes(b') = data \o Bytes(b) /\ b'.reader = b.reader - Len(data)
  BY <1>2, <1>3
<1>5. /\ b.reader \in Nat /\ b.writer \in Nat /\ b'.reader \in Nat /\ b'.writer \in Nat
  BY <1>1, <1>4 DEF Held, State
<1>6. HeadRoom <= b'.writer
  <2>1. Bytes(b) \in Seq(Byte) /\ Len(Bytes(b)) = Readable(b) /\ Len(Bytes(b')) = Readable(b')
    BY <1>1, <1>4, BytesAre
  <2> DEFINE s == Bytes(b)
  <2>2. s \in Seq(Byte) /\ Len(s) = Readable(b) /\ Len(data \o s) = Readable(b')
    BY <1>4, <2>1
  <2> HIDE DEF s
  <2>3. Len(data \o s) = Len(data) + Len(s)
    BY <1>1, <2>2
  <2>4. Readable(b') = Len(data) + Readable(b)
    BY <2>2, <2>3
  <2>5. /\ b'.reader = b.reader - Len(data) /\ HeadRoom <= b.writer
        /\ HeadRoom \in Nat /\ Len(data) \in Nat
    BY <1>1, <1>4 DEF BufferInv
  <2> DEFINE n == Len(data)
             w == b.writer
             r == b.reader
             v == b'.writer
             q == b'.reader
  <2>6. /\ n \in Nat /\ w \in Nat /\ r \in Nat /\ v \in Nat /\ q \in Nat
        /\ v - q = n + (w - r) /\ q = r - n /\ HeadRoom \in Nat /\ HeadRoom <= w
    BY <1>5, <2>4, <2>5, Zenon DEF Readable
  <2> HIDE DEF n, w, r, v, q
  <2>7. HeadRoom <= v
    BY <2>6
  <2> QED
    BY <2>7 DEF v
<1>7. BufferInv'
  BY <1>4, <1>6 DEF BufferInv
<1>8. RoomOf(b) - Len(data) <= RoomOf(b') /\ RoomOf(b') <= HeadRoom
  BY <1>1, <1>4, <1>5 DEF RoomOf
<1>9. Q!Prepend(data)
  BY <1>4, <1>8 DEF Q!Prepend, RoomOf
<1> QED
  BY <1>7, <1>9 DEF Q!Next

LEMMA RetrieveStep ==
    ASSUME BufferInv, NEW n \in 0 .. Len(b.mem), Retrieve(n)
    PROVE  BufferInv' /\ Q!Next
<1>1. n \in Nat /\ n <= Readable(b) /\ Held(b) /\ HeadRoom \in Nat
  <2>1. Len(b.mem) \in Nat
    BY LenProperties DEF BufferInv, Held, State
  <2> QED
    BY <2>1, BufferAssumption DEF Retrieve, BufferInv
<1> DEFINE y == [b EXCEPT !.reader = @ + n]
<1>2. b' = y
  BY DEF Retrieve
<1>3. /\ Held(y) /\ y.reader = b.reader + n
      /\ Bytes(y) = SubSeq(Bytes(b), n + 1, Len(Bytes(b)))
  BY <1>1, RetrieveHolds
<1>4. y.writer = b.writer
  BY <1>1 DEF Held, State
<1> HIDE DEF y
<1>5. BufferInv'
  BY <1>2, <1>3, <1>4 DEF BufferInv
<1>6. RoomKept(b, b')
  <2>1. b.reader \in Nat
    BY <1>1 DEF Held, State
  <2> QED
    BY <1>1, <1>2, <1>3, <2>1 DEF RoomKept
<1>7. RoomOf(b) <= RoomOf(b') /\ RoomOf(b') <= HeadRoom
  BY <1>1, <1>2, <1>3, <1>6, RoomOfKept
<1>8. Q!Get(n)
  BY <1>2, <1>3, <1>7 DEF Q!Get, Q!KeepsRoom, RoomOf
<1>9. n \in 0 .. Len(Bytes(b))
  <2>1. Len(Bytes(b)) = Readable(b)
    BY <1>1, BytesAre
  <2>2. Readable(b) \in Nat
    BY <1>1 DEF Held, State, Readable
  <2> QED
    BY <1>1, <2>1, <2>2
<1> QED
  BY <1>5, <1>8, <1>9 DEF Q!Next

LEMMA RetrieveAllStep ==
    ASSUME BufferInv, RetrieveAll
    PROVE  BufferInv' /\ Q!Next
<1>1. /\ Held(b) /\ HeadRoom \in Nat /\ Len(b.mem) \in Nat /\ Len(b.mem) >= HeadRoom
      /\ b.reader \in Nat /\ b.writer \in Nat
  <2>1. Held(b) /\ Len(b.mem) \in Nat /\ HeadRoom \in Nat /\ b.reader \in Nat /\ b.writer \in Nat
    BY BufferAssumption, LenProperties DEF BufferInv, Held, State
  <2> QED
    BY <2>1 DEF BufferInv, Held
<1> DEFINE y == [b EXCEPT !.reader = HeadRoom, !.writer = HeadRoom]
<1>2. b' = y
  BY DEF RetrieveAll
<1>3. Held(y) /\ Bytes(y) = <<>> /\ y.reader = HeadRoom /\ y.mem = b.mem
  BY <1>1, RetrieveAllHolds
<1> HIDE DEF y
<1>4. HeadRoom <= b'.writer /\ RoomOf(b') = HeadRoom
  <2>1. b'.reader = HeadRoom /\ b'.writer \in Nat /\ b'.reader <= b'.writer
    BY <1>2, <1>3 DEF Held, State
  <2> QED
    BY <1>1, <2>1 DEF RoomOf
<1>5. BufferInv'
  BY <1>2, <1>3, <1>4 DEF BufferInv
<1>6. Q!GetAll
  BY <1>2, <1>3, <1>4 DEF Q!GetAll, RoomOf
<1> QED
  BY <1>5, <1>6 DEF Q!Next

LEMMA StepHolds == BufferInv /\ [Next]_b => BufferInv' /\ [Q!Next]_(Q!qvars)
<1> SUFFICES ASSUME BufferInv, [Next]_b PROVE BufferInv' /\ [Q!Next]_(Q!qvars)
  OBVIOUS
<1> USE BufferAssumption
<1>1. ASSUME NEW data \in Chunks, AppendData(data) PROVE BufferInv' /\ Q!Next
  <2>1. Held(b') /\ QPut(data)
    BY <1>1, AppendedHolds DEF AppendData, QPut, BufferInv
  <2> QED
    BY <2>1, PutStep
<1>2. ASSUME NEW data \in Chunks, ReadFromFd(data) PROVE BufferInv' /\ Q!Next
  <2>1. Held(b') /\ QPut(data)
    BY <1>2, ReceivedHolds DEF ReadFromFd, QPut, BufferInv
  <2> QED
    BY <2>1, PutStep
<1>3. ASSUME NEW data \in Chunks, Prepend(data) PROVE BufferInv' /\ Q!Next
  BY <1>3, PrependStep
<1>4. ASSUME NEW n \in 0 .. Len(b.mem), Retrieve(n) PROVE BufferInv' /\ Q!Next
  BY <1>4, RetrieveStep
<1>5. ASSUME NEW n \in Reserves, EnsureWritableBytes(n) PROVE BufferInv' /\ Q!Next
  <2>1. Held(b') /\ Bytes(b') = Bytes(b) /\ RoomKept(b, b')
    BY <1>5, EnsureMakesRoom DEF EnsureWritableBytes, BufferInv
  <2> QED
    BY <2>1, RearrangeStep
<1>6. ASSUME NEW n \in Reserves, Shrink(n) PROVE BufferInv' /\ Q!Next
  <2> DEFINE k == b.writer + n
  <2>1. Held(b) /\ b.writer \in Nat /\ b.reader \in Nat /\ n \in Nat
    BY DEF BufferInv, Held, State
  <2>2. k \in Nat /\ k >= b.writer /\ b' = Resize(b, k)
    BY <1>6, <2>1 DEF Shrink
  <2> HIDE DEF k
  <2>3. Held(b') /\ Bytes(b') = Bytes(b) /\ b'.reader = b.reader
    BY <2>1, <2>2, ResizeKeeps
  <2>4. RoomKept(b, b')
    BY <2>1, <2>3 DEF RoomKept
  <2> QED
    BY <2>3, <2>4, RearrangeStep
<1>7. ASSUME RetrieveAll PROVE BufferInv' /\ Q!Next
  BY <1>7, RetrieveAllStep
<1>8. ASSUME UNCHANGED b PROVE BufferInv' /\ UNCHANGED Q!qvars
  BY <1>8 DEF BufferInv, Q!qvars
<1> QED
  BY <1>1, <1>2, <1>3, <1>4, <1>5, <1>6, <1>7, <1>8, Zenon DEF Next

(* Whatever has been put into the buffer, taken from it and made room for, *)
(* the indices are in order and inside the vector: no copy reaches outside *)
(* it.                                                                     *)
THEOREM IndicesStayInside == Spec => []IndicesOK
<1>1. Init => BufferInv
  BY InitHolds
<1>2. BufferInv /\ [Next]_b => BufferInv'
  BY StepHolds
<1>3. BufferInv => IndicesOK
  BY DEF BufferInv, Held, State, IndicesOK
<1> QED
  BY <1>1, <1>2, <1>3, PTL DEF Spec

(* The buffer is the byte queue, whatever is asked of it: compaction,      *)
(* growth and the two-part read lose, repeat and reorder no byte and leave *)
(* the room in front that prepend counts on.                               *)
THEOREM ImplementsByteQueue == Spec => IsByteQueue
<1>1. Init => Q!Init
  <2>1. HeadRoom \in Nat
    BY BufferAssumption
  <2> QED
    BY <2>1, InitHolds DEF Q!Init
<1>2. Init => BufferInv
  BY InitHolds
<1>3. BufferInv /\ [Next]_b => BufferInv' /\ [Q!Next]_(Q!qvars)
  BY StepHolds
<1> QED
  BY <1>1, <1>2, <1>3, PTL DEF Spec, IsByteQueue, Q!Spec
=============================================================================
