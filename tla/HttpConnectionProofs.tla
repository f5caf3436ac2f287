------------------------- MODULE HttpConnectionProofs -------------------------
(***************************************************************************)
(* HttpConnection for any requests, any lengths of the responses, any      *)
(* send queue and any faults.                                              *)
(*                                                                         *)
(* First, what each operation of a connection does: it keeps the           *)
(* connection Sound, it Keeps what it has nothing to do with, and it moves *)
(* the stream along.  The invariant HttpInv adds to Sound what relates the *)
(* connection to the loop (Coming, ErrorsAreReal), to the client (Counted, *)
(* Stream) and to what has been answered (Phase, Parsing); each action     *)
(* preserves it, and the theorems follow from it.                          *)
(***************************************************************************)
EXTENDS HttpConnection, FiniteSetTheorems, SequenceTheorems, TLAPS

(* Output is left and the socket takes it. *)
Needs(d) == (d.out # <<>> \/ (d.sending /\ ~d.shrunk)) /\ Len(d.tx) < Cap

(* What holds of a connection after each operation on it. *)
Sound(d) ==
    /\ d \in ConnectionState
    /\ Len(d.tx) <= Cap
    /\ d.up /\ ~d.open => ~d.sending /\ ~d.ctx /\ d.interest = {}
    /\ d.up /\ d.open => "IN" \in d.interest /\ ("OUT" \in d.interest <=> d.out # <<>> \/ d.sending)
    /\ d.up /\ d.open /\ d.shrunk => d.sending /\ d.file = <<>>
    /\ d.up /\ ~d.sending => d.file = <<>>
    /\ d.reset => d.tx = <<>>

(* What each operation, from d to e, leaves alone: the input, the end of   *)
(* the process and of the connection, and an event that is coming; and     *)
(* where it leaves something to write, it asks for an event.               *)
Keeps(d, e) ==
    /\ e.rx = d.rx /\ e.eof = d.eof /\ e.reset = d.reset
    /\ e.up => d.up
    /\ e.up /\ e.open => d.open /\ (d.queued => e.queued) /\ (Needs(e) => e.queued \/ Needs(d))

LEMMA KeepsOn ==
    ASSUME NEW d, NEW e, NEW f, Keeps(d, e), Keeps(e, f)
    PROVE  Keeps(d, f)
  BY DEF Keeps

-----------------------------------------------------------------------------
(* Sequences. *)
LEMMA Splits ==
    ASSUME NEW S, NEW q \in Seq(S), NEW n \in 0 .. Len(q)
    PROVE  /\ Take(q, n) \in Seq(S) /\ Drop(q, n) \in Seq(S)
           /\ Take(q, n) \o Drop(q, n) = q
           /\ Len(Take(q, n)) = n /\ Len(Drop(q, n)) = Len(q) - n
<1>1. \A i \in 1 .. n : q[i] \in S
  BY ElementOfSeq
<1>2. \A i \in n + 1 .. Len(q) : q[i] \in S
  BY ElementOfSeq
<1>3. Take(q, n) \in Seq(S) /\ Len(Take(q, n)) = n
  BY <1>1, SubSeqProperties DEF Take
<1>4. Drop(q, n) \in Seq(S) /\ Len(Drop(q, n)) = Len(q) - n
  BY <1>2, SubSeqProperties, LenProperties DEF Drop
<1>5. Take(q, n) \o Drop(q, n) = SubSeq(q, 1, Len(q))
  <2>1. 1 \in 1 .. Len(q) + 1 /\ n \in 1 - 1 .. Len(q) /\ Len(q) \in n .. Len(q)
    BY LenProperties
  <2> QED
    BY <2>1, ConcatAdjacentSubSeq DEF Take, Drop
<1> QED
  BY <1>3, <1>4, <1>5, SubSeqFull

LEMMA Empty == \A S : \A q \in Seq(S) : (q = <<>> <=> Len(q) = 0) /\ Len(q) \in Nat
  BY EmptySeq, LenProperties

(* Sequences of units.  Three, or four, of them can be joined in any order; *)
(* a name of its own for that keeps each use of it a single fact.          *)
Joined(x, y, z) == (x \o y) \o z = x \o (y \o z)
Joined4(x, y, z, w) == (x \o (y \o z)) \o w = x \o (y \o (z \o w))

LEMMA Units == \A x, y \in Seq(Unit) : x \o y \in Seq(Unit)
  BY ConcatProperties

LEMMA NoUnits == <<>> \in Seq(Unit) /\ \A x \in Seq(Unit) : x \o <<>> = x /\ <<>> \o x = x
  BY ConcatEmptySeq, EmptySeq

LEMMA Joins ==
    ASSUME NEW x \in Seq(Unit), NEW y \in Seq(Unit), NEW z \in Seq(Unit)
    PROVE  Joined(x, y, z)
  BY ConcatAssociative DEF Joined

LEMMA Joins4 ==
    ASSUME NEW x \in Seq(Unit), NEW y \in Seq(Unit), NEW z \in Seq(Unit), NEW w \in Seq(Unit)
    PROVE  Joined4(x, y, z, w)
<1> DEFINE yz == y \o z
<1>1. yz \in Seq(Unit)
  BY Units
<1> HIDE DEF yz
<1>2. Joined(x, yz, w)
  BY <1>1, Joins
<1>3. Joined(y, z, w)
  BY Joins
<1> QED
  BY <1>2, <1>3 DEF Joined, Joined4, yz

(* write(2): what fits, and the rest behind it. *)
LEMMA PushIs ==
    ASSUME NEW d \in ConnectionState, Len(d.tx) <= Cap, NEW data \in Seq(Unit)
    PROVE  /\ Push(d, data) = [d EXCEPT !.tx = Push(d, data).tx]
           /\ Push(d, data).tx \in Seq(Unit) /\ Rest(d, data) \in Seq(Unit)
           /\ Push(d, data).tx \o Rest(d, data) = d.tx \o data
           /\ Len(Push(d, data).tx) <= Cap
           /\ Rest(d, data) # <<>> => Len(Push(d, data).tx) = Cap
           /\ data = <<>> => Push(d, data).tx = d.tx /\ Rest(d, data) = <<>>
<1> DEFINE n == Least(Len(data), Cap - Len(d.tx))
<1>1. d.tx \in Seq(Unit) /\ Len(d.tx) \in Nat /\ Len(data) \in Nat /\ Cap \in Nat
  BY CapAssumption, LenProperties DEF ConnectionState
<1>2. n \in 0 .. Len(data) /\ n <= Cap - Len(d.tx) /\ (n = Len(data) \/ n = Cap - Len(d.tx))
  <2>1. \A a, b \in Nat : Least(a, b) \in 0 .. a /\ Least(a, b) <= b /\ Least(a, b) \in {a, b}
    BY DEF Least
  <2>2. Cap - Len(d.tx) \in Nat
    BY <1>1
  <2> QED
    BY <1>1, <2>1, <2>2
<1> DEFINE t == Take(data, n)
           r == Drop(data, n)
<1>3. /\ t \in Seq(Unit) /\ r \in Seq(Unit) /\ t \o r = data
      /\ Len(t) = n /\ Len(r) = Len(data) - n
  BY <1>2, Splits
<1>4. Push(d, data) = [d EXCEPT !.tx = d.tx \o t] /\ Rest(d, data) = r
  BY DEF Push, Rest
<1> HIDE DEF n, t, r
<1>5. Push(d, data).tx = d.tx \o t
  BY <1>4 DEF ConnectionState
<1>6. d.tx \o t \in Seq(Unit) /\ Len(d.tx \o t) = Len(d.tx) + n
  BY <1>1, <1>3, ConcatProperties
<1>7. (d.tx \o t) \o r = d.tx \o data
  <2>1. Joined(d.tx, t, r)
    BY <1>1, <1>3, Joins
  <2> QED
    BY <1>3, <2>1 DEF Joined
<1>8. r # <<>> => n = Cap - Len(d.tx)
  BY <1>1, <1>2, <1>3, Empty
<1>9. data = <<>> => t = <<>> /\ r = <<>>
  BY <1>1, <1>2, <1>3, Empty
<1>10. data = <<>> => d.tx \o t = d.tx
  BY <1>1, <1>9, ConcatEmptySeq
<1>11. d.tx \o t = Push(d, data).tx /\ r = Rest(d, data)
  BY <1>4, <1>5
<1>12. Push(d, data) = [d EXCEPT !.tx = Push(d, data).tx]
  BY <1>4, <1>11
<1>13. Len(d.tx \o t) <= Cap /\ (r # <<>> => Len(d.tx \o t) = Cap)
  BY <1>1, <1>2, <1>6, <1>8
<1> QED
  BY <1>3, <1>6, <1>7, <1>9, <1>10, <1>11, <1>12, <1>13

-----------------------------------------------------------------------------
(* The operations of a connection. *)
LEMMA ReleaseIs ==
    ASSUME NEW d, Sound(d), d.up, d.open
    PROVE  /\ Sound(ReleaseFd(d)) /\ Keeps(d, ReleaseFd(d))
           /\ ReleaseFd(d).up /\ ~ReleaseFd(d).open
           /\ ReleaseFd(d).tx = d.tx /\ ReleaseFd(d).out = d.out /\ ReleaseFd(d).state = d.state
<1>1. <<>> \in Seq(Unit)
  BY EmptySeq
<1>3. d \in ConnectionState
  BY DEF Sound
<1>2. ReleaseFd(d) \in ConnectionState
  BY ONLY <1>1, <1>3, d.open DEF ReleaseFd, ConnectionState
<1> QED
  BY <1>2 DEF ReleaseFd, Sound, Keeps, ConnectionState

LEMMA TerminateIs ==
    ASSUME NEW d, Sound(d)
    PROVE  /\ Sound(Terminate(d)) /\ Keeps(d, Terminate(d)) /\ ~Terminate(d).up
           /\ Terminate(d).open = d.open /\ Terminate(d).ctx = d.ctx
           /\ Terminate(d).tx = d.tx /\ Terminate(d).out = d.out /\ Terminate(d).state = d.state
<1>1. Terminate(d) \in ConnectionState
  BY DEF Terminate, Sound, ConnectionState
<1> QED
  BY <1>1 DEF Terminate, Sound, Keeps, ConnectionState

LEMMA CloseIs ==
    ASSUME NEW d, Sound(d)
    PROVE  /\ Sound(Close(d)) /\ Keeps(d, Close(d))
           /\ Close(d).tx = d.tx /\ Close(d).out = d.out /\ Close(d).up = d.up
           /\ ~d.up => Close(d) = d
           /\ d.up => Close(d).state = "Closing"
           /\ d.up /\ d.open /\ d.out = <<>> => ~Close(d).open
           /\ d.up /\ (~d.open \/ d.out # <<>>) => Close(d) = [d EXCEPT !.state = "Closing"]
<1> DEFINE e == [d EXCEPT !.state = "Closing"]
<1>1. e \in ConnectionState
  BY DEF Sound, ConnectionState
<1>2. Sound(e) /\ Keeps(d, e)
  BY <1>1 DEF Sound, Keeps, Needs, ConnectionState
<1>3. e.up = d.up /\ e.open = d.open /\ e.out = d.out /\ e.tx = d.tx /\ e.state = "Closing"
  BY DEF Sound, ConnectionState
<1>4. Close(d) = IF ~d.up THEN d ELSE IF e.out = <<>> /\ e.open THEN ReleaseFd(e) ELSE e
  BY DEF Close
<1> HIDE DEF e
<1>5. CASE ~d.up
  BY <1>4, <1>5 DEF Keeps
<1>6. CASE d.up /\ e.out = <<>> /\ e.open
  <2>1. Sound(ReleaseFd(e)) /\ Keeps(e, ReleaseFd(e)) /\ ReleaseFd(e).up /\ ~ReleaseFd(e).open
        /\ ReleaseFd(e).tx = e.tx /\ ReleaseFd(e).out = e.out /\ ReleaseFd(e).state = e.state
    BY <1>2, <1>3, <1>6, ReleaseIs
  <2>2. Close(d) = ReleaseFd(e)
    BY <1>4, <1>6
  <2>3. Keeps(d, Close(d))
    BY <1>2, <2>1, <2>2, KeepsOn
  <2> QED
    BY <1>3, <1>6, <2>1, <2>2, <2>3
<1>7. CASE d.up /\ ~(e.out = <<>> /\ e.open)
  <2>1. Close(d) = [d EXCEPT !.state = "Closing"]
    BY <1>4, <1>7 DEF e
  <2> QED
    BY <1>2, <1>3, <1>4, <1>7, <2>1
<1> QED
  BY <1>5, <1>6, <1>7 DEF Sound, ConnectionState

LEMMA HandleCloseIs ==
    ASSUME NEW d, Sound(d), d.up
    PROVE  /\ Sound(HandleClose(d)) /\ Keeps(d, HandleClose(d))
           /\ HandleClose(d).tx = d.tx /\ HandleClose(d).out = d.out
           /\ ~d.open => HandleClose(d) = d
           /\ ~HandleClose(d).open
           /\ HandleClose(d).state # d.state => HandleClose(d).state = "Closing"
           /\ ~HandleClose(d).up <=>
                d.open /\ d.sending /\ d.out = <<>> /\ d.state = "SendingResponse"
<1> DEFINE e == IF d.sending THEN OnWriteComplete(d) ELSE d
<1>1. CASE ~d.open
  <2>1. HandleClose(d) = d
    BY <1>1 DEF HandleClose
  <2> QED
    BY <1>1, <2>1 DEF Keeps, Needs
<1>2. CASE d.open /\ d.sending /\ d.state = "SendingResponse"
  <2>1. HandleClose(d) = ReleaseFd(Close(d))
    BY <1>2 DEF HandleClose, OnWriteComplete
  <2>2. Sound(Close(d)) /\ Keeps(d, Close(d)) /\ Close(d).up
        /\ Close(d).tx = d.tx /\ Close(d).out = d.out /\ Close(d).state = "Closing"
    BY <1>2, CloseIs
  <2>3. CASE d.out = <<>>
    <3>1. ~Close(d).open
      BY <1>2, <2>3, CloseIs
    <3>2. HandleClose(d) = Terminate(Close(d))
      BY <2>1, <3>1 DEF ReleaseFd
    <3> QED
      BY <1>2, <2>2, <2>3, <3>1, <3>2, TerminateIs, KeepsOn
  <2>4. CASE d.out # <<>>
    <3>1. Close(d).open
      <4>1. Close(d) = [d EXCEPT !.state = "Closing"]
        BY <1>2, <2>4, CloseIs
      <4> QED
        BY <1>2, <4>1 DEF Sound, ConnectionState
    <3> QED
      BY <1>2, <2>1, <2>2, <2>4, <3>1, ReleaseIs, KeepsOn
  <2> QED
    BY <2>3, <2>4
<1>3. CASE d.open /\ ~(d.sending /\ d.state = "SendingResponse")
  <2>1. HandleClose(d) = ReleaseFd(d)
    BY <1>3 DEF HandleClose, OnWriteComplete
  <2> QED
    BY <1>3, <2>1, ReleaseIs
<1> QED
  BY <1>1, <1>2, <1>3 DEF Sound, ConnectionState

(* EPOLL_CTL_MOD: whatever is there already is an edge. *)
LEMMA ModFdIs ==
    ASSUME NEW d \in ConnectionState, NEW events \in SUBSET {"IN", "OUT"}, d.up, d.open
    PROVE  /\ ModFd(d, events) =
                [d EXCEPT !.interest = events, !.queued = ModFd(d, events).queued]
           /\ ModFd(d, events) \in ConnectionState
           /\ d.queued => ModFd(d, events).queued
           /\ "OUT" \in events /\ Len(d.tx) < Cap => ModFd(d, events).queued
<1>1. ModFd(d, events) = [d EXCEPT !.interest = events,
                                   !.queued = @ \/ Readiness(d) \cap (events \cup {"ERR"}) # {}]
  BY DEF ModFd
<1> DEFINE e == ModFd(d, events)
           now == Readiness(d) \cap (events \cup {"ERR"}) # {}
<1>5. e = [d EXCEPT !.interest = events, !.queued = @ \/ now]
  BY <1>1
<1>6. now \in BOOLEAN
  OBVIOUS
<1> HIDE DEF e, now
<1>7. e \in ConnectionState /\ e.queued = (d.queued \/ now)
  BY <1>5, <1>6 DEF ConnectionState
<1>2. ModFd(d, events) \in ConnectionState
      /\ ModFd(d, events).queued = (d.queued \/ Readiness(d) \cap (events \cup {"ERR"}) # {})
  BY <1>7 DEF e, now
<1>3. Len(d.tx) < Cap => "OUT" \in Readiness(d)
  BY DEF Readiness
<1>4. ModFd(d, events) = [d EXCEPT !.interest = events, !.queued = ModFd(d, events).queued]
  BY <1>1, <1>2
<1> QED
  BY <1>2, <1>3, <1>4

(* Output that is behind what the socket took, with EPOLLOUT asked for. *)
Armed(d, tx, out) == ModFd([d EXCEPT !.tx = tx, !.out = out], {"IN", "OUT"})

LEMMA ArmedIs ==
    ASSUME NEW d, Sound(d), d.up, d.open, NEW tx \in Seq(Unit), NEW out \in Seq(Unit),
           Len(tx) <= Cap, d.reset => tx = <<>>, out # <<>>,
           NEW e, e = Armed(d, tx, out)
    PROVE  /\ Sound(e) /\ Keeps(d, e) /\ e.up /\ e.open /\ e.tx = tx /\ e.out = out
           /\ e.state = d.state /\ e.sending = d.sending /\ e.file = d.file
           /\ e.shrunk = d.shrunk /\ e.ctx = d.ctx
<1> DEFINE p == [d EXCEPT !.tx = tx, !.out = out]
           both == {"IN", "OUT"}
<1>6. d \in ConnectionState
  BY DEF Sound
<1>1. /\ p \in ConnectionState /\ p.up /\ p.open /\ p.tx = tx /\ p.out = out
      /\ p.state = d.state /\ p.sending = d.sending /\ p.file = d.file
      /\ p.shrunk = d.shrunk /\ p.ctx = d.ctx /\ p.rx = d.rx /\ p.eof = d.eof /\ p.reset = d.reset
      /\ p.queued = d.queued
  BY <1>6 DEF ConnectionState
<1>7. e = ModFd(p, both) /\ both \in SUBSET {"IN", "OUT"} /\ "OUT" \in both
  BY DEF Armed
<1> HIDE DEF p, both
<1>2. /\ e = [p EXCEPT !.interest = both, !.queued = e.queued]
      /\ e \in ConnectionState
      /\ p.queued => e.queued
      /\ Len(p.tx) < Cap => e.queued
  BY ONLY <1>1, <1>7, ModFdIs
<1>9. p \in ConnectionState
  BY <1>1
<1>8. /\ e.up = p.up /\ e.open = p.open /\ e.tx = p.tx /\ e.out = p.out /\ e.interest = both
      /\ e.state = p.state /\ e.sending = p.sending /\ e.file = p.file
      /\ e.shrunk = p.shrunk /\ e.ctx = p.ctx /\ e.rx = p.rx /\ e.eof = p.eof /\ e.reset = p.reset
  BY ONLY <1>2, <1>9 DEF ConnectionState
<1>3. /\ e.up /\ e.open /\ e.tx = tx /\ e.out = out /\ e.interest = {"IN", "OUT"}
      /\ e.state = d.state /\ e.sending = d.sending /\ e.file = d.file
      /\ e.shrunk = d.shrunk /\ e.ctx = d.ctx /\ e.rx = d.rx /\ e.eof = d.eof /\ e.reset = d.reset
      /\ d.queued => e.queued
  BY <1>1, <1>2, <1>8 DEF both
<1>4. Sound(e)
  BY <1>2, <1>3 DEF Sound
<1>5. Keeps(d, e)
  BY <1>1, <1>2, <1>3 DEF Keeps, Needs
<1> QED
  BY <1>3, <1>4, <1>5

(* From d to e, data goes behind the output; the rest is as before. *)
Follows(d, e, data) == e.tx \o e.out = d.tx \o (d.out \o data)
LikeBefore(d, e) ==
    /\ e.state = d.state /\ e.sending = d.sending /\ e.file = d.file
    /\ e.shrunk = d.shrunk /\ e.ctx = d.ctx

LEMMA SendIs ==
    ASSUME NEW d, Sound(d), d.up, d.open, NEW data \in Seq(Unit), NEW e, e = Send(d, data)
    PROVE  /\ Sound(e) /\ Keeps(d, e)
           /\ d.state = "Closing" => e = d
           /\ e.up /\ e.open /\ d.state # "Closing" => Follows(d, e, data)
           /\ e.up /\ e.open => LikeBefore(d, e)
           /\ ~(e.up /\ e.open) => d.reset /\ e.tx = d.tx
           /\ d.out # <<>> => e.out # <<>>
           /\ e.up => e.state \in {d.state, "Closing"}
<1>1. /\ d \in ConnectionState /\ Len(d.tx) <= Cap
      /\ d.tx \in Seq(Unit) /\ d.out \in Seq(Unit) /\ d.out \o data \in Seq(Unit)
  BY ConcatProperties DEF Sound, ConnectionState
<1>2. CASE d.state = "Closing"
  BY <1>2 DEF Send, Keeps, Needs, LikeBefore
<1>3. CASE d.state # "Closing" /\ d.out # <<>>
  <2>1. d.out \o data # <<>>
    <3>1. \A s, t \in Seq(Unit) : s \o t = <<>> => s = <<>>
      BY ConcatEqualIffEmpty
    <3> QED
      BY <1>1, <1>3, <3>1
  <2>2. e = ModFd([d EXCEPT !.out = d.out \o data], {"IN", "OUT"})
    BY <1>3 DEF Send
  <2>3. [d EXCEPT !.out = d.out \o data] = [d EXCEPT !.tx = d.tx, !.out = d.out \o data]
    BY <1>1 DEF ConnectionState
  <2>4. d.reset => d.tx = <<>>
    BY DEF Sound
  <2>5. e = ModFd([d EXCEPT !.tx = d.tx, !.out = d.out \o data], {"IN", "OUT"})
    BY <2>2, <2>3
  <2>6. /\ Sound(e) /\ Keeps(d, e) /\ e.up /\ e.open /\ e.tx = d.tx /\ e.out = d.out \o data
        /\ e.state = d.state /\ e.sending = d.sending /\ e.file = d.file
        /\ e.shrunk = d.shrunk /\ e.ctx = d.ctx
    <3> DEFINE out == d.out \o data
    <3>1. e = Armed(d, d.tx, out) /\ out \in Seq(Unit) /\ out # <<>>
      BY <1>1, <2>1, <2>5 DEF Armed
    <3> HIDE DEF out
    <3>3. /\ Sound(e) /\ Keeps(d, e) /\ e.up /\ e.open /\ e.tx = d.tx /\ e.out = out
          /\ e.state = d.state /\ e.sending = d.sending /\ e.file = d.file
          /\ e.shrunk = d.shrunk /\ e.ctx = d.ctx
      BY <1>1, <2>4, <3>1, ArmedIs
    <3> QED
      BY <3>3 DEF out
  <2> QED
    BY <1>3, <2>6 DEF Follows, LikeBefore
<1>4. CASE d.state # "Closing" /\ d.out = <<>> /\ d.reset
  <2>1. e = IF d.eof THEN Terminate(d) ELSE HandleClose(d)
    BY <1>4 DEF Send, WriteFails, FailedWrite
  <2>2. CASE d.eof
    BY <1>4, <2>1, <2>2, TerminateIs
  <2>3. CASE ~d.eof
    <3>1. /\ Sound(HandleClose(d)) /\ Keeps(d, HandleClose(d)) /\ HandleClose(d).tx = d.tx
          /\ ~HandleClose(d).open /\ HandleClose(d).state \in {d.state, "Closing"}
      BY HandleCloseIs
    <3> QED
      BY <1>4, <2>1, <2>3, <3>1
  <2> QED
    BY <2>2, <2>3 DEF Sound, ConnectionState
<1>5. CASE d.state # "Closing" /\ d.out = <<>> /\ ~d.reset
  <2> DEFINE tx == Push(d, data).tx
             rest == Rest(d, data)
  <2>1. /\ Push(d, data) = [d EXCEPT !.tx = tx]
        /\ tx \in Seq(Unit) /\ rest \in Seq(Unit) /\ tx \o rest = d.tx \o data
        /\ Len(tx) <= Cap
    BY <1>1, PushIs
  <2>2. e = IF rest = <<>> THEN Push(d, data) ELSE ModFd([Push(d, data) EXCEPT !.out = rest], {"IN", "OUT"})
    BY <1>5 DEF Send, WriteFails
  <2>3. d.out \o data = data
    BY <1>5, ConcatEmptySeq
  <2> HIDE DEF tx, rest
  <2>4. CASE rest = <<>>
    <3>1. e = [d EXCEPT !.tx = tx]
      BY <2>1, <2>2, <2>4
    <3>2. e \in ConnectionState
      <4>1. d \in ConnectionState /\ tx \in Seq(Unit)
        BY <1>1, <2>1
      <4> QED
        BY ONLY <3>1, <4>1 DEF ConnectionState
    <3>3. Len(d.tx) <= Len(tx)
      <4>1. Len(d.tx \o data) = Len(tx)
        BY <2>1, <2>4, ConcatEmptySeq
      <4>2. Len(d.tx \o data) = Len(d.tx) + Len(data) /\ Len(data) \in Nat /\ Len(d.tx) \in Nat
        BY <1>1, ConcatProperties, LenProperties
      <4> QED
        BY <4>1, <4>2
    <3>4. Len(d.tx) \in Nat /\ Len(tx) \in Nat /\ Cap \in Nat
      BY <1>1, <2>1, LenProperties, CapAssumption
    <3>5. /\ e.up /\ e.open /\ e.tx = tx /\ e.out = d.out /\ e.interest = d.interest
          /\ e.state = d.state /\ e.sending = d.sending /\ e.file = d.file
          /\ e.shrunk = d.shrunk /\ e.ctx = d.ctx /\ e.rx = d.rx /\ e.eof = d.eof /\ e.reset = d.reset
          /\ e.queued = d.queued
      BY <1>1, <3>1 DEF ConnectionState
    <3>6. Sound(e)
      BY <1>5, <2>1, <3>2, <3>5 DEF Sound
    <3>7. Keeps(d, e)
      BY <3>3, <3>4, <3>5 DEF Keeps, Needs
    <3>8. e.tx \o e.out = d.tx \o (d.out \o data)
      BY <1>5, <2>1, <2>3, <2>4, <3>5
    <3> QED
      BY <1>5, <3>5, <3>6, <3>7, <3>8 DEF Follows, LikeBefore
  <2>5. CASE rest # <<>>
    <3>1. [Push(d, data) EXCEPT !.out = rest] = [d EXCEPT !.tx = tx, !.out = rest]
      BY <1>1, <2>1 DEF ConnectionState
    <3>2. e = ModFd([d EXCEPT !.tx = tx, !.out = rest], {"IN", "OUT"})
      BY <2>2, <2>5, <3>1
    <3>3. /\ Sound(e) /\ Keeps(d, e) /\ e.up /\ e.open /\ e.tx = tx /\ e.out = rest
          /\ e.state = d.state /\ e.sending = d.sending /\ e.file = d.file
          /\ e.shrunk = d.shrunk /\ e.ctx = d.ctx
      <4>1. e = Armed(d, tx, rest)
        BY <3>2 DEF Armed
      <4> QED
        BY <1>5, <2>1, <2>5, <4>1, ArmedIs
    <3> QED
      BY <1>5, <2>1, <2>3, <3>3 DEF Follows, LikeBefore
  <2> QED
    BY <2>4, <2>5
<1> QED
  BY <1>2, <1>3, <1>4, <1>5

LEMMA SendFileIs ==
    ASSUME NEW d, Sound(d), NEW data \in Seq(Unit), NEW e, e = SendFile(d, data)
    PROVE  /\ Sound(e) /\ Keeps(d, e)
           /\ e.tx = d.tx /\ e.out = d.out /\ e.state = d.state /\ e.ctx = d.ctx /\ e.open = d.open
           /\ ~d.up \/ d.sending => e = d
           /\ e.up \/ ~d.up \/ ~d.open
           /\ d.up /\ ~d.sending /\ d.open => e.sending /\ e.file = data /\ ~e.shrunk
           /\ e.up => e.sending
<1> DEFINE g == [d EXCEPT !.sending = TRUE, !.file = data, !.shrunk = FALSE]
<1>1. CASE ~d.up \/ d.sending
  BY <1>1 DEF SendFile, Keeps, Sound, ConnectionState
<1>2. CASE d.up /\ ~d.sending /\ ~d.open
  <2>1. e = Terminate(g)
    BY <1>2 DEF SendFile, ModFd, Sound, ConnectionState
  <2>2. e = [d EXCEPT !.sending = TRUE, !.file = data, !.shrunk = FALSE, !.up = FALSE]
    BY <2>1 DEF Terminate, Sound, ConnectionState
  <2> HIDE DEF g
  <2>3. e \in ConnectionState
    <3>1. d \in ConnectionState
      BY DEF Sound
    <3> QED
      BY ONLY <2>2, <3>1, data \in Seq(Unit) DEF ConnectionState
  <2> QED
    BY <1>2, <2>2, <2>3 DEF Sound, Keeps, ConnectionState
<1>3. CASE d.up /\ ~d.sending /\ d.open
  <2>9. d \in ConnectionState
    BY DEF Sound
  <2>1. /\ g \in ConnectionState /\ g.up /\ g.open /\ g.tx = d.tx /\ g.queued = d.queued
        /\ g.out = d.out /\ g.state = d.state /\ g.sending /\ g.file = data /\ ~g.shrunk
        /\ g.ctx = d.ctx /\ g.rx = d.rx /\ g.eof = d.eof /\ g.reset = d.reset
    BY <1>3, <2>9 DEF ConnectionState
  <2>2. e = ModFd(g, {"IN", "OUT"})
    BY <1>3 DEF SendFile
  <2> DEFINE both == {"IN", "OUT"}
  <2>7. both \in SUBSET {"IN", "OUT"} /\ "OUT" \in both /\ e = ModFd(g, both)
    BY <2>2
  <2> HIDE DEF g, both
  <2>8. /\ e = [g EXCEPT !.interest = both, !.queued = e.queued]
        /\ e \in ConnectionState
        /\ g.queued => e.queued
        /\ Len(g.tx) < Cap => e.queued
    BY ONLY <2>1, <2>7, ModFdIs
  <2>10. g \in ConnectionState
    BY <2>1
  <2>3. /\ e.up = g.up /\ e.open = g.open /\ e.tx = g.tx /\ e.out = g.out /\ e.interest = both
        /\ e.state = g.state /\ e.sending = g.sending /\ e.file = g.file /\ e.shrunk = g.shrunk
        /\ e.ctx = g.ctx /\ e.rx = g.rx /\ e.eof = g.eof /\ e.reset = g.reset
    BY ONLY <2>8, <2>10 DEF ConnectionState
  <2>4. /\ e.up /\ e.open /\ e.tx = d.tx /\ e.out = d.out /\ e.interest = {"IN", "OUT"}
        /\ e.state = d.state /\ e.sending /\ e.file = data
        /\ ~e.shrunk /\ e.ctx = d.ctx /\ e.rx = d.rx /\ e.eof = d.eof /\ e.reset = d.reset
    BY <2>1, <2>3 DEF both
  <2>5. Sound(e)
    BY <2>8, <2>4 DEF Sound
  <2>6. Keeps(d, e)
    BY <1>3, <2>1, <2>8, <2>4 DEF Keeps, Needs
  <2> QED
    BY <1>3, <2>4, <2>5, <2>6
<1> QED
  BY <1>1, <1>2, <1>3 DEF Sound, ConnectionState

(* The last byte is out. *)
Finished(d, tx) == [d EXCEPT !.tx = tx, !.out = <<>>, !.file = <<>>, !.sending = FALSE]

LEMMA WriteDoneIs ==
    ASSUME NEW d, Sound(d), d.up, ~d.shrunk \/ ~d.open,
           NEW tx \in Seq(Unit), Len(tx) <= Cap, d.reset => tx = <<>>,
           NEW e, e = WriteDone(Finished(d, tx))
    PROVE  /\ Sound(e) /\ Keeps(d, e) /\ e.tx = tx /\ e.out = <<>>
           /\ e.up <=> d.open
           /\ e.open <=> d.open /\ d.state = "ReadingRequest"
           /\ e.open => ~e.sending /\ e.file = <<>> /\ e.shrunk = d.shrunk
           /\ e.state # d.state => e.state = "Closing"
           /\ d.open /\ e.open => e.state = d.state
<1> DEFINE g == Finished(d, tx)
           m == ModFd(g, {"IN"})
<1>1. <<>> \in Seq(Unit)
  BY EmptySeq
<1>2. g \in ConnectionState
  BY <1>1 DEF Finished, Sound, ConnectionState
<1>3. /\ g.up /\ g.open = d.open /\ g.tx = tx /\ g.out = <<>> /\ g.file = <<>> /\ ~g.sending
      /\ g.state = d.state /\ g.rx = d.rx /\ g.eof = d.eof /\ g.reset = d.reset
      /\ g.shrunk = d.shrunk /\ g.queued = d.queued /\ g.ctx = d.ctx
  BY DEF Finished, Sound, ConnectionState
<1>4. e = WriteDone(g)
  OBVIOUS
<1> HIDE DEF g
<1>5. CASE ~d.open
  <2>1. m = Terminate(g)
    BY <1>3, <1>5 DEF ModFd
  <2> HIDE DEF m
  <2>2. m \in ConnectionState /\ ~m.up /\ m.tx = tx /\ m.out = <<>> /\ m.open = g.open
        /\ m.rx = d.rx /\ m.eof = d.eof /\ m.reset = d.reset /\ m.state = d.state
    BY <1>2, <1>3, <2>1 DEF Terminate, ConnectionState
  <2>3. e = m
    BY <1>4, <2>2 DEF WriteDone, m
  <2> QED
    BY <1>3, <1>5, <2>2, <2>3 DEF Sound, Keeps
<1>6. CASE d.open
  <2>1. /\ m = [g EXCEPT !.interest = {"IN"}, !.queued = m.queued]
        /\ m \in ConnectionState
        /\ g.queued => m.queued
    BY <1>2, <1>3, <1>6, ModFdIs
  <2> HIDE DEF m
  <2>8. /\ m.up = g.up /\ m.open = g.open /\ m.tx = g.tx /\ m.out = g.out /\ m.file = g.file
         /\ m.sending = g.sending /\ m.state = g.state /\ m.rx = g.rx /\ m.eof = g.eof
         /\ m.reset = g.reset /\ m.shrunk = g.shrunk /\ m.interest = {"IN"}
    BY ONLY <1>2, <2>1 DEF ConnectionState
  <2>2. /\ m.up /\ m.open /\ m.tx = tx /\ m.out = <<>> /\ m.file = <<>> /\ ~m.sending
        /\ m.state = d.state /\ m.rx = d.rx /\ m.eof = d.eof /\ m.reset = d.reset
        /\ m.shrunk = d.shrunk /\ m.interest = {"IN"}
    BY <1>3, <1>6, <2>8
  <2>3. Sound(m)
    BY <1>6, <2>1, <2>2 DEF Sound
  <2>4. Keeps(d, m)
    BY <1>3, <1>6, <2>1, <2>2 DEF Keeps, Needs
  <2>5. CASE d.state = "ReadingRequest"
    <3>1. WriteDone(g) = m
      BY <2>2, <2>5 DEF WriteDone, OnWriteComplete, m
    <3> QED
      BY <1>4, <1>6, <2>2, <2>3, <2>4, <2>5, <3>1
  <2>6. CASE d.state = "SendingResponse"
    <3>1. /\ Sound(Close(m)) /\ Keeps(m, Close(m)) /\ Close(m).up /\ ~Close(m).open
          /\ Close(m).tx = tx /\ Close(m).out = <<>> /\ Close(m).state = "Closing"
      BY <2>2, <2>3, CloseIs
    <3>2. WriteDone(g) = Close(m)
      BY <2>2, <2>6, <3>1 DEF WriteDone, OnWriteComplete, HandleClose, m
    <3>3. Keeps(d, Close(m))
      BY <2>4, <3>1, KeepsOn
    <3> QED
      BY <1>4, <1>6, <2>6, <3>1, <3>2, <3>3
  <2>7. CASE d.state = "Closing"
    <3>1. WriteDone(g) = HandleClose(m)
      BY <2>2, <2>7 DEF WriteDone, OnWriteComplete, m
    <3>2. /\ Sound(HandleClose(m)) /\ Keeps(m, HandleClose(m)) /\ HandleClose(m).up
          /\ ~HandleClose(m).open /\ HandleClose(m).tx = tx /\ HandleClose(m).out = <<>>
          /\ HandleClose(m).state = "Closing"
      BY <2>2, <2>3, <2>7, HandleCloseIs
    <3>3. Keeps(d, HandleClose(m))
      BY <2>4, <3>2, KeepsOn
    <3> QED
      BY <1>4, <1>6, <2>7, <3>1, <3>2, <3>3
  <2> QED
    BY <2>5, <2>6, <2>7 DEF Sound, ConnectionState
<1> QED
  BY <1>5, <1>6 DEF Sound, ConnectionState

(* A write that does not come to the end of the output. *)
Partly(d, tx, out, file) == [d EXCEPT !.tx = tx, !.out = out, !.file = file]

LEMMA PartlyIs ==
    ASSUME NEW d, Sound(d), d.up, d.open, ~d.reset,
           NEW tx \in Seq(Unit), Len(tx) <= Cap,
           NEW out \in Seq(Unit), NEW file \in Seq(Unit),
           d.out # <<>> \/ d.sending, out # <<>> \/ d.sending, ~d.sending \/ d.shrunk => file = <<>>,
           Len(tx) = Cap \/ (out = <<>> /\ d.shrunk),
           NEW e, e = Partly(d, tx, out, file)
    PROVE  /\ Sound(e) /\ Keeps(d, e) /\ e.up /\ e.open /\ ~Needs(e)
           /\ e.tx = tx /\ e.out = out /\ e.file = file /\ e.state = d.state
           /\ e.sending = d.sending /\ e.shrunk = d.shrunk
<1>1. e \in ConnectionState
  BY DEF Partly, Sound, ConnectionState
<1>2. /\ e.up /\ e.open /\ e.tx = tx /\ e.out = out /\ e.file = file /\ e.interest = d.interest
      /\ e.state = d.state /\ e.sending = d.sending /\ e.shrunk = d.shrunk
      /\ e.rx = d.rx /\ e.eof = d.eof /\ e.reset = d.reset /\ e.queued = d.queued
  BY DEF Partly, Sound, ConnectionState
<1>3. Cap \in Nat /\ Len(tx) \in Nat
  BY CapAssumption, LenProperties
<1> QED
  BY <1>1, <1>2, <1>3 DEF Sound, Keeps, Needs

LEMMA WriteIs ==
    ASSUME NEW d, Sound(d), d.up, NEW e, e = HandleWrite(d)
    PROVE  /\ Sound(e) /\ Keeps(d, e)
           /\ e.up /\ e.open => /\ ~Needs(e) /\ e.state = d.state /\ e.shrunk = d.shrunk
                                /\ e.sending => d.sending
                                /\ e.tx \o (e.out \o e.file) = d.tx \o (d.out \o d.file)
           /\ d.open /\ ~e.open /\ ~d.reset =>
                /\ e.out = <<>> /\ e.tx = d.tx \o (d.out \o d.file) /\ ~d.shrunk
                /\ d.state # "ReadingRequest"
           /\ ~d.open => e.tx = d.tx
           /\ ~e.up => d.reset \/ (~d.open /\ d.out = <<>>)
           /\ e.state # d.state => e.state = "Closing"
<1>1. /\ d \in ConnectionState /\ Len(d.tx) <= Cap
      /\ d.tx \in Seq(Unit) /\ d.out \in Seq(Unit) /\ d.file \in Seq(Unit)
      /\ d.sending => d.open
  BY DEF Sound, ConnectionState
<1>2. CASE WriteFails(d) /\ (d.out # <<>> \/ d.file # <<>>)
  <2>1. d.file # <<>> => d.sending
    BY DEF Sound
  <2>2. e = IF d.open /\ d.eof THEN Terminate(d) ELSE HandleClose(d)
    BY <1>2, <2>1 DEF HandleWrite, WriteFile, WriteBuffer, FailedWrite
  <2>3. CASE d.open /\ d.eof
    <3>1. d.reset
      BY <1>2, <2>3 DEF WriteFails
    <3> QED
      BY <2>2, <2>3, <3>1, TerminateIs
  <2>4. CASE ~(d.open /\ d.eof)
    <3>1. /\ Sound(HandleClose(d)) /\ Keeps(d, HandleClose(d)) /\ HandleClose(d).tx = d.tx
          /\ ~HandleClose(d).open /\ (HandleClose(d).state # d.state => HandleClose(d).state = "Closing")
          /\ ~d.open => HandleClose(d) = d
      BY HandleCloseIs
    <3> QED
      BY <1>2, <2>2, <2>4, <3>1 DEF WriteFails
  <2> QED
    BY <2>3, <2>4
<1> DEFINE h == [Push(d, d.out) EXCEPT !.out = Rest(d, d.out)]
           tx == Push(d, d.out).tx
           out == Rest(d, d.out)
<1>3. /\ Push(d, d.out) = [d EXCEPT !.tx = tx]
      /\ tx \in Seq(Unit) /\ out \in Seq(Unit) /\ tx \o out = d.tx \o d.out /\ Len(tx) <= Cap
      /\ out # <<>> => Len(tx) = Cap
      /\ d.out = <<>> => tx = d.tx /\ out = <<>>
  BY <1>1, PushIs
<1>12. d \in ConnectionState /\ h = [Push(d, d.out) EXCEPT !.out = out]
  BY <1>1
<1> HIDE DEF h, tx, out
<1>4. h = Partly(d, tx, out, d.file)
  BY ONLY <1>3, <1>12 DEF Partly, ConnectionState
<1>5. /\ h \in ConnectionState /\ h.tx = tx /\ h.out = out /\ h.file = d.file /\ h.shrunk = d.shrunk
      /\ h.state = d.state
  <2>1. d \in ConnectionState /\ tx \in Seq(Unit) /\ out \in Seq(Unit) /\ d.file \in Seq(Unit)
    BY <1>1, <1>3
  <2> QED
    BY ONLY <1>4, <2>1 DEF Partly, ConnectionState
<1>8. d.reset => d.tx = <<>>
  BY DEF Sound
<1>6. \A x \in Seq(Unit) : x \o <<>> = x /\ <<>> \o x = x
  BY NoUnits
<1>7. tx \o (out \o d.file) = d.tx \o (d.out \o d.file)
  <2>1. Joined(tx, out, d.file)
    BY <1>1, <1>3, Joins
  <2>2. Joined(d.tx, d.out, d.file)
    BY <1>1, Joins
  <2> QED
    BY <1>3, <2>1, <2>2 DEF Joined
<1>9. CASE ~(WriteFails(d) /\ (d.out # <<>> \/ d.file # <<>>)) /\ out # <<>>
  <2>1. d.out # <<>>
    BY <1>3, <1>9
  <2>2. d.open /\ ~d.reset
    BY <1>9, <2>1 DEF WriteFails
  <2>3. e = h
    BY <1>5, <1>9, <2>1 DEF HandleWrite, WriteFile, WriteBuffer, h
  <2>4. ~d.sending \/ d.shrunk => d.file = <<>>
    BY <2>2 DEF Sound
  <2>5. /\ Sound(e) /\ Keeps(d, e) /\ e.up /\ e.open /\ ~Needs(e)
        /\ e.tx = tx /\ e.out = out /\ e.file = d.file /\ e.state = d.state
        /\ e.sending = d.sending /\ e.shrunk = d.shrunk
    BY <1>1, <1>3, <1>4, <1>9, <2>2, <2>3, <2>4, PartlyIs
  <2> QED
    BY <1>7, <2>2, <2>5
<1>10. CASE ~(WriteFails(d) /\ (d.out # <<>> \/ d.file # <<>>)) /\ out = <<>> /\ ~d.sending
  <2>1. d.file = <<>> /\ (d.open => ~d.shrunk)
    BY <1>10 DEF Sound
  <2>2. h = Finished(d, tx)
    BY <1>1, <1>4, <1>10, <2>1 DEF Partly, Finished, ConnectionState
  <2>3. e = WriteDone(Finished(d, tx))
    BY <1>5, <1>10, <2>1, <2>2 DEF HandleWrite, WriteBuffer, h
  <2>4. d.reset => tx = <<>>
    BY <1>1, <1>3, <1>8, <1>10, <2>1 DEF WriteFails
  <2>5. tx = d.tx \o (d.out \o d.file)
    BY <1>1, <1>3, <1>6, <1>7, <1>10, <2>1
  <2>6. ~d.open => d.out = <<>> /\ tx = d.tx
    BY <1>3, <1>10 DEF WriteFails
  <2>7. /\ Sound(e) /\ Keeps(d, e) /\ e.tx = tx /\ e.out = <<>>
        /\ e.up <=> d.open
        /\ e.open <=> d.open /\ d.state = "ReadingRequest"
        /\ e.open => ~e.sending /\ e.file = <<>> /\ e.shrunk = d.shrunk
        /\ e.state # d.state => e.state = "Closing"
        /\ d.open /\ e.open => e.state = d.state
    BY <1>3, <2>1, <2>3, <2>4, WriteDoneIs
  <2>8. e.open => ~Needs(e)
    BY <2>7 DEF Needs
  <2>9. e.open => e.tx \o (e.out \o e.file) = tx
    BY <1>3, <1>6, <2>7
  <2> QED
    BY <1>1, <2>1, <2>5, <2>6, <2>7, <2>8, <2>9
<1>11. CASE ~(WriteFails(d) /\ (d.out # <<>> \/ d.file # <<>>)) /\ out = <<>> /\ d.sending
  <2> DEFINE f == [Push(h, h.file) EXCEPT !.file = Rest(h, h.file)]
             ftx == Push(h, h.file).tx
             file == Rest(h, h.file)
  <2>1. /\ Push(h, h.file) = [h EXCEPT !.tx = ftx]
        /\ ftx \in Seq(Unit) /\ file \in Seq(Unit) /\ ftx \o file = tx \o d.file /\ Len(ftx) <= Cap
        /\ file # <<>> => Len(ftx) = Cap
        /\ d.file = <<>> => ftx = tx /\ file = <<>>
    <3>1. h.tx = tx /\ h.file = d.file /\ h \in ConnectionState /\ Len(h.tx) <= Cap /\ h.file \in Seq(Unit)
      BY <1>1, <1>3, <1>5
    <3> DEFINE data == h.file
    <3>2. data \in Seq(Unit) /\ data = d.file
      BY <3>1
    <3> HIDE DEF data
    <3>3. /\ Push(h, data) = [h EXCEPT !.tx = Push(h, data).tx]
          /\ Push(h, data).tx \in Seq(Unit) /\ Rest(h, data) \in Seq(Unit)
          /\ Push(h, data).tx \o Rest(h, data) = h.tx \o data
          /\ Len(Push(h, data).tx) <= Cap
          /\ Rest(h, data) # <<>> => Len(Push(h, data).tx) = Cap
          /\ data = <<>> => Push(h, data).tx = h.tx /\ Rest(h, data) = <<>>
      BY <3>1, <3>2, PushIs
    <3> QED
      BY <3>1, <3>2, <3>3 DEF data
  <2>2. f = Partly(d, ftx, <<>>, file)
    <3>1. f = [[h EXCEPT !.tx = ftx] EXCEPT !.file = file]
      BY <2>1
    <3>2. h = Partly(d, tx, <<>>, d.file) /\ d \in ConnectionState
      BY <1>4, <1>11, <1>12
    <3> HIDE DEF f, ftx, file
    <3> QED
      BY ONLY <3>1, <3>2 DEF Partly, ConnectionState
  <2>3. f.file = file /\ f.shrunk = d.shrunk
    BY <1>1, <2>2 DEF Partly, ConnectionState
  <2>4. e = IF file # <<>> \/ d.shrunk THEN f ELSE WriteDone([f EXCEPT !.sending = FALSE])
    BY <1>5, <1>11, <2>3 DEF HandleWrite, WriteFile, h
  <2>5. d.open /\ (d.shrunk => d.file = <<>>)
    BY <1>1, <1>11 DEF Sound
  <2>6. tx \o d.file = d.tx \o (d.out \o d.file)
    BY <1>1, <1>3, <1>6, <1>7, <1>11
  <2>7. <<>> \in Seq(Unit)
    BY EmptySeq
  <2> HIDE DEF f, ftx, file
  <2>8. CASE file # <<>> \/ d.shrunk
    <3>1. e = Partly(d, ftx, <<>>, file)
      BY <2>2, <2>4, <2>8
    <3>2. d.shrunk => file = <<>>
      BY <2>1, <2>5
    <3>3. CASE ~d.reset
      <4>1. Len(ftx) = Cap \/ d.shrunk
        BY <2>1, <2>8
      <4> DEFINE o == <<>>
      <4>2. o = <<>> /\ o \in Seq(Unit) /\ e = Partly(d, ftx, o, file)
        BY <2>7, <3>1
      <4> HIDE DEF o
      <4>3. /\ Sound(e) /\ Keeps(d, e) /\ e.up /\ e.open /\ ~Needs(e)
            /\ e.tx = ftx /\ e.out = o /\ e.file = file /\ e.state = d.state /\ e.shrunk = d.shrunk
        <5>1. /\ d.open /\ ~d.reset /\ d.sending /\ (~d.sending \/ d.shrunk => file = <<>>)
              /\ ftx \in Seq(Unit) /\ Len(ftx) <= Cap /\ file \in Seq(Unit)
              /\ Len(ftx) = Cap \/ (o = <<>> /\ d.shrunk)
              /\ o \in Seq(Unit) /\ e = Partly(d, ftx, o, file)
              /\ (d.out # <<>> \/ d.sending) /\ (o # <<>> \/ d.sending)
          BY <1>11, <2>1, <2>5, <3>2, <3>3, <4>1, <4>2
        <5>2. Sound(e)
          BY <5>1, PartlyIs
        <5>3. Keeps(d, e)
          BY <5>1, PartlyIs
        <5>4. e.up /\ e.open
          BY <5>1, PartlyIs
        <5>5. ~Needs(e)
          BY <5>1, PartlyIs
        <5>6. e.tx = ftx /\ e.out = o
          BY <5>1, PartlyIs
        <5>7. e.file = file
          BY <5>1, PartlyIs
        <5>8. e.state = d.state
          BY <5>1, PartlyIs
        <5>9. e.shrunk = d.shrunk
          BY <5>1, PartlyIs
        <5> QED
          BY <5>2, <5>3, <5>4, <5>5, <5>6, <5>7, <5>8, <5>9
      <4>4. o \o file = file
        BY <1>6, <2>1, <4>2
      <4> QED
        BY <1>11, <2>1, <2>5, <2>6, <4>3, <4>4
    <3>4. CASE d.reset
      <4>1. d.out = <<>> /\ d.file = <<>>
        BY <1>11, <3>4 DEF WriteFails
      <4>2. ftx = d.tx /\ file = <<>>
        BY <1>3, <2>1, <4>1
      <4>3. e = d
        <5>1. e = [d EXCEPT !.tx = d.tx, !.out = d.out, !.file = d.file]
          BY <3>1, <4>1, <4>2 DEF Partly
        <5> QED
          BY <1>1, <5>1 DEF ConnectionState
      <4>4. ~Needs(d)
        BY <2>8, <4>1, <4>2 DEF Needs
      <4> QED
        BY <2>5, <4>3, <4>4 DEF Keeps
    <3> QED
      BY <3>3, <3>4
  <2>9. CASE ~(file # <<>> \/ d.shrunk)
    <3>1. [f EXCEPT !.sending = FALSE] = Finished(d, ftx)
      BY <1>1, <2>2, <2>9 DEF Partly, Finished, ConnectionState
    <3>2. e = WriteDone(Finished(d, ftx))
      BY <2>4, <2>9, <3>1
    <3>3. d.reset => ftx = <<>>
      BY <1>3, <1>8, <1>11, <2>1 DEF WriteFails
    <3>4. ftx = d.tx \o (d.out \o d.file)
      BY <1>6, <2>1, <2>6, <2>9
    <3>5. /\ Sound(e) /\ Keeps(d, e) /\ e.tx = ftx /\ e.out = <<>>
          /\ e.up <=> d.open
          /\ e.open <=> d.open /\ d.state = "ReadingRequest"
          /\ e.open => ~e.sending /\ e.file = <<>> /\ e.shrunk = d.shrunk
          /\ e.state # d.state => e.state = "Closing"
          /\ d.open /\ e.open => e.state = d.state
      BY <2>1, <2>9, <3>2, <3>3, WriteDoneIs
    <3>6. e.open => ~Needs(e)
      BY <3>5 DEF Needs
    <3>7. e.open => e.tx \o (e.out \o e.file) = ftx
      BY <1>6, <2>1, <2>7, <3>5
    <3> QED
      BY <2>5, <2>9, <3>4, <3>5, <3>6, <3>7
  <2> QED
    BY <2>8, <2>9
<1> QED
  BY <1>2, <1>9, <1>10, <1>11

-----------------------------------------------------------------------------
(* A response, and what processing a request does to the connection. *)
LEMMA ResponseIs ==
    ASSUME NEW i \in Nat, NEW k \in Kind
    PROVE  /\ Header(i, k) \in Seq(Unit) /\ Body(i) \in Seq(Unit) /\ Response(i, k) \in Seq(Unit)
           /\ Response(i, k) = IF IsFile(k) THEN Header(i, k) \o Body(i) ELSE Header(i, k)
<1>1. HeadUnits[k] \in Nat /\ BodyUnits \in Nat
  BY HttpConnectionAssumption
<1>2. \A n \in 1 .. HeadUnits[k] : <<i, "head", n>> \in Unit
  BY <1>1 DEF Unit
<1>3. \A n \in 1 .. BodyUnits : <<i, "body", n>> \in Unit
  BY <1>1 DEF Unit
<1>4. Header(i, k) \in [1 .. HeadUnits[k] -> Unit]
  BY <1>2 DEF Header
<1>5. Body(i) \in [1 .. BodyUnits -> Unit]
  BY <1>3 DEF Body
<1>6. Header(i, k) \in Seq(Unit) /\ Body(i) \in Seq(Unit)
  BY <1>1, <1>4, <1>5, SeqDef
<1> QED
  BY <1>6, ConcatProperties DEF Response

(* All of the response r goes behind what was there. *)
Adds(d, e, r) == e.tx \o (e.out \o e.file) = d.tx \o (d.out \o r)

LEMMA ProcessIs ==
    ASSUME NEW d, Sound(d), d.up, d.open, NEW i \in Nat, NEW k \in Kind,
           NEW e, e = ProcessRequest(d, k, i)
    PROVE  /\ Sound(e) /\ Keeps(d, e)
           /\ ~d.reset /\ ~d.sending /\ d.state # "Closing" =>
                /\ e.up
                /\ Adds(d, e, Response(i, k))
                /\ ~e.open => e.out = <<>> /\ WantsClose(k)
                /\ e.open => ~e.shrunk
           /\ e.up => /\ e.state = "SendingResponse" => IsFile(k)
                      /\ e.state = "Closing" => WantsClose(k)
           /\ e.up /\ e.sending => d.sending \/ e.state = "SendingResponse"
           /\ d.out # <<>> => e.out # <<>>
           /\ ~e.up => d.reset
           /\ k = "junk" /\ e.up => e.state = "Closing"
<1> DEFINE head == Header(i, k)
           a == Send(d, head)
<1>1. head \in Seq(Unit) /\ Body(i) \in Seq(Unit)
  BY ResponseIs
<1>3. e = IF IsFile(k)
          THEN IF SendFile(a, Body(i)).up
               THEN [SendFile(a, Body(i)) EXCEPT !.state = "SendingResponse"]
               ELSE SendFile(a, Body(i))
          ELSE IF WantsClose(k) THEN Close(a) ELSE ResetForNextRequest(a)
  BY DEF ProcessRequest
<1>4. Sound(d) /\ d.up /\ d.open /\ head \in Seq(Unit) /\ a = Send(d, head)
  BY <1>1
<1> HIDE DEF head, a
<1>2. /\ Sound(a) /\ Keeps(d, a)
      /\ a.up /\ a.open /\ d.state # "Closing" => a.tx \o a.out = d.tx \o (d.out \o head)
      /\ a.up /\ a.open => /\ a.state = d.state /\ a.sending = d.sending /\ a.file = d.file
                           /\ a.shrunk = d.shrunk
      /\ ~(a.up /\ a.open) => d.reset
      /\ d.out # <<>> => a.out # <<>>
  <2>1. Sound(a) /\ Keeps(d, a) /\ (d.out # <<>> => a.out # <<>>)
    BY ONLY <1>4, SendIs
  <2>2. a.up /\ a.open /\ d.state # "Closing" => Follows(d, a, head)
    BY ONLY <1>4, SendIs
  <2>3. a.up /\ a.open => LikeBefore(d, a)
    BY ONLY <1>4, SendIs
  <2>4. ~(a.up /\ a.open) => d.reset
    BY ONLY <1>4, SendIs
  <2> QED
    BY <2>1, <2>2, <2>3, <2>4 DEF Follows, LikeBefore
<1>12. \A x \in Seq(Unit) : x \o <<>> = x
  BY ConcatEmptySeq
<1>5. d.tx \in Seq(Unit) /\ d.out \in Seq(Unit) /\ a.tx \in Seq(Unit) /\ a.out \in Seq(Unit)
      /\ <<>> \in Seq(Unit)
  BY <1>2, EmptySeq DEF Sound, ConnectionState
<1>6. a.up /\ ~a.sending => a.file = <<>>
  BY <1>2 DEF Sound
<1>7. a.up /\ a.open /\ a.shrunk => a.sending
  BY <1>2 DEF Sound
<1>8. CASE IsFile(k)
  <2> DEFINE f == SendFile(a, Body(i))
  <2>1. /\ Sound(f) /\ Keeps(a, f)
        /\ f.tx = a.tx /\ f.out = a.out /\ f.open = a.open
        /\ f.up \/ ~a.up \/ ~a.open
        /\ a.up /\ ~a.sending /\ a.open => f.sending /\ f.file = Body(i) /\ ~f.shrunk
        /\ f.up => f.sending
    BY <1>1, <1>2, SendFileIs
  <2>2. Keeps(d, f)
    BY <1>2, <2>1, KeepsOn
  <2>3. k # "junk"
    BY <1>8 DEF IsFile
  <2> HIDE DEF f
  <2>4. CASE ~f.up
    <3>1. e = f
      BY <1>3, <1>8, <2>4 DEF f
    <3>2. d.reset
      BY <1>2, <2>1, <2>4
    <3> QED
      BY <1>2, <2>1, <2>2, <2>3, <2>4, <3>1, <3>2
  <2>5. CASE f.up
    <3>1. e = [f EXCEPT !.state = "SendingResponse"]
      BY <1>3, <1>8, <2>5 DEF f
    <3>2. e \in ConnectionState
      <4>1. f \in ConnectionState
        BY <2>1 DEF Sound
      <4> QED
        BY ONLY <3>1, <4>1 DEF ConnectionState
    <3>3. /\ e.up /\ e.state = "SendingResponse" /\ e.open = f.open /\ e.out = f.out /\ e.tx = f.tx
          /\ e.file = f.file /\ e.sending = f.sending /\ e.shrunk = f.shrunk /\ e.ctx = f.ctx
          /\ e.interest = f.interest /\ e.queued = f.queued
          /\ e.rx = f.rx /\ e.eof = f.eof /\ e.reset = f.reset
      BY <2>1, <2>5, <3>1 DEF Sound, ConnectionState
    <3>4. Sound(e)
      BY <2>1, <2>5, <3>2, <3>3 DEF Sound
    <3>5. Keeps(d, e)
      BY <2>2, <2>5, <3>3 DEF Keeps, Needs
    <3>6. ASSUME ~d.reset, ~d.sending, d.state # "Closing"
          PROVE  e.open /\ ~e.shrunk /\ Adds(d, e, Response(i, k))
      <4>1. a.up /\ a.open /\ ~a.sending
        BY <1>2, <3>6
      <4>2. e.open /\ ~e.shrunk /\ e.file = Body(i) /\ e.tx = a.tx /\ e.out = a.out
        BY <2>1, <3>3, <4>1
      <4>3. a.tx \o a.out = d.tx \o (d.out \o head)
        BY <1>2, <3>6, <4>1
      <4>4. Joined(a.tx, a.out, Body(i))
        BY <1>1, <1>5, Joins
      <4>5. Joined4(d.tx, d.out, head, Body(i))
        BY <1>1, <1>5, Joins4
      <4>6. Response(i, k) = head \o Body(i)
        BY <1>8, ResponseIs DEF head
      <4> QED
        BY <4>2, <4>3, <4>4, <4>5, <4>6 DEF Adds, Joined, Joined4
    <3> QED
      BY <1>2, <1>8, <2>1, <2>3, <3>3, <3>4, <3>5, <3>6
  <2> QED
    BY <2>4, <2>5
<1>9. Response(i, k) = head \/ IsFile(k)
  BY ResponseIs DEF head
<1>10. CASE ~IsFile(k) /\ WantsClose(k)
  <2>1. /\ Sound(Close(a)) /\ Keeps(a, Close(a))
        /\ Close(a).tx = a.tx /\ Close(a).out = a.out /\ Close(a).up = a.up
        /\ a.up => Close(a).state = "Closing"
        /\ a.up /\ a.open /\ a.out = <<>> => ~Close(a).open
        /\ a.up /\ (~a.open \/ a.out # <<>>) => Close(a) = [a EXCEPT !.state = "Closing"]
    BY <1>2, CloseIs
  <2>2. e = Close(a)
    BY <1>3, <1>10
  <2>3. Keeps(d, e)
    BY <1>2, <2>1, <2>2, KeepsOn
  <2>4. a.up /\ (~a.open \/ a.out # <<>>) =>
          e.open = a.open /\ e.sending = a.sending /\ e.shrunk = a.shrunk
    BY <1>2, <2>1, <2>2 DEF Sound, ConnectionState
  <2>5. e.up /\ e.sending => d.sending
    <3>1. e.up /\ e.sending => e.open
      BY <2>1, <2>2 DEF Sound
    <3>2. e.up => a.up
      BY <2>1, <2>2
    <3>3. a.up /\ e.open => a.out # <<>> /\ a.open
      BY <2>1, <2>2, <2>3, <2>4 DEF Keeps
    <3> QED
      BY <1>2, <2>4, <3>1, <3>2, <3>3
  <2>6. ASSUME ~d.reset, ~d.sending, d.state # "Closing"
        PROVE  /\ e.up /\ Adds(d, e, Response(i, k))
               /\ ~e.open => e.out = <<>>
               /\ e.open => ~e.shrunk
    <3>1. a.up /\ a.open /\ ~a.sending /\ a.tx \o a.out = d.tx \o (d.out \o head)
      BY <1>2, <2>6
    <3>2. e.up /\ ~e.sending
      BY <2>1, <2>2, <2>5, <2>6, <3>1
    <3>3. e.file = <<>> /\ (e.open => ~e.shrunk)
      BY <2>1, <2>2, <3>2 DEF Sound
    <3>5. e.tx = a.tx /\ e.out = a.out
      BY <2>1, <2>2
    <3>4. e.out \o e.file = a.out
      BY <1>12, <1>5, <3>3, <3>5
    <3>6. Adds(d, e, Response(i, k))
      BY <1>9, <1>10, <3>1, <3>4, <3>5 DEF Adds
    <3>7. ~e.open => e.out = <<>>
      BY <2>4, <3>1, <3>5
    <3> QED
      BY <3>2, <3>3, <3>6, <3>7
  <2> QED
    BY <1>2, <1>10, <2>1, <2>2, <2>3, <2>5, <2>6
<1>11. CASE ~IsFile(k) /\ ~WantsClose(k)
  <2>1. e = IF a.up THEN [a EXCEPT !.state = "ReadingRequest"] ELSE a
    BY <1>3, <1>11 DEF ResetForNextRequest
  <2>2. e \in ConnectionState
    <3>1. a \in ConnectionState
      BY <1>2 DEF Sound
    <3> QED
      BY ONLY <2>1, <3>1 DEF ConnectionState
  <2>3. /\ e.up = a.up /\ e.open = a.open /\ e.out = a.out /\ e.tx = a.tx
        /\ e.file = a.file /\ e.sending = a.sending /\ e.shrunk = a.shrunk /\ e.ctx = a.ctx
        /\ e.interest = a.interest /\ e.queued = a.queued
        /\ e.rx = a.rx /\ e.eof = a.eof /\ e.reset = a.reset
        /\ a.up => e.state = "ReadingRequest"
    BY <1>2, <2>1 DEF Sound, ConnectionState
  <2>4. Sound(e)
    BY <1>2, <2>2, <2>3 DEF Sound
  <2>5. Keeps(d, e)
    BY <1>2, <2>3 DEF Keeps, Needs
  <2>6. k # "junk"
    BY <1>11 DEF WantsClose
  <2>7. e.up /\ e.sending => d.sending
    <3>1. a.up /\ a.sending => a.open
      BY <1>2 DEF Sound
    <3> QED
      BY <1>2, <2>3, <3>1
  <2>8. ASSUME ~d.reset, ~d.sending, d.state # "Closing"
        PROVE  /\ e.up /\ e.open /\ e.state = "ReadingRequest" /\ ~e.shrunk
               /\ Adds(d, e, Response(i, k))
    <3>1. a.up /\ a.open /\ ~a.sending /\ a.tx \o a.out = d.tx \o (d.out \o head)
      BY <1>2, <2>8
    <3>3. e.file = <<>> /\ e.out = a.out
      BY <1>6, <2>3, <3>1
    <3>2. e.out \o e.file = a.out
      BY <1>12, <1>5, <3>3
    <3> QED
      BY <1>7, <1>9, <1>11, <2>3, <3>1, <3>2 DEF Adds
  <2> QED
    BY <1>2, <1>11, <2>3, <2>4, <2>5, <2>6, <2>7, <2>8
<1> QED
  BY <1>8, <1>10, <1>11

-----------------------------------------------------------------------------
(* Never more answers than requests, counting those that are in the receive *)
(* queue or not sent completely.                                           *)
Counted ==
    /\ half => asked # <<>>
    /\ Len(served) + Cardinality(Ends(c.rx)) + (IF half THEN 1 ELSE 0) <= Len(asked)

Parsing ==
    /\ ~parser.complete
    /\ parser.at = "failed" => c.state = "Closing" \/ ~c.up

ErrorsAreReal == (pc # "wait" /\ "ERR" \in evs => c.reset) /\ (pc = "error" => "ERR" \in evs)

(* The loop is going to call handleWrite for this connection. *)
WriteDue == pc = "write" \/ (pc \in {"batch", "read"} /\ "OUT" \in evs)

Coming ==
    c.up /\ c.open =>
        /\ c.rx # <<>> \/ c.eof \/ c.reset => c.queued \/ pc = "read" \/ (pc = "batch" /\ "IN" \in evs)
        /\ Needs(c) => c.queued \/ WriteDue

(* What the state of the connection says of the last response, and why     *)
(* handleWrite finds something to write.                                   *)
Orderly == lapse \subseteq {"skipped", "cut"}
Phase ==
    /\ c.up /\ c.sending => c.state = "SendingResponse" \/ "mixed" \in lapse
    /\ c.up /\ c.out = <<>> /\ WriteDue => c.sending \/ "mixed" \in lapse
    /\ Orderly /\ c.up /\ c.open /\ c.state # "ReadingRequest" =>
          /\ served # <<>>
          /\ c.state = "Closing" => WantsClose(Last(served))
          /\ c.state = "SendingResponse" => IsFile(Last(served))

(* What the client has, what is on its way, what is buffered and the rest  *)
(* of the file, which is lost if the file shrinks, make up the promise.    *)
Stream ==
    Orderly =>
        /\ \E rest \in Seq(Unit) : received \o (c.tx \o rest) = promised
        /\ c.up /\ c.open /\ ~c.reset =>
              \E rest \in Seq(Unit) :
                  received \o (c.tx \o (c.out \o rest)) = promised /\ (~c.shrunk => rest = c.file)

HttpInv ==
    /\ TypeOK /\ Sound(c) /\ Counted /\ Parsing /\ ErrorsAreReal
    /\ Coming /\ Phase /\ Stream

-----------------------------------------------------------------------------
(* Nothing of the stream has moved. *)
LEMMA StreamKept ==
    ASSUME Stream, received' = received, promised' = promised, lapse' = lapse, c'.tx = c.tx,
           c'.up /\ c'.open => c.up /\ c.open, c'.reset = c.reset,
           c'.out = c.out, c'.file = c.file, c'.shrunk = c.shrunk
    PROVE  Stream'
<1> SUFFICES ASSUME Orderly'
             PROVE  /\ \E rest \in Seq(Unit) : received' \o (c'.tx \o rest) = promised'
                    /\ c'.up /\ c'.open /\ ~c'.reset =>
                          \E rest \in Seq(Unit) : received' \o (c'.tx \o (c'.out \o rest)) = promised'
                                                 /\ (~c'.shrunk => rest = c'.file)
  BY DEF Stream
<1>1. Orderly
  BY DEF Orderly
<1>2. \E rest \in Seq(Unit) : received' \o (c'.tx \o rest) = promised'
  BY <1>1 DEF Stream
<1>3. ASSUME c'.up, c'.open, ~c'.reset
      PROVE  \E rest \in Seq(Unit) : received' \o (c'.tx \o (c'.out \o rest)) = promised'
                                      /\ (~c'.shrunk => rest = c'.file)
  BY <1>1, <1>3 DEF Stream
<1> QED
  BY <1>2, <1>3

LEMMA PartIsNoKind == "part" \notin Kinds /\ Kinds \subseteq Kind
  BY HttpConnectionAssumption DEF Kind

LEMMA EndsAreFinite ==
    ASSUME NEW q \in Seq(Kinds \cup {"part"})
    PROVE  IsFiniteSet(Ends(q)) /\ Cardinality(Ends(q)) \in Nat
           /\ (Ends(q) # {} => Cardinality(Ends(q)) >= 1)
           /\ (q = <<>> => Cardinality(Ends(q)) = 0)
<1>1. Len(q) \in Nat /\ DOMAIN q = 1 .. Len(q)
  BY LenProperties
<1>2. IsFiniteSet(1 .. Len(q))
  BY <1>1, FS_Interval
<1>3. Ends(q) \subseteq 1 .. Len(q)
  BY <1>1 DEF Ends
<1>4. IsFiniteSet(Ends(q))
  BY <1>2, <1>3, FS_Subset
<1>5. Cardinality(Ends(q)) \in Nat /\ (Cardinality(Ends(q)) = 0 <=> Ends(q) = {})
  BY <1>4, FS_CardinalityType, FS_EmptySet
<1>6. q = <<>> => Ends(q) = {}
  BY DEF Ends
<1> QED
  BY <1>4, <1>5, <1>6

LEMMA EndsOfAppend ==
    ASSUME NEW q \in Seq(Kinds \cup {"part"}), NEW x \in Kinds \cup {"part"}
    PROVE  /\ Append(q, x) \in Seq(Kinds \cup {"part"})
           /\ x = "part" => Ends(Append(q, x)) = Ends(q)
           /\ x # "part" => Cardinality(Ends(Append(q, x))) = Cardinality(Ends(q)) + 1
<1> DEFINE n == Len(q) + 1
<1>1. Len(q) \in Nat /\ DOMAIN q = 1 .. Len(q)
  BY LenProperties
<1>2. /\ Append(q, x) \in Seq(Kinds \cup {"part"}) /\ DOMAIN Append(q, x) = 1 .. n
      /\ Append(q, x)[n] = x /\ \A j \in 1 .. Len(q) : Append(q, x)[j] = q[j]
  BY <1>1, AppendProperties, LenProperties
<1>3. x = "part" => Ends(Append(q, x)) = Ends(q)
  BY <1>1, <1>2 DEF Ends
<1>4. x # "part" => Ends(Append(q, x)) = Ends(q) \cup {n}
  BY <1>1, <1>2 DEF Ends
<1>5. n \notin Ends(q)
  BY <1>1 DEF Ends
<1>6. IsFiniteSet(Ends(q))
  BY EndsAreFinite
<1> QED
  BY <1>2, <1>3, <1>4, <1>5, <1>6, FS_AddElement

LEMMA InitInv == Init => HttpInv
<1> SUFFICES ASSUME Init PROVE HttpInv
  OBVIOUS
<1>1. <<>> \in Seq(Unit) /\ <<>> \in Seq(Kinds) /\ <<>> \in Seq(Kind) /\ <<>> \in Seq(Kinds \cup {"part"})
  BY EmptySeq
<1>2. TypeOK
  BY <1>1 DEF Init, TypeOK, ConnectionState, FreshParser, Lapse
<1>3. Sound(c)
  BY <1>1, <1>2, CapAssumption DEF Init, TypeOK, Sound
<1>4. Counted
  <2>1. Len(served) = 0 /\ Len(asked) = 0 /\ c.rx = <<>> /\ ~half
    BY DEF Init
  <2>2. Cardinality(Ends(c.rx)) = 0
    BY <2>1, <1>1, EndsAreFinite
  <2> QED
    BY <2>1, <2>2 DEF Counted
<1>5. Parsing /\ ErrorsAreReal /\ Coming /\ Phase
  BY DEF Init, Parsing, ErrorsAreReal, Coming, Phase, FreshParser, Needs, WriteDue
<1>6. Stream
  <2>1. received = <<>> /\ c.tx = <<>> /\ c.out = <<>> /\ c.file = <<>> /\ promised = <<>>
    BY DEF Init
  <2>2. received \o (c.tx \o (c.out \o <<>>)) = promised /\ received \o (c.tx \o <<>>) = promised
    BY <2>1, NoUnits
  <2> QED
    BY <1>1, <2>1, <2>2 DEF Stream
<1> QED
  BY <1>2, <1>3, <1>4, <1>5, <1>6 DEF HttpInv

-----------------------------------------------------------------------------
(* The environment. *)
LEMMA WakeIs ==
    ASSUME NEW d, Sound(d), NEW x
    PROVE  /\ Sound(Wake(d, x))
           /\ Wake(d, x) = [d EXCEPT !.queued = Wake(d, x).queued]
           /\ Wake(d, x).queued <=> d.queued \/ (d.open /\ x \in d.interest \cup {"ERR"})
<1>5. d \in ConnectionState
  BY DEF Sound
<1>1. Wake(d, x) \in ConnectionState
  BY ONLY <1>5 DEF Wake, ConnectionState
<1>2. Wake(d, x).queued = (d.queued \/ (d.open /\ x \in d.interest \cup {"ERR"}))
  BY ONLY <1>5 DEF Wake, ConnectionState
<1>3. Wake(d, x) = [d EXCEPT !.queued = Wake(d, x).queued]
  BY <1>2 DEF Wake
<1>4. Sound(Wake(d, x))
  <2> DEFINE e == Wake(d, x)
  <2>1. e \in ConnectionState /\ e = [d EXCEPT !.queued = e.queued]
    BY <1>1, <1>3
  <2> HIDE DEF e
  <2>2. /\ e.up = d.up /\ e.open = d.open /\ e.sending = d.sending /\ e.ctx = d.ctx
        /\ e.interest = d.interest /\ e.out = d.out /\ e.shrunk = d.shrunk /\ e.file = d.file
        /\ e.reset = d.reset /\ e.tx = d.tx
    BY ONLY <1>5, <2>1 DEF ConnectionState
  <2>3. Sound(e)
    BY <2>1, <2>2 DEF Sound
  <2> QED
    BY <2>3 DEF e
<1> QED
  BY <1>2, <1>3, <1>4

(* Input arrives: unread bytes or the end of the stream. *)
LEMMA InputKeeps ==
    ASSUME HttpInv, NEW rx \in Seq(Kinds \cup {"part"}), NEW eof \in BOOLEAN,
           c' = Wake([c EXCEPT !.rx = rx, !.eof = eof], "IN"),
           UNCHANGED <<pc, evs, received, parser, history, idled>>
    PROVE  /\ Sound(c)' /\ Parsing' /\ ErrorsAreReal' /\ Coming' /\ Phase' /\ Stream'
           /\ c'.rx = rx
<1> DEFINE d == [c EXCEPT !.rx = rx, !.eof = eof]
<1>1. d \in ConnectionState
  BY DEF HttpInv, Sound, ConnectionState
<1>2. /\ d.up = c.up /\ d.open = c.open /\ d.state = c.state /\ d.out = c.out /\ d.sending = c.sending
      /\ d.file = c.file /\ d.shrunk = c.shrunk /\ d.ctx = c.ctx /\ d.interest = c.interest
      /\ d.queued = c.queued /\ d.tx = c.tx /\ d.reset = c.reset /\ d.rx = rx /\ d.eof = eof
  BY DEF HttpInv, Sound, ConnectionState
<1>3. Sound(d)
  BY <1>1, <1>2 DEF HttpInv, Sound
<1>4. c' = Wake(d, "IN")
  OBVIOUS
<1> HIDE DEF d
<1>5. /\ Sound(c') /\ c' = [d EXCEPT !.queued = c'.queued]
      /\ c'.queued <=> d.queued \/ (d.open /\ "IN" \in d.interest \cup {"ERR"})
  BY <1>3, <1>4, WakeIs
<1>6. /\ c'.up = c.up /\ c'.open = c.open /\ c'.state = c.state /\ c'.out = c.out
      /\ c'.sending = c.sending /\ c'.file = c.file /\ c'.shrunk = c.shrunk
      /\ c'.tx = c.tx /\ c'.reset = c.reset /\ c'.rx = rx
  BY <1>1, <1>2, <1>5 DEF ConnectionState
<1>7. c.up /\ c.open => c'.queued
  BY <1>2, <1>5 DEF HttpInv, Sound
<1>8. Parsing' /\ ErrorsAreReal'
  BY <1>6 DEF HttpInv, Parsing, ErrorsAreReal
<1>9. Coming'
  BY <1>6, <1>7 DEF Coming
<1>10. Phase'
  BY <1>6 DEF HttpInv, Phase, WriteDue, Orderly, history
<1>11. Stream'
  BY <1>6, StreamKept DEF HttpInv, history
<1> QED
  BY <1>5, <1>6, <1>8, <1>9, <1>10, <1>11

LEMMA RequestStep ==
    ASSUME HttpInv, NEW k \in Kinds, NEW whole \in BOOLEAN, Request(k, whole)
    PROVE  HttpInv'
<1> DEFINE rx == IF whole THEN Append(Append(c.rx, "part"), k) ELSE Append(c.rx, "part")
<1>1. /\ c.rx \in Seq(Kinds \cup {"part"}) /\ c.eof \in BOOLEAN /\ c \in ConnectionState
      /\ asked \in Seq(Kinds) /\ half \in BOOLEAN /\ served \in Seq(Kind)
  BY DEF HttpInv, TypeOK, ConnectionState
<1>2. c.rx \o (IF whole THEN <<"part", k>> ELSE <<"part">>) = rx
  <2> DEFINE S == Kinds \cup {"part"}
  <2>1. <<"part">> \in Seq(S) /\ <<k>> \in Seq(S) /\ <<"part", k>> = <<"part">> \o <<k>>
    OBVIOUS
  <2>2. (c.rx \o <<"part">>) \o <<k>> = c.rx \o (<<"part">> \o <<k>>)
    BY ONLY <1>1, <2>1, ConcatAssociative
  <2>3. Append(c.rx, "part") = c.rx \o <<"part">> /\ Append(c.rx, "part") \in Seq(S)
    <3>1. c.rx \in Seq(S) /\ "part" \in S
      BY <1>1
    <3> HIDE DEF S
    <3> QED
      BY <3>1, AppendIsConcat, AppendProperties
  <2>4. Append(Append(c.rx, "part"), k) = Append(c.rx, "part") \o <<k>>
    BY <2>3, AppendIsConcat
  <2> QED
    BY <2>1, <2>2, <2>3, <2>4
<1>3. c' = Wake([c EXCEPT !.rx = rx], "IN")
  BY <1>2 DEF Request
<1>4. [c EXCEPT !.rx = rx] = [c EXCEPT !.rx = rx, !.eof = c.eof]
  BY <1>1 DEF ConnectionState
<1>5. /\ rx \in Seq(Kinds \cup {"part"})
      /\ Cardinality(Ends(rx)) = Cardinality(Ends(c.rx)) + (IF whole THEN 1 ELSE 0)
  <2> DEFINE q == Append(c.rx, "part")
  <2>1. q \in Seq(Kinds \cup {"part"}) /\ Ends(q) = Ends(c.rx)
    BY <1>1, EndsOfAppend
  <2> HIDE DEF q
  <2>2. Append(q, k) \in Seq(Kinds \cup {"part"}) /\ Cardinality(Ends(Append(q, k))) = Cardinality(Ends(q)) + 1
    BY <2>1, EndsOfAppend, PartIsNoKind
  <2>3. Cardinality(Ends(c.rx)) \in Nat
    BY <1>1, EndsAreFinite
  <2> QED
    BY <2>1, <2>2, <2>3 DEF q
<1> HIDE DEF rx
<1>6. /\ Sound(c)' /\ Parsing' /\ ErrorsAreReal' /\ Coming' /\ Phase' /\ Stream' /\ c'.rx = rx
  BY <1>1, <1>3, <1>4, <1>5, InputKeeps DEF Request
<1>7. TypeOK'
  <2>1. Append(asked, k) \in Seq(Kinds)
    BY <1>1, AppendProperties
  <2> QED
    BY <1>6, <2>1 DEF HttpInv, TypeOK, Request, Sound, history
<1>8. Counted'
  <2>1. Len(asked') = Len(asked) + 1 /\ Len(asked) \in Nat /\ Len(served) \in Nat /\ asked' # <<>>
    BY <1>1, AppendProperties, LenProperties DEF Request
  <2>2. Cardinality(Ends(c.rx)) \in Nat
    BY <1>1, EndsAreFinite
  <2>3. Len(served) + Cardinality(Ends(c.rx)) <= Len(asked)
    BY <1>1, <2>1, <2>2 DEF HttpInv, Counted
  <2>4. Cardinality(Ends(c.rx)') = Cardinality(Ends(c.rx)) + (IF whole THEN 1 ELSE 0)
        /\ (half' <=> ~whole) /\ served' = served
    BY <1>5, <1>6 DEF Request, Ends, history
  <2>5. (IF whole THEN 1 ELSE 0) + (IF half' THEN 1 ELSE 0) = 1
    BY <2>4
  <2>6. Len(served') + Cardinality(Ends(c.rx)') + (IF half' THEN 1 ELSE 0) <= Len(asked')
    BY <2>1, <2>2, <2>3, <2>4, <2>5
  <2> QED
    BY <2>1, <2>6 DEF Counted
<1> QED
  BY <1>6, <1>7, <1>8 DEF HttpInv

LEMMA RestStep == ASSUME HttpInv, RestOfRequest PROVE HttpInv'
<1> DEFINE k == Last(asked)
           rx == Append(c.rx, k)
<1>1. /\ c.rx \in Seq(Kinds \cup {"part"}) /\ c.eof \in BOOLEAN /\ c \in ConnectionState
      /\ asked \in Seq(Kinds) /\ half /\ served \in Seq(Kind) /\ asked # <<>>
  BY DEF HttpInv, TypeOK, ConnectionState, RestOfRequest, Counted
<1>2. k \in Kinds
  BY <1>1, EmptySeq, LenProperties, ElementOfSeq DEF Last
<1>3. c' = Wake([c EXCEPT !.rx = rx, !.eof = c.eof], "IN")
  <2>1. [c EXCEPT !.rx = rx] = [c EXCEPT !.rx = rx, !.eof = c.eof]
    BY <1>1 DEF ConnectionState
  <2> QED
    BY <2>1 DEF RestOfRequest
<1> HIDE DEF k
<1>4. rx \in Seq(Kinds \cup {"part"}) /\ Cardinality(Ends(rx)) = Cardinality(Ends(c.rx)) + 1
  BY <1>1, <1>2, EndsOfAppend, PartIsNoKind
<1> HIDE DEF rx
<1>6. /\ Sound(c)' /\ Parsing' /\ ErrorsAreReal' /\ Coming' /\ Phase' /\ Stream' /\ c'.rx = rx
  BY <1>1, <1>3, <1>4, InputKeeps DEF RestOfRequest
<1>7. TypeOK'
  BY <1>6 DEF HttpInv, TypeOK, RestOfRequest, Sound, history
<1>8. Counted'
  <2>1. Len(asked) \in Nat /\ Len(served) \in Nat
    BY <1>1, LenProperties
  <2>2. Cardinality(Ends(c.rx)) \in Nat
    BY <1>1, EndsAreFinite
  <2>3. Len(served) + Cardinality(Ends(c.rx)) + 1 <= Len(asked)
    BY <1>1, <2>1, <2>2 DEF HttpInv, Counted
  <2>4. Cardinality(Ends(c.rx)') = Cardinality(Ends(c.rx)) + 1
        /\ ~half' /\ served' = served /\ asked' = asked
    BY <1>4, <1>6 DEF RestOfRequest, Ends, history
  <2> QED
    BY <2>1, <2>2, <2>3, <2>4 DEF Counted
<1> QED
  BY <1>6, <1>7, <1>8 DEF HttpInv

LEMMA FinStep == ASSUME HttpInv, Fin PROVE HttpInv'
<1>1. c.rx \in Seq(Kinds \cup {"part"}) /\ c \in ConnectionState
  BY DEF HttpInv, TypeOK, ConnectionState
<1>2. [c EXCEPT !.eof = TRUE] = [c EXCEPT !.rx = c.rx, !.eof = TRUE]
  BY <1>1 DEF ConnectionState
<1>3. c' = Wake([c EXCEPT !.rx = c.rx, !.eof = TRUE], "IN")
  BY <1>2 DEF Fin
<1>4. UNCHANGED <<pc, evs, client, parser, history, idled>>
  BY DEF Fin
<1> DEFINE rx == c.rx
<1>5. rx \in Seq(Kinds \cup {"part"}) /\ c' = Wake([c EXCEPT !.rx = rx, !.eof = TRUE], "IN")
  BY <1>1, <1>3
<1> HIDE DEF rx
<1>6. /\ Sound(c)' /\ Parsing' /\ ErrorsAreReal' /\ Coming' /\ Phase' /\ Stream' /\ c'.rx = rx
  BY <1>4, <1>5, InputKeeps DEF client
<1>7. TypeOK'
  BY <1>4, <1>6 DEF HttpInv, TypeOK, Sound, history, client
<1>8. Counted'
  BY <1>4, <1>6 DEF HttpInv, Counted, Ends, history, client, rx
<1> QED
  BY <1>6, <1>7, <1>8 DEF HttpInv

(* The client reads a unit. *)
LEMMA DeliverStep == ASSUME HttpInv, Deliver PROVE HttpInv'
<1> DEFINE u == Head(c.tx)
           tx == Tail(c.tx)
           d == [c EXCEPT !.tx = tx]
<1>1. /\ c \in ConnectionState /\ c.tx \in Seq(Unit) /\ c.tx # <<>> /\ ~c.reset
      /\ received \in Seq(Unit) /\ Len(c.tx) <= Cap /\ Cap \in Nat /\ Len(c.tx) \in Nat
  BY CapAssumption, LenProperties DEF HttpInv, TypeOK, Sound, ConnectionState, Deliver
<1>2. u \in Unit /\ tx \in Seq(Unit) /\ Len(tx) = Len(c.tx) - 1 /\ Len(tx) \in Nat
  BY <1>1, HeadTailProperties, LenProperties
<1>3. received' = Append(received, u) /\ received' \in Seq(Unit)
  BY <1>1, <1>2, AppendProperties DEF Deliver
<1>4. ASSUME NEW x \in Seq(Unit)
      PROVE  received' \o (tx \o x) = received \o (c.tx \o x)
  <2>1. received' = received \o <<u>> /\ <<u>> \in Seq(Unit)
    BY <1>1, <1>2, <1>3, AppendIsConcat
  <2>2. c.tx = <<u>> \o tx
    <3>1. c.tx = SubSeq(c.tx, 1, Len(c.tx)) /\ tx = SubSeq(c.tx, 2, Len(c.tx))
      BY <1>1, SubSeqFull, TailIsSubSeq
    <3>2. 1 \in 1 .. Len(c.tx) /\ Len(c.tx) \in 1 .. Len(c.tx)
      BY <1>1, Empty
    <3>3. SubSeq(c.tx, 1, Len(c.tx)) = <<c.tx[1]>> \o SubSeq(c.tx, 2, Len(c.tx))
      BY <1>1, <3>2, SubSeqRecursiveFirst
    <3>4. u = c.tx[1]
      BY <1>1
    <3> QED
      BY <3>1, <3>3, <3>4
  <2>3. Joined(received, <<u>>, tx \o x)
    <3>1. tx \o x \in Seq(Unit)
      BY <1>2, Units
    <3> QED
      BY <1>1, <2>1, <3>1, Joins
  <2>4. Joined(<<u>>, tx, x)
    BY <1>2, <2>1, Joins
  <2> QED
    BY <2>1, <2>2, <2>3, <2>4 DEF Joined
<1>5. c' = IF Len(c.tx) = Cap THEN Wake(d, "OUT") ELSE d
  BY DEF Deliver
<1> HIDE DEF u, tx
<1>6. d \in ConnectionState
  BY <1>1, <1>2 DEF ConnectionState
<1>7. /\ d.up = c.up /\ d.open = c.open /\ d.state = c.state /\ d.out = c.out /\ d.sending = c.sending
      /\ d.file = c.file /\ d.shrunk = c.shrunk /\ d.ctx = c.ctx /\ d.interest = c.interest
      /\ d.queued = c.queued /\ d.tx = tx /\ d.reset = c.reset /\ d.rx = c.rx /\ d.eof = c.eof
  BY <1>1 DEF ConnectionState
<1>8. Sound(d)
  BY <1>1, <1>2, <1>6, <1>7 DEF HttpInv, Sound
<1> HIDE DEF d
<1>9. /\ Sound(Wake(d, "OUT")) /\ Wake(d, "OUT") = [d EXCEPT !.queued = Wake(d, "OUT").queued]
      /\ Wake(d, "OUT").queued <=> d.queued \/ (d.open /\ "OUT" \in d.interest \cup {"ERR"})
  BY <1>8, WakeIs
<1>10. /\ Sound(c')
       /\ c'.up = c.up /\ c'.open = c.open /\ c'.state = c.state /\ c'.out = c.out
       /\ c'.sending = c.sending /\ c'.file = c.file /\ c'.shrunk = c.shrunk
       /\ c'.tx = tx /\ c'.reset = c.reset /\ c'.rx = c.rx /\ c'.eof = c.eof
       /\ c.queued => c'.queued
       /\ Len(c.tx) = Cap /\ c.open /\ "OUT" \in c.interest => c'.queued
  BY <1>5, <1>6, <1>7, <1>8, <1>9 DEF ConnectionState
<1>11. UNCHANGED <<pc, evs, asked, half, parser, history, idled>>
  BY DEF Deliver
<1>12. TypeOK'
  BY <1>3, <1>10, <1>11 DEF HttpInv, TypeOK, Sound, history
<1>13. Counted' /\ Parsing' /\ ErrorsAreReal'
  BY <1>10, <1>11 DEF HttpInv, Counted, Ends, Parsing, ErrorsAreReal, history
<1>14. Coming'
  <2>1. ASSUME c.up, c.open, Needs(c'), ~c'.queued PROVE WriteDue'
    <3>1. Len(c.tx) < Cap
      BY <1>1, <1>10, <2>1 DEF HttpInv, Sound, Needs
    <3>2. Needs(c)
      BY <1>10, <2>1, <3>1 DEF Needs
    <3> QED
      BY <1>10, <1>11, <2>1, <3>2 DEF HttpInv, Coming, WriteDue
  <2>2. c.up /\ c.open /\ (c'.rx # <<>> \/ c'.eof \/ c'.reset) =>
          c'.queued \/ pc' = "read" \/ (pc' = "batch" /\ "IN" \in evs')
    BY <1>10, <1>11 DEF HttpInv, Coming
  <2> QED
    BY <1>10, <2>1, <2>2 DEF Coming
<1>15. Phase'
  BY <1>10, <1>11 DEF HttpInv, Phase, WriteDue, Orderly, history
<1>16. Stream'
  <2> SUFFICES ASSUME Orderly'
               PROVE  /\ \E rest \in Seq(Unit) : received' \o (c'.tx \o rest) = promised'
                      /\ c'.up /\ c'.open /\ ~c'.reset =>
                            \E rest \in Seq(Unit) :
                                /\ received' \o (c'.tx \o (c'.out \o rest)) = promised'
                                /\ ~c'.shrunk => rest = c'.file
    BY DEF Stream
  <2>1. Orderly /\ promised' = promised
    BY <1>11 DEF Orderly, history
  <2>2. \E rest \in Seq(Unit) : received' \o (c'.tx \o rest) = promised'
    BY <1>4, <1>10, <2>1 DEF HttpInv, Stream
  <2>3. c.up /\ c.open => \E rest \in Seq(Unit) :
           received \o (c.tx \o (c.out \o rest)) = promised /\ (~c.shrunk => rest = c.file)
    BY <1>1, <2>1 DEF HttpInv, Stream
  <2>4. \A rest \in Seq(Unit) : c.out \o rest \in Seq(Unit)
    BY Units DEF HttpInv, Sound, ConnectionState
  <2>5. ASSUME NEW rest \in Seq(Unit), received \o (c.tx \o (c.out \o rest)) = promised
        PROVE  received' \o (c'.tx \o (c'.out \o rest)) = promised'
    BY <1>4, <1>10, <2>1, <2>4, <2>5
  <2> QED
    BY <1>10, <2>2, <2>3, <2>5
<1> QED
  BY <1>10, <1>12, <1>13, <1>14, <1>15, <1>16 DEF HttpInv

LEMMA RstStep == ASSUME HttpInv, Rst PROVE HttpInv'
<1> DEFINE d == [c EXCEPT !.reset = TRUE, !.tx = <<>>]
<1>1. c \in ConnectionState /\ ~c.reset /\ c.tx \in Seq(Unit) /\ received \in Seq(Unit) /\ <<>> \in Seq(Unit)
  BY EmptySeq DEF HttpInv, TypeOK, Sound, ConnectionState, Rst
<1>2. d \in ConnectionState
  BY <1>1 DEF ConnectionState
<1>3. /\ d.up = c.up /\ d.open = c.open /\ d.state = c.state /\ d.out = c.out /\ d.sending = c.sending
      /\ d.file = c.file /\ d.shrunk = c.shrunk /\ d.ctx = c.ctx /\ d.interest = c.interest
      /\ d.queued = c.queued /\ d.tx = <<>> /\ d.reset /\ d.rx = c.rx /\ d.eof = c.eof
  BY <1>1 DEF ConnectionState
<1>4. Sound(d)
  <2>1. Len(d.tx) <= Cap
    BY <1>3, CapAssumption, EmptySeq
  <2> QED
    BY <1>2, <1>3, <2>1 DEF HttpInv, Sound
<1>5. c' = Wake(d, "ERR")
  BY DEF Rst
<1> HIDE DEF d
<1>6. /\ Sound(c') /\ c' = [d EXCEPT !.queued = c'.queued]
      /\ c'.queued <=> d.queued \/ (d.open /\ "ERR" \in d.interest \cup {"ERR"})
  BY <1>4, <1>5, WakeIs
<1>7. /\ c'.up = c.up /\ c'.open = c.open /\ c'.state = c.state /\ c'.out = c.out
      /\ c'.sending = c.sending /\ c'.tx = <<>> /\ c'.reset /\ c'.rx = c.rx
  BY <1>2, <1>3, <1>6 DEF ConnectionState
<1>8. c.open => c'.queued
  BY <1>3, <1>6
<1>9. UNCHANGED <<pc, evs, asked, half, received, parser, history, idled>>
  BY DEF Rst, client
<1>10. TypeOK'
  BY <1>6, <1>9 DEF HttpInv, TypeOK, Sound, history
<1>11. Counted' /\ Parsing' /\ ErrorsAreReal' /\ Coming'
  BY <1>7, <1>8, <1>9 DEF HttpInv, Counted, Ends, Parsing, ErrorsAreReal, Coming, history
<1>12. Phase'
  BY <1>7, <1>9 DEF HttpInv, Phase, WriteDue, Orderly, history
<1>13. Stream'
  <2>1. ASSUME Orderly' PROVE \E rest \in Seq(Unit) : received' \o (c'.tx \o rest) = promised'
    <3>1. \E rest \in Seq(Unit) : received \o (c.tx \o rest) = promised
      BY <1>9, <2>1 DEF HttpInv, Stream, Orderly, history
    <3>2. PICK rest \in Seq(Unit) : received \o (c.tx \o rest) = promised
      BY <3>1
    <3>3. c.tx \o rest \in Seq(Unit)
      BY <1>1, Units
    <3>4. <<>> \o (c.tx \o rest) = c.tx \o rest
      BY <3>3, NoUnits
    <3> QED
      BY <1>7, <1>9, <3>2, <3>3, <3>4 DEF history
  <2> QED
    BY <1>7, <2>1 DEF Stream
<1> QED
  BY <1>6, <1>10, <1>11, <1>12, <1>13 DEF HttpInv

LEMMA CloseResetsStep == ASSUME HttpInv, CloseResets PROVE HttpInv'
<1>1. c \in ConnectionState /\ ~c.open /\ c.tx \in Seq(Unit) /\ received \in Seq(Unit) /\ <<>> \in Seq(Unit)
  BY EmptySeq DEF HttpInv, TypeOK, ConnectionState, CloseResets
<1>2. c' = [c EXCEPT !.tx = <<>>]
  BY DEF CloseResets
<1>3. c' \in ConnectionState
  BY <1>1, <1>2 DEF ConnectionState
<1>4. /\ c'.up = c.up /\ ~c'.open /\ c'.state = c.state /\ c'.out = c.out
      /\ c'.sending = c.sending /\ c'.file = c.file /\ c'.shrunk = c.shrunk /\ c'.ctx = c.ctx
      /\ c'.interest = c.interest /\ c'.tx = <<>> /\ c'.rx = c.rx
  BY <1>1, <1>2 DEF ConnectionState
<1>5. Sound(c')
  <2>1. Len(c'.tx) <= Cap
    BY <1>4, CapAssumption, EmptySeq
  <2> QED
    BY <1>1, <1>3, <1>4, <2>1 DEF HttpInv, Sound
<1>6. UNCHANGED <<pc, evs, asked, half, received, parser, history, idled>>
  BY DEF CloseResets, client
<1>7. TypeOK'
  BY <1>3, <1>6 DEF HttpInv, TypeOK, history
<1>8. Counted' /\ Parsing' /\ ErrorsAreReal' /\ Coming'
  <2>1. c'.reset = c.reset
    BY <1>1, <1>2 DEF ConnectionState
  <2> QED
    BY <1>4, <1>6, <2>1 DEF HttpInv, Counted, Ends, Parsing, ErrorsAreReal, Coming, history
<1>9. Phase'
  BY <1>4, <1>6 DEF HttpInv, Phase, WriteDue, Orderly, history
<1>10. Stream'
  <2>1. ASSUME Orderly' PROVE \E rest \in Seq(Unit) : received' \o (c'.tx \o rest) = promised'
    <3>1. \E rest \in Seq(Unit) : received \o (c.tx \o rest) = promised
      BY <1>6, <2>1 DEF HttpInv, Stream, Orderly, history
    <3>2. PICK rest \in Seq(Unit) : received \o (c.tx \o rest) = promised
      BY <3>1
    <3>3. c.tx \o rest \in Seq(Unit)
      BY <1>1, Units
    <3>4. <<>> \o (c.tx \o rest) = c.tx \o rest
      BY <3>3, NoUnits
    <3> QED
      BY <1>4, <1>6, <3>2, <3>3, <3>4 DEF history
  <2> QED
    BY <1>4, <2>1 DEF Stream
<1> QED
  BY <1>5, <1>7, <1>8, <1>9, <1>10 DEF HttpInv

LEMMA ShrinkStep == ASSUME HttpInv, Shrink PROVE HttpInv'
<1>1. c \in ConnectionState /\ <<>> \in Seq(Unit) /\ c.sending
  BY EmptySeq DEF HttpInv, TypeOK, ConnectionState, Shrink
<1>2. c' = [c EXCEPT !.file = <<>>, !.shrunk = TRUE]
  BY DEF Shrink
<1>3. c' \in ConnectionState
  BY <1>1, <1>2 DEF ConnectionState
<1>4. /\ c'.up = c.up /\ c'.open = c.open /\ c'.state = c.state /\ c'.out = c.out
      /\ c'.sending = c.sending /\ c'.file = <<>> /\ c'.shrunk /\ c'.ctx = c.ctx
      /\ c'.interest = c.interest /\ c'.queued = c.queued /\ c'.tx = c.tx
      /\ c'.reset = c.reset /\ c'.rx = c.rx /\ c'.eof = c.eof
  BY <1>1, <1>2 DEF ConnectionState
<1>5. Sound(c')
  BY <1>1, <1>3, <1>4 DEF HttpInv, Sound
<1>6. UNCHANGED <<pc, evs, asked, half, received, parser, history, idled>>
  BY DEF Shrink, client
<1>7. TypeOK'
  BY <1>3, <1>6 DEF HttpInv, TypeOK, history
<1>8. Counted' /\ Parsing' /\ ErrorsAreReal'
  BY <1>4, <1>6 DEF HttpInv, Counted, Ends, Parsing, ErrorsAreReal, history
<1>9. Coming'
  <2>1. Needs(c') => Needs(c)
    BY <1>4 DEF Needs
  <2>2. WriteDue' = WriteDue
    BY <1>6 DEF WriteDue
  <2> QED
    BY <1>4, <1>6, <2>1, <2>2 DEF HttpInv, Coming
<1>10. Phase'
  BY <1>4, <1>6 DEF HttpInv, Phase, WriteDue, Orderly, history
<1>11. Stream'
  BY <1>4, <1>6 DEF HttpInv, Stream, Orderly, history
<1> QED
  BY <1>5, <1>7, <1>8, <1>9, <1>10, <1>11 DEF HttpInv

(* A connection that is closed for a reason of its own. *)
LEMMA Closing ==
    ASSUME HttpInv, c.up, c' = HandleClose(c), WriteDue' => WriteDue,
           UNCHANGED <<client, parser, history>>
    PROVE  /\ Sound(c)' /\ Counted' /\ Parsing' /\ Coming' /\ Phase' /\ Stream'
           /\ c'.reset = c.reset
<1>1. /\ Sound(c') /\ Keeps(c, c') /\ c'.tx = c.tx /\ c'.out = c.out /\ ~c'.open
      /\ c'.state # c.state => c'.state = "Closing"
      /\ ~c'.up <=> c.open /\ c.sending /\ c.out = <<>> /\ c.state = "SendingResponse"
  BY HandleCloseIs DEF HttpInv
<1>2. Counted' /\ Parsing' /\ Coming'
  BY <1>1 DEF HttpInv, Counted, Ends, Parsing, Coming, Keeps, client, history
<1>3. Phase'
  <2>1. c'.up => ~c'.sending
    BY <1>1 DEF Sound
  <2>2. ASSUME c'.up, c'.out = <<>>, WriteDue' PROVE "mixed" \in lapse'
    <3>1. c.sending \/ "mixed" \in lapse
      BY <1>1, <2>2 DEF HttpInv, Phase
    <3>2. c.sending => c.open
      BY DEF HttpInv, Sound
    <3>3. c.sending => "mixed" \in lapse
      BY <1>1, <2>2, <3>2 DEF HttpInv, Phase
    <3> QED
      BY <3>1, <3>3 DEF history
  <2> QED
    BY <1>1, <2>1, <2>2 DEF Phase
<1>4. Stream'
  BY <1>1 DEF HttpInv, Stream, Orderly, history, client
<1> QED
  BY <1>1, <1>2, <1>3, <1>4 DEF Keeps

LEMMA IdleStep == ASSUME HttpInv, IdleTimeout PROVE HttpInv'
<1>1. /\ c.up /\ c' = HandleClose(c) /\ UNCHANGED <<pc, evs, client, parser, history>> /\ idled'
  BY DEF IdleTimeout
<1>2. WriteDue' => WriteDue
  BY <1>1 DEF WriteDue
<1>3. /\ Sound(c)' /\ Counted' /\ Parsing' /\ Coming' /\ Phase' /\ Stream' /\ c'.reset = c.reset
  BY <1>1, <1>2, Closing
<1>4. TypeOK'
  BY <1>1, <1>3 DEF HttpInv, TypeOK, Sound, history, client, IdleTimeout
<1>5. ErrorsAreReal'
  BY <1>1, <1>3 DEF HttpInv, ErrorsAreReal
<1> QED
  BY <1>3, <1>4, <1>5 DEF HttpInv

-----------------------------------------------------------------------------
(* The event loop. *)
LEMMA EpollStep == ASSUME HttpInv, EpollWait PROVE HttpInv'
<1> DEFINE ready == Readiness(c) \cap (c.interest \cup {"ERR"})
<1>1. /\ c \in ConnectionState /\ c.up /\ pc = "wait" /\ c.queued
      /\ IF ready = {} THEN UNCHANGED <<pc, evs>> ELSE pc' = "batch" /\ evs' = ready
      /\ c' = [c EXCEPT !.queued = FALSE]
      /\ UNCHANGED <<asked, half, received, parser, history, idled>>
  BY DEF EpollWait, HttpInv, TypeOK, client
<1>2. c' \in ConnectionState
  BY <1>1 DEF ConnectionState
<1>3. /\ c'.up = c.up /\ c'.open = c.open /\ c'.state = c.state /\ c'.out = c.out
      /\ c'.sending = c.sending /\ c'.file = c.file /\ c'.shrunk = c.shrunk /\ c'.ctx = c.ctx
      /\ c'.interest = c.interest /\ c'.tx = c.tx
      /\ c'.reset = c.reset /\ c'.rx = c.rx /\ c'.eof = c.eof
  BY <1>1 DEF ConnectionState
<1>4. Sound(c')
  BY <1>2, <1>3 DEF HttpInv, Sound
<1>5. /\ "IN" \in ready <=> "IN" \in c.interest /\ (c.rx # <<>> \/ c.eof \/ c.reset)
      /\ "OUT" \in ready <=> "OUT" \in c.interest /\ (Len(c.tx) < Cap \/ c.reset)
      /\ "ERR" \in ready <=> c.reset
      /\ ready \subseteq {"IN", "OUT", "ERR"}
  BY <1>1 DEF Readiness, ConnectionState
<1> HIDE DEF ready
<1>6. TypeOK'
  BY <1>1, <1>2, <1>5 DEF HttpInv, TypeOK, history
<1>7. Counted' /\ Parsing' /\ ErrorsAreReal'
  BY <1>1, <1>3, <1>5 DEF HttpInv, Counted, Ends, Parsing, ErrorsAreReal, history
<1>8. Coming'
  <2>1. ASSUME c.open, c.rx # <<>> \/ c.eof \/ c.reset PROVE pc' = "batch" /\ "IN" \in evs'
    BY <1>1, <1>5, <2>1 DEF HttpInv, Sound
  <2>2. ASSUME c.open, Needs(c) PROVE pc' = "batch" /\ "OUT" \in evs'
    BY <1>1, <1>5, <2>2 DEF HttpInv, Sound, Needs
  <2>3. Needs(c') => Needs(c)
    BY <1>3 DEF Needs
  <2> QED
    BY <1>3, <2>1, <2>2, <2>3 DEF Coming, WriteDue
<1>9. Phase'
  <2>1. ASSUME c.out = <<>>, WriteDue' PROVE c.sending
    <3>1. "OUT" \in ready
      BY <1>1, <2>1 DEF WriteDue
    <3>2. "OUT" \in c.interest
      BY <1>5, <3>1
    <3> QED
      BY <1>1, <2>1, <3>2 DEF HttpInv, Sound
  <2> QED
    BY <1>1, <1>3, <2>1 DEF HttpInv, Phase, Orderly, history
<1>10. Stream'
  BY <1>1, <1>3, StreamKept DEF HttpInv, history
<1> QED
  BY <1>4, <1>6, <1>7, <1>8, <1>9, <1>10 DEF HttpInv

LEMMA DispatchStep == ASSUME HttpInv, Dispatch PROVE HttpInv'
<1>1. /\ pc = "batch" /\ pc' = IF "IN" \in evs THEN "read" ELSE After({})
      /\ UNCHANGED <<c, evs, asked, half, received, parser, history, idled>>
  BY DEF Dispatch, client
<1>2. After({}) = IF "OUT" \in evs THEN "write" ELSE IF "ERR" \in evs THEN "error" ELSE "wait"
  BY DEF After
<1>3. TypeOK'
  BY <1>1, <1>2 DEF HttpInv, TypeOK, history
<1>4. Sound(c)' /\ Counted' /\ Parsing' /\ ErrorsAreReal'
  BY <1>1, <1>2 DEF HttpInv, Sound, Counted, Ends, Parsing, ErrorsAreReal, history
<1>5. WriteDue' <=> WriteDue
  BY <1>1, <1>2 DEF WriteDue
<1>6. Coming'
  BY <1>1, <1>2, <1>5 DEF HttpInv, Coming, Needs
<1>7. Phase' /\ Stream'
  BY <1>1, <1>5, StreamKept DEF HttpInv, Phase, Orderly, history
<1> QED
  BY <1>3, <1>4, <1>6, <1>7 DEF HttpInv

LEMMA ReadEndStep == ASSUME HttpInv, ReadEnd PROVE HttpInv'
<1>1. /\ c.up /\ pc = "read" /\ (~c.open \/ c.rx = <<>>)
      /\ c' = IF c.eof \/ c.reset THEN HandleClose(c) ELSE c
      /\ pc' = After({"IN"})
      /\ UNCHANGED <<evs, client, parser, history, idled>>
  BY DEF ReadEnd
<1>2. After({"IN"}) = IF "OUT" \in evs THEN "write" ELSE IF "ERR" \in evs THEN "error" ELSE "wait"
  BY DEF After
<1>3. WriteDue' <=> WriteDue
  BY <1>1, <1>2 DEF WriteDue
<1>4. CASE c.eof \/ c.reset
  <2>1. /\ Sound(c)' /\ Counted' /\ Parsing' /\ Coming' /\ Phase' /\ Stream' /\ c'.reset = c.reset
    BY <1>1, <1>3, <1>4, Closing
  <2>2. TypeOK'
    BY <1>1, <1>2, <2>1 DEF HttpInv, TypeOK, Sound, history, client
  <2>3. ErrorsAreReal'
    BY <1>1, <1>2, <2>1 DEF HttpInv, ErrorsAreReal
  <2> QED
    BY <2>1, <2>2, <2>3 DEF HttpInv
<1>5. CASE ~(c.eof \/ c.reset)
  <2>1. c' = c
    BY <1>1, <1>5
  <2>2. TypeOK'
    BY <1>1, <1>2, <2>1 DEF HttpInv, TypeOK, history, client
  <2>3. Sound(c)' /\ Counted' /\ Parsing' /\ ErrorsAreReal'
    BY <1>1, <1>2, <2>1 DEF HttpInv, Sound, Counted, Ends, Parsing, ErrorsAreReal, history, client
  <2>4. Coming'
    BY <1>1, <1>3, <1>5, <2>1 DEF HttpInv, Coming, Needs
  <2>5. Phase' /\ Stream'
    BY <1>1, <1>3, <2>1 DEF HttpInv, Phase, Stream, Orderly, history, client
  <2> QED
    BY <2>2, <2>3, <2>4, <2>5 DEF HttpInv
<1> QED
  BY <1>4, <1>5

LEMMA ErrorStep == ASSUME HttpInv, Error PROVE HttpInv'
<1>1. /\ c.up /\ c' = HandleClose(c) /\ pc' = "wait"
      /\ UNCHANGED <<evs, client, parser, history, idled>>
  BY DEF Error
<1>2. WriteDue' => WriteDue
  BY <1>1 DEF WriteDue
<1>3. /\ Sound(c)' /\ Counted' /\ Parsing' /\ Coming' /\ Phase' /\ Stream' /\ c'.reset = c.reset
  BY <1>1, <1>2, Closing
<1>4. TypeOK' /\ ErrorsAreReal'
  BY <1>1, <1>3 DEF HttpInv, TypeOK, Sound, ErrorsAreReal, history, client
<1> QED
  BY <1>3, <1>4 DEF HttpInv

LEMMA WriteStep == ASSUME HttpInv, Write PROVE HttpInv'
<1>1. /\ c.up /\ pc = "write" /\ c' = HandleWrite(c) /\ pc' = After({"IN", "OUT"})
      /\ UNCHANGED <<evs, asked, half, received, parser, history, idled>>
  BY DEF Write, client
<1>2. After({"IN", "OUT"}) = IF "ERR" \in evs THEN "error" ELSE "wait"
  BY DEF After
<1>3. /\ Sound(c') /\ Keeps(c, c')
      /\ c'.up /\ c'.open => /\ ~Needs(c') /\ c'.state = c.state /\ c'.shrunk = c.shrunk
                             /\ c'.sending => c.sending
                             /\ c'.tx \o (c'.out \o c'.file) = c.tx \o (c.out \o c.file)
      /\ c.open /\ ~c'.open /\ ~c.reset =>
           /\ c'.out = <<>> /\ c'.tx = c.tx \o (c.out \o c.file) /\ ~c.shrunk
           /\ c.state # "ReadingRequest"
      /\ ~c.open => c'.tx = c.tx
      /\ ~c'.up => c.reset \/ (~c.open /\ c.out = <<>>)
      /\ c'.state # c.state => c'.state = "Closing"
  BY <1>1, WriteIs DEF HttpInv
<1>4. /\ c'.rx = c.rx /\ c'.eof = c.eof /\ c'.reset = c.reset
      /\ c'.up /\ c'.open => c.open /\ (c.queued => c'.queued)
  BY <1>3 DEF Keeps
<1>5. TypeOK'
  BY <1>1, <1>2, <1>3 DEF HttpInv, TypeOK, Sound, history
<1>6. Counted' /\ Parsing' /\ ErrorsAreReal'
  BY <1>1, <1>2, <1>3, <1>4 DEF HttpInv, Counted, Ends, Parsing, ErrorsAreReal, history
<1>7. Coming'
  BY <1>1, <1>2, <1>3, <1>4 DEF HttpInv, Coming
<1>8. Phase'
  <2>1. ~WriteDue'
    BY <1>1, <1>2 DEF WriteDue
  <2>2. c'.up /\ c'.sending => c'.open
    BY <1>3 DEF Sound
  <2> QED
    BY <1>1, <1>3, <1>4, <2>1, <2>2 DEF HttpInv, Phase, Orderly, history
<1>9. Stream'
  <2> SUFFICES ASSUME Orderly
               PROVE  /\ \E rest \in Seq(Unit) : received \o (c'.tx \o rest) = promised
                      /\ c'.up /\ c'.open /\ ~c'.reset =>
                            \E rest \in Seq(Unit) :
                                /\ received \o (c'.tx \o (c'.out \o rest)) = promised
                                /\ ~c'.shrunk => rest = c'.file
    BY <1>1 DEF Stream, Orderly, history
  <2>1. /\ c.tx \in Seq(Unit) /\ c.out \in Seq(Unit) /\ c.file \in Seq(Unit)
        /\ c'.tx \in Seq(Unit) /\ c'.out \in Seq(Unit) /\ c'.file \in Seq(Unit)
        /\ received \in Seq(Unit) /\ <<>> \in Seq(Unit)
    BY <1>3, EmptySeq DEF HttpInv, TypeOK, Sound, ConnectionState
  <2>2. PICK all \in Seq(Unit) : received \o (c.tx \o all) = promised
    BY DEF HttpInv, Stream
  <2>3. CASE ~c.open \/ c.reset
    <3>1. c'.tx = c.tx
      BY <1>3, <1>4, <2>3 DEF HttpInv, Sound
    <3> QED
      BY <1>4, <2>2, <2>3, <3>1
  <2>4. CASE c.open /\ ~c.reset
    <3>1. c'.up
      BY <1>3, <2>4
    <3>2. PICK rest \in Seq(Unit) :
             received \o (c.tx \o (c.out \o rest)) = promised /\ (~c.shrunk => rest = c.file)
      BY <1>1, <2>4 DEF HttpInv, Stream
    <3>3. CASE ~c'.open
      <4>1. received \o c'.tx = promised
        BY <1>3, <2>4, <3>2, <3>3
      <4>2. c'.tx \o <<>> = c'.tx
        BY <2>1, NoUnits
      <4> QED
        BY <2>1, <3>3, <4>1, <4>2
    <3>4. CASE c'.open
      <4>1. CASE ~c.shrunk
        <5>1. received \o (c'.tx \o (c'.out \o c'.file)) = promised
          BY <1>3, <3>1, <3>2, <3>4, <4>1
        <5>2. c'.out \o c'.file \in Seq(Unit)
          BY <2>1, Units
        <5> QED
          BY <2>1, <5>1, <5>2
      <4>2. CASE c.shrunk
        <5>1. c.file = <<>> /\ c'.file = <<>> /\ c'.shrunk
          BY <1>1, <1>3, <2>4, <3>1, <3>4, <4>2 DEF HttpInv, Sound
        <5>2. c'.tx \o c'.out = c.tx \o c.out
          <6>1. c'.tx \o (c'.out \o c'.file) = c.tx \o (c.out \o c.file)
            BY <1>3, <3>1, <3>4
          <6>2. c'.out \o <<>> = c'.out /\ c.out \o <<>> = c.out
            BY <2>1, NoUnits
          <6> QED
            BY <5>1, <6>1, <6>2
        <5>3. c'.tx \o (c'.out \o rest) = c.tx \o (c.out \o rest)
          <6>1. Joined(c'.tx, c'.out, rest)
            BY <2>1, Joins
          <6>2. Joined(c.tx, c.out, rest)
            BY <2>1, Joins
          <6> QED
            BY <5>2, <6>1, <6>2 DEF Joined
        <5>4. received \o (c'.tx \o (c'.out \o rest)) = promised
          BY <3>2, <5>3
        <5>5. c'.out \o rest \in Seq(Unit)
          BY <2>1, Units
        <5> QED
          BY <5>1, <5>4, <5>5
      <4> QED
        BY <4>1, <4>2
    <3> QED
      BY <3>3, <3>4
  <2> QED
    BY <2>3, <2>4
<1> QED
  BY <1>3, <1>5, <1>6, <1>7, <1>8, <1>9 DEF HttpInv

(* What one read does: nothing is complete, or request k is processed. *)
Drained == [c EXCEPT !.rx = <<>>]
Processed(k) == ProcessRequest(Drained, k, Len(served) + 1)

ReadOnly ==
    /\ c' = Drained /\ Ends(c.rx) = {}
    /\ parser' = [parser EXCEPT !.at = "inside"]
    /\ UNCHANGED history
ReadAndAnswer(k) ==
    /\ c' = Processed(k) \/ (c' = Terminate(Processed(k)) /\ ~Processed(k).ctx)
    /\ Record(k)
    /\ parser' \in [at : {"between", "inside", "failed"}, complete : {FALSE}]
    /\ parser'.at = "failed" => k = "junk"
    /\ Ends(c.rx) # {} \/ c.state = "Closing"

LEMMA ContentIsKind == ASSUME HttpInv, c.rx # <<>>, Ends(c.rx) # {} PROVE Content(c.rx) \subseteq Kind
<1>1. c.rx \in Seq(Kinds \cup {"part"}) /\ asked \in Seq(Kinds) /\ served \in Seq(Kind)
  BY DEF HttpInv, TypeOK, ConnectionState
<1>2. Last(c.rx) \in Kinds \cup {"part"}
  <2>1. Len(c.rx) \in 1 .. Len(c.rx)
    BY <1>1, Empty
  <2> QED
    BY <1>1, <2>1, ElementOfSeq DEF Last
<1>3. Len(asked) >= 1 /\ Len(asked) \in Nat
  <2>1. Cardinality(Ends(c.rx)) \in Nat /\ Cardinality(Ends(c.rx)) >= 1
    BY <1>1, EndsAreFinite
  <2>2. Len(served) \in Nat /\ Len(asked) \in Nat
    BY <1>1, LenProperties
  <2>3. Len(served) + Cardinality(Ends(c.rx)) <= Len(asked)
    BY <2>1, <2>2 DEF HttpInv, Counted
  <2> QED
    BY <2>1, <2>2, <2>3
<1>4. Last(asked) \in Kinds
  BY <1>1, <1>3, ElementOfSeq DEF Last
<1>5. {"shortClose", "page", "junk"} \subseteq Kind /\ Kinds \subseteq Kind
  BY PartIsNoKind DEF Kind
<1>6. CASE Last(c.rx) = "part"
  <2>1. Content(c.rx) = {"shortClose", Last(asked)} \ {"junk"}
    <3>1. Len(c.rx) = 1 => Ends(c.rx) = {}
      BY <1>1, <1>6, LenProperties DEF Ends, Last
    <3> QED
      BY <1>6, <3>1 DEF Content
  <2> QED
    BY <1>4, <1>5, <2>1
<1>7. CASE Last(c.rx) # "part"
  <2>1. Content(c.rx) \subseteq {Last(c.rx), "shortClose", "page"}
    BY <1>7 DEF Content
  <2> QED
    BY <1>2, <1>5, <1>7, <2>1
<1> QED
  BY <1>6, <1>7

LEMMA ReadDataIs ==
    ASSUME HttpInv, ReadData
    PROVE  ReadOnly \/ \E k \in Kind : ReadAndAnswer(k)
<1>1. OnData(Drained) /\ c.rx # <<>> /\ c.up
  BY DEF ReadData, Drained
<1>2. parser \in [at : {"between", "inside", "failed"}, complete : BOOLEAN] /\ ~parser.complete
  BY DEF HttpInv, TypeOK, Parsing
<1>3. CASE /\ Malformed(c.rx)
           /\ c' = Close(Send(Drained, Header(Len(served) + 1, "junk")))
           /\ parser' = [parser EXCEPT !.at = "failed"]
           /\ Record("junk")
  <2>1. "junk" \in Kind /\ ~IsFile("junk") /\ WantsClose("junk")
    BY DEF Kind, IsFile, WantsClose
  <2>2. c' = Processed("junk")
    BY <1>3, <2>1 DEF Processed, ProcessRequest
  <2>3. Ends(c.rx) # {} \/ c.state = "Closing"
    BY <1>1, <1>3 DEF Malformed, HttpInv, Parsing
  <2>4. parser' \in [at : {"between", "inside", "failed"}, complete : {FALSE}]
    BY <1>2, <1>3
  <2>5. ReadAndAnswer("junk")
    BY <1>3, <2>2, <2>3, <2>4 DEF ReadAndAnswer
  <2> QED
    BY <2>1, <2>5
<1>4. CASE /\ ~(parser.complete \/ Ends(c.rx) # {})
           /\ c' = Drained
           /\ parser' = [parser EXCEPT !.at = "inside"]
           /\ UNCHANGED history
  BY <1>4 DEF ReadOnly
<1>5. CASE /\ parser.complete \/ Ends(c.rx) # {}
           /\ \E k \in Content(c.rx), lucky \in BOOLEAN :
                 LET p == ProcessRequest(Drained, k, Len(served) + 1)
                 IN  /\ c' = IF p.up /\ ~p.ctx /\ ~lucky THEN Terminate(p) ELSE p
                     /\ Record(k)
           /\ parser' = FreshParser
  <2>1. PICK k \in Content(c.rx), lucky \in BOOLEAN :
           /\ c' = IF Processed(k).up /\ ~Processed(k).ctx /\ ~lucky
                   THEN Terminate(Processed(k)) ELSE Processed(k)
           /\ Record(k)
    BY <1>5 DEF Processed
  <2>2. Ends(c.rx) # {}
    BY <1>2, <1>5
  <2>3. k \in Kind
    BY <1>1, <2>2, ContentIsKind
  <2>4. parser' \in [at : {"between", "inside", "failed"}, complete : {FALSE}] /\ parser'.at # "failed"
    BY <1>5 DEF FreshParser
  <2>5. ReadAndAnswer(k)
    BY <2>1, <2>2, <2>4 DEF ReadAndAnswer
  <2> QED
    BY <2>3, <2>5
<1> QED
  BY <1>1, <1>3, <1>4, <1>5 DEF OnData

LEMMA DrainedIs ==
    ASSUME HttpInv, c.up, c.open
    PROVE  /\ Sound(Drained) /\ Drained.up /\ Drained.open /\ Drained.rx = <<>>
           /\ Drained.state = c.state /\ Drained.out = c.out /\ Drained.sending = c.sending
           /\ Drained.file = c.file /\ Drained.shrunk = c.shrunk /\ Drained.queued = c.queued
           /\ Drained.tx = c.tx /\ Drained.reset = c.reset /\ Drained.eof = c.eof
           /\ Needs(Drained) => Needs(c)
<1>1. c \in ConnectionState /\ <<>> \in Seq(Kinds \cup {"part"})
  BY EmptySeq DEF HttpInv, TypeOK
<1>2. Drained \in ConnectionState
  BY <1>1 DEF Drained, ConnectionState
<1>3. /\ Drained.up /\ Drained.open /\ Drained.rx = <<>>
      /\ Drained.state = c.state /\ Drained.out = c.out /\ Drained.sending = c.sending
      /\ Drained.file = c.file /\ Drained.shrunk = c.shrunk /\ Drained.queued = c.queued
      /\ Drained.tx = c.tx /\ Drained.reset = c.reset /\ Drained.eof = c.eof
      /\ Drained.interest = c.interest
  BY <1>1 DEF Drained, ConnectionState
<1>4. Sound(Drained)
  BY <1>2, <1>3 DEF HttpInv, Sound
<1> QED
  BY <1>3, <1>4 DEF Needs

(* The connection after request k has been processed. *)
LEMMA AnswerIs ==
    ASSUME HttpInv, c.up, c.open, NEW k \in Kind, ReadAndAnswer(k)
    PROVE  /\ Sound(c') /\ c'.rx = <<>> /\ c'.eof = c.eof /\ c'.reset = c.reset
           /\ c'.up /\ c'.open => (c.queued => c'.queued) /\ (Needs(c') => c'.queued \/ Needs(c))
           /\ Response(Len(served) + 1, k) \in Seq(Unit)
           /\ ~c.reset /\ ~c.sending /\ c.state # "Closing" =>
                /\ Adds(c, c', Response(Len(served) + 1, k))
                /\ ~c'.open => c'.out = <<>> /\ WantsClose(k) /\ c'.file = <<>>
                /\ c'.open => ~c'.shrunk
           /\ c'.up => /\ c'.state = "SendingResponse" => IsFile(k)
                       /\ c'.state = "Closing" => WantsClose(k)
           /\ c'.up /\ c'.sending => c.sending \/ c'.state = "SendingResponse"
           /\ c.out # <<>> => c'.out # <<>>
           /\ ~c'.up => c.reset \/ ~c'.ctx
           /\ k = "junk" /\ c'.up => c'.state = "Closing"
<1> DEFINE i == Len(served) + 1
           e == Processed(k)
<1>1. i \in Nat
  BY LenProperties DEF HttpInv, TypeOK
<1>2. Response(i, k) \in Seq(Unit)
  BY <1>1, ResponseIs
<1>3. e = ProcessRequest(Drained, k, i)
  BY DEF Processed
<1> HIDE DEF i, e
<1> DEFINE d == Drained
<1>4. /\ Sound(d) /\ d.up /\ d.open /\ d.rx = <<>>
      /\ d.state = c.state /\ d.out = c.out /\ (d.sending <=> c.sending)
      /\ d.tx = c.tx /\ d.reset = c.reset /\ d.eof = c.eof
      /\ d.queued = c.queued /\ (Needs(d) => Needs(c))
      /\ e = ProcessRequest(d, k, i)
  BY <1>3, DrainedIs
<1> HIDE DEF d
<1>5. Sound(e) /\ Keeps(d, e)
  BY <1>1, <1>4, ProcessIs
<1>10. ASSUME ~d.reset, ~d.sending, d.state # "Closing"
       PROVE  /\ Adds(d, e, Response(i, k))
              /\ ~e.open => e.out = <<>> /\ WantsClose(k)
              /\ e.open => ~e.shrunk
              /\ e.up
  <2>1. e.up
    BY <1>1, <1>4, <1>10, ProcessIs
  <2>2. Adds(d, e, Response(i, k))
    BY <1>1, <1>4, <1>10, ProcessIs
  <2>3. ~e.open => e.out = <<>> /\ WantsClose(k)
    BY <1>1, <1>4, <1>10, ProcessIs
  <2>4. e.open => ~e.shrunk
    BY <1>1, <1>4, <1>10, ProcessIs
  <2> QED
    BY <2>1, <2>2, <2>3, <2>4
<1>11. /\ e.up /\ e.sending => d.sending \/ e.state = "SendingResponse"
       /\ d.out # <<>> => e.out # <<>>
       /\ ~e.up => d.reset
       /\ k = "junk" /\ e.up => e.state = "Closing"
  <2>1. e.up /\ e.sending => d.sending \/ e.state = "SendingResponse"
    BY <1>1, <1>4, ProcessIs
  <2>2. d.out # <<>> => e.out # <<>>
    BY <1>1, <1>4, ProcessIs
  <2>3. ~e.up => d.reset
    BY <1>1, <1>4, ProcessIs
  <2>4. k = "junk" /\ e.up => e.state = "Closing"
    BY <1>1, <1>4, ProcessIs
  <2> QED
    BY <2>1, <2>2, <2>3, <2>4
<1>14. ASSUME e.up
       PROVE  /\ e.state = "SendingResponse" => IsFile(k)
              /\ e.state = "Closing" => WantsClose(k)
  BY <1>1, <1>4, <1>14, ProcessIs
<1>12. /\ e.rx = <<>> /\ e.eof = c.eof /\ e.reset = c.reset
       /\ e.up /\ e.open => (c.queued => e.queued) /\ (Needs(e) => e.queued \/ Needs(c))
       /\ ~e.up => c.reset
  <2>1. e.rx = <<>> /\ e.eof = c.eof /\ e.reset = c.reset
    BY <1>4, <1>5 DEF Keeps
  <2>2. e.up /\ e.open => (d.queued => e.queued) /\ (Needs(e) => e.queued \/ Needs(d))
    BY <1>5 DEF Keeps
  <2>3. Needs(d) => Needs(c)
    BY <1>4
  <2>4. d.queued = c.queued /\ d.reset = c.reset
    BY <1>4
  <2> QED
    BY <1>11, <2>1, <2>2, <2>3, <2>4
<1>13. ~c.reset /\ ~c.sending /\ c.state # "Closing" =>
           /\ Adds(c, e, Response(i, k))
           /\ ~e.open => e.out = <<>> /\ WantsClose(k) /\ e.file = <<>>
           /\ e.open => ~e.shrunk
  <2>1. e.up /\ ~e.open => e.file = <<>>
    BY <1>5 DEF Sound
  <2>2. Adds(d, e, Response(i, k)) => Adds(c, e, Response(i, k))
    BY <1>4 DEF Adds
  <2> QED
    BY <1>4, <1>10, <2>1, <2>2
<1>7. c' = e \/ (c' = Terminate(e) /\ ~e.ctx)
  BY DEF ReadAndAnswer, e
<1>8. CASE c' = e
  <2>1. e.up /\ e.sending => c.sending \/ e.state = "SendingResponse"
    BY <1>4, <1>11
  <2>2. c.out # <<>> => e.out # <<>>
    BY <1>4, <1>11
  <2> QED
    BY <1>2, <1>5, <1>8, <1>11, <1>12, <1>13, <1>14, <2>1, <2>2 DEF i
<1>9. CASE c' = Terminate(e) /\ ~e.ctx
  <2>1. e \in ConnectionState
    BY <1>5 DEF Sound
  <2>2. /\ ~c'.up /\ c'.open = e.open /\ c'.state = e.state /\ c'.out = e.out /\ c'.tx = e.tx
        /\ c'.file = e.file /\ c'.shrunk = e.shrunk /\ ~c'.ctx
        /\ c'.rx = e.rx /\ c'.eof = e.eof /\ c'.reset = e.reset
    BY <1>9, <2>1 DEF Terminate, ConnectionState
  <2>3. Sound(c')
    BY <1>5, <1>9, TerminateIs
  <2>4. c.out # <<>> => c'.out # <<>>
    BY <1>4, <1>11, <2>2
  <2>5. ~c.reset /\ ~c.sending /\ c.state # "Closing" =>
           /\ Adds(c, c', Response(i, k))
           /\ ~c'.open => c'.out = <<>> /\ WantsClose(k) /\ c'.file = <<>>
           /\ c'.open => ~c'.shrunk
    <3>1. Adds(c, e, Response(i, k)) => Adds(c, c', Response(i, k))
      BY <2>2 DEF Adds
    <3> QED
      BY <1>13, <2>2, <3>1
  <2>6. c'.rx = <<>> /\ c'.eof = c.eof /\ c'.reset = c.reset /\ ~c'.up /\ ~c'.ctx
    BY <1>12, <2>2
  <2>7. Response(Len(served) + 1, k) \in Seq(Unit)
    BY <1>2 DEF i
  <2>8. ~c.reset /\ ~c.sending /\ c.state # "Closing" =>
                /\ Adds(c, c', Response(Len(served) + 1, k))
                /\ ~c'.open => c'.out = <<>> /\ WantsClose(k) /\ c'.file = <<>>
                /\ c'.open => ~c'.shrunk
    BY <2>5 DEF i
  <2>9. ~c'.up => c.reset \/ ~c'.ctx
    BY <2>6
  <2> HIDE DEF ReadAndAnswer
  <2> QED
    BY <2>3, <2>4, <2>6, <2>7, <2>8, <2>9
<1> QED
  BY <1>7, <1>8, <1>9

(* The answer completes the stream, if it is given between responses. *)
LEMMA AnswerStreams ==
    ASSUME HttpInv, c.up, c.open, ~c.reset, NEW k \in Kind, ReadAndAnswer(k),
           Orderly, ~c.sending, c.state # "Closing", received' = received,
           promised' = promised \o Response(Len(served) + 1, k)
    PROVE  received' \o (c'.tx \o (c'.out \o c'.file)) = promised'
<1> DEFINE R == Response(Len(served) + 1, k)
<1>1. /\ c.tx \in Seq(Unit) /\ c.out \in Seq(Unit) /\ c.file \in Seq(Unit)
      /\ received \in Seq(Unit)
  BY DEF HttpInv, TypeOK, ConnectionState
<1>2. Adds(c, c', R) /\ R \in Seq(Unit)
  BY AnswerIs
<1>3. promised' = promised \o R
  OBVIOUS
<1> HIDE DEF R
<1>4. received \o (c.tx \o c.out) = promised
  <2>1. PICK rest \in Seq(Unit) :
           received \o (c.tx \o (c.out \o rest)) = promised /\ (~c.shrunk => rest = c.file)
    BY DEF HttpInv, Stream
  <2>2. ~c.shrunk /\ c.file = <<>>
    BY DEF HttpInv, Sound
  <2>3. c.out \o rest = c.out
    BY <1>1, <2>1, <2>2, NoUnits
  <2> QED
    BY <2>1, <2>3
<1>5. Joined4(received, c.tx, c.out, R)
  BY <1>1, <1>2, Joins4
<1> QED
  BY <1>2, <1>3, <1>4, <1>5 DEF Adds, Joined4

LEMMA ReadDataStep == ASSUME HttpInv, ReadData PROVE HttpInv'
<1>1. /\ c.up /\ c.open /\ pc = "read"
      /\ UNCHANGED <<pc, evs, asked, half, received, idled>>
  BY DEF ReadData, client
<1>2. /\ c.tx \in Seq(Unit) /\ c.out \in Seq(Unit) /\ c.file \in Seq(Unit)
      /\ received \in Seq(Unit) /\ promised \in Seq(Unit) /\ served \in Seq(Kind)
      /\ asked \in Seq(Kinds) /\ c.rx \in Seq(Kinds \cup {"part"})
  BY DEF HttpInv, TypeOK, ConnectionState
<1>3. Cardinality(Ends(c.rx)) \in Nat /\ Len(served) \in Nat /\ Len(asked) \in Nat
      /\ (Ends(c.rx) # {} => Cardinality(Ends(c.rx)) >= 1)
  BY <1>2, EndsAreFinite, LenProperties
<1>4. c'.rx = <<>> => Cardinality(Ends(c'.rx)) = 0
  <2>1. <<>> \in Seq(Kinds \cup {"part"})
    BY EmptySeq
  <2> QED
    BY <2>1, EndsAreFinite
<1>5. WriteDue' <=> WriteDue
  BY <1>1 DEF WriteDue
<1>6. CASE ReadOnly
  <2>1. /\ Sound(c') /\ c'.up /\ c'.open /\ c'.rx = <<>>
        /\ c'.state = c.state /\ c'.out = c.out /\ (c'.sending <=> c.sending)
        /\ c'.file = c.file /\ c'.shrunk = c.shrunk
        /\ c'.tx = c.tx /\ c'.reset = c.reset
        /\ (c'.queued <=> c.queued) /\ (Needs(c') => Needs(c))
    BY <1>1, <1>6, DrainedIs DEF ReadOnly
  <2>2. UNCHANGED <<served, promised, lapse>>
    BY <1>6 DEF ReadOnly, history
  <2>3. parser' \in [at : {"between", "inside", "failed"}, complete : BOOLEAN]
        /\ ~parser'.complete /\ parser'.at # "failed"
    BY <1>6 DEF ReadOnly, HttpInv, TypeOK, Parsing
  <2>4. TypeOK'
    BY <1>1, <2>1, <2>2, <2>3 DEF HttpInv, TypeOK, Sound
  <2>5. Counted'
    <3>1. Cardinality(Ends(c.rx)') = 0
      BY <1>4, <2>1 DEF Ends
    <3> QED
      BY <1>1, <1>3, <2>2, <3>1 DEF HttpInv, Counted
  <2>6. Parsing' /\ ErrorsAreReal'
    BY <1>1, <2>1, <2>3 DEF HttpInv, Parsing, ErrorsAreReal
  <2>7. Coming'
    BY <1>1, <1>5, <2>1 DEF HttpInv, Coming
  <2>8. Phase'
    BY <1>1, <1>5, <2>1, <2>2 DEF HttpInv, Phase, Orderly
  <2>9. Stream'
    BY <1>1, <2>1, <2>2 DEF HttpInv, Stream, Orderly
  <2> QED
    BY <2>1, <2>4, <2>5, <2>6, <2>7, <2>8, <2>9 DEF HttpInv
<1>7. ASSUME NEW k \in Kind, ReadAndAnswer(k) PROVE HttpInv'
  <2> DEFINE R == Response(Len(served) + 1, k)
  <2>1. /\ Sound(c') /\ c'.rx = <<>> /\ c'.eof = c.eof /\ c'.reset = c.reset
        /\ R \in Seq(Unit)
    BY <1>1, <1>7, AnswerIs
  <2>2. c'.up /\ c'.open => (c.queued => c'.queued) /\ (Needs(c') => c'.queued \/ Needs(c))
    BY <1>1, <1>7, AnswerIs
  <2>3. ASSUME ~c.reset, ~c.sending, c.state # "Closing"
        PROVE  /\ Adds(c, c', R)
               /\ c'.open => ~c'.shrunk
    BY <1>1, <1>7, <2>3, AnswerIs
  <2>4. /\ c'.up => /\ c'.state = "SendingResponse" => IsFile(k)
                    /\ c'.state = "Closing" => WantsClose(k)
        /\ c'.up /\ c'.sending => c.sending \/ c'.state = "SendingResponse"
        /\ c.out # <<>> => c'.out # <<>>
        /\ k = "junk" /\ c'.up => c'.state = "Closing"
    BY <1>1, <1>7, AnswerIs
  <2>5. /\ c.state = "Closing" => UNCHANGED <<served, promised>>
        /\ c.state # "Closing" => served' = Append(served, k) /\ promised' = promised \o R
        /\ lapse' = lapse \cup Lapses(c.rx, k)
    BY <1>7 DEF ReadAndAnswer, Record
  <2>6. Lapses(c.rx, k) \subseteq Lapse
        /\ (c.state = "Closing" => "late" \in lapse') /\ (c.sending => "mixed" \in lapse')
    BY <2>5 DEF Lapses, Lapse
  <2>7. parser' \in [at : {"between", "inside", "failed"}, complete : {FALSE}]
        /\ (parser'.at = "failed" => k = "junk") /\ (Ends(c.rx) # {} \/ c.state = "Closing")
    BY <1>7 DEF ReadAndAnswer
  <2> HIDE DEF R
  <2>8. served' \in Seq(Kind) /\ promised' \in Seq(Unit)
        /\ (c.state # "Closing" => Len(served') = Len(served) + 1 /\ served' # <<>> /\ Last(served') = k)
    <3>1. Append(served, k) \in Seq(Kind) /\ Len(Append(served, k)) = Len(served) + 1
          /\ Append(served, k)[Len(served) + 1] = k
      BY <1>2, <1>3, AppendProperties
    <3>2. Append(served, k) # <<>>
      BY <1>3, <3>1, EmptySeq
    <3>3. promised \o R \in Seq(Unit)
      BY <1>2, <2>1, Units
    <3> QED
      BY <1>2, <2>5, <3>1, <3>2, <3>3 DEF Last
  <2>9. TypeOK'
    BY <1>1, <2>1, <2>5, <2>6, <2>7, <2>8 DEF HttpInv, TypeOK, Sound
  <2>10. Counted'
    <3>1. Cardinality(Ends(c.rx)') = 0
      BY <1>4, <2>1 DEF Ends
    <3>2. Len(served') <= Len(served) + Cardinality(Ends(c.rx)) /\ Len(served') \in Nat
      BY <1>3, <2>5, <2>7, <2>8
    <3> QED
      BY <1>1, <1>3, <3>1, <3>2 DEF HttpInv, Counted
  <2>11. Parsing'
    BY <2>4, <2>7 DEF Parsing
  <2>12. ErrorsAreReal'
    BY <1>1, <2>1 DEF HttpInv, ErrorsAreReal
  <2>13. Coming'
    BY <1>1, <1>5, <2>1, <2>2, <2>4 DEF HttpInv, Coming, Keeps
  <2>14. Phase'
    <3>1. ASSUME c'.up, c'.out = <<>>, WriteDue' PROVE c'.sending \/ "mixed" \in lapse'
      BY <1>1, <1>5, <2>4, <2>5, <2>6, <3>1 DEF HttpInv, Phase
    <3>2. Orderly' => c.state # "Closing"
      BY <2>6 DEF Orderly
    <3>3. ASSUME Orderly', c'.up, c'.open, c'.state # "ReadingRequest"
          PROVE  /\ served' # <<>>
                 /\ c'.state = "Closing" => WantsClose(Last(served'))
                 /\ c'.state = "SendingResponse" => IsFile(Last(served'))
      BY <2>4, <2>8, <3>2, <3>3
    <3> QED
      BY <2>4, <2>6, <3>1, <3>3 DEF Phase
  <2>15. Stream'
    <3> SUFFICES ASSUME Orderly'
                 PROVE  /\ \E rest \in Seq(Unit) : received' \o (c'.tx \o rest) = promised'
                        /\ c'.up /\ c'.open /\ ~c'.reset =>
                              \E rest \in Seq(Unit) :
                                  /\ received' \o (c'.tx \o (c'.out \o rest)) = promised'
                                  /\ ~c'.shrunk => rest = c'.file
      BY DEF Stream
    <3>1. Orderly /\ c.state # "Closing" /\ ~c.sending
      BY <2>5, <2>6 DEF Orderly
    <3>2. promised' = promised \o R /\ received' = received
      BY <1>1, <2>5, <3>1
    <3>3. c'.tx \in Seq(Unit) /\ c'.out \in Seq(Unit) /\ c'.file \in Seq(Unit)
      BY <2>1 DEF Sound, ConnectionState
    <3>4. CASE c.reset
      <4>1. c.tx = <<>> /\ c'.tx = <<>> /\ c'.reset
        BY <2>1, <3>4 DEF HttpInv, Sound
      <4>2. PICK rest \in Seq(Unit) : received \o (c.tx \o rest) = promised
        BY <3>1 DEF HttpInv, Stream
      <4>3. rest \o R \in Seq(Unit)
        BY <2>1, Units
      <4>4. Joined4(received, c.tx, rest, R)
        BY <1>2, <2>1, Joins4
      <4>5. received' \o (c'.tx \o (rest \o R)) = promised'
        BY <3>2, <4>1, <4>2, <4>4 DEF Joined4
      <4> QED
        BY <4>1, <4>3, <4>5
    <3>5. CASE ~c.reset
      <4>1. c'.open => ~c'.shrunk
        BY <2>3, <3>1, <3>5
      <4>4. received' \o (c'.tx \o (c'.out \o c'.file)) = promised'
        BY <1>1, <1>7, <3>1, <3>2, <3>5, AnswerStreams DEF R
      <4>5. c'.out \o c'.file \in Seq(Unit)
        BY <3>3, Units
      <4> QED
        BY <3>3, <4>1, <4>4, <4>5
    <3> QED
      BY <3>4, <3>5
  <2> QED
    BY <2>1, <2>9, <2>10, <2>11, <2>12, <2>13, <2>14, <2>15 DEF HttpInv
<1> QED
  BY <1>6, <1>7, ReadDataIs

-----------------------------------------------------------------------------
LEMMA StepInv == HttpInv /\ [Next]_vars => HttpInv'
<1> SUFFICES ASSUME HttpInv, [Next]_vars PROVE HttpInv'
  OBVIOUS
<1>1. CASE UNCHANGED vars
  <2>1. UNCHANGED <<c, pc, evs, asked, half, received, parser, served, promised, lapse, idled>>
    BY <1>1 DEF vars, client, history
  <2>2. TypeOK' /\ Sound(c)' /\ Counted' /\ Parsing' /\ ErrorsAreReal'
    BY <2>1 DEF HttpInv, TypeOK, Sound, Counted, Ends, Parsing, ErrorsAreReal
  <2>3. Coming' /\ Phase'
    BY <2>1 DEF HttpInv, Coming, Needs, WriteDue, Phase, Orderly
  <2>4. Stream'
    BY <2>1, StreamKept DEF HttpInv
  <2> QED
    BY <2>2, <2>3, <2>4 DEF HttpInv
<1>2. CASE Loop
  BY <1>2, EpollStep, DispatchStep, ReadDataStep, ReadEndStep, WriteStep, ErrorStep DEF Loop
<1>3. CASE Environment
  BY <1>3, RequestStep, RestStep, DeliverStep, IdleStep, FinStep, RstStep, CloseResetsStep, ShrinkStep DEF Environment
<1> QED
  BY <1>1, <1>2, <1>3 DEF Next

LEMMA HttpInvariant == Spec => []HttpInv
  BY InitInv, StepInv, PTL DEF Spec

(* The connection record and the histories keep their types: no operation  *)
(* leaves a connection in a state the code has no name for.                *)
THEOREM TypeCorrect == Spec => []TypeOK
<1>1. HttpInv => TypeOK
  BY DEF HttpInv
<1> QED
  BY <1>1, HttpInvariant, PTL

(* Whatever the requests, the sizes of the responses and the room in the   *)
(* send queue: the client reads the promised answers in order, and nothing *)
(* is lost, repeated or overtaken between the direct write of              *)
(* Connection::send, outputBuffer_ and sendfile.                           *)
THEOREM StreamIsIntact == Spec => []StreamIntact
<1>1. HttpInv => StreamIntact
  <2> SUFFICES ASSUME HttpInv, lapse \subseteq {"skipped", "cut"}
               PROVE  /\ IsPrefix(received \o c.tx, promised)
                      /\ c.up /\ c.open /\ ~c.shrunk /\ ~c.reset =>
                            ((received \o c.tx) \o c.out) \o c.file = promised
    BY DEF StreamIntact
  <2> DEFINE tx   == c.tx
             sent == received \o tx
  <2>1. tx \in Seq(Unit) /\ received \in Seq(Unit) /\ sent \in Seq(Unit)
    BY Units DEF HttpInv, TypeOK, ConnectionState
  <2>2. \A rest \in Seq(Unit) : received \o (tx \o rest) = sent \o rest
    <3> SUFFICES ASSUME NEW rest \in Seq(Unit) PROVE received \o (tx \o rest) = sent \o rest
      OBVIOUS
    <3> HIDE DEF tx
    <3>1. Joined(received, tx, rest)
      BY <2>1, Joins
    <3> QED
      BY <3>1 DEF Joined
  <2> HIDE DEF sent
  <2>3. PICK rest \in Seq(Unit) : sent \o rest = promised
    BY <2>2 DEF HttpInv, Stream, Orderly
  <2>4. IsPrefix(sent, sent \o rest)
    <3>1. Len(sent \o rest) = Len(sent) + Len(rest) /\ Len(sent) \in Nat /\ Len(rest) \in Nat
      BY <2>1, ConcatProperties, LenProperties
    <3> QED
      BY <2>1, <3>1 DEF IsPrefix
  <2>5. ASSUME c.up, c.open, ~c.shrunk, ~c.reset
        PROVE  (sent \o c.out) \o c.file = promised
    <3> DEFINE out  == c.out
               file == c.file
    <3>1. out \in Seq(Unit) /\ file \in Seq(Unit) /\ out \o file \in Seq(Unit)
      BY Units DEF HttpInv, TypeOK, ConnectionState
    <3>2. received \o (tx \o (out \o file)) = promised
      BY <2>5 DEF HttpInv, Stream, Orderly
    <3> HIDE DEF out, file
    <3>3. sent \o (out \o file) = promised
      BY <2>2, <3>1, <3>2
    <3>4. Joined(sent, out, file)
      BY <2>1, <3>1, Joins
    <3> QED
      BY <3>3, <3>4 DEF Joined, out, file
  <2> QED
    BY <2>3, <2>4, <2>5 DEF sent
<1> QED
  BY <1>1, HttpInvariant, PTL

(* For any capacity of the send queue: whenever the loop waits, edge-      *)
(* triggered epoll still has an event coming for what is left to read or,  *)
(* with room in the queue, to write.                                       *)
THEOREM NoWakeupIsLost == Spec => []NoLostWakeup
<1>1. HttpInv => NoLostWakeup
  <2> SUFFICES ASSUME HttpInv, c.up, c.open, pc = "wait"
               PROVE  /\ c.rx # <<>> \/ c.eof \/ c.reset => c.queued
                      /\ c.out # <<>> \/ (c.sending /\ ~c.shrunk) =>
                            "OUT" \in c.interest /\ (Len(c.tx) < Cap => c.queued)
    BY DEF NoLostWakeup
  <2>1. c.rx # <<>> \/ c.eof \/ c.reset => c.queued
    BY DEF HttpInv, Coming
  <2>2. Needs(c) => c.queued
    BY DEF HttpInv, Coming, WriteDue
  <2>3. c.out # <<>> \/ c.sending => "OUT" \in c.interest
    BY DEF HttpInv, Sound
  <2> QED
    BY <2>1, <2>2, <2>3 DEF Needs
<1> QED
  BY <1>1, HttpInvariant, PTL

(* However requests are cut and pipelined, HttpServer::onData answers at   *)
(* most as many times as the client has asked.                             *)
THEOREM NoAnswersToSpare == Spec => []NoSpareAnswer
<1>1. HttpInv => NoSpareAnswer
  <2> SUFFICES ASSUME HttpInv PROVE Len(served) <= Len(asked)
    BY DEF NoSpareAnswer
  <2>1. Cardinality(Ends(c.rx)) \in Nat
    BY EndsAreFinite DEF HttpInv, TypeOK, ConnectionState
  <2>2. Len(served) \in Nat /\ Len(asked) \in Nat
    BY LenProperties DEF HttpInv, TypeOK
  <2> QED
    BY <2>1, <2>2 DEF HttpInv, Counted
<1> QED
  BY <1>1, HttpInvariant, PTL

-----------------------------------------------------------------------------
(* Most steps neither close the connection nor end the process. *)
LEMMA StaysOpen ==
    ASSUME HttpInv, EpollWait \/ Dispatch \/ RestOfRequest \/ Deliver \/ Fin \/ Rst \/ CloseResets \/ Shrink
                    \/ \E k \in Kinds, whole \in BOOLEAN : Request(k, whole)
    PROVE  c'.up = c.up /\ c'.open = c.open
<1>1. c \in ConnectionState
  BY DEF HttpInv, TypeOK
<1>2. CASE EpollWait \/ Dispatch \/ CloseResets \/ Shrink
  BY <1>1, <1>2 DEF EpollWait, Dispatch, CloseResets, Shrink, ConnectionState
<1>3. CASE RestOfRequest \/ Deliver \/ Fin \/ Rst
  BY <1>1, <1>3 DEF RestOfRequest, Deliver, Fin, Rst, Wake, ConnectionState
<1>4. ASSUME NEW k \in Kinds, NEW whole \in BOOLEAN, Request(k, whole)
      PROVE  c'.up = c.up /\ c'.open = c.open
  BY <1>1, <1>4 DEF Request, Wake, ConnectionState
<1> QED
  BY <1>2, <1>3, <1>4

(* The ways the process can end, for any connection: nothing else in the   *)
(* event loop, Connection or HttpServer throws or writes to a dead client. *)
THEOREM TerminationHasCauses == Spec => TerminatesOnlyBy
<1> DEFINE Cause == \/ c.sending /\ c.out = <<>> /\ (c.eof \/ c.reset \/ IdleTimeout)
                    \/ c.reset
                    \/ ReadData /\ ~c'.ctx
                    \/ Write /\ ~c.open /\ "mixed" \in lapse
<1>1. HttpInv /\ [Next]_vars => [c.up /\ ~c'.up => Cause]_vars
  <2> SUFFICES ASSUME HttpInv, Next, c.up, ~c'.up PROVE Cause
    OBVIOUS
  <2>1. CASE ReadData
    <3>1. c.open
      BY <2>1 DEF ReadData
    <3>2. ~ReadOnly
      BY <3>1, DrainedIs DEF ReadOnly
    <3>3. PICK k \in Kind : ReadAndAnswer(k)
      BY <2>1, <3>2, ReadDataIs
    <3>4. c.reset \/ ~c'.ctx
      BY <3>1, <3>3, AnswerIs
    <3> QED
      BY <2>1, <3>4
  <2>2. CASE ReadEnd
    <3>1. c' = HandleClose(c) /\ (c.eof \/ c.reset)
      BY <2>2 DEF ReadEnd
    <3>2. c.sending /\ c.out = <<>>
      BY <3>1, HandleCloseIs DEF HttpInv
    <3> QED
      BY <3>1, <3>2
  <2>3. CASE Write
    <3>1. c.reset \/ (~c.open /\ c.out = <<>>)
      BY <2>3, WriteIs DEF HttpInv, Write
    <3>2. ~c.open => ~c.sending
      BY DEF HttpInv, Sound
    <3>3. c.out = <<>> => c.sending \/ "mixed" \in lapse
      BY <2>3 DEF HttpInv, Phase, WriteDue, Write
    <3> QED
      BY <2>3, <3>1, <3>2, <3>3
  <2>4. CASE Error
    BY <2>4 DEF Error, HttpInv, ErrorsAreReal
  <2>5. CASE IdleTimeout
    <3>1. c.sending /\ c.out = <<>>
      BY <2>5, HandleCloseIs DEF IdleTimeout, HttpInv
    <3> QED
      BY <2>5, <3>1
  <2> QED
    BY <2>1, <2>2, <2>3, <2>4, <2>5, StaysOpen DEF Next, Loop, Environment
<1> QED
  BY <1>1, HttpInvariant, PTL DEF Spec, TerminatesOnlyBy

(* HttpServer and Connection close only behind the last unit of the last   *)
(* response, and only after a request that wants it or a file.             *)
THEOREM ClosingIsOrderly == Spec => ClosesOnlyWhenDone
<1> DEFINE Done == /\ c'.out = <<>> /\ received' \o c'.tx = promised'
                   /\ WantsClose(Last(served')) \/ IsFile(Last(served'))
<1>1. HttpInv /\ [Next]_vars =>
        [c.open /\ ~c'.open /\ ~c.eof /\ ~c.reset /\ lapse' \subseteq {"skipped", "cut"} =>
            IdleTimeout \/ Done]_vars
  <2> SUFFICES ASSUME HttpInv, Next, c.open, ~c'.open, ~c.eof, ~c.reset,
                      lapse' \subseteq {"skipped", "cut"}, ~IdleTimeout
               PROVE  Done
    OBVIOUS
  <2>1. CASE ReadData
    <3>1. c.up /\ received' = received
      BY <2>1 DEF ReadData, client
    <3>2. ~ReadOnly
      BY <3>1, DrainedIs DEF ReadOnly
    <3>3. PICK k \in Kind : ReadAndAnswer(k)
      BY <2>1, <3>2, ReadDataIs
    <3>4. lapse' = lapse \cup Lapses(c.rx, k)
      BY <3>3 DEF ReadAndAnswer, Record
    <3>5. c.state # "Closing" /\ ~c.sending
      <4>1. c.state = "Closing" => "late" \in Lapses(c.rx, k)
        BY DEF Lapses, Lapse
      <4>2. c.sending => "mixed" \in Lapses(c.rx, k)
        BY DEF Lapses, Lapse
      <4> QED
        BY <3>4, <4>1, <4>2
    <3>6. Orderly
      BY <3>4 DEF Orderly
    <3>7. served' = Append(served, k) /\ promised' = promised \o Response(Len(served) + 1, k)
      BY <3>3, <3>5 DEF ReadAndAnswer, Record
    <3>8. Last(served') = k
      <4>1. served \in Seq(Kind)
        BY DEF HttpInv, TypeOK
      <4> QED
        BY <3>7, <4>1, AppendProperties, LenProperties DEF Last
    <3>9. /\ Sound(c') /\ c'.out = <<>> /\ WantsClose(k) /\ c'.file = <<>>
      BY <3>1, <3>3, <3>5, AnswerIs
    <3>10. received' \o (c'.tx \o (c'.out \o c'.file)) = promised'
      BY <3>1, <3>3, <3>5, <3>6, <3>7, AnswerStreams
    <3>11. c'.tx \o (c'.out \o c'.file) = c'.tx
      <4>1. c'.tx \in Seq(Unit)
        BY <3>9 DEF Sound, ConnectionState
      <4> QED
        BY <3>9, <4>1, NoUnits
    <3> QED
      BY <3>8, <3>9, <3>10, <3>11
  <2>2. CASE Write
    <3>1. c.up /\ c' = HandleWrite(c) /\ UNCHANGED <<received, served, promised, lapse>>
      BY <2>2 DEF Write, client, history
    <3>2. c'.out = <<>> /\ c'.tx = c.tx \o (c.out \o c.file) /\ ~c.shrunk /\ c.state # "ReadingRequest"
      BY <3>1, WriteIs DEF HttpInv
    <3>3. Orderly
      BY <3>1 DEF Orderly
    <3>4. received \o (c.tx \o (c.out \o c.file)) = promised
      BY <3>1, <3>2, <3>3 DEF HttpInv, Stream
    <3>5. c.state \in {"Closing", "SendingResponse"}
      BY <3>2 DEF HttpInv, TypeOK, ConnectionState
    <3>6. WantsClose(Last(served)) \/ IsFile(Last(served))
      BY <3>1, <3>3, <3>5 DEF HttpInv, Phase
    <3> QED
      BY <3>1, <3>2, <3>4, <3>6
  <2>3. CASE ReadEnd
    BY <2>3 DEF ReadEnd
  <2>4. CASE Error
    BY <2>4 DEF Error, HttpInv, ErrorsAreReal
  <2> QED
    BY <2>1, <2>2, <2>3, <2>4, StaysOpen DEF Next, Loop, Environment
<1> QED
  BY <1>1, HttpInvariant, PTL DEF Spec, ClosesOnlyWhenDone
=============================================================================
