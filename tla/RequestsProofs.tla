---------------------------- MODULE RequestsProofs ----------------------------
(***************************************************************************)
(* The answer to a request, for every set of routes and width of integers. *)
(*                                                                         *)
(* Ranges: what a range that was parsed means to the header, and what the  *)
(* resolution does to it; then what the head declares.  Routes: the tree   *)
(* is the list of routes; the search in it has one result at each node,    *)
(* and by induction from the deepest nodes up, that is the first of the    *)
(* handlers below that take the path, with the parameters on the way to it.*)
(***************************************************************************)
EXTENDS Requests, SequenceTheorems, WellFoundedInduction, TLAPS

(* Ranges and frames. *)

(* What a parsed range means, by its markers. *)
Wants(r, size, i) ==
    IF r.start = -1 THEN i >= size - r.end
    ELSE i >= r.start /\ (r.end # -1 => i <= r.end)

(* A parsed range is one header's, and keeps what the header means; only   *)
(* a suffix has a negative start.                                          *)
LEMMA Parsed ==
    ASSUME NEW h \in Header
    PROVE  LET r == ParseRange(h)
           IN  /\ r.has \in BOOLEAN /\ r.start \in Int64 \cup {-1} /\ r.end \in Int64 \cup {-1}
               /\ r.has <=> IsRange(h)
               /\ r.has => /\ r.start >= -1
                           /\ r.start = -1 <=> IsSuffix(h)
                           /\ r.start # -1 => r.end >= -1
                           /\ r.start = -1 => r.end = h.end.n
                           /\ \A size, i : Wants(r, size, i) <=> Means(h, size, i)
<1> USE HalfAssumption DEF Int64
<1>1. h.bytes \in BOOLEAN /\ h.start \in Text /\ h.end \in Text /\ h.start.n >= 0
  <2>1. CASE h \in [bytes : {TRUE}, start : {t \in Text : t.n >= 0}, end : Text]
    BY <2>1
  <2>2. CASE h \in [bytes : {FALSE}, start : {Empty}, end : {Empty}]
    <3>1. Empty \in Text /\ Empty.n = 0 BY HalfAssumption DEF Empty, Text
    <3>2. h.bytes = FALSE /\ h.start = Empty /\ h.end = Empty BY <2>2
    <3>3. h.start \in Text /\ h.end \in Text BY <3>1, <3>2, Zenon
    <3>4. h.bytes \in BOOLEAN BY <3>2, Zenon
    <3>5. h.start.n = 0 BY <3>1, <3>2, Zenon
    <3>6. h.start.n >= 0 BY <3>5
    <3> QED BY <3>3, <3>4, <3>6, Zenon
  <2> QED BY <2>1, <2>2 DEF Header
<1>2. /\ h.start.is \in {"empty", "bad", "number"} /\ h.start.n \in Int64
      /\ h.end.is \in {"empty", "bad", "number"} /\ h.end.n \in Int64
  BY <1>1 DEF Text, Empty
<1> QED
  BY <1>1, <1>2 DEF ParseRange, NoRange, IsRange, IsSuffix, Wants, Means

(* What is resolved from a parsed range is the bytes it wants. *)
LEMMA Resolved ==
    ASSUME NEW size \in 0 .. Half - 1, NEW r, r.has = TRUE,
           r.start \in Int64 \cup {-1}, r.end \in Int64 \cup {-1}, r.start >= -1,
           r.start # -1 => r.end >= -1
    PROVE  LET a == Resolve(r, size)
           IN  /\ a.status \in {206, 416}
               /\ a.status = 206 =>
                     /\ 0 <= a.first /\ a.first <= a.last /\ a.last < size
                     /\ \A i \in 0 .. size - 1 : Wants(r, size, i) <=> i \in a.first .. a.last
               /\ a.status = 416 =>
                     \/ r.start = -1 /\ r.end > size
                     \/ \A i \in 0 .. size - 1 : ~Wants(r, size, i)
<1> USE HalfAssumption DEF Int64
<1>1. CASE r.start = -1
  BY <1>1 DEF Resolve, LastByte, Wants, Wrap
<1>2. CASE r.start # -1
  BY <1>2 DEF Resolve, LastByte, Wants, Wrap
<1> QED BY <1>1, <1>2

(* The bytes sent are the ones the header means, for every header and      *)
(* every size: RangeExact of the whole state space, as an operator's law.  *)
THEOREM ResolveAnswers ==
    ASSUME NEW h \in Header, NEW size \in 0 .. Half - 1
    PROVE  Answers(Resolve(ParseRange(h), size), h, size)
<1>1. CASE ~ParseRange(h).has
  <2>1. Resolve(ParseRange(h), size) = [status |-> 200, first |-> 0, last |-> size - 1]
    BY <1>1 DEF Resolve
  <2>2. ~IsRange(h) BY <1>1, Parsed
  <2> QED BY <2>1, <2>2 DEF Answers
<1>2. CASE ParseRange(h).has
  <2> DEFINE r == ParseRange(h)
             a == Resolve(r, size)
  <2>1. /\ r.has = TRUE /\ r.start \in Int64 \cup {-1} /\ r.end \in Int64 \cup {-1}
        /\ r.start >= -1 /\ (r.start # -1 => r.end >= -1)
    BY <1>2, Parsed
  <2>2. /\ IsRange(h)
        /\ r.start = -1 => IsSuffix(h) /\ r.end = h.end.n
        /\ \A i : Wants(r, size, i) <=> Means(h, size, i)
    BY <1>2, Parsed
  <2> HIDE DEF r
  <2>3. /\ a.status \in {206, 416}
        /\ a.status = 206 =>
              /\ 0 <= a.first /\ a.first <= a.last /\ a.last < size
              /\ \A i \in 0 .. size - 1 : Wants(r, size, i) <=> i \in a.first .. a.last
        /\ a.status = 416 =>
              \/ r.start = -1 /\ r.end > size
              \/ \A i \in 0 .. size - 1 : ~Wants(r, size, i)
    BY ONLY <2>1, size \in 0 .. Half - 1, Resolved
  <2> HIDE DEF a
  <2>4. Answers(a, h, size) BY <2>2, <2>3 DEF Answers
  <2> QED BY <2>4 DEF a, r
<1> QED BY <1>1, <1>2

(* What a file response records is what processRequest made of its header. *)
FromHeader ==
    (response # Nil /\ response.is = "file") =>
       /\ response.header \in Header /\ response.size \in 0 .. Half - 1
       /\ response.answer = Resolve(ParseRange(response.header), response.size)

(* RangeExact of every execution, for every width of integers, every set   *)
(* of sizes, and every table of routes.                                    *)
THEOREM RangesAreExact == Spec => []RangeExact
<1>1. Init => FromHeader
  BY DEF Init, FromHeader
<1>2. FromHeader /\ [Next]_vars => FromHeader'
  <2> SUFFICES ASSUME FromHeader, [Next]_vars PROVE FromHeader'
    OBVIOUS
  <2>1. ASSUME NEW m \in Method, NEW p \in Patterns, AddARoute(m, p) PROVE FromHeader'
    BY <2>1 DEF AddARoute, FromHeader
  <2>2. CASE SetDefaultHandler
    BY <2>2 DEF SetDefaultHandler, FromHeader
  <2>3. ASSUME NEW m \in Method, NEW s \in Targets, RouteRequest(m, s) PROVE FromHeader'
    BY <2>3 DEF RouteRequest, FromHeader
  <2>4. CASE RespondBody \/ RespondGone
    BY <2>4 DEF RespondBody, RespondGone, FromHeader
  <2>5. ASSUME NEW h \in Header, NEW n \in Sizes, RespondFile(h, n) PROVE FromHeader'
    <3>1. n \in 0 .. Half - 1 BY RequestsAssumption
    <3>2. /\ response'.header = h /\ response'.size = n
          /\ response'.answer = Resolve(ParseRange(h), n)
      BY <2>5 DEF RespondFile
    <3> QED BY <3>1, <3>2 DEF FromHeader
  <2>6. CASE UNCHANGED vars
    BY <2>6 DEF vars, FromHeader
  <2> QED BY <2>1, <2>2, <2>3, <2>4, <2>5, <2>6 DEF Next
<1>3. FromHeader => RangeExact
  BY ResolveAnswers DEF FromHeader, RangeExact
<1> QED BY <1>1, <1>2, <1>3, PTL DEF Spec

(* Each kind of response declares what follows it. *)
LEMMA FileFramed ==
    ASSUME NEW h \in Header, NEW n \in Sizes, RespondFile(h, n)
    PROVE  Framed'
<1>1. n \in Int /\ n # NoFile BY RequestsAssumption, HalfAssumption DEF NoFile
<1> DEFINE a == Resolve(ParseRange(h), n)
<1>2. /\ a.status \in {200, 206, 416}
      /\ a.status = 200 => a.first = 0 /\ a.last = n - 1
  BY DEF Resolve
<1>3. /\ response'.is = "file" /\ response'.answer = a
      /\ response'.declared =
            Build(IF a.status = 200 THEN SetFile(Fresh, n)
                  ELSE IF a.status = 206 THEN SetContentRange(Fresh, a.first, a.last)
                  ELSE SetStatus(Fresh, 416))
  BY DEF RespondFile
<1> HIDE DEF a
<1>4. CASE a.status = 200
  BY <1>1, <1>2, <1>3, <1>4 DEF Framed, Build, SetFile, Fresh
<1>5. CASE a.status = 206
  BY <1>3, <1>5 DEF Framed, Build, SetContentRange, Fresh
<1>6. CASE a.status = 416
  BY <1>3, <1>6 DEF Framed, Build, SetStatus, Fresh
<1> QED BY <1>2, <1>4, <1>5, <1>6

LEMMA BodyFramed ==
    ASSUME RespondBody \/ RespondGone PROVE Framed'
<1>1. PICK r \in Handled \cup {Error(404), Error(410)} :
         response' = [is |-> "body", by |-> r, declared |-> Build(r)]
  BY DEF RespondBody, RespondGone
<1>2. ASSUME r \in {Fresh, SetChunked(Fresh), SetFile(Fresh, NoFile)} PROVE Framed'
  <2>1. r.length = NoLength /\ r.body = 0
    <3>1. CASE r = Fresh BY <3>1 DEF Fresh
    <3>2. CASE r = SetChunked(Fresh) BY <3>2 DEF SetChunked, Fresh
    <3>3. CASE r = SetFile(Fresh, NoFile) BY <3>3 DEF SetFile, Fresh
    <3> QED BY <1>2, <3>1, <3>2, <3>3
  <2>2. SetChunked(Fresh).chunked BY DEF SetChunked, Fresh
  <2>3. response'.declared = NoLength /\ response'.by = r /\ response'.is = "body"
    BY <1>1, <2>1 DEF Build
  <2> QED BY <1>2, <2>1, <2>2, <2>3 DEF Framed
<1>3. ASSUME NEW b \in {Fresh, SetChunked(Fresh), SetFile(Fresh, NoFile),
                        SetStatus(Fresh, 404), SetStatus(Fresh, 410)},
             NEW n \in {0, 1}, r = SetBody(b, n)
      PROVE  Framed'
  <2>1. /\ r.length = n /\ r.body = n /\ r.chunked = b.chunked
    BY <1>3 DEF SetBody, SetChunked, SetFile, SetStatus, Fresh, NoFile
  <2>2. Fresh.length = NoLength /\ SetFile(Fresh, NoFile).length = NoLength /\ NoLength # n
    BY DEF Fresh, SetFile, NoLength, NoFile
  <2>3. r \notin {Fresh, SetFile(Fresh, NoFile)}
    <3>1. r # Fresh
      BY ONLY <2>1, <2>2
    <3>2. r # SetFile(Fresh, NoFile)
      BY ONLY <2>1, <2>2
    <3> QED
      BY ONLY <3>1, <3>2
  <2>4. CASE r.chunked
    BY <1>1, <2>1, <2>3, <2>4 DEF Framed, Build
  <2>5. CASE ~r.chunked
    BY <1>1, <2>1, <2>3, <2>5 DEF Framed, Build
  <2> QED BY <2>4, <2>5
<1> QED BY <1>1, <1>2, <1>3 DEF Handled, Error

(* Framed of every execution: a head declares what follows it, or nothing  *)
(* in the three cases that the property lists.                             *)
THEOREM ResponsesAreFramed == Spec => []Framed
<1>1. Init => Framed
  BY DEF Init, Framed
<1>2. Framed /\ [Next]_vars => Framed'
  <2> SUFFICES ASSUME Framed, [Next]_vars PROVE Framed'
    OBVIOUS
  <2>1. ASSUME NEW m \in Method, NEW p \in Patterns, AddARoute(m, p) PROVE Framed'
    BY <2>1 DEF AddARoute, Framed
  <2>2. CASE SetDefaultHandler
    BY <2>2 DEF SetDefaultHandler, Framed
  <2>3. ASSUME NEW m \in Method, NEW s \in Targets, RouteRequest(m, s) PROVE Framed'
    BY <2>3 DEF RouteRequest, Framed
  <2>4. CASE RespondBody \/ RespondGone
    BY <2>4, BodyFramed
  <2>5. ASSUME NEW h \in Header, NEW n \in Sizes, RespondFile(h, n) PROVE Framed'
    BY <2>5, FileFramed
  <2>6. CASE UNCHANGED vars
    BY <2>6 DEF vars, Framed
  <2> QED BY <2>1, <2>2, <2>3, <2>4, <2>5, <2>6 DEF Next
<1> QED BY <1>1, <1>2, PTL DEF Spec

-----------------------------------------------------------------------------
(* Induction over the naturals, with a set for what is proved of them. *)
LEMMA Induction ==
    ASSUME NEW X, 0 \in X, \A k \in Nat : k \in X => k + 1 \in X
    PROVE  Nat \subseteq X
<1> SUFFICES ASSUME Nat \ X # {} PROVE FALSE
  OBVIOUS
<1>1. IsWellFoundedOn(OpToRel(<, Nat), Nat)
  BY NatLessThanWellFounded
<1>2. PICK k \in Nat \ X : \A j \in Nat \ X : ~(<<j, k>> \in OpToRel(<, Nat))
  BY <1>1, WFMin
<1>3. k - 1 \in Nat /\ k - 1 < k /\ (k - 1) + 1 = k
  OBVIOUS
<1>4. <<k - 1, k>> \in OpToRel(<, Nat)
  BY <1>2, <1>3 DEF OpToRel
<1>5. k - 1 \in X
  BY <1>2, <1>3, <1>4
<1> QED
  BY <1>3, <1>5

-----------------------------------------------------------------------------
(* Places of nodes in a tree: the method and the texts below it. *)
Label  == Method \cup Word \cup {":"}
Places == Seq(Label) \ {<<>>}

(* A place has at least the method. *)
LEMMA PlaceIs == ASSUME NEW n \in Places PROVE Len(n) \in Nat /\ Len(n) >= 1
<1>1. n \in Seq(Label) /\ n # <<>>
  BY DEF Places
<1> QED
  BY <1>1, EmptySeq, LenProperties

(* The place of a child is its parent's and one label. *)
LEMMA ChildIs ==
    ASSUME NEW n \in Places, NEW x \in Label
    PROVE  /\ Append(n, x) \in Places /\ Len(Append(n, x)) = Len(n) + 1
           /\ Append(n, x)[Len(n) + 1] = x
           /\ \A l \in 1 .. Len(n) : Append(n, x)[l] = n[l]
<1>1. n \in Seq(Label)
  BY DEF Places
<1>2. /\ Append(n, x) \in Seq(Label) /\ Len(Append(n, x)) = Len(n) + 1
      /\ Append(n, x)[Len(n) + 1] = x
      /\ \A l \in 1 .. Len(n) : Append(n, x)[l] = n[l]
  BY <1>1, AppendProperties
<1>3. Append(n, x) # <<>>
  BY <1>1, AppendProperties
<1> QED
  BY <1>2, <1>3 DEF Places

(* What match does at a node only depends on what it finds below it. *)
LEMMA MatchLocal ==
    ASSUME NEW t, NEW segs, NEW n, NEW f, NEW g,
           \A x \in {segs[Len(n)], ":"} : Append(n, x) \in t.nodes => f[Append(n, x)] = g[Append(n, x)]
    PROVE  MatchAt(t, segs, f, n) = MatchAt(t, segs, g, n)
<1> DEFINE lit == Append(n, segs[Len(n)])
           par == Append(n, ":")
<1>1. /\ lit \in t.nodes => f[lit] = g[lit]
      /\ par \in t.nodes => f[par] = g[par]
  OBVIOUS
<1> HIDE DEF lit, par
<1> QED
  BY <1>1 DEF MatchAt, TriesParam, lit, par

(* match has one result at each node: a search ends, since it goes down    *)
(* one segment at each step.                                               *)
LEMMA MatchIs ==
    ASSUME NEW t, t.nodes \subseteq Places, NEW segs \in Seq(Word)
    PROVE  \A n \in t.nodes : Match(t, segs)[n] = MatchAt(t, segs, Match(t, segs), n)
<1> DEFINE Deep(k) == {n \in t.nodes : Len(n) + k > Len(segs)}
           Solves(g, k) == g = [n \in Deep(k) |-> MatchAt(t, segs, g, n)]
           X == {k \in Nat : \E g : Solves(g, k)}
<1>1. Len(segs) \in Nat /\ \A n \in t.nodes : Len(n) \in Nat /\ Len(n) >= 1
  BY PlaceIs, LenProperties
<1>2. 0 \in X
  <2> DEFINE g == [n \in Deep(0) |-> [Miss EXCEPT !.h = t.handler[n]]]
  <2>1. ASSUME NEW n \in Deep(0)
        PROVE  MatchAt(t, segs, g, n) = [Miss EXCEPT !.h = t.handler[n]]
    <3>1. Len(n) > Len(segs)
      BY <1>1
    <3> HIDE DEF g
    <3> QED
      BY <3>1 DEF MatchAt
  <2>2. g = [n \in Deep(0) |-> MatchAt(t, segs, g, n)]
    BY <2>1
  <2> HIDE DEF g
  <2> QED
    BY <2>2
<1>3. ASSUME NEW k \in Nat, k \in X PROVE k + 1 \in X
  <2>1. PICK g : Solves(g, k)
    BY <1>3
  <2> DEFINE f == [n \in Deep(k + 1) |-> MatchAt(t, segs, g, n)]
  <2>2. ASSUME NEW n \in Deep(k) PROVE f[n] = g[n]
    <3>1. n \in Deep(k + 1)
      BY <1>1
    <3> HIDE DEF Deep
    <3> QED
      BY <2>1, <3>1
  <2>3. ASSUME NEW n \in Deep(k + 1) PROVE MatchAt(t, segs, f, n) = MatchAt(t, segs, g, n)
    <3> HIDE DEF f
    <3>1. CASE Len(n) > Len(segs)
      BY <3>1 DEF MatchAt
    <3>2. CASE ~(Len(n) > Len(segs))
      <4>1. Len(n) \in 1 .. Len(segs) /\ n \in Places
        BY <1>1, <3>2
      <4>2. segs[Len(n)] \in Label /\ ":" \in Label
        BY <4>1, ElementOfSeq DEF Label
      <4>3. ASSUME NEW x \in {segs[Len(n)], ":"}, Append(n, x) \in t.nodes
            PROVE  Append(n, x) \in Deep(k)
        <5>1. Len(Append(n, x)) = Len(n) + 1
          BY <4>1, <4>2, ChildIs
        <5>2. Len(n) + (k + 1) > Len(segs)
          OBVIOUS
        <5>3. Len(Append(n, x)) + k > Len(segs)
          BY <1>1, <4>1, <5>1, <5>2
        <5> QED
          BY <4>3, <5>3
      <4> HIDE DEF Deep
      <4>4. \A x \in {segs[Len(n)], ":"} :
               Append(n, x) \in t.nodes => f[Append(n, x)] = g[Append(n, x)]
        BY <2>2, <4>3
      <4> QED
        BY <4>4, MatchLocal
    <3> QED
      BY <3>1, <3>2
  <2>4. f = [n \in Deep(k + 1) |-> MatchAt(t, segs, f, n)]
    <3> HIDE DEF Deep
    <3> QED
      BY <2>3
  <2>5. Solves(f, k + 1)
    BY <2>4
  <2> HIDE DEF f, Solves
  <2> QED
    BY <2>5
<1>4. Len(segs) \in X
  <2> HIDE DEF X
  <2>1. Nat \subseteq X
    BY <1>2, <1>3, Induction
  <2> QED
    BY <1>1, <2>1
<1>5. Deep(Len(segs)) = t.nodes
  BY <1>1
<1>6. \E g : g = [n \in t.nodes |-> MatchAt(t, segs, g, n)]
  <2>1. PICK g : Solves(g, Len(segs))
    BY <1>4
  <2> HIDE DEF Deep
  <2> QED
    BY <1>5, <2>1
<1>7. Match(t, segs) = CHOOSE g : g = [n \in t.nodes |-> MatchAt(t, segs, g, n)]
  BY DEF Match
<1>8. Match(t, segs) = [n \in t.nodes |-> MatchAt(t, segs, Match(t, segs), n)]
  BY <1>6, <1>7
<1> HIDE DEF Deep
<1> QED
  BY <1>8

(* What match has at a node, by what it has at the two nodes below. *)
Outcome(t, segs, f, n, lit, par) ==
    /\ Len(n) > Len(segs) => f[n].h = t.handler[n] /\ f[n].set = <<>>
    /\ Len(n) <= Len(segs) =>
          \/ lit \in t.nodes /\ f[lit].h # None /\ f[n] = f[lit]
          \/ /\ lit \in t.nodes => f[lit].h = None
             /\ par \in t.nodes
             /\ f[n].h = f[par].h
             /\ f[n].set = (IF lit \in t.nodes THEN f[lit].set ELSE <<>>)
                           \o <<<<t.pname[par], Decode[segs[Len(n)]]>>>> \o f[par].set
          \/ /\ lit \in t.nodes => f[lit].h = None
             /\ par \notin t.nodes
             /\ f[n] = IF lit \in t.nodes THEN f[lit] ELSE Miss

(* match takes the literal child if it leads to a handler, else the       *)
(* parameter if there is one, and keeps what both have assigned.           *)
LEMMA MatchCases ==
    ASSUME NEW t, t.nodes \subseteq Places, NEW segs \in Seq(Word), NEW n \in t.nodes
    PROVE  Outcome(t, segs, Match(t, segs), n, Append(n, segs[Len(n)]), Append(n, ":"))
<1> DEFINE f == Match(t, segs)
           lit == Append(n, segs[Len(n)])
           par == Append(n, ":")
           found == IF lit \in t.nodes THEN f[lit] ELSE Miss
<1>1. f[n] = IF Len(n) > Len(segs) THEN [Miss EXCEPT !.h = t.handler[n]]
             ELSE IF found.h = None /\ par \in t.nodes
             THEN [h   |-> f[par].h,
                   set |-> found.set \o <<<<t.pname[par], Decode[segs[Len(n)]]>>>> \o f[par].set]
             ELSE found
  <2>1. f[n] = MatchAt(t, segs, f, n)
    BY MatchIs
  <2> HIDE DEF f
  <2> QED
    BY <2>1 DEF MatchAt, TriesParam, Value
<1>2. Miss.h = None /\ Miss.set = <<>> /\ [Miss EXCEPT !.h = t.handler[n]].h = t.handler[n]
      /\ [Miss EXCEPT !.h = t.handler[n]].set = <<>>
  BY DEF Miss
<1>3. Len(n) \in Nat /\ Len(segs) \in Nat
  BY PlaceIs, LenProperties
<1> DEFINE set == found.set \o <<<<t.pname[par], Decode[segs[Len(n)]]>>>> \o f[par].set
           Out == Outcome(t, segs, f, n, lit, par)
<1>4. found = IF lit \in t.nodes THEN f[lit] ELSE Miss
  OBVIOUS
<1>5. set = (IF lit \in t.nodes THEN f[lit].set ELSE <<>>)
            \o <<<<t.pname[par], Decode[segs[Len(n)]]>>>> \o f[par].set
  <2>1. found.set = IF lit \in t.nodes THEN f[lit].set ELSE <<>>
    BY <1>2
  <2> HIDE DEF found, lit, par, f
  <2> QED
    BY <2>1
<1>6. Out <=> Outcome(t, segs, f, n, lit, par)
  OBVIOUS
<1>7. ASSUME Len(n) > Len(segs) PROVE Out
  <2>1. f[n] = [Miss EXCEPT !.h = t.handler[n]]
    BY <1>1, <1>7
  <2>2. f[n].h = t.handler[n] /\ f[n].set = <<>> /\ ~(Len(n) <= Len(segs))
    BY <1>2, <1>3, <1>7, <2>1
  <2> HIDE DEF found, lit, par, f, Out
  <2> QED
    BY <1>6, <2>2 DEF Outcome
<1>8. ASSUME ~(Len(n) > Len(segs)) /\ found.h = None /\ par \in t.nodes PROVE Out
  <2>1. f[n] = [h |-> f[par].h, set |-> set]
    BY <1>1, <1>8
  <2> HIDE DEF set
  <2>2. f[n].h = f[par].h /\ f[n].set = set
    BY <2>1
  <2> HIDE DEF found, lit, par, f, Out
  <2> QED
    BY <1>4, <1>5, <1>6, <1>8, <2>2 DEF Outcome
<1>9. ASSUME ~(Len(n) > Len(segs)) /\ ~(found.h = None /\ par \in t.nodes) PROVE Out
  <2>1. f[n] = found
    BY <1>1, <1>9
  <2> HIDE DEF found, lit, par, f, Out
  <2> QED
    BY <1>2, <1>4, <1>6, <1>9, <2>1 DEF Outcome
<1>10. Out
  <2> HIDE DEF found, Out
  <2> QED
    BY <1>7, <1>8, <1>9
<1> QED
  BY <1>10

(* Induction from the deepest nodes up, with a set for what is proved.     *)
LEMMA FromTheLeaves ==
    ASSUME NEW S, S \subseteq Places, NEW D \in Nat, NEW X,
           \A n \in S : Len(n) <= D /\ (\A m \in S : Len(m) = Len(n) + 1 /\ Len(m) <= D => m \in X)
                          => n \in X
    PROVE  \A n \in S : Len(n) <= D => n \in X
<1> DEFINE Y == {k \in Nat : \A n \in S : Len(n) <= D /\ Len(n) + k >= D => n \in X}
<1>1. \A n \in S : Len(n) \in Nat
  BY PlaceIs
<1>2. 0 \in Y
  <2> SUFFICES ASSUME NEW n \in S, Len(n) <= D, Len(n) + 0 >= D PROVE n \in X
    OBVIOUS
  <2>1. \A m \in S : ~(Len(m) = Len(n) + 1 /\ Len(m) <= D)
    BY <1>1
  <2> QED
    BY <2>1
<1>3. ASSUME NEW k \in Nat, k \in Y PROVE k + 1 \in Y
  <2> SUFFICES ASSUME NEW n \in S, Len(n) <= D, Len(n) + (k + 1) >= D PROVE n \in X
    OBVIOUS
  <2>1. ASSUME NEW m \in S, Len(m) = Len(n) + 1, Len(m) <= D PROVE m \in X
    <3>1. Len(m) + k >= D
      BY <1>1, <2>1
    <3> QED
      BY <1>3, <2>1, <3>1
  <2> QED
    BY <2>1
<1>4. Nat \subseteq Y
  <2> HIDE DEF Y
  <2> QED
    BY <1>2, <1>3, Induction
<1>5. D \in Y
  BY <1>4
<1> QED
  BY <1>1, <1>5

-----------------------------------------------------------------------------
(* n is on the way to q. *)
Starts(n, q) == Len(n) <= Len(q) /\ \A l \in 1 .. Len(n) : q[l] = n[l]

(* Every node on the way to a node is there. *)
Closed(t) == t.nodes \subseteq Places /\ \A q \in t.nodes, n \in Places : Starts(n, q) => n \in t.nodes

(* The nodes below n with a handler that take the rest of the path. *)
Leads(t, segs, n) ==
    {q \in t.nodes :
       /\ Len(q) = Len(segs) + 1 /\ Starts(n, q) /\ t.handler[q] # None
       /\ \A l \in Len(n) .. Len(segs) : q[l + 1] \in {segs[l], ":"}}

(* q is literal where the two first differ. *)
First(q, r) == \E l \in DOMAIN q : /\ q[l] # ":" /\ r[l] = ":"
                                   /\ \A j \in 1 .. l - 1 : q[j] = r[j]

(* The nodes n leads to are those its literal child leads to, which come   *)
(* first, and those its parameter leads to.                                *)
Splits(t, segs, n, lit, par) ==
    /\ \A q \in Leads(t, segs, n) :
          \/ lit \in t.nodes /\ q \in Leads(t, segs, lit)
          \/ par \in t.nodes /\ q \in Leads(t, segs, par)
    /\ Leads(t, segs, lit) \cup Leads(t, segs, par) \subseteq Leads(t, segs, n)
    /\ \A q \in Leads(t, segs, lit), r \in Leads(t, segs, par) : First(q, r)

(* Both children's nodes are there, and no other is. *)
LEMMA LeadsSplit ==
    ASSUME NEW t, Closed(t), NEW segs \in Seq(Word), NEW n \in t.nodes, Len(n) <= Len(segs)
    PROVE  Splits(t, segs, n, Append(n, segs[Len(n)]), Append(n, ":"))
<1> DEFINE lit == Append(n, segs[Len(n)])
           par == Append(n, ":")
<1>1. /\ n \in Places /\ Len(n) \in Nat /\ Len(segs) \in Nat /\ Len(n) >= 1
      /\ segs[Len(n)] \in Word /\ segs[Len(n)] # ":"
  BY PlaceIs, LenProperties, ElementOfSeq, RouterAssumption DEF Closed
<1>2. /\ lit \in Places /\ Len(lit) = Len(n) + 1 /\ lit[Len(n) + 1] = segs[Len(n)]
      /\ \A l \in 1 .. Len(n) : lit[l] = n[l]
      /\ par \in Places /\ Len(par) = Len(n) + 1 /\ par[Len(n) + 1] = ":"
      /\ \A l \in 1 .. Len(n) : par[l] = n[l]
  BY <1>1, ChildIs DEF Label
<1> HIDE DEF lit, par
<1>3. ASSUME NEW q \in Leads(t, segs, n)
      PROVE  \/ lit \in t.nodes /\ q \in Leads(t, segs, lit)
             \/ par \in t.nodes /\ q \in Leads(t, segs, par)
  <2>1. /\ q \in t.nodes /\ Len(q) = Len(segs) + 1 /\ t.handler[q] # None
        /\ \A l \in 1 .. Len(n) : q[l] = n[l]
        /\ \A l \in Len(n) .. Len(segs) : q[l + 1] \in {segs[l], ":"}
    BY DEF Leads, Starts
  <2>2. q[Len(n) + 1] \in {segs[Len(n)], ":"}
    BY <1>1, <2>1
  <2>3. ASSUME NEW x \in {lit, par}, q[Len(n) + 1] = x[Len(n) + 1]
        PROVE  x \in t.nodes /\ q \in Leads(t, segs, x)
    <3>1. x \in Places /\ Len(x) = Len(n) + 1 /\ \A l \in 1 .. Len(n) : x[l] = n[l]
      BY <1>2
    <3>2. \A l \in 1 .. Len(x) : q[l] = x[l]
      BY <1>1, <2>1, <2>3, <3>1
    <3>3. Starts(x, q)
      BY <1>1, <2>1, <3>1, <3>2 DEF Starts
    <3>4. x \in t.nodes
      BY <2>1, <3>1, <3>3 DEF Closed
    <3>5. \A l \in Len(x) .. Len(segs) : q[l + 1] \in {segs[l], ":"}
      BY <1>1, <2>1, <3>1
    <3> QED
      BY <2>1, <3>3, <3>4, <3>5 DEF Leads
  <2> QED
    BY <1>2, <2>2, <2>3
<1>4. ASSUME NEW x \in {lit, par}, NEW q \in Leads(t, segs, x)
      PROVE  q \in Leads(t, segs, n) /\ q[Len(n) + 1] = x[Len(n) + 1] /\ \A l \in 1 .. Len(n) : q[l] = n[l]
  <2>1. /\ Len(x) = Len(n) + 1 /\ x[Len(n) + 1] \in {segs[Len(n)], ":"}
        /\ \A l \in 1 .. Len(n) : x[l] = n[l]
    BY <1>2
  <2>2. /\ q \in t.nodes /\ Len(q) = Len(segs) + 1 /\ t.handler[q] # None
        /\ Len(x) <= Len(q) /\ \A l \in 1 .. Len(x) : q[l] = x[l]
        /\ \A l \in Len(x) .. Len(segs) : q[l + 1] \in {segs[l], ":"}
    BY DEF Leads, Starts
  <2>3. q[Len(n) + 1] = x[Len(n) + 1] /\ \A l \in 1 .. Len(n) : q[l] = n[l]
    BY <1>1, <2>1, <2>2
  <2>4. \A l \in Len(n) .. Len(segs) : q[l + 1] \in {segs[l], ":"}
    BY <1>1, <2>1, <2>2, <2>3
  <2>5. Starts(n, q)
    BY <1>1, <2>2, <2>3 DEF Starts
  <2> QED
    BY <2>2, <2>3, <2>4, <2>5 DEF Leads
<1>5. ASSUME NEW q \in Leads(t, segs, lit), NEW r \in Leads(t, segs, par) PROVE First(q, r)
  <2>1. /\ q[Len(n) + 1] # ":" /\ r[Len(n) + 1] = ":"
        /\ \A l \in 1 .. (Len(n) + 1) - 1 : q[l] = r[l]
    BY <1>1, <1>2, <1>4
  <2>2. Len(n) + 1 \in DOMAIN q
    <3>1. q \in Places /\ Len(q) = Len(segs) + 1
      BY DEF Leads, Closed
    <3>2. DOMAIN q = 1 .. Len(q)
      BY <3>1, LenProperties DEF Places
    <3> QED
      BY <1>1, <3>1, <3>2
  <2> QED
    BY <2>1, <2>2 DEF First
<1>6. Splits(t, segs, n, lit, par)
  BY <1>3, <1>4, <1>5 DEF Splits
<1> QED
  BY <1>6 DEF lit, par

(* The search finds the first of the nodes that take the path, or none if  *)
(* there is none.                                                          *)
Finds(t, segs, f, n) ==
    \/ Leads(t, segs, n) = {} /\ f[n].h = None
    \/ \E q \in Leads(t, segs, n) :
          f[n].h = t.handler[q] /\ \A r \in Leads(t, segs, n) \ {q} : First(q, r)

(* match finds the first handler, at every node it may search.             *)
LEMMA MatchFinds ==
    ASSUME NEW t, Closed(t), NEW segs \in Seq(Word)
    PROVE  \A n \in t.nodes : Len(n) <= Len(segs) + 1 => Finds(t, segs, Match(t, segs), n)
<1> DEFINE f == Match(t, segs)
           X == {n \in t.nodes : Finds(t, segs, f, n)}
<1>1. Len(segs) \in Nat /\ t.nodes \subseteq Places /\ \A n \in t.nodes : Len(n) \in Nat
  BY PlaceIs, LenProperties DEF Closed
<1>2. ASSUME NEW n \in t.nodes, Len(n) <= Len(segs) + 1,
             \A m \in t.nodes : Len(m) = Len(n) + 1 /\ Len(m) <= Len(segs) + 1 => m \in X
      PROVE  Finds(t, segs, f, n)
  <2>1. CASE Len(n) = Len(segs) + 1
    <3>1. f[n].h = t.handler[n]
      <4>1. Outcome(t, segs, f, n, Append(n, segs[Len(n)]), Append(n, ":"))
        BY <1>1, MatchCases
      <4> HIDE DEF f
      <4> QED
        BY <1>1, <2>1, <4>1 DEF Outcome
    <3>2. \A q \in Leads(t, segs, n) : q = n
      <4> SUFFICES ASSUME NEW q \in Leads(t, segs, n) PROVE q = n
        OBVIOUS
      <4>1. q \in t.nodes /\ Len(q) = Len(n) /\ \A l \in 1 .. Len(n) : q[l] = n[l]
        BY <2>1 DEF Leads, Starts
      <4>2. q \in Seq(Label) /\ n \in Seq(Label)
        BY <1>1, <4>1 DEF Places
      <4> QED
        BY <4>1, <4>2, SeqEqual
    <3>3. t.handler[n] # None => n \in Leads(t, segs, n)
      BY <1>1, <2>1 DEF Leads, Starts
    <3>4. \A q \in Leads(t, segs, n) : t.handler[q] # None
      BY DEF Leads
    <3> HIDE DEF f
    <3> QED
      BY <3>1, <3>2, <3>3, <3>4 DEF Finds
  <2>2. CASE Len(n) <= Len(segs)
    <3> DEFINE lit == Append(n, segs[Len(n)])
               par == Append(n, ":")
    <3>1. /\ \A q \in Leads(t, segs, n) :
                 \/ lit \in t.nodes /\ q \in Leads(t, segs, lit)
                 \/ par \in t.nodes /\ q \in Leads(t, segs, par)
          /\ Leads(t, segs, lit) \cup Leads(t, segs, par) \subseteq Leads(t, segs, n)
          /\ \A q \in Leads(t, segs, lit), r \in Leads(t, segs, par) : First(q, r)
      BY <2>2, LeadsSplit DEF Splits
    <3>2. \/ lit \in t.nodes /\ f[lit].h # None /\ f[n].h = f[lit].h
          \/ (lit \in t.nodes => f[lit].h = None) /\ par \in t.nodes /\ f[n].h = f[par].h
          \/ (lit \in t.nodes => f[lit].h = None) /\ par \notin t.nodes /\ f[n].h = None
      <4>1. Miss.h = None
        BY DEF Miss
      <4>2. Outcome(t, segs, f, n, lit, par)
        BY <1>1, MatchCases
      <4> HIDE DEF f, lit, par
      <4> QED
        BY <2>2, <4>1, <4>2 DEF Outcome
    <3>3. Len(lit) = Len(n) + 1 /\ Len(par) = Len(n) + 1
      <4>1. n \in Places /\ segs[Len(n)] \in Label /\ ":" \in Label
        <5>1. Len(n) \in 1 .. Len(segs)
          BY <1>1, <2>2, PlaceIs
        <5> QED
          BY <1>1, <5>1, ElementOfSeq DEF Label
      <4> QED
        BY <4>1, ChildIs
    <3>4. /\ lit \in t.nodes => Finds(t, segs, f, lit)
          /\ par \in t.nodes => Finds(t, segs, f, par)
      <4>1. /\ lit \in t.nodes => lit \in X
            /\ par \in t.nodes => par \in X
        <5> HIDE DEF f, lit, par, X
        <5> QED
          BY <1>1, <1>2, <2>2, <3>3
      <4> QED
        BY <4>1
    <3>5. \A q \in Leads(t, segs, lit) \cup Leads(t, segs, par) : t.handler[q] # None
      BY DEF Leads
    <3> HIDE DEF f, lit, par
    <3>6. CASE lit \in t.nodes /\ f[lit].h # None /\ f[n].h = f[lit].h
      <4>1. PICK q \in Leads(t, segs, lit) :
               f[lit].h = t.handler[q] /\ \A r \in Leads(t, segs, lit) \ {q} : First(q, r)
        BY <3>4, <3>6 DEF Finds
      <4>2. \A r \in Leads(t, segs, n) \ {q} : First(q, r)
        BY <3>1, <4>1
      <4> QED
        BY <3>1, <3>6, <4>1, <4>2 DEF Finds
    <3>7. CASE (lit \in t.nodes => f[lit].h = None) /\ par \in t.nodes /\ f[n].h = f[par].h
      <4>1. lit \in t.nodes => Leads(t, segs, lit) = {}
        BY <3>4, <3>5, <3>7 DEF Finds
      <4>2. Leads(t, segs, n) = Leads(t, segs, par)
        BY <3>1, <4>1
      <4> QED
        BY <3>4, <3>7, <4>2 DEF Finds
    <3>8. CASE (lit \in t.nodes => f[lit].h = None) /\ par \notin t.nodes /\ f[n].h = None
      <4>1. lit \in t.nodes => Leads(t, segs, lit) = {}
        BY <3>4, <3>5, <3>8 DEF Finds
      <4>2. Leads(t, segs, n) = {}
        BY <3>1, <3>8, <4>1
      <4> QED
        BY <3>8, <4>2 DEF Finds
    <3> QED
      BY <3>2, <3>6, <3>7, <3>8
  <2> QED
    BY <1>1, <1>2, <2>1, <2>2
<1>3. \A n \in t.nodes : Len(n) <= Len(segs) + 1 => n \in X
  <2>1. Len(segs) + 1 \in Nat
    BY <1>1
  <2>2. \A n \in t.nodes :
           Len(n) <= Len(segs) + 1
           /\ (\A m \in t.nodes : Len(m) = Len(n) + 1 /\ Len(m) <= Len(segs) + 1 => m \in X)
              => n \in X
    BY <1>2
  <2> HIDE DEF X
  <2> QED
    BY <1>1, <2>1, <2>2, FromTheLeaves
<1> QED
  BY <1>3

-----------------------------------------------------------------------------
(* A node of a pattern has its method and the texts on the way. *)
LEMMA NodeIs ==
    ASSUME NEW m \in Method, NEW p \in Seq(Segment), NEW i \in 0 .. Len(p), NEW n, n = Node(m, p, i)
    PROVE  /\ n \in Places /\ Len(n) = i + 1 /\ n[1] = m
           /\ \A j \in 1 .. i : n[j + 1] = p[j].text
<1> DEFINE s == [j \in 1 .. i |-> p[j].text]
<1>1. i \in Nat /\ Len(p) \in Nat /\ \A j \in 1 .. i : p[j].text \in Label
  <2>1. Len(p) \in Nat
    BY LenProperties
  <2>2. ASSUME NEW j \in 1 .. i PROVE p[j].text \in Label
    <3>1. p[j] \in Segment
      BY <2>1, ElementOfSeq
    <3> QED
      BY <3>1 DEF Segment, Label
  <2> QED
    BY <2>1, <2>2
<1>2. s \in Seq(Label) /\ Len(s) = i
  <2>1. s \in [1 .. i -> Label]
    BY <1>1
  <2> HIDE DEF s
  <2> QED
    BY <1>1, <2>1, LenProperties, SeqDef
<1>3. \A j \in 1 .. i : s[j] = p[j].text
  OBVIOUS
<1>4. <<m>> \in Seq(Label) /\ Len(<<m>>) = 1 /\ <<m>>[1] = m
  BY DEF Label
<1>5. n = <<m>> \o s
  BY DEF Node
<1> HIDE DEF s
<1>6. /\ n \in Seq(Label) /\ Len(n) = 1 + i
      /\ \A j \in 1 .. 1 + i : n[j] = IF j <= 1 THEN m ELSE s[j - 1]
  BY <1>1, <1>2, <1>4, <1>5, ConcatProperties
<1>7. n # <<>>
  BY <1>1, <1>6, EmptySeq
<1>8. n[1] = m /\ \A j \in 1 .. i : n[j + 1] = s[j]
  BY <1>1, <1>6
<1> QED
  BY <1>1, <1>3, <1>6, <1>7, <1>8 DEF Places

(* Places with the same labels are the same. *)
LEMMA NodesAre ==
    ASSUME NEW q \in Places, NEW n \in Places, Len(n) = Len(q), \A l \in 1 .. Len(n) : q[l] = n[l]
    PROVE  n = q
<1>1. n \in Seq(Label) /\ q \in Seq(Label)
  BY DEF Places
<1> QED
  BY <1>1, SeqEqual

(* What is on the way to a node of a pattern is a node of the pattern. *)
LEMMA PathClosed ==
    ASSUME NEW m \in Method, NEW p \in Seq(Segment), NEW i \in 0 .. Len(p),
           NEW n \in Places, Starts(n, Node(m, p, i))
    PROVE  Len(n) - 1 \in 0 .. i /\ n = Node(m, p, Len(n) - 1)
<1> DEFINE q == Node(m, p, i)
           r == Node(m, p, Len(n) - 1)
<1>1. Len(p) \in Nat /\ Len(n) \in Nat /\ Len(n) >= 1 /\ i \in Nat
  BY PlaceIs, LenProperties
<1>2. /\ Len(q) = i + 1 /\ q[1] = m
      /\ \A j \in 1 .. i : q[j + 1] = p[j].text
  BY NodeIs
<1>3. Len(n) <= i + 1 /\ \A l \in 1 .. Len(n) : q[l] = n[l]
  BY <1>2 DEF Starts
<1>4. Len(n) - 1 \in 0 .. Len(p)
  BY <1>1, <1>3
<1>5. /\ r \in Places /\ Len(r) = (Len(n) - 1) + 1 /\ r[1] = m
      /\ \A j \in 1 .. Len(n) - 1 : r[j + 1] = p[j].text
  BY <1>4, NodeIs
<1> HIDE DEF q, r
<1>6. ASSUME NEW l \in 1 .. Len(n) PROVE r[l] = n[l]
  <2>1. CASE l = 1
    BY <1>2, <1>3, <1>5, <2>1
  <2>2. CASE l # 1
    <3>1. l - 1 \in 1 .. Len(n) - 1 /\ l - 1 \in 1 .. i /\ (l - 1) + 1 = l
      BY <1>1, <1>3, <2>2
    <3>2. r[(l - 1) + 1] = p[l - 1].text /\ q[(l - 1) + 1] = p[l - 1].text
      BY <1>2, <1>5, <3>1
    <3> QED
      BY <1>3, <3>1, <3>2
  <2> QED
    BY <2>1, <2>2
<1>7. Len(r) = Len(n)
  BY <1>1, <1>5
<1>8. n = r
  BY <1>5, <1>6, <1>7, NodesAre
<1> QED
  BY <1>1, <1>3, <1>8 DEF r

-----------------------------------------------------------------------------
(* The node that takes the handler of a route. *)
Whole(r) == Node(r.method, r.pattern, Len(r.pattern))

(* r and s are the same but for names. *)
LEMMA WholeIs ==
    ASSUME NEW r, r \in [method : Method, pattern : Seq(Segment)],
           NEW s, s \in [method : Method, pattern : Seq(Segment)]
    PROVE  Whole(r) = Whole(s) <=> r.method = s.method /\ Shape(r) = Shape(s)
<1>1. /\ r.method \in Method /\ r.pattern \in Seq(Segment) /\ Len(r.pattern) \in Nat
      /\ s.method \in Method /\ s.pattern \in Seq(Segment) /\ Len(s.pattern) \in Nat
      /\ DOMAIN r.pattern = 1 .. Len(r.pattern) /\ DOMAIN s.pattern = 1 .. Len(s.pattern)
  <2>1. r.pattern \in Seq(Segment) /\ s.pattern \in Seq(Segment) /\ r.method \in Method /\ s.method \in Method
    OBVIOUS
  <2> QED
    BY <2>1, LenProperties
<1> DEFINE q == Whole(r)
           w == Whole(s)
<1>2. /\ q \in Places /\ Len(q) = Len(r.pattern) + 1 /\ q[1] = r.method
      /\ \A j \in 1 .. Len(r.pattern) : q[j + 1] = r.pattern[j].text
  BY <1>1, NodeIs DEF Whole
<1>3. /\ w \in Places /\ Len(w) = Len(s.pattern) + 1 /\ w[1] = s.method
      /\ \A j \in 1 .. Len(s.pattern) : w[j + 1] = s.pattern[j].text
  BY <1>1, NodeIs DEF Whole
<1>4. Shape(r) = [j \in 1 .. Len(r.pattern) |-> r.pattern[j].text]
  BY <1>1 DEF Shape
<1>5. Shape(s) = [j \in 1 .. Len(s.pattern) |-> s.pattern[j].text]
  BY <1>1 DEF Shape
<1> HIDE DEF q, w
<1>6. ASSUME q = w PROVE r.method = s.method /\ Shape(r) = Shape(s)
  <2>1. r.method = s.method /\ Len(r.pattern) = Len(s.pattern)
    BY <1>1, <1>2, <1>3, <1>6
  <2>2. \A j \in 1 .. Len(r.pattern) : r.pattern[j].text = s.pattern[j].text
    BY <1>2, <1>3, <1>6, <2>1
  <2> QED
    BY <1>4, <1>5, <2>1, <2>2
<1>7. ASSUME r.method = s.method, Shape(r) = Shape(s) PROVE q = w
  <2>1. Len(r.pattern) = Len(s.pattern)
    <3>1. 1 .. Len(r.pattern) = 1 .. Len(s.pattern)
      BY <1>4, <1>5, <1>7
    <3> QED
      BY <1>1, <3>1
  <2>2. ASSUME NEW j \in 1 .. Len(r.pattern) PROVE r.pattern[j].text = s.pattern[j].text
    <3>1. Shape(r)[j] = r.pattern[j].text /\ Shape(s)[j] = s.pattern[j].text
      BY <1>4, <1>5, <2>1
    <3> QED
      BY <1>7, <3>1
  <2>3. ASSUME NEW l \in 1 .. Len(q) PROVE q[l] = w[l]
    <3>1. CASE l = 1
      BY <1>2, <1>3, <1>7, <3>1
    <3>2. CASE l # 1
      <4>1. l - 1 \in 1 .. Len(r.pattern) /\ l = (l - 1) + 1
        BY <1>1, <1>2, <3>2
      <4> QED
        BY <1>2, <1>3, <2>1, <2>2, <4>1
    <3> QED
      BY <3>1, <3>2
  <2> QED
    BY <1>2, <1>3, <2>1, <2>3, NodesAre
<1> QED
  BY <1>6, <1>7 DEF q, w

-----------------------------------------------------------------------------
Routes == [method : Method, pattern : Patterns]

(* No route added later has the same node. *)
Newest(i) == \A j \in i + 1 .. Len(added) : Whole(added[j]) # Whole(added[i])

(* Each handler is at the node of its pattern, unless one added later took *)
(* its place; each parameter node has the name of a pattern that uses it.  *)
HandlersOK ==
    /\ \A i \in DOMAIN added : /\ Whole(added[i]) \in tree.nodes
                               /\ tree.handler[Whole(added[i])] = i <=> Newest(i)
    /\ \A q \in tree.nodes :
          tree.handler[q] # None => /\ tree.handler[q] \in DOMAIN added
                                    /\ Whole(added[tree.handler[q]]) = q

NamesOK ==
    \A n \in tree.nodes : Len(n) > 1 =>
       \E i \in DOMAIN added :
          /\ Len(n) - 1 \in 1 .. Len(added[i].pattern)
          /\ n = Node(added[i].method, added[i].pattern, Len(n) - 1)
          /\ tree.pname[n] = added[i].pattern[Len(n) - 1].name

(* The tree is the list of routes. *)
TreeOK == added \in Seq(Routes) /\ Closed(tree) /\ HandlersOK /\ NamesOK

(* What a route of a list of routes is made of. *)
LEMMA RouteIs ==
    ASSUME NEW s \in Seq(Routes), NEW i \in DOMAIN s
    PROVE  /\ i \in Nat /\ i \in 1 .. Len(s) /\ s[i] \in Routes
           /\ s[i] \in [method : Method, pattern : Seq(Segment)]
           /\ s[i].method \in Method /\ s[i].pattern \in Seq(Segment)
           /\ Len(s[i].pattern) \in Nat /\ DOMAIN s[i].pattern = 1 .. Len(s[i].pattern)
<1>1. DOMAIN s = 1 .. Len(s) /\ Len(s) \in Nat
  BY LenProperties
<1>2. s[i] \in Routes
  BY <1>1, ElementOfSeq
<1>3. Patterns \subseteq Seq(Segment)
  BY RequestsAssumption
<1>4. s[i].method \in Method /\ s[i].pattern \in Seq(Segment) /\ s[i] \in [method : Method, pattern : Seq(Segment)]
  BY <1>2, <1>3 DEF Routes
<1>5. Len(s[i].pattern) \in Nat /\ DOMAIN s[i].pattern = 1 .. Len(s[i].pattern)
  BY <1>4, LenProperties
<1> QED
  BY <1>1, <1>2, <1>4, <1>5

(* An empty tree stands for no routes. *)
LEMMA TreeStarts == Init => TreeOK
<1> SUFFICES ASSUME Init PROVE TreeOK
  OBVIOUS
<1>1. added = <<>> /\ tree.nodes = {}
  BY DEF Init, EmptyTree
<1>2. added \in Seq(Routes) /\ DOMAIN added = {}
  BY <1>1
<1> QED
  BY <1>1, <1>2 DEF TreeOK, Closed, HandlersOK, NamesOK

(* addRoute keeps the tree what the list of routes calls for. *)
LEMMA AddKeepsTree ==
    ASSUME TreeOK, NEW m \in Method, NEW p \in Patterns, AddARoute(m, p)
    PROVE  TreeOK'
<1> DEFINE r == [method |-> m, pattern |-> p]
           L == Len(added)
           w == Node(m, p, Len(p))
           all == tree.nodes \cup Path(m, p)
<1>1. /\ added' = Append(added, r) /\ added \in Seq(Routes) /\ r \in Routes
      /\ p \in Seq(Segment) /\ Len(p) \in Nat /\ L \in Nat
  <2>1. added' = Append(added, r) /\ added \in Seq(Routes) /\ r \in Routes
    BY DEF AddARoute, TreeOK, Routes
  <2>2. p \in Seq(Segment)
    BY RequestsAssumption
  <2> QED
    BY <2>1, <2>2, LenProperties
<1>2. /\ tree'.nodes = all
      /\ \A n \in all : tree'.handler[n] = IF n = w THEN L + 1
                                           ELSE IF n \in tree.nodes THEN tree.handler[n] ELSE None
      /\ \A n \in all : tree'.pname[n] = IF n \in tree.nodes THEN tree.pname[n]
                                         ELSE IF Len(n) = 1 THEN "" ELSE p[Len(n) - 1].name
  BY DEF AddARoute, AddRoute
<1>3. /\ added' \in Seq(Routes) /\ Len(added') = L + 1 /\ added'[L + 1] = r
      /\ \A i \in 1 .. L : added'[i] = added[i]
      /\ DOMAIN added = 1 .. L /\ DOMAIN added' = 1 .. L + 1
  <2>1. /\ added' \in Seq(Routes) /\ Len(added') = L + 1 /\ added'[L + 1] = r
        /\ \A i \in 1 .. L : added'[i] = added[i]
    BY <1>1, AppendProperties
  <2> QED
    BY <1>1, <2>1, LenProperties
<1>4. Whole(r) = w /\ w \in Path(m, p)
  BY <1>1 DEF Whole, Path
<1>5. Closed(tree')
  <2>1. ASSUME NEW q \in Path(m, p)
        PROVE  q \in Places /\ \A n \in Places : Starts(n, q) => n \in Path(m, p)
    <3>1. PICK i \in 0 .. Len(p) : q = Node(m, p, i)
      BY <2>1 DEF Path
    <3>2. ASSUME NEW n \in Places, Starts(n, q) PROVE n \in Path(m, p)
      <4>1. Len(n) - 1 \in 0 .. i /\ n = Node(m, p, Len(n) - 1)
        BY <1>1, <3>1, <3>2, PathClosed
      <4>2. Len(n) - 1 \in 0 .. Len(p)
        BY <1>1, <4>1
      <4> QED
        BY <4>1, <4>2 DEF Path
    <3> QED
      BY <1>1, <3>1, <3>2, NodeIs
  <2>2. Closed(tree)
    BY DEF TreeOK
  <2> QED
    BY <1>2, <2>1, <2>2 DEF Closed
<1>6. \A i \in DOMAIN added : Whole(added[i]) \in tree.nodes
  BY DEF TreeOK, HandlersOK
<1>7. ASSUME NEW i \in DOMAIN added'
      PROVE  /\ Whole(added'[i]) \in tree'.nodes
             /\ tree'.handler[Whole(added'[i])] = i <=> Newest(i)'
  <2>1. CASE i = L + 1
    <3>1. \A j \in i + 1 .. Len(added') : FALSE
      BY <1>1, <1>3, <2>1
    <3>2. Newest(i)'
      BY <3>1 DEF Newest
    <3> HIDE DEF w, r, L
    <3> QED
      BY <1>2, <1>3, <1>4, <2>1, <3>2
  <2>2. CASE i # L + 1
    <3>1. i \in 1 .. L /\ i \in DOMAIN added /\ added'[i] = added[i]
      BY <1>1, <1>3, <1>7, <2>2
    <3>2. Whole(added[i]) \in tree.nodes /\ (tree.handler[Whole(added[i])] = i <=> Newest(i))
      BY <3>1 DEF TreeOK, HandlersOK
    <3>3. Newest(i)' <=> Newest(i) /\ w # Whole(added[i])
      <4>1. Newest(i)' <=> \A j \in i + 1 .. L + 1 : Whole(added'[j]) # Whole(added[i])
        BY <1>3, <3>1 DEF Newest
      <4>2. i + 1 .. L + 1 = (i + 1 .. L) \cup {L + 1}
        BY <1>1, <3>1
      <4>3. \A j \in i + 1 .. L : added'[j] = added[j]
        BY <1>1, <1>3, <3>1
      <4> HIDE DEF w, r
      <4> QED
        BY <1>3, <1>4, <4>1, <4>2, <4>3 DEF Newest
    <3> HIDE DEF w, r
    <3>4. CASE w = Whole(added[i])
      <4>1. tree'.handler[Whole(added[i])] = L + 1
        BY <1>2, <3>2, <3>4
      <4> QED
        BY <1>2, <2>2, <3>1, <3>2, <3>3, <3>4, <4>1
    <3>5. CASE w # Whole(added[i])
      <4>1. tree'.handler[Whole(added[i])] = tree.handler[Whole(added[i])]
        BY <1>2, <3>2, <3>5
      <4> QED
        BY <1>2, <3>1, <3>2, <3>3, <3>5, <4>1
    <3> QED
      BY <3>4, <3>5
  <2> QED
    BY <2>1, <2>2
<1>8. ASSUME NEW q \in tree'.nodes, tree'.handler[q] # None
      PROVE  tree'.handler[q] \in DOMAIN added' /\ Whole(added'[tree'.handler[q]]) = q
  <2>1. CASE q = w
    <3>1. tree'.handler[q] = L + 1
      BY <1>2, <2>1
    <3>2. L + 1 \in DOMAIN added'
      BY <1>1, <1>3
    <3> QED
      BY <1>3, <1>4, <2>1, <3>1, <3>2
  <2>2. CASE q # w
    <3>1. q \in tree.nodes /\ tree'.handler[q] = tree.handler[q] /\ tree.handler[q] # None
      BY <1>2, <1>8, <2>2
    <3>2. tree.handler[q] \in DOMAIN added /\ Whole(added[tree.handler[q]]) = q
      BY <3>1 DEF TreeOK, HandlersOK
    <3>3. tree.handler[q] \in DOMAIN added' /\ added'[tree.handler[q]] = added[tree.handler[q]]
      BY <1>1, <1>3, <3>2
    <3> QED
      BY <3>1, <3>2, <3>3
  <2> QED
    BY <2>1, <2>2
<1>9. ASSUME NEW n \in tree'.nodes, Len(n) > 1
      PROVE  \E i \in DOMAIN added' :
                /\ Len(n) - 1 \in 1 .. Len(added'[i].pattern)
                /\ n = Node(added'[i].method, added'[i].pattern, Len(n) - 1)
                /\ tree'.pname[n] = added'[i].pattern[Len(n) - 1].name
  <2>1. CASE n \in tree.nodes
    <3>1. tree'.pname[n] = tree.pname[n]
      BY <1>2, <2>1
    <3>2. PICK i \in DOMAIN added :
             /\ Len(n) - 1 \in 1 .. Len(added[i].pattern)
             /\ n = Node(added[i].method, added[i].pattern, Len(n) - 1)
             /\ tree.pname[n] = added[i].pattern[Len(n) - 1].name
      BY <1>9, <2>1 DEF TreeOK, NamesOK
    <3>3. i \in DOMAIN added' /\ added'[i] = added[i]
      BY <1>1, <1>3, <3>2
    <3> QED
      BY <3>1, <3>2, <3>3
  <2>2. CASE n \notin tree.nodes
    <3>1. PICK k \in 0 .. Len(p) : n = Node(m, p, k)
      BY <1>2, <2>2 DEF Path
    <3>2. Len(n) = k + 1
      BY <1>1, <3>1, NodeIs
    <3>3. Len(n) - 1 = k /\ k \in 1 .. Len(p) /\ Len(n) # 1
      BY <1>1, <1>9, <3>1, <3>2
    <3>4. tree'.pname[n] = p[k].name
      BY <1>2, <2>2, <3>3
    <3>5. L + 1 \in DOMAIN added' /\ added'[L + 1].method = m /\ added'[L + 1].pattern = p
      BY <1>1, <1>3
    <3> QED
      BY <3>1, <3>3, <3>4, <3>5
  <2> QED
    BY <2>1, <2>2
<1>10. HandlersOK'
  BY <1>7, <1>8 DEF HandlersOK
<1>11. NamesOK'
  BY <1>9 DEF NamesOK
<1> QED
  BY <1>3, <1>5, <1>10, <1>11 DEF TreeOK

-----------------------------------------------------------------------------
(* Fits of a request for m and segs. *)
FitsFor(m, segs, i) ==
    /\ added[i].method = m /\ Latest(i)
    /\ Len(added[i].pattern) = Len(segs)
    /\ \A k \in DOMAIN segs : added[i].pattern[k].text \in {":", segs[k]}

(* Above of a request for segs. *)
AboveFor(segs, i, j) ==
    \E k \in DOMAIN segs :
       /\ added[i].pattern[k].text # ":" /\ added[j].pattern[k].text = ":"
       /\ \A l \in 1 .. k - 1 : added[i].pattern[l].text = added[j].pattern[l].text

(* The node tells routes apart as method and shape do. *)
LEMMA NewestIsLatest ==
    ASSUME TreeOK, NEW i \in DOMAIN added
    PROVE  Newest(i) <=> Latest(i)
<1>1. added \in Seq(Routes) /\ i \in 1 .. Len(added) /\ DOMAIN added = 1 .. Len(added) /\ Len(added) \in Nat
  BY LenProperties DEF TreeOK
<1>2. ASSUME NEW j \in i + 1 .. Len(added)
      PROVE  Whole(added[j]) # Whole(added[i])
             <=> added[j].method # added[i].method \/ Shape(added[j]) # Shape(added[i])
  <2>1. j \in DOMAIN added
    BY <1>1
  <2>2. /\ added[i] \in [method : Method, pattern : Seq(Segment)]
        /\ added[j] \in [method : Method, pattern : Seq(Segment)]
    BY <1>1, <2>1, RouteIs
  <2> QED
    BY <2>2, WholeIs
<1> QED
  BY <1>2 DEF Newest, Latest

(* The routes that fit are the handlers of the nodes the root leads to. *)
LEMMA FitsLeads ==
    ASSUME TreeOK, NEW m \in Method, NEW segs \in Seq(Word), NEW i \in DOMAIN added, FitsFor(m, segs, i)
    PROVE  <<m>> \in tree.nodes /\ Whole(added[i]) \in Leads(tree, segs, <<m>>)
           /\ tree.handler[Whole(added[i])] = i
<1> DEFINE q == Whole(added[i])
           p == added[i].pattern
<1>1. /\ i \in Nat \ {0} /\ p \in Seq(Segment) /\ Len(p) \in Nat /\ added[i].method \in Method
      /\ DOMAIN segs = 1 .. Len(segs) /\ Len(segs) \in Nat /\ DOMAIN p = 1 .. Len(p)
  <2>1. added \in Seq(Routes)
    BY DEF TreeOK
  <2> QED
    BY <2>1, RouteIs, LenProperties
<1>2. /\ added[i].method = m /\ Len(p) = Len(segs)
      /\ \A k \in 1 .. Len(segs) : p[k].text \in {":", segs[k]}
  BY <1>1 DEF FitsFor
<1>3. /\ q \in Places /\ Len(q) = Len(p) + 1 /\ q[1] = m /\ \A j \in 1 .. Len(p) : q[j + 1] = p[j].text
  BY <1>1, <1>2, NodeIs DEF Whole
<1>4. q \in tree.nodes /\ tree.handler[q] = i
  <2>1. Newest(i)
    BY NewestIsLatest DEF FitsFor
  <2> QED
    BY <2>1 DEF TreeOK, HandlersOK
<1>5. <<m>> \in Places /\ Len(<<m>>) = 1 /\ <<m>>[1] = m
  BY DEF Places, Label
<1> HIDE DEF q, p
<1>6. Starts(<<m>>, q)
  BY <1>1, <1>3, <1>5 DEF Starts
<1>7. <<m>> \in tree.nodes
  BY <1>4, <1>5, <1>6 DEF TreeOK, Closed
<1>8. q \in Leads(tree, segs, <<m>>)
  <2>1. \A l \in Len(<<m>>) .. Len(segs) : q[l + 1] \in {segs[l], ":"}
    BY <1>1, <1>2, <1>3, <1>5
  <2>2. tree.handler[q] # None
    BY <1>1, <1>4 DEF None
  <2> QED
    BY <1>2, <1>3, <1>4, <1>6, <2>1, <2>2 DEF Leads
<1> QED
  BY <1>4, <1>7, <1>8 DEF q

(* And the nodes the root leads to are those of routes that fit. *)
LEMMA LeadsFit ==
    ASSUME TreeOK, NEW m \in Method, NEW segs \in Seq(Word), NEW q \in Leads(tree, segs, <<m>>)
    PROVE  /\ tree.handler[q] \in DOMAIN added /\ FitsFor(m, segs, tree.handler[q])
           /\ Whole(added[tree.handler[q]]) = q
<1> DEFINE i == tree.handler[q]
           p == added[i].pattern
<1>1. /\ q \in tree.nodes /\ i # None /\ Len(q) = Len(segs) + 1 /\ Starts(<<m>>, q)
      /\ \A l \in Len(<<m>>) .. Len(segs) : q[l + 1] \in {segs[l], ":"}
  BY DEF Leads
<1>2. /\ i \in DOMAIN added /\ Whole(added[i]) = q
  BY <1>1 DEF TreeOK, HandlersOK
<1>3. Newest(i)
  BY <1>2 DEF TreeOK, HandlersOK
<1>4. Latest(i)
  BY <1>2, <1>3, NewestIsLatest
<1>5. /\ p \in Seq(Segment) /\ Len(p) \in Nat /\ added[i].method \in Method
      /\ DOMAIN segs = 1 .. Len(segs) /\ Len(segs) \in Nat
  <2>1. added \in Seq(Routes)
    BY DEF TreeOK
  <2> QED
    BY <1>2, <2>1, RouteIs, LenProperties
<1> HIDE DEF i
<1>6. /\ Len(q) = Len(p) + 1 /\ q[1] = added[i].method /\ \A j \in 1 .. Len(p) : q[j + 1] = p[j].text
  <2>1. q = Node(added[i].method, p, Len(p)) /\ Len(p) \in 0 .. Len(p)
    BY <1>2, <1>5 DEF Whole
  <2> HIDE DEF p
  <2> QED
    BY <1>5, <2>1, NodeIs
<1> HIDE DEF p
<1>7. added[i].method = m
  BY <1>1, <1>6 DEF Starts
<1>8. Len(p) = Len(segs) /\ \A k \in DOMAIN segs : p[k].text \in {":", segs[k]}
  BY <1>1, <1>5, <1>6
<1>9. FitsFor(m, segs, i)
  BY <1>4, <1>7, <1>8 DEF FitsFor, p
<1> QED
  BY <1>2, <1>9 DEF i

(* The first of two nodes is the one of the more specific route. *)
LEMMA FirstIsAbove ==
    ASSUME TreeOK, NEW segs \in Seq(Word), NEW i \in DOMAIN added, NEW j \in DOMAIN added,
           Len(added[i].pattern) = Len(segs), Len(added[j].pattern) = Len(segs),
           added[i].method = added[j].method, First(Whole(added[i]), Whole(added[j]))
    PROVE  AboveFor(segs, i, j)
<1> DEFINE q == Whole(added[i])
           w == Whole(added[j])
           p == added[i].pattern
           s == added[j].pattern
<1>1. /\ p \in Seq(Segment) /\ s \in Seq(Segment) /\ Len(segs) \in Nat /\ DOMAIN segs = 1 .. Len(segs)
      /\ added[i].method \in Method /\ added[j].method \in Method
  <2>1. added \in Seq(Routes)
    BY DEF TreeOK
  <2> QED
    BY <2>1, RouteIs, LenProperties
<1>2. /\ q \in Places /\ Len(q) = Len(segs) + 1 /\ q[1] = added[i].method
      /\ \A l \in 1 .. Len(segs) : q[l + 1] = p[l].text
  BY <1>1, NodeIs DEF Whole
<1>3. /\ w \in Places /\ Len(w) = Len(segs) + 1 /\ w[1] = added[j].method
      /\ \A l \in 1 .. Len(segs) : w[l + 1] = s[l].text
  BY <1>1, NodeIs DEF Whole
<1>4. DOMAIN q = 1 .. Len(segs) + 1
  BY <1>2, LenProperties DEF Places
<1>5. First(q, w)
  OBVIOUS
<1> HIDE DEF q, w, p, s
<1>6. PICK l \in 1 .. Len(segs) + 1 : /\ q[l] # ":" /\ w[l] = ":" /\ \A x \in 1 .. l - 1 : q[x] = w[x]
  BY <1>4, <1>5 DEF First
<1>7. l # 1
  BY <1>2, <1>3, <1>6 DEF q, w
<1>8. l - 1 \in 1 .. Len(segs) /\ l = (l - 1) + 1
  BY <1>1, <1>7
<1>9. p[l - 1].text # ":" /\ s[l - 1].text = ":"
  BY <1>2, <1>3, <1>6, <1>8
<1>10. ASSUME NEW x \in 1 .. (l - 1) - 1 PROVE p[x].text = s[x].text
  <2>1. x \in 1 .. Len(segs) /\ x + 1 \in 1 .. l - 1
    BY <1>1, <1>8
  <2> QED
    BY <1>2, <1>3, <1>6, <2>1
<1> QED
  BY <1>1, <1>8, <1>9, <1>10 DEF AboveFor, p, s

(* What route() finds is what the list of routes calls for. *)
LEMMA RouteIsBest ==
    ASSUME TreeOK, NEW m \in Method, NEW segs \in Targets, RouteRequest(m, segs)
    PROVE  ChosenIsBest'
<1> DEFINE found == Route(tree, m, segs)
           n == <<m>>
<1>1. /\ request' = [is |-> "routed", method |-> m, segs |-> segs,
                     h |-> IF found.h = None /\ fallback THEN Default ELSE found.h, set |-> found.set]
      /\ added' = added /\ fallback' = fallback
  BY DEF RouteRequest
<1>2. /\ request'.method = m /\ request'.segs = segs
      /\ request'.h = IF found.h = None /\ fallback THEN Default ELSE found.h
  <2> HIDE DEF found
  <2> QED
    BY <1>1
<1>3. segs \in Seq(Word)
  BY RequestsAssumption
<1>4. \A i : Fits(i)' <=> FitsFor(m, segs, i)
  <2> SUFFICES ASSUME NEW i PROVE Fits(i)' <=> FitsFor(m, segs, i)
    OBVIOUS
  <2>1. Latest(i)' <=> Latest(i)
    BY ONLY <1>1 DEF Latest, Shape
  <2> QED
    BY ONLY <1>1, <1>2, <2>1 DEF Fits, FitsFor
<1>5. \A i, j : Above(i, j)' <=> AboveFor(segs, i, j)
  BY <1>1, <1>2 DEF Above, AboveFor
<1>6. CASE \E i \in DOMAIN added : FitsFor(m, segs, i)
  <2>1. n \in tree.nodes /\ Leads(tree, segs, n) # {}
    BY <1>3, <1>6, FitsLeads
  <2>2. Len(n) <= Len(segs) + 1 /\ Closed(tree)
    BY <1>3, LenProperties DEF TreeOK
  <2>3. Finds(tree, segs, Match(tree, segs), n)
    BY <1>3, <2>1, <2>2, MatchFinds
  <2>4. found = Match(tree, segs)[n]
    BY <2>1 DEF Route
  <2>5. PICK q \in Leads(tree, segs, n) :
           found.h = tree.handler[q] /\ \A r \in Leads(tree, segs, n) \ {q} : First(q, r)
    <3> HIDE DEF found, n
    <3> QED
      BY <2>1, <2>3, <2>4 DEF Finds
  <2>6. /\ found.h \in DOMAIN added /\ FitsFor(m, segs, found.h) /\ Whole(added[found.h]) = q
    <3> HIDE DEF found
    <3> QED
      BY <1>3, <2>5, LeadsFit
  <2> HIDE DEF found
  <2>7. PICK h : h = found.h
    OBVIOUS
  <2>8. h # None /\ request'.h = h
    <3>1. added \in Seq(Routes)
      BY DEF TreeOK
    <3>2. DOMAIN added = 1 .. Len(added) /\ Len(added) \in Nat
      BY <3>1, LenProperties
    <3> QED
      BY <1>2, <2>6, <2>7, <3>2 DEF None
  <2>9. ASSUME NEW i \in DOMAIN added \ {h}, FitsFor(m, segs, i) PROVE Above(h, i)'
    <3>1. Whole(added[i]) \in Leads(tree, segs, n) /\ tree.handler[Whole(added[i])] = i
      BY <1>3, <2>9, FitsLeads
    <3>2. First(q, Whole(added[i]))
      BY <2>5, <2>9, <2>7, <3>1
    <3>3. /\ Len(added[h].pattern) = Len(segs) /\ Len(added[i].pattern) = Len(segs)
          /\ added[h].method = added[i].method
      BY <2>6, <2>9, <2>7 DEF FitsFor
    <3> QED
      BY <1>3, <1>5, <2>6, <2>9, <2>7, <3>2, <3>3, FirstIsAbove
  <2>10. \E i \in DOMAIN added' : Fits(i)'
    BY <1>1, <1>4, <2>6, <2>7
  <2>11. request'.h \in DOMAIN added' /\ Fits(request.h)'
    BY <1>1, <1>4, <2>6, <2>8, <2>7
  <2>12. \A i \in DOMAIN added' \ {request'.h} : Fits(i)' => Above(request.h, i)'
    BY <1>1, <1>4, <2>8, <2>9
  <2> QED
    BY <2>10, <2>11, <2>12 DEF ChosenIsBest
<1>7. CASE ~\E i \in DOMAIN added : FitsFor(m, segs, i)
  <2>1. found.h = None
    <3>1. CASE n \notin tree.nodes
      BY <3>1 DEF Route, Miss
    <3>2. CASE n \in tree.nodes
      <4>1. Leads(tree, segs, n) = {}
        BY <1>3, <1>7, LeadsFit
      <4>2. Len(n) <= Len(segs) + 1 /\ Closed(tree)
        BY <1>3, LenProperties DEF TreeOK
      <4>3. Finds(tree, segs, Match(tree, segs), n)
        BY <1>3, <3>2, <4>2, MatchFinds
      <4>4. found = Match(tree, segs)[n]
        BY <3>2 DEF Route
      <4> HIDE DEF found, n
      <4> QED
        BY <4>1, <4>3, <4>4 DEF Finds
    <3> QED
      BY <3>1, <3>2
  <2> HIDE DEF found
  <2>2. request'.h = IF fallback' THEN Default ELSE None
    BY <1>1, <1>2, <2>1
  <2> QED
    BY <1>1, <1>4, <1>7, <2>2 DEF ChosenIsBest
<1> QED
  BY <1>6, <1>7

(* The tree is the list of routes in every state. *)
LEMMA TreeInvariant == Spec => []TreeOK
<1>1. TreeOK /\ [Next]_vars => TreeOK'
  <2> SUFFICES ASSUME TreeOK, [Next]_vars PROVE TreeOK'
    OBVIOUS
  <2>1. ASSUME UNCHANGED <<added, tree>> PROVE TreeOK'
    BY <2>1 DEF TreeOK, Closed, HandlersOK, NamesOK, Newest
  <2>2. ASSUME NEW m \in Method, NEW p \in Patterns, AddARoute(m, p) PROVE TreeOK'
    BY <2>2, AddKeepsTree
  <2> QED
    BY <2>1, <2>2 DEF Next, SetDefaultHandler, RouteRequest, RespondBody, RespondGone, RespondFile, vars
<1> QED
  BY <1>1, TreeStarts, PTL DEF Spec

(* Routes are added before the request: a step is before it, or it routes, *)
(* or it leaves what was found and what it was found in.                   *)
LEMMA StepIs ==
    ASSUME [Next]_vars
    PROVE  \/ request' = Nil
           \/ \E m \in Method, s \in Targets : RouteRequest(m, s)
           \/ UNCHANGED <<added, tree, fallback, request>>
<1>1. ASSUME NEW m \in Method, NEW p \in Patterns, AddARoute(m, p) PROVE request' = Nil
  BY <1>1 DEF AddARoute
<1>2. CASE SetDefaultHandler
  BY <1>2 DEF SetDefaultHandler
<1>3. CASE RespondBody
  BY <1>3 DEF RespondBody
<1>4. CASE RespondGone
  BY <1>4 DEF RespondGone
<1>5. ASSUME NEW h \in Header, NEW n \in Sizes, RespondFile(h, n)
      PROVE  UNCHANGED <<added, tree, fallback, request>>
  BY <1>5 DEF RespondFile
<1>6. CASE UNCHANGED vars
  BY <1>6 DEF vars
<1> QED
  BY <1>1, <1>2, <1>3, <1>4, <1>5, <1>6 DEF Next

(* Whatever routes were added, in whatever order, the search in the tree   *)
(* finds the route the list of routes calls for, or the default handler,   *)
(* or none: for every number of routes and length of pattern and path.     *)
THEOREM RoutesAreBest == Spec => []ChosenIsBest
<1>1. Init => ChosenIsBest
  BY DEF Init, ChosenIsBest
<1>2. TreeOK /\ ChosenIsBest /\ [Next]_vars => ChosenIsBest'
  <2> SUFFICES ASSUME TreeOK, ChosenIsBest, [Next]_vars PROVE ChosenIsBest'
    OBVIOUS
  <2>1. CASE request' = Nil
    BY <2>1 DEF ChosenIsBest, Nil
  <2>2. CASE \E m \in Method, s \in Targets : RouteRequest(m, s)
    BY <2>2, RouteIsBest
  <2>3. CASE UNCHANGED <<added, tree, fallback, request>>
    BY <2>3 DEF ChosenIsBest, Fits, Above, Latest, Shape
  <2> QED
    BY <2>1, <2>2, <2>3, StepIs
<1> QED
  BY <1>1, <1>2, TreeInvariant, PTL DEF Spec

-----------------------------------------------------------------------------
(* The last value assigned to the name. *)
Gives(set, name, v) ==
    \E i \in 1 .. Len(set) : set[i] = <<name, v>> /\ \A j \in i + 1 .. Len(set) : set[j][1] # name

(* It is what pathParam returns. *)
LEMMA GivesParam ==
    ASSUME NEW S, NEW set \in Seq(S), NEW name, NEW v, Gives(set, name, v)
    PROVE  PathParam(set, name) = v
<1> DEFINE at == {i \in DOMAIN set : set[i][1] = name}
<1>1. DOMAIN set = 1 .. Len(set) /\ Len(set) \in Nat
  BY LenProperties
<1>2. PICK i \in 1 .. Len(set) : set[i] = <<name, v>> /\ \A j \in i + 1 .. Len(set) : set[j][1] # name
  BY DEF Gives
<1>3. i \in at /\ \A j \in at : j <= i /\ j \in Nat
  BY <1>1, <1>2
<1>4. \A x \in at : (\A j \in at : j <= x) => x = i
  BY <1>1, <1>3
<1>5. at # {} /\ (CHOOSE x \in at : \A j \in at : j <= x) = i
  <2> HIDE DEF at
  <2> QED
    BY <1>3, <1>4
<1>6. PathParam(set, name) = set[i][2]
  BY <1>5 DEF PathParam
<1> QED
  BY <1>2, <1>6

(* What is assigned last counts. *)
LEMMA GivesJoined ==
    ASSUME NEW S, NEW a \in Seq(S), NEW b \in Seq(S), NEW name, NEW v, Gives(b, name, v)
    PROVE  Gives(a \o b, name, v)
<1> DEFINE c == a \o b
<1>1. /\ Len(a) \in Nat /\ Len(b) \in Nat /\ Len(c) = Len(a) + Len(b)
      /\ \A i \in 1 .. Len(a) + Len(b) : c[i] = IF i <= Len(a) THEN a[i] ELSE b[i - Len(a)]
  BY ConcatProperties, LenProperties
<1> HIDE DEF c
<1>2. PICK i \in 1 .. Len(b) : b[i] = <<name, v>> /\ \A j \in i + 1 .. Len(b) : b[j][1] # name
  BY DEF Gives
<1>3. \A j \in 1 .. Len(b) : Len(a) + j \in 1 .. Len(c) /\ c[Len(a) + j] = b[j]
  BY <1>1
<1>4. c[Len(a) + i] = <<name, v>> /\ Len(a) + i \in 1 .. Len(c)
  BY <1>2, <1>3
<1>5. ASSUME NEW j \in Len(a) + i + 1 .. Len(c) PROVE c[j][1] # name
  <2>1. j - Len(a) \in i + 1 .. Len(b) /\ j - Len(a) \in 1 .. Len(b) /\ Len(a) + (j - Len(a)) = j
    BY <1>1
  <2>2. c[j] = b[j - Len(a)]
    BY <1>3, <2>1
  <2> QED
    BY <1>2, <2>1, <2>2
<1>6. Gives(c, name, v)
  BY <1>4, <1>5 DEF Gives
<1> QED
  BY <1>6 DEF c

(* What is assigned first counts if nothing later has its name. *)
LEMMA GivesHead ==
    ASSUME NEW S, NEW b \in Seq(S), NEW name, NEW v, <<name, v>> \in S,
           \A i \in 1 .. Len(b) : b[i][1] # name
    PROVE  Gives(<<<<name, v>>>> \o b, name, v)
<1> DEFINE a == <<<<name, v>>>>
           c == a \o b
<1>1. a \in Seq(S) /\ Len(a) = 1 /\ a[1] = <<name, v>>
  OBVIOUS
<1>2. /\ Len(b) \in Nat /\ Len(c) = 1 + Len(b)
      /\ \A i \in 1 .. 1 + Len(b) : c[i] = IF i <= 1 THEN a[i] ELSE b[i - 1]
  <2> HIDE DEF a
  <2>1. /\ Len(b) \in Nat /\ Len(c) = Len(a) + Len(b)
        /\ \A i \in 1 .. Len(a) + Len(b) : c[i] = IF i <= Len(a) THEN a[i] ELSE b[i - Len(a)]
    BY <1>1, ConcatProperties, LenProperties
  <2> HIDE DEF c
  <2> QED
    BY <1>1, <2>1
<1> HIDE DEF a, c
<1>3. c[1] = <<name, v>> /\ 1 \in 1 .. Len(c)
  BY <1>1, <1>2
<1>4. ASSUME NEW j \in 1 + 1 .. Len(c) PROVE c[j][1] # name
  <2>1. j - 1 \in 1 .. Len(b) /\ j \in 1 .. 1 + Len(b) /\ ~(j <= 1)
    BY <1>2
  <2>2. c[j] = b[j - 1]
    BY <1>2, <2>1
  <2> QED
    BY <2>1, <2>2
<1>5. Gives(c, name, v)
  BY <1>3, <1>4 DEF Gives
<1> QED
  BY <1>5 DEF c, a

-----------------------------------------------------------------------------
(* r is a parameter node on the way down from n. *)
Under(n, r) == Len(r) > Len(n) /\ Starts(n, r) /\ r[Len(r)] = ":"

(* What the search assigns at r. *)
Given(t, segs, r) == <<t.pname[r], Decode[segs[Len(r) - 1]]>>

(* What a search at n and below may assign. *)
Assigned(t, segs, n) == {Given(t, segs, r) : r \in {x \in t.nodes : Under(n, x)}}

(* What is under a child is under its parent. *)
LEMMA UnderChild ==
    ASSUME NEW n \in Places, NEW x \in Label, NEW r, Under(Append(n, x), r)
    PROVE  Under(n, r)
<1> DEFINE c == Append(n, x)
<1>1. Len(n) \in Nat /\ Len(c) = Len(n) + 1 /\ \A l \in 1 .. Len(n) : c[l] = n[l]
  BY PlaceIs, ChildIs
<1>2. Len(r) > Len(c) /\ Len(c) <= Len(r) /\ r[Len(r)] = ":" /\ \A l \in 1 .. Len(c) : r[l] = c[l]
  BY DEF Under, Starts
<1> HIDE DEF c
<1>3. \A l \in 1 .. Len(n) : r[l] = n[l]
  BY <1>1, <1>2
<1> QED
  BY <1>1, <1>2, <1>3 DEF Under, Starts

(* So is the parameter child. *)
LEMMA UnderItself ==
    ASSUME NEW n \in Places
    PROVE  Under(n, Append(n, ":"))
<1> DEFINE c == Append(n, ":")
<1>1. /\ Len(n) \in Nat /\ Len(c) = Len(n) + 1 /\ c[Len(n) + 1] = ":"
      /\ \A l \in 1 .. Len(n) : c[l] = n[l]
  BY PlaceIs, ChildIs DEF Label
<1> HIDE DEF c
<1>2. Under(n, c)
  BY <1>1 DEF Under, Starts
<1> QED
  BY <1>2 DEF c

(* Nothing assigned is a sequence of anything. *)
LEMMA NoneIn ==
    ASSUME NEW S, NEW s, s = <<>>
    PROVE  s \in Seq(S)
OBVIOUS

(* A search only assigns parameters below where it starts, failed branches *)
(* included.                                                               *)
LEMMA MatchAssigns ==
    ASSUME NEW t, Closed(t), NEW segs \in Seq(Word)
    PROVE  \A n \in t.nodes : Len(n) <= Len(segs) + 1 =>
              Match(t, segs)[n].set \in Seq(Assigned(t, segs, n))
<1> DEFINE f == Match(t, segs)
           X == {n \in t.nodes : f[n].set \in Seq(Assigned(t, segs, n))}
<1>1. Len(segs) \in Nat /\ t.nodes \subseteq Places /\ \A n \in t.nodes : Len(n) \in Nat
  BY PlaceIs, LenProperties DEF Closed
<1>2. ASSUME NEW n \in t.nodes, Len(n) <= Len(segs) + 1,
             \A m \in t.nodes : Len(m) = Len(n) + 1 /\ Len(m) <= Len(segs) + 1 => m \in X
      PROVE  f[n].set \in Seq(Assigned(t, segs, n))
  <2> DEFINE lit == Append(n, segs[Len(n)])
             par == Append(n, ":")
             A == Assigned(t, segs, n)
  <2>1. Outcome(t, segs, f, n, lit, par)
    BY <1>1, MatchCases
  <2>2. CASE Len(n) = Len(segs) + 1
    <3> HIDE DEF f, lit, par, A
    <3>1. f[n].set = <<>>
      <4>1. Len(n) > Len(segs)
        BY <1>1, <2>2
      <4> QED
        BY <2>1, <4>1 DEF Outcome
    <3>2. f[n].set \in Seq(A)
      BY ONLY <3>1, NoneIn, Zenon
    <3> QED
      BY <3>2 DEF A
  <2>3. CASE Len(n) <= Len(segs)
    <3>1. n \in Places /\ segs[Len(n)] \in Label /\ ":" \in Label
      <4>1. Len(n) \in 1 .. Len(segs)
        BY <1>1, <2>3, PlaceIs
      <4> QED
        BY <1>1, <4>1, ElementOfSeq DEF Label
    <3>2. Len(lit) = Len(n) + 1 /\ Len(par) = Len(n) + 1
      BY <3>1, ChildIs
    <3>3. /\ Assigned(t, segs, lit) \subseteq A /\ Assigned(t, segs, par) \subseteq A
      BY <3>1, UnderChild DEF Assigned
    <3>4. /\ lit \in t.nodes => lit \in X
          /\ par \in t.nodes => par \in X
      <4> HIDE DEF f, lit, par, X
      <4> QED
        BY <1>1, <1>2, <2>3, <3>2
    <3>5. /\ lit \in t.nodes => f[lit].set \in Seq(A)
          /\ par \in t.nodes => f[par].set \in Seq(A)
      <4>1. /\ lit \in t.nodes => f[lit].set \in Seq(Assigned(t, segs, lit))
            /\ par \in t.nodes => f[par].set \in Seq(Assigned(t, segs, par))
        BY <3>4
      <4>2. Seq(Assigned(t, segs, lit)) \subseteq Seq(A) /\ Seq(Assigned(t, segs, par)) \subseteq Seq(A)
        <5> HIDE DEF A, lit, par
        <5> QED
          BY <3>3, SeqMonotonic
      <4> HIDE DEF A, lit, par, f
      <4> QED
        BY <4>1, <4>2
    <3>6. par \in t.nodes => <<<<t.pname[par], Decode[segs[Len(n)]]>>>> \in Seq(A)
      <4> SUFFICES ASSUME par \in t.nodes PROVE <<<<t.pname[par], Decode[segs[Len(n)]]>>>> \in Seq(A)
        OBVIOUS
      <4>1. Under(n, par)
        BY <3>1, UnderItself
      <4>2. Given(t, segs, par) \in A
        BY <4>1 DEF Assigned
      <4>3. Given(t, segs, par) = <<t.pname[par], Decode[segs[Len(n)]]>>
        <5>1. Len(par) - 1 = Len(n)
          BY <1>1, <3>2
        <5> HIDE DEF par
        <5> QED
          BY <5>1 DEF Given
      <4>4. <<Given(t, segs, par)>> \in Seq(A)
        <5> HIDE DEF A, par
        <5> QED
          BY <4>2
      <4> QED
        BY <4>3, <4>4
    <3>7. Miss.set \in Seq(A)
      <4> HIDE DEF A
      <4> QED
        BY DEF Miss
    <3>8. <<>> \in Seq(A)
      <4> HIDE DEF A
      <4> QED
        OBVIOUS
    <3> HIDE DEF A, f, lit, par
    <3>9. CASE lit \in t.nodes /\ f[n] = f[lit]
      BY <3>5, <3>9 DEF A
    <3>10. CASE /\ par \in t.nodes
                /\ f[n].set = (IF lit \in t.nodes THEN f[lit].set ELSE <<>>)
                              \o <<<<t.pname[par], Decode[segs[Len(n)]]>>>> \o f[par].set
      <4>1. PICK a \in Seq(A) : a = IF lit \in t.nodes THEN f[lit].set ELSE <<>>
        BY <3>5, <3>8
      <4>2. PICK b \in Seq(A) : b = <<<<t.pname[par], Decode[segs[Len(n)]]>>>>
        BY <3>6, <3>10
      <4>3. PICK c \in Seq(A) : c = f[par].set
        BY <3>5, <3>10
      <4>4. f[n].set = a \o b \o c
        BY <3>10, <4>1, <4>2, <4>3
      <4>5. a \o b \in Seq(A)
        BY ConcatProperties
      <4>6. (a \o b) \o c \in Seq(A)
        BY <4>5, ConcatProperties
      <4> QED
        BY <4>4, <4>6 DEF A
    <3>11. CASE f[n] = IF lit \in t.nodes THEN f[lit] ELSE Miss
      BY <3>5, <3>7, <3>11 DEF A
    <3> QED
      BY <2>1, <2>3, <3>9, <3>10, <3>11 DEF Outcome
  <2> QED
    BY <1>1, <1>2, <2>2, <2>3
<1>3. \A n \in t.nodes : Len(n) <= Len(segs) + 1 => n \in X
  <2>1. Len(segs) + 1 \in Nat
    BY <1>1
  <2>2. \A n \in t.nodes :
           Len(n) <= Len(segs) + 1
           /\ (\A m \in t.nodes : Len(m) = Len(n) + 1 /\ Len(m) <= Len(segs) + 1 => m \in X)
              => n \in X
    BY <1>2
  <2> HIDE DEF X
  <2> QED
    BY <1>1, <2>1, <2>2, FromTheLeaves
<1> QED
  BY <1>3

-----------------------------------------------------------------------------
(* Two parameters on one way down have different names. *)
Distinct(t) ==
    \A r, s \in t.nodes : Len(r) > 1 /\ r[Len(r)] = ":" /\ Under(r, s) => t.pname[r] # t.pname[s]

(* A handler is at one node. *)
OneNode(t) ==
    \A q, r \in t.nodes : t.handler[q] # None /\ t.handler[q] = t.handler[r] => q = r

(* The set gives each parameter between n and q the segment at its place. *)
Binds(t, segs, n, set, q) ==
    \A r \in t.nodes : Under(n, r) /\ Starts(r, q) => Gives(set, t.pname[r], Decode[segs[Len(r) - 1]])

(* A parameter on the way to q is the child the way takes or below it. *)
LEMMA OnTheWay ==
    ASSUME NEW n \in Places, NEW x \in Label, NEW q \in Places, NEW r \in Places,
           Starts(Append(n, x), q), Starts(r, q), Under(n, r)
    PROVE  \/ r = Append(n, x) /\ x = ":"
           \/ Under(Append(n, x), r)
<1> DEFINE c == Append(n, x)
<1>1. /\ Len(n) \in Nat /\ c \in Places /\ Len(c) = Len(n) + 1 /\ c[Len(n) + 1] = x
      /\ Len(r) \in Nat
  BY PlaceIs, ChildIs
<1>2. /\ Len(r) > Len(n) /\ r[Len(r)] = ":"
      /\ \A l \in 1 .. Len(c) : q[l] = c[l]
      /\ \A l \in 1 .. Len(r) : q[l] = r[l]
  BY DEF Under, Starts
<1> HIDE DEF c
<1>3. \A l \in 1 .. Len(c) : r[l] = c[l]
  BY <1>1, <1>2
<1>4. CASE Len(r) = Len(c)
  <2>1. r = c
    BY <1>1, <1>3, <1>4, NodesAre
  <2>2. x = ":"
    BY <1>1, <1>2, <2>1
  <2> QED
    BY <2>1, <2>2 DEF c
<1>5. CASE Len(r) # Len(c)
  <2>1. Len(r) > Len(c) /\ Len(c) <= Len(r)
    BY <1>1, <1>2, <1>5
  <2>2. Under(c, r)
    BY <1>2, <1>3, <2>1 DEF Under, Starts
  <2> QED
    BY <2>2 DEF c
<1> QED
  BY <1>4, <1>5

(* An assignment counts after a, b and c if it counts in c, or is b and no *)
(* later one has its name.                                                 *)
LEMMA JoinedGives ==
    ASSUME NEW S, NEW a \in Seq(S), NEW b \in Seq(S), NEW c \in Seq(S), NEW name, NEW v,
           \/ Gives(c, name, v)
           \/ b = <<<<name, v>>>> /\ <<name, v>> \in S /\ \A i \in 1 .. Len(c) : c[i][1] # name
    PROVE  Gives(a \o b \o c, name, v)
<1>1. CASE Gives(c, name, v)
  <2>1. a \o b \in Seq(S)
    BY ConcatProperties
  <2> QED
    BY <1>1, <2>1, GivesJoined
<1>2. CASE b = <<<<name, v>>>> /\ <<name, v>> \in S /\ \A i \in 1 .. Len(c) : c[i][1] # name
  <2>1. Gives(b \o c, name, v)
    BY <1>2, GivesHead
  <2>2. b \o c \in Seq(S)
    BY ConcatProperties
  <2>3. Gives(a \o (b \o c), name, v)
    BY <2>1, <2>2, GivesJoined
  <2>4. a \o b \o c = a \o (b \o c)
    BY ONLY a \in Seq(S), b \in Seq(S), c \in Seq(S), ConcatAssociative, SMTT(20)
  <2> QED
    BY <2>3, <2>4
<1> QED
  BY <1>1, <1>2

(* On the way to the handler it finds, match leaves each parameter the     *)
(* segment at its place: what branches that failed have assigned is        *)
(* assigned before, or has another name.                                   *)
LEMMA MatchBinds ==
    ASSUME NEW t, Closed(t), Distinct(t), OneNode(t), NEW segs \in Seq(Word)
    PROVE  \A n \in t.nodes : Len(n) <= Len(segs) + 1 =>
              \A q \in Leads(t, segs, n) :
                 t.handler[q] = Match(t, segs)[n].h => Binds(t, segs, n, Match(t, segs)[n].set, q)
<1> DEFINE f == Match(t, segs)
           Good(n) == \A q \in Leads(t, segs, n) :
                         t.handler[q] = f[n].h => Binds(t, segs, n, f[n].set, q)
           X == {n \in t.nodes : Good(n)}
<1>1. Len(segs) \in Nat /\ t.nodes \subseteq Places /\ \A n \in t.nodes : Len(n) \in Nat
  BY PlaceIs, LenProperties DEF Closed
<1>2. ASSUME NEW n \in t.nodes, Len(n) <= Len(segs) + 1,
             \A m \in t.nodes : Len(m) = Len(n) + 1 /\ Len(m) <= Len(segs) + 1 => m \in X,
             NEW q \in Leads(t, segs, n), t.handler[q] = f[n].h
      PROVE  Binds(t, segs, n, f[n].set, q)
  <2> DEFINE lit == Append(n, segs[Len(n)])
             par == Append(n, ":")
             A == Assigned(t, segs, n)
  <2>1. Outcome(t, segs, f, n, lit, par)
    BY <1>1, MatchCases
  <2>2. q \in t.nodes /\ q \in Places /\ Len(q) = Len(segs) + 1 /\ t.handler[q] # None /\ Starts(n, q)
    BY <1>1 DEF Leads
  <2> SUFFICES ASSUME NEW r \in t.nodes, Under(n, r), Starts(r, q)
               PROVE  Gives(f[n].set, t.pname[r], Decode[segs[Len(r) - 1]])
    BY DEF Binds
  <2>3. Len(r) > Len(n) /\ Len(r) <= Len(q) /\ r \in Places
    BY <1>1 DEF Under, Starts
  <2>4. Len(n) <= Len(segs)
    BY <1>1, <2>2, <2>3
  <2>5. n \in Places /\ segs[Len(n)] \in Label /\ segs[Len(n)] # ":" /\ ":" \in Label
    <3>1. Len(n) \in 1 .. Len(segs)
      BY <1>1, <2>4, PlaceIs
    <3> QED
      BY <1>1, <3>1, ElementOfSeq, RouterAssumption DEF Label
  <2>6. Len(lit) = Len(n) + 1 /\ Len(par) = Len(n) + 1 /\ par[Len(n) + 1] = ":"
    BY <2>5, ChildIs
  <2>7. ASSUME NEW c \in {lit, par}, c \in t.nodes, f[n].h = f[c].h
        PROVE  Starts(c, q) /\ Binds(t, segs, c, f[c].set, q)
    <3>1. Len(c) = Len(n) + 1 /\ Len(c) <= Len(segs) + 1
      BY <1>1, <2>4, <2>6
    <3>2. Good(c)
      <4>1. c \in X
        BY <1>2, <2>7, <3>1
      <4> QED
        BY <4>1
    <3>3. Finds(t, segs, f, c)
      BY <2>7, <3>1, MatchFinds
    <3> HIDE DEF f, lit, par
    <3>4. f[c].h # None
      BY <1>2, <2>2, <2>7
    <3>5. PICK w \in Leads(t, segs, c) : f[c].h = t.handler[w]
      BY <3>3, <3>4 DEF Finds
    <3>6. w = q
      <4>1. w \in t.nodes
        BY DEF Leads
      <4> QED
        BY <1>2, <2>2, <2>7, <3>5, <4>1 DEF OneNode
    <3>7. Starts(c, q)
      BY <3>5, <3>6 DEF Leads
    <3> QED
      BY <1>2, <2>7, <3>2, <3>5, <3>6, <3>7
  <2>8. CASE lit \in t.nodes /\ f[lit].h # None /\ f[n] = f[lit]
    <3>1. Starts(lit, q) /\ Binds(t, segs, lit, f[lit].set, q)
      BY <2>7, <2>8
    <3>2. Under(lit, r)
      BY <2>2, <2>3, <2>5, <3>1, OnTheWay
    <3> HIDE DEF f, lit
    <3> QED
      BY <2>8, <3>1, <3>2 DEF Binds
  <2>9. CASE /\ par \in t.nodes
             /\ f[n].h = f[par].h
             /\ f[n].set = (IF lit \in t.nodes THEN f[lit].set ELSE <<>>)
                           \o <<<<t.pname[par], Decode[segs[Len(n)]]>>>> \o f[par].set
    <3>1. Starts(par, q) /\ Binds(t, segs, par, f[par].set, q)
      BY <2>7, <2>9
    <3>2. r = par \/ Under(par, r)
      BY <2>2, <2>3, <2>5, <3>1, OnTheWay
    <3>3. /\ f[par].set \in Seq(Assigned(t, segs, par))
          /\ lit \in t.nodes => f[lit].set \in Seq(Assigned(t, segs, lit))
      <4>1. Len(lit) <= Len(segs) + 1 /\ Len(par) <= Len(segs) + 1
        BY <1>1, <2>4, <2>6
      <4> HIDE DEF lit, par
      <4> QED
        BY <2>9, <4>1, MatchAssigns
    <3>4. /\ Assigned(t, segs, lit) \subseteq A /\ Assigned(t, segs, par) \subseteq A
      BY <2>5, UnderChild DEF Assigned
    <3>5. Given(t, segs, par) = <<t.pname[par], Decode[segs[Len(n)]]>> /\ Given(t, segs, par) \in A
      <4>1. Under(n, par)
        BY <2>5, UnderItself
      <4>2. Given(t, segs, par) \in A
        BY <2>9, <4>1 DEF Assigned
      <4>3. Len(par) - 1 = Len(n)
        BY <1>1, <2>6
      <4> HIDE DEF par, A
      <4> QED
        BY <4>2, <4>3 DEF Given
    <3>6. \A i \in 1 .. Len(f[par].set) : f[par].set[i][1] # t.pname[par]
      <4> SUFFICES ASSUME NEW i \in 1 .. Len(f[par].set) PROVE f[par].set[i][1] # t.pname[par]
        OBVIOUS
      <4>1. f[par].set[i] \in Assigned(t, segs, par)
        BY <3>3, ElementOfSeq
      <4>2. PICK s \in t.nodes : Under(par, s) /\ f[par].set[i] = Given(t, segs, s)
        BY <4>1 DEF Assigned
      <4>3. f[par].set[i][1] = t.pname[s]
        BY <4>2 DEF Given
      <4>4. Len(par) > 1 /\ par[Len(par)] = ":"
        <5>1. Len(n) \in Nat /\ Len(n) >= 1
          BY <2>5, PlaceIs
        <5> HIDE DEF par
        <5> QED
          BY <2>6, <5>1
      <4> HIDE DEF f, par
      <4> QED
        BY <2>9, <4>2, <4>3, <4>4 DEF Distinct
    <3> HIDE DEF f, lit, par, A
    <3>7. Seq(Assigned(t, segs, lit)) \subseteq Seq(A) /\ Seq(Assigned(t, segs, par)) \subseteq Seq(A)
      BY <3>4, SeqMonotonic
    <3>8. PICK a \in Seq(A) : a = IF lit \in t.nodes THEN f[lit].set ELSE <<>>
      <4>1. <<>> \in Seq(A)
        OBVIOUS
      <4> QED
        BY <3>3, <3>7, <4>1
    <3>9. PICK c \in Seq(A) : c = f[par].set
      BY <3>3, <3>7
    <3>10. PICK g \in A : g = Given(t, segs, par)
      BY <3>5
    <3>11. f[n].set = a \o <<g>> \o c
      BY <2>9, <3>5, <3>8, <3>9, <3>10
    <3>12. <<g>> \in Seq(A)
      OBVIOUS
    <3>13. CASE Under(par, r)
      <4>1. Gives(c, t.pname[r], Decode[segs[Len(r) - 1]])
        BY <3>1, <3>9, <3>13 DEF Binds
      <4> QED
        BY <3>11, <3>12, <4>1, JoinedGives
    <3>14. CASE r = par
      <4>1. g = <<t.pname[r], Decode[segs[Len(r) - 1]]>>
        BY <3>10, <3>14 DEF Given
      <4>2. \A i \in 1 .. Len(c) : c[i][1] # t.pname[r]
        BY <3>6, <3>9, <3>14
      <4> QED
        BY <3>11, <3>12, <4>1, <4>2, JoinedGives
    <3> QED
      BY <3>2, <3>13, <3>14
  <2>10. CASE /\ lit \in t.nodes => f[lit].h = None
              /\ f[n] = IF lit \in t.nodes THEN f[lit] ELSE Miss
    <3>1. Miss.h = None
      BY DEF Miss
    <3> HIDE DEF f, lit
    <3>2. f[n].h = None
      BY <2>10, <3>1
    <3> QED
      BY <1>2, <2>2, <3>2
  <2> HIDE DEF f, lit, par
  <2> QED
    BY <2>1, <2>4, <2>8, <2>9, <2>10 DEF Outcome
<1>3. \A n \in t.nodes : Len(n) <= Len(segs) + 1 => n \in X
  <2>1. Len(segs) + 1 \in Nat
    BY <1>1
  <2>2. \A n \in t.nodes :
           Len(n) <= Len(segs) + 1
           /\ (\A m \in t.nodes : Len(m) = Len(n) + 1 /\ Len(m) <= Len(segs) + 1 => m \in X)
              => n \in X
    BY <1>2
  <2> HIDE DEF X
  <2> QED
    BY <1>1, <2>1, <2>2, FromTheLeaves
<1> QED
  BY <1>3

-----------------------------------------------------------------------------
(* Routes that agree on names find them in the tree. *)
LEMMA NodeNamed ==
    ASSUME TreeOK, NamesAgree, NEW i \in DOMAIN added, NEW k \in Params(added[i].pattern),
           NEW r \in tree.nodes, r = Node(added[i].method, added[i].pattern, k)
    PROVE  tree.pname[r] = added[i].pattern[k].name
<1> DEFINE p == added[i].pattern
<1>1. /\ p \in Seq(Segment) /\ Len(p) \in Nat /\ added[i].method \in Method /\ DOMAIN p = 1 .. Len(p)
  <2>1. added \in Seq(Routes)
    BY DEF TreeOK
  <2> QED
    BY <2>1, RouteIs
<1>2. k \in 1 .. Len(p) /\ k \in 0 .. Len(p) /\ k \in Nat
  BY <1>1 DEF Params
<1>3. Len(r) = k + 1 /\ r[1] = added[i].method /\ \A l \in 1 .. k : r[l + 1] = p[l].text
  BY <1>1, <1>2, NodeIs
<1>4. PICK j \in DOMAIN added :
         /\ Len(r) - 1 \in 1 .. Len(added[j].pattern)
         /\ r = Node(added[j].method, added[j].pattern, Len(r) - 1)
         /\ tree.pname[r] = added[j].pattern[Len(r) - 1].name
  <2>1. Len(r) > 1
    BY <1>2, <1>3
  <2> QED
    BY <2>1 DEF TreeOK, NamesOK
<1> DEFINE s == added[j].pattern
<1>5. /\ s \in Seq(Segment) /\ Len(s) \in Nat /\ added[j].method \in Method
  <2>1. added \in Seq(Routes)
    BY DEF TreeOK
  <2> QED
    BY <2>1, RouteIs
<1>6. Len(r) - 1 = k
  BY <1>2, <1>3
<1> HIDE DEF p, s
<1>7. k \in 1 .. Len(s) /\ k \in 0 .. Len(s) /\ r = Node(added[j].method, s, k) /\ tree.pname[r] = s[k].name
  BY <1>4, <1>5, <1>6 DEF s
<1>8. r[1] = added[j].method /\ \A l \in 1 .. k : r[l + 1] = s[l].text
  BY <1>5, <1>7, NodeIs
<1>9. added[i].method = added[j].method /\ k <= Len(s) /\ \A l \in 1 .. k : p[l].text = s[l].text
  BY <1>3, <1>7, <1>8
<1>10. p[k].name = s[k].name
  BY <1>4, <1>9 DEF NamesAgree, p, s
<1> QED
  BY <1>7, <1>10 DEF p

(* And have no name twice on one way down. *)
LEMMA NamesDistinct ==
    ASSUME TreeOK, NamesAgree
    PROVE  Distinct(tree)
<1> SUFFICES ASSUME NEW r \in tree.nodes, NEW s \in tree.nodes, Len(r) > 1, r[Len(r)] = ":", Under(r, s)
             PROVE  tree.pname[r] # tree.pname[s]
  BY DEF Distinct
<1>1. /\ r \in Places /\ s \in Places /\ Len(r) \in Nat /\ Len(s) \in Nat
      /\ Len(s) > Len(r) /\ Starts(r, s) /\ s[Len(s)] = ":" /\ Len(s) > 1
  <2>1. r \in Places /\ s \in Places
    BY DEF TreeOK, Closed
  <2> QED
    BY <2>1, PlaceIs DEF Under
<1>2. PICK i \in DOMAIN added :
         /\ Len(s) - 1 \in 1 .. Len(added[i].pattern)
         /\ s = Node(added[i].method, added[i].pattern, Len(s) - 1)
  BY <1>1 DEF TreeOK, NamesOK
<1> DEFINE p == added[i].pattern
           k == Len(s) - 1
           l == Len(r) - 1
<1>3. /\ p \in Seq(Segment) /\ Len(p) \in Nat /\ added[i].method \in Method /\ DOMAIN p = 1 .. Len(p)
  <2>1. added \in Seq(Routes)
    BY DEF TreeOK
  <2> QED
    BY <2>1, RouteIs
<1>4. k \in 1 .. Len(p) /\ k \in 0 .. Len(p) /\ k + 1 = Len(s) /\ s = Node(added[i].method, p, k)
  BY <1>1, <1>2, <1>3
<1>5. l \in 1 .. k - 1 /\ l + 1 = Len(r)
  BY <1>1
<1>6. r = Node(added[i].method, p, l)
  <2> HIDE DEF p, k
  <2> QED
    BY <1>1, <1>3, <1>4, PathClosed
<1> HIDE DEF p, k, l
<1>7. l \in 1 .. Len(p) /\ l \in 0 .. Len(p) /\ l # k
  BY <1>3, <1>4, <1>5
<1>8. p[k].text = ":" /\ p[l].text = ":"
  <2>1. s[k + 1] = p[k].text
    BY <1>3, <1>4, NodeIs
  <2>2. r[l + 1] = p[l].text
    BY <1>3, <1>6, <1>7, NodeIs
  <2> QED
    BY <1>1, <1>4, <1>5, <2>1, <2>2
<1>9. k \in Params(p) /\ l \in Params(p)
  BY <1>3, <1>4, <1>7, <1>8 DEF Params
<1>10. tree.pname[r] = p[l].name /\ tree.pname[s] = p[k].name
  <2>1. tree.pname[r] = added[i].pattern[l].name
    BY <1>6, <1>9, NodeNamed DEF p
  <2>2. tree.pname[s] = added[i].pattern[k].name
    BY <1>4, <1>9, NodeNamed DEF p
  <2> QED
    BY <2>1, <2>2 DEF p
<1>11. p[k].name # p[l].name
  <2>1. \A x, y \in Params(p) : p[x].name = p[y].name => x = y
    <3>1. \A h \in DOMAIN added : \A x, y \in Params(added[h].pattern) :
             added[h].pattern[x].name = added[h].pattern[y].name => x = y
      BY ONLY NamesAgree, Zenon DEF NamesAgree
    <3> QED
      BY ONLY <3>1, i \in DOMAIN added DEF p
  <2> QED
    BY <1>7, <1>9, <2>1
<1> QED
  BY <1>10, <1>11

(* What route() leaves in the parameters is what the handler's pattern     *)
(* calls for.                                                              *)
LEMMA RouteBinds ==
    ASSUME TreeOK, NEW m \in Method, NEW segs \in Targets, RouteRequest(m, segs)
    PROVE  ParamsBound'
<1> DEFINE found == Route(tree, m, segs)
           n == <<m>>
<1>1. /\ request' = [is |-> "routed", method |-> m, segs |-> segs,
                     h |-> IF found.h = None /\ fallback THEN Default ELSE found.h, set |-> found.set]
      /\ added' = added
  BY DEF RouteRequest
<1>2. PICK h, set : h = found.h /\ set = found.set
  OBVIOUS
<1>3. /\ request'.segs = segs /\ request'.set = set
      /\ request'.h = IF h = None /\ fallback THEN Default ELSE h
  <2> HIDE DEF found
  <2> QED
    BY <1>1, <1>2
<1>4. segs \in Seq(Word) /\ Len(segs) \in Nat /\ added \in Seq(Routes)
  BY RequestsAssumption, LenProperties DEF TreeOK
<1>5. ASSUME h \in DOMAIN added, NamesAgree, NEW k \in Params(added[h].pattern)
      PROVE  PathParam(set, added[h].pattern[k].name) = Decode[segs[k]]
  <2> DEFINE p == added[h].pattern
             r == Node(added[h].method, p, k)
             f == Match(tree, segs)
  <2>1. /\ h \in Nat \ {0} /\ h # None /\ p \in Seq(Segment) /\ Len(p) \in Nat
        /\ added[h].method \in Method /\ DOMAIN p = 1 .. Len(p)
    BY <1>4, <1>5, RouteIs DEF None
  <2>2. n \in tree.nodes /\ h = f[n].h /\ set = f[n].set
    <3>1. n \in tree.nodes
      BY <1>2, <2>1 DEF Route, Miss
    <3> QED
      BY <1>2, <3>1 DEF Route
  <2>3. Closed(tree) /\ Len(n) = 1 /\ n[1] = m /\ Len(n) <= Len(segs) + 1
    BY <1>4 DEF TreeOK
  <2>4. Finds(tree, segs, f, n)
    BY <1>4, <2>2, <2>3, MatchFinds
  <2>5. PICK q \in Leads(tree, segs, n) : h = tree.handler[q]
    <3> HIDE DEF f, n
    <3> QED
      BY <2>1, <2>2, <2>4 DEF Finds
  <2>6. OneNode(tree) /\ Whole(added[h]) = q /\ q \in tree.nodes /\ Starts(n, q)
    BY <2>5 DEF OneNode, TreeOK, HandlersOK, Leads
  <2>7. Distinct(tree)
    BY <1>5, NamesDistinct
  <2>8. Binds(tree, segs, n, set, q)
    BY <1>4, <2>2, <2>3, <2>5, <2>6, <2>7, MatchBinds
  <2>9. k \in 1 .. Len(p) /\ k \in 0 .. Len(p) /\ k \in Nat /\ p[k].text = ":"
    BY <1>5, <2>1 DEF Params
  <2>10. /\ q \in Places /\ Len(q) = Len(p) + 1 /\ q[1] = added[h].method
         /\ \A l \in 1 .. Len(p) : q[l + 1] = p[l].text
    <3> DEFINE w == Node(added[h].method, p, Len(p))
    <3>1. /\ w \in Places /\ Len(w) = Len(p) + 1 /\ w[1] = added[h].method
          /\ \A l \in 1 .. Len(p) : w[l + 1] = p[l].text
      <4> HIDE DEF p
      <4> QED
        BY <2>1, NodeIs
    <3> HIDE DEF w
    <3>2. w = q
      BY <2>6 DEF Whole, w
    <3> QED
      BY <3>1, <3>2
  <2>11. /\ r \in Places /\ Len(r) = k + 1 /\ r[1] = added[h].method
         /\ \A l \in 1 .. k : r[l + 1] = p[l].text
    <3> HIDE DEF p, f, n
    <3> QED
      BY <2>1, <2>9, NodeIs
  <2> HIDE DEF r, f, n
  <2>12. Starts(r, q)
    <3>1. ASSUME NEW l \in 1 .. Len(r) PROVE q[l] = r[l]
      <4>1. CASE l = 1
        BY <2>10, <2>11, <4>1
      <4>2. CASE l # 1
        <5>1. l - 1 \in 1 .. k /\ l - 1 \in 1 .. Len(p) /\ l = (l - 1) + 1
          BY <2>1, <2>9, <2>11, <4>2
        <5>2. r[(l - 1) + 1] = p[l - 1].text /\ q[(l - 1) + 1] = p[l - 1].text
          BY <2>10, <2>11, <5>1
        <5> QED
          BY <5>1, <5>2
      <4> QED
        BY <4>1, <4>2
    <3> QED
      BY <2>1, <2>9, <2>10, <2>11, <3>1 DEF Starts
  <2>13. r \in tree.nodes
    BY <2>3, <2>6, <2>11, <2>12 DEF Closed
  <2>14. Under(n, r)
    <3>1. q[1] = m
      BY <2>3, <2>6 DEF Starts
    <3>2. \A l \in 1 .. Len(n) : r[l] = n[l]
      BY <2>3, <2>10, <2>11, <3>1
    <3>3. r[Len(r)] = ":" /\ Len(r) > Len(n)
      BY <2>3, <2>9, <2>11
    <3> QED
      BY <2>3, <2>9, <2>11, <3>2, <3>3 DEF Under, Starts
  <2>15. Gives(set, tree.pname[r], Decode[segs[Len(r) - 1]])
    BY <2>8, <2>12, <2>13, <2>14 DEF Binds
  <2>16. tree.pname[r] = p[k].name /\ Len(r) - 1 = k
    <3>1. tree.pname[r] = p[k].name
      BY <1>5, <2>13, NodeNamed DEF r
    <3> QED
      BY <2>9, <2>11, <3>1
  <2>17. set \in Seq(Assigned(tree, segs, n))
    BY <1>4, <2>2, <2>3, MatchAssigns DEF f
  <2> QED
    BY <2>15, <2>16, <2>17, GivesParam
<1>6. request'.h \in DOMAIN added => request'.h = h
  BY <1>3, <1>4, RouteIs DEF Default
<1>7. NamesAgree' <=> NamesAgree
  BY <1>1 DEF NamesAgree, Params
<1> HIDE DEF found, n
<1>8. ASSUME request'.h \in DOMAIN added', NamesAgree'
      PROVE  \A k \in Params(added'[request'.h].pattern) :
                PathParam(request'.set, added'[request'.h].pattern[k].name) = Decode[request'.segs[k]]
  BY <1>1, <1>3, <1>5, <1>6, <1>7, <1>8
<1> QED
  BY <1>8 DEF ParamsBound, Params, PathParam

(* Each parameter of the route that was found has the decoded segment at   *)
(* its place, whatever failed branches have left, for every set of routes  *)
(* that agree on names.                                                    *)
THEOREM ParamsAreBound == Spec => []ParamsBound
<1>1. Init => ParamsBound
  BY DEF Init, ParamsBound
<1>2. TreeOK /\ ParamsBound /\ [Next]_vars => ParamsBound'
  <2> SUFFICES ASSUME TreeOK, ParamsBound, [Next]_vars PROVE ParamsBound'
    OBVIOUS
  <2>1. CASE request' = Nil
    BY <2>1 DEF ParamsBound, Nil
  <2>2. CASE \E m \in Method, s \in Targets : RouteRequest(m, s)
    BY <2>2, RouteBinds
  <2>3. CASE UNCHANGED <<added, tree, fallback, request>>
    BY <2>3 DEF ParamsBound, NamesAgree, Params
  <2> QED
    BY <2>1, <2>2, <2>3, StepIs
<1> QED
  BY <1>1, <1>2, TreeInvariant, PTL DEF Spec
===============================================================================
