------------------------------- MODULE HttpRange -------------------------------
(***************************************************************************)
(* The Range header: HttpRequest::parseRange (src/http/HttpRequest.cpp)    *)
(* and what HttpServer::processRequest makes of it for a file.             *)
(*                                                                         *)
(* A header is a record: whether it is one "bytes=" range with a dash, and *)
(* the texts before and after the dash, each empty, something std::stoll   *)
(* throws at ("bad"), or a number that fits in 64 bits.                    *)
(***************************************************************************)
EXTENDS Integers

CONSTANT Half       \* 2^63: int64_t is -Half .. Half - 1

ASSUME HalfAssumption == Half \in Nat \ {0}

Int64  == -Half .. Half - 1

(* The text before the first dash holds no minus sign. *)
Empty  == [is |-> "empty", n |-> 0]
Text   == {Empty, [is |-> "bad", n |-> 0]} \cup [is : {"number"}, n : Int64]
Header == [bytes : {TRUE}, start : {t \in Text : t.n >= 0}, end : Text]
             \cup [bytes : {FALSE}, start : {Empty}, end : {Empty}]

(* Signed overflow, as the machine does it. *)
Wrap(x) == IF x >= Half THEN x - 2 * Half ELSE IF x < -Half THEN x + 2 * Half ELSE x

NoRange == [has |-> FALSE, start |-> 0, end |-> -1]

(* parseRange: rangeStart_ is -1 for a suffix, rangeEnd_ is -1 for "to the *)
(* end", which is also what a negative end becomes.                        *)
ParseRange(h) ==
    IF ~h.bytes \/ "bad" \in {h.start.is, h.end.is} THEN NoRange
    ELSE IF h.start.is = "empty"
    THEN IF h.end.is = "empty" THEN NoRange
         ELSE [has |-> TRUE, start |-> -1, end |-> h.end.n]
    ELSE IF h.end.is = "empty" \/ h.end.n < 0
         THEN [has |-> TRUE, start |-> h.start.n, end |-> -1]
         ELSE [has |-> TRUE, start |-> h.start.n, end |-> h.end.n]

(* The end that is used: cut to the file.  Seeded fault: one byte late. *)
LastByteLate(asked, size) == IF asked = -1 \/ asked > size THEN size - 1 ELSE asked
LastByte(asked, size)     == IF asked = -1 \/ asked >= size THEN size - 1 ELSE asked

(* processRequest, for a file of the given size: the status, and the bytes *)
(* of the file that follow the header.                                     *)
Resolve(r, size) ==
    LET suffix == r.start = -1
        start  == IF suffix THEN Wrap(size - r.end) ELSE r.start
        end    == LastByte(IF suffix THEN size - 1 ELSE r.end, size)
    IN  IF ~r.has THEN [status |-> 200, first |-> 0, last |-> size - 1]
        ELSE IF start < 0 \/ start >= size \/ end < 0 \/ end >= size \/ start > end
        THEN [status |-> 416, first |-> 0, last |-> -1]
        ELSE [status |-> 206, first |-> start, last |-> end]

-----------------------------------------------------------------------------
(* What a header asks for, by itself: is it a range, and which bytes of a  *)
(* file of a given size does it mean.                                      *)
IsSuffix(h) == h.start.is = "empty" /\ h.end.is = "number"
IsRange(h)  == h.bytes /\ "bad" \notin {h.start.is, h.end.is}
                       /\ (h.start.is = "number" \/ IsSuffix(h))

Means(h, size, i) ==
    IF IsSuffix(h) THEN i >= size - h.end.n
    ELSE i >= h.start.n /\ (h.end.is = "number" /\ h.end.n >= 0 => i <= h.end.n)

(* The right answer: the whole file if the header is no range; a part only *)
(* if it is all the bytes the range means, at least one of them; a refusal *)
(* only if it means none of them, or is a suffix longer than the file.     *)
Answers(a, h, size) ==
    /\ a.status = 200 <=> ~IsRange(h)
    /\ a.status = 200 => a.first = 0 /\ a.last = size - 1
    /\ a.status = 206 =>
          /\ 0 <= a.first /\ a.first <= a.last /\ a.last < size
          /\ \A i \in 0 .. size - 1 : Means(h, size, i) <=> i \in a.first .. a.last
    /\ a.status = 416 =>
          \/ IsSuffix(h) /\ h.end.n > size
          \/ \A i \in 0 .. size - 1 : ~Means(h, size, i)
=============================================================================
