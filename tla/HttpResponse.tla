----------------------------- MODULE HttpResponse -----------------------------
(***************************************************************************)
(* src/http/HttpResponse.{h,cpp}: the calls that make up a response, and   *)
(* what the head that build() formats tells the client about its end.      *)
(* Lengths stand for bytes; headers other than Content-Length (addHeader   *)
(* keeps one of each name) and the wording are left out.                   *)
(***************************************************************************)
EXTENDS Integers

NoLength == -1     \* no Content-Length header
NoFile   == -1     \* isFile_ is false

Fresh == [status |-> 200, length |-> NoLength, body |-> 0, chunked |-> FALSE, file |-> NoFile]

SetStatus(r, s) == [r EXCEPT !.status = s]
SetChunked(r)   == [r EXCEPT !.chunked = TRUE]
SetBody(r, n)   == [r EXCEPT !.body = n, !.length = n]

(* The size is what stat finds; a file that is not there is a 404. *)
SetFile(r, size) ==
    IF size = NoFile THEN [r EXCEPT !.file = NoFile, !.status = 404]
    ELSE [r EXCEPT !.file = size, !.length = size]

(* Seeded fault: the last byte is not counted. *)
SetContentRangeShort(r, first, last) == [r EXCEPT !.status = 206, !.length = last - first]

SetContentRange(r, first, last) == [r EXCEPT !.status = 206, !.length = last - first + 1]

(* build(): how many bytes the client expects after the head, by           *)
(* Content-Length or by the chunks it reads; NoLength: it cannot tell.     *)
Build(r) ==
    IF ~r.chunked THEN r.length ELSE IF r.body > 0 THEN r.body ELSE NoLength
=============================================================================
