------------------------------- MODULE Requests -------------------------------
(***************************************************************************)
(* How a request gets its response: HttpServer::processRequest with the    *)
(* Router it asks and, for a file, the range the request carries.  Routes  *)
(* are added before the server starts; then one request is answered (each  *)
(* is independent of the others: reset() forgets the last one).            *)
(***************************************************************************)
EXTENDS Router, HttpRange, HttpResponse

CONSTANTS
    Method,     \* methods of requests and routes
    Patterns,   \* patterns of routes: sequences of segments
    Targets,    \* paths of requests: sequences of words
    Sizes,      \* sizes of the files that are served
    MaxRoutes   \* bound on the routes that are added

Segment == [text : Word, name : {""}] \cup [text : {":"}, name : STRING]

ASSUME RequestsAssumption ==
    /\ Patterns \subseteq Seq(Segment)
    /\ Targets \subseteq Seq(Word)
    /\ Sizes \subseteq 0 .. Half - 1
    /\ MaxRoutes \in Nat

VARIABLES
    added,      \* routes in the order of the calls: method and pattern
    tree,       \* methodRoots_
    fallback,   \* defaultHandler_ is set
    request,    \* the request, once there is one, and what route() found
    response    \* once there is one: what was sent, and what its head declares
vars == <<added, tree, fallback, request, response>>

Nil     == [is |-> "nil"]
Default == -1   \* the default handler

Init ==
    /\ added = <<>>
    /\ tree = EmptyTree
    /\ fallback = FALSE
    /\ request = Nil
    /\ response = Nil

-----------------------------------------------------------------------------
(* HttpServer::addRoute. *)
AddARoute(m, p) ==
    /\ request = Nil /\ Len(added) < MaxRoutes
    /\ added' = Append(added, [method |-> m, pattern |-> p])
    /\ tree' = AddRoute(tree, m, p, Len(added) + 1)
    /\ UNCHANGED <<fallback, request, response>>

(* Router::setDefaultHandler, for who uses a Router without HttpServer. *)
SetDefaultHandler ==
    /\ request = Nil /\ ~fallback
    /\ fallback' = TRUE
    /\ UNCHANGED <<added, tree, request, response>>

(* router_.route(req, &resp, conn). *)
RouteRequest(m, segs) ==
    /\ request = Nil
    /\ LET found == Route(tree, m, segs)
           h     == IF found.h = None /\ fallback THEN Default ELSE found.h
       IN  request' = [is |-> "routed", method |-> m, segs |-> segs, h |-> h, set |-> found.set]
    /\ UNCHANGED <<added, tree, fallback, response>>

(* What a handler without a file leaves behind: nothing or a body, in      *)
(* chunks or not, or in place of a file it did not find.                   *)
Handled ==
    LET begun == {Fresh, SetChunked(Fresh), SetFile(Fresh, NoFile)}
    IN  begun \cup {SetBody(r, n) : r \in begun, n \in {0, 1}}

Error(status) == SetBody(SetStatus(Fresh, status), 1)

(* No handler: 404; or what the handler has set. *)
RespondBody ==
    /\ request # Nil /\ response = Nil
    /\ \E r \in IF request.h = None THEN {Error(404)} ELSE Handled :
          response' = [is |-> "body", by |-> r, declared |-> Build(r)]
    /\ UNCHANGED <<added, tree, fallback, request>>

(* A handler that set a file, which is gone when it is opened. *)
RespondGone ==
    /\ request # Nil /\ response = Nil /\ request.h # None
    /\ response' = [is |-> "body", by |-> Error(410), declared |-> Build(Error(410))]
    /\ UNCHANGED <<added, tree, fallback, request>>

(* A handler that set a file, which opens: its response if the request has *)
(* no range, else a new one.                                               *)
RespondFile(header, size) ==
    LET answer == Resolve(ParseRange(header), size)
        resp   == IF answer.status = 200 THEN SetFile(Fresh, size)
                  ELSE IF answer.status = 206
                  THEN SetContentRange(Fresh, answer.first, answer.last)
                  ELSE SetStatus(Fresh, 416)
    IN  /\ request # Nil /\ response = Nil /\ request.h # None
        /\ response' = [is |-> "file", header |-> header, size |-> size,
                        answer |-> answer, declared |-> Build(resp)]
        /\ UNCHANGED <<added, tree, fallback, request>>

Next ==
    \/ \E m \in Method, p \in Patterns : AddARoute(m, p)
    \/ SetDefaultHandler
    \/ \E m \in Method, s \in Targets : RouteRequest(m, s)
    \/ RespondBody
    \/ RespondGone
    \/ \E h \in Header, n \in Sizes : RespondFile(h, n)

Spec == Init /\ [][Next]_vars

-----------------------------------------------------------------------------
(* What the tree stands for: the list of routes. *)
Shape(r)  == [i \in DOMAIN r.pattern |-> r.pattern[i].text]
Latest(i) == \A j \in i + 1 .. Len(added) :
                added[j].method # added[i].method \/ Shape(added[j]) # Shape(added[i])

Fits(i) ==
    /\ added[i].method = request.method /\ Latest(i)
    /\ Len(added[i].pattern) = Len(request.segs)
    /\ \A k \in DOMAIN request.segs : added[i].pattern[k].text \in {":", request.segs[k]}

(* Route i is more specific than j: literal where they first differ. *)
Above(i, j) ==
    \E k \in DOMAIN request.segs :
       /\ added[i].pattern[k].text # ":" /\ added[j].pattern[k].text = ":"
       /\ \A l \in 1 .. k - 1 : added[i].pattern[l].text = added[j].pattern[l].text

Params(p) == {k \in DOMAIN p : p[k].text = ":"}

(* The routes agree on names: no two name one node differently, and none   *)
(* uses a name twice.                                                      *)
NamesAgree ==
    /\ \A i, j \in DOMAIN added : \A k \in Params(added[i].pattern) :
          (/\ added[i].method = added[j].method
           /\ k <= Len(added[j].pattern)
           /\ \A l \in 1 .. k : added[i].pattern[l].text = added[j].pattern[l].text)
          => added[i].pattern[k].name = added[j].pattern[k].name
    /\ \A i \in DOMAIN added : \A k, l \in Params(added[i].pattern) :
          added[i].pattern[k].name = added[i].pattern[l].name => k = l

(* The search in the tree finds the route the list of routes calls for: of *)
(* those that fit, the one that is literal where two first differ, the     *)
(* last one added if two are the same but for names; the default handler   *)
(* if none fits, and 404 only without one.  It is what match's return to   *)
(* the parameter child, after a literal child that led nowhere, is for.    *)
ChosenIsBest ==
    request # Nil =>
       IF \E i \in DOMAIN added : Fits(i)
       THEN /\ request.h \in DOMAIN added /\ Fits(request.h)
            /\ \A i \in DOMAIN added \ {request.h} : Fits(i) => Above(request.h, i)
       ELSE request.h = IF fallback THEN Default ELSE None

(* The handler of a route reads, for each parameter of its pattern, the    *)
(* decoded segment of the request, whatever the branches that failed have  *)
(* left in pathParams_ before, if the routes agree on names.               *)
ParamsBound ==
    (request # Nil /\ request.h \in DOMAIN added /\ NamesAgree) =>
       \A k \in Params(added[request.h].pattern) :
          PathParam(request.set, added[request.h].pattern[k].name) = Decode[request.segs[k]]

(* The bytes that follow a file's header are the ones the Range header     *)
(* means, for every header a client may send and every size: processRequest*)
(* converts markers, suffixes and ends past the file without an off-by-one *)
(* or an overflow.                                                         *)
RangeExact ==
    (response # Nil /\ response.is = "file") =>
       Answers(response.answer, response.header, response.size)

(* A client that keeps the connection can tell where each response ends:   *)
(* its head declares exactly the bytes that follow, whichever of body,     *)
(* chunks, file and range it is.  The exceptions declare nothing, so that  *)
(* the client waits in vain: a refused range, a response nobody set a body *)
(* of, and an empty body in chunks.                                        *)
Framed ==
    response # Nil =>
       IF response.is = "file"
       THEN response.declared =
               IF response.answer.status = 416 THEN NoLength
               ELSE response.answer.last - response.answer.first + 1
       ELSE response.declared =
               IF \/ response.by \in {Fresh, SetFile(Fresh, NoFile)}
                  \/ response.by.chunked /\ response.by.body = 0
               THEN NoLength ELSE response.by.body
=============================================================================
