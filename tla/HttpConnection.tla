---------------------------- MODULE HttpConnection ----------------------------
(***************************************************************************)
(* One HTTP connection end to end: the event loop dispatching its epoll    *)
(* events (src/core/EventLoop.cpp), Connection's handlers, HttpServer's    *)
(* request handling on top of them (src/http/HttpServer.cpp), the socket,  *)
(* and the client at the other end.                                        *)
(*                                                                         *)
(* The loop is one thread, so a handler is one step; the peer, the network *)
(* and the idle timer act between steps.  The client may send a request    *)
(* before it has the answer to the one before (fault "early"), so that one *)
(* read can hold the ends and beginnings of several.                       *)
(***************************************************************************)
EXTENDS Connection, FiniteSets, SequencesExt

CONSTANTS
    Kinds,        \* the requests the client may send, see Kind below
    MaxRequests,  \* how many it sends
    HeadUnits,    \* stream units of the response header (or whole response) to each kind
    BodyUnits,    \* stream units of a file
    Faults        \* what may go wrong: subset of Fault

(* page: handler without a file (and every error response), short if it    *)
(* fits into one write; file: response with a file, whole or a range;      *)
(* "Close" kinds ask for the connection to be closed afterwards; junk:     *)
(* bytes that are not HTTP.                                                *)
Kind  == {"page", "pageClose", "shortClose", "file", "fileClose", "junk"}
Fault == {"fin", "rst", "idle", "shrink", "early"}

ASSUME HttpConnectionAssumption ==
    /\ Kinds \subseteq Kind
    /\ MaxRequests \in Nat
    /\ HeadUnits \in [Kind -> Nat \ {0}]
    /\ BodyUnits \in Nat
    /\ Faults \subseteq Fault

VARIABLES c,         \* the connection, see Connection
          pc,        \* where the event loop is with this connection
          evs,       \* the events epoll_wait returned for it
          asked,     \* the client: kinds of the requests it has sent
          half,      \* the client: the last of them is not sent completely
          received,  \* the client: units of the stream it has read
          parser,    \* the ParserContext: at, between messages or inside one;
                     \* complete, messageComplete
          served,    \* history: kinds of the responses handed to the connection
          promised,  \* history: the stream these responses make up
          lapse,     \* history: see Lapses
          idled      \* history: the idle timer has closed the connection

client  == <<asked, half, received>>
history == <<served, promised, lapse>>
vars    == <<c, pc, evs, client, parser, history, idled>>

(* Response i as the client should see it: header units, then file units. *)
Header(i, k) == [n \in 1 .. HeadUnits[k] |-> <<i, "head", n>>]
Body(i)      == [n \in 1 .. BodyUnits |-> <<i, "body", n>>]
IsFile(k)    == k \in {"file", "fileClose"}
WantsClose(k) == k \in {"pageClose", "shortClose", "fileClose", "junk"}
Response(i, k) == IF IsFile(k) THEN Header(i, k) \o Body(i) ELSE Header(i, k)
Responses(ks)  == FlattenSeq([i \in 1 .. Len(ks) |-> Response(i, ks[i])])

-----------------------------------------------------------------------------
(* HttpServer::processRequest for the i-th request. *)
ProcessRequest(d, k, i) ==
    LET answered == Send(d, Header(i, k))
    IN  IF IsFile(k)
        THEN LET f == SendFile(answered, Body(i))
             IN  IF f.up THEN [f EXCEPT !.state = "SendingResponse"] ELSE f
        ELSE IF WantsClose(k) THEN Close(answered) ELSE ResetForNextRequest(answered)

(* What http_parser makes of the pieces read: "part" is the beginning of a *)
(* request, a kind its end.  It fails for good on junk, on the rest of a   *)
(* request whose beginning went to a parser initialised since (a rest that *)
(* is itself a request is left out), and on anything after a request that  *)
(* wants the connection closed.                                            *)
Ends(ts) == {j \in DOMAIN ts : ts[j] # "part"}
Malformed(ts) ==
    \/ parser.at = "failed"
    \/ 1 \in Ends(ts) /\ parser.at # "inside"
    \/ \E j \in Ends(ts) : ts[j] = "junk" \/ (j < Len(ts) /\ WantsClose(ts[j]))

(* The request in the context after the read: each message that begins     *)
(* resets it.  One that has only begun has no method yet, which finds no   *)
(* route and does not keep the connection; or it lacks only its body.  One *)
(* that two reads have cut in its target keeps the second part of that     *)
(* (setUrl replaces the first), which finds no route.                      *)
Content(ts) ==
    CASE Last(ts) = "part" -> {"shortClose", Last(asked)} \ {"junk"}
      [] Len(ts) = 1 /\ parser.at = "inside" ->
            {Last(ts), IF WantsClose(Last(ts)) THEN "shortClose" ELSE "page"}
      [] OTHER -> {Last(ts)}

(* What can go wrong between responses: one is skipped because a read held *)
(* more than a request; given when the connection is closing, when send    *)
(* drops it but sendFile sends its file; put into the middle of the file   *)
(* in flight; or meant for what is left of a request that was cut.         *)
Lapse == {"skipped", "late", "mixed", "cut"}
Lapses(ts, k) ==
    {l \in Lapse :
        \/ l = "skipped" /\ \E j \in Ends(ts) : j < Len(ts)
        \/ l = "late" /\ c.state = "Closing"
        \/ l = "mixed" /\ c.sending
        \/ l = "cut" /\ k # "junk" /\ Last(ts) \notin {"part", k}}

Record(k) ==
    /\ IF c.state = "Closing" THEN UNCHANGED <<served, promised>>
       ELSE /\ served' = Append(served, k)
            /\ promised' = promised \o Response(Len(served) + 1, k)
    /\ lapse' = lapse \cup Lapses(c.rx, k)

(* Seeded fault: messageComplete stays set. *)
FreshParserSet == [at |-> "between", complete |-> TRUE]

FreshParser == [at |-> "between", complete |-> FALSE]

(* HttpServer::onData: a parse error, a request that is not complete, or   *)
(* one (the last) to process.  Processing that closes the connection frees *)
(* the context that is used next: the process may get away with it (lucky) *)
(* or not.                                                                 *)
OnData(d) ==
    LET i == Len(served) + 1
        complete == parser.complete \/ Ends(c.rx) # {}
    IN  \/ /\ Malformed(c.rx)
           /\ c' = Close(Send(d, Header(i, "junk")))
           /\ parser' = [parser EXCEPT !.at = "failed"]
           /\ Record("junk")
        \/ /\ ~Malformed(c.rx) /\ ~complete
           /\ c' = d
           /\ parser' = [parser EXCEPT !.at = "inside"]
           /\ UNCHANGED history
        \/ /\ ~Malformed(c.rx) /\ complete
           /\ \E k \in Content(c.rx), lucky \in BOOLEAN :
                 LET p == ProcessRequest(d, k, i)
                 IN  /\ c' = IF p.up /\ ~p.ctx /\ ~lucky THEN Terminate(p) ELSE p
                     /\ Record(k)
           /\ parser' = FreshParser

-----------------------------------------------------------------------------
Init ==
    /\ c = [up |-> TRUE, open |-> TRUE, state |-> "ReadingRequest", out |-> <<>>,
            sending |-> FALSE, file |-> <<>>, shrunk |-> FALSE, ctx |-> TRUE,
            interest |-> {"IN"}, queued |-> FALSE,
            rx |-> <<>>, eof |-> FALSE, tx |-> <<>>, reset |-> FALSE]
    /\ pc = "wait" /\ evs = {}
    /\ asked = <<>> /\ half = FALSE /\ received = <<>>
    /\ parser = FreshParser /\ served = <<>> /\ promised = <<>> /\ lapse = {}
    /\ idled = FALSE

(* Where a callback goes after the part for the events in done. *)
After(done) ==
    IF "OUT" \in evs \ done THEN "write" ELSE IF "ERR" \in evs \ done THEN "error" ELSE "wait"

(* epoll_wait returns; the descriptor leaves the ready list, and is        *)
(* reported only if it is still ready.                                     *)
EpollWait ==
    /\ c.up /\ pc = "wait" /\ c.queued
    /\ LET ready == Readiness(c) \cap (c.interest \cup {"ERR"})
       IN  IF ready = {} THEN UNCHANGED <<pc, evs>>
           ELSE pc' = "batch" /\ evs' = ready
    /\ c' = [c EXCEPT !.queued = FALSE]
    /\ UNCHANGED <<client, parser, history, idled>>

(* The loop reaches this descriptor in the batch.  removeFd leaves the     *)
(* callback in place, so a connection closed meanwhile is still called.    *)
Dispatch ==
    /\ c.up /\ pc = "batch"
    /\ pc' = IF "IN" \in evs THEN "read" ELSE After({})
    /\ UNCHANGED <<c, evs, client, parser, history, idled>>

(* Connection::handleRead, one turn of its loop: all that is there. *)
ReadData ==
    /\ c.up /\ pc = "read"
    /\ c.open /\ c.rx # <<>>
    /\ OnData([c EXCEPT !.rx = <<>>])
    /\ UNCHANGED <<pc, evs, client, idled>>

(* Connection::handleRead, last turn: EAGAIN, or end of stream or an error *)
(* (EBADF included), which closes.                                         *)
ReadEnd ==
    /\ c.up /\ pc = "read"
    /\ ~c.open \/ c.rx = <<>>
    /\ c' = IF c.eof \/ c.reset THEN HandleClose(c) ELSE c
    /\ pc' = After({"IN"})
    /\ UNCHANGED <<evs, client, parser, history, idled>>

Write ==
    /\ c.up /\ pc = "write"
    /\ c' = HandleWrite(c)
    /\ pc' = After({"IN", "OUT"})
    /\ UNCHANGED <<evs, client, parser, history, idled>>

Error ==
    /\ c.up /\ pc = "error"
    /\ c' = HandleClose(c)
    /\ pc' = "wait"
    /\ UNCHANGED <<evs, client, parser, history, idled>>

(* The wheel entry fires: the timerfd is dispatched before this descriptor *)
(* in a batch, or alone.                                                   *)
IdleTimeout ==
    /\ "idle" \in Faults
    /\ c.up /\ pc \in {"wait", "batch"} /\ c.open
    /\ c' = HandleClose(c)
    /\ idled' = TRUE
    /\ UNCHANGED <<pc, evs, client, parser, history>>

Loop == EpollWait \/ Dispatch \/ ReadData \/ ReadEnd \/ Write \/ Error

-----------------------------------------------------------------------------
(* The kernel: a change of the socket wakes epoll if the event matters. *)
Wake(d, e) == [d EXCEPT !.queued = @ \/ (d.open /\ e \in d.interest \cup {"ERR"})]

Answered == received = Responses(asked)

(* The client sends a request, whole or (half) its first part only. *)
Request(k, whole) ==
    /\ Answered \/ ("early" \in Faults /\ ~half)
    /\ Len(asked) < MaxRequests
    /\ c.open /\ ~c.eof /\ ~c.reset
    /\ asked' = Append(asked, k)
    /\ half' = ~whole
    /\ c' = Wake([c EXCEPT !.rx = @ \o IF whole THEN <<"part", k>> ELSE <<"part">>], "IN")
    /\ UNCHANGED <<pc, evs, received, parser, history, idled>>

RestOfRequest ==
    /\ half /\ c.open /\ ~c.eof /\ ~c.reset
    /\ half' = FALSE
    /\ c' = Wake([c EXCEPT !.rx = Append(@, Last(asked))], "IN")
    /\ UNCHANGED <<pc, evs, asked, received, parser, history, idled>>

(* The client reads a unit, which makes room in the send queue. *)
Deliver ==
    /\ c.tx # <<>> /\ ~c.reset
    /\ received' = Append(received, Head(c.tx))
    /\ LET d == [c EXCEPT !.tx = Tail(@)]
       IN  c' = IF Len(c.tx) = Cap THEN Wake(d, "OUT") ELSE d
    /\ UNCHANGED <<pc, evs, asked, half, parser, history, idled>>

(* The client closes or half-closes. *)
Fin ==
    /\ "fin" \in Faults
    /\ ~c.eof /\ ~c.reset
    /\ c' = Wake([c EXCEPT !.eof = TRUE], "IN")
    /\ UNCHANGED <<pc, evs, client, parser, history, idled>>

(* The client is gone: what was on its way to it is lost. *)
Rst ==
    /\ "rst" \in Faults
    /\ ~c.reset
    /\ c' = Wake([c EXCEPT !.reset = TRUE, !.tx = <<>>], "ERR")
    /\ UNCHANGED <<pc, evs, client, parser, history, idled>>

(* The server has closed with input unread, which resets the connection:   *)
(* what was on its way to the client may be lost.                          *)
CloseResets ==
    /\ ~c.open /\ c.rx # <<>> /\ c.tx # <<>>
    /\ c' = [c EXCEPT !.tx = <<>>]
    /\ UNCHANGED <<pc, evs, client, parser, history, idled>>

(* Somebody truncates the file that is being sent. *)
Shrink ==
    /\ "shrink" \in Faults
    /\ c.sending /\ c.file # <<>> /\ ~c.shrunk
    /\ c' = [c EXCEPT !.file = <<>>, !.shrunk = TRUE]
    /\ UNCHANGED <<pc, evs, client, parser, history, idled>>

Environment ==
    \/ \E k \in Kinds, whole \in BOOLEAN : Request(k, whole)
    \/ RestOfRequest \/ Deliver
    \/ IdleTimeout \/ Fin \/ Rst \/ CloseResets \/ Shrink

Next == Loop \/ Environment

(* The loop thread runs; the client completes what it starts and reads. *)
Fairness == WF_vars(Loop) /\ WF_vars(RestOfRequest) /\ WF_vars(Deliver)

Spec     == Init /\ [][Next]_vars
FairSpec == Spec /\ Fairness

-----------------------------------------------------------------------------
(* The stream is units, as Header and Body make them. *)
Unit == Nat \X {"head", "body"} \X Nat

ConnectionState ==
    [up : BOOLEAN, open : BOOLEAN, state : {"ReadingRequest", "SendingResponse", "Closing"},
     out : Seq(Unit), sending : BOOLEAN, file : Seq(Unit), shrunk : BOOLEAN,
     ctx : BOOLEAN, interest : SUBSET {"IN", "OUT"}, queued : BOOLEAN,
     rx : Seq(Kinds \cup {"part"}), eof : BOOLEAN, tx : Seq(Unit), reset : BOOLEAN]

TypeOK ==
    /\ c \in ConnectionState
    /\ pc \in {"wait", "batch", "read", "write", "error"}
    /\ evs \subseteq {"IN", "OUT", "ERR"}
    /\ asked \in Seq(Kinds) /\ half \in BOOLEAN /\ received \in Seq(Unit)
    /\ parser \in [at : {"between", "inside", "failed"}, complete : BOOLEAN]
    /\ served \in Seq(Kind) /\ promised \in Seq(Unit)
    /\ lapse \subseteq Lapse /\ idled \in BOOLEAN

(* What the client has read is always the beginning of the right answers   *)
(* in the right order; and while the connection is open, what is on its    *)
(* way, buffered and still in the file completes them: nothing is lost,    *)
(* repeated or overtaken between send's direct write, outputBuffer_ and    *)
(* sendfile, unless a request is answered while a file is in flight or     *)
(* after the decision to close.                                            *)
StreamIntact ==
    LET sent == received \o c.tx
    IN  lapse \subseteq {"skipped", "cut"} =>
        /\ IsPrefix(sent, promised)
        /\ c.up /\ c.open /\ ~c.shrunk /\ ~c.reset =>
              sent \o c.out \o c.file = promised

(* A client that pipelines may get fewer answers than it asks for, never   *)
(* more, although a request cut in two by the end of a read can be         *)
(* answered for its beginning and once more for its rest.                  *)
NoSpareAnswer == Len(served) <= Len(asked)

(* Edge-triggered epoll forgets nothing: whenever the loop waits, a        *)
(* connection with unread input has an event coming, and one with output   *)
(* left is registered for EPOLLOUT and, if the socket has room, has an     *)
(* event coming.                                                           *)
NoLostWakeup ==
    c.up /\ c.open /\ pc = "wait" =>
        /\ c.rx # <<>> \/ c.eof \/ c.reset => c.queued
        /\ c.out # <<>> \/ (c.sending /\ ~c.shrunk) =>
              "OUT" \in c.interest /\ (Len(c.tx) < Cap => c.queued)

(* The server itself closes a connection only when the response is out to  *)
(* the last unit, and only after a request that wants it closed or after a *)
(* file (for keepAlive_ is never set), unless the client went away, the    *)
(* idle timer fired, or a request was answered while it should not be.     *)
ClosesOnlyWhenDone ==
    [][c.open /\ ~c'.open /\ ~c.eof /\ ~c.reset /\ lapse' \subseteq {"skipped", "cut"} =>
         \/ IdleTimeout
         \/ /\ c'.out = <<>> /\ received' \o c'.tx = promised'
            /\ WantsClose(Last(served')) \/ IsFile(Last(served'))]_vars

(* The server is terminated only by losing a connection whose file is in   *)
(* flight with the header out, by writing to a client that is gone, by     *)
(* onData's use of the freed parser context, or by the EPOLLOUT half of an *)
(* event whose EPOLLIN half has closed the connection under its file.      *)
TerminatesOnlyBy ==
    [][c.up /\ ~c'.up =>
         \/ c.sending /\ c.out = <<>> /\ (c.eof \/ c.reset \/ IdleTimeout)
         \/ c.reset
         \/ ReadData /\ ~c'.ctx
         \/ Write /\ ~c.open /\ "mixed" \in lapse]_vars

(* A client that keeps reading gets the whole answer to each request, also *)
(* when the answer needs several rounds of EPOLLOUT and requests are sent  *)
(* early, or to each before the one after which the connection is closed,  *)
(* as long as the client stays, the file keeps its length, the idle timer  *)
(* does not fire, and no request comes at a bad time or cut (Lapses), or   *)
(* so late that close finds it unread.                                     *)
EveryRequestAnswered ==
    \A n \in 1 .. MaxRequests :
        (Len(asked) = n) ~>
            \/ Len(asked) > n
            \/ received = Responses(asked)
            \/ ~c.open /\ (received = promised \/ c.rx # <<>>)
            \/ c.eof \/ c.reset \/ c.shrunk \/ idled \/ lapse # {}

(* A client that asked for the connection to be closed after the response  *)
(* sees it closed: no connection lingers in Closing, whatever the client   *)
(* does, unless the file being sent is truncated or the client sends       *)
(* another request meanwhile, which takes the connection back to reading.  *)
ClosesWhenAsked ==
    (served # <<>> /\ WantsClose(Last(served))) ~>
        (~c.open \/ ~c.up \/ c.shrunk \/ lapse \ {"cut"} # {})

(* Contrast with Connection.cpp:342-343, which say that an abnormal        *)
(* disconnect during a file send runs the clean-up of the upper layer and  *)
(* goes on: the server would still be running.                             *)
SurvivesDisconnect == c.up
=============================================================================
