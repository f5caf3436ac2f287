------------------------------ MODULE TcpServer ------------------------------
(***************************************************************************)
(* src/core/TcpServer.{h,cpp} on src/core/EventLoop.{h,cpp}: accepting,    *)
(* dispatching and closing many connections.                               *)
(*                                                                         *)
(* The loop is one thread.  epoll_wait hands it a batch of events, in an   *)
(* order that nobody promises, and it works through the batch, looking up  *)
(* whatever callback fdContexts_ holds for a descriptor's number when its  *)
(* turn comes; so the module is about the tables that are keyed by         *)
(* descriptor (connections_, fdContexts_, the kernel's) while descriptors  *)
(* are closed and reused, and about the wheel entries pointing to and from *)
(* connections.  Each handler is one step, except the loops of             *)
(* handleAccept and TimeWheel::tick; what Connection does with data is     *)
(* HttpConnection's business.                                              *)
(***************************************************************************)
EXTENDS Integers, FiniteSets, Sequences

CONSTANTS
    MaxFd,      \* descriptors 1 .. MaxFd are available for connections
    Conn,       \* addresses of Connection objects
    Entry,      \* addresses of wheel entries
    Null,
    MaxPeers,   \* how many clients connect
    MaxReplaced,\* how many connections at a time have another close callback
    MaxFiles    \* how many connections' files are in flight at a time

(* Unread data, and whether the client has finished or reset. *)
Socket == [data : BOOLEAN, end : {"no", "fin", "rst"}]

ASSUME TcpServerAssumption ==
    /\ MaxFd \in Nat \ {0} /\ MaxPeers \in Nat /\ MaxReplaced \in Nat /\ MaxFiles \in Nat
    /\ Cardinality(Conn) >= MaxPeers /\ Cardinality(Entry) >= MaxPeers
    /\ Null \notin Conn \cup Entry \cup Socket

Fd     == 1 .. MaxFd
Listen == 0               \* the listening socket
Timer  == MaxFd + 1       \* the loop's timerfd
Source == 0 .. MaxFd + 1

VARIABLES
    status,       \* "serving", "gone" (destroyed), or TcpServer::stop was called:
                  \* "cut" if events of connections were left in the batch,
                  \* else "stopped"
    connections,  \* connections_, by descriptor; it owns its connections
    fdOf,         \* fd_ of each connection
    callback,     \* fdContexts_[fd].callback: the connection it is bound to
    keeps,        \* the descriptors whose callback owns that connection as well:
                  \* sendFile's captures a shared_ptr, the others a bare this
    hooked,       \* the connections whose close callback is removeConnection
    wheelEntry,   \* wheelEntry_ of each connection
    owner,        \* the connection each wheel entry is for; Null: no such entry
    due,          \* inside tick(): entries taken and not reached
    sock,         \* the kernel's sockets, see Socket; Null: not open
    backlog,      \* connections waiting to be accepted
    ready,        \* epoll's ready list: the sources on it
    batch,        \* what is left of the events epoll_wait returned
    pc,           \* "wait", "batch", inside a handler: "accept", "tick"; or the
                  \* process has "crashed"
    peers,        \* how many clients have connected
    refused       \* history: the last accept4 failed and left clients waiting

server == <<status, connections, fdOf, callback, keeps, hooked, wheelEntry, owner>>
kernel == <<sock, backlog, ready, peers>>
vars   == <<server, due, kernel, batch, pc, refused>>

(* The objects that exist between handlers: what connections_ owns, and    *)
(* what a callback in fdContexts_ does.                                    *)
Alive == ({connections[f] : f \in Fd} \cup {callback[f] : f \in keeps}) \ {Null}

(* Sources epoll watches: a closed descriptor is out by itself.  EPOLLOUT  *)
(* is asked for while a file is sent, to a socket that takes some more.    *)
Events(s) ==
    {e \in {"IN", "ERR"} :
        \/ e = "IN"  /\ (s.data \/ s.end # "no")
        \/ e = "ERR" /\ s.end = "rst"}
Pending(x) ==
    CASE x = Listen -> IF backlog # <<>> THEN {"IN"} ELSE {}
      [] x = Timer  -> {"IN"}
      [] OTHER      -> IF sock[x] = Null THEN {}
                       ELSE Events(sock[x]) \cup (IF x \in keeps THEN {"OUT"} ELSE {})

-----------------------------------------------------------------------------
Init ==
    /\ status = "serving"
    /\ connections = [f \in Fd |-> Null]
    /\ callback = [f \in Fd |-> Null] /\ keeps = {} /\ hooked = {}
    /\ fdOf = [c \in Conn |-> -1]
    /\ wheelEntry = [c \in Conn |-> Null]
    /\ owner = [e \in Entry |-> Null]
    /\ due = {}
    /\ sock = [f \in Fd |-> Null]
    /\ backlog = <<>> /\ ready = {} /\ batch = {}
    /\ pc = "wait" /\ peers = 0 /\ refused = FALSE

(* Seeded fault: the socket is never closed. *)
HandleCloseLeaks(C) ==
    /\ fdOf' = [c \in Conn |-> IF c \in C THEN -1 ELSE fdOf[c]]
    /\ UNCHANGED <<sock, ready>>

(* Connection::handleClose of the connections in C, from the removeFd to   *)
(* the close callback.  Nothing happens to one that is closed.             *)
HandleClose(C) ==
    LET closing == {c \in C : fdOf[c] # -1}
        fds     == {fdOf[c] : c \in closing}
    IN  /\ sock' = [f \in Fd |-> IF f \in fds THEN Null ELSE sock[f]]
        /\ ready' = ready \ fds
        /\ fdOf' = [c \in Conn |-> IF c \in closing THEN -1 ELSE fdOf[c]]

(* Seeded fault: the key is the descriptor the connection had. *)
EraseForGood(c) ==
    connections' = [f \in Fd |-> IF f = fdOf[c] THEN Null ELSE connections[f]]

(* TcpServer::removeConnection, called back at the end of handleClose: it  *)
(* erases the key conn->fd(), which handleClose has set to -1 by then.     *)
Erase(c) ==
    connections' = [f \in Fd |-> IF f = fdOf'[c] THEN Null ELSE connections[f]]

(* Seeded fault: the wheel entry is left behind. *)
RemoveConnectionOnly(c) == Erase(c) /\ UNCHANGED <<wheelEntry, owner>>

RemoveConnection(c) ==
    /\ Erase(c)
    /\ wheelEntry' = [wheelEntry EXCEPT ![c] = Null]
    /\ owner' = [e \in Entry |-> IF e = wheelEntry[c] THEN Null ELSE owner[e]]

(* handleClose with the close callback, unless somebody replaced that.     *)
Close(c) ==
    /\ HandleClose({c})
    /\ IF fdOf[c] # -1 /\ c \in hooked THEN RemoveConnection(c)
       ELSE UNCHANGED <<connections, wheelEntry, owner>>

-----------------------------------------------------------------------------
(* EventLoop::loop: epoll_wait looks at the sources on the ready list, all *)
(* or as many as fill events_, and returns those that still have events;   *)
(* edge-triggered, so they are off the list afterwards.  Each event keeps, *)
(* as history, the connection it was collected for.                        *)
EpollWait ==
    /\ pc = "wait"
    /\ \E taken \in SUBSET ready \ {{}} :
          /\ batch' = {[src |-> x, ev |-> Pending(x), for |-> IF x \in Fd THEN callback[x] ELSE Null] :
                          x \in {y \in taken : Pending(y) # {}}}
          /\ ready' = ready \ taken
    /\ pc' = "batch"
    /\ UNCHANGED <<server, due, sock, backlog, peers, refused>>

(* After a handler: the next event, or epoll_wait again. *)
Done(b) == pc' = IF b = {} THEN "wait" ELSE "batch"

BatchEnd ==
    /\ pc = "batch" /\ batch = {}
    /\ pc' = "wait"
    /\ UNCHANGED <<server, due, kernel, batch, refused>>

DispatchListen(x) ==
    /\ pc = "batch" /\ x.src = Listen
    /\ batch' = batch \ {x}
    /\ pc' = "accept"
    /\ UNCHANGED <<server, due, kernel, refused>>

(* The timer's callback: tick() takes the entries that are due. *)
DispatchTimer(x) ==
    /\ pc = "batch" /\ x.src = Timer
    /\ batch' = batch \ {x}
    /\ due' \in SUBSET {e \in Entry : owner[e] # Null}
    /\ pc' = "tick"
    /\ UNCHANGED <<server, kernel, refused>>

(* Seeded fault: an empty read is taken for an error. *)
EndsInCloseEagerly(c, ev) ==
    fdOf[c] # -1 => "IN" \in ev /\ ~sock[fdOf[c]].data

(* A connection's callback: handleRead, handleWrite and handleError, by    *)
(* the events.  It ends in handleClose if the stream has ended, if reading *)
(* fails (on a closed connection: there is nothing left to close), or on   *)
(* an error.                                                               *)
EndsInClose(c, ev) ==
    fdOf[c] # -1 => ("IN" \in ev /\ sock[fdOf[c]].end # "no") \/ "ERR" \in ev

(* The data callback is called; a transfer goes on. *)
Reads(c, ev)  == fdOf[c] # -1 /\ "IN" \in ev /\ sock[fdOf[c]].data
Writes(c, ev) == fdOf[c] # -1 /\ "OUT" \in ev /\ ("IN" \in ev => sock[fdOf[c]].end = "no")

(* The callback that owns the connection is installed by sendFile, called  *)
(* from the data callback, and replaced when the file is out, or by a send *)
(* that has to buffer.  The data callback, or what follows a file, may     *)
(* close the connection as well; and a connection nobody owns any more is  *)
(* destroyed after the callback, which closes its descriptor.              *)
DispatchConnection(x) ==
    /\ pc = "batch" /\ x.src \in Fd
    /\ callback[x.src] \in Alive
    /\ UNCHANGED <<status, callback, hooked, due, backlog, peers, refused>>
    /\ LET f == x.src
           c == callback[f]
       IN  /\ keeps' \in {k \in {keeps, keeps \cup {f}, keeps \ {f}} :
                             k # keeps => Reads(c, x.ev) \/ (f \notin k /\ Writes(c, x.ev))}
           /\ Cardinality(keeps') <= MaxFiles
           /\ \/ EndsInClose(c, x.ev) /\ Close(c)
              \/ /\ Reads(c, x.ev) \/ f \in keeps \ keeps'
                 /\ Close(c)
              \/ /\ ~EndsInClose(c, x.ev)
                 /\ UNCHANGED <<connections, fdOf, wheelEntry, owner>>
                 /\ IF c \in Alive'
                    THEN /\ sock' = IF "IN" \in x.ev THEN [sock EXCEPT ![f].data = FALSE] ELSE sock
                         /\ ready' = ready \cup (keeps' \ keeps)
                    ELSE /\ sock' = [sock EXCEPT ![f] = Null]
                         /\ ready' = ready \ {f}
    /\ batch' = batch \ {x}
    /\ Done(batch')

(* EPOLLOUT of a connection that is closed, or that the EPOLLIN half of    *)
(* the event closes: with no output left, handleWrite calls modFd with the *)
(* descriptor -1, and nothing catches what that throws.                    *)
DispatchThrows(x) ==
    /\ pc = "batch" /\ x.src \in Fd /\ "OUT" \in x.ev
    /\ LET c == callback[x.src]
       IN  /\ c \in Alive
           /\ fdOf[c] # -1 => "IN" \in x.ev /\ (sock[fdOf[c]].data \/ sock[fdOf[c]].end # "no")
    /\ pc' = "crashed"
    /\ UNCHANGED <<server, due, kernel, batch, refused>>

(* The callback's bare this is a destroyed connection: undefined, taken    *)
(* for the end of the process.                                             *)
DispatchDestroyed(x) ==
    /\ pc = "batch" /\ x.src \in Fd
    /\ callback[x.src] \notin Alive
    /\ pc' = "crashed"
    /\ UNCHANGED <<server, due, kernel, batch, refused>>

(* handleAccept, one turn: the kernel gives the lowest free descriptor.    *)
(* Assigning to connections_ and fdContexts_ frees a closed connection     *)
(* still kept there; its address is not used again while a weak_ptr in a   *)
(* wheel entry refers to it.  The connection callback may replace the      *)
(* close callback.                                                         *)
Accept ==
    /\ pc = "accept" /\ backlog # <<>>
    /\ \E fd \in Fd, c \in Conn \ (Alive \cup {owner[e] : e \in Entry}), e \in Entry :
          /\ sock[fd] = Null /\ \A f \in Fd : sock[f] = Null => fd <= f
          /\ owner[e] = Null
          /\ sock' = [sock EXCEPT ![fd] = Head(backlog)]
          /\ connections' = [connections EXCEPT ![fd] = c]
          /\ fdOf' = [fdOf EXCEPT ![c] = fd]
          /\ callback' = [callback EXCEPT ![fd] = c]
          /\ keeps' = keeps \ {fd}
          /\ hooked' \in {hooked \cup {c}, hooked \ {c}}
          /\ ready' = IF Events(Head(backlog)) # {} THEN ready \cup {fd} ELSE ready
          /\ owner' = [owner EXCEPT ![e] = c]
          /\ wheelEntry' = [wheelEntry EXCEPT ![c] = e]
    /\ Cardinality(Alive' \ hooked') <= MaxReplaced
    /\ backlog' = Tail(backlog)
    /\ refused' = FALSE
    /\ UNCHANGED <<status, due, batch, pc, peers>>

(* Seeded fault: one connection per event. *)
AcceptEndEarly ==
    /\ pc = "accept"
    /\ refused' = FALSE
    /\ Done(batch)
    /\ UNCHANGED <<server, due, kernel, batch>>

(* handleAccept, last turn: EAGAIN. *)
AcceptEnd ==
    /\ pc = "accept" /\ backlog = <<>>
    /\ refused' = FALSE
    /\ Done(batch)
    /\ UNCHANGED <<server, due, kernel, batch>>

(* Or any other error, EMFILE when no descriptor is free: the loop ends as *)
(* well, with clients in the backlog.  ECONNABORTED takes the first away.  *)
AcceptFails ==
    /\ pc = "accept" /\ backlog # <<>>
    /\ backlog' \in {backlog, Tail(backlog)}
    /\ refused' = (backlog' # <<>>)
    /\ Done(batch)
    /\ UNCHANGED <<server, due, sock, ready, batch, peers>>

(* tick() reaches an entry: the idle callback detaches it from its         *)
(* connection and force-closes that, if it still exists.  Deleted after.   *)
TickFire(e) ==
    /\ pc = "tick" /\ e \in due
    /\ due' = due \ {e}
    /\ LET c == owner[e]
       IN  /\ IF c \in Alive
              THEN /\ wheelEntry' = [wheelEntry EXCEPT ![c] = Null]
                   /\ HandleClose({c})
                   /\ IF c \in hooked THEN Erase(c) ELSE UNCHANGED connections
              ELSE UNCHANGED <<wheelEntry, sock, ready, fdOf, connections>>
           /\ owner' = [owner EXCEPT ![e] = Null]
    /\ UNCHANGED <<status, callback, keeps, hooked, backlog, peers, batch, pc, refused>>

(* Seeded fault: the walk ends after the first entry. *)
TickEndEarly ==
    /\ pc = "tick"
    /\ Done(batch)
    /\ UNCHANGED <<server, due, kernel, batch, refused>>

TickEnd ==
    /\ pc = "tick" /\ due = {}
    /\ Done(batch)
    /\ UNCHANGED <<server, due, kernel, batch, refused>>

(* TcpServer::stop: called while the loop does not run, from runInLoop or  *)
(* a callback while it does, or from the connection callback in            *)
(* handleAccept.  It destroys the connections it closes, except those that *)
(* a callback owns; the entries of those without removeConnection remain.  *)
Stop ==
    /\ pc \in {"wait", "batch", "accept"} /\ status = "serving"
    /\ status' = IF \E x \in batch : x.src \in Fd \ keeps THEN "cut" ELSE "stopped"
    /\ HandleClose(Alive)
    /\ connections' = [f \in Fd |-> Null]
    /\ LET removed == {c \in Alive \cap hooked : fdOf[c] # -1}
       IN  /\ wheelEntry' = [c \in Conn |-> IF c \in removed THEN Null ELSE wheelEntry[c]]
           /\ owner' = [e \in Entry |-> IF owner[e] \in removed THEN Null ELSE owner[e]]
    /\ backlog' = <<>>
    /\ UNCHANGED <<callback, keeps, hooked, due, batch, pc, peers, refused>>

(* ~TcpServer, while the loop does not run: the close callbacks are taken  *)
(* back, so wheel entries stay behind, and the connections are destroyed   *)
(* and closed by that; but one whose file is in flight goes on.            *)
Destroy ==
    /\ pc = "wait" /\ status = "serving"
    /\ status' = "gone"
    /\ hooked' = {}
    /\ sock' = [f \in Fd |-> IF f \in keeps THEN sock[f] ELSE Null]
    /\ ready' = ready \cap (keeps \cup {Timer})
    /\ connections' = [f \in Fd |-> Null]
    /\ backlog' = <<>>
    /\ UNCHANGED <<fdOf, callback, keeps, wheelEntry, owner, due, batch, pc, peers, refused>>

Loop ==
    \/ EpollWait \/ BatchEnd
    \/ \E x \in batch :
          \/ DispatchListen(x) \/ DispatchTimer(x)
          \/ DispatchConnection(x) \/ DispatchThrows(x) \/ DispatchDestroyed(x)
    \/ Accept \/ AcceptEnd \/ AcceptFails
    \/ (\E e \in Entry : TickFire(e)) \/ TickEnd

-----------------------------------------------------------------------------
(* Clients and the kernel. *)
Connect ==
    /\ status = "serving" /\ peers < MaxPeers
    /\ peers' = peers + 1
    /\ backlog' = Append(backlog, [data |-> FALSE, end |-> "no"])
    /\ ready' = ready \cup {Listen}
    /\ UNCHANGED <<server, due, sock, batch, pc, refused>>

(* A client sends or leaves, before or after it has been accepted; or it   *)
(* reads of a file that is sent to it, which makes room in the socket.     *)
Moves(s) ==
    {t \in Socket : s.end = "no" /\ (t.data \/ t.end # "no") /\ (s.data => t.data)} \ {s}

ClientMoves ==
    \/ \E f \in Fd :
          /\ sock[f] # Null
          /\ \E t \in Moves(sock[f]) : sock' = [sock EXCEPT ![f] = t]
          /\ ready' = ready \cup {f}
          /\ UNCHANGED <<server, due, backlog, batch, pc, peers, refused>>
    \/ \E i \in DOMAIN backlog :
          /\ \E t \in Moves(backlog[i]) : backlog' = [backlog EXCEPT ![i] = t]
          /\ UNCHANGED <<server, due, sock, ready, batch, pc, peers, refused>>
    \/ \E f \in keeps :
          /\ sock[f] # Null /\ ready' = ready \cup {f}
          /\ UNCHANGED <<server, due, sock, backlog, batch, pc, peers, refused>>

TimerExpires ==
    /\ Timer \notin ready /\ ready' = ready \cup {Timer}
    /\ UNCHANGED <<server, due, sock, backlog, batch, pc, peers, refused>>

Outside == pc # "crashed" /\ (Connect \/ ClientMoves \/ TimerExpires)

Next == Loop \/ Stop \/ Destroy \/ Outside

Spec == Init /\ [][Next]_vars

-----------------------------------------------------------------------------
TypeOK ==
    /\ status \in {"serving", "stopped", "cut", "gone"}
    /\ connections \in [Fd -> Conn \cup {Null}]
    /\ fdOf \in [Conn -> Fd \cup {-1}]
    /\ callback \in [Fd -> Conn \cup {Null}]
    /\ keeps \subseteq Fd /\ hooked \subseteq Conn
    /\ wheelEntry \in [Conn -> Entry \cup {Null}]
    /\ owner \in [Entry -> Conn \cup {Null}]
    /\ due \subseteq Entry
    /\ sock \in [Fd -> Socket \cup {Null}]
    /\ backlog \in Seq(Socket)
    /\ ready \subseteq Source
    /\ batch \subseteq [src : Source, ev : SUBSET {"IN", "OUT", "ERR"}, for : Conn \cup {Null}]
    /\ pc \in {"wait", "batch", "accept", "tick", "crashed"}
    /\ peers \in 0 .. MaxPeers
    /\ refused \in BOOLEAN

(* A callback the loop is going to call is bound to a connection that      *)
(* still exists, also when that was closed earlier in the same batch       *)
(* (fdContexts_ keeps the callback, with a bare this): the connections_    *)
(* entry that removeConnection fails to erase keeps it alive.  The one     *)
(* exception is a stop() that cuts into a batch with events of connections *)
(* that have no file in flight.                                            *)
NoDanglingCallback ==
    /\ \A x \in batch : x.src \in Fd => callback[x.src] \in Alive \/ status = "cut"
    /\ \A f \in Fd : sock[f] # Null => callback[f] \in Alive

(* The tables keyed by descriptor agree with the kernel: an open socket    *)
(* belongs to exactly one connection, found under its number in both, so   *)
(* none is leaked, closed twice, or served by another's handler.  Only a   *)
(* connection that outlives the server with its file is in no table of it. *)
TablesAgree ==
    \A f \in Fd : sock[f] # Null =>
        /\ {c \in Alive : fdOf[c] = f} = {callback[f]}
        /\ connections[f] = callback[f] \/ (status = "gone" /\ f \in keeps)

(* Idle supervision: every open connection has a wheel entry; connections  *)
(* and entries point at each other, and at nothing that is gone; and every *)
(* entry is that of an open connection, unless the connection's close      *)
(* callback has been replaced by its user or taken back by ~TcpServer.     *)
Supervised ==
    /\ \A c \in Alive : fdOf[c] # -1 => wheelEntry[c] # Null
    /\ \A c \in Alive, e \in Entry : wheelEntry[c] = e <=> owner[e] = c
    /\ \A e \in Entry : owner[e] \in hooked => owner[e] \in Alive /\ fdOf[owner[e]] # -1

(* The contract TimeWheel depends on: nothing removes an entry tick() has  *)
(* taken and not reached, other than tick() itself.                        *)
WheelContract ==
    [][\A e \in due : owner'[e] = Null => TickFire(e)]_vars

(* Edge-triggered epoll forgets no peer: when the loop waits, clients in   *)
(* the backlog have the listening socket's edge still to come, unless the  *)
(* last accept4 failed and left them there; and a socket with              *)
(* unread data or an end nobody noticed has its event coming, whatever     *)
(* happened to the events of the descriptor's earlier owners.              *)
NoForgottenPeer ==
    pc = "wait" =>
        /\ backlog # <<>> => Listen \in ready \/ refused
        /\ \A f \in Fd : sock[f] # Null /\ Events(sock[f]) # {} => f \in ready

(* A connection is closed for a reason of its own: its client ended or     *)
(* sent what made the data callback close it, its idle entry fired, its    *)
(* file is out, the server stopped; or, on a reused descriptor, by an      *)
(* EPOLLERR collected for the descriptor's previous owner.                 *)
ClosedForCause ==
    [][\A f \in Fd : sock[f] # Null /\ sock'[f] = Null =>
            \/ sock[f].data \/ sock[f].end # "no"
            \/ \E e \in due : owner[e] = callback[f]
            \/ f \in keeps \ keeps'
            \/ status' # status
            \/ \E x \in batch \ batch' :
                  x.src = f /\ x.for # callback[f] /\ "ERR" \in x.ev]_vars

(* Contrast with eventloop_test.cpp:105, "removeFd: callback NOT fired     *)
(* after removal": the loop would never call back a removed descriptor.    *)
NoCallbackAfterRemoval ==
    [][\A x \in batch : DispatchConnection(x) => fdOf[callback[x.src]] = x.src]_vars
=============================================================================
