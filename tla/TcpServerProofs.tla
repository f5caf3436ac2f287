--------------------------- MODULE TcpServerProofs ---------------------------
(***************************************************************************)
(* TcpServer for any numbers of descriptors, objects, wheel entries and    *)
(* clients: the tables agree, nothing the loop calls back is gone, idle    *)
(* supervision is complete and no peer is forgotten.                       *)
(*                                                                         *)
(* TcpInv says how the tables are keyed (Keyed), what the rest of a batch  *)
(* may still rely on (BatchOK), what an event was collected for while      *)
(* descriptors can still be given out again in its batch (Collected), what *)
(* tick() has taken (DueOK), and where each edge is (Coming).              *)
(***************************************************************************)
EXTENDS TcpServer, SequenceTheorems, TLAPS

(* The descriptors whose callback is bound to a connection that exists.    *)
Owned == {f \in Fd : connections[f] # Null \/ f \in keeps}

Keyed ==
    /\ \A f \in Fd : connections[f] # Null => connections[f] = callback[f]
    /\ \A f \in Owned : callback[f] # Null /\ fdOf[callback[f]] \in {f, -1}
    /\ \A f, g \in Fd : callback[f] = callback[g] /\ callback[f] # Null => f = g
    /\ \A f \in Fd : sock[f] # Null <=> f \in Owned /\ fdOf[callback[f]] = f
    /\ status = "serving" => connections = callback
    /\ status # "serving" => backlog = <<>> /\ \A f \in Fd : connections[f] = Null
    /\ status \in {"stopped", "cut"} => \A f \in Fd : sock[f] = Null
    /\ status = "gone" => hooked = {}

BatchOK ==
    /\ \A x \in batch : x.src \in Fd => x.src \in Owned \/ status = "cut"
    /\ \A x, y \in batch : x.src = y.src => x = y
    /\ pc = "wait" => batch = {}
    /\ pc = "accept" => \A x \in batch : x.src # Listen

DueOK == (pc # "tick" => due = {}) /\ \A e \in due : owner[e] # Null

(* The edge of a socket that has something to say, and of the listening    *)
(* socket, is still on the ready list or in the batch.                     *)
Noticed(f) ==
    sock[f] # Null /\ Events(sock[f]) # {} =>
        f \in ready \/ \E x \in batch : x.src = f /\ "IN" \in x.ev
Coming ==
    /\ \A f \in Fd : Noticed(f)
    /\ backlog # <<>> => Listen \in ready \/ refused \/ pc = "accept" \/ \E x \in batch : x.src = Listen

(* Until the listening socket's turn in a batch has come, each event is    *)
(* for the connection its descriptor still has; while accepting, a         *)
(* descriptor that is not that connection's any more is in use.  So an     *)
(* event collected for a connection finds that one, or is for another.     *)
Own(x) == x.for = callback[x.src]
Collected ==
    \A x \in batch : x.src \in Fd =>
        /\ (\E y \in batch : y.src = Listen) => Own(x)
        /\ pc = "accept" /\ status = "serving" => Own(x) \/ sock[x.src] # Null
        /\ Own(x) /\ sock[x.src] # Null /\ "ERR" \in x.ev => sock[x.src].end = "rst"

TcpInv == TypeOK /\ Keyed /\ Supervised /\ BatchOK /\ DueOK /\ Coming /\ Collected

-----------------------------------------------------------------------------
LEMMA Sources ==
    /\ Listen \notin Fd /\ Timer \notin Fd /\ Listen # Timer /\ -1 \notin Fd /\ -1 \notin Source
    /\ Source = Fd \cup {Listen, Timer}
    /\ Null \notin Conn /\ Null \notin Entry /\ Null \notin Socket
  BY TcpServerAssumption DEF Listen, Timer, Fd, Source

LEMMA AliveIs ==
    ASSUME TypeOK, Keyed
    PROVE  /\ Alive \subseteq Conn
           /\ \A d : d \in Alive <=> \E f \in Owned : callback[f] = d
<1>1. \A f \in Owned : callback[f] \in Conn
  BY DEF TypeOK, Keyed, Owned
<1>2. \A d \in Alive : \E f \in Owned : callback[f] = d
  BY DEF Alive, Keyed, Owned, TypeOK
<1>3. \A f \in Owned : callback[f] \in Alive
  BY DEF Alive, Keyed, Owned
<1> QED
  BY <1>1, <1>2, <1>3

LEMMA InitInv == Init => TcpInv
<1> SUFFICES ASSUME Init PROVE TcpInv
  OBVIOUS
<1> USE Sources DEF Init
<1>1. TypeOK
  <2>1. 0 \in 0 .. MaxPeers /\ <<>> \in Seq(Socket) /\ -1 \in Fd \cup {-1} /\ FALSE \in BOOLEAN
    BY TcpServerAssumption, EmptySeq
  <2> QED
    BY <2>1 DEF TypeOK
<1>2. Keyed /\ BatchOK /\ DueOK /\ Coming /\ Collected
  BY DEF Keyed, Owned, BatchOK, DueOK, Coming, Noticed, Collected
<1>3. Supervised
  BY DEF Supervised, Alive
<1> QED
  BY <1>1, <1>2, <1>3 DEF TcpInv

(* handleClose and removeConnection of a connection that exists: its       *)
(* descriptor is closed, and its key stays where it is.                    *)
LEMMA Closing ==
    ASSUME TypeOK, Keyed, NEW c \in Alive, HandleClose({c}), Erase(c) \/ UNCHANGED connections
    PROVE  /\ c \in Conn /\ connections' = connections
           /\ fdOf' = [fdOf EXCEPT ![c] = -1]
           /\ sock' = [f \in Fd |-> IF f = fdOf[c] THEN Null ELSE sock[f]]
           /\ ready' = ready \ {fdOf[c]}
<1>1. c \in Conn
  BY AliveIs
<1>2. fdOf' = [fdOf EXCEPT ![c] = -1]
  BY <1>1 DEF HandleClose, TypeOK
<1>3. connections' = connections
  BY <1>1, <1>2, Sources DEF Erase, TypeOK
<1>4. {fdOf[d] : d \in {d \in {c} : fdOf[d] # -1}} = IF fdOf[c] # -1 THEN {fdOf[c]} ELSE {}
  OBVIOUS
<1>5. sock' = [f \in Fd |-> IF f = fdOf[c] THEN Null ELSE sock[f]]
  BY <1>4, Sources DEF HandleClose, TypeOK
<1>6. ready' = ready \ {fdOf[c]}
  BY <1>4, Sources DEF HandleClose, TypeOK
<1> QED
  BY <1>1, <1>2, <1>3, <1>5, <1>6

(* Its wheel entry is removed or fired; or left, because its close         *)
(* callback is not removeConnection, or because it was closed before.      *)
Unlinked(c) ==
    /\ wheelEntry' = [wheelEntry EXCEPT ![c] = Null]
    /\ owner' = [e \in Entry |-> IF owner[e] = c THEN Null ELSE owner[e]]
Left(c) == (c \notin hooked \/ fdOf[c] = -1) /\ UNCHANGED <<wheelEntry, owner>>

(* With that, and whatever becomes of a file in flight, the tables agree.  *)
LEMMA ClosingKeeps ==
    ASSUME TypeOK, Keyed, Supervised, NEW k \in Owned, NEW c, c = callback[k],
           HandleClose({c}), Erase(c) \/ UNCHANGED connections, Unlinked(c) \/ Left(c),
           keeps' \in {keeps, keeps \cup {k}, keeps \ {k}},
           UNCHANGED <<status, callback, hooked, backlog>>
    PROVE  /\ Keyed' /\ Supervised'
           /\ Owned \ {k} \subseteq Owned'
           /\ connections' \in [Fd -> Conn \cup {Null}] /\ fdOf' \in [Conn -> Fd \cup {-1}]
           /\ wheelEntry' \in [Conn -> Entry \cup {Null}] /\ owner' \in [Entry -> Conn \cup {Null}]
           /\ sock' \in [Fd -> Socket \cup {Null}] /\ ready' \subseteq Source /\ keeps' \subseteq Fd
<1>1. c \in Alive
  BY AliveIs
<1>2. /\ c \in Conn /\ connections' = connections
      /\ fdOf' = [fdOf EXCEPT ![c] = -1]
      /\ sock' = [f \in Fd |-> IF f = fdOf[c] THEN Null ELSE sock[f]]
      /\ ready' = ready \ {fdOf[c]}
  BY <1>1, Closing
<1>3. Owned' \subseteq Owned /\ Owned \ {k} \subseteq Owned'
  BY <1>2 DEF Owned
<1>5. /\ connections' \in [Fd -> Conn \cup {Null}] /\ fdOf' \in [Conn -> Fd \cup {-1}]
      /\ wheelEntry' \in [Conn -> Entry \cup {Null}] /\ owner' \in [Entry -> Conn \cup {Null}]
      /\ sock' \in [Fd -> Socket \cup {Null}] /\ ready' \subseteq Source /\ keeps' \subseteq Fd
  BY <1>2 DEF TypeOK, Unlinked, Left, Owned
<1>6. Keyed'
  BY <1>2, <1>3, Sources DEF Keyed, TypeOK, Owned
<1>7. \A d : d \in Alive' <=> \E f \in Owned' : callback[f] = d
  <2>1. \A f \in Owned' : callback'[f] \in Alive'
    BY <1>6 DEF Alive, Keyed, Owned
  <2>2. \A d \in Alive' : \E f \in Owned' : callback'[f] = d
    BY <1>5, <1>6 DEF Alive, Keyed, Owned, TypeOK
  <2> QED
    BY <2>1, <2>2
<1>8. Alive' \subseteq Alive /\ \A d \in Alive : d # c => d \in Alive'
  BY <1>3, <1>7, AliveIs
<1>9. \A d \in Alive : d \in Conn /\ d # Null /\ (d # c => fdOf'[d] = fdOf[d])
  BY <1>2, AliveIs DEF TypeOK, Keyed
<1>10. ASSUME NEW d \in Alive', fdOf'[d] # -1 PROVE wheelEntry'[d] # Null
  <2>1. d \in Alive /\ d # c
    BY <1>2, <1>8, <1>10 DEF TypeOK
  <2> QED
    BY <1>9, <1>10, <2>1 DEF Supervised, Unlinked, Left, TypeOK
<1>11. ASSUME NEW d \in Alive', NEW e \in Entry PROVE wheelEntry'[d] = e <=> owner'[e] = d
  BY <1>2, <1>8, <1>9, Sources DEF Supervised, Unlinked, Left, TypeOK
<1>12. ASSUME NEW e \in Entry, owner'[e] \in hooked'
       PROVE  owner'[e] \in Alive' /\ fdOf'[owner'[e]] # -1
  <2>1. owner'[e] = owner[e] /\ owner[e] # c
    BY <1>12, Sources DEF Supervised, Unlinked, Left, TypeOK
  <2>2. owner[e] \in Alive /\ fdOf[owner[e]] # -1
    BY <1>12, <2>1 DEF Supervised
  <2> QED
    BY <1>8, <1>9, <2>1, <2>2
<1>13. Supervised'
  BY <1>10, <1>11, <1>12 DEF Supervised
<1> QED
  BY <1>3, <1>5, <1>6, <1>13

(* What epoll_wait makes of one source.                                    *)
Event(x) == [src |-> x, ev |-> Pending(x), for |-> IF x \in Fd THEN callback[x] ELSE Null]

LEMMA EventIs ==
    ASSUME TypeOK, NEW x \in Source
    PROVE  /\ Event(x) \in [src : Source, ev : SUBSET {"IN", "OUT", "ERR"}, for : Conn \cup {Null}]
           /\ Event(x).src = x /\ Event(x).ev = Pending(x)
           /\ x \in Fd => Event(x).for = callback[x]
           /\ x \in Fd => /\ sock[x] = Null => Pending(x) = {}
                          /\ sock[x] # Null => /\ Events(sock[x]) \subseteq Pending(x)
                                               /\ "ERR" \in Pending(x) => "ERR" \in Events(sock[x])
           /\ x = Listen => (Pending(x) # {} <=> backlog # <<>>)
<1>1. Pending(x) \subseteq {"IN", "OUT", "ERR"}
  BY Sources DEF Pending, Events
<1>2. /\ x \in Fd => /\ sock[x] = Null => Pending(x) = {}
                     /\ sock[x] # Null => /\ Events(sock[x]) \subseteq Pending(x)
                                          /\ "ERR" \in Pending(x) => "ERR" \in Events(sock[x])
      /\ x = Listen => (Pending(x) # {} <=> backlog # <<>>)
  BY Sources DEF Pending
<1> QED
  BY <1>1, <1>2 DEF Event, TypeOK

LEMMA EpollWaitStep ==
    ASSUME TcpInv, EpollWait
    PROVE  TcpInv'
<1> USE Sources DEF TcpInv, server, kernel
<1>1. PICK taken \in SUBSET ready \ {{}} :
         /\ batch' = {Event(x) : x \in {y \in taken : Pending(y) # {}}}
         /\ ready' = ready \ taken
  BY DEF EpollWait, Event
<1>2. /\ pc = "wait" /\ pc' = "batch" /\ batch = {}
      /\ UNCHANGED <<status, connections, fdOf, callback, keeps, hooked, wheelEntry, owner, due, sock, backlog, peers, refused>>
  BY DEF EpollWait, BatchOK
<1>3. \A x \in taken : x \in Source
  BY <1>1 DEF TypeOK
<1>4. \A x \in batch' : \E y \in taken : x = Event(y) /\ Pending(y) # {}
  BY <1>1
<1>5. \A y \in taken : Pending(y) # {} => Event(y) \in batch' /\ Event(y).src = y
  BY <1>1, <1>3, EventIs
<1>6. \A x \in batch' :
         /\ x.src \in taken /\ x = Event(x.src)
         /\ x \in [src : Source, ev : SUBSET {"IN", "OUT", "ERR"}, for : Conn \cup {Null}]
         /\ x.src \in Fd => /\ x.src \in Owned /\ x.for = callback[x.src]
                            /\ "ERR" \in x.ev => "ERR" \in Events(sock[x.src])
  <2> SUFFICES ASSUME NEW x \in batch'
               PROVE  /\ x.src \in taken /\ x = Event(x.src)
                      /\ x \in [src : Source, ev : SUBSET {"IN", "OUT", "ERR"}, for : Conn \cup {Null}]
                      /\ x.src \in Fd => /\ x.src \in Owned /\ x.for = callback[x.src]
                                         /\ "ERR" \in x.ev => "ERR" \in Events(sock[x.src])
    OBVIOUS
  <2>1. PICK y \in taken : x = Event(y) /\ Pending(y) # {}
    BY <1>4
  <2>2. y \in Source
    BY <1>3
  <2>3. /\ x \in [src : Source, ev : SUBSET {"IN", "OUT", "ERR"}, for : Conn \cup {Null}]
        /\ x.src = y /\ x.ev = Pending(y)
        /\ y \in Fd => x.for = callback[y]
        /\ y \in Fd => sock[y] # Null /\ ("ERR" \in Pending(y) => "ERR" \in Events(sock[y]))
    BY <2>1, <2>2, EventIs
  <2> QED
    BY <2>1, <2>3 DEF Keyed
<1>7. TypeOK'
  BY <1>1, <1>2, <1>6 DEF TypeOK
<1>8. Keyed'
  BY <1>2 DEF Keyed, Owned
<1>9. Supervised'
  BY <1>2 DEF Supervised, Alive
<1>10. BatchOK'
  <2>1. \A x, y \in batch' : x.src = y.src => x = y
    BY <1>6
  <2> QED
    BY <1>2, <1>6, <2>1 DEF BatchOK, Owned
<1>11. DueOK'
  BY <1>2 DEF DueOK
<1>12. Coming'
  <2>1. ASSUME NEW f \in Fd, sock[f] # Null, Events(sock[f]) # {}
        PROVE  f \in ready' \/ \E x \in batch' : x.src = f /\ "IN" \in x.ev
    <3>1. f \in ready
      BY <1>2, <2>1 DEF Coming, Noticed
    <3>2. f \in Source /\ "IN" \in Pending(f)
      BY <2>1, EventIs DEF Events
    <3>3. Pending(f) # {} /\ Event(f).ev = Pending(f)
      BY <3>2, EventIs
    <3> QED
      BY <1>1, <1>5, <3>1, <3>2, <3>3
  <2>2. ASSUME backlog # <<>>, ~refused PROVE Listen \in ready' \/ \E x \in batch' : x.src = Listen
    <3>1. Listen \in ready
      BY <1>2, <2>2 DEF Coming
    <3>2. Listen \in Source /\ Pending(Listen) # {}
      BY <2>2, EventIs
    <3> QED
      BY <1>1, <1>5, <3>1, <3>2
  <2> QED
    BY <1>2, <2>1, <2>2 DEF Coming, Noticed
<1>13. Collected'
  <2>1. \A x \in batch' : x.src \in Fd => x.for = callback[x.src]
    BY <1>6
  <2>2. \A x \in batch' : x.src \in Fd /\ "ERR" \in x.ev => sock[x.src].end = "rst"
    BY <1>6 DEF Events
  <2> QED
    BY <1>2, <2>1, <2>2 DEF Collected, Own
<1> QED
  BY <1>7, <1>8, <1>9, <1>10, <1>11, <1>12, <1>13

LEMMA BatchEndStep ==
    ASSUME TcpInv, BatchEnd
    PROVE  TcpInv'
<1> USE Sources DEF TcpInv, TypeOK, server, kernel
<1>1. TypeOK'
  BY DEF BatchEnd
<1>2. Keyed'
  BY DEF BatchEnd, Keyed, Owned
<1>3. Supervised'
  BY DEF BatchEnd, Supervised, Alive
<1>4. BatchOK'
  BY DEF BatchEnd, BatchOK, Owned
<1>5. DueOK'
  BY DEF BatchEnd, DueOK, BatchOK
<1>6. Coming'
  BY DEF BatchEnd, Coming, Noticed, BatchOK
<1>7. Collected'
  BY DEF BatchEnd, Collected, Own, BatchOK
<1> QED
  BY <1>1, <1>2, <1>3, <1>4, <1>5, <1>6, <1>7

LEMMA DispatchListenStep ==
    ASSUME TcpInv, NEW x \in batch, DispatchListen(x)
    PROVE  TcpInv'
<1> USE Sources DEF TcpInv, TypeOK, server, kernel
<1>1. TypeOK'
  BY DEF DispatchListen
<1>2. Keyed'
  BY DEF DispatchListen, Keyed, Owned
<1>3. Supervised'
  BY DEF DispatchListen, Supervised, Alive
<1>4. BatchOK'
  BY DEF DispatchListen, BatchOK, Owned
<1>5. DueOK'
  BY DEF DispatchListen, DueOK, BatchOK
<1>6. Coming'
  BY DEF DispatchListen, Coming, Noticed, BatchOK
<1>7. Collected'
  BY DEF DispatchListen, Collected, Own, BatchOK
<1> QED
  BY <1>1, <1>2, <1>3, <1>4, <1>5, <1>6, <1>7

LEMMA DispatchTimerStep ==
    ASSUME TcpInv, NEW x \in batch, DispatchTimer(x)
    PROVE  TcpInv'
<1> USE Sources DEF TcpInv, TypeOK, server, kernel
<1>1. TypeOK'
  BY DEF DispatchTimer
<1>2. Keyed'
  BY DEF DispatchTimer, Keyed, Owned
<1>3. Supervised'
  BY DEF DispatchTimer, Supervised, Alive
<1>4. BatchOK'
  BY DEF DispatchTimer, BatchOK, Owned
<1>5. DueOK'
  BY DEF DispatchTimer, DueOK, BatchOK
<1>6. Coming'
  BY DEF DispatchTimer, Coming, Noticed, BatchOK
<1>7. Collected'
  BY DEF DispatchTimer, Collected, Own, BatchOK
<1> QED
  BY <1>1, <1>2, <1>3, <1>4, <1>5, <1>6, <1>7

LEMMA DispatchThrowsStep ==
    ASSUME TcpInv, NEW x \in batch, DispatchThrows(x)
    PROVE  TcpInv'
<1> USE Sources DEF TcpInv, TypeOK, server, kernel
<1>1. TypeOK'
  BY DEF DispatchThrows
<1>2. Keyed'
  BY DEF DispatchThrows, Keyed, Owned
<1>3. Supervised'
  BY DEF DispatchThrows, Supervised, Alive
<1>4. BatchOK'
  BY DEF DispatchThrows, BatchOK, Owned
<1>5. DueOK'
  BY DEF DispatchThrows, DueOK, BatchOK
<1>6. Coming'
  BY DEF DispatchThrows, Coming, Noticed, BatchOK
<1>7. Collected'
  BY DEF DispatchThrows, Collected, Own, BatchOK
<1> QED
  BY <1>1, <1>2, <1>3, <1>4, <1>5, <1>6, <1>7

LEMMA DispatchDestroyedStep ==
    ASSUME TcpInv, NEW x \in batch, DispatchDestroyed(x)
    PROVE  TcpInv'
<1> USE Sources DEF TcpInv, TypeOK, server, kernel
<1>1. TypeOK'
  BY DEF DispatchDestroyed
<1>2. Keyed'
  BY DEF DispatchDestroyed, Keyed, Owned
<1>3. Supervised'
  BY DEF DispatchDestroyed, Supervised, Alive
<1>4. BatchOK'
  BY DEF DispatchDestroyed, BatchOK, Owned
<1>5. DueOK'
  BY DEF DispatchDestroyed, DueOK, BatchOK
<1>6. Coming'
  BY DEF DispatchDestroyed, Coming, Noticed, BatchOK
<1>7. Collected'
  BY DEF DispatchDestroyed, Collected, Own, BatchOK
<1> QED
  BY <1>1, <1>2, <1>3, <1>4, <1>5, <1>6, <1>7

LEMMA AcceptEndStep ==
    ASSUME TcpInv, AcceptEnd
    PROVE  TcpInv'
<1> USE Sources DEF TcpInv, TypeOK, server, kernel
<1>1. TypeOK'
  BY DEF AcceptEnd, Done
<1>2. Keyed'
  BY DEF AcceptEnd, Done, Keyed, Owned
<1>3. Supervised'
  BY DEF AcceptEnd, Done, Supervised, Alive
<1>4. BatchOK'
  BY DEF AcceptEnd, Done, BatchOK, Owned
<1>5. DueOK'
  BY DEF AcceptEnd, Done, DueOK, BatchOK
<1>6. Coming'
  BY DEF AcceptEnd, Done, Coming, Noticed, BatchOK
<1>7. Collected'
  BY DEF AcceptEnd, Done, Collected, Own, BatchOK
<1> QED
  BY <1>1, <1>2, <1>3, <1>4, <1>5, <1>6, <1>7

LEMMA AcceptFailsStep ==
    ASSUME TcpInv, AcceptFails
    PROVE  TcpInv'
<1> USE Sources DEF TcpInv, TypeOK, server, kernel
<1>1. TypeOK'
  <2>1. Tail(backlog) \in Seq(Socket)
    BY HeadTailProperties DEF AcceptFails
  <2> QED
    BY <2>1 DEF AcceptFails, Done
<1>2. Keyed'
  BY DEF AcceptFails, Done, Keyed, Owned
<1>3. Supervised'
  BY DEF AcceptFails, Done, Supervised, Alive
<1>4. BatchOK'
  BY DEF AcceptFails, Done, BatchOK, Owned
<1>5. DueOK'
  BY DEF AcceptFails, Done, DueOK, BatchOK
<1>6. Coming'
  BY DEF AcceptFails, Done, Coming, Noticed, BatchOK
<1>7. Collected'
  BY DEF AcceptFails, Done, Collected, Own, BatchOK
<1> QED
  BY <1>1, <1>2, <1>3, <1>4, <1>5, <1>6, <1>7

LEMMA TickEndStep ==
    ASSUME TcpInv, TickEnd
    PROVE  TcpInv'
<1> USE Sources DEF TcpInv, TypeOK, server, kernel
<1>1. TypeOK'
  BY DEF TickEnd, Done
<1>2. Keyed'
  BY DEF TickEnd, Done, Keyed, Owned
<1>3. Supervised'
  BY DEF TickEnd, Done, Supervised, Alive
<1>4. BatchOK'
  BY DEF TickEnd, Done, BatchOK, Owned
<1>5. DueOK'
  BY DEF TickEnd, Done, DueOK, BatchOK
<1>6. Coming'
  BY DEF TickEnd, Done, Coming, Noticed, BatchOK
<1>7. Collected'
  BY DEF TickEnd, Done, Collected, Own, BatchOK
<1> QED
  BY <1>1, <1>2, <1>3, <1>4, <1>5, <1>6, <1>7

LEMMA DestroyStep ==
    ASSUME TcpInv, Destroy
    PROVE  TcpInv'
<1> USE Sources DEF TcpInv, TypeOK, server, kernel
<1>1. TypeOK'
  BY DEF Destroy
<1>2. Keyed'
  BY DEF Destroy, Keyed, Owned
<1>3. Supervised'
  <2>1. Alive' \subseteq Alive
    BY DEF Destroy, Alive
  <2> QED
    BY <2>1 DEF Destroy, Supervised
<1>4. BatchOK'
  BY DEF Destroy, BatchOK, Owned
<1>5. DueOK'
  BY DEF Destroy, DueOK, BatchOK
<1>6. Coming'
  BY DEF Destroy, Coming, Noticed, BatchOK
<1>7. Collected'
  BY DEF Destroy, Collected, Own, BatchOK
<1> QED
  BY <1>1, <1>2, <1>3, <1>4, <1>5, <1>6, <1>7

LEMMA ConnectStep ==
    ASSUME TcpInv, Connect
    PROVE  TcpInv'
<1> USE Sources DEF TcpInv, TypeOK, server, kernel
<1>1. TypeOK'
  <2>1. peers' \in 0 .. MaxPeers
    BY TcpServerAssumption DEF Connect
  <2>2. [data |-> FALSE, end |-> "no"] \in Socket
    BY DEF Socket
  <2>3. backlog' \in Seq(Socket)
    BY <2>2 DEF Connect
  <2> QED
    BY <2>1, <2>3 DEF Connect
<1>2. Keyed'
  BY DEF Connect, Keyed, Owned
<1>3. Supervised'
  BY DEF Connect, Supervised, Alive
<1>4. BatchOK'
  BY DEF Connect, BatchOK, Owned
<1>5. DueOK'
  BY DEF Connect, DueOK, BatchOK
<1>6. Coming'
  BY DEF Connect, Coming, Noticed, BatchOK
<1>7. Collected'
  BY DEF Connect, Collected, Own, BatchOK
<1> QED
  BY <1>1, <1>2, <1>3, <1>4, <1>5, <1>6, <1>7

LEMMA TimerExpiresStep ==
    ASSUME TcpInv, TimerExpires
    PROVE  TcpInv'
<1> USE Sources DEF TcpInv, TypeOK, server, kernel
<1>1. TypeOK'
  BY DEF TimerExpires
<1>2. Keyed'
  BY DEF TimerExpires, Keyed, Owned
<1>3. Supervised'
  BY DEF TimerExpires, Supervised, Alive
<1>4. BatchOK'
  BY DEF TimerExpires, BatchOK, Owned
<1>5. DueOK'
  BY DEF TimerExpires, DueOK, BatchOK
<1>6. Coming'
  BY DEF TimerExpires, Coming, Noticed, BatchOK
<1>7. Collected'
  BY DEF TimerExpires, Collected, Own, BatchOK
<1> QED
  BY <1>1, <1>2, <1>3, <1>4, <1>5, <1>6, <1>7

LEMMA TickFireStep ==
    ASSUME TcpInv, NEW e \in Entry, TickFire(e)
    PROVE  TcpInv'
<1> USE Sources DEF TcpInv
<1>1. /\ pc = "tick" /\ e \in due /\ due' = due \ {e} /\ owner[e] # Null
      /\ owner' = [owner EXCEPT ![e] = Null]
      /\ UNCHANGED <<status, callback, keeps, hooked, backlog, peers, batch, pc, refused>>
  BY DEF TickFire, DueOK
<1>2. CASE owner[e] \in Alive
  <2> DEFINE c == owner[e]
  <2>1. HandleClose({c}) /\ (Erase(c) \/ UNCHANGED connections) /\ c \in Alive
        /\ wheelEntry' = [wheelEntry EXCEPT ![c] = Null]
    BY <1>2 DEF TickFire
  <2>2. PICK k \in Owned : callback[k] = c
    BY <2>1, AliveIs
  <2>3. Unlinked(c)
    <3>1. \A g \in Entry : owner[g] = c <=> g = e
      BY <2>1 DEF Supervised
    <3> QED
      BY <1>1, <2>1, <3>1 DEF Unlinked, TypeOK
  <2> HIDE DEF c
  <2>4. /\ Keyed' /\ Supervised' /\ Owned \ {k} \subseteq Owned'
        /\ connections' \in [Fd -> Conn \cup {Null}] /\ fdOf' \in [Conn -> Fd \cup {-1}]
        /\ wheelEntry' \in [Conn -> Entry \cup {Null}] /\ owner' \in [Entry -> Conn \cup {Null}]
        /\ sock' \in [Fd -> Socket \cup {Null}] /\ ready' \subseteq Source
    BY <1>1, <2>1, <2>2, <2>3, ClosingKeeps
  <2>5. /\ connections' = connections /\ ready' = ready \ {fdOf[c]} /\ c \in Conn
        /\ sock' = [f \in Fd |-> IF f = fdOf[c] THEN Null ELSE sock[f]]
    BY <2>1, Closing
  <2>6. TypeOK'
    BY <1>1, <2>4 DEF TypeOK
  <2>7. BatchOK' /\ DueOK'
    BY <1>1, <2>5 DEF BatchOK, DueOK, Owned, TypeOK
  <2>8. Coming'
    <3>1. ASSUME NEW f \in Fd PROVE Noticed(f)'
      BY <1>1, <2>5 DEF Coming, Noticed, TypeOK
    <3>2. fdOf[c] # Listen
      BY <2>5 DEF TypeOK
    <3> QED
      BY <1>1, <2>5, <3>1, <3>2 DEF Coming
  <2>9. Collected'
    BY <1>1, <2>5 DEF Collected, Own, TypeOK
  <2> QED
    BY <2>4, <2>6, <2>7, <2>8, <2>9
<1>3. CASE owner[e] \notin Alive
  <2>1. UNCHANGED <<wheelEntry, sock, ready, fdOf, connections>>
    BY <1>3 DEF TickFire
  <2>2. TypeOK' /\ Keyed' /\ BatchOK' /\ DueOK' /\ Coming' /\ Collected'
    BY <1>1, <2>1 DEF TypeOK, Keyed, Owned, BatchOK, DueOK, Coming, Noticed, Collected, Own
  <2>3. Alive' = Alive /\ Null \notin Alive
    BY <1>1, <2>1 DEF Alive
  <2>4. Supervised'
    BY <1>1, <1>3, <2>1, <2>3 DEF Supervised, TypeOK
  <2> QED
    BY <2>2, <2>4
<1> QED
  BY <1>2, <1>3

LEMMA DispatchConnectionStep ==
    ASSUME TcpInv, NEW x \in batch, DispatchConnection(x)
    PROVE  TcpInv'
<1> USE Sources DEF TcpInv
<1> DEFINE k == x.src
           c == callback[k]
<1>1. /\ pc = "batch" /\ k \in Fd /\ c \in Alive /\ batch' = batch \ {x}
      /\ pc' = (IF batch' = {} THEN "wait" ELSE "batch")
      /\ keeps' \in {keeps, keeps \cup {k}, keeps \ {k}}
      /\ UNCHANGED <<status, callback, hooked, due, backlog, peers, refused>>
  BY DEF DispatchConnection, Done
<1>2. \/ Close(c)
      \/ /\ ~EndsInClose(c, x.ev) /\ UNCHANGED <<connections, fdOf, wheelEntry, owner>>
         /\ \/ /\ c \in Alive'
               /\ sock' = IF "IN" \in x.ev THEN [sock EXCEPT ![k].data = FALSE] ELSE sock
               /\ ready' = ready \cup (keeps' \ keeps)
            \/ c \notin Alive' /\ sock' = [sock EXCEPT ![k] = Null] /\ ready' = ready \ {k}
  BY Zenon DEF DispatchConnection
<1>3. k \in Owned /\ c \in Conn /\ c # Null /\ fdOf[c] \in {k, -1}
  <2>1. PICK f \in Owned : callback[f] = c
    BY <1>1, AliveIs
  <2>2. f \in Fd /\ callback[f] # Null /\ fdOf[callback[f]] \in {f, -1}
    BY <2>1 DEF Owned, Keyed
  <2>3. f = k
    BY <1>1, <2>1, <2>2 DEF Keyed
  <2> QED
    BY <1>1, <2>1, <2>2, <2>3, AliveIs
<1>4. \A y \in batch' : y \in batch /\ (y.src \in Fd => y.src # k)
  BY <1>1 DEF BatchOK
<1>5. CASE Close(c)
  <2>1. HandleClose({c}) /\ (Erase(c) \/ UNCHANGED connections) /\ (Unlinked(c) \/ Left(c))
    <3>1. CASE fdOf[c] # -1 /\ c \in hooked
      <4>1. HandleClose({c}) /\ Erase(c) /\ wheelEntry' = [wheelEntry EXCEPT ![c] = Null]
            /\ owner' = [e \in Entry |-> IF e = wheelEntry[c] THEN Null ELSE owner[e]]
        BY <1>5, <3>1 DEF Close, RemoveConnection
      <4>2. \A e \in Entry : e = wheelEntry[c] <=> owner[e] = c
        BY <1>1 DEF Supervised
      <4> QED
        BY <4>1, <4>2 DEF Unlinked
    <3>2. CASE ~(fdOf[c] # -1 /\ c \in hooked)
      BY <1>5, <3>2 DEF Close, Left
    <3> QED
      BY <3>1, <3>2
  <2> HIDE DEF c, k
  <2>2. /\ Keyed' /\ Supervised' /\ Owned \ {k} \subseteq Owned'
        /\ connections' \in [Fd -> Conn \cup {Null}] /\ fdOf' \in [Conn -> Fd \cup {-1}]
        /\ wheelEntry' \in [Conn -> Entry \cup {Null}] /\ owner' \in [Entry -> Conn \cup {Null}]
        /\ sock' \in [Fd -> Socket \cup {Null}] /\ ready' \subseteq Source /\ keeps' \subseteq Fd
    BY <1>1, <1>3, <2>1, ClosingKeeps DEF c
  <2>3. /\ connections' = connections /\ ready' = ready \ {fdOf[c]}
        /\ sock' = [f \in Fd |-> IF f = fdOf[c] THEN Null ELSE sock[f]]
    BY <1>1, <2>1, Closing
  <2>4. TypeOK'
    BY <1>1, <2>2 DEF TypeOK
  <2>5. BatchOK' /\ DueOK'
    <3>1. \A e \in Entry : e \in due => FALSE
      BY <1>1 DEF DueOK
    <3> QED
      BY <1>1, <1>4, <2>2, <3>1 DEF BatchOK, DueOK
  <2>6. sock'[k] = Null
    <3>1. fdOf[c] = -1 => sock[k] = Null
      BY <1>1, <1>3 DEF Keyed, c
    <3> QED
      BY <1>1, <1>3, <2>3, <3>1
  <2>7. Coming'
    <3>1. ASSUME NEW f \in Fd PROVE Noticed(f)'
      BY <1>1, <2>3, <2>6 DEF Coming, Noticed, k
    <3>2. fdOf[c] # Listen /\ k # Listen
      BY <1>1, <1>3
    <3> QED
      BY <1>1, <2>3, <3>1, <3>2 DEF Coming, k
  <2>8. Collected'
    BY <1>1, <2>3 DEF Collected, Own
  <2> QED
    BY <2>2, <2>4, <2>5, <2>7, <2>8
<1>6. CASE ~EndsInClose(c, x.ev) /\ UNCHANGED <<connections, fdOf, wheelEntry, owner>>
  <2>1. fdOf[c] = k /\ "ERR" \notin x.ev /\ ("IN" \in x.ev => sock[k].end = "no")
    BY <1>3, <1>6 DEF EndsInClose
  <2>2. sock[k] # Null /\ sock[k] \in Socket /\ status \notin {"stopped", "cut"}
    BY <1>1, <1>3, <2>1 DEF Keyed, TypeOK
  <2>3. DueOK' /\ \A f \in Fd : f # k => (f \in Owned' <=> f \in Owned)
    BY <1>1, <1>6 DEF DueOK, Owned
  <2>4. BatchOK'
    BY <1>1, <1>4, <2>3 DEF BatchOK
  <2>5. CASE /\ c \in Alive'
             /\ sock' = IF "IN" \in x.ev THEN [sock EXCEPT ![k].data = FALSE] ELSE sock
             /\ ready' = ready \cup (keeps' \ keeps)
    <3> DEFINE t == [sock[k] EXCEPT !.data = FALSE]
    <3>1. t \in Socket /\ t.data = FALSE /\ t.end = sock[k].end
      BY <2>2 DEF Socket
    <3>2. sock' = IF "IN" \in x.ev THEN [sock EXCEPT ![k] = t] ELSE sock
      BY <2>5
    <3>3. "IN" \in x.ev => Events(t) = {}
      BY <2>1, <3>1 DEF Events
    <3> HIDE DEF t
    <3>4. /\ sock' \in [Fd -> Socket \cup {Null}] /\ \A f \in Fd : f # k => sock'[f] = sock[f]
          /\ sock'[k] = IF "IN" \in x.ev THEN t ELSE sock[k]
      BY <1>1, <3>1, <3>2 DEF TypeOK
    <3>5. TypeOK'
      BY <1>1, <1>6, <2>5, <3>4 DEF TypeOK
    <3>6. \A f \in Fd : sock'[f] # Null <=> sock[f] # Null
      BY <2>2, <3>1, <3>4
    <3>7. k \in Owned'
      <4>1. PICK f \in Fd : connections'[f] = c \/ (f \in keeps' /\ callback'[f] = c)
        BY <1>1, <2>5 DEF Alive, Owned, TypeOK
      <4>2. f \in Owned /\ callback[f] = c
        BY <1>1, <1>3, <1>6, <4>1 DEF Keyed, Owned
      <4>3. f = k
        BY <1>1, <1>3, <4>2 DEF Keyed
      <4> QED
        BY <1>1, <1>3, <4>1, <4>3 DEF Owned
    <3>8. Owned' = Owned
      BY <1>3, <2>3, <3>7 DEF Owned
    <3>9. Keyed'
      BY <1>1, <1>3, <1>6, <3>6, <3>8 DEF Keyed, Owned
    <3>10. Alive' = Alive
      BY <1>1, <3>5, <3>8, <3>9, AliveIs DEF Alive, Keyed, Owned
    <3>11. Supervised'
      BY <1>1, <1>6, <3>10 DEF Supervised
    <3>12. Coming'
      <4>1. ASSUME NEW f \in Fd PROVE Noticed(f)'
        <5>1. CASE f = k
          BY <1>1, <2>5, <3>3, <3>4, <5>1 DEF Coming, Noticed, BatchOK
        <5>2. CASE f # k
          BY <1>1, <2>5, <3>4, <5>2 DEF Coming, Noticed
        <5> QED
          BY <5>1, <5>2
      <4> QED
        BY <1>1, <2>5, <4>1 DEF Coming
    <3>13. Collected'
      BY <1>1, <1>4, <3>4 DEF Collected, Own
    <3> QED
      BY <2>3, <2>4, <3>5, <3>9, <3>11, <3>12, <3>13
  <2>6. CASE c \notin Alive' /\ sock' = [sock EXCEPT ![k] = Null] /\ ready' = ready \ {k}
    <3>1. TypeOK'
      BY <1>1, <1>6, <2>6 DEF TypeOK
    <3>2. k \notin Owned'
      BY <1>1, <1>3, <1>6, <2>6 DEF Alive, Owned, Keyed
    <3>3. Owned' = Owned \ {k}
      BY <2>3, <3>2 DEF Owned
    <3>4. /\ sock'[k] = Null /\ \A f \in Fd : f # k => sock'[f] = sock[f]
      BY <1>1, <2>6 DEF TypeOK
    <3>5. status = "gone"
      BY <1>1, <1>3, <1>6, <2>2, <3>2 DEF Keyed, Owned, TypeOK
    <3>6. Keyed'
      BY <1>1, <1>6, <3>3, <3>4, <3>5 DEF Keyed, Owned
    <3>7. Alive' \subseteq Alive
      BY <3>1, <3>3, <3>6, <1>1, AliveIs DEF Alive, Keyed, Owned
    <3>8. Supervised'
      BY <1>1, <1>6, <3>5, <3>7 DEF Supervised, Keyed
    <3>9. Coming'
      <4>1. ASSUME NEW f \in Fd PROVE Noticed(f)'
        BY <1>1, <2>6, <3>4 DEF Coming, Noticed
      <4> QED
        BY <1>1, <2>6, <4>1 DEF Coming
    <3>10. Collected'
      BY <1>1, <1>4, <3>4 DEF Collected, Own
    <3> QED
      BY <2>3, <2>4, <3>1, <3>6, <3>8, <3>9, <3>10
  <2> QED
    BY <1>2, <1>5, <1>6, <2>5, <2>6
<1> QED
  BY <1>2, <1>5, <1>6

LEMMA AcceptStep ==
    ASSUME TcpInv, Accept
    PROVE  TcpInv'
<1> USE Sources DEF TcpInv
<1>1. /\ pc = "accept" /\ backlog # <<>> /\ backlog' = Tail(backlog) /\ refused' = FALSE
      /\ due = {} /\ status = "serving" /\ connections = callback
      /\ UNCHANGED <<status, due, batch, pc, peers>>
  BY DEF Accept, DueOK, Keyed
<1>2. PICK fd \in Fd, c \in Conn \ (Alive \cup {owner[g] : g \in Entry}), e \in Entry :
          /\ sock[fd] = Null /\ \A f \in Fd : sock[f] = Null => fd <= f
          /\ owner[e] = Null
          /\ sock' = [sock EXCEPT ![fd] = Head(backlog)]
          /\ connections' = [connections EXCEPT ![fd] = c]
          /\ fdOf' = [fdOf EXCEPT ![c] = fd]
          /\ callback' = [callback EXCEPT ![fd] = c]
          /\ keeps' = keeps \ {fd}
          /\ hooked' \in {hooked \cup {c}, hooked \ {c}}
          /\ ready' = IF Events(Head(backlog)) # {} THEN ready \cup {fd} ELSE ready
          /\ owner' = [owner EXCEPT ![e] = c]
          /\ wheelEntry' = [wheelEntry EXCEPT ![c] = e]
  BY Zenon DEF Accept
<1> DEFINE h == Head(backlog)
<1>3. h \in Socket /\ h # Null /\ backlog' \in Seq(Socket)
  <2>1. backlog \in Seq(Socket)
    BY DEF TypeOK
  <2>2. Head(backlog) \in Socket /\ Tail(backlog) \in Seq(Socket)
    BY <1>1, <2>1, HeadTailProperties
  <2> QED
    BY <1>1, <2>2
<1>4. sock' = [sock EXCEPT ![fd] = h]
  BY <1>2
<1> HIDE DEF h
<1>5. /\ c # Null /\ (\A f \in Fd : callback[f] # c) /\ (\A g \in Entry : owner[g] # c)
      /\ callback'[fd] = c /\ \A f \in Fd : f # fd => callback'[f] = callback[f]
      /\ connections' = callback'
      /\ fdOf'[c] = fd /\ \A d \in Conn : d # c => fdOf'[d] = fdOf[d]
      /\ sock'[fd] = h /\ \A f \in Fd : f # fd => sock'[f] = sock[f]
      /\ wheelEntry'[c] = e /\ \A d \in Conn : d # c => wheelEntry'[d] = wheelEntry[d]
      /\ owner'[e] = c /\ \A g \in Entry : g # e => owner'[g] = owner[g]
  <2>1. \A f \in Fd : callback[f] # Null => callback[f] \in Alive
    BY <1>1 DEF Alive
  <2> QED
    BY <1>1, <1>2, <1>4, <2>1 DEF TypeOK
<1>6. TypeOK'
  <2>1. /\ connections' \in [Fd -> Conn \cup {Null}] /\ callback' \in [Fd -> Conn \cup {Null}]
        /\ sock' \in [Fd -> Socket \cup {Null}] /\ fdOf' \in [Conn -> Fd \cup {-1}]
    BY <1>2, <1>3, <1>4 DEF TypeOK
  <2>2. wheelEntry' \in [Conn -> Entry \cup {Null}] /\ owner' \in [Entry -> Conn \cup {Null}]
    BY <1>2 DEF TypeOK
  <2>3. ready' \subseteq Source /\ keeps' \subseteq Fd /\ hooked' \subseteq Conn
    BY <1>2 DEF TypeOK
  <2> QED
    BY <1>1, <1>3, <2>1, <2>2, <2>3 DEF TypeOK
<1>7. Owned' = Owned \cup {fd} /\ \A f \in Owned : callback[f] \in Conn /\ callback[f] # c
  <2>1. \A f \in Fd : connections'[f] # Null <=> f = fd \/ connections[f] # Null
    BY <1>1, <1>5
  <2> QED
    BY <1>2, <1>5, <2>1 DEF Owned, Keyed, TypeOK
<1>8. Keyed'
  <2>1. \A f \in Owned' : callback'[f] # Null /\ fdOf'[callback'[f]] \in {f, -1}
    BY <1>5, <1>7 DEF Keyed, Owned
  <2>2. \A f, g \in Fd : callback'[f] = callback'[g] /\ callback'[f] # Null => f = g
    BY <1>5 DEF Keyed
  <2>3. \A f \in Fd : sock'[f] # Null <=> f \in Owned' /\ fdOf'[callback'[f]] = f
    BY <1>3, <1>5, <1>7 DEF Keyed
  <2> QED
    BY <1>1, <1>5, <2>1, <2>2, <2>3 DEF Keyed
<1>9. \A d : d \in Alive' <=> \E f \in Owned' : callback'[f] = d
  <2>1. \A f \in Owned' : callback'[f] \in Alive'
    BY <1>8 DEF Alive, Keyed, Owned
  <2>2. \A d \in Alive' : \E f \in Owned' : callback'[f] = d
    BY <1>6, <1>8 DEF Alive, Keyed, Owned, TypeOK
  <2> QED
    BY <2>1, <2>2
<1>10. /\ \A d \in Alive' : d = c \/ (d # c /\ d \in Alive /\ d \in Conn /\ d # Null)
       /\ \A d \in Alive : fdOf[d] # -1 => d \in Alive' /\ d # c /\ d \in Conn
       /\ c \in Alive'
  <2>1. ASSUME NEW d \in Alive' PROVE d = c \/ (d # c /\ d \in Alive /\ d \in Conn /\ d # Null)
    <3>1. PICK f \in Owned' : callback'[f] = d
      BY <1>9
    <3>2. CASE f = fd
      BY <1>5, <3>1, <3>2
    <3>3. CASE f # fd
      <4>1. f \in Owned /\ f \in Fd /\ callback[f] = d
        BY <1>5, <1>7, <3>1, <3>3 DEF Owned
      <4> QED
        BY <1>7, <4>1, AliveIs
    <3> QED
      BY <3>2, <3>3
  <2>2. ASSUME NEW d \in Alive, fdOf[d] # -1 PROVE d \in Alive' /\ d # c /\ d \in Conn
    <3>1. PICK f \in Owned : callback[f] = d
      BY AliveIs
    <3>2. f \in Fd /\ f # fd
      BY <1>2, <2>2, <3>1 DEF Keyed, Owned
    <3> QED
      BY <1>5, <1>7, <1>9, <3>1, <3>2
  <2>3. c \in Alive'
    BY <1>5, <1>7, <1>9
  <2> QED
    BY <2>1, <2>2, <2>3
<1>11. Supervised'
  <2>1. ASSUME NEW d \in Alive', fdOf'[d] # -1 PROVE wheelEntry'[d] # Null
    BY <1>5, <1>10, <2>1 DEF Supervised
  <2>2. ASSUME NEW d \in Alive', NEW g \in Entry PROVE wheelEntry'[d] = g <=> owner'[g] = d
    <3>1. CASE d = c
      BY <1>5, <3>1
    <3>2. CASE d # c
      BY <1>2, <1>5, <1>10, <3>2 DEF Supervised
    <3> QED
      BY <3>1, <3>2
  <2>3. ASSUME NEW g \in Entry, owner'[g] \in hooked' PROVE owner'[g] \in Alive' /\ fdOf'[owner'[g]] # -1
    <3>1. CASE g = e
      BY <1>5, <1>10, <3>1
    <3>2. CASE g # e
      <4>1. owner'[g] = owner[g] /\ owner[g] \in hooked /\ owner[g] \in Alive /\ fdOf[owner[g]] # -1
        BY <1>2, <1>5, <2>3, <3>2 DEF Supervised
      <4> QED
        BY <1>5, <1>10, <4>1
    <3> QED
      BY <3>1, <3>2
  <2> QED
    BY <2>1, <2>2, <2>3 DEF Supervised
<1>12. BatchOK' /\ DueOK'
  BY <1>1, <1>7 DEF BatchOK, DueOK
<1>13. Coming'
  <2>1. ASSUME NEW f \in Fd PROVE Noticed(f)'
    <3>1. CASE f = fd
      <4>1. Events(h) # {} => fd \in ready'
        BY <1>2 DEF h
      <4> QED
        BY <1>5, <3>1, <4>1 DEF Noticed
    <3>2. CASE f # fd
      <4>1. sock'[f] = sock[f] /\ ready \subseteq ready' /\ batch' = batch
        BY <1>1, <1>2, <1>5, <3>2
      <4>2. Noticed(f)
        BY DEF Coming
      <4> QED
        BY <4>1, <4>2 DEF Noticed
    <3> QED
      BY <3>1, <3>2
  <2> QED
    BY <1>1, <2>1 DEF Coming
<1>14. Collected'
  <2> SUFFICES ASSUME NEW x \in batch, x.src \in Fd
               PROVE  /\ ~(\E y \in batch : y.src = Listen)
                      /\ Own(x)' \/ sock'[x.src] # Null
                      /\ Own(x)' /\ sock'[x.src] # Null /\ "ERR" \in x.ev => sock'[x.src].end = "rst"
    BY <1>1 DEF Collected
  <2>1. ~(\E y \in batch : y.src = Listen)
    BY <1>1 DEF BatchOK
  <2>2. CASE x.src = fd
    <3>1. x.for = callback[fd]
      BY <1>1, <1>2, <2>2 DEF Collected, Own
    <3>2. ~Own(x)'
      BY <1>5, <2>2, <3>1 DEF Own
    <3> QED
      BY <1>3, <1>5, <2>1, <2>2, <3>2
  <2>3. CASE x.src # fd
    BY <1>1, <1>5, <2>1, <2>3 DEF Collected, Own
  <2> QED
    BY <2>2, <2>3
<1> QED
  BY <1>6, <1>8, <1>11, <1>12, <1>13, <1>14

LEMMA StopStep ==
    ASSUME TcpInv, Stop
    PROVE  TcpInv'
<1> USE Sources DEF TcpInv
<1> DEFINE removed == {c \in Alive \cap hooked : fdOf[c] # -1}
<1>1. /\ pc \in {"wait", "batch", "accept"} /\ status = "serving" /\ due = {}
      /\ status' \in {"cut", "stopped"}
      /\ \A x \in batch : x.src \in Fd \ keeps => status' = "cut"
      /\ connections' = [f \in Fd |-> Null] /\ backlog' = <<>> /\ HandleClose(Alive)
      /\ wheelEntry' = [c \in Conn |-> IF c \in removed THEN Null ELSE wheelEntry[c]]
      /\ owner' = [e \in Entry |-> IF owner[e] \in removed THEN Null ELSE owner[e]]
      /\ UNCHANGED <<callback, keeps, hooked, due, batch, pc, peers, refused>>
  BY DEF Stop, DueOK
<1>2. \A c \in Alive : c \in Conn /\ fdOf'[c] = -1
  BY <1>1, AliveIs DEF HandleClose
<1>3. \A f \in Fd : sock'[f] = Null
  <2> SUFFICES ASSUME NEW f \in Fd, sock[f] # Null PROVE sock'[f] = Null
    BY <1>1 DEF HandleClose
  <2>1. callback[f] \in Alive /\ fdOf[callback[f]] = f /\ f # -1
    BY AliveIs DEF Keyed
  <2> QED
    BY <1>1, <2>1 DEF HandleClose
<1>4. TypeOK'
  <2>1. sock' \in [Fd -> Socket \cup {Null}] /\ ready' \subseteq Source /\ fdOf' \in [Conn -> Fd \cup {-1}]
    BY <1>1 DEF HandleClose, TypeOK
  <2>2. <<>> \in Seq(Socket)
    BY EmptySeq
  <2>3. wheelEntry' \in [Conn -> Entry \cup {Null}] /\ owner' \in [Entry -> Conn \cup {Null}]
    BY <1>1 DEF TypeOK
  <2>4. connections' \in [Fd -> Conn \cup {Null}]
    BY <1>1
  <2> QED
    BY <1>1, <2>1, <2>2, <2>3, <2>4 DEF TypeOK
<1>5. Owned' = keeps /\ keeps \subseteq Owned
  BY <1>1 DEF Owned, TypeOK
<1>6. Keyed'
  <2>1. \A f \in Owned' : callback[f] # Null /\ fdOf'[callback[f]] = -1
    BY <1>2, <1>5, AliveIs DEF Keyed
  <2> QED
    BY <1>1, <1>3, <2>1 DEF Keyed, Owned
<1>7. Alive' \subseteq Alive
  <2>1. Alive' = {callback[f] : f \in keeps} \ {Null}
    BY <1>1 DEF Alive, TypeOK
  <2> QED
    BY <2>1 DEF Alive
<1>8. Supervised'
  <2>1. ASSUME NEW d \in Alive', NEW e \in Entry PROVE wheelEntry'[d] = e <=> owner'[e] = d
    <3>1. d \in Alive /\ d \in Conn /\ d # Null /\ (wheelEntry[d] = e <=> owner[e] = d)
      BY <1>2, <1>7 DEF Supervised
    <3> QED
      BY <1>1, <3>1
  <2>2. ASSUME NEW e \in Entry PROVE owner'[e] \notin hooked'
    BY <1>1 DEF Supervised, TypeOK
  <2>3. \A d \in Alive' : fdOf'[d] = -1
    BY <1>2, <1>7
  <2> QED
    BY <2>1, <2>2, <2>3 DEF Supervised
<1>9. BatchOK'
  <2>1. \A x \in batch : x.src \in Fd => x.src \in keeps \/ status' = "cut"
    BY <1>1
  <2> QED
    BY <1>1, <1>5, <2>1 DEF BatchOK
<1>10. DueOK' /\ Collected'
  BY <1>1, <1>3 DEF DueOK, Collected, Own
<1>11. Coming'
  BY <1>1, <1>3 DEF Coming, Noticed
<1> QED
  BY <1>4, <1>6, <1>8, <1>9, <1>10, <1>11

LEMMA ClientMovesStep ==
    ASSUME TcpInv, ClientMoves
    PROVE  TcpInv'
<1> USE Sources DEF TcpInv
<1>1. ASSUME NEW f \in Fd, sock[f] # Null, NEW t \in Moves(sock[f]), sock' = [sock EXCEPT ![f] = t],
             ready' = ready \cup {f}, UNCHANGED <<server, due, backlog, batch, pc, peers, refused>>
      PROVE  TcpInv'
  <2>1. t \in Socket /\ t # Null /\ sock[f].end = "no"
    BY DEF Moves
  <2>2. sock' \in [Fd -> Socket \cup {Null}] /\ sock'[f] = t /\ \A g \in Fd : g # f => sock'[g] = sock[g]
    BY <1>1, <2>1 DEF TypeOK
  <2>3. TypeOK'
    BY <1>1, <2>2 DEF TypeOK, server
  <2>4. \A g \in Fd : sock'[g] # Null <=> sock[g] # Null
    BY <1>1, <2>1, <2>2
  <2>5. Keyed' /\ Supervised' /\ BatchOK' /\ DueOK'
    BY <1>1, <2>4 DEF Keyed, Owned, Supervised, Alive, BatchOK, DueOK, server
  <2>6. Coming'
    BY <1>1, <2>2 DEF Coming, Noticed, server
  <2>7. Collected'
    <3>1. \A g \in Fd : sock[g] # Null /\ sock[g].end = "rst" => sock'[g] = sock[g]
      BY <2>1, <2>2
    <3> QED
      BY <1>1, <2>4, <3>1 DEF Collected, Own, server
  <2> QED
    BY <2>3, <2>5, <2>6, <2>7
<1>2. ASSUME NEW i \in DOMAIN backlog, NEW t \in Moves(backlog[i]), backlog' = [backlog EXCEPT ![i] = t],
             UNCHANGED <<server, due, sock, ready, batch, pc, peers, refused>>
      PROVE  TcpInv'
  <2>1. t \in Socket
    BY DEF Moves
  <2>2. backlog \in Seq(Socket) /\ i \in 1 .. Len(backlog)
    <3>1. backlog \in Seq(Socket)
      BY DEF TypeOK
    <3> QED
      BY <3>1, LenProperties
  <2>3. backlog' \in Seq(Socket) /\ Len(backlog') = Len(backlog)
    BY <1>2, <2>1, <2>2, ExceptSeq
  <2>4. backlog # <<>> /\ backlog' # <<>>
    BY <2>2, <2>3
  <2>5. TypeOK'
    BY <1>2, <2>3 DEF TypeOK, server
  <2>6. Keyed' /\ Supervised' /\ BatchOK' /\ DueOK'
    BY <1>2, <2>4 DEF Keyed, Owned, Supervised, Alive, BatchOK, DueOK, server
  <2>7. Coming' /\ Collected'
    BY <1>2, <2>4 DEF Coming, Noticed, Collected, Own, server
  <2> QED
    BY <2>5, <2>6, <2>7
<1>3. ASSUME NEW f \in keeps, ready' = ready \cup {f},
             UNCHANGED <<server, due, sock, backlog, batch, pc, peers, refused>>
      PROVE  TcpInv'
  <2>1. TypeOK'
    BY <1>3 DEF TypeOK, server
  <2>2. Keyed' /\ Supervised' /\ BatchOK' /\ DueOK' /\ Collected'
    BY <1>3 DEF Keyed, Owned, Supervised, Alive, BatchOK, DueOK, Collected, Own, server
  <2>3. Coming'
    BY <1>3 DEF Coming, Noticed, server
  <2> QED
    BY <2>1, <2>2, <2>3
<1> QED
  BY <1>1, <1>2, <1>3, Zenon DEF ClientMoves

LEMMA NextInv == TcpInv /\ [Next]_vars => TcpInv'
<1> SUFFICES ASSUME TcpInv, [Next]_vars PROVE TcpInv'
  OBVIOUS
<1>1. CASE Loop
  <2>1. ASSUME NEW e \in Entry, TickFire(e) PROVE TcpInv'
    BY <2>1, TickFireStep
  <2>2. ASSUME NEW x \in batch, \/ DispatchListen(x) \/ DispatchTimer(x) \/ DispatchConnection(x)
                                \/ DispatchThrows(x) \/ DispatchDestroyed(x)
        PROVE  TcpInv'
    BY <2>2, DispatchListenStep, DispatchTimerStep, DispatchConnectionStep, DispatchThrowsStep,
       DispatchDestroyedStep, Zenon
  <2> QED
    BY <1>1, <2>1, <2>2, EpollWaitStep, BatchEndStep, AcceptStep, AcceptEndStep, AcceptFailsStep, TickEndStep,
       Zenon DEF Loop
<1>2. CASE Stop \/ Destroy \/ Outside
  BY <1>2, StopStep, DestroyStep, ConnectStep, ClientMovesStep, TimerExpiresStep, Zenon DEF Outside
<1>3. CASE UNCHANGED vars
  BY <1>3 DEF vars, server, kernel, TcpInv, TypeOK, Keyed, Owned, Supervised, Alive, BatchOK, DueOK, Coming,
              Noticed, Collected, Own
<1> QED
  BY <1>1, <1>2, <1>3, Zenon DEF Next

LEMMA TcpInvariant == Spec => []TcpInv
  BY InitInv, NextInv, PTL DEF Spec

-----------------------------------------------------------------------------
(* An open socket belongs to exactly one connection, found under its       *)
(* number in connections_ and in fdContexts_, although removeConnection    *)
(* erases the key -1 and removeFd leaves the callback where it is.         *)
THEOREM DescriptorTablesAgree == Spec => []TablesAgree
<1>1. TcpInv => TablesAgree
  <2> SUFFICES ASSUME TcpInv, NEW f \in Fd, sock[f] # Null
               PROVE  /\ {c \in Alive : fdOf[c] = f} = {callback[f]}
                      /\ connections[f] = callback[f] \/ (status = "gone" /\ f \in keeps)
    BY DEF TablesAgree
  <2>1. f \in Owned /\ fdOf[callback[f]] = f /\ status \notin {"stopped", "cut"}
    BY DEF TcpInv, Keyed
  <2>2. callback[f] \in Alive
    BY <2>1, AliveIs DEF TcpInv
  <2>3. ASSUME NEW c \in Alive, fdOf[c] = f PROVE c = callback[f]
    <3>1. PICK g \in Owned : callback[g] = c
      BY AliveIs DEF TcpInv
    <3>2. fdOf[c] \in {g, -1}
      BY <3>1 DEF TcpInv, Keyed
    <3> QED
      BY <2>3, <3>1, <3>2, Sources
  <2>4. connections[f] = callback[f] \/ (status = "gone" /\ f \in keeps)
    BY <2>1 DEF TcpInv, TypeOK, Keyed, Owned
  <2> QED
    BY <2>1, <2>2, <2>3, <2>4
<1> QED
  BY <1>1, TcpInvariant, PTL

(* Every open connection has its own wheel entry, and every entry whose    *)
(* connection is removed by removeConnection has an open connection:       *)
(* whether it is the peer, the data callback, the idle timer or stop()     *)
(* that closes it.                                                         *)
THEOREM SupervisionIsComplete == Spec => []Supervised
<1>1. TcpInv => Supervised
  BY DEF TcpInv
<1> QED
  BY <1>1, TcpInvariant, PTL

(* The loop calls back no connection that has been destroyed, also when    *)
(* it was closed, or its descriptor reused, earlier in the same batch; but *)
(* for a stop() that cuts into a batch.                                    *)
THEOREM CallbacksAreAlive == Spec => []NoDanglingCallback
<1>1. TcpInv => NoDanglingCallback
  BY AliveIs DEF TcpInv, Keyed, BatchOK, NoDanglingCallback
<1> QED
  BY <1>1, TcpInvariant, PTL

(* Edge-triggered epoll forgets nobody: whenever the loop waits, whoever   *)
(* has something to say is on the ready list, though events of earlier     *)
(* owners of the descriptor are still around, and however many of the      *)
(* ready sources each epoll_wait returns; but for clients in the backlog   *)
(* when accept4 fails.                                                     *)
THEOREM PeersAreNoticed == Spec => []NoForgottenPeer
<1>1. TcpInv => NoForgottenPeer
  BY DEF TcpInv, BatchOK, Coming, Noticed, NoForgottenPeer
<1> QED
  BY <1>1, TcpInvariant, PTL

(* The wheel may rely on it: an entry tick() has taken is removed by no    *)
(* one but tick() before it is reached.                                    *)
THEOREM WheelIsUsedRight == Spec => WheelContract
<1>1. TcpInv /\ [Next]_vars => [\A e \in due : owner'[e] = Null => TickFire(e)]_vars
  <2> SUFFICES ASSUME TcpInv, Next, NEW e \in due, owner'[e] = Null PROVE TickFire(e)
    OBVIOUS
  <2>1. pc = "tick" /\ owner[e] # Null /\ e \in Entry
    BY DEF TcpInv, DueOK, TypeOK
  <2>2. PICK g \in Entry : TickFire(g)
    <3>1. owner' # owner
      BY <2>1
    <3>2. CASE Loop
      BY <2>1, <3>1, <3>2 DEF Loop, EpollWait, BatchEnd, DispatchListen, DispatchTimer, DispatchConnection,
         DispatchThrows, DispatchDestroyed, Accept, AcceptEnd, AcceptFails, TickEnd, server
    <3>3. CASE Stop \/ Destroy \/ Outside
      BY <2>1, <3>1, <3>3 DEF Stop, Destroy, Outside, Connect, ClientMoves, TimerExpires, server
    <3> QED
      BY <3>2, <3>3 DEF Next
  <2>3. g = e
    BY <2>1, <2>2 DEF TickFire, TcpInv, TypeOK
  <2> QED
    BY <2>2, <2>3
<1> QED
  BY <1>1, TcpInvariant, PTL DEF Spec, WheelContract

(* No connection is closed but for a reason of its own: its peer ended or  *)
(* sent something, its idle entry fired, its file is out, the server       *)
(* stopped, or, on a reused descriptor, an EPOLLERR collected for the      *)
(* previous owner came.                                                    *)
THEOREM ClosesHaveCauses == Spec => ClosedForCause
<1> DEFINE Cause(f) ==
       sock[f] # Null /\ sock'[f] = Null =>
          \/ sock[f].data \/ sock[f].end # "no"
          \/ \E e \in due : owner[e] = callback[f]
          \/ f \in keeps \ keeps'
          \/ status' # status
          \/ \E x \in batch \ batch' : x.src = f /\ x.for # callback[f] /\ "ERR" \in x.ev
<1>1. ASSUME TcpInv, Next, NEW f \in Fd PROVE Cause(f)
  <2> SUFFICES ASSUME sock[f] # Null, sock'[f] = Null
               PROVE  \/ sock[f].data \/ sock[f].end # "no"
                      \/ \E e \in due : owner[e] = callback[f]
                      \/ f \in keeps \ keeps'
                      \/ status' # status
                      \/ \E x \in batch \ batch' : x.src = f /\ x.for # callback[f] /\ "ERR" \in x.ev
    OBVIOUS
  <2> USE <1>1, Sources
  <2>1. sock' # sock /\ f \in Owned /\ fdOf[callback[f]] = f /\ callback[f] \in Alive
    BY AliveIs DEF TcpInv, Keyed
  <2>2. CASE Stop \/ Destroy
    BY <2>2 DEF Stop, Destroy
  <2>3. CASE Accept
    <3>1. PICK fd \in Fd : sock' = [sock EXCEPT ![fd] = Head(backlog)]
      BY <2>3, Zenon DEF Accept
    <3>2. Head(backlog) # Null
      <4>1. backlog \in Seq(Socket) /\ backlog # <<>>
        BY <2>3 DEF Accept, TcpInv, TypeOK
      <4> QED
        BY <4>1, HeadTailProperties
    <3> QED
      BY <3>1, <3>2 DEF TcpInv, TypeOK
  <2>4. ASSUME NEW e \in Entry, TickFire(e)
        PROVE  \E g \in due : owner[g] = callback[f]
    <3>1. owner[e] \in Alive /\ HandleClose({owner[e]}) /\ (Erase(owner[e]) \/ UNCHANGED connections) /\ e \in due
      BY <2>1, <2>4 DEF TickFire
    <3>2. sock' = [g \in Fd |-> IF g = fdOf[owner[e]] THEN Null ELSE sock[g]]
      BY <3>1, Closing DEF TcpInv
    <3>3. owner[e] = callback[f]
      <4>1. fdOf[owner[e]] = f
        BY <3>2
      <4>2. PICK g \in Owned : callback[g] = owner[e]
        BY <3>1, AliveIs DEF TcpInv
      <4>3. fdOf[callback[g]] \in {g, -1}
        BY <4>2 DEF TcpInv, Keyed
      <4> QED
        BY <4>1, <4>2, <4>3
    <3> QED
      BY <3>1, <3>3
  <2>5. ASSUME NEW x \in batch, DispatchConnection(x)
        PROVE  \/ sock[f].data \/ sock[f].end # "no"
               \/ f \in keeps \ keeps'
               \/ \E y \in batch \ batch' : y.src = f /\ y.for # callback[f] /\ "ERR" \in y.ev
    <3> DEFINE d == callback[x.src]
    <3>1. x.src \in Fd /\ d \in Alive /\ batch' = batch \ {x}
      BY <2>5 DEF DispatchConnection
    <3>2. CASE Close(d) /\ (EndsInClose(d, x.ev) \/ Reads(d, x.ev) \/ x.src \in keeps \ keeps')
      <4>1. sock' = [g \in Fd |-> IF g = fdOf[d] THEN Null ELSE sock[g]]
        BY <3>1, <3>2, Closing DEF Close, RemoveConnection, TcpInv
      <4>2. fdOf[d] = f
        BY <4>1
      <4>3. x.src = f
        <5>1. PICK g \in Owned : callback[g] = d
          BY <3>1, AliveIs DEF TcpInv
        <5>2. g \in Fd /\ callback[g] # Null /\ fdOf[d] \in {g, -1}
          BY <5>1 DEF Owned, TcpInv, Keyed
        <5> QED
          BY <3>1, <4>2, <5>1, <5>2 DEF TcpInv, Keyed
      <4>4. sock[f].data \/ sock[f].end # "no" \/ "ERR" \in x.ev \/ f \in keeps \ keeps'
        BY <3>2, <4>2, <4>3 DEF EndsInClose, Reads
      <4>5. CASE "ERR" \in x.ev /\ x.for = callback[f]
        BY <3>1, <4>3, <4>5 DEF TcpInv, Collected, Own
      <4>6. CASE "ERR" \in x.ev /\ x.for # callback[f]
        BY <3>1, <4>3, <4>6
      <4> QED
        BY <4>4, <4>5, <4>6
    <3>3. CASE ~(Close(d) /\ (EndsInClose(d, x.ev) \/ Reads(d, x.ev) \/ x.src \in keeps \ keeps'))
      <4>1. /\ UNCHANGED connections /\ callback' = callback
            /\ keeps' \in {keeps, keeps \cup {x.src}, keeps \ {x.src}}
            /\ \/ sock' = IF "IN" \in x.ev THEN [sock EXCEPT ![x.src].data = FALSE] ELSE sock
               \/ d \notin Alive' /\ sock' = [sock EXCEPT ![x.src] = Null]
        BY <2>5, <3>3, Zenon DEF DispatchConnection
      <4>2. x.src = f
        BY <3>1, <4>1 DEF TcpInv, TypeOK
      <4>3. [sock[f] EXCEPT !.data = FALSE] # Null
        <5>1. sock[f] \in Socket
          BY DEF TcpInv, TypeOK
        <5> QED
          BY <5>1 DEF Socket
      <4>4. d \notin Alive'
        BY <4>1, <4>2, <4>3 DEF TcpInv, TypeOK
      <4>5. f \notin keeps'
        BY <3>1, <4>1, <4>2, <4>4, <2>1 DEF Alive, TcpInv, Keyed
      <4>6. f \in keeps
        BY <3>1, <4>1, <4>2, <4>4, <2>1 DEF Alive, Owned, TcpInv, Keyed
      <4> QED
        BY <4>5, <4>6
    <3> QED
      BY <3>2, <3>3
  <2>6. ASSUME NEW x \in batch, DispatchListen(x) \/ DispatchTimer(x) \/ DispatchThrows(x) \/ DispatchDestroyed(x)
        PROVE  FALSE
    BY <2>1, <2>6 DEF DispatchListen, DispatchTimer, DispatchThrows, DispatchDestroyed, kernel
  <2>7. CASE EpollWait \/ BatchEnd \/ AcceptEnd \/ AcceptFails \/ TickEnd \/ Connect \/ TimerExpires
    BY <2>1, <2>7 DEF EpollWait, BatchEnd, AcceptEnd, AcceptFails, TickEnd, Connect, TimerExpires, kernel
  <2>8. CASE ClientMoves
    <3>1. PICK g \in Fd : sock[g] # Null /\ \E t \in Moves(sock[g]) : sock' = [sock EXCEPT ![g] = t]
      BY <2>1, <2>8, Zenon DEF ClientMoves
    <3> QED
      BY <3>1 DEF Moves, TcpInv, TypeOK
  <2> QED
    BY <2>2, <2>3, <2>4, <2>5, <2>6, <2>7, <2>8, <1>1, Zenon DEF Next, Loop, Outside
<1>2. TcpInv /\ [Next]_vars => [\A f \in Fd : Cause(f)]_vars
  BY <1>1
<1> QED
  BY <1>2, TcpInvariant, PTL DEF Spec, ClosedForCause
=============================================================================
