# ezNet in TLA+

A verification project for ezNet, a single-threaded epoll server library in
C++ (`src/src`), and for the application built on it (`src/examples/ezdrop`).
The modules are translated from the source; `PROJECT.json` ties every
definition to the lines it stands for. TLC checks small instances, and the
theorems in the `*Proofs` modules are checked by TLAPS for every value of the
constants.

## The system

| component | state | operations | uses / used by |
|---|---|---|---|
| `EventLoop` | `running_`, `fdContexts_` (callback by descriptor), `pendingCallbacks_` under a mutex, a timerfd and a `TimeWheel` | `loop`, `stop`, `runInLoop`, `addFd`, `modFd`, `removeFd` | calls everybody's callbacks; other threads only post and stop |
| `TimeWheel` | buckets of intrusive doubly linked lists, current bucket | `add`, `remove`, `refresh`, `tick` | ticked by the loop's timer; its callbacks re-enter it |
| `TcpServer` | `connections_` by descriptor, the listening socket | `start`, `handleAccept`, `removeConnection`, `stop` | owns the connections; one wheel entry per connection |
| `Connection` | descriptor, state, output buffer, file being sent, wheel entry | `send`, `sendFile`, `close`, `forceClose`, `handleRead/Write/Close/Error` | edge-triggered epoll; callbacks up to `HttpServer`, `TcpServer` |
| `HttpServer` | a `ParserContext` per connection, router, hooks | `onConnection`, `onData`, `processRequest` | on `Connection`; third-party `http-parser` |
| `Router`, `HttpRequest`, `HttpResponse` | radix tree; parsed request with range; response | `addRoute`, `route`; `parseRange`; the setters and `build` | called by `HttpServer` |
| `ThreadPool` | task queue and `stop_` under a mutex, a condition variable | constructor, `enqueue`, `workerLoop`, destructor | applications |
| `Buffer` | a vector with reader and writer index | `append`, `retrieve`, `prepend`, `readFromFd`, `writeToFd` | `Connection` |
| `Timer`, `UdpServer`, `UdpEcho`, `CustomProtocol`, `Config`, `Logger` | small | | at the edge |
| `EzdropServer` | table of pick-up codes under a mutex, files on disk, table and count of active downloads | upload, download, query, completion hook, expiry sweeper (a second thread), shutdown | on `HttpServer` |
| `ImageHosting` | upload pool | upload, hand-off to the pool | on `HttpServer`, `ThreadPool` |

How they interact: one thread runs `EventLoop::loop`. Everything in `core` and
`http` happens in callbacks on that thread, so what interleaves is not
statements but *callbacks, events of one epoll batch, and the world outside*
(peer, kernel, disk, timer). Real threads are the pool's workers, threads that
post to the loop, and ezdrop's sweeper.

What is hard, and where it is treated:

* tick() walks a list it has cut off while callbacks change the wheel: `TimeWheel`.
* edge-triggered epoll forgives nothing; output leaves on three paths
  (direct write, buffer, sendfile); a close waits for output: `Connection`,
  `HttpConnection`.
* tables keyed by descriptor, while descriptors are closed and reused inside
  one batch; `removeConnection` erases key -1, `removeFd` keeps the callback:
  `TcpServer`.
* posting and stopping from other threads, with nothing to wake epoll_wait:
  `EventLoop`.
* `notify_one` outside the mutex, destruction while tasks enqueue tasks,
  thread creation failing half-way: `ThreadPool`.
* two threads deleting the same files, counters raised before the step that
  may fail, restart with the disk left as it was: `Ezdrop`.
* a timer that is stopped, or started again, by the callback it is running, or
  whose event is already in the batch: `Timer`.
* requests that a read cuts in two or puts together: `HttpConnection`.
* a vector whose two indices are moved by compaction, growth and prepending:
  `Buffer`.
* images served while a worker is still writing them: `ImageHosting`.

`PROJECT.json` lists every hazard at its line, with the properties that cover it.

## Modules

| module | models | checked in | proved in |
|---|---|---|---|
| `Deadlines` | abstract: what a timer wheel promises (each armed entry counts down to zero and expires exactly then) | | |
| `TimeWheel` | `core/TimeWheel`, pointer by pointer; refines `Deadlines` | `MCTimeWheel` | `TimeWheelProofs` |
| `Connection` | each operation of `core/Connection` as an operator on a connection record with its socket and epoll registration | through `HttpConnection` | `HttpConnectionProofs` |
| `HttpConnection` | one connection end to end: event loop, `Connection`, `HttpServer`, kernel, client | `MCHttpConnection` | `HttpConnectionProofs` |
| `TcpServer` | accept, dispatch, idle timers and closing of many connections, on `EventLoop`'s batch and tables | `MCTcpServer` | `TcpServerProofs` |
| `EventLoop` | `loop`, `stop`, `runInLoop` and their threads | through `Timer` | `TimerProofs` |
| `Timer` | `core/Timer`, started and stopped from everywhere on top of `EventLoop` | itself | `TimerProofs` |
| `ByteQueue` | abstract: a queue of bytes with some room in front | | |
| `Buffer` | `core/Buffer`: the vector and its two indices; refines `ByteQueue` | `MCBuffer` | `BufferProofs` |
| `WorkQueue` | abstract: a queue that starts tasks once, in order of acceptance | | |
| `ThreadPool` | `util/ThreadPool` with its threads; refines `WorkQueue` | itself | `ThreadPoolProofs` |
| `Router` | operators: `http/Router`'s tree and its search, `HttpRequest`'s path parameters | through `Requests` | `RequestsProofs` |
| `HttpRange` | operators: `HttpRequest::parseRange` and `processRequest`'s range arithmetic, and what a Range header means | through `Requests` | `RequestsProofs` |
| `HttpResponse` | operators: the calls that make up a response, and what the head says of its length | through `Requests` | `RequestsProofs` |
| `Requests` | `HttpServer::processRequest`: from a list of routes and a request to its response | `MCRequests` | `RequestsProofs` |
| `ImageHosting` | `examples/image_hosting` on `ThreadPool`: uploads answered before they are stored, images served meanwhile | itself | `ThreadPoolProofs` |
| `Ezdrop` | `examples/ezdrop/EzdropServer`: loop thread, sweeper, disk, crash and restart | itself | `EzdropProofs` |

The operators marked "Seeded fault" are plausible bugs of the definition that
follows them; `PROJECT.json` ("mutants") says which property notices which.
They are not part of any specification.

### How state and actions correspond to the code

**TimeWheel.** An entry is an address; `list` holds `buckets_` and the
`prev`, `next` and `bucketIndex` fields. `Add`, `Remove` and `Refresh` are the
methods; `tick()` is `TickBegin` (advance, cut the bucket's list off),
`TickFire` (detach the head, lock its weak owner, start the callback) and
`TickDelete` (the callback returns, the entry is deleted). Between `TickFire`
and `TickDelete` the callback may call the three methods. `OwnerDies` makes a
`weak_ptr` expire. The module header states the contract the callers keep:
`TcpServer`'s `WheelContract` and `Supervised` check that they do.

**Connection, HttpConnection.** The stream is a sequence of units, tagged with
the response they belong to, so that loss, repetition and reordering show. A
handler is one step, except that `handleRead` loops until EAGAIN and is one
step per turn. `queued` is membership in epoll's ready list; `Wake` and `ModFd`
say what sets it. `CloseResets` is the kernel: a close with input unread resets
the connection, and what was on its way may be lost. The write-complete callback that `HttpServer` installs is
`OnWriteComplete`. Where the code throws with nothing to catch it, or SIGPIPE
is not ignored, `up` becomes FALSE. A freed parser context that is used
afterwards is a choice: the process survives or not (`lucky`). The parser is
external: a message is incomplete, complete or malformed. The client may send
requests early (fault `early`), so that one read holds the end of one request
and the beginning of the next; `Malformed` and `Content` say what the parser
callbacks leave in the one `ParserContext` then, and `onData` processes at most
one request per read, whatever the read held. What such a client may meet is
recorded in `lapse`: a request skipped because a read held more than one, one
answered in the middle of a file or after the decision to close, and one
answered for what is left of it after a cut: a request that two reads cut in
its target keeps the second part only, because `setUrl` replaces the first. A
header that is cut loses its first part in the same way; which handler answers
does not depend on it, and what it changes in the answer is left out.
`promised` is a history: the stream that the responses handed to the connection
so far make up, against which the stream on its way is compared.

**TcpServer.** Tables are functions from descriptor numbers; a closed
descriptor's number is given out again by `Accept`, always the lowest. `ready`
is epoll's ready list and `batch` what is left of epoll_wait's array, both as
sets: nothing in the code depends on the kernel's order, so the events of a
batch are dispatched in any order, and epoll_wait may return any of the ready
events, as it does when there are more than fit into its array. `HandleClose` sets `fdOf` to -1 *before*
`RemoveConnection` erases by it, as the code does. What the data callback does
is reduced to "it may close the connection, and it may call `sendFile`": `keeps`
holds the descriptors whose callback is the one `sendFile` installs, which owns
its connection, so that this lives as long as the callback is kept, also after
`~TcpServer`. The connection callback may put another close callback in the
place of `removeConnection`; `hooked` holds the connections that have the
server's own. `AcceptEnd` is EAGAIN, `AcceptFails` any other error. `stop()`
may be called between iterations and, from a handler of something other than a
connection, between two dispatches or two accepts; `status` is `cut` when events
of connections that nothing keeps alive were left in the batch. What the bare
`this` of a destroyed connection leads to is undefined and not followed further:
`pc` becomes `crashed`, as it does when `handleWrite` throws on descriptor -1.
`stop()` is not called from a connection's own handler, and destruction occurs
between iterations only.

**EventLoop, Timer.** The two critical sections on `pendingCallbacks_` are
steps; callbacks and handlers may post and stop. `pc = "before"` is a loop that
exists and has not been entered; `EpollFails` is the end of the loop on an
error of epoll_wait other than EINTR. `Timer` adds a timerfd among the loop's
descriptors and composes each step of the loop with what is done to the timer
in it: `Started`, `Halted` and `Handled` are `start`, `stop` and
`handleTimeout`, `Used` is what a caller may do. Starts are numbered, so that a
call of an old callback shows. The contract of the callers is in the header.

**Buffer.** `b` is the vector with `readerIndex_` and `writerIndex_`; the
operators are the methods. `EnsureWritable` chooses between moving and growing
as the code does, and `Received` is the two-part `readv`. `retrieve`,
`retrieveAsString` and the successful part of `writeToFd` are `Retrieve`.

**ThreadPool.** A worker is `unborn`, at the mutex (`lock`), `waiting`,
`running` or `exited`; `notifying` holds the threads between the critical
section of `enqueue` and its `notify_one`. The constructor's threads start one
by one and may fail to.

**Router, HttpRange, Requests.** A tree node is its path from the method's
root; `MatchAt` is one call of `match`, with the assignments to `pathParams_` it
makes on the way, those of failed branches included, and `Match` the recursion. A Range header is what
`parseRange` can tell apart: empty, unreadable or numeric text on each side of
the dash. Splitting a path and reading digits are left out. `HttpResponse` has
the setters as operators on a record, and `Build` says what a client can make
of the head; `Requests` builds each response by the calls the code makes. Each
request is independent of the others, so one is enough.

**ImageHosting.** The pool's actions are `ThreadPool`'s own, with the loop
thread as the only caller; a worker's task is split into `Open`, `Write` and
`Close`. A lookup is `Find` and `Serve`, between which the worker may write on.
The exception of a full pool ends the process (`up`).

**Ezdrop.** A step is a critical section or one file operation of either
thread. A code's directory holds payloads (as upload numbers) and `Meta`. A
connection appears as the descriptor that keys `activeDownloadSizes_`; it may ask
for a second download while its first is being sent. `Crash`
wipes the memory and keeps the disk, and covers the terminating disconnect
that `HttpConnection` shows. `diskPool_` is declared in the code and unused.

## Runs

| run | instance | shows |
|---|---|---|
| `wheel` | 3 entries, 3 buckets, tick of 2, timeouts 0, 3, 9 (clamped up, rounded up, clamped down); 58,644 states | `TypeOK`, `ListsOK`, `NoEntryLost`, refinement `KeepsDeadlines`, `EventuallyExpires` |
| `http` | all request kinds, all faults (end of stream, reset, idle timer, truncated file, early requests), 2 requests, answers and files of 1 or 2 units, send queue of 1; 106,629 states | `StreamIntact`, `NoLostWakeup`, `NoSpareAnswer`, `ClosesOnlyWhenDone`, `TerminatesOnlyBy`, `EveryRequestAnswered`, `ClosesWhenAsked` |
| `http_disconnect` | file requests, the client leaves | finding 1: `SurvivesDisconnect` violated |
| `tcp` | 3 clients, 2 descriptors, 3 connection and 3 entry addresses, 1 close callback replaced and 1 file in flight at a time; 2,760,522 states, with symmetry | `NoDanglingCallback`, `TablesAgree`, `Supervised`, `NoForgottenPeer`, `WheelContract`, `ClosedForCause` |
| `tcp_stale` | 2 clients, 2 descriptors | finding 2: `NoCallbackAfterRemoval` violated |
| `loop` | 3 posted callbacks, 2 starts of the timer, one other descriptor; 81,270 states | `ExactlyOnceInOrder`, `PostedBeforeEvents`, `PostedRuns`, `StoppedLoopExits`, `StopSilences`, `StartsFire` |
| `pool` | 2 workers, 2 callers, 4 tasks, queue of 2; 16,700 states | `NoLostWakeup`, `DrainedWhenGone`, `IsWorkQueue`, `DestructorReturns` |
| `uploads` | 2 workers, 4 images of 2 units, queue of 1; 147,162 states | `AnsweredIsStored`, `ServedWhole` |
| `buffer` | 2 bytes of room in front, vectors of 4 to 9 bytes, chunks of 1 to 3 different bytes, a second read buffer of 2; 97,607 states | `IndicesOK`, refinement `IsByteQueue` |
| `requests` | up to 3 of 9 patterns, 8 paths, `int64_t` from -3 to 2, files of 0 to 2 bytes, every header, every way a handler may leave the response; 1,271,848 states | `ChosenIsBest`, `ParamsBound`, `RangeExact`, `Framed` |
| `ezdrop` | 2 codes, 2 uploads, 3 connections, limit of 2, 2 starts; 198,479 states | `ListedIsStored`, `NothingLeftBehind`, `LimitHolds`, `ExpiredIsDeleted` |
| `ezdrop_count` | 1 code, 2 connections, limit of 1 | finding 3: `CountIsInFlight` violated |

Why the bounds are enough. Three routes are the least for a search that comes
back twice and one more that fits; `RangeExact` is also proved for every width.
Three entries put one in front of, and one behind, the entry being fired, in
the same bucket or the next, and three buckets make the index wrap while a
timeout of a whole turn comes back to the same bucket. A send queue of one unit
makes every write short; two header and two file units give a first, a last and
an interrupted piece on each path; two requests follow each other on one
connection, or overtake the answer to the first, or share a read. Three posts
are one in the swapped vector, one posted by it and one from another thread;
two starts are one and its restart. Chunks longer than the room left, on a
vector of less than twice the initial size, make `Buffer` move, grow and use
its second read buffer, in either order. Two descriptors and three clients give
a descriptor that is reused, a client that has to wait for one (EMFILE), and an
innocent third connection; there is one address more than there are descriptors
because the old object under a number lives until the new one replaces it. One
file in flight and one replaced close callback, at a time, each meet connections
without, on the same connection or on two. Four
tasks over-fill a queue of two with two workers busy. Two uploads under one
code are a reuse; a limit of two is exceeded by the third connection; one
restart inherits a disk. Four images over-fill a queue of one with two workers
busy.

`CHECK_DEADLOCK FALSE` appears where the system really comes to rest: a
connection that is closed, a pool that is gone, a server that is down, clients
that are all served and gone. Only `MCTimeWheel`'s run lists `TypeOK`, where it
is the part of the inductive invariant that says every pointer stays inside the
entries. The other modules' `TypeOK` says what their states are; it holds on
the same instances and is not listed again. `Buffer`'s is `IndicesOK`.

## Fairness

* `TimeWheel`: a tick that has begun goes on, and ticks keep coming (timerfd).
  Clients are not fair; `EventuallyExpires` assumes an entry is refreshed only
  finitely often.
* `HttpConnection`: the loop thread runs; the client finishes the request it
  has begun and reads what arrives. Faults are never fair, and the properties
  name the faults that excuse.
* `TcpServer` and `Requests`: none; their properties are about what has happened.
* `EventLoop`: the loop thread runs, and epoll_wait is not interrupted for ever
  (strong fairness on its return; the code passes it a timeout).
* `Timer`: as for the loop, and an armed timerfd expires.
* `ImageHosting`: as for the pool; the loop thread finishes a handler it has
  begun. Uploads, lookups and the signal to end are free.
* `Buffer`: none.
* `ThreadPool`: every thread that can take a step does; condition variables
  may wake spuriously and need not.
* `Ezdrop`: the sweeper thread runs and wakes every minute; the destructor goes
  on once the sweeper has been joined. Requests are free.

## What is proved

Every theorem holds for any constants that satisfy the module's named
assumption (`TimeWheelAssumption`, `BufferAssumption` and so on), which say
that sizes are natural numbers, that a null value is none of the real ones, and
that patterns and paths are sequences of segments, no path segment being the
mark of a parameter.
Every invariant named below was checked by TLC on the instance of the module's
run before it was proved.

`TimeWheelProofs`
: `TypeCorrect`, `ListsIntact`, `NothingLost`, `ImplementsDeadlines`. The
  invariant is `TypeOK /\ ListsOK /\ Acyclic(list.next, live)`. `ListsOK` is
  local (what one link says of its neighbour) and is inductive together with
  `TypeOK`, but does not exclude a ring of entries no bucket leads to, which
  would satisfy every local condition; `Acyclic` gives each live entry a rank
  that falls along `next`, and with it `NoEntryLost` follows by taking an
  entry of least distance. The operators carry the argument: `DetachLinked`,
  `AttachLinked`, `PushAcyclic`, `SkipAcyclic` say what cutting out and hanging
  in preserve, for any lists. Refinement rests on arithmetic modulo
  `BucketCount`: the slot chosen for t ticks is t turns of the clock away
  (`SlotRemaining`), and each tick brings every other slot nearer by one
  (`NearerByOne`).

`HttpConnectionProofs`
: `TypeCorrect`, `StreamIsIntact`, `NoWakeupIsLost`, `NoAnswersToSpare`,
  `ClosingIsOrderly`, `TerminationHasCauses`. First comes a contract for each
  operation of `Connection` (`SendIs`, `SendFileIs`, `WriteIs`, `CloseIs`,
  `HandleCloseIs`): it keeps the connection `Sound` (which fields can go
  together: a registration for EPOLLOUT exactly while there is output, nothing
  registered once closed), it `Keeps` what it has nothing to do with and leaves
  output only together with an event, and it says where each unit of the stream
  goes. The invariant `HttpInv` adds what relates the connection to the world:
  `Coming` (an event is queued, or the loop is on its way to the handler, for
  all that is unread or can be written), `Stream` (received, sent, buffered and
  the rest of the file are what was promised), `Phase` (what the state says of
  the last response), `Counted` (answers, requests that wait and the one that
  is not sent completely against requests), `Parsing` and `ErrorsAreReal`.
  `NoLostWakeup` speaks of the moments the loop waits only, so it is not
  inductive; `StreamIntact` forgets what became of a truncated file, which
  `Stream` keeps as a rest it need not name. Writing units front to back is
  associativity of concatenation, used for each path a unit can take.

`TcpServerProofs`
: `DescriptorTablesAgree`, `SupervisionIsComplete`, `CallbacksAreAlive`,
  `PeersAreNoticed`, `WheelIsUsedRight`, `ClosesHaveCauses`. `TcpInv` says how
  the tables are keyed (`Keyed`: a dead object may stay under its old number,
  until the number is given out again, and each object under one number only),
  what the rest of a batch may rely on
  (`BatchOK`), what tick() has taken (`DueOK`), where each edge is (`Coming`),
  and `Collected`, which `ClosedForCause` needs: until the listening socket's
  turn in a batch has come, each event is for the connection its descriptor
  still has, so that only an accept in the same batch can pass an event on to
  another connection.

`TimerProofs`
: `CallbacksExactlyOnce` (`EventLoop`), `TimerKeepsOrder`, `PostedRunsFirst`,
  `StoppedTimersAreSilent` (`Timer`). `LoopInv` adds to `ExactlyOnceInOrder`
  where the callbacks posted before epoll_wait returned can still be
  (`CalledUpTo`); it is proved of the loop's own steps, so it serves the loop
  with a timer on it and without. `TimerInv` says that a timer that is on runs
  its last start, and that no event collected before a stop is for the
  callback that was stopped.

`BufferProofs`
: `IndicesStayInside`, `ImplementsByteQueue`. One lemma for each operation says
  what it makes of the bytes held and of the room in front of them (`RoomKept`);
  `BufferInv` adds that the writer index never comes before `HeadRoom`, without
  which `retrieveAll` would put the indices outside a vector that was shrunk.

`EzdropProofs`
: `ListedUploadsAreThere`, `NoStorageIsLeftBehind`, `DownloadsAreLimited`.
  `EzdropInv` says what each thread may rely on between two of its steps while
  the other one works (`LoopOK`, `SweepOK`): a code whose deletion is due is
  neither listed nor being filled (`DueOK`), an upload about to be listed is
  stored (`FilledOK`), a directory is listed, due or being filled (`Covered`),
  each of them except for codes given out too early (`clashed`); and the count
  of downloads covers those in flight and the one that is being made (`LimitOK`).

`RequestsProofs`
: `RoutesAreBest`, `ParamsAreBound`. `TreeOK` says that the tree is the list of
  routes: with each node all nodes on the way to it are there (`Closed`), each
  handler is at the node of its pattern unless one added later took its place
  (`HandlersOK`), and a parameter node has the name of a pattern that uses it
  (`NamesOK`). `match` is a recursive function over the nodes; that it has a
  value (`MatchIs`) is an induction over how far below a node the path can
  still lead, and what it finds (`MatchFinds`, `MatchAssigns`, `MatchBinds`) is
  one from the deepest nodes up (`FromTheLeaves`). Both take a set for what is
  proved, where the library's induction takes an operator (`Induction`).
  `Leads` is the set of nodes with a handler that take the rest of a path: a
  node's literal child leads to some of them and its parameter to the others,
  which come after (`LeadsSplit`), so that what the depth-first search finds
  first is the most specific route. What failed branches assign has the names
  of parameters further down (`MatchAssigns`), which differ from those above
  where the routes agree on names (`NamesDistinct`).
: `RangesAreExact`. `parseRange` and the arithmetic are proved apart
  (`Parsed`, `Resolved`) through `Wants`, what the markers -1 stand for, for
  any width of integers and any size of file, with wrapping subtraction; the
  invariant only says where a response comes from.
: `ResponsesAreFramed`. The same invariant, with what each response was built
  by; `FileFramed` and `BodyFramed` follow the setters, for any size and range.

`ThreadPoolProofs`
: `TypeCorrect`, `DestructionDrains`, `NoWakeupLost`, `ImplementsWorkQueue`.
  The invariant is `TypeOK /\ LifeCycle /\ Ownership /\ DrainedWhenGone /\
  NobodySleepsAtJoin`: which worker states each phase of the pool allows, and
  that a task is in one place only. `NoLostWakeup` is an inequality between
  cardinalities (tasks queued against threads on their way to them), kept by
  every step (`Counts`, `OneMoreReady`).
: `HostRunsAPool`, `ImagesAreServedWhole`. Every step of `ImageHosting` is a
  step of its pool or leaves it alone, so the theorems above hold of it. On top
  of the pool's invariant, `Files` says that a file that is not whole is open in
  a worker or has been given up, and that only a worker with a task has a file
  open; `Ownership` makes that worker the one the image belongs to.

What writing the proofs showed of the models: `Content`'s first two cases
overlap, but never where it is used, since what a read left complete ends in a
whole request (`ContentIsKind`); an order of epoll's ready list and of a batch
was an assumption nothing needed, and is gone.

Only model-checked: all liveness properties, which rest on fairness and
ENABLED (`EventuallyExpires`, `EveryRequestAnswered`, `ClosesWhenAsked`,
`PostedRuns`, `StoppedLoopExits`, `StartsFire`, `DestructorReturns`,
`AnsweredIsStored`, `ExpiredIsDeleted`). Every other property of a passing run
is a theorem. The violations are TLC counterexamples.

## Findings

1. **A client that leaves during a transfer terminates the server**
   (`Connection.cpp:346`): the write-complete callback closes the connection
   inside `handleClose`, whose own `removeFd(-1)` then throws.
2. **Callbacks run after `removeFd`** (`EventLoop.cpp:85`): events of the same
   batch reach a removed descriptor; when its number has been reused, an
   EPOLLERR closes the new connection (`ClosedForCause`, last disjunct).
3. **Downloads answered with an error stay counted** (`EzdropServer.cpp:836`):
   a range that cannot be satisfied, or a file the sweeper takes in time, uses
   up a place of `maxConcurrentDownloads_` for good.

More facts the passing runs state, as exceptions of their properties:

* Nothing calls `setKeepAlive` on a `Connection` (`HttpServer.cpp:70`), so a
  connection is always closed after a file (`ClosesOnlyWhenDone`).
* A request that arrives while a file is in flight is answered at once, so its
  header is put into the middle of the file; if it asks to close, the file's
  descriptor and the connection go, and if the same event carried EPOLLOUT,
  `handleWrite` works on descriptor -1 and the server terminates
  (`TerminatesOnlyBy`, last disjunct; lapse `mixed`).
* A request read after the decision to close has its header dropped by `send`
  and its file sent by `sendFile`; a page's `resetForNextRequest` takes the
  connection back to reading, and it is not closed (lapse `late`).
* Of several requests in one read only the last is answered (lapse `skipped`).
  If that one has only begun it is answered as it stands, with 404 if its head
  is not complete, and the rest of it, later, with 400; there is never one
  answer too many (`NoSpareAnswer`).
* A target that two reads cut is looked up by its second part (lapse `cut`).
* A 416, a response no handler has set a body of, and an empty body in chunks
  carry no length; a client that keeps the connection cannot tell that they have
  ended (`Framed`).
* `TcpServer::stop()` from inside the loop leaves callbacks of destroyed
  connections in the batch (`NoDanglingCallback`, status `cut`).
* A user who replaces a connection's close callback, as `tcp_server_test.cpp:199`
  does, replaces `removeConnection`: the wheel entry stays until it fires
  (`Supervised`, `hooked`).
* A connection whose file is in flight outlives `~TcpServer`, in no table of a
  server (`TablesAgree`, `gone`).
* Any error of accept4, not only EAGAIN, leaves the rest of the backlog until the
  next client connects (`NoForgottenPeer`, `refused`).
* A second download asked for while the first is being sent is counted under the
  same descriptor and ignored by `sendFile`, so it stays counted (part of
  finding 3; `LimitHolds` is not affected).
* An error of epoll_wait other than EINTR ends the loop, and what is posted is
  never run (`PostedRuns`).
* A response may be lost behind a close with input unread, which resets the
  connection (`EveryRequestAnswered`).
* A `stop()` before `loop()` is lost: `loop()` sets `running_` (`EventLoop.cpp:89`).
* The `stop()` a one-shot `Timer` does after its callback also stops the start
  the callback has made (`StartsFire`, `nested`).
* The exception of a full pool ends the image server (`AnsweredIsStored`, `up`).
* A suffix longer than the file is refused, where the whole file would satisfy
  it (`Answers`, last conjunct).
* A route reads "" for a parameter whose place an earlier route has named
  otherwise (`Router.cpp:69`, `NamesAgree`).
* A code given out again while its old directory is still due to be deleted
  loses the new upload (`Ezdrop`, `clashed`); after a restart the directories
  from before are never removed and block their codes (`inherited`).

## Not modelled

* `Config`, `Logger`, JSON, multipart and URL parsing, `HttpResponse`'s wording
  and its headers other than the length, ezdrop's archives and totals: pure
  data, or input and output. Of the `main` programs, only what joins
  `ImageHosting` to its pool.
* `http-parser`: third-party; its contract is external in `HttpConnection`.
* `UdpServer`, `UdpEcho`, `CustomProtocol`: one datagram in, one out, no state.
* `TcpServer::stop()` from a connection's own handler, which destroys the
  object that is running; input that arrives after the server has closed, which
  resets the connection like input unread then; `Buffer` at the limits of `size_t`.

## What is left

Proofs: that `HttpConnection`'s answers never overtake each other without the
hypothesis on `lapse` of `StreamIntact`, for the units of one response.
