------------------------------ MODULE Connection ------------------------------
(***************************************************************************)
(* src/core/Connection.{h,cpp}: what each operation of a Connection does   *)
(* to the connection, to its epoll registration and to its socket, as      *)
(* operators from one state to the next.  HttpConnection runs them.        *)
(*                                                                         *)
(* A connection state c is a record:                                       *)
(*   up        the server process is running (FALSE: an exception nobody   *)
(*             catches, or a signal, has terminated it)                    *)
(*   open      fd_ >= 0                                                    *)
(*   state     state_ (Processing is never entered by the code)            *)
(*   out       outputBuffer_, in units of the stream                       *)
(*   sending   sendingFile_, which is fileFd_ >= 0 as well                 *)
(*   file      what is left to send of the file                            *)
(*   shrunk    the file on disk ends before what is left to send           *)
(*   ctx       closeCallback_ is set, and with it the ParserContext it     *)
(*             owns and userData_                                          *)
(*   interest  the events registered with epoll                            *)
(*   queued    the descriptor is on epoll's ready list                     *)
(*   rx, eof   the socket's receive queue, and the peer's FIN behind it    *)
(*   tx        the socket's send queue, at most Cap units                  *)
(*   reset     the peer's RST has arrived                                  *)
(***************************************************************************)
EXTENDS Integers, Sequences

CONSTANT Cap        \* capacity of the socket's send queue, in units

ASSUME CapAssumption == Cap \in Nat \ {0}

Take(q, n) == SubSeq(q, 1, n)
Drop(q, n) == SubSeq(q, n + 1, Len(q))
Least(a, b) == IF a < b THEN a ELSE b

(* An exception leaves the event loop: nothing catches it. *)
Terminate(c) == [c EXCEPT !.up = FALSE]

(* What poll() reports of the socket. *)
Readiness(c) ==
    {e \in {"IN", "OUT", "ERR"} :
        \/ e = "IN"  /\ (c.rx # <<>> \/ c.eof \/ c.reset)
        \/ e = "OUT" /\ (Len(c.tx) < Cap \/ c.reset)
        \/ e = "ERR" /\ c.reset}

(* EventLoop::modFd: a removed descriptor throws; EPOLL_CTL_MOD looks at   *)
(* the socket again, so readiness that is already there is an edge.        *)
ModFd(c, events) ==
    IF ~c.open THEN Terminate(c)
    ELSE [c EXCEPT !.interest = events,
                   !.queued = @ \/ Readiness(c) \cap (events \cup {"ERR"}) # {}]

(* Connection::handleClose, second half: removeFd throws on fd -1;         *)
(* otherwise the descriptors are closed and the close callback, moved out  *)
(* of the connection, runs and is destroyed with what it owns.             *)
ReleaseFd(c) ==
    IF ~c.open THEN Terminate(c)
    ELSE [c EXCEPT !.open = FALSE, !.interest = {}, !.queued = FALSE,
                   !.sending = FALSE, !.file = <<>>, !.ctx = FALSE]

(* Seeded fault: close never waits for the output. *)
CloseNow(c) ==
    IF c.up /\ c.open THEN ReleaseFd([c EXCEPT !.state = "Closing"]) ELSE c

(* Connection::close: with output buffered it only marks the state; else   *)
(* it is forceClose, in whose handleClose the write-complete callback      *)
(* finds the state already Closing and does nothing.                       *)
Close(c) ==
    LET d == [c EXCEPT !.state = "Closing"]
    IN  IF ~c.up THEN c
        ELSE IF d.out = <<>> /\ d.open THEN ReleaseFd(d) ELSE d

(* The callback HttpServer installs for "write complete": after a file     *)
(* response it closes, because nothing ever sets keepAlive_.               *)
OnWriteComplete(c) == IF c.state = "SendingResponse" THEN Close(c) ELSE c

(* Seeded fault: no check for a closed descriptor. *)
HandleCloseTwice(c) == ReleaseFd(IF c.sending THEN OnWriteComplete(c) ELSE c)

(* Connection::handleClose; handleError and forceClose come to the same.   *)
HandleClose(c) ==
    IF ~c.open THEN c
    ELSE ReleaseFd(IF c.sending THEN OnWriteComplete(c) ELSE c)

(* Connection::resetForNextRequest. *)
ResetForNextRequest(c) == IF c.up THEN [c EXCEPT !.state = "ReadingRequest"] ELSE c

(* A write that fails: after RST the first one reports ECONNRESET, but     *)
(* once the peer's FIN has been seen it is EPIPE with SIGPIPE, which the   *)
(* server does not ignore; on fd -1 it is EBADF.                           *)
WriteFails(c) == ~c.open \/ c.reset
FailedWrite(c) == IF c.open /\ c.eof THEN Terminate(c) ELSE HandleClose(c)

(* write(2) of data straight to the socket, as much as fits. *)
Push(c, data) ==
    [c EXCEPT !.tx = @ \o Take(data, Least(Len(data), Cap - Len(c.tx)))]
Rest(c, data) == Drop(data, Least(Len(data), Cap - Len(c.tx)))

(* Seeded faults: after a short write, everything is buffered once more;   *)
(* or EPOLLOUT is not asked for.                                           *)
SendAgain(c, data) ==
    IF c.state = "Closing" THEN c
    ELSE IF WriteFails(c) THEN FailedWrite(c)
    ELSE IF Rest(c, data) = <<>> THEN Push(c, data)
    ELSE ModFd([Push(c, data) EXCEPT !.out = data], {"IN", "OUT"})
SendUnarmed(c, data) ==
    IF c.state = "Closing" THEN c
    ELSE IF WriteFails(c) THEN FailedWrite(c)
    ELSE [Push(c, data) EXCEPT !.out = @ \o Rest(c, data)]

(* Connection::send. *)
Send(c, data) ==
    IF c.state = "Closing" THEN c
    ELSE IF c.out # <<>> THEN ModFd([c EXCEPT !.out = @ \o data], {"IN", "OUT"})
    ELSE IF WriteFails(c) THEN FailedWrite(c)
    ELSE IF Rest(c, data) = <<>> THEN Push(c, data)
    ELSE ModFd([Push(c, data) EXCEPT !.out = Rest(c, data)], {"IN", "OUT"})

(* Connection::sendFile(fd): ignored while a file is in flight. *)
SendFile(c, data) ==
    IF ~c.up \/ c.sending THEN c
    ELSE ModFd([c EXCEPT !.sending = TRUE, !.file = data, !.shrunk = FALSE],
               {"IN", "OUT"})

(* Seeded fault: the waiting close is forgotten. *)
WriteDoneOpen(c) ==
    LET d == ModFd(c, {"IN"})
    IN  IF d.up THEN OnWriteComplete(d) ELSE d

(* After the last byte: back to reading, tell the upper layer, and finish  *)
(* a close that was waiting for the output.                                *)
WriteDone(c) ==
    LET d == ModFd(c, {"IN"})
        e == IF d.up THEN OnWriteComplete(d) ELSE d
    IN  IF e.up /\ e.state = "Closing" THEN HandleClose(e) ELSE e

(* Seeded fault: EPOLLOUT is removed although some of the file is left. *)
WriteFileOnce(c) ==
    LET h == [Push(c, c.out) EXCEPT !.out = Rest(c, c.out)]
        f == [Push(h, h.file) EXCEPT !.file = Rest(h, h.file)]
    IN  IF WriteFails(c) THEN FailedWrite(c)
        ELSE IF h.out # <<>> THEN h
        ELSE IF f.file # <<>> THEN ModFd(f, {"IN"})
        ELSE WriteDone([f EXCEPT !.sending = FALSE])

(* Connection::handleWrite while sendingFile_: the header first, then the  *)
(* file, as far as the socket takes them.  sendfile() returning 0 leaves   *)
(* the connection as it is.                                                *)
WriteFile(c) ==
    LET h == [Push(c, c.out) EXCEPT !.out = Rest(c, c.out)]
        f == [Push(h, h.file) EXCEPT !.file = Rest(h, h.file)]
    IN  IF WriteFails(c) /\ (c.out # <<>> \/ c.file # <<>>) THEN FailedWrite(c)
        ELSE IF h.out # <<>> THEN h
        ELSE IF f.file # <<>> \/ f.shrunk THEN f
        ELSE WriteDone([f EXCEPT !.sending = FALSE])

(* Connection::handleWrite in buffer mode. *)
WriteBuffer(c) ==
    LET h == [Push(c, c.out) EXCEPT !.out = Rest(c, c.out)]
    IN  IF c.out # <<>> /\ WriteFails(c) THEN FailedWrite(c)
        ELSE IF h.out # <<>> THEN h
        ELSE WriteDone(h)

HandleWrite(c) == IF c.sending THEN WriteFile(c) ELSE WriteBuffer(c)
=============================================================================
