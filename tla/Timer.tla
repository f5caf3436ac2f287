-------------------------------- MODULE Timer --------------------------------
(***************************************************************************)
(* src/core/Timer.{h,cpp}: a timer on an event loop.  The loop of module   *)
(* EventLoop dispatches the timer's descriptor, Tfd; callbacks posted to   *)
(* the loop, its handlers and the timer's own callback start and stop the  *)
(* timer.  Starts are numbered; number n stands for the callback given to  *)
(* the n-th start as well.                                                 *)
(*                                                                         *)
(* Contract of the callers: a timer is used on the loop's thread only, it  *)
(* is not started while it is running (addFd would throw), it outlives the *)
(* iteration in which it is stopped, and a callback that starts it again,  *)
(* and so replaces the std::function it runs in, does not use its captures *)
(* afterwards.                                                             *)
(***************************************************************************)
EXTENDS EventLoop

CONSTANTS Tfd,         \* the timer's descriptor
          MaxStarts    \* how often the timer is started

ASSUME TimerAssumption == Tfd \in Fd /\ MaxStarts \in Nat

VARIABLES
    timer,     \* on: running_; repeat: repeat_; cb: the number of callback_;
               \* armed, expired: the timerfd will expire, has expired;
               \* starts: how many there have been;
               \* called, stopped, nested: history: the starts whose callback
               \* has been called, that were stopped by a caller, and the
               \* one-shot ones that were made inside the timer's callback
    before     \* history: the starts stopped when epoll_wait last returned

allvars == <<vars, timer, before>>

-----------------------------------------------------------------------------
(* Seeded faults: the first callback is kept for ever; the part of the     *)
(* interval below a second is dropped.                                     *)
StartedFirst(t, repeat) ==
    [t EXCEPT !.on = TRUE, !.repeat = repeat, !.cb = IF @ = 0 THEN 1 ELSE @,
              !.starts = @ + 1, !.armed = TRUE, !.expired = FALSE]
StartedTruncated(t, repeat) ==
    [t EXCEPT !.on = TRUE, !.repeat = repeat, !.cb = t.starts + 1, !.starts = @ + 1,
              !.armed = FALSE, !.expired = FALSE]

(* Timer::start; the interval is positive. *)
Started(t, repeat) ==
    [t EXCEPT !.on = TRUE, !.repeat = repeat, !.cb = t.starts + 1, !.starts = @ + 1,
              !.armed = TRUE, !.expired = FALSE]

(* Timer::stop. *)
Halted(t) == [t EXCEPT !.on = FALSE, !.armed = FALSE, !.expired = FALSE]

StoppedByCaller(t) ==
    IF t.on THEN [Halted(t) EXCEPT !.stopped = @ \cup {t.starts}] ELSE t

(* What a caller may leave behind: nothing done, stopped, started or both. *)
Used(t) ==
    LET off == StoppedByCaller(t)
    IN  {t, off} \cup {Started(off, r) : r \in {x \in BOOLEAN : t.starts < MaxStarts}}

(* Timer::handleTimeout: the callback, which may use the timer itself, and *)
(* then stop() if the timer is a one-shot one by now.                      *)
Handled(t) ==
    LET called == [t EXCEPT !.expired = FALSE, !.called = @ \cup {t.cb}]
        fresh(u) == (t.starts + 1) .. u.starts
    IN  {IF u.repeat THEN u ELSE [Halted(u) EXCEPT !.nested = @ \cup fresh(u)] :
            u \in Used(called)}

-----------------------------------------------------------------------------
TimerInit ==
    /\ Init
    /\ timer = [on |-> FALSE, repeat |-> FALSE, cb |-> 0, armed |-> FALSE, expired |-> FALSE,
                starts |-> 0, called |-> {}, stopped |-> {}, nested |-> {}]
    /\ before = {}

(* The descriptor is reported if it is registered and readable. *)
Wait ==
    /\ EpollWait
    /\ Tfd \in events' <=> timer.on /\ timer.expired
    /\ before' = timer.stopped
    /\ UNCHANGED timer

(* Callbacks and handlers that use the timer. *)
Caller ==
    /\ RunOne \/ \E f \in Fd \ {Tfd} : DispatchFd(f)
    /\ timer' \in Used(timer)
    /\ UNCHANGED before

(* removeFd leaves the callback in place, so an event that epoll_wait has  *)
(* returned reaches the timer even if it has been stopped since.           *)
HandleTimeout ==
    /\ DispatchFd(Tfd)
    /\ timer' \in Handled(timer)
    /\ UNCHANGED before

LoopStep ==
    \/ Wait \/ Caller \/ HandleTimeout
    \/ /\ Start \/ Test \/ Swap \/ RunDone \/ DispatchTimer \/ DispatchEnd
       /\ UNCHANGED <<timer, before>>

UseBeforeLoop ==
    /\ pc = "before"
    /\ timer' \in Used(timer)
    /\ UNCHANGED <<vars, before>>

(* Time passes; a one-shot timerfd expires once. *)
Expire ==
    /\ timer.armed /\ ~timer.expired
    /\ timer' = [timer EXCEPT !.expired = TRUE, !.armed = timer.repeat]
    /\ UNCHANGED <<vars, before>>

TimerNext ==
    \/ LoopStep \/ UseBeforeLoop \/ Expire
    \/ (Interrupted \/ EpollFails \/ Others) /\ UNCHANGED <<timer, before>>

(* As for EventLoop; and time passes. *)
TimerFairness ==
    WF_allvars(LoopStep) /\ SF_allvars(Wait) /\ WF_allvars(Expire)

TimerSpec == TimerInit /\ [][TimerNext]_allvars /\ TimerFairness

-----------------------------------------------------------------------------
(* A timer that has been stopped stays silent from the next iteration of   *)
(* the loop on: the callback of a start that was stopped when epoll_wait   *)
(* returned is not called.  (In the iteration that stops it, it may be.)   *)
StopSilences ==
    [][HandleTimeout => timer.cb \notin before]_allvars

(* Every start gets its call, one-shot or not, unless it is stopped or the *)
(* loop ends, or it is a one-shot start made inside the timer's callback:  *)
(* the stop() that follows the callback takes the new start for the old.   *)
StartsFire ==
    \A n \in 1 .. MaxStarts :
        (timer.starts >= n) ~>
            \/ n \in timer.called \cup timer.stopped \cup timer.nested
            \/ pc = "exited"
=============================================================================
