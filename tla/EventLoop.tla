------------------------------ MODULE EventLoop ------------------------------
(***************************************************************************)
(* src/core/EventLoop.{h,cpp}, the part that other threads touch: loop(),  *)
(* stop(), and callbacks posted with runInLoop().                          *)
(*                                                                         *)
(* running_ is one atomic, pendingCallbacks_ is under a mutex whose        *)
(* critical sections are a push and a swap: each is a step.  Nothing wakes *)
(* epoll_wait when a callback is posted or the loop is stopped, but it     *)
(* returns at least once a second, with or without events.                 *)
(***************************************************************************)
EXTENDS Naturals, Sequences, SequencesExt

CONSTANTS MaxPosts,    \* how many callbacks are posted, from anywhere
          Fd           \* descriptors watched besides the loop's own timer

ASSUME EventLoopAssumption == MaxPosts \in Nat /\ "timer" \notin Fd

VARIABLES
    running,    \* running_
    pc,         \* the loop thread: see Step
    events,     \* what epoll_wait returned and the loop has not dispatched
    pending,    \* pendingCallbacks_; callbacks are numbered as they are posted
    taken,      \* the queue executePendingCallbacks has swapped out
    executed,   \* history: callbacks called, in order
    posted,     \* history: how many have been posted
    mark        \* history: how many had been when epoll_wait last returned

vars == <<running, pc, events, pending, taken, executed, posted, mark>>

Step  == {"before", "test", "wait", "swap", "run", "dispatch", "exited"}
Event == Fd \cup {"timer"}

Init ==
    /\ running = FALSE /\ pc = "before" /\ events = {}
    /\ pending = <<>> /\ taken = <<>> /\ executed = <<>>
    /\ posted = 0 /\ mark = 0

(* EventLoop::runInLoop and EventLoop::stop. *)
Post ==
    /\ posted < MaxPosts
    /\ posted' = posted + 1
    /\ pending' = Append(pending, posted')
RunInLoop == Post /\ UNCHANGED running
Stop      == running' = FALSE /\ UNCHANGED <<pending, posted>>

(* What code running on the loop thread, or elsewhere, may call. *)
Calls == RunInLoop \/ Stop \/ UNCHANGED <<pending, posted, running>>

-----------------------------------------------------------------------------
(* loop() *)
Start ==
    /\ pc = "before"
    /\ running' = TRUE
    /\ pc' = "test"
    /\ UNCHANGED <<events, pending, taken, executed, posted, mark>>

(* Seeded fault: running_ is not looked at. *)
TestNothing ==
    /\ pc = "test"
    /\ pc' = "wait"
    /\ UNCHANGED <<running, events, pending, taken, executed, posted, mark>>

Test ==
    /\ pc = "test"
    /\ pc' = IF running THEN "wait" ELSE "exited"
    /\ UNCHANGED <<running, events, pending, taken, executed, posted, mark>>

(* Seeded fault: pending callbacks wait for the next timer event. *)
EpollWaitOnly ==
    /\ pc = "wait"
    /\ events' \in SUBSET Event
    /\ mark' = posted
    /\ pc' = "dispatch"
    /\ UNCHANGED <<running, pending, taken, executed, posted>>

EpollWait ==
    /\ pc = "wait"
    /\ events' \in SUBSET Event
    /\ mark' = posted
    /\ pc' = "swap"
    /\ UNCHANGED <<running, pending, taken, executed, posted>>

(* epoll_wait fails: EINTR, or for good. *)
Interrupted ==
    /\ pc = "wait"
    /\ pc' = "test"
    /\ UNCHANGED <<running, events, pending, taken, executed, posted, mark>>

EpollFails ==
    /\ pc = "wait"
    /\ pc' = "exited"
    /\ UNCHANGED <<running, events, pending, taken, executed, posted, mark>>

(* Seeded fault: the queue is copied, not swapped. *)
SwapCopies ==
    /\ pc = "swap"
    /\ taken' = pending
    /\ pc' = "run"
    /\ UNCHANGED <<running, events, pending, executed, posted, mark>>

(* executePendingCallbacks() *)
Swap ==
    /\ pc = "swap"
    /\ taken' = pending /\ pending' = <<>>
    /\ pc' = "run"
    /\ UNCHANGED <<running, events, executed, posted, mark>>

RunOne ==
    /\ pc = "run" /\ taken # <<>>
    /\ executed' = Append(executed, Head(taken))
    /\ taken' = Tail(taken)
    /\ Calls
    /\ UNCHANGED <<pc, events, mark>>

(* Seeded fault: callbacks posted by callbacks are thrown away. *)
RunDoneClears ==
    /\ pc = "run" /\ taken = <<>>
    /\ pending' = <<>>
    /\ pc' = "dispatch"
    /\ UNCHANGED <<running, events, taken, executed, posted, mark>>

RunDone ==
    /\ pc = "run" /\ taken = <<>>
    /\ pc' = "dispatch"
    /\ UNCHANGED <<running, events, pending, taken, executed, posted, mark>>

(* The timer's callback executes pending callbacks once more. *)
DispatchTimer ==
    /\ pc = "dispatch" /\ "timer" \in events
    /\ events' = events \ {"timer"}
    /\ pc' = "swap"
    /\ UNCHANGED <<running, pending, taken, executed, posted, mark>>

DispatchFd(f) ==
    /\ pc = "dispatch" /\ f \in events
    /\ events' = events \ {f}
    /\ Calls
    /\ UNCHANGED <<pc, taken, executed, mark>>

DispatchEnd ==
    /\ pc = "dispatch" /\ events = {}
    /\ pc' = "test"
    /\ UNCHANGED <<running, events, pending, taken, executed, posted, mark>>

Dispatch == DispatchTimer \/ \E f \in Fd : DispatchFd(f)
Loop ==
    \/ Start \/ Test \/ EpollWait \/ Swap \/ RunOne \/ RunDone
    \/ Dispatch \/ DispatchEnd

(* Another thread, or a signal handler. *)
Others ==
    /\ RunInLoop \/ Stop
    /\ UNCHANGED <<pc, events, taken, executed, mark>>

Next == Loop \/ Interrupted \/ EpollFails \/ Others

(* The loop thread runs, and epoll_wait is not interrupted for ever. *)
Fairness == WF_vars(Loop) /\ SF_vars(EpollWait)

Spec     == Init /\ [][Next]_vars
FairSpec == Spec /\ Fairness

-----------------------------------------------------------------------------
TypeOK ==
    /\ running \in BOOLEAN
    /\ pc \in Step /\ events \subseteq Event
    /\ pending \in Seq(1 .. MaxPosts) /\ taken \in Seq(1 .. MaxPosts)
    /\ executed \in Seq(1 .. MaxPosts)
    /\ posted \in 0 .. MaxPosts /\ mark \in 0 .. posted

(* Posted callbacks are called once each and in the order of posting,      *)
(* whoever posts them and whenever, also from inside a callback.           *)
ExactlyOnceInOrder ==
    executed \o taken \o pending = [i \in 1 .. posted |-> i]

(* What was posted before epoll_wait returned is called before the events  *)
(* it returned are dispatched.                                             *)
PostedBeforeEvents ==
    [][Dispatch => Len(executed) >= mark]_vars

(* A posted callback is called, unless the loop ends first.                *)
PostedRuns ==
    \A n \in 1 .. MaxPosts :
        (posted >= n) ~> (Len(executed) >= n \/ pc = "exited")

(* A loop that is stopped after it has started comes to its end, whether   *)
(* the call comes from a callback, a handler or another thread.            *)
StoppedLoopExits == (pc # "before" /\ ~running) ~> (pc = "exited")
=============================================================================
