------------------------------ MODULE ThreadPool ------------------------------
(***************************************************************************)
(* src/util/ThreadPool.{h,cpp}: worker threads, a queue under a mutex and  *)
(* a condition variable.  A critical section is one step; notify_one runs  *)
(* after the mutex is released and is a step of its own; a wait may wake   *)
(* up spuriously.                                                          *)
(*                                                                         *)
(* Contract of the callers (C++ object lifetime): no thread outside the    *)
(* pool is inside enqueue when the destructor starts, and none enters      *)
(* later; a task that runs in the pool may call enqueue at any time.       *)
(***************************************************************************)
EXTENDS Naturals, Sequences, FiniteSets

CONSTANTS Worker,      \* the pool's threads
          Caller,      \* threads outside the pool that call enqueue
          Task,        \* tasks, each enqueued once
          None,        \* "no task"
          MaxQueue     \* maxQueueSize_; 0 is "no limit"

ASSUME ThreadPoolAssumption ==
    /\ IsFiniteSet(Worker) /\ Worker # {}
    /\ IsFiniteSet(Caller)
    /\ Worker \cap Caller = {}
    /\ None \notin Task
    /\ MaxQueue \in Nat

VARIABLES tasks,      \* tasks_
          stop,       \* stop_
          wpc,        \* where each worker is in workerLoop
          wtask,      \* the task a worker has taken
          notifying,  \* threads between the critical section and notify_one
          phase,      \* the pool object: constructor, alive, destructor
          refused,    \* history: tasks whose enqueue threw "queue full"
          finished    \* history: tasks that have run

vars == <<tasks, stop, wpc, wtask, notifying, phase, refused, finished>>

Thread  == Worker \cup Caller
At(st)  == {w \in Worker : wpc[w] = st}
Elems(q) == {q[i] : i \in 1 .. Len(q)}
Running == {wtask[w] : w \in At("running")}
Fresh   == Task \ (Elems(tasks) \cup Running \cup refused \cup finished)

Init ==
    /\ tasks = <<>> /\ stop = FALSE
    /\ wpc = [w \in Worker |-> "unborn"]
    /\ wtask = [w \in Worker |-> None]
    /\ notifying = {}
    /\ phase = "constructing"
    /\ refused = {} /\ finished = {}

(* Constructor: start the next thread, which goes for the mutex. *)
Spawn(w) ==
    /\ phase = "constructing" /\ wpc[w] = "unborn"
    /\ wpc' = [wpc EXCEPT ![w] = "lock"]
    /\ phase' = IF At("unborn") = {w} THEN "alive" ELSE phase
    /\ UNCHANGED <<tasks, stop, wtask, notifying, refused, finished>>

(* Constructor: a thread cannot be created; stop the ones that were. *)
SpawnFails ==
    /\ phase = "constructing"
    /\ stop' = TRUE
    /\ phase' = "notify"
    /\ UNCHANGED <<tasks, wpc, wtask, notifying, refused, finished>>

(* enqueue up to the end of its critical section; a full queue throws. *)
MayEnqueue(p) ==
    /\ p \notin notifying
    /\ \/ p \in Caller /\ phase = "alive"
       \/ p \in Worker /\ p \in At("running")

Full == MaxQueue > 0 /\ Len(tasks) >= MaxQueue

(* Seeded fault: no notify_one. *)
EnqueueSilently(p, t) ==
    /\ MayEnqueue(p) /\ t \in Fresh
    /\ ~Full
    /\ tasks' = Append(tasks, t)
    /\ UNCHANGED <<stop, wpc, wtask, notifying, phase, refused, finished>>

Enqueue(p, t) ==
    /\ MayEnqueue(p) /\ t \in Fresh
    /\ ~Full
    /\ tasks' = Append(tasks, t)
    /\ notifying' = notifying \cup {p}
    /\ UNCHANGED <<stop, wpc, wtask, phase, refused, finished>>

EnqueueThrows(p, t) ==
    /\ MayEnqueue(p) /\ t \in Fresh
    /\ Full
    /\ refused' = refused \cup {t}
    /\ UNCHANGED <<tasks, stop, wpc, wtask, notifying, phase, finished>>

(* notify_one: some waiter wakes up, if there is one. *)
Notify(p) ==
    /\ p \in notifying
    /\ notifying' = notifying \ {p}
    /\ IF At("waiting") = {} THEN UNCHANGED wpc
       ELSE \E w \in At("waiting") : wpc' = [wpc EXCEPT ![w] = "lock"]
    /\ UNCHANGED <<tasks, stop, wtask, phase, refused, finished>>

Spurious(w) ==
    /\ wpc[w] = "waiting"
    /\ wpc' = [wpc EXCEPT ![w] = "lock"]
    /\ UNCHANGED <<tasks, stop, wtask, notifying, phase, refused, finished>>

(* workerLoop with the mutex: wait, return, or take the oldest task. *)
Wait(w) ==
    /\ wpc[w] = "lock" /\ ~stop /\ tasks = <<>>
    /\ wpc' = [wpc EXCEPT ![w] = "waiting"]
    /\ UNCHANGED <<tasks, stop, wtask, notifying, phase, refused, finished>>

(* Seeded fault: a stopped worker leaves without looking at the queue. *)
ExitAtOnce(w) ==
    /\ wpc[w] = "lock" /\ stop
    /\ wpc' = [wpc EXCEPT ![w] = "exited"]
    /\ UNCHANGED <<tasks, stop, wtask, notifying, phase, refused, finished>>

Exit(w) ==
    /\ wpc[w] = "lock" /\ stop /\ tasks = <<>>
    /\ wpc' = [wpc EXCEPT ![w] = "exited"]
    /\ UNCHANGED <<tasks, stop, wtask, notifying, phase, refused, finished>>

(* Seeded fault: the newest task is taken. *)
TakeNewest(w) ==
    /\ wpc[w] = "lock" /\ tasks # <<>>
    /\ wtask' = [wtask EXCEPT ![w] = tasks[Len(tasks)]]
    /\ tasks' = SubSeq(tasks, 1, Len(tasks) - 1)
    /\ wpc' = [wpc EXCEPT ![w] = "running"]
    /\ UNCHANGED <<stop, notifying, phase, refused, finished>>

Take(w) ==
    /\ wpc[w] = "lock" /\ tasks # <<>>
    /\ wtask' = [wtask EXCEPT ![w] = Head(tasks)]
    /\ tasks' = Tail(tasks)
    /\ wpc' = [wpc EXCEPT ![w] = "running"]
    /\ UNCHANGED <<stop, notifying, phase, refused, finished>>

(* The task returns or throws; an exception stays in the worker. *)
Done(w) ==
    /\ wpc[w] = "running" /\ w \notin notifying
    /\ finished' = finished \cup {wtask[w]}
    /\ wtask' = [wtask EXCEPT ![w] = None]
    /\ wpc' = [wpc EXCEPT ![w] = "lock"]
    /\ UNCHANGED <<tasks, stop, notifying, phase, refused>>

(* Destructor: stop_, notify_all, join every worker. *)
Destroy ==
    /\ phase = "alive" /\ notifying \cap Caller = {}
    /\ stop' = TRUE
    /\ phase' = "notify"
    /\ UNCHANGED <<tasks, wpc, wtask, notifying, refused, finished>>

(* Seeded fault: notify_one in place of notify_all. *)
NotifyOnlyOne ==
    /\ phase = "notify"
    /\ IF At("waiting") = {} THEN UNCHANGED wpc
       ELSE \E w \in At("waiting") : wpc' = [wpc EXCEPT ![w] = "lock"]
    /\ phase' = "join"
    /\ UNCHANGED <<tasks, stop, wtask, notifying, refused, finished>>

NotifyAll ==
    /\ phase = "notify"
    /\ wpc' = [w \in Worker |-> IF wpc[w] = "waiting" THEN "lock" ELSE wpc[w]]
    /\ phase' = "join"
    /\ UNCHANGED <<tasks, stop, wtask, notifying, refused, finished>>

Joined ==
    /\ phase = "join"
    /\ \A w \in Worker : wpc[w] \in {"exited", "unborn"}
    /\ phase' = "gone"
    /\ UNCHANGED <<tasks, stop, wpc, wtask, notifying, refused, finished>>

Next ==
    \/ \E w \in Worker : Spawn(w) \/ Spurious(w) \/ Wait(w) \/ Exit(w) \/ Take(w) \/ Done(w)
    \/ \E p \in Thread, t \in Task : Enqueue(p, t) \/ EnqueueThrows(p, t)
    \/ \E p \in Thread : Notify(p)
    \/ SpawnFails \/ Destroy \/ NotifyAll \/ Joined

(* Every thread that can run keeps running, and tasks return.  The mutex   *)
(* need not be fair: a worker that is ready either gets it or somebody     *)
(* else makes progress with it, so one conjunct per worker suffices.       *)
Fairness ==
    /\ \A w \in Worker : WF_vars(Wait(w) \/ Exit(w) \/ Take(w) \/ Done(w))
    /\ \A p \in Thread : WF_vars(Notify(p))
    /\ WF_vars(NotifyAll) /\ WF_vars(Joined)

Spec     == Init /\ [][Next]_vars
FairSpec == Spec /\ Fairness

-----------------------------------------------------------------------------
TypeOK ==
    /\ tasks \in Seq(Task) /\ stop \in BOOLEAN
    /\ wpc \in [Worker -> {"unborn", "lock", "waiting", "running", "exited"}]
    /\ wtask \in [Worker -> Task \cup {None}]
    /\ notifying \subseteq Thread
    /\ phase \in {"constructing", "alive", "notify", "join", "gone"}
    /\ refused \subseteq Task /\ finished \subseteq Task

(* No lost wakeup: while a worker sleeps there are no more queued tasks    *)
(* than threads already on their way to take one (woken, or about to be by *)
(* a notify_one still to come), although notify_one is called without the  *)
(* mutex and may hit nobody.                                               *)
NoLostWakeup ==
    At("waiting") # {} =>
        Len(tasks) <= Cardinality(At("lock")) + Cardinality(notifying)

(* Destruction drains: once stop_ is set, work is left only while a worker *)
(* is left to do it, and when the workers are joined none is left, tasks   *)
(* enqueued by tasks included.                                             *)
DrainedWhenGone ==
    /\ stop /\ tasks # <<>> => \E w \in Worker : wpc[w] \notin {"unborn", "exited"}
    /\ phase = "gone" => tasks = <<>> /\ Running = {}

(* After notify_all nobody sleeps: join cannot wait for a sleeper. *)
NobodySleepsAtJoin == phase \in {"join", "gone"} => At("waiting") = {}

(* The pool implements the work queue: tasks start in the order they were  *)
(* accepted, each one once, and the pool is gone only when all have run.   *)
Q == INSTANCE WorkQueue WITH queue <- tasks, active <- Running, gone <- phase = "gone"
IsWorkQueue == Q!Spec

(* The destructor returns. *)
DestructorReturns == (phase = "notify") ~> (phase = "gone")
=============================================================================
