------------------------------ MODULE WorkQueue ------------------------------
(***************************************************************************)
(* What a thread pool promises: an accepted task is started once, in the   *)
(* order of acceptance, runs to its end, and is run before the pool is     *)
(* gone.  No threads, locks or condition variables here.                   *)
(***************************************************************************)
EXTENDS Naturals, Sequences

CONSTANT Task

VARIABLES queue,    \* accepted and not started, oldest first
          active,   \* started and not finished
          finished, \* finished
          refused,  \* refused because the queue was full
          gone      \* the pool has been destroyed

wvars == <<queue, active, finished, refused, gone>>

Fresh == Task \ ({queue[i] : i \in 1 .. Len(queue)} \cup active \cup finished \cup refused)

Init == queue = <<>> /\ active = {} /\ finished = {} /\ refused = {} /\ gone = FALSE

Accept(t) ==
    /\ ~gone /\ t \in Fresh
    /\ queue' = Append(queue, t)
    /\ UNCHANGED <<active, finished, refused, gone>>

Refuse(t) ==
    /\ ~gone /\ t \in Fresh
    /\ refused' = refused \cup {t}
    /\ UNCHANGED <<queue, active, finished, gone>>

Start ==
    /\ queue # <<>>
    /\ active' = active \cup {Head(queue)}
    /\ queue' = Tail(queue)
    /\ UNCHANGED <<finished, refused, gone>>

Finish(t) ==
    /\ t \in active
    /\ active' = active \ {t}
    /\ finished' = finished \cup {t}
    /\ UNCHANGED <<queue, refused, gone>>

Destroy ==
    /\ ~gone /\ queue = <<>> /\ active = {}
    /\ gone' = TRUE
    /\ UNCHANGED <<queue, active, finished, refused>>

Next ==
    \/ \E t \in Task : Accept(t) \/ Refuse(t) \/ Finish(t)
    \/ Start \/ Destroy

Spec == Init /\ [][Next]_wvars
=============================================================================
