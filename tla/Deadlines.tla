------------------------------ MODULE Deadlines ------------------------------
(***************************************************************************)
(* What a timer wheel promises its clients, with no buckets and no lists.  *)
(*                                                                         *)
(* An armed entry counts down once per tick.  It expires when the count    *)
(* reaches zero, never before, and the clock does not advance again until  *)
(* everything that is due has been dealt with.  Re-arming restarts the     *)
(* count.  The callback of an expired entry runs unless its owner is gone. *)
(***************************************************************************)
EXTENDS Integers

CONSTANTS Entry,         \* timer handles
          Null,          \* "no entry"
          BucketCount,   \* the longest count the wheel supports, in ticks
          TickInterval,  \* length of a tick
          Timeouts       \* timeouts clients ask for, in the unit of TickInterval

VARIABLES left,      \* left[e]: ticks before e expires; Idle when e is not armed
          timeout,   \* timeout[e]: the timeout e was armed with
          orphan,    \* entries whose owner is gone
          running    \* the entry whose callback is executing, or Null

avars == <<left, timeout, orphan, running>>

Idle == -1

(* A timeout rounded up to whole ticks, at least one, at most one turn. *)
Ticks(t) ==
    LET up == -((-t) \div TickInterval)
    IN  IF up <= 0 THEN 1 ELSE IF up > BucketCount THEN BucketCount ELSE up

Armed == {e \in Entry : left[e] > 0}
Due   == {e \in Entry : left[e] = 0}

-----------------------------------------------------------------------------
Init ==
    /\ left = [e \in Entry |-> Idle]
    /\ timeout \in [Entry -> Timeouts]
    /\ orphan = {}
    /\ running = Null

(* The client acts between ticks or from inside a callback. *)
ClientTurn == Due = {} \/ running # Null

Arm(e, t) ==
    /\ ClientTurn
    /\ left[e] = Idle /\ e # running
    /\ left' = [left EXCEPT ![e] = Ticks(t)]
    /\ timeout' = [timeout EXCEPT ![e] = t]
    /\ orphan' = orphan \ {e}
    /\ UNCHANGED running

Cancel(e) ==
    /\ ClientTurn
    /\ e \in Armed
    /\ left' = [left EXCEPT ![e] = Idle]
    /\ UNCHANGED <<timeout, orphan, running>>

Rearm(e) ==
    /\ ClientTurn
    /\ e \in Armed
    /\ left' = [left EXCEPT ![e] = Ticks(timeout[e])]
    /\ UNCHANGED <<timeout, orphan, running>>

Orphan(e) ==
    /\ ClientTurn
    /\ e \in Armed \cup Due
    /\ orphan' = orphan \cup {e}
    /\ UNCHANGED <<left, timeout, running>>

Advance ==
    /\ Due = {} /\ running = Null
    /\ left' = [e \in Entry |-> IF e \in Armed THEN left[e] - 1 ELSE left[e]]
    /\ UNCHANGED <<timeout, orphan, running>>

Expire(e) ==
    /\ running = Null
    /\ e \in Due
    /\ left' = [left EXCEPT ![e] = Idle]
    /\ running' = IF e \in orphan THEN Null ELSE e
    /\ UNCHANGED <<timeout, orphan>>

Return ==
    /\ running # Null
    /\ running' = Null
    /\ UNCHANGED <<left, timeout, orphan>>

Next ==
    \/ \E e \in Entry, t \in Timeouts : Arm(e, t)
    \/ \E e \in Entry : Cancel(e) \/ Rearm(e) \/ Orphan(e) \/ Expire(e)
    \/ Advance
    \/ Return

(* Time passes, and what is due is dealt with. *)
Fairness ==
    /\ WF_avars(Advance)
    /\ WF_avars(\E e \in Entry : Expire(e))
    /\ WF_avars(Return)

Spec     == Init /\ [][Next]_avars
FairSpec == Spec /\ Fairness
=============================================================================
