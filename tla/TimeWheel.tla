------------------------------ MODULE TimeWheel ------------------------------
(***************************************************************************)
(* src/core/TimeWheel.{h,cpp}: the hashed timer wheel of an EventLoop.     *)
(*                                                                         *)
(* Entries hang in BucketCount intrusive doubly linked lists.  tick()      *)
(* takes a whole list away and walks it, running callbacks that may call   *)
(* add, refresh and remove on the wheel, so one tick is several steps      *)
(* here.  An address freed by delete may be handed out again by the next   *)
(* add: Entry is the set of addresses.                                     *)
(*                                                                         *)
(* Client contract (what the callers in the repository respect): remove    *)
(* and refresh get an entry that add returned and that has not been        *)
(* deleted, and a callback touches neither the entries tick() has taken    *)
(* and not reached yet, nor (with remove) the entry it belongs to.         *)
(***************************************************************************)
EXTENDS Integers, FiniteSets

CONSTANTS Entry, Null, BucketCount, TickInterval, Timeouts

ASSUME TimeWheelAssumption ==
    /\ BucketCount \in Nat \ {0}
    /\ TickInterval \in Nat \ {0}
    /\ Timeouts \subseteq Int
    /\ Null \notin Entry

VARIABLES live,      \* addresses of entries allocated and not deleted
          list,      \* the linked lists: buckets_, and bucketIndex, prev, next of entries
          current,   \* currentBucket_
          timeout,   \* timeoutSec of each entry
          expired,   \* entries whose weak owner has expired
          head,      \* tick()'s local: the rest of the list it took away
          running,   \* the entry whose callback tick() is executing, or Null
          due        \* history: the entries tick() took away and has not reached

vars == <<live, list, current, timeout, expired, head, running, due>>

Bucket == 0 .. BucketCount - 1
Ptr    == Entry \cup {Null}
Lists  == [buckets : [Bucket -> Ptr], index : [Entry -> Bucket \cup {-1}],
           prev : [Entry -> Ptr], next : [Entry -> Ptr]]

(* Seeded fault: rounds down and clamps nothing but zero. *)
TicksRoundedDown(t) == IF t \div TickInterval <= 0 THEN 1 ELSE t \div TickInterval

(* Timeout to ticks: rounded up, clamped to 1 .. BucketCount. *)
Ticks(t) ==
    LET up == -((-t) \div TickInterval)
    IN  IF up <= 0 THEN 1 ELSE IF up > BucketCount THEN BucketCount ELSE up

Slot(t) == (current + Ticks(t)) % BucketCount

(* Seeded fault: detach forgets that e may head its bucket. *)
DetachInner(l, e) ==
    [l EXCEPT !.index = [@ EXCEPT ![e] = -1],
              !.next = [x \in Entry |-> IF x = e THEN Null
                                       ELSE IF x = l.prev[e] THEN l.next[e] ELSE @[x]],
              !.prev = [x \in Entry |-> IF x = e THEN Null
                                       ELSE IF x = l.next[e] THEN l.prev[e] ELSE @[x]]]

(* Unlink e; a null prev means e heads its bucket. *)
Detach(l, e) ==
    LET p == l.prev[e]
        n == l.next[e]
    IN  [buckets |-> IF p = Null THEN [l.buckets EXCEPT ![l.index[e]] = n] ELSE l.buckets,
         index   |-> [l.index EXCEPT ![e] = -1],
         next    |-> [x \in Entry |-> IF x = e THEN Null ELSE IF x = p THEN n ELSE l.next[x]],
         prev    |-> [x \in Entry |-> IF x = e THEN Null ELSE IF x = n THEN p ELSE l.prev[x]]]

(* Seeded fault: the old head gets no prev. *)
AttachOneWay(l, b, e) ==
    [l EXCEPT !.buckets = [@ EXCEPT ![b] = e],
              !.index = [@ EXCEPT ![e] = b],
              !.next = [@ EXCEPT ![e] = l.buckets[b]]]

(* Seeded fault: the bucket is remembered counting from one. *)
AttachFromOne(l, b, e) ==
    [l EXCEPT !.buckets = [@ EXCEPT ![b] = e],
              !.index = [@ EXCEPT ![e] = b + 1],
              !.next = [@ EXCEPT ![e] = l.buckets[b]]]

(* Push e at the head of bucket b; its own prev is left as it is. *)
Attach(l, b, e) ==
    LET h == l.buckets[b]
    IN  [buckets |-> [l.buckets EXCEPT ![b] = e],
         index   |-> [l.index EXCEPT ![e] = b],
         next    |-> [l.next EXCEPT ![e] = h],
         prev    |-> [x \in Entry |-> IF x = h THEN e ELSE l.prev[x]]]

(* Strip e of its links without touching its neighbours, as tick() does. *)
Strip(l, e) ==
    [l EXCEPT !.index = [@ EXCEPT ![e] = -1],
              !.prev  = [@ EXCEPT ![e] = Null],
              !.next  = [@ EXCEPT ![e] = Null]]

-----------------------------------------------------------------------------
Init ==
    /\ live = {}
    /\ list = [buckets |-> [b \in Bucket |-> Null], index |-> [e \in Entry |-> -1],
               prev |-> [e \in Entry |-> Null], next |-> [e \in Entry |-> Null]]
    /\ current = 0
    /\ timeout \in [Entry -> Timeouts]
    /\ expired = {}
    /\ head = Null
    /\ running = Null
    /\ due = {}

(* Single-threaded: clients run between ticks, or inside a callback. *)
ClientTurn == head = Null \/ running # Null

Add(e, t) ==
    /\ ClientTurn
    /\ e \notin live
    /\ live' = live \cup {e}
    /\ timeout' = [timeout EXCEPT ![e] = t]
    /\ expired' = expired \ {e}
    /\ list' = Attach(list, Slot(t), e)
    /\ UNCHANGED <<current, head, running, due>>

Remove(e) ==
    /\ ClientTurn
    /\ e \in live \ (due \cup {running})
    /\ list' = IF list.index[e] >= 0 THEN Detach(list, e) ELSE list
    /\ live' = live \ {e}
    /\ UNCHANGED <<current, timeout, expired, head, running, due>>

(* Refreshing the running entry is the early return at bucketIndex < 0. *)
Refresh(e) ==
    /\ ClientTurn
    /\ e \in live \ due
    /\ list' = IF list.index[e] < 0 THEN list
               ELSE Attach(Detach(list, e), Slot(timeout[e]), e)
    /\ UNCHANGED <<live, current, timeout, expired, head, running, due>>

(* The object an entry guards is destroyed. *)
OwnerDies(e) ==
    /\ ClientTurn
    /\ e \in live \ {running}
    /\ expired' = expired \cup {e}
    /\ UNCHANGED <<live, list, current, timeout, head, running, due>>

(* tick(): advance and take the whole list of the new bucket. *)
TickBegin ==
    /\ head = Null /\ running = Null
    /\ current' = (current + 1) % BucketCount
    /\ head' = list.buckets[current']
    /\ list' = [list EXCEPT !.buckets = [@ EXCEPT ![current'] = Null]]
    /\ due' = {e \in live : list.index[e] = current'}
    /\ UNCHANGED <<live, timeout, expired, running>>

(* Seeded fault: the successor is read after the entry has been stripped. *)
TickFireReadsLate ==
    /\ head # Null /\ running = Null
    /\ list' = Strip(list, head)
    /\ head' = list'.next[head]
    /\ due' = due \ {head}
    /\ running' = head
    /\ UNCHANGED <<live, current, timeout, expired>>

(* tick(): reach the next entry; its successor is saved before its callback. *)
TickFire ==
    /\ head # Null /\ running = Null
    /\ head' = list.next[head]
    /\ list' = Strip(list, head)
    /\ due' = due \ {head}
    /\ IF head \in expired
       THEN running' = Null /\ live' = live \ {head}
       ELSE running' = head /\ UNCHANGED live
    /\ UNCHANGED <<current, timeout, expired>>

(* tick(): the callback returned; delete the entry. *)
TickDelete ==
    /\ running # Null
    /\ live' = live \ {running}
    /\ running' = Null
    /\ UNCHANGED <<list, current, timeout, expired, head, due>>

Tick == TickBegin \/ TickFire \/ TickDelete

Next ==
    \/ \E e \in Entry, t \in Timeouts : Add(e, t)
    \/ \E e \in Entry : Remove(e) \/ Refresh(e) \/ OwnerDies(e)
    \/ Tick

(* The loop's timerfd keeps ticking, and callbacks return. *)
Fairness == WF_vars(TickBegin) /\ WF_vars(TickFire) /\ WF_vars(TickDelete)

Spec     == Init /\ [][Next]_vars
FairSpec == Spec /\ Fairness

-----------------------------------------------------------------------------
TypeOK ==
    /\ live \subseteq Entry
    /\ list \in Lists
    /\ current \in Bucket
    /\ timeout \in [Entry -> Timeouts]
    /\ expired \subseteq Entry
    /\ head \in Ptr
    /\ running \in Ptr
    /\ due \subseteq Entry

(* The entries of S hang in the lists l: in every bucket the links agree   *)
(* in both directions, neighbours carry the same bucketIndex, and exactly  *)
(* the entry with no prev is the bucket's head.                            *)
Linked(l, S) ==
    \A b \in Bucket :
        LET In == {e \in S : l.index[e] = b}
        IN  /\ l.buckets[b] # Null => l.buckets[b] \in In
            /\ \A e \in In :
                  /\ l.prev[e] = Null <=> l.buckets[b] = e
                  /\ l.prev[e] # Null => l.prev[e] \in In /\ l.next[l.prev[e]] = e
                  /\ l.next[e] # Null => l.next[e] \in In /\ l.prev[l.next[e]] = e

(* What remove, refresh and detach rely on: the live entries that tick()   *)
(* has not taken are properly linked.                                      *)
BucketsLinked == Linked(list, live \ due)

(* The list tick() took away stays a list it can walk to the end, whatever *)
(* the callbacks it runs meanwhile do to the wheel: its head and links     *)
(* stay inside the set of entries not reached yet, with no two entries     *)
(* leading to the same one.                                                *)
TakenChainIntact ==
    /\ head # Null => head \in due
    /\ due \subseteq live
    /\ running # Null => running \in live \ due
    /\ \A e \in due :
          /\ list.index[e] = current
          /\ list.next[e] # Null => list.next[e] \in due /\ list.prev[list.next[e]] = e
          /\ list.next[e] # head \/ head = Null
          /\ e # head => list.prev[e] \in due /\ list.next[list.prev[e]] = e

(* Entries nobody can reach through a bucket: deleted ones and the one     *)
(* running carry no links, so deleting or refreshing them disturbs none.   *)
StrippedWhenOff ==
    \A e \in Entry :
        IF e \in live \ {running} THEN list.index[e] \in Bucket
        ELSE list.index[e] = -1 /\ list.prev[e] = Null /\ list.next[e] = Null

ListsOK == BucketsLinked /\ TakenChainIntact /\ StrippedWhenOff

(* No entry is lost: every armed entry is reachable from its bucket's head *)
(* and every taken one from tick()'s local, so tick() will come to it.     *)
ReachableFrom(h) ==
    LET closed(S) == \A x \in S : list.next[x] # Null => list.next[x] \in S
    IN  IF h = Null THEN {}
        ELSE {e \in Entry : \A S \in SUBSET Entry : h \in S /\ closed(S) => e \in S}

NoEntryLost ==
    /\ \A b \in Bucket :
          {e \in live \ due : list.index[e] = b} = ReachableFrom(list.buckets[b])
    /\ due = ReachableFrom(head)

(* The deadline of an armed entry, read off the wheel. *)
Remaining(e) ==
    IF e \notin live \/ e = running THEN -1
    ELSE IF e \in due THEN 0
    ELSE ((list.index[e] - current - 1) % BucketCount) + 1

(* The wheel implements the deadlines: each entry expires after exactly    *)
(* the ticks its timeout rounds to, counted from its last add or refresh,  *)
(* also across the wrap of the wheel and inside callbacks.                 *)
D == INSTANCE Deadlines WITH left <- [e \in Entry |-> Remaining(e)],
                             orphan <- expired
KeepsDeadlines == D!Spec

(* An entry that from some time on is not refreshed is taken off the wheel *)
(* again and again, however often its address is reused: its callback has  *)
(* run, its owner was gone, or it was removed.                             *)
EventuallyExpires ==
    \A e \in Entry : <>[][~Refresh(e)]_vars => []<>(e \notin live)
=============================================================================
