--------------------------- MODULE TimeWheelProofs ---------------------------
(***************************************************************************)
(* Proofs about TimeWheel for any number of entries, buckets and timeouts. *)
(***************************************************************************)
EXTENDS TimeWheel, WellFoundedInduction, TLAPS

-----------------------------------------------------------------------------
(* Lemmas on the operators. *)

(* A timeout is always between one tick and one turn. *)
LEMMA TicksRange ==
    ASSUME NEW t \in Timeouts
    PROVE  Ticks(t) \in 1 .. BucketCount
BY TimeWheelAssumption DEF Ticks

LEMMA SlotIsBucket ==
    ASSUME NEW t \in Timeouts, current \in Bucket
    PROVE  Slot(t) \in Bucket
<1>1. BucketCount \in Nat \ {0} /\ current + Ticks(t) \in Int
  BY TicksRange, TimeWheelAssumption DEF Bucket
<1>2. (current + Ticks(t)) % BucketCount \in 0 .. BucketCount - 1
  BY <1>1
<1>3. QED
  BY <1>2 DEF Slot, Bucket

(* What detach does: e is stripped, only its neighbours' links change, and *)
(* the other entries hang properly without it.                             *)
LEMMA DetachFrame ==
    ASSUME NEW l \in Lists, NEW S \in SUBSET Entry, Linked(l, S),
           NEW e \in S, l.index[e] \in Bucket
    PROVE  LET m == Detach(l, e) IN
           /\ m \in Lists
           /\ m.index[e] = -1 /\ m.prev[e] = Null /\ m.next[e] = Null
           /\ \A x \in Entry : \/ m.next[x] \in {Null, l.next[x]}
                               \/ l.next[x] = e /\ m.next[x] = l.next[e]
           /\ \A x \in Entry \ {e} :
                 /\ m.index[x] = l.index[x]
                 /\ x \notin S \/ l.index[x] # l.index[e]
                       => m.prev[x] = l.prev[x] /\ m.next[x] = l.next[x]
<1> DEFINE m == Detach(l, e)
<1>1. /\ m \in Lists
      /\ m.index[e] = -1 /\ m.prev[e] = Null /\ m.next[e] = Null
  BY TimeWheelAssumption DEF Lists, Ptr, Detach, Linked
<1>2. ASSUME NEW x \in Entry
      PROVE  \/ m.next[x] \in {Null, l.next[x]}
             \/ l.next[x] = e /\ m.next[x] = l.next[e]
  <2>1. x = l.prev[e] => l.next[x] = e
    BY TimeWheelAssumption DEF Lists, Ptr, Detach, Linked
  <2>2. QED
    BY <2>1 DEF Lists, Detach
<1>3. ASSUME NEW x \in Entry \ {e}
      PROVE  /\ m.index[x] = l.index[x]
             /\ x \notin S \/ l.index[x] # l.index[e]
                   => m.prev[x] = l.prev[x] /\ m.next[x] = l.next[x]
  BY TimeWheelAssumption DEF Lists, Ptr, Detach, Linked
<1>4. QED
  BY <1>1, <1>2, <1>3

LEMMA DetachLinked ==
    ASSUME NEW l \in Lists, NEW S \in SUBSET Entry, Linked(l, S),
           NEW e \in S, l.index[e] \in Bucket
    PROVE  Linked(Detach(l, e), S \ {e})
<1> DEFINE m == Detach(l, e)
           p == l.prev[e]
           n == l.next[e]
<1>. USE TimeWheelAssumption DEF Lists, Ptr
<1>1. /\ m.buckets = IF p = Null THEN [l.buckets EXCEPT ![l.index[e]] = n] ELSE l.buckets
      /\ m.index = [l.index EXCEPT ![e] = -1]
      /\ \A x \in Entry : m.next[x] = IF x = e THEN Null ELSE IF x = p THEN n ELSE l.next[x]
      /\ \A x \in Entry : m.prev[x] = IF x = e THEN Null ELSE IF x = n THEN p ELSE l.prev[x]
  BY DEF Detach
<1>2. /\ p # Null => p \in S /\ l.index[p] = l.index[e] /\ l.next[p] = e
      /\ n # Null => n \in S /\ l.index[n] = l.index[e] /\ l.prev[n] = e
      /\ p = Null <=> l.buckets[l.index[e]] = e
  BY DEF Linked
<1>3. SUFFICES ASSUME NEW b \in Bucket
               PROVE
                 LET In == {x \in S \ {e} : m.index[x] = b}
                 IN  /\ m.buckets[b] # Null => m.buckets[b] \in In
                     /\ \A x \in In :
                          /\ m.prev[x] = Null <=> m.buckets[b] = x
                          /\ m.prev[x] # Null => m.prev[x] \in In /\ m.next[m.prev[x]] = x
                          /\ m.next[x] # Null => m.next[x] \in In /\ m.prev[m.next[x]] = x
  BY DEF Linked
<1>4. m.buckets[b] # Null => m.buckets[b] \in S \ {e} /\ m.index[m.buckets[b]] = b
  BY <1>1, <1>2 DEF Linked
<1>5. ASSUME NEW x \in S \ {e}, m.index[x] = b
      PROVE  /\ m.prev[x] = Null <=> m.buckets[b] = x
             /\ m.prev[x] # Null => m.prev[x] \in S \ {e} /\ m.index[m.prev[x]] = b /\ m.next[m.prev[x]] = x
             /\ m.next[x] # Null => m.next[x] \in S \ {e} /\ m.index[m.next[x]] = b /\ m.prev[m.next[x]] = x
  <2>1. /\ l.index[x] = b
        /\ l.prev[x] = Null <=> l.buckets[b] = x
        /\ l.prev[x] # Null => l.prev[x] \in S /\ l.index[l.prev[x]] = b /\ l.next[l.prev[x]] = x
        /\ l.next[x] # Null => l.next[x] \in S /\ l.index[l.next[x]] = b /\ l.prev[l.next[x]] = x
    BY <1>1, <1>5 DEF Linked
  <2>2. CASE x = n
    BY <1>1, <1>2, <2>1, <2>2
  <2>3. CASE x = p
    BY <1>1, <1>2, <2>1, <2>3
  <2>4. CASE x # n /\ x # p
    BY <1>1, <1>2, <2>1, <2>4
  <2>5. QED
    BY <2>2, <2>3, <2>4
<1>6. QED
  BY <1>4, <1>5

(* What attach does: e heads bucket b, the old head points back to it.     *)
LEMMA AttachFrame ==
    ASSUME NEW l \in Lists, NEW S \in SUBSET Entry, Linked(l, S),
           NEW e \in Entry \ S, NEW b \in Bucket
    PROVE  LET m == Attach(l, b, e) IN
           /\ m \in Lists
           /\ m.index[e] = b /\ m.next[e] = l.buckets[b]
           /\ \A x \in Entry \ {e} :
                 /\ m.index[x] = l.index[x] /\ m.next[x] = l.next[x]
                 /\ x \notin S \/ l.index[x] # b => m.prev[x] = l.prev[x]
BY TimeWheelAssumption DEF Lists, Ptr, Attach, Linked

LEMMA AttachLinked ==
    ASSUME NEW l \in Lists, NEW S \in SUBSET Entry, Linked(l, S),
           NEW e \in Entry \ S, l.prev[e] = Null, NEW b \in Bucket
    PROVE  Linked(Attach(l, b, e), S \cup {e})
<1> DEFINE m == Attach(l, b, e)
           h == l.buckets[b]
<1>. USE TimeWheelAssumption DEF Lists, Ptr
<1>1. /\ m.buckets = [l.buckets EXCEPT ![b] = e]
      /\ m.index = [l.index EXCEPT ![e] = b]
      /\ m.next = [l.next EXCEPT ![e] = h]
      /\ \A x \in Entry : m.prev[x] = IF x = h THEN e ELSE l.prev[x]
  BY DEF Attach
<1>2. h # Null => h \in S /\ l.index[h] = b /\ l.prev[h] = Null
  BY DEF Linked
<1>3. SUFFICES ASSUME NEW a \in Bucket
               PROVE
                 LET In == {x \in S \cup {e} : m.index[x] = a}
                 IN  /\ m.buckets[a] # Null => m.buckets[a] \in In
                     /\ \A x \in In :
                          /\ m.prev[x] = Null <=> m.buckets[a] = x
                          /\ m.prev[x] # Null => m.prev[x] \in In /\ m.next[m.prev[x]] = x
                          /\ m.next[x] # Null => m.next[x] \in In /\ m.prev[m.next[x]] = x
  BY DEF Linked
<1>4. m.buckets[a] # Null => m.buckets[a] \in S \cup {e} /\ m.index[m.buckets[a]] = a
  BY <1>1, <1>2 DEF Linked
<1>5. ASSUME NEW x \in S \cup {e}, m.index[x] = a
      PROVE  /\ m.prev[x] = Null <=> m.buckets[a] = x
             /\ m.prev[x] # Null => m.prev[x] \in S \cup {e} /\ m.index[m.prev[x]] = a /\ m.next[m.prev[x]] = x
             /\ m.next[x] # Null => m.next[x] \in S \cup {e} /\ m.index[m.next[x]] = a /\ m.prev[m.next[x]] = x
  <2>1. CASE x = e
    BY <1>1, <1>2, <1>5, <2>1
  <2>2. CASE x # e
    <3>1. /\ l.index[x] = a
          /\ l.prev[x] = Null <=> l.buckets[a] = x
          /\ l.prev[x] # Null => l.prev[x] \in S /\ l.index[l.prev[x]] = a /\ l.next[l.prev[x]] = x
          /\ l.next[x] # Null => l.next[x] \in S /\ l.index[l.next[x]] = a /\ l.prev[l.next[x]] = x
      BY <1>1, <1>5, <2>2 DEF Linked
    <3>2. CASE x = h
      BY <1>1, <1>2, <2>2, <3>1, <3>2
    <3>3. CASE x # h
      BY <1>1, <1>2, <2>2, <3>1, <3>3
    <3>4. QED
      BY <3>2, <3>3
  <2>3. QED
    BY <2>1, <2>2
<1>6. QED
  BY <1>4, <1>5

-----------------------------------------------------------------------------
(* No chain of next pointers comes back to where it started: a rank grows  *)
(* along it.  Being well linked does not exclude a ring beside the list,   *)
(* and tick() would miss the entries of such a ring.                       *)
Acyclic(next, S) ==
    \E rank \in [Entry -> Nat] :
        \A x \in S : next[x] # Null => next[x] \in Entry /\ rank[x] < rank[next[x]]

(* The inductive invariant. *)
Inv == TypeOK /\ ListsOK /\ Acyclic(list.next, live)

(* Pushing e in front of h keeps chains acyclic when none leads to e.      *)
LEMMA PushAcyclic ==
    ASSUME NEW next, NEW next2, NEW S \in SUBSET Entry, Acyclic(next, S),
           NEW e \in Entry, NEW h \in Ptr \ {e},
           \A x \in S \ {e} : next2[x] = next[x] /\ next[x] # e,
           next2[e] = h
    PROVE  Acyclic(next2, S \cup {e})
<1>1. PICK rank \in [Entry -> Nat] :
         \A x \in S : next[x] # Null => next[x] \in Entry /\ rank[x] < rank[next[x]]
  BY DEF Acyclic
<1> DEFINE rank2 == [x \in Entry |-> IF x = e THEN 0 ELSE rank[x] + 1]
<1>2. rank2 \in [Entry -> Nat]
  OBVIOUS
<1>3. ASSUME NEW x \in S \cup {e}, next2[x] # Null
      PROVE  next2[x] \in Entry /\ rank2[x] < rank2[next2[x]]
  <2>1. CASE x = e
    BY <1>3, <2>1 DEF Ptr
  <2>2. CASE x # e
    BY <1>1, <1>3, <2>2
  <2>3. QED
    BY <2>1, <2>2
<1>4. QED
  BY <1>2, <1>3 DEF Acyclic

Skips(next, next2, S, e) ==
    \A x \in S : \/ next2[x] \in {Null, next[x]}
                 \/ next[x] = e /\ next2[x] = next[e]

(* Cutting out and skipping one entry keeps chains acyclic. *)
LEMMA SkipAcyclic ==
    ASSUME NEW next, NEW next2, NEW S \in SUBSET Entry, Acyclic(next, S),
           NEW e \in S,
           Skips(next, next2, S, e)
    PROVE  Acyclic(next2, S)
<1>1. PICK rank \in [Entry -> Nat] :
         \A x \in S : next[x] # Null => next[x] \in Entry /\ rank[x] < rank[next[x]]
  BY DEF Acyclic
<1>2. ASSUME NEW x \in S, next2[x] # Null
      PROVE  next2[x] \in Entry /\ rank[x] < rank[next2[x]]
  <2>1. CASE next2[x] = next[x]
    BY <1>1, <1>2, <2>1
  <2>2. CASE next[x] = e /\ next2[x] = next[e]
    <3>1. e # Null /\ rank[x] \in Nat /\ rank[e] \in Nat /\ rank[x] < rank[e]
      BY <1>1, <2>2, TimeWheelAssumption
    <3>2. next[e] \in Entry /\ rank[next[e]] \in Nat /\ rank[e] < rank[next[e]]
      BY <1>1, <1>2, <2>2
    <3>3. QED
      BY <2>2, <3>1, <3>2
  <2>3. QED
    BY <1>2, <2>1, <2>2 DEF Skips
<1>3. QED
  BY <1>1, <1>2 DEF Acyclic

LEMMA InitInv == Init => Inv
<1> SUFFICES ASSUME Init PROVE Inv
  OBVIOUS
<1>. USE TimeWheelAssumption DEF Init
<1>1. TypeOK
  BY DEF TypeOK, Lists, Bucket, Ptr
<1>2. BucketsLinked
  BY DEF BucketsLinked, Linked
<1>3. TakenChainIntact /\ StrippedWhenOff
  BY DEF TakenChainIntact, StrippedWhenOff
<1>4. Acyclic(list.next, live)
  <2>1. [x \in Entry |-> 0] \in [Entry -> Nat]
    OBVIOUS
  <2>2. QED
    BY <2>1 DEF Acyclic
<1>5. QED
  BY <1>1, <1>2, <1>3, <1>4 DEF Inv, ListsOK

LEMMA AddStep ==
    ASSUME Inv, NEW e \in Entry, NEW t \in Timeouts, Add(e, t)
    PROVE  Inv'
<1>. USE DEF Inv, ListsOK
<1> DEFINE S == live \ due
           b == Slot(t)
<1>1. /\ b \in Bucket /\ S \in SUBSET Entry /\ Linked(list, S)
      /\ list \in Lists /\ e \in Entry \ S /\ e \notin live
      /\ list.prev[e] = Null
      /\ list' = Attach(list, b, e)
  BY SlotIsBucket DEF Add, TypeOK, BucketsLinked, StrippedWhenOff
<1>2. /\ list' \in Lists
      /\ list'.index[e] = b /\ list'.next[e] = list.buckets[b]
      /\ \A x \in Entry \ {e} :
            /\ list'.index[x] = list.index[x] /\ list'.next[x] = list.next[x]
            /\ x \notin S \/ list.index[x] # b => list'.prev[x] = list.prev[x]
  BY <1>1, AttachFrame
<1>3. Linked(list', S \cup {e})
  BY <1>1, AttachLinked
<1>4. live' \ due' = S \cup {e}
  BY <1>1 DEF Add, TakenChainIntact
<1>5. TypeOK'
  BY <1>2 DEF Add, TypeOK
<1>6. BucketsLinked'
  BY <1>3, <1>4 DEF BucketsLinked
<1>7. TakenChainIntact'
  BY <1>1, <1>2 DEF Add, TakenChainIntact, TypeOK
<1>8. StrippedWhenOff'
  BY <1>1, <1>2, TimeWheelAssumption
  DEF Add, StrippedWhenOff, TakenChainIntact, TypeOK, Bucket
<1>9. Acyclic(list.next, live)'
  <2>1. list.buckets[b] \in Ptr \ {e}
    BY <1>1, TimeWheelAssumption DEF Linked, Lists, Ptr
  <2>2. \A x \in live \ {e} : list'.next[x] = list.next[x] /\ list.next[x] # e
    BY <1>1, <1>2, TimeWheelAssumption
    DEF Linked, TakenChainIntact, StrippedWhenOff, TypeOK
  <2>3. live \in SUBSET Entry /\ Acyclic(list.next, live) /\ live' = live \cup {e}
    BY DEF Add, TypeOK
  <2>4. QED
    BY <1>2, <2>1, <2>2, <2>3, PushAcyclic
<1>10. QED
  BY <1>5, <1>6, <1>7, <1>8, <1>9

LEMMA RemoveStep ==
    ASSUME Inv, NEW e \in Entry, Remove(e)
    PROVE  Inv'
<1>. USE DEF Inv, ListsOK
<1> DEFINE S == live \ due
<1>1. /\ S \in SUBSET Entry /\ Linked(list, S) /\ list \in Lists
      /\ e \in S /\ e # running /\ list.index[e] \in Bucket
  BY DEF Remove, TypeOK, BucketsLinked, StrippedWhenOff
<1>2. list' = Detach(list, e)
  BY <1>1, TimeWheelAssumption DEF Remove, Bucket
<1>3. /\ list' \in Lists
      /\ list'.index[e] = -1 /\ list'.prev[e] = Null /\ list'.next[e] = Null
      /\ \A x \in Entry : \/ list'.next[x] \in {Null, list.next[x]}
                          \/ list.next[x] = e /\ list'.next[x] = list.next[e]
      /\ \A x \in Entry \ {e} :
            /\ list'.index[x] = list.index[x]
            /\ x \notin S \/ list.index[x] # list.index[e]
                  => list'.prev[x] = list.prev[x] /\ list'.next[x] = list.next[x]
  BY <1>1, <1>2, DetachFrame
<1>4. Linked(list', S \ {e})
  BY <1>1, <1>2, DetachLinked
<1>5. live' \ due' = S \ {e}
  BY <1>1 DEF Remove
<1>6. TypeOK'
  BY <1>3 DEF Remove, TypeOK
<1>7. BucketsLinked'
  BY <1>4, <1>5 DEF BucketsLinked
<1>8. TakenChainIntact'
  BY <1>1, <1>3 DEF Remove, TakenChainIntact, TypeOK
<1>9. StrippedWhenOff'
  BY <1>1, <1>3, TimeWheelAssumption DEF Remove, StrippedWhenOff, TypeOK, Bucket
<1>10. Acyclic(list.next, live)'
  <2>1. Skips(list.next, list'.next, live, e)
    BY <1>3 DEF Skips, TypeOK
  <2>2. e \in live /\ live \in SUBSET Entry /\ live' \subseteq live
    BY <1>1 DEF Remove, TypeOK
  <2>3. Acyclic(list'.next, live)
    BY <2>1, <2>2, SkipAcyclic
  <2>4. QED
    BY <2>2, <2>3 DEF Acyclic
<1>11. QED
  BY <1>6, <1>7, <1>8, <1>9, <1>10

LEMMA RefreshStep ==
    ASSUME Inv, NEW e \in Entry, Refresh(e)
    PROVE  Inv'
<1>. USE DEF Inv, ListsOK
<1>1. CASE list.index[e] < 0
  <2>1. UNCHANGED vars
    BY <1>1 DEF Refresh, vars
  <2>2. QED
    BY <2>1 DEF vars, TypeOK, BucketsLinked, TakenChainIntact, StrippedWhenOff
<1>2. CASE ~(list.index[e] < 0)
  <2> DEFINE S == live \ due
             m == Detach(list, e)
             b == Slot(timeout[e])
  <2>1. /\ S \in SUBSET Entry /\ Linked(list, S) /\ list \in Lists
        /\ e \in S /\ list.index[e] \in Bucket /\ e # running
    BY <1>2, TimeWheelAssumption
    DEF Refresh, TypeOK, BucketsLinked, StrippedWhenOff, Bucket, Lists
  <2>2. b \in Bucket
    BY SlotIsBucket DEF TypeOK
  <2>3. /\ m \in Lists /\ m.prev[e] = Null /\ m.next[e] = Null
        /\ \A x \in Entry : \/ m.next[x] \in {Null, list.next[x]}
                            \/ list.next[x] = e /\ m.next[x] = list.next[e]
        /\ \A x \in Entry \ {e} :
              /\ m.index[x] = list.index[x]
              /\ x \notin S \/ list.index[x] # list.index[e]
                    => m.prev[x] = list.prev[x] /\ m.next[x] = list.next[x]
    BY <2>1, DetachFrame
  <2>4. Linked(m, S \ {e})
    BY <2>1, DetachLinked
  <2>5. list' = Attach(m, b, e)
    BY <1>2 DEF Refresh
  <2>6. e \in Entry \ (S \ {e}) /\ S \ {e} \in SUBSET Entry
    BY <2>1
  <2>7. /\ list' \in Lists
        /\ list'.index[e] = b /\ list'.next[e] = m.buckets[b]
        /\ \A x \in Entry \ {e} :
              /\ list'.index[x] = m.index[x] /\ list'.next[x] = m.next[x]
              /\ x \notin (S \ {e}) \/ m.index[x] # b => list'.prev[x] = m.prev[x]
    BY <2>2, <2>3, <2>4, <2>5, <2>6, AttachFrame
  <2>8. Linked(list', (S \ {e}) \cup {e})
    BY <2>2, <2>3, <2>4, <2>5, <2>6, AttachLinked
  <2>9. live' \ due' = (S \ {e}) \cup {e}
    BY <2>1 DEF Refresh
  <2>10. TypeOK'
    BY <2>7 DEF Refresh, TypeOK
  <2>11. BucketsLinked'
    BY <2>8, <2>9 DEF BucketsLinked
  <2>12. TakenChainIntact'
    BY <2>1, <2>3, <2>7 DEF Refresh, TakenChainIntact, TypeOK
  <2>13. StrippedWhenOff'
    BY <2>1, <2>2, <2>3, <2>7, TimeWheelAssumption
    DEF Refresh, StrippedWhenOff, TypeOK, Bucket
  <2>14. Acyclic(list.next, live)'
    <3>1. live \in SUBSET Entry /\ e \in live /\ live' = live
      BY <2>1 DEF Refresh, TypeOK
    <3>2. Skips(list.next, m.next, live, e)
      BY <2>3, <3>1 DEF Skips
    <3>3. Acyclic(m.next, live)
      BY <3>1, <3>2, SkipAcyclic
    <3>4. m.buckets[b] \in Ptr \ {e}
      BY <2>2, <2>3, <2>4, TimeWheelAssumption DEF Linked, Lists, Ptr
    <3>5. \A x \in live \ {e} : list'.next[x] = m.next[x] /\ m.next[x] # e
      <4>1. ASSUME NEW x \in live \ {e} PROVE m.next[x] # e
        <5>1. CASE x \in S
          BY <2>1, <2>3, <2>4, <5>1, TimeWheelAssumption
          DEF Linked, StrippedWhenOff, TypeOK
        <5>2. CASE x \in due
          BY <2>1, <2>3, <5>2, TimeWheelAssumption DEF TakenChainIntact, TypeOK
        <5>3. QED
          BY <5>1, <5>2
      <4>2. QED
        BY <2>7, <3>1, <4>1
    <3>6. Acyclic(list'.next, live \cup {e})
      BY <2>7, <3>1, <3>3, <3>4, <3>5, PushAcyclic
    <3>7. QED
      BY <3>1, <3>6
  <2>15. QED
    BY <2>10, <2>11, <2>12, <2>13, <2>14
<1>3. QED
  BY <1>1, <1>2

(* A non-empty set of naturals has a least element. *)
LEMMA MinNat ==
    ASSUME NEW T \in SUBSET Nat, T # {}
    PROVE  \E x \in T : \A y \in T : x <= y
<1>1. IsWellFoundedOn(OpToRel(<, Nat), Nat)
  BY NatLessThanWellFounded
<1>2. PICK x \in T : \A y \in T : ~(<<y, x>> \in OpToRel(<, Nat))
  BY <1>1, WFMin
<1>3. \A y \in T : y \in Nat /\ x \in Nat /\ ~(y < x)
  BY <1>2 DEF OpToRel
<1>4. QED
  BY <1>3

(* A set of linked entries holds an entry without predecessor in it: the   *)
(* one of least rank.                                                      *)
LEMMA FirstOne ==
    ASSUME NEW next, NEW S \in SUBSET Entry, Acyclic(next, S),
           NEW T \in SUBSET S, T # {}
    PROVE  \E x \in T : \A y \in T : next[y] # x
<1>1. PICK rank \in [Entry -> Nat] :
         \A x \in S : next[x] # Null => next[x] \in Entry /\ rank[x] < rank[next[x]]
  BY DEF Acyclic
<1> DEFINE ranks == {rank[x] : x \in T}
<1>2. ranks \in SUBSET Nat /\ ranks # {}
  OBVIOUS
<1>3. PICK r \in ranks : \A q \in ranks : r <= q
  <2> HIDE DEF ranks
  <2> QED
    BY <1>2, MinNat
<1>4. PICK x \in T : rank[x] = r
  OBVIOUS
<1>5. ASSUME NEW y \in T PROVE next[y] # x
  <2>1. rank[y] \in ranks /\ rank[y] \in Nat /\ rank[x] \in Nat /\ rank[x] <= rank[y]
    BY <1>3, <1>4
  <2>2. x \in Entry /\ x # Null /\ y \in S
    BY TimeWheelAssumption
  <2>3. QED
    BY <1>1, <2>1, <2>2
<1>6. QED
  BY <1>5

(* Once tick() has walked to the end of the list, it has met every entry   *)
(* it took away.                                                           *)
LEMMA WalkedAll ==
    ASSUME Inv, head = Null
    PROVE  due = {}
<1>1. SUFFICES ASSUME due # {} PROVE FALSE
  OBVIOUS
<1>2. due \in SUBSET live /\ live \in SUBSET Entry /\ Acyclic(list.next, live)
  BY DEF Inv, ListsOK, TakenChainIntact, TypeOK
<1>3. PICK x \in due : \A y \in due : list.next[y] # x
  BY <1>1, <1>2, FirstOne
<1>4. list.prev[x] \in due /\ list.next[list.prev[x]] = x
  BY <1>2, TimeWheelAssumption DEF Inv, ListsOK, TakenChainIntact
<1>5. QED
  BY <1>3, <1>4

LEMMA OwnerDiesStep ==
    ASSUME Inv, NEW e \in Entry, OwnerDies(e)
    PROVE  Inv'
BY DEF Inv, ListsOK, OwnerDies, TypeOK, BucketsLinked, TakenChainIntact,
       StrippedWhenOff, Acyclic

(* Taking a list away leaves the other buckets as they are. *)
LEMMA TickBeginStep == Inv /\ TickBegin => Inv'
<1> SUFFICES ASSUME Inv, TickBegin PROVE Inv'
  OBVIOUS
<1>. USE TimeWheelAssumption DEF Inv, ListsOK
<1>1. current' \in Bucket
  BY DEF TickBegin, TypeOK, Bucket
<1>2. /\ list \in Lists /\ list'.index = list.index
      /\ list'.prev = list.prev /\ list'.next = list.next
      /\ list'.buckets = [list.buckets EXCEPT ![current'] = Null]
      /\ head' = list.buckets[current']
      /\ live' = live /\ due' = {e \in live : list.index[e] = current'}
      /\ running = Null /\ running' = Null
  BY DEF TickBegin, TypeOK, Lists
<1>3. due = {}
  BY WalkedAll DEF TickBegin
<1>4. Linked(list, live)
  BY <1>3 DEF BucketsLinked
<1>5. list' \in Lists
  BY <1>1, <1>2 DEF TickBegin, Lists, Ptr
<1>6. TypeOK'
  BY <1>1, <1>2, <1>5 DEF TickBegin, TypeOK, Lists
<1>7. BucketsLinked'
  BY <1>1, <1>2, <1>4 DEF BucketsLinked, Linked, Lists
<1>8. TakenChainIntact'
  BY <1>1, <1>2, <1>4 DEF TypeOK, TakenChainIntact, Linked, Lists, Ptr
<1>9. StrippedWhenOff'
  BY <1>2 DEF StrippedWhenOff
<1>10. QED
  BY <1>2, <1>6, <1>7, <1>8, <1>9 DEF Acyclic

(* Stripping the first taken entry leaves the rest of the list in place:   *)
(* its successor's dangling prev is never followed.                        *)
LEMMA TickFireStep == Inv /\ TickFire => Inv'
<1> SUFFICES ASSUME Inv, TickFire PROVE Inv'
  OBVIOUS
<1>. USE TimeWheelAssumption DEF Inv, ListsOK
<1>1. /\ head \in due /\ head \in live /\ head \in Entry
      /\ list \in Lists /\ running = Null
      /\ list' = Strip(list, head) /\ head' = list.next[head]
      /\ due' = due \ {head} /\ current' = current
      /\ \/ running' = Null /\ live' = live \ {head}
         \/ running' = head /\ live' = live
  BY DEF TickFire, TakenChainIntact, TypeOK
<1>2. /\ list'.buckets = list.buckets
      /\ list'.index = [list.index EXCEPT ![head] = -1]
      /\ list'.prev = [list.prev EXCEPT ![head] = Null]
      /\ list'.next = [list.next EXCEPT ![head] = Null]
      /\ list' \in Lists
  BY <1>1 DEF Strip, Lists, Ptr
<1>3. TypeOK'
  BY <1>1, <1>2 DEF TickFire, TypeOK, Lists, Ptr
<1>4. BucketsLinked'
  BY <1>1, <1>2 DEF BucketsLinked, Linked, Lists, Bucket, TypeOK
<1>5. TakenChainIntact'
  BY <1>1, <1>2 DEF TakenChainIntact, TypeOK, Lists, Ptr
<1>6. StrippedWhenOff'
  BY <1>1, <1>2 DEF StrippedWhenOff, TypeOK, Lists
<1>7. Acyclic(list.next, live)'
  BY <1>1, <1>2 DEF Acyclic, TypeOK, Lists
<1>8. QED
  BY <1>3, <1>4, <1>5, <1>6, <1>7

LEMMA TickDeleteStep == Inv /\ TickDelete => Inv'
<1> SUFFICES ASSUME Inv, TickDelete PROVE Inv'
  OBVIOUS
<1>. USE TimeWheelAssumption DEF Inv, ListsOK, TickDelete
<1>1. TypeOK'
  BY DEF TypeOK, Ptr
<1>2. BucketsLinked'
  BY DEF BucketsLinked, Linked, StrippedWhenOff, TakenChainIntact, TypeOK, Bucket
<1>3. TakenChainIntact' /\ StrippedWhenOff'
  BY DEF TakenChainIntact, StrippedWhenOff
<1>4. Acyclic(list.next, live)'
  BY DEF Acyclic
<1>5. QED
  BY <1>1, <1>2, <1>3, <1>4

LEMMA Invariance == Spec => []Inv
<1>1. Inv /\ [Next]_vars => Inv'
  <2> SUFFICES ASSUME Inv, [Next]_vars PROVE Inv'
    OBVIOUS
  <2>1. ASSUME NEW e \in Entry, NEW t \in Timeouts, Add(e, t) PROVE Inv'
    BY <2>1, AddStep
  <2>2. ASSUME NEW e \in Entry, Remove(e) \/ Refresh(e) \/ OwnerDies(e) PROVE Inv'
    BY <2>2, RemoveStep, RefreshStep, OwnerDiesStep
  <2>3. CASE Tick
    BY <2>3, TickBeginStep, TickFireStep, TickDeleteStep DEF Tick
  <2>4. CASE UNCHANGED vars
    BY <2>4 DEF vars, Inv, ListsOK, TypeOK, BucketsLinked, TakenChainIntact,
                StrippedWhenOff, Acyclic
  <2>5. QED
    BY <2>1, <2>2, <2>3, <2>4 DEF Next
<1>2. QED
  BY InitInv, <1>1, PTL DEF Spec

-----------------------------------------------------------------------------
(* Every variable keeps its type: no list pointer leaves the entries.      *)
THEOREM TypeCorrect == Spec => []TypeOK
<1>1. Inv => TypeOK
  BY DEF Inv
<1>2. QED
  BY Invariance, <1>1, PTL

(* The intrusive lists stay intact: what hangs in a bucket is linked in    *)
(* both directions, the list tick() is walking survives every callback,    *)
(* and entries off the wheel carry no links.                               *)
THEOREM ListsIntact == Spec => []ListsOK
<1>1. Inv => ListsOK
  BY DEF Inv
<1>2. QED
  BY Invariance, <1>1, PTL

-----------------------------------------------------------------------------
(* Reachability. *)

(* A set that a head leads into, that no link leaves, and in which only    *)
(* the head has no predecessor is what can be reached from the head.       *)
LEMMA ReachedExactly ==
    ASSUME Acyclic(list.next, live), live \in SUBSET Entry,
           NEW In \in SUBSET live, NEW h \in Ptr,
           h = Null => In = {},
           h # Null => h \in In,
           \A x \in In : list.next[x] # Null => list.next[x] \in In,
           \A x \in In \ {h} : \E y \in In : list.next[y] = x
    PROVE  In = ReachableFrom(h)
<1>1. CASE h = Null
  BY <1>1 DEF ReachableFrom
<1>2. CASE h # Null
  <2>1. ReachableFrom(h) \subseteq In
    BY <1>2 DEF ReachableFrom
  <2>2. ASSUME NEW S \in SUBSET Entry, h \in S,
               \A x \in S : list.next[x] # Null => list.next[x] \in S
        PROVE  In \subseteq S
    <3>1. SUFFICES ASSUME In \ S # {} PROVE FALSE
      OBVIOUS
    <3>. DEFINE T == In \ S
    <3>2. T \in SUBSET live /\ T # {}
      BY <3>1
    <3>3. PICK x \in T : \A y \in T : list.next[y] # x
      <4>. HIDE DEF T
      <4>1. Acyclic(list.next, live)
        OBVIOUS
      <4>2. QED
        BY <3>2, <4>1, FirstOne
    <3>4. PICK y \in In : list.next[y] = x
      BY <2>2, <3>3
    <3>5. y \in S /\ x # Null
      BY <3>3, <3>4, TimeWheelAssumption
    <3>6. QED
      BY <2>2, <3>3, <3>4, <3>5
  <2>3. In \subseteq ReachableFrom(h)
    BY <1>2, <2>2 DEF ReachableFrom
  <2>4. QED
    BY <2>1, <2>3
<1>3. QED
  BY <1>1, <1>2

LEMMA InvReach == Inv => NoEntryLost
<1> SUFFICES ASSUME Inv PROVE NoEntryLost
  OBVIOUS
<1>. USE TimeWheelAssumption DEF Inv
<1>1. live \in SUBSET Entry /\ Acyclic(list.next, live) /\ list \in Lists
  BY DEF TypeOK
<1>2. ASSUME NEW b \in Bucket
      PROVE  {e \in live \ due : list.index[e] = b} = ReachableFrom(list.buckets[b])
  <2> DEFINE In == {e \in live \ due : list.index[e] = b}
             h  == list.buckets[b]
  <2>1. /\ In \in SUBSET live /\ h \in Ptr
        /\ h # Null => h \in In
        /\ \A x \in In : list.next[x] # Null => list.next[x] \in In
        /\ \A x \in In \ {h} : \E y \in In : list.next[y] = x
    BY <1>1 DEF ListsOK, BucketsLinked, Linked, Lists
  <2>2. h = Null => In = {}
    <3>1. SUFFICES ASSUME h = Null, In # {} PROVE FALSE
      OBVIOUS
    <3>2. PICK x \in In : \A y \in In : list.next[y] # x
      <4>1. In \in SUBSET live /\ In # {}
        BY <2>1, <3>1
      <4> HIDE DEF In
      <4>2. QED
        BY <1>1, <4>1, FirstOne
    <3>3. x # h
      BY <1>1, <3>1
    <3>4. QED
      BY <2>1, <3>2, <3>3
  <2>3. QED
    BY <1>1, <2>1, <2>2, ReachedExactly
<1>3. due = ReachableFrom(head)
  <2>1. /\ due \in SUBSET live /\ head \in Ptr
        /\ head # Null => head \in due
        /\ \A x \in due : list.next[x] # Null => list.next[x] \in due
        /\ \A x \in due \ {head} : \E y \in due : list.next[y] = x
    BY DEF ListsOK, TakenChainIntact, TypeOK
  <2>2. head = Null => due = {}
    BY WalkedAll
  <2>3. QED
    BY <1>1, <2>1, <2>2, ReachedExactly
<1>4. QED
  BY <1>2, <1>3 DEF NoEntryLost

(* No armed timer is ever lost: whatever add, refresh, remove and tick do  *)
(* in whatever order, each entry can be reached from the head of the list  *)
(* it is in, so tick() will come to it.                                    *)
THEOREM NothingLost == Spec => []NoEntryLost
BY Invariance, InvReach, PTL

-----------------------------------------------------------------------------
(* The wheel implements the deadlines. *)

Left == [e \in Entry |-> Remaining(e)]

(* Between 1 and BucketCount while armed, 0 while due, -1 otherwise. *)
LEMMA RemainingRange ==
    ASSUME Inv, NEW e \in Entry
    PROVE  /\ e \in live \ (due \cup {running}) => Remaining(e) \in 1 .. BucketCount
           /\ e \in due => Remaining(e) = 0
           /\ e \notin live \/ e = running => Remaining(e) = -1
<1>1. ASSUME e \in live \ (due \cup {running})
      PROVE  Remaining(e) \in 1 .. BucketCount
  <2>1. list.index[e] \in Bucket /\ current \in Bucket
    BY <1>1 DEF Inv, ListsOK, StrippedWhenOff, TypeOK
  <2>2. (list.index[e] - current - 1) % BucketCount \in 0 .. BucketCount - 1
    BY <2>1, TimeWheelAssumption DEF Bucket
  <2>3. QED
    BY <1>1, <2>2, TimeWheelAssumption DEF Remaining
<1>2. e \in due => e \in live /\ e # running
  BY TimeWheelAssumption DEF Inv, ListsOK, TakenChainIntact
<1>3. QED
  BY <1>1, <1>2 DEF Remaining

LEMMA DueIsDue ==
    ASSUME Inv
    PROVE  /\ D!Due = due
           /\ D!Armed = live \ (due \cup {running})
           /\ ClientTurn => D!ClientTurn
<1>1. \A e \in Entry : Left[e] = Remaining(e)
  BY DEF Left
<1>2. due \subseteq live /\ live \subseteq Entry /\ running \notin due
  BY TimeWheelAssumption DEF Inv, ListsOK, TakenChainIntact, TypeOK, Ptr
<1>3. \A e \in Entry :
         /\ Remaining(e) = 0 <=> e \in due
         /\ Remaining(e) > 0 <=> e \in live \ (due \cup {running})
  BY RemainingRange, <1>2, TimeWheelAssumption
<1>4. D!Due = due
  BY <1>2, <1>3 DEF D!Due
<1>5. D!Armed = live \ (due \cup {running})
  BY <1>2, <1>3 DEF D!Armed
<1>6. QED
  BY <1>4, <1>5, WalkedAll DEF ClientTurn, D!ClientTurn

(* The slot of a fresh deadline is that many ticks away. *)
LEMMA SlotRemaining ==
    ASSUME current \in Bucket, NEW t \in Timeouts
    PROVE  ((Slot(t) - current - 1) % BucketCount) + 1 = Ticks(t)
<1> DEFINE k == Ticks(t)
<1>1. k \in 1 .. BucketCount /\ BucketCount \in Nat \ {0} /\ current \in 0 .. BucketCount - 1
  BY TicksRange, TimeWheelAssumption DEF Bucket
<1>2. Slot(t) = (current + k) % BucketCount
  BY DEF Slot
<1> HIDE DEF k
<1>3. CASE current + k < BucketCount
  <2>1. (current + k) % BucketCount = current + k
    BY <1>1, <1>3
  <2>2. (k - 1) % BucketCount = k - 1
    BY <1>1
  <2>3. Slot(t) - current - 1 = k - 1 /\ k - 1 + 1 = k
    BY <1>1, <1>2, <2>1
  <2>4. QED
    BY <2>2, <2>3 DEF k
<1>4. CASE current + k >= BucketCount
  <2>1. (current + k) % BucketCount = current + k - BucketCount
    BY <1>1, <1>4
  <2>2. (k - 1 - BucketCount) % BucketCount = k - 1
    BY <1>1
  <2>3. Slot(t) - current - 1 = k - 1 - BucketCount /\ k - 1 + 1 = k
    BY <1>1, <1>2, <2>1
  <2>4. QED
    BY <2>2, <2>3 DEF k
<1>5. QED
  BY <1>1, <1>3, <1>4

(* Advancing the wheel brings every bucket one tick nearer. *)
LEMMA NearerByOne ==
    ASSUME NEW c \in Bucket, NEW i \in Bucket
    PROVE  LET d  == (c + 1) % BucketCount
               r  == ((i - c - 1) % BucketCount) + 1
               r2 == ((i - d - 1) % BucketCount) + 1
           IN  /\ i = d => r = 1
               /\ i # d => r2 = r - 1
<1> DEFINE N == BucketCount
<1>1. N \in Nat \ {0} /\ c \in 0 .. N - 1 /\ i \in 0 .. N - 1
  BY TimeWheelAssumption DEF Bucket
<1> HIDE DEF N
<1> SUFFICES LET d  == (c + 1) % N
                 r  == ((i - c - 1) % N) + 1
                 r2 == ((i - d - 1) % N) + 1
             IN  /\ i = d => r = 1
                 /\ i # d => r2 = r - 1
  BY DEF N
<1>2. CASE c = N - 1
  <2>1. (c + 1) % N = 0
    BY <1>1, <1>2
  <2>2. (i - c - 1) % N = i
    BY <1>1, <1>2
  <2>3. i # 0 => (i - 0 - 1) % N = i - 1
    BY <1>1
  <2>4. QED
    BY <1>1, <2>1, <2>2, <2>3
<1>3. CASE c < N - 1
  <2>1. (c + 1) % N = c + 1
    BY <1>1, <1>3
  <2>2. i >= c + 1 => (i - c - 1) % N = i - c - 1
    BY <1>1, <1>3
  <2>3. i < c + 1 => (i - c - 1) % N = i - c - 1 + N
    BY <1>1, <1>3
  <2>4. i >= c + 2 => (i - (c + 1) - 1) % N = i - c - 2
    BY <1>1, <1>3
  <2>5. i < c + 1 => (i - (c + 1) - 1) % N = i - c - 2 + N
    BY <1>1, <1>3
  <2>6. QED
    BY <1>1, <2>1, <2>2, <2>3, <2>4, <2>5
<1>4. QED
  BY <1>1, <1>2, <1>3

LEMMA AddArms ==
    ASSUME Inv, Inv', NEW e \in Entry, NEW t \in Timeouts, Add(e, t)
    PROVE  D!Arm(e, t)
<1>1. /\ ClientTurn /\ e \notin live /\ live' = live \cup {e}
      /\ list' = Attach(list, Slot(t), e) /\ current' = current
      /\ due' = due /\ running' = running /\ e # running /\ e \notin due
      /\ timeout' = [timeout EXCEPT ![e] = t] /\ expired' = expired \ {e}
  BY TimeWheelAssumption DEF Add, Inv, ListsOK, TakenChainIntact
<1>2. list'.index = [list.index EXCEPT ![e] = Slot(t)] /\ list.index \in [Entry -> Bucket \cup {-1}]
  BY <1>1 DEF Attach, Inv, TypeOK, Lists
<1>3. Left[e] = D!Idle
  BY <1>1, RemainingRange DEF Left, D!Idle
<1>4. Remaining(e)' = D!Ticks(t)
  <2>1. Remaining(e)' = ((Slot(t) - current - 1) % BucketCount) + 1
    BY <1>1, <1>2 DEF Remaining
  <2>2. QED
    BY <2>1, SlotRemaining DEF Inv, TypeOK, Ticks, D!Ticks
<1>5. ASSUME NEW x \in Entry, x # e PROVE Remaining(x)' = Remaining(x)
  BY <1>1, <1>2, <1>5 DEF Remaining
<1>6. Left' = [Left EXCEPT ![e] = D!Ticks(t)]
  BY <1>4, <1>5 DEF Left
<1>7. QED
  BY <1>1, <1>3, <1>6, DueIsDue DEF D!Arm, Left

LEMMA RemoveCancels ==
    ASSUME Inv, NEW e \in Entry, Remove(e)
    PROVE  D!Cancel(e)
<1>1. /\ ClientTurn /\ e \in live \ (due \cup {running}) /\ live' = live \ {e}
      /\ list' = (IF list.index[e] >= 0 THEN Detach(list, e) ELSE list)
      /\ UNCHANGED <<current, timeout, expired, due, running>>
  BY DEF Remove
<1>2. \A x \in Entry \ {e} : list'.index[x] = list.index[x]
  BY <1>1 DEF Detach, Inv, TypeOK, Lists
<1>3. Remaining(e)' = D!Idle
  BY <1>1 DEF Remaining, D!Idle
<1>4. ASSUME NEW x \in Entry, x # e PROVE Remaining(x)' = Remaining(x)
  BY <1>1, <1>2, <1>4 DEF Remaining
<1>5. Left' = [Left EXCEPT ![e] = D!Idle]
  BY <1>3, <1>4 DEF Left
<1>6. QED
  BY <1>1, <1>5, DueIsDue DEF D!Cancel, Left

LEMMA RefreshRearms ==
    ASSUME Inv, NEW e \in Entry, Refresh(e)
    PROVE  D!Rearm(e) \/ UNCHANGED D!avars
<1>1. /\ ClientTurn /\ e \in live \ due
      /\ UNCHANGED <<live, current, timeout, expired, due, running>>
  BY DEF Refresh
<1>2. CASE list.index[e] < 0
  <2>1. list' = list
    BY <1>2 DEF Refresh
  <2>2. \A x \in Entry : Remaining(x)' = Remaining(x)
    BY <1>1, <2>1 DEF Remaining
  <2>3. Left' = Left
    BY <2>2 DEF Left
  <2>4. QED
    BY <1>1, <2>3 DEF D!avars, Left
<1>3. CASE ~(list.index[e] < 0)
  <2> DEFINE t == timeout[e]
  <2>1. /\ t \in Timeouts /\ current \in Bucket
        /\ list.index \in [Entry -> Bucket \cup {-1}]
        /\ list' = Attach(Detach(list, e), Slot(t), e)
    BY <1>3 DEF Refresh, Inv, TypeOK, Lists
  <2>2. e # running
    BY <1>1, <1>3 DEF Inv, ListsOK, StrippedWhenOff
  <2>3. list'.index = [list.index EXCEPT ![e] = Slot(t)]
    BY <2>1 DEF Attach, Detach
  <2>4. Remaining(e)' = D!Ticks(t)
    <3>1. Remaining(e)' = ((Slot(t) - current - 1) % BucketCount) + 1
      BY <1>1, <2>1, <2>2, <2>3 DEF Remaining
    <3>2. QED
      BY <2>1, <3>1, SlotRemaining DEF Ticks, D!Ticks
  <2>5. ASSUME NEW x \in Entry, x # e PROVE Remaining(x)' = Remaining(x)
    BY <1>1, <2>1, <2>3, <2>5 DEF Remaining
  <2>6. Left' = [Left EXCEPT ![e] = D!Ticks(t)]
    BY <2>4, <2>5 DEF Left
  <2>7. QED
    BY <1>1, <2>2, <2>6, DueIsDue DEF D!Rearm, Left
<1>4. QED
  BY <1>2, <1>3

LEMMA OwnerDiesOrphans ==
    ASSUME Inv, NEW e \in Entry, OwnerDies(e)
    PROVE  D!Orphan(e)
<1>1. \A x \in Entry : Remaining(x)' = Remaining(x)
  BY DEF OwnerDies, Remaining
<1>2. Left' = Left
  BY <1>1 DEF Left
<1>3. QED
  BY <1>2, DueIsDue DEF OwnerDies, D!Orphan, Left

LEMMA TickBeginAdvances ==
    ASSUME Inv, TickBegin
    PROVE  D!Advance
<1>1. /\ due = {} /\ running = Null /\ running' = Null /\ live' = live
      /\ list'.index = list.index /\ current' = (current + 1) % BucketCount
      /\ due' = {e \in live : list.index[e] = current'}
      /\ timeout' = timeout /\ expired' = expired
      /\ current \in Bucket
  BY WalkedAll DEF TickBegin, Inv, TypeOK, Lists
<1>2. ASSUME NEW x \in Entry
      PROVE  Remaining(x)' = IF x \in D!Armed THEN Remaining(x) - 1 ELSE Remaining(x)
  <2>1. CASE x \notin live
    BY <1>1, <2>1, DueIsDue DEF Remaining
  <2>2. CASE x \in live
    <3>1. x # running /\ x \in D!Armed /\ list.index[x] \in Bucket
      BY <1>1, <2>2, DueIsDue, TimeWheelAssumption DEF Inv, ListsOK, StrippedWhenOff
    <3>2. Remaining(x) = ((list.index[x] - current - 1) % BucketCount) + 1
      BY <1>1, <2>2, <3>1 DEF Remaining
    <3>3. Remaining(x)' = IF list.index[x] = current' THEN 0
                          ELSE ((list.index[x] - current' - 1) % BucketCount) + 1
      BY <1>1, <2>2, <3>1 DEF Remaining
    <3>4. QED
      BY <1>1, <3>1, <3>2, <3>3, NearerByOne
  <2>3. QED
    BY <2>1, <2>2
<1>3. Left' = [x \in Entry |-> IF x \in D!Armed THEN Left[x] - 1 ELSE Left[x]]
  BY <1>2 DEF Left
<1>4. QED
  BY <1>1, <1>3, DueIsDue DEF D!Advance, Left

LEMMA TickFireExpires ==
    ASSUME Inv, TickFire, NEW e \in Entry, e = head
    PROVE  D!Expire(e)
<1>1. /\ e \in due /\ e \in live /\ running = Null
      /\ list' = Strip(list, e) /\ due' = due \ {e}
      /\ UNCHANGED <<current, timeout, expired>>
      /\ IF e \in expired THEN running' = Null /\ live' = live \ {e}
                           ELSE running' = e /\ live' = live
  BY DEF TickFire, Inv, ListsOK, TakenChainIntact, TypeOK
<1>2. list'.index = [list.index EXCEPT ![e] = -1] /\ list.index \in [Entry -> Bucket \cup {-1}]
  BY <1>1 DEF Strip, Inv, TypeOK, Lists
<1>3. Remaining(e)' = D!Idle
  BY <1>1 DEF Remaining, D!Idle
<1>4. ASSUME NEW x \in Entry, x # e PROVE Remaining(x)' = Remaining(x)
  BY <1>1, <1>2, <1>4, TimeWheelAssumption DEF Remaining
<1>5. Left' = [Left EXCEPT ![e] = D!Idle]
  BY <1>3, <1>4 DEF Left
<1>6. QED
  BY <1>1, <1>5, DueIsDue DEF D!Expire, Left

LEMMA TickDeleteReturns ==
    ASSUME Inv, TickDelete
    PROVE  D!Return
<1>1. /\ running # Null /\ running' = Null /\ live' = live \ {running}
      /\ UNCHANGED <<list, current, timeout, expired, due>>
  BY DEF TickDelete
<1>2. ASSUME NEW x \in Entry PROVE Remaining(x)' = Remaining(x)
  <2>1. CASE x = running
    BY <1>1, <2>1 DEF Remaining
  <2>2. CASE x # running
    BY <1>1, <2>2, TimeWheelAssumption DEF Remaining
  <2>3. QED
    BY <2>1, <2>2
<1>3. Left' = Left
  BY <1>2 DEF Left
<1>4. QED
  BY <1>1, <1>3 DEF D!Return, Left

(* The timer wheel implements the deadlines it stands for: every entry     *)
(* expires after exactly as many ticks as its timeout rounds to, counted   *)
(* from its last add or refresh, and its callback runs unless its owner is *)
(* gone.                                                                   *)
THEOREM ImplementsDeadlines == Spec => KeepsDeadlines
<1>1. Init => D!Init
  <2> SUFFICES ASSUME Init PROVE D!Init
    OBVIOUS
  <2>1. \A x \in Entry : Remaining(x) = D!Idle
    BY DEF Init, Remaining, D!Idle
  <2>2. QED
    BY <2>1 DEF Init, D!Init
<1>2. Inv /\ Inv' /\ [Next]_vars => [D!Next]_(D!avars)
  <2> SUFFICES ASSUME Inv, Inv', [Next]_vars PROVE [D!Next]_(D!avars)
    OBVIOUS
  <2>1. ASSUME NEW e \in Entry, NEW t \in Timeouts, Add(e, t) PROVE D!Next
    BY <2>1, AddArms DEF D!Next
  <2>2. ASSUME NEW e \in Entry, Remove(e) PROVE D!Next
    BY <2>2, RemoveCancels DEF D!Next
  <2>3. ASSUME NEW e \in Entry, Refresh(e) PROVE [D!Next]_(D!avars)
    BY <2>3, RefreshRearms DEF D!Next
  <2>4. ASSUME NEW e \in Entry, OwnerDies(e) PROVE D!Next
    BY <2>4, OwnerDiesOrphans DEF D!Next
  <2>5. CASE TickBegin
    BY <2>5, TickBeginAdvances DEF D!Next
  <2>6. CASE TickFire
    <3>1. head \in Entry
      BY <2>6 DEF TickFire, Inv, TypeOK, Ptr
    <3>2. QED
      BY <2>6, <3>1, TickFireExpires DEF D!Next
  <2>7. CASE TickDelete
    BY <2>7, TickDeleteReturns DEF D!Next
  <2>8. CASE UNCHANGED vars
    <3>1. \A x \in Entry : Remaining(x)' = Remaining(x)
      BY <2>8 DEF vars, Remaining
    <3>2. Left' = Left
      BY <3>1 DEF Left
    <3>3. QED
      BY <2>8, <3>2 DEF vars, D!avars, Left
  <2>9. QED
    BY <2>1, <2>2, <2>3, <2>4, <2>5, <2>6, <2>7, <2>8 DEF Next, Tick
<1>3. QED
  BY Invariance, <1>1, <1>2, PTL DEF Spec, KeepsDeadlines, D!Spec
=============================================================================
