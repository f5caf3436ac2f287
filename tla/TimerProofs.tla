------------------------------ MODULE TimerProofs ------------------------------
(***************************************************************************)
(* Proofs about the event loop and a timer on it, for any number of posts  *)
(* and starts and any set of descriptors: what is posted is called once,   *)
(* in order and in time, and a stopped timer stays silent.                 *)
(*                                                                         *)
(* The facts about the loop are proved of EventLoop's own steps, so they   *)
(* hold with a timer on it and without.                                    *)
(***************************************************************************)
EXTENDS Timer, SequenceTheorems, TLAPS

PostNo == 1 .. MaxPosts

(* Where the callbacks posted before epoll_wait returned can still be: at  *)
(* the swap anywhere, while running no longer in pending, when dispatching *)
(* nowhere but among the executed ones.                                    *)
CalledUpTo ==
    /\ pc # "run" => taken = <<>>
    /\ pc = "run" => Len(executed) + Len(taken) >= mark
    /\ pc = "dispatch" => Len(executed) >= mark

LoopInv == TypeOK /\ ExactlyOnceInOrder /\ CalledUpTo

-----------------------------------------------------------------------------
(* Posting at the end of the queue extends the whole; running the head of  *)
(* what was taken moves it from one part of the whole to another.          *)
LEMMA AppendAtEnd ==
    ASSUME NEW S, NEW s \in Seq(S), NEW u \in Seq(S), NEW e \in S
    PROVE  s \o Append(u, e) = Append(s \o u, e)
<1> DEFINE one == <<e>>
<1>1. one \in Seq(S)
  OBVIOUS
<1>2. s \o u \in Seq(S)
  BY ConcatProperties
<1>3. Append(u, e) = u \o one /\ Append(s \o u, e) = (s \o u) \o one
  BY <1>2, AppendIsConcat
<1> HIDE DEF one
<1>4. (s \o u) \o one = s \o (u \o one)
  BY <1>1, ConcatAssociative
<1> QED
  BY <1>3, <1>4

LEMMA MoveHead ==
    ASSUME NEW S, NEW s \in Seq(S), NEW t \in Seq(S), t # <<>>
    PROVE  Append(s, Head(t)) \o Tail(t) = s \o t
<1>1. /\ Head(t) \in S /\ Tail(t) \in Seq(S)
      /\ Len(Tail(t)) = Len(t) - 1
      /\ \A i \in 1 .. Len(Tail(t)) : Tail(t)[i] = t[i + 1]
  BY HeadTailProperties
<1>2. Head(t) = t[1] /\ Len(t) \in Nat \ {0} /\ Len(s) \in Nat
  BY EmptySeq, LenProperties
<1> DEFINE a == Append(s, Head(t))
<1>3. /\ a \in Seq(S) /\ Len(a) = Len(s) + 1
      /\ \A i \in 1 .. Len(s) : a[i] = s[i]
      /\ a[Len(s) + 1] = t[1]
  BY <1>1, <1>2, AppendProperties
<1> HIDE DEF a
<1>4. /\ a \o Tail(t) \in Seq(S) /\ s \o t \in Seq(S)
      /\ Len(a \o Tail(t)) = Len(a) + Len(Tail(t))
      /\ \A i \in 1 .. Len(a) + Len(Tail(t)) :
            (a \o Tail(t))[i] = IF i <= Len(a) THEN a[i] ELSE Tail(t)[i - Len(a)]
      /\ Len(s \o t) = Len(s) + Len(t)
      /\ \A i \in 1 .. Len(s) + Len(t) :
            (s \o t)[i] = IF i <= Len(s) THEN s[i] ELSE t[i - Len(s)]
  <2> DEFINE r == Tail(t)
  <2>1. a \in Seq(S) /\ r \in Seq(S)
    BY <1>1, <1>3
  <2> HIDE DEF r
  <2>2. /\ a \o r \in Seq(S)
        /\ Len(a \o r) = Len(a) + Len(r)
        /\ \A i \in 1 .. Len(a) + Len(r) :
              (a \o r)[i] = IF i <= Len(a) THEN a[i] ELSE r[i - Len(a)]
    BY <2>1, ConcatProperties
  <2>3. /\ s \o t \in Seq(S)
        /\ Len(s \o t) = Len(s) + Len(t)
        /\ \A i \in 1 .. Len(s) + Len(t) :
              (s \o t)[i] = IF i <= Len(s) THEN s[i] ELSE t[i - Len(s)]
    BY ConcatProperties
  <2> QED
    BY <2>2, <2>3, Zenon DEF r
<1>5. ASSUME NEW i \in 1 .. Len(s) + Len(t) PROVE (a \o Tail(t))[i] = (s \o t)[i]
  <2>1. CASE i <= Len(s)
    BY <1>1, <1>2, <1>3, <1>4, <2>1
  <2>2. CASE i = Len(s) + 1
    BY <1>1, <1>2, <1>3, <1>4, <2>2
  <2>3. CASE i > Len(s) + 1
    BY <1>1, <1>2, <1>3, <1>4, <2>3
  <2>4. i <= Len(s) \/ i = Len(s) + 1 \/ i > Len(s) + 1
    BY <1>2
  <2> QED
    BY <2>1, <2>2, <2>3, <2>4, Zenon
<1>6. Len(a \o Tail(t)) = Len(s \o t)
  BY <1>1, <1>2, <1>3, <1>4
<1>7. a \o Tail(t) = s \o t
  BY <1>4, <1>5, <1>6, SeqEqual
<1> QED
  BY <1>7 DEF a

-----------------------------------------------------------------------------
LEMMA LoopInit == Init => LoopInv
<1> SUFFICES ASSUME Init PROVE LoopInv
  OBVIOUS
<1>. USE EventLoopAssumption DEF Init
<1>1. TypeOK
  <2>1. <<>> \in Seq(1 .. MaxPosts)
    BY EmptySeq, Zenon
  <2>2. 0 \in 0 .. MaxPosts /\ 0 \in 0 .. 0
    OBVIOUS
  <2> QED
    BY <2>1, <2>2, Zenon DEF TypeOK, Step
<1>2. ExactlyOnceInOrder
  BY DEF ExactlyOnceInOrder
<1>3. CalledUpTo
  BY DEF CalledUpTo
<1> QED
  BY <1>1, <1>2, <1>3 DEF LoopInv

(* What any caller may do to the queue: extend it, or leave it alone. *)
LEMMA CallsExtend ==
    ASSUME LoopInv, Calls,
           NEW s \in Seq(PostNo), NEW t \in Seq(PostNo), s \o t = executed \o taken
    PROVE  /\ running' \in BOOLEAN /\ pending' \in Seq(PostNo) /\ posted' \in 0 .. MaxPosts
           /\ posted <= posted'
           /\ s \o t \o pending' = [i \in 1 .. posted' |-> i]
<1>1. CASE RunInLoop
  <2>1. /\ posted' = posted + 1 /\ pending' = Append(pending, posted')
        /\ posted < MaxPosts /\ running' = running
    BY <1>1 DEF RunInLoop, Post
  <2>2. /\ running \in BOOLEAN /\ pending \in Seq(PostNo) /\ posted \in 0 .. MaxPosts
    BY DEF LoopInv, TypeOK, PostNo
  <2>3. posted' \in PostNo /\ posted' \in 0 .. MaxPosts /\ posted <= posted'
    BY <2>1, <2>2, EventLoopAssumption DEF PostNo
  <2>4. s \o t \o Append(pending, posted') = Append(s \o t \o pending, posted')
    <3> DEFINE last == posted'
               st   == s \o t
    <3>1. pending \in Seq(PostNo) /\ last \in PostNo /\ st \in Seq(PostNo)
      BY <2>2, <2>3, ConcatProperties
    <3> HIDE DEF last, st
    <3>2. st \o Append(pending, last) = Append(st \o pending, last)
      BY ONLY <3>1, AppendAtEnd
    <3> QED
      BY <3>2 DEF last, st
  <2>5. s \o t \o pending = [i \in 1 .. posted |-> i]
    BY DEF LoopInv, ExactlyOnceInOrder
  <2>6. Append([i \in 1 .. posted |-> i], posted + 1) = [i \in 1 .. posted + 1 |-> i]
    BY <2>2
  <2>7. pending' \in Seq(PostNo)
    BY <2>1, <2>2, <2>3, AppendProperties
  <2> QED
    BY <2>1, <2>2, <2>3, <2>4, <2>5, <2>6, <2>7, Zenon
<1>2. CASE Stop \/ UNCHANGED <<pending, posted, running>>
  <2>1. pending' = pending /\ posted' = posted /\ running' \in BOOLEAN
    BY <1>2 DEF Stop, LoopInv, TypeOK
  <2>2. s \o t \o pending' = [i \in 1 .. posted' |-> i]
    BY <2>1, Zenon DEF LoopInv, ExactlyOnceInOrder
  <2>3. pending' \in Seq(PostNo) /\ posted' \in 0 .. MaxPosts /\ posted <= posted'
    BY <2>1, EventLoopAssumption DEF LoopInv, TypeOK, PostNo
  <2> QED
    BY <2>1, <2>2, <2>3, Zenon
<1> QED
  BY <1>1, <1>2 DEF Calls

(* The queue of posted callbacks survives every step of the loop and of    *)
(* the other threads.                                                      *)
LEMMA LoopStepInv == LoopInv /\ [Next]_vars => LoopInv'
<1> SUFFICES ASSUME LoopInv, [Next]_vars PROVE LoopInv'
  OBVIOUS
<1>. USE EventLoopAssumption DEF LoopInv
<1>1. CASE Start \/ Test \/ Interrupted \/ EpollFails \/ EpollWait
  <2>1. TypeOK'
    <3>1. pc' \in Step /\ running' \in BOOLEAN /\ events' \subseteq Event
      BY <1>1 DEF TypeOK, Start, Test, Interrupted, EpollFails, EpollWait, Step
    <3>2. UNCHANGED <<pending, taken, executed, posted>> /\ mark' \in {mark, posted}
      BY <1>1 DEF Start, Test, Interrupted, EpollFails, EpollWait
    <3>3. mark' \in 0 .. posted'
      BY <3>2 DEF TypeOK
    <3> QED
      BY <3>1, <3>2, <3>3 DEF TypeOK
  <2>2. ExactlyOnceInOrder' /\ CalledUpTo'
    BY <1>1 DEF ExactlyOnceInOrder, CalledUpTo, Start, Test, Interrupted, EpollFails, EpollWait
  <2> QED
    BY <2>1, <2>2
<1>2. CASE Swap
  <2>. USE <1>2 DEF Swap
  <2>1. TypeOK'
    BY EmptySeq DEF TypeOK, Step
  <2>2. taken = <<>> /\ executed \in Seq(PostNo) /\ pending \in Seq(PostNo)
    BY DEF CalledUpTo, TypeOK, PostNo
  <2>3. executed \o taken = executed /\ executed \o pending \in Seq(PostNo)
    BY <2>2, ConcatEmptySeq, ConcatProperties
  <2>4. (executed \o pending) \o <<>> = executed \o pending
    BY <2>3, ConcatEmptySeq
  <2>5. ExactlyOnceInOrder'
    BY <2>3, <2>4 DEF ExactlyOnceInOrder
  <2>6. Len(executed) + Len(pending) = posted
    <3>1. Len(executed \o pending) = Len(executed) + Len(pending)
      BY <2>2, ConcatProperties
    <3>2. Len([i \in 1 .. posted |-> i]) = posted
      BY DEF TypeOK
    <3> QED
      BY <3>1, <3>2, <2>3 DEF ExactlyOnceInOrder
  <2>7. CalledUpTo'
    BY <2>6 DEF CalledUpTo, TypeOK
  <2> QED
    BY <2>1, <2>5, <2>7
<1>3. CASE RunOne
  <2>. USE <1>3 DEF RunOne
  <2> DEFINE ex == Append(executed, Head(taken))
             tk == Tail(taken)
  <2>1. executed \in Seq(PostNo) /\ taken \in Seq(PostNo) /\ taken # <<>>
    BY DEF TypeOK, PostNo
  <2>2. Head(taken) \in PostNo /\ tk \in Seq(PostNo) /\ Len(tk) = Len(taken) - 1
    BY <2>1, HeadTailProperties
  <2>3. ex \in Seq(PostNo) /\ Len(ex) = Len(executed) + 1
    BY <2>1, <2>2, AppendProperties
  <2>4. ex \o tk = executed \o taken
    BY <2>1, MoveHead
  <2> HIDE DEF ex, tk
  <2>5. /\ running' \in BOOLEAN /\ pending' \in Seq(PostNo) /\ posted' \in 0 .. MaxPosts
        /\ posted <= posted'
        /\ ex \o tk \o pending' = [i \in 1 .. posted' |-> i]
    BY <2>2, <2>3, <2>4, CallsExtend
  <2>6. executed' = ex /\ taken' = tk
    BY DEF ex, tk
  <2>7. TypeOK'
    <3>1. taken' \in Seq(PostNo) /\ executed' \in Seq(PostNo)
      BY <2>2, <2>3, <2>6, Zenon
    <3> QED
      BY <2>5, <3>1 DEF TypeOK, PostNo
  <2>8. ExactlyOnceInOrder'
    BY <2>5, <2>6 DEF ExactlyOnceInOrder
  <2>9. CalledUpTo'
    <3>1. Len(executed) \in Nat /\ Len(taken) \in Nat /\ Len(tk) \in Nat
      BY <2>1, <2>2, LenProperties
    <3> QED
      BY <2>2, <2>3, <2>6, <3>1 DEF CalledUpTo, TypeOK
  <2> QED
    BY <2>7, <2>8, <2>9
<1>4. CASE RunDone \/ DispatchTimer \/ DispatchEnd
  <2>1. TypeOK'
    BY <1>4 DEF TypeOK, RunDone, DispatchTimer, DispatchEnd, Step, Event
  <2>2. ExactlyOnceInOrder'
    BY <1>4 DEF ExactlyOnceInOrder, RunDone, DispatchTimer, DispatchEnd
  <2>3. CalledUpTo'
    <3>1. Len(<<>>) = 0 /\ Len(executed) \in Nat /\ mark \in Nat
      BY EmptySeq, LenProperties DEF TypeOK
    <3> QED
      BY <1>4, <3>1 DEF CalledUpTo, RunDone, DispatchTimer, DispatchEnd
  <2> QED
    BY <2>1, <2>2, <2>3
<1>5. ASSUME Calls, UNCHANGED <<pc, taken, executed, mark>>, events' \subseteq events
      PROVE  LoopInv'
  <2>1. executed \in Seq(PostNo) /\ taken \in Seq(PostNo)
    BY DEF TypeOK, PostNo
  <2>2. /\ running' \in BOOLEAN /\ pending' \in Seq(PostNo) /\ posted' \in 0 .. MaxPosts
        /\ posted <= posted'
        /\ executed \o taken \o pending' = [i \in 1 .. posted' |-> i]
    BY <1>5, <2>1, CallsExtend
  <2>3. TypeOK'
    BY <1>5, <2>2 DEF TypeOK, PostNo
  <2>4. ExactlyOnceInOrder' /\ CalledUpTo'
    BY <1>5, <2>2 DEF ExactlyOnceInOrder, CalledUpTo
  <2> QED
    BY <2>3, <2>4
<1>6. ASSUME NEW f \in Fd, DispatchFd(f) PROVE LoopInv'
  BY <1>5, <1>6 DEF DispatchFd
<1>7. CASE Others
  BY <1>5, <1>7 DEF Others, Calls
<1>8. CASE UNCHANGED vars
  BY <1>5, <1>8 DEF vars, Calls
<1> QED
  BY <1>1, <1>2, <1>3, <1>4, <1>6, <1>7, <1>8 DEF Next, Loop, Dispatch

-----------------------------------------------------------------------------
(* ExactlyOnceInOrder of every execution of the loop, whatever other       *)
(* threads, handlers and the callbacks themselves post.                    *)
THEOREM CallbacksExactlyOnce == Spec => []ExactlyOnceInOrder
<1>1. LoopInv => ExactlyOnceInOrder
  BY DEF LoopInv
<1> QED
  BY LoopInit, LoopStepInv, <1>1, PTL DEF Spec

(* Every step of the loop with a timer is one of the loop, or leaves it be. *)
LEMMA TimerStepIsLoopStep == [TimerNext]_allvars => [Next]_vars
  BY TimerAssumption DEF TimerNext, LoopStep, Wait, Caller, HandleTimeout, UseBeforeLoop, Expire,
        Next, Loop, Dispatch, allvars

(* ExactlyOnceInOrder with a timer on the loop, which posts and is used    *)
(* from posted callbacks.                                                  *)
THEOREM TimerKeepsOrder == TimerSpec => []ExactlyOnceInOrder
<1>1. TimerInit => LoopInv
  BY LoopInit DEF TimerInit
<1>2. LoopInv /\ [TimerNext]_allvars => LoopInv'
  BY LoopStepInv, TimerStepIsLoopStep
<1>3. LoopInv => ExactlyOnceInOrder
  BY DEF LoopInv
<1> QED
  BY <1>1, <1>2, <1>3, PTL DEF TimerSpec

(* PostedBeforeEvents: no event is dispatched before the callbacks that    *)
(* were posted when epoll_wait returned it.                                *)
THEOREM PostedRunsFirst == TimerSpec => PostedBeforeEvents
<1>1. TimerInit => LoopInv
  BY LoopInit DEF TimerInit
<1>2. LoopInv /\ [TimerNext]_allvars => LoopInv'
  BY LoopStepInv, TimerStepIsLoopStep
<1>3. LoopInv /\ [TimerNext]_allvars => [Dispatch => Len(executed) >= mark]_vars
  BY DEF LoopInv, CalledUpTo, Dispatch, DispatchTimer, DispatchFd
<1> QED
  BY <1>1, <1>2, <1>3, PTL DEF TimerSpec, PostedBeforeEvents

-----------------------------------------------------------------------------
(* An event of the timer that the loop still holds belongs to a start that *)
(* had not been stopped when epoll_wait returned it, or to a later one     *)
(* that has taken its place.                                               *)
TimerState ==
    [on : BOOLEAN, repeat : BOOLEAN, cb : Nat, armed : BOOLEAN, expired : BOOLEAN,
     starts : Nat, called : SUBSET Nat, stopped : SUBSET Nat, nested : SUBSET Nat]

Good(t) ==
    /\ t.stopped \subseteq 1 .. t.starts
    /\ t.on => t.starts > 0 /\ t.cb = t.starts /\ t.starts \notin t.stopped

TimerInv ==
    /\ timer \in TimerState /\ Good(timer)
    /\ before \subseteq 1 .. timer.starts
    /\ Tfd \in events => timer.cb \notin before
    /\ pc \notin {"swap", "run", "dispatch"} => events = {}

(* What the operations leave of the timer, as far as TimerInv is concerned. *)
Kept(t, u) ==
    /\ u.starts >= t.starts
    /\ u.cb = t.cb \/ u.cb > t.starts

-----------------------------------------------------------------------------
LEMMA UsedKeeps ==
    ASSUME NEW t \in TimerState, NEW u \in Used(t), Good(t)
    PROVE  u \in TimerState /\ Good(u) /\ Kept(t, u)
<1> DEFINE off == StoppedByCaller(t)
<1>1. off \in TimerState /\ Good(off) /\ Kept(t, off) /\ off.starts = t.starts
  <2>1. CASE t.on
    <3>1. off = [Halted(t) EXCEPT !.stopped = @ \cup {t.starts}]
      BY <2>1 DEF StoppedByCaller
    <3>2. off \in TimerState /\ off.starts = t.starts /\ off.on = FALSE /\ off.cb = t.cb
      <4>1. t.stopped \cup {t.starts} \in SUBSET Nat
        BY DEF TimerState
      <4> DEFINE st == t.stopped \cup {t.starts}
      <4>2. off = [Halted(t) EXCEPT !.stopped = st]
        BY <3>1 DEF Halted, TimerState
      <4> HIDE DEF st, off
      <4>3. Halted(t) \in TimerState /\ Halted(t).starts = t.starts
            /\ Halted(t).on = FALSE /\ Halted(t).cb = t.cb
        BY DEF Halted, TimerState
      <4> QED
        BY <4>1, <4>2, <4>3 DEF TimerState, st
    <3>3. off.stopped = t.stopped \cup {t.starts}
      BY <3>1 DEF Halted, TimerState
    <3> HIDE DEF off
    <3>4. off.stopped \subseteq 1 .. off.starts
      BY <2>1, <3>2, <3>3 DEF Good, TimerState
    <3> QED
      BY <3>2, <3>4 DEF Good, Kept, TimerState
  <2>2. CASE ~t.on
    BY <2>2 DEF StoppedByCaller, Kept, TimerState
  <2> QED
    BY <2>1, <2>2
<1> HIDE DEF off
<1>2. ASSUME NEW r \in BOOLEAN
      PROVE  LET v == Started(off, r) IN v \in TimerState /\ Good(v) /\ Kept(t, v)
  <2> DEFINE v == Started(off, r)
  <2>1. /\ v \in TimerState /\ v.on = TRUE /\ v.starts = off.starts + 1
        /\ v.cb = v.starts /\ v.stopped = off.stopped
    <3>1. off.starts + 1 \in Nat /\ off \in TimerState
      BY <1>1 DEF TimerState
    <3> QED
      BY <3>1 DEF Started, TimerState
  <2> HIDE DEF v
  <2>2. off.starts \in Nat /\ off.starts = t.starts /\ off.stopped \subseteq 1 .. off.starts
    BY <1>1 DEF TimerState, Good
  <2>3. v.stopped \subseteq 1 .. v.starts /\ v.starts \notin v.stopped
    BY <2>1, <2>2
  <2>4. Good(v) /\ Kept(t, v)
    BY <2>1, <2>2, <2>3 DEF Good, Kept
  <2> QED
    BY <2>1, <2>4 DEF v
<1>3. Kept(t, t)
  BY DEF Kept, TimerState
<1>4. u \in {t, off} \/ \E r \in BOOLEAN : u = Started(off, r)
  BY DEF Used, off
<1> QED
  BY <1>1, <1>2, <1>3, <1>4, Zenon

LEMMA HandledKeeps ==
    ASSUME NEW t \in TimerState, NEW u \in Handled(t), Good(t)
    PROVE  u \in TimerState /\ Good(u) /\ Kept(t, u)
<1> DEFINE called == [t EXCEPT !.expired = FALSE, !.called = @ \cup {t.cb}]
           fresh(v) == (t.starts + 1) .. v.starts
<1>1. called \in TimerState /\ Good(called) /\ called.cb = t.cb /\ called.starts = t.starts
  BY DEF TimerState, Good
<1> HIDE DEF called
<1>2. PICK v \in Used(called) :
          u = IF v.repeat THEN v ELSE [Halted(v) EXCEPT !.nested = @ \cup fresh(v)]
  BY DEF Handled, called
<1>3. v \in TimerState /\ Good(v) /\ Kept(called, v)
  BY <1>1, UsedKeeps
<1>4. CASE v.repeat
  BY <1>1, <1>2, <1>3, <1>4 DEF Kept
<1>5. CASE ~v.repeat
  <2>1. fresh(v) \subseteq Nat
    BY <1>3 DEF TimerState
  <2> HIDE DEF fresh
  <2> QED
    BY <1>1, <1>2, <1>3, <1>5, <2>1 DEF Kept, Halted, TimerState, Good
<1> QED
  BY <1>4, <1>5

LEMMA TimerInitInv == TimerInit => TimerInv
  BY DEF TimerInit, TimerInv, TimerState, Good, Init

(* The steps of the loop but Wait take events away, or none. *)
LEMMA TimerStepInv == TimerInv /\ [TimerNext]_allvars => TimerInv'
<1> SUFFICES ASSUME TimerInv, [TimerNext]_allvars PROVE TimerInv'
  OBVIOUS
<1>1. ASSUME timer' \in TimerState, Good(timer'), Kept(timer, timer'),
             UNCHANGED before, events' \subseteq events,
             pc' \notin {"swap", "run", "dispatch"} => events' = {}
      PROVE  TimerInv'
  <2>1. timer.starts \in Nat /\ timer'.starts \in Nat /\ timer'.starts >= timer.starts
    BY <1>1 DEF TimerInv, TimerState, Kept
  <2>2. before' \subseteq 1 .. timer'.starts
    BY <1>1, <2>1 DEF TimerInv
  <2>3. timer'.cb = timer.cb \/ timer'.cb \notin before'
    <3>1. timer'.cb = timer.cb \/ timer'.cb > timer.starts
      BY <1>1, Zenon DEF Kept
    <3>2. \A n \in before' : n <= timer.starts
      BY <1>1, <2>1 DEF TimerInv
    <3>3. timer'.cb \in Nat
      BY <1>1 DEF TimerState
    <3> QED
      BY <2>1, <3>1, <3>2, <3>3
  <2> QED
    BY <1>1, <2>2, <2>3 DEF TimerInv
<1>2. timer' = timer => timer' \in TimerState /\ Good(timer') /\ Kept(timer, timer')
  BY DEF TimerInv, TimerState, Kept
<1>3. timer' \in Used(timer) => timer' \in TimerState /\ Good(timer') /\ Kept(timer, timer')
  BY UsedKeeps DEF TimerInv
<1>4. CASE Wait
  <2>1. /\ timer' = timer /\ before' = timer.stopped /\ pc' = "swap"
        /\ Tfd \in events' => timer.on
    BY <1>4 DEF Wait, EpollWait
  <2> QED
    BY <2>1 DEF TimerInv, Good
<1>5. CASE Caller
  <2>1. events' \subseteq events /\ pc' = pc /\ timer' \in Used(timer) /\ UNCHANGED before
    BY <1>5 DEF Caller, RunOne, DispatchFd
  <2> QED
    BY <1>1, <1>3, <2>1 DEF TimerInv
<1>6. CASE HandleTimeout
  <2>1. events' \subseteq events /\ pc' = pc /\ timer' \in Handled(timer) /\ UNCHANGED before
    BY <1>6 DEF HandleTimeout, DispatchFd
  <2>2. timer' \in TimerState /\ Good(timer') /\ Kept(timer, timer')
    BY <2>1, HandledKeeps DEF TimerInv
  <2> QED
    BY <1>1, <2>1, <2>2 DEF TimerInv
<1>7. CASE /\ Start \/ Test \/ Swap \/ RunDone \/ DispatchTimer \/ DispatchEnd
           /\ UNCHANGED <<timer, before>>
  <2>1. /\ events' \subseteq events /\ timer' = timer /\ UNCHANGED before
        /\ pc' \notin {"swap", "run", "dispatch"} => events' = {}
    BY <1>7 DEF Start, Test, Swap, RunDone, DispatchTimer, DispatchEnd, TimerInv
  <2> QED
    BY <1>1, <1>2, <2>1
<1>8. CASE UseBeforeLoop
  BY <1>1, <1>3, <1>8 DEF UseBeforeLoop, vars, TimerInv
<1>9. CASE Expire
  <2>1. timer' \in TimerState /\ Good(timer') /\ Kept(timer, timer')
    <3>1. /\ timer \in TimerState /\ Good(timer)
          /\ timer' = [timer EXCEPT !.expired = TRUE, !.armed = timer.repeat]
      BY <1>9 DEF Expire, TimerInv
    <3>2. timer' \in TimerState
      BY <3>1 DEF TimerState
    <3>3. /\ timer'.on = timer.on /\ timer'.starts = timer.starts
          /\ timer'.cb = timer.cb /\ timer'.stopped = timer.stopped
      BY <3>1 DEF TimerState
    <3> QED
      BY <3>1, <3>2, <3>3 DEF Good, Kept, TimerState
  <2> QED
    BY <1>1, <1>9, <2>1 DEF Expire, vars, TimerInv
<1>10. CASE (Interrupted \/ EpollFails \/ Others) /\ UNCHANGED <<timer, before>>
  BY <1>1, <1>2, <1>10 DEF Interrupted, EpollFails, Others, TimerInv
<1>11. CASE UNCHANGED allvars
  BY <1>1, <1>2, <1>11 DEF allvars, vars, TimerInv
<1> QED
  BY <1>4, <1>5, <1>6, <1>7, <1>8, <1>9, <1>10, <1>11 DEF TimerNext, LoopStep

(* StopSilences of every execution: an event that is still in the batch    *)
(* when its timer is stopped is the last one, whoever stops the timer,     *)
(* from where, and whether it is started again meanwhile.                  *)
THEOREM StoppedTimersAreSilent == TimerSpec => StopSilences
<1>1. TimerInv /\ [TimerNext]_allvars => [HandleTimeout => timer.cb \notin before]_allvars
  BY DEF TimerInv, HandleTimeout, DispatchFd
<1> QED
  BY TimerInitInv, TimerStepInv, <1>1, PTL DEF TimerSpec, StopSilences
=============================================================================
