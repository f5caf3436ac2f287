--------------------------- MODULE ThreadPoolProofs ---------------------------
(***************************************************************************)
(* Proofs about ThreadPool for any number of workers, callers and tasks.   *)
(*                                                                         *)
(* Inv is the inductive invariant.  LifeCycle ties the phase of the pool   *)
(* object to stop_ and to where workers can be; Ownership says that a      *)
(* task is in one place at a time.                                         *)
(*                                                                         *)
(* The last part is about the pool in use, in ImageHosting.  Nothing       *)
(* before it uses ImageHostingAssumption.                                  *)
(***************************************************************************)
EXTENDS ImageHosting, FiniteSetTheorems, SequenceTheorems, TLAPS

LifeCycle ==
    /\ stop <=> phase \in {"notify", "join", "gone"}
    /\ phase = "constructing" =>
          tasks = <<>> /\ \A w \in Worker : wpc[w] # "running"
    /\ ~stop => \A w \in Worker : wpc[w] # "exited"
    /\ phase = "alive" => \A w \in Worker : wpc[w] # "unborn"
    /\ phase = "gone" => \A w \in Worker : wpc[w] \in {"unborn", "exited"}
    /\ \A w \in Worker \cap notifying : wpc[w] = "running"

Ownership ==
    /\ \A i, j \in 1 .. Len(tasks) : tasks[i] = tasks[j] => i = j
    /\ \A w \in Worker : wpc[w] = "running" =>
          /\ wtask[w] \in Task
          /\ \A i \in 1 .. Len(tasks) : tasks[i] # wtask[w]
          /\ \A v \in Worker : wpc[v] = "running" /\ wtask[v] = wtask[w] => v = w

Inv == TypeOK /\ LifeCycle /\ Ownership /\ DrainedWhenGone /\ NobodySleepsAtJoin

-----------------------------------------------------------------------------
LEMMA InitInv == Init => Inv
<1> SUFFICES ASSUME Init PROVE Inv
  OBVIOUS
<1>. USE ThreadPoolAssumption DEF Init
<1>1. TypeOK
  BY EmptySeq DEF TypeOK
<1>2. LifeCycle /\ NobodySleepsAtJoin
  BY DEF LifeCycle, NobodySleepsAtJoin
<1>3. Ownership
  BY DEF Ownership
<1>4. DrainedWhenGone
  BY DEF DrainedWhenGone
<1>5. QED
  BY <1>1, <1>2, <1>3, <1>4 DEF Inv

(* The type of the state is kept by every step. *)
LEMMA TypeStep == Inv /\ [Next]_vars => TypeOK'
<1> SUFFICES ASSUME Inv, [Next]_vars PROVE TypeOK'
  OBVIOUS
<1>. USE ThreadPoolAssumption DEF Inv, TypeOK, Thread
<1>1. ASSUME NEW w \in Worker, Spawn(w) PROVE TypeOK'
  BY <1>1 DEF Spawn
<1>2. ASSUME NEW w \in Worker, Spurious(w) \/ Wait(w) \/ Exit(w) PROVE TypeOK'
  BY <1>2 DEF Spurious, Wait, Exit
<1>3. ASSUME NEW w \in Worker, Take(w) PROVE TypeOK'
  <2>1. Head(tasks) \in Task /\ Tail(tasks) \in Seq(Task)
    BY <1>3, HeadTailProperties DEF Take
  <2>2. QED
    BY <1>3, <2>1 DEF Take
<1>4. ASSUME NEW w \in Worker, Done(w) PROVE TypeOK'
  BY <1>4 DEF Done, Ownership
<1>5. ASSUME NEW p \in Thread, NEW t \in Task, Enqueue(p, t) PROVE TypeOK'
  BY <1>5 DEF Enqueue
<1>6. ASSUME NEW p \in Thread, NEW t \in Task, EnqueueThrows(p, t) PROVE TypeOK'
  BY <1>6 DEF EnqueueThrows
<1>7. ASSUME NEW p \in Thread, Notify(p) PROVE TypeOK'
  BY <1>7 DEF Notify, At
<1>8. CASE SpawnFails \/ Destroy
  BY <1>8 DEF SpawnFails, Destroy
<1>9. CASE NotifyAll \/ Joined
  BY <1>9 DEF NotifyAll, Joined
<1>10. CASE UNCHANGED vars
  BY <1>10 DEF vars
<1>11. QED
  BY <1>1, <1>2, <1>3, <1>4, <1>5, <1>6, <1>7, <1>8, <1>9, <1>10 DEF Next

(* The life of the object: LifeCycle, and what the destructor leaves. *)
LEMMA LifeStep ==
    Inv /\ [Next]_vars => LifeCycle' /\ DrainedWhenGone' /\ NobodySleepsAtJoin'
<1> DEFINE Goal == LifeCycle /\ DrainedWhenGone /\ NobodySleepsAtJoin
<1> SUFFICES ASSUME Inv, [Next]_vars PROVE Goal'
  OBVIOUS
<1>. USE ThreadPoolAssumption
     DEF Inv, TypeOK, Thread, LifeCycle, DrainedWhenGone, NobodySleepsAtJoin, At, Running
<1>1. ASSUME NEW w \in Worker, Spawn(w) PROVE Goal'
  BY <1>1 DEF Spawn
<1>2. ASSUME NEW w \in Worker, Spurious(w) \/ Wait(w) \/ Exit(w) PROVE Goal'
  BY <1>2 DEF Spurious, Wait, Exit
<1>3. ASSUME NEW w \in Worker, Take(w) PROVE Goal'
  BY <1>3 DEF Take
<1>4. ASSUME NEW w \in Worker, Done(w) PROVE Goal'
  BY <1>4 DEF Done
<1>5. ASSUME NEW p \in Thread, NEW t \in Task, Enqueue(p, t) PROVE Goal'
  BY <1>5 DEF Enqueue, MayEnqueue
<1>6. ASSUME NEW p \in Thread, NEW t \in Task, EnqueueThrows(p, t) PROVE Goal'
  BY <1>6 DEF EnqueueThrows
<1>7. ASSUME NEW p \in Thread, Notify(p) PROVE Goal'
  BY <1>7 DEF Notify
<1>8. CASE SpawnFails \/ Destroy
  BY <1>8 DEF SpawnFails, Destroy
<1>9. CASE NotifyAll \/ Joined
  BY <1>9 DEF NotifyAll, Joined
<1>10. CASE UNCHANGED vars
  BY <1>10 DEF vars
<1>11. QED
  BY <1>1, <1>2, <1>3, <1>4, <1>5, <1>6, <1>7, <1>8, <1>9, <1>10 DEF Next

(* A task is in the queue once, or with one worker. *)
LEMMA OwnershipStep == Inv /\ [Next]_vars => Ownership'
<1> SUFFICES ASSUME Inv, [Next]_vars PROVE Ownership'
  OBVIOUS
<1>. USE ThreadPoolAssumption DEF Inv, TypeOK, Thread, Ownership, At
<1>1. ASSUME NEW w \in Worker, Spawn(w) PROVE Ownership'
  BY <1>1 DEF Spawn
<1>2. ASSUME NEW w \in Worker, Spurious(w) \/ Wait(w) \/ Exit(w) PROVE Ownership'
  BY <1>2 DEF Spurious, Wait, Exit
<1>3. ASSUME NEW w \in Worker, Take(w) PROVE Ownership'
  <2>1. /\ Head(tasks) \in Task /\ Tail(tasks) \in Seq(Task)
        /\ Len(Tail(tasks)) = Len(tasks) - 1
        /\ \A i \in 1 .. Len(Tail(tasks)) : Tail(tasks)[i] = tasks[i + 1]
        /\ Head(tasks) = tasks[1]
        /\ Len(tasks) \in Nat \ {0}
    BY <1>3, HeadTailProperties, EmptySeq DEF Take
  <2>2. \A i \in 1 .. Len(tasks)' : i + 1 \in 1 .. Len(tasks) /\ tasks'[i] = tasks[i + 1]
    BY <1>3, <2>1 DEF Take
  <2>3. \A i, j \in 1 .. Len(tasks)' : tasks'[i] = tasks'[j] => i = j
    BY <2>2, <2>1
  <2>4. \A i \in 1 .. Len(tasks)' : tasks'[i] # tasks[1]
    BY <2>1, <2>2
  <2>5. wtask' = [wtask EXCEPT ![w] = tasks[1]] /\ wpc' = [wpc EXCEPT ![w] = "running"]
    BY <1>3, <2>1 DEF Take
  <2>6. ASSUME NEW v \in Worker, wpc'[v] = "running"
        PROVE  /\ wtask'[v] \in Task
               /\ \A i \in 1 .. Len(tasks)' : tasks'[i] # wtask'[v]
               /\ \A u \in Worker : wpc'[u] = "running" /\ wtask'[u] = wtask'[v] => u = v
    BY <2>1, <2>2, <2>4, <2>5, <2>6
  <2>7. QED
    BY <2>3, <2>6
<1>4. ASSUME NEW w \in Worker, Done(w) PROVE Ownership'
  BY <1>4 DEF Done
<1>5. ASSUME NEW p \in Thread, NEW t \in Task, Enqueue(p, t) PROVE Ownership'
  <2>1. /\ \A i \in 1 .. Len(tasks) : tasks[i] # t
        /\ \A w \in Worker : wpc[w] = "running" => wtask[w] # t
    BY <1>5 DEF Enqueue, Fresh, Elems, Running
  <2>2. /\ Len(tasks') = Len(tasks) + 1 /\ Len(tasks) \in Nat
        /\ \A i \in 1 .. Len(tasks') : tasks'[i] = IF i = Len(tasks) + 1 THEN t ELSE tasks[i]
    BY <1>5 DEF Enqueue
  <2>3. QED
    BY <1>5, <2>1, <2>2 DEF Enqueue
<1>6. ASSUME NEW p \in Thread, NEW t \in Task, EnqueueThrows(p, t) PROVE Ownership'
  BY <1>6 DEF EnqueueThrows
<1>7. ASSUME NEW p \in Thread, Notify(p) PROVE Ownership'
  BY <1>7 DEF Notify
<1>8. CASE SpawnFails \/ Destroy
  BY <1>8 DEF SpawnFails, Destroy
<1>9. CASE NotifyAll \/ Joined
  BY <1>9 DEF NotifyAll, Joined
<1>10. CASE UNCHANGED vars
  BY <1>10 DEF vars
<1>11. QED
  BY <1>1, <1>2, <1>3, <1>4, <1>5, <1>6, <1>7, <1>8, <1>9, <1>10 DEF Next

LEMMA Invariance == Spec => []Inv
<1>1. Inv /\ [Next]_vars => Inv'
  BY TypeStep, LifeStep, OwnershipStep DEF Inv
<1>2. QED
  BY InitInv, <1>1, PTL DEF Spec

(* Type correctness of the pool's state. *)
THEOREM TypeCorrect == Spec => []TypeOK
<1>1. Inv => TypeOK
  BY DEF Inv
<1>2. QED
  BY Invariance, <1>1, PTL

(* Destroying the pool runs every accepted task first, whatever tasks       *)
(* enqueue meanwhile and wherever construction failed.                      *)
THEOREM DestructionDrains == Spec => [](DrainedWhenGone /\ NobodySleepsAtJoin)
<1>1. Inv => DrainedWhenGone /\ NobodySleepsAtJoin
  BY DEF Inv
<1>2. QED
  BY Invariance, <1>1, PTL

-----------------------------------------------------------------------------
(* Counting the threads on their way to a task. *)
LEMMA Counts ==
    ASSUME TypeOK
    PROVE  /\ \A st : IsFiniteSet(At(st)) /\ Cardinality(At(st)) \in Nat
           /\ IsFiniteSet(notifying) /\ Cardinality(notifying) \in Nat
           /\ Len(tasks) \in Nat
<1>1. ASSUME NEW st PROVE IsFiniteSet(At(st)) /\ Cardinality(At(st)) \in Nat
  <2>1. At(st) \in SUBSET Worker
    BY DEF At
  <2>2. QED
    BY <2>1, ThreadPoolAssumption, FS_Subset, FS_CardinalityType
<1>2. IsFiniteSet(Thread)
  BY ThreadPoolAssumption, FS_Union DEF Thread
<1>3. IsFiniteSet(notifying) /\ Cardinality(notifying) \in Nat
  <2>1. notifying \in SUBSET Thread
    BY DEF TypeOK
  <2>2. QED
    BY <2>1, <1>2, FS_Subset, FS_CardinalityType
<1>4. QED
  BY <1>1, <1>3, LenProperties DEF TypeOK

(* A worker that becomes ready for the mutex is one more of them. *)
LEMMA OneMoreReady ==
    ASSUME TypeOK, NEW w \in Worker, wpc[w] # "lock",
           wpc' = [wpc EXCEPT ![w] = "lock"]
    PROVE  /\ At("lock")' = At("lock") \cup {w}
           /\ Cardinality(At("lock")') = Cardinality(At("lock")) + 1
           /\ At("waiting")' \subseteq At("waiting")
<1>1. /\ At("lock")' = At("lock") \cup {w}
      /\ At("waiting")' \subseteq At("waiting")
      /\ w \notin At("lock")
  BY DEF At, TypeOK
<1>2. Cardinality(At("lock") \cup {w}) = Cardinality(At("lock")) + 1
  BY <1>1, Counts, FS_AddElement
<1>3. QED
  BY <1>1, <1>2

(* The condition variable loses no wakeup: no worker sleeps while there    *)
(* are more tasks than threads about to take one, although enqueue         *)
(* notifies after it has released the mutex.                               *)
THEOREM NoWakeupLost == Spec => []NoLostWakeup
<1>1. Init => NoLostWakeup
  BY DEF Init, NoLostWakeup, At
<1>2. TypeOK /\ TypeOK' /\ NoLostWakeup /\ [Next]_vars => NoLostWakeup'
  <2> SUFFICES ASSUME TypeOK, TypeOK', NoLostWakeup, [Next]_vars, At("waiting")' # {}
               PROVE  Len(tasks') <= Cardinality(At("lock")') + Cardinality(notifying')
    BY DEF NoLostWakeup
  <2> DEFINE Goal == Len(tasks') <= Cardinality(At("lock")') + Cardinality(notifying')
  <2>0. /\ Cardinality(At("lock")) \in Nat /\ Cardinality(notifying) \in Nat
        /\ Cardinality(At("lock")') \in Nat /\ Cardinality(notifying') \in Nat
        /\ Len(tasks) \in Nat
    <3>1. Cardinality(At("lock")) \in Nat /\ Cardinality(notifying) \in Nat /\ Len(tasks) \in Nat
      BY Counts
    <3>2. At("lock")' \in SUBSET Worker /\ notifying' \in SUBSET Thread
      BY DEF At, TypeOK
    <3>3. IsFiniteSet(Worker) /\ IsFiniteSet(Thread)
      BY ThreadPoolAssumption, FS_Union DEF Thread
    <3>4. QED
      BY <3>1, <3>2, <3>3, FS_Subset, FS_CardinalityType
  <2>1. ASSUME NEW w \in Worker, Spawn(w) \/ Spurious(w) \/ Done(w) PROVE Goal
    <3>1. wpc[w] # "lock" /\ wpc' = [wpc EXCEPT ![w] = "lock"]
      BY <2>1 DEF Spawn, Spurious, Done
    <3>2. tasks' = tasks /\ notifying' = notifying
      BY <2>1 DEF Spawn, Spurious, Done
    <3>3. Cardinality(At("lock")') = Cardinality(At("lock")) + 1
      BY <3>1, OneMoreReady
    <3>4. At("waiting") # {}
      BY <3>1, OneMoreReady
    <3>5. Len(tasks) <= Cardinality(At("lock")) + Cardinality(notifying)
      BY <3>4 DEF NoLostWakeup
    <3>6. QED
      BY <2>0, <3>2, <3>3, <3>5
  <2>2. ASSUME NEW w \in Worker, Wait(w) \/ Exit(w) PROVE Goal
    <3>1. tasks' = <<>>
      BY <2>2 DEF Wait, Exit
    <3>2. QED
      BY <3>1, <2>0
  <2>3. ASSUME NEW w \in Worker, Take(w) PROVE Goal
    <3>1. /\ At("lock")' = At("lock") \ {w} /\ w \in At("lock")
          /\ At("waiting")' = At("waiting")
      BY <2>3 DEF Take, At, TypeOK
    <3>2. Cardinality(At("lock")') = Cardinality(At("lock")) - 1
      BY <3>1, Counts, FS_RemoveElement
    <3>3. Len(tasks') = Len(tasks) - 1 /\ notifying' = notifying
      BY <2>3, HeadTailProperties DEF Take, TypeOK
    <3>4. Len(tasks) <= Cardinality(At("lock")) + Cardinality(notifying)
      BY <3>1 DEF NoLostWakeup
    <3>5. QED
      BY <2>0, <3>2, <3>3, <3>4
  <2>4. ASSUME NEW p \in Thread, NEW t \in Task, Enqueue(p, t) PROVE Goal
    <3>1. Cardinality(notifying \cup {p}) = Cardinality(notifying) + 1
      BY <2>4, Counts, FS_AddElement DEF Enqueue, MayEnqueue
    <3>2. At("lock")' = At("lock") /\ At("waiting")' = At("waiting")
      BY <2>4 DEF Enqueue, At
    <3>3. Len(tasks') = Len(tasks) + 1 /\ notifying' = notifying \cup {p}
      BY <2>4 DEF Enqueue, TypeOK
    <3>4. QED
      BY <2>0, <3>1, <3>2, <3>3 DEF NoLostWakeup
  <2>5. ASSUME NEW p \in Thread, NEW t \in Task, EnqueueThrows(p, t) PROVE Goal
    BY <2>5 DEF EnqueueThrows, NoLostWakeup, At
  <2>6. ASSUME NEW p \in Thread, Notify(p) PROVE Goal
    <3>1. At("waiting") # {}
      BY <2>6 DEF Notify, At
    <3>2. PICK w \in At("waiting") : wpc' = [wpc EXCEPT ![w] = "lock"]
      BY <2>6, <3>1 DEF Notify
    <3>3. w \in Worker /\ wpc[w] # "lock"
      BY <3>2 DEF At
    <3>4. Cardinality(notifying \ {p}) = Cardinality(notifying) - 1
      BY <2>6, Counts, FS_RemoveElement DEF Notify
    <3>5. notifying' = notifying \ {p} /\ tasks' = tasks
      BY <2>6 DEF Notify
    <3>6. Cardinality(At("lock")') = Cardinality(At("lock")) + 1
      BY <3>2, <3>3, OneMoreReady
    <3>7. QED
      BY <2>0, <3>1, <3>4, <3>5, <3>6 DEF NoLostWakeup
  <2>7. CASE NotifyAll
    BY <2>7 DEF NotifyAll, At, TypeOK
  <2>8. CASE SpawnFails \/ Destroy \/ Joined \/ UNCHANGED vars
    BY <2>8 DEF SpawnFails, Destroy, Joined, vars, NoLostWakeup, At
  <2>9. QED
    BY <2>1, <2>2, <2>3, <2>4, <2>5, <2>6, <2>7, <2>8 DEF Next
<1>3. QED
  BY TypeCorrect, <1>1, <1>2, PTL DEF Spec

-----------------------------------------------------------------------------
(* A worker that is not running before and after a step leaves Running as  *)
(* it is, if the others keep their tasks.                                  *)
LEMMA RunningSame ==
    ASSUME \A w \in Worker :
              /\ wpc'[w] = "running" <=> wpc[w] = "running"
              /\ wpc[w] = "running" => wtask'[w] = wtask[w]
    PROVE  Running' = Running
BY DEF Running, At

(* The pool implements the work queue: accepted tasks are started once and *)
(* in order, none is forgotten, and the pool is gone only when all have    *)
(* run.  Each step of the pool is a step of the queue or leaves it alone.  *)
THEOREM ImplementsWorkQueue == Spec => IsWorkQueue
<1>1. Init => Q!Init
  BY DEF Init, Q!Init, Running, At
<1>2. Inv /\ [Next]_vars => [Q!Next]_(Q!wvars)
  <2> SUFFICES ASSUME Inv, [Next]_vars
               PROVE  [Q!Next]_(Q!wvars)
    OBVIOUS
  <2>. USE DEF Inv, TypeOK
  <2>1. ASSUME NEW w \in Worker, Spawn(w) \/ Spurious(w) \/ Wait(w) \/ Exit(w)
        PROVE  UNCHANGED Q!wvars
    <3>1. Running' = Running
      <4>1. wpc[w] # "running" /\ wpc'[w] # "running" /\ wtask' = wtask
        BY <2>1 DEF Spawn, Spurious, Wait, Exit
      <4>2. \A v \in Worker : v # w => wpc'[v] = wpc[v]
        BY <2>1 DEF Spawn, Spurious, Wait, Exit
      <4>3. QED
        BY <4>1, <4>2, RunningSame
    <3>2. (phase' = "gone") = (phase = "gone")
      BY <2>1 DEF Spawn, Spurious, Wait, Exit
    <3>3. tasks' = tasks /\ finished' = finished /\ refused' = refused
      BY <2>1 DEF Spawn, Spurious, Wait, Exit
    <3>4. QED
      BY <3>1, <3>2, <3>3 DEF Q!wvars
  <2>2. ASSUME NEW w \in Worker, Take(w)
        PROVE  Q!Start
    <3>1. /\ wpc' = [wpc EXCEPT ![w] = "running"]
          /\ wtask' = [wtask EXCEPT ![w] = Head(tasks)]
          /\ wpc[w] # "running"
      BY <2>2 DEF Take
    <3>2. Running' = Running \cup {Head(tasks)}
      BY <3>1 DEF Running, At
    <3>3. QED
      BY <2>2, <3>2 DEF Take, Q!Start
  <2>3. ASSUME NEW w \in Worker, Done(w)
        PROVE  Q!Finish(wtask[w]) /\ wtask[w] \in Task
    <3>1. /\ wpc' = [wpc EXCEPT ![w] = "lock"]
          /\ wtask' = [wtask EXCEPT ![w] = None]
          /\ wpc[w] = "running"
      BY <2>3 DEF Done
    <3>2. \A v \in Worker : v # w /\ wpc[v] = "running" => wtask[v] # wtask[w]
      BY <3>1 DEF Ownership
    <3>3. wtask[w] \in Running /\ wtask[w] \in Task
      BY <3>1 DEF Running, At, Ownership
    <3>4. Running' = Running \ {wtask[w]}
      BY <3>1, <3>2 DEF Running, At
    <3>5. QED
      BY <2>3, <3>3, <3>4 DEF Done, Q!Finish
  <2>4. ASSUME NEW p \in Thread, NEW t \in Task, Enqueue(p, t)
        PROVE  Q!Accept(t)
    <3>1. Running' = Running
      BY <2>4, RunningSame DEF Enqueue
    <3>2. phase # "gone"
      BY <2>4 DEF Enqueue, MayEnqueue, At, LifeCycle
    <3>3. QED
      BY <2>4, <3>1, <3>2 DEF Enqueue, Q!Accept, Fresh, Q!Fresh, Elems
  <2>5. ASSUME NEW p \in Thread, NEW t \in Task, EnqueueThrows(p, t)
        PROVE  Q!Refuse(t)
    <3>1. Running' = Running
      BY <2>5, RunningSame DEF EnqueueThrows
    <3>2. phase # "gone"
      BY <2>5 DEF EnqueueThrows, MayEnqueue, At, LifeCycle
    <3>3. QED
      BY <2>5, <3>1, <3>2 DEF EnqueueThrows, Q!Refuse, Fresh, Q!Fresh, Elems
  <2>6. ASSUME NEW p \in Thread, Notify(p)
        PROVE  UNCHANGED Q!wvars
    <3>1. Running' = Running
      BY <2>6, RunningSame DEF Notify, At
    <3>2. QED
      BY <2>6, <3>1 DEF Notify, Q!wvars
  <2>7. CASE SpawnFails \/ Destroy
    <3>1. Running' = Running
      BY <2>7, RunningSame DEF SpawnFails, Destroy
    <3>2. phase # "gone" /\ phase' # "gone"
      BY <2>7 DEF SpawnFails, Destroy
    <3>3. UNCHANGED Q!wvars
      BY <2>7, <3>1, <3>2 DEF SpawnFails, Destroy, Q!wvars
    <3>4. QED
      BY <3>3
  <2>8. CASE NotifyAll
    <3>1. Running' = Running
      BY <2>8, RunningSame DEF NotifyAll
    <3>2. UNCHANGED Q!wvars
      BY <2>8, <3>1 DEF NotifyAll, Q!wvars
    <3>3. QED
      BY <3>2
  <2>9. CASE Joined
    <3>1. Running' = Running
      BY <2>9, RunningSame DEF Joined
    <3>2. Running = {} /\ stop
      BY <2>9 DEF Joined, Running, At, LifeCycle
    <3>3. tasks = <<>>
      BY <2>9, <3>2 DEF Joined, DrainedWhenGone
    <3>4. Q!Destroy
      BY <2>9, <3>1, <3>2, <3>3 DEF Joined, Q!Destroy
    <3>5. QED
      BY <3>4 DEF Q!Next
  <2>10. CASE UNCHANGED vars
    <3>1. Running' = Running
      BY <2>10, RunningSame DEF vars
    <3>2. QED
      BY <2>10, <3>1 DEF vars, Q!wvars
  <2>11. QED
    BY <2>1, <2>2, <2>3, <2>4, <2>5, <2>6, <2>7, <2>8, <2>9, <2>10 DEF Next, Q!Next
<1>3. QED
  BY Invariance, <1>1, <1>2, PTL DEF Spec, IsWorkQueue, Q!Spec

-----------------------------------------------------------------------------
(* The image host drives its pool as the pool's contract allows.           *)
LEMMA UploadsAreEnqueues == [UploadNext]_allvars => [Next]_vars
<1> SUFFICES ASSUME [UploadNext]_allvars PROVE [Next]_vars
  OBVIOUS
<1>1. Server \in Thread
  BY ImageHostingAssumption DEF Thread
<1>2. ASSUME NEW i \in Task, Upload(i) \/ Find(i) PROVE [Next]_vars
  BY <1>1, <1>2 DEF Upload, Find, Next
<1>3. ASSUME NEW w \in Worker, WorkerStep(w) PROVE [Next]_vars
  BY <1>3 DEF WorkerStep, Open, Write, Close, Next
<1>4. CASE Shutdown
  BY <1>4 DEF Shutdown, Next
<1>5. CASE PoolStep
  BY <1>1, <1>5 DEF PoolStep, Next
<1>6. CASE Serve \/ UNCHANGED allvars
  BY <1>6 DEF Serve, allvars
<1>7. QED
  BY <1>2, <1>3, <1>4, <1>5, <1>6 DEF UploadNext

(* Whatever is proved of the pool holds of the one that stores images.     *)
THEOREM HostRunsAPool == UploadSpec => Spec
<1>1. UploadInit => Init
  BY DEF UploadInit
<1>2. QED
  BY <1>1, UploadsAreEnqueues, PTL DEF UploadSpec, Spec

(* A file that is not whole is open in a worker, or has been given up; a   *)
(* worker has a file open only while it runs a task.                       *)
Files ==
    /\ disk \in [Task -> -1 .. Units]
    /\ writer \in [Worker -> {"open", "closed"}]
    /\ \A w \in Worker : writer[w] = "open" => wpc[w] = "running"
    /\ \A i \in Task : disk[i] \in 0 .. Units - 1 =>
          \/ i \in failed
          \/ \E w \in Worker : writer[w] = "open" /\ wtask[w] = i
    /\ looked # None => looked \in Task /\ disk[looked] >= 0

(* A step of the pool that is none of a task's own keeps the files in      *)
(* order, since the workers that run tasks go on running them.             *)
LEMMA FilesFrame ==
    ASSUME Files, UNCHANGED fvars,
           \A w \in Worker : wpc[w] = "running" =>
              wpc'[w] = "running" /\ wtask'[w] = wtask[w]
    PROVE  Files'
BY DEF Files, fvars

(* No step leaves a half-written file without a writer.                    *)
LEMMA FilesStep == Inv /\ Files /\ [UploadNext]_allvars => Files'
<1> SUFFICES ASSUME Inv, Files, [UploadNext]_allvars PROVE Files'
  OBVIOUS
<1>. USE ImageHostingAssumption DEF Inv, TypeOK
<1>1. ASSUME NEW i \in Task, Upload(i) PROVE Files'
  BY <1>1 DEF Upload, Enqueue, EnqueueThrows, Files
<1>2. ASSUME NEW i \in Task, Find(i) PROVE Files'
  BY <1>2 DEF Find, vars, Files
<1>3. CASE Serve
  BY <1>3 DEF Serve, vars, Files
<1>4. ASSUME NEW w \in Worker, Open(w) PROVE Files'
  <2>1. wpc[w] = "running" /\ wtask[w] \in Task /\ writer[w] = "closed"
    BY <1>4 DEF Open, Ownership
  <2>2. CASE /\ disk' = [disk EXCEPT ![wtask[w]] = 0]
             /\ writer' = [writer EXCEPT ![w] = "open"]
             /\ UNCHANGED <<vars, failed, looked>>
    BY <2>1, <2>2 DEF vars, Files
  <2>3. CASE /\ failed' = failed \cup {wtask[w]}
             /\ Done(w)
             /\ UNCHANGED <<disk, writer, looked>>
    BY <2>1, <2>3 DEF Done, Files
  <2>4. QED
    BY <1>4, <2>2, <2>3 DEF Open
<1>5. ASSUME NEW w \in Worker, Write(w) PROVE Files'
  <2>1. wtask[w] \in Task
    BY <1>5 DEF Write, Files, Ownership
  <2>2. disk[wtask[w]] + 1 \in 0 .. Units
    BY <1>5, <2>1 DEF Write, Files
  <2>3. QED
    BY <1>5, <2>1, <2>2 DEF Write, vars, Files
<1>6. ASSUME NEW w \in Worker, Close(w) PROVE Files'
  <2>1. wtask[w] \in Task /\ disk' = disk /\ looked' = looked
    BY <1>6 DEF Close, Files, Ownership
  <2>2. writer' = [writer EXCEPT ![w] = "closed"] /\ failed \subseteq failed'
    BY <1>6 DEF Close
  <2>3. disk[wtask[w]] = Units \/ wtask[w] \in failed'
    BY <1>6 DEF Close
  <2>4. \A v \in Worker \ {w} : wpc'[v] = wpc[v] /\ wtask'[v] = wtask[v]
    BY <1>6 DEF Close, Done
  <2>5. ASSUME NEW i \in Task, disk[i] \in 0 .. Units - 1, i \notin failed'
        PROVE  \E v \in Worker : writer'[v] = "open" /\ wtask'[v] = i
    <3>1. i \notin failed /\ i # wtask[w]
      BY <2>2, <2>3, <2>5
    <3>2. PICK v \in Worker : writer[v] = "open" /\ wtask[v] = i
      BY <2>5, <3>1 DEF Files
    <3>3. v # w
      BY <3>1, <3>2
    <3>4. writer'[v] = "open" /\ wtask'[v] = i
      BY <2>2, <2>4, <3>2, <3>3 DEF Files
    <3>5. QED
      BY <3>4
  <2>6. /\ writer' \in [Worker -> {"open", "closed"}]
        /\ \A v \in Worker : writer'[v] = "open" => wpc'[v] = "running"
    BY <2>2, <2>4 DEF Files
  <2>7. QED
    BY <2>1, <2>5, <2>6 DEF Files
<1>7. ASSUME NEW w \in Worker, Wait(w) \/ Exit(w) \/ Take(w), UNCHANGED fvars
      PROVE  Files'
  BY <1>7, FilesFrame DEF Wait, Exit, Take
<1>8. CASE Shutdown
  BY <1>8, FilesFrame DEF Shutdown, Destroy
<1>9. CASE PoolStep
  <2>1. ASSUME NEW w \in Worker, Spawn(w) \/ Spurious(w) PROVE Files'
    BY <1>9, <2>1, FilesFrame DEF PoolStep, Spawn, Spurious
  <2>2. CASE Notify(Server)
    BY <1>9, <2>2, FilesFrame DEF PoolStep, Notify, At
  <2>3. CASE SpawnFails \/ NotifyAll \/ Joined
    BY <1>9, <2>3, FilesFrame DEF PoolStep, SpawnFails, NotifyAll, Joined
  <2>4. QED
    BY <1>9, <2>1, <2>2, <2>3 DEF PoolStep
<1>10. CASE UNCHANGED allvars
  BY <1>10 DEF allvars, vars, fvars, Files
<1>11. QED
  BY <1>1, <1>2, <1>3, <1>4, <1>5, <1>6, <1>7, <1>8, <1>9, <1>10
     DEF UploadNext, WorkerStep

LEMMA FilesInvariance == UploadSpec => [](Inv /\ Files)
<1>1. UploadInit => Files
  BY ThreadPoolAssumption, ImageHostingAssumption DEF UploadInit, Files
<1>2. UploadSpec => []Inv
  BY HostRunsAPool, Invariance, PTL
<1>3. QED
  BY <1>1, <1>2, FilesStep, PTL DEF UploadSpec

(* The loop thread serves half an image only while a worker is writing it, *)
(* or after writing it has failed.                                         *)
THEOREM ImagesAreServedWhole == UploadSpec => ServedWhole
<1>1. Inv /\ Files => (Serve /\ disk[looked] < Units => looked \in Running \cup failed)
  <2> SUFFICES ASSUME Inv, Files, Serve, disk[looked] < Units, looked \notin failed
               PROVE  looked \in Running
    OBVIOUS
  <2>1. looked \in Task /\ disk[looked] \in 0 .. Units - 1
    BY ImageHostingAssumption DEF Serve, Files
  <2>2. PICK w \in Worker : writer[w] = "open" /\ wtask[w] = looked
    BY <2>1 DEF Files
  <2>3. QED
    BY <2>2 DEF Files, Running, At
<1>2. QED
  BY <1>1, FilesInvariance, PTL DEF ServedWhole
=============================================================================
