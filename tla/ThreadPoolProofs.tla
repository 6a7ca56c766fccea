-------------------------- MODULE ThreadPoolProofs --------------------------
(***************************************************************************)
(* Proofs about ThreadPool for any number of workers, any capacity of the  *)
(* ring buffer and any tasks.                                              *)
(***************************************************************************)
EXTENDS ThreadPool, FiniteSetTheorems, TLAPS

(***************************************************************************)
(* The invariant.                                                          *)
(***************************************************************************)

(* The ring buffer holds a task at each of its size places from front on,  *)
(* and rear is the place after them.                                       *)
RingShape ==
    /\ rear = Wrap(front + size)
    /\ \A i \in 0 .. size - 1 : tasks[Wrap(front + i)] \in Tasks

(* A worker has a task exactly while it is between taking and ending it. *)
HoldsTask ==
    \A w \in Slots : IF pc[w] \in {"took", "run"} THEN task[w] \in Tasks
                     ELSE task[w] = NoTask

(* The number of workers at location c, pc being h. *)
Count(h, c) == Cardinality({v \in Slots : h[v] = c})

BusyCount == num_busy = Count(pc, "run")

(* The types without num_busy, whose range follows from BusyCount. *)
Types ==
    /\ tasks \in [Places -> Tasks \cup {NoTask}]
    /\ size \in 0..Capacity /\ front \in Places /\ rear \in Places
    /\ num_live \in Int /\ num_exit \in Int
    /\ shutdown \in BOOLEAN
    /\ enable \in [Slots -> BOOLEAN]
    /\ mtx \in Slots \cup {Free}
    /\ pc \in [Slots -> WorkerLocations]
    /\ task \in [Slots -> Tasks \cup {NoTask}]
    /\ live \in [Slots -> Int]
    /\ manager \in ManagerLocations
    /\ local \in Locals
    /\ destroyer \in DestroyerLocations
    /\ executed \in SUBSET Tasks

Inv == Types /\ BusyCount /\ RingShape /\ HoldsTask

(***************************************************************************)
(* Facts about the operators.                                              *)
(***************************************************************************)

LEMMA SlotsFinite ==
    IsFiniteSet(Slots) /\ Cardinality(Slots) = num_max
<1>1. 0 \in Int /\ num_max - 1 \in Int /\ num_max \in Nat \ {0}
  BY PoolAssumption
<1>2. IsFiniteSet(0 .. num_max - 1)
      /\ Cardinality(0 .. num_max - 1)
           = IF 0 > num_max - 1 THEN 0 ELSE num_max - 1 - 0 + 1
  BY <1>1, FS_Interval
<1> QED
  BY <1>1, <1>2 DEF Slots

(* How many workers are at a location, when one of them leaves it ... *)
LEMMA CountLeave ==
    ASSUME NEW f \in [Slots -> WorkerLocations], NEW w \in Slots,
           NEW b \in WorkerLocations, NEW c, f[w] = c, b # c
    PROVE  /\ Count(f, c) \in Nat
           /\ Count([f EXCEPT ![w] = b], c) = Count(f, c) - 1
<1> DEFINE g == [f EXCEPT ![w] = b]
           F == {v \in Slots : f[v] = c}
           G == {v \in Slots : g[v] = c}
<1>1. Count(f, c) = Cardinality(F) /\ Count(g, c) = Cardinality(G)
  BY DEF Count
<1>2. F \in SUBSET Slots /\ G = F \ {w} /\ w \in F
  OBVIOUS
<1> HIDE DEF F, G
<1>3. IsFiniteSet(F) /\ Cardinality(F) \in Nat
  BY <1>2, SlotsFinite, FS_Subset, FS_CardinalityType
<1>4. Cardinality(G) = Cardinality(F) - 1
  BY <1>2, <1>3, FS_RemoveElement
<1> QED
  BY <1>1, <1>3, <1>4

(* ... and when one of them arrives there. *)
LEMMA CountArrive ==
    ASSUME NEW f \in [Slots -> WorkerLocations], NEW w \in Slots,
           NEW c \in WorkerLocations, f[w] # c
    PROVE  /\ Count(f, c) \in Nat
           /\ Count([f EXCEPT ![w] = c], c) = Count(f, c) + 1
<1> DEFINE g == [f EXCEPT ![w] = c]
           F == {v \in Slots : f[v] = c}
           G == {v \in Slots : g[v] = c}
<1>1. Count(f, c) = Cardinality(F) /\ Count(g, c) = Cardinality(G)
  BY DEF Count
<1>2. F \in SUBSET Slots /\ G = F \cup {w} /\ w \notin F
  OBVIOUS
<1> HIDE DEF F, G
<1>3. IsFiniteSet(F) /\ Cardinality(F) \in Nat
  BY <1>2, SlotsFinite, FS_Subset, FS_CardinalityType
<1>4. Cardinality(G) = Cardinality(F) + 1
  BY <1>2, <1>3, FS_AddElement
<1> QED
  BY <1>1, <1>3, <1>4

(* A signal or a broadcast moves workers from cnd_wait to their loop and    *)
(* changes nothing else.                                                    *)
Wakes ==
    /\ pc' \in [Slots -> WorkerLocations]
    /\ \A w \in Slots :
          pc'[w] = pc[w] \/ (pc[w] = "waiting" /\ pc'[w] = "loop")

LEMMA SignalWakes ==
    ASSUME pc \in [Slots -> WorkerLocations],
           SignalNotEmpty \/ BroadcastNotEmpty \/ UNCHANGED pc
    PROVE  Wakes
<1>1. CASE UNCHANGED pc
  BY <1>1 DEF Wakes
<1>2. CASE SignalNotEmpty
  BY <1>1, <1>2 DEF SignalNotEmpty, Waiting, Wakes, WorkerLocations
<1>3. CASE BroadcastNotEmpty
  BY <1>3 DEF BroadcastNotEmpty, Wakes, WorkerLocations
<1> QED
  BY <1>1, <1>2, <1>3

LEMMA FollowingType ==
    ASSUME NEW p \in Places
    PROVE  Following(p) \in Places
BY PoolAssumption DEF Following, Places

-----------------------------------------------------------------------------
(* Types and shapes hold initially. *)
LEMMA InitInv == tp_create => Inv
<1> SUFFICES ASSUME tp_create PROVE Inv
  OBVIOUS
<1>1. 0 \in Places /\ 0 \in 0..Capacity
  BY PoolAssumption DEF Places
<1>2. local \in Locals
  BY DEF tp_create, Locals, NoLocals
<1>3. Types
  <2>1. /\ tasks \in [Places -> Tasks \cup {NoTask}]
        /\ task \in [Slots -> Tasks \cup {NoTask}]
        /\ live \in [Slots -> Int] /\ enable \in [Slots -> BOOLEAN]
    BY DEF tp_create
  <2>2. pc \in [Slots -> WorkerLocations]
    BY DEF tp_create, WorkerLocations
  <2>3. mtx \in Slots \cup {Free} /\ manager \in ManagerLocations
        /\ destroyer \in DestroyerLocations /\ executed \in SUBSET Tasks
        /\ shutdown \in BOOLEAN
    BY DEF tp_create, ManagerLocations, DestroyerLocations
  <2>4. /\ num_live \in Int /\ num_exit \in Int
        /\ size \in 0..Capacity /\ front \in Places /\ rear \in Places
    BY <1>1, PoolAssumption DEF tp_create
  <2> QED
    BY <1>2, <2>1, <2>2, <2>3, <2>4 DEF Types
<1>4. BusyCount
  <2>1. {v \in Slots : pc[v] = "run"} = {}
    BY DEF tp_create
  <2> QED
    BY <2>1, FS_EmptySet DEF tp_create, BusyCount, Count
<1>5. RingShape
  BY PoolAssumption DEF tp_create, RingShape, Wrap
<1>6. HoldsTask
  BY DEF tp_create, HoldsTask
<1> QED
  BY <1>3, <1>4, <1>5, <1>6 DEF Inv

-----------------------------------------------------------------------------
(* The steps that neither touch the ring buffer nor give a task to a worker *)
(* nor take one from it.                                                    *)
Aside ==
    \/ tp_destroy \/ JoinManager \/ RetireWorkers \/ FreePool \/ Manager
    \/ \E w \in Slots : ExitLoad(w) \/ ExitStore(w) \/ WaitNotEmpty(w)
                          \/ SpuriousWakeup(w)
    \/ UNCHANGED vars

(* What such a step does to the locations of the workers: some wake up, or  *)
(* one moves between locations where no task is held.                       *)
OffTask == {"none", "loop", "waiting", "exit"}
MovesAside ==
    \E w \in Slots : \E l \in OffTask :
        pc[w] \in OffTask /\ pc' = [pc EXCEPT ![w] = l]

LEMMA NextCases ==
    ASSUME [Next]_vars
    PROVE  \/ Aside
           \/ \E t \in Tasks : tp_add_task(t)
           \/ \E w \in Slots : TakeTask(w) \/ BeginTask(w) \/ EndTask(w)
BY DEF Next, Freed, Worker, Aside

LEMMA AsideMoves ==
    ASSUME Types, Aside
    PROVE  Wakes \/ MovesAside
<1>0. pc \in [Slots -> WorkerLocations]
  BY DEF Types
<1>1. CASE tp_destroy \/ JoinManager \/ FreePool \/ UNCHANGED vars
  <2>1. UNCHANGED pc
    BY <1>1 DEF tp_destroy, JoinManager, FreePool, vars, threads
  <2> QED
    BY <1>0, <2>1, SignalWakes
<1>2. CASE RetireWorkers
  BY <1>0, <1>2, SignalWakes DEF RetireWorkers
<1>3. CASE Manager
  <2>1. CASE TestShutdown \/ Look \/ Decide \/ GrowLoad \/ GrowStore \/ Sleep
    <3>1. UNCHANGED pc
      BY <2>1 DEF TestShutdown, Look, Decide, GrowLoad, GrowStore, Sleep, threads
    <3> QED
      BY <1>0, <3>1, SignalWakes
  <2>2. CASE Shrink
    BY <1>0, <2>2, SignalWakes DEF Shrink
  <2>3. CASE CreateWorker
    <3>1. CASE UNCHANGED pc
      BY <1>0, <3>1, SignalWakes
    <3>2. CASE ~ UNCHANGED pc
      <4>1. /\ local.i < num_max
            /\ pc[local.i] = "none" /\ pc' = [pc EXCEPT ![local.i] = "loop"]
        BY <2>3, <3>2 DEF CreateWorker
      <4>2. local.i \in Slots
        BY <4>1, PoolAssumption DEF Types, Locals, Slots
      <4> QED
        BY <4>1, <4>2 DEF MovesAside, OffTask
    <3> QED
      BY <3>1, <3>2
  <2> QED
    BY <1>3, <2>1, <2>2, <2>3 DEF Manager
<1>4. CASE \E w \in Slots : ExitLoad(w) \/ ExitStore(w) \/ WaitNotEmpty(w)
                              \/ SpuriousWakeup(w)
  BY <1>4 DEF ExitLoad, ExitStore, WaitNotEmpty, SpuriousWakeup, MovesAside,
              OffTask
<1> QED
  BY <1>1, <1>2, <1>3, <1>4 DEF Aside

LEMMA AsideLeaves ==
    ASSUME Aside
    PROVE  UNCHANGED <<ring, num_busy, task, executed>>
BY DEF Aside, tp_destroy, JoinManager, RetireWorkers, FreePool, Manager,
       TestShutdown, Look, Decide, GrowLoad, GrowStore, CreateWorker, Shrink,
       Sleep, ExitLoad, ExitStore, WaitNotEmpty, SpuriousWakeup, vars, ring,
       counters, threads

-----------------------------------------------------------------------------
(* Every step keeps the types. *)
LEMMA HostTypes ==
    ASSUME Types,
           \/ \E t \in Tasks : tp_add_task(t)
           \/ tp_destroy \/ JoinManager \/ RetireWorkers \/ FreePool
           \/ UNCHANGED vars
    PROVE  Types'
<1>0. Free \in Slots \cup {Free}
  OBVIOUS
<1>1. CASE UNCHANGED vars
  BY <1>1 DEF Types, vars, ring, counters, threads, manage
<1>2. ASSUME NEW t \in Tasks, tp_add_task(t) PROVE Types'
  <2>1. Wakes
    BY <1>2, SignalWakes DEF tp_add_task, Types
  <2>2. rear' \in Places
    BY <1>2, FollowingType DEF tp_add_task, Types
  <2>3. size' \in 0..Capacity
    BY <1>2, PoolAssumption DEF tp_add_task, Types
  <2>4. tasks' \in [Places -> Tasks \cup {NoTask}]
    BY <1>2 DEF tp_add_task, Types
  <2> QED
    BY <1>2, <2>1, <2>2, <2>3, <2>4
    DEF tp_add_task, Wakes, Types, counters, manage
<1>3. CASE tp_destroy
  BY <1>3 DEF tp_destroy, Types, ring, threads, manage, DestroyerLocations
<1>4. CASE JoinManager
  BY <1>4 DEF JoinManager, Types, ring, counters, threads, manage,
              DestroyerLocations
<1>5. CASE RetireWorkers
  <2>1. Wakes
    BY <1>5, SignalWakes DEF RetireWorkers, Types
  <2> QED
    BY <1>5, <2>1 DEF RetireWorkers, Wakes, Types, ring, manage,
                      DestroyerLocations
<1>6. CASE FreePool
  BY <1>6 DEF FreePool, Types, ring, counters, threads, manage,
              DestroyerLocations
<1> QED
  BY <1>1, <1>2, <1>3, <1>4, <1>5, <1>6

LEMMA WorkerTypes ==
    ASSUME Types, RingShape, HoldsTask, NEW w \in Slots,
           Worker(w) \/ SpuriousWakeup(w)
    PROVE  Types'
<1>1. CASE ExitLoad(w)
  BY <1>1 DEF ExitLoad, Types, ring, manage, WorkerLocations
<1>2. CASE ExitStore(w)
  BY <1>2 DEF ExitStore, Types, ring, manage, WorkerLocations,
              DestroyerLocations
<1>3. CASE TakeTask(w)
  <2>1. front' \in Places
    BY <1>3, FollowingType DEF TakeTask, Types
  <2>2. size' \in 0..Capacity
    BY <1>3, PoolAssumption DEF TakeTask, Types
  <2>3. task' \in [Slots -> Tasks \cup {NoTask}]
    BY <1>3 DEF TakeTask, Types
  <2>4. pc' \in [Slots -> WorkerLocations]
    BY <1>3 DEF TakeTask, Types, WorkerLocations
  <2> QED
    BY <1>3, <2>1, <2>2, <2>3, <2>4 DEF TakeTask, Types, counters, manage
<1>4. CASE WaitNotEmpty(w)
  BY <1>4 DEF WaitNotEmpty, Types, ring, counters, manage, WorkerLocations
<1>5. CASE BeginTask(w)
  BY <1>5 DEF BeginTask, Types, ring, manage, WorkerLocations
<1>6. CASE EndTask(w)
  <2>1. task[w] \in Tasks
    BY <1>6 DEF EndTask, HoldsTask
  <2>2. executed' \in SUBSET Tasks
    BY <1>6, <2>1 DEF EndTask, Types
  <2>3. pc' \in [Slots -> WorkerLocations]
    BY <1>6 DEF EndTask, Types, WorkerLocations
  <2>4. task' \in [Slots -> Tasks \cup {NoTask}]
    BY <1>6 DEF EndTask, Types
  <2> QED
    BY <1>6, <2>2, <2>3, <2>4 DEF EndTask, Types, ring, manage
<1>7. CASE SpuriousWakeup(w)
  BY <1>7 DEF SpuriousWakeup, Types, ring, counters, manage, WorkerLocations
<1> QED
  BY <1>1, <1>2, <1>3, <1>4, <1>5, <1>6, <1>7 DEF Worker

LEMMA ManagerTypes ==
    ASSUME Types, Manager
    PROVE  Types'
<1>1. CASE TestShutdown
  BY <1>1 DEF TestShutdown, Types, ring, counters, threads, ManagerLocations
<1>2. CASE Look
  <2>1. local' \in Locals
    <3>1. local \in Locals /\ size \in Nat /\ num_live \in Int
      BY PoolAssumption DEF Types
    <3>2. [local EXCEPT !.size = size, !.live = num_live] \in Locals
      BY <3>1 DEF Locals
    <3> QED
      BY <1>2, <3>2 DEF Look
  <2> QED
    BY <1>2, <2>1 DEF Look, Types, ring, counters, threads, ManagerLocations
<1>3. CASE Decide
  <2>1. local' \in Locals
    <3>1. CASE UNCHANGED local
      BY <3>1 DEF Types
    <3>2. CASE ~ UNCHANGED local
      <4> DEFINE n == Lesser(BatchLimit,
                             Lesser(local.size - local.live,
                                    num_max - local.live))
      <4>1. local' = [local EXCEPT !.increase = n]
        BY <1>3, <3>2 DEF Decide
      <4>2. n \in Int
        BY PoolAssumption DEF Types, Locals, Lesser
      <4> HIDE DEF n
      <4> QED
        BY <4>1, <4>2 DEF Types, Locals
    <3> QED
      BY <3>1, <3>2
  <2>2. manager' \in ManagerLocations
    BY <1>3 DEF Decide, ManagerLocations
  <2> QED
    BY <1>3, <2>1, <2>2 DEF Decide, Types, ring, counters, threads
<1>4. CASE GrowLoad
  <2>1. local' \in Locals
    BY <1>4 DEF GrowLoad, Types, Locals
  <2> QED
    BY <1>4, <2>1 DEF GrowLoad, Types, ring, counters, threads,
                      ManagerLocations
<1>5. CASE GrowStore
  <2>1. num_live' \in Int
    BY <1>5 DEF GrowStore, Types, Locals
  <2> QED
    BY <1>5, <2>1 DEF GrowStore, Types, ring, threads, ManagerLocations
<1>6. CASE CreateWorker
  <2>1. pc' \in [Slots -> WorkerLocations] /\ enable' \in [Slots -> BOOLEAN]
    BY <1>6 DEF CreateWorker, Types, WorkerLocations
  <2>2. local' \in Locals
    <3>1. local' \in {local, [local EXCEPT !.i = @ + 1],
                     [local EXCEPT !.i = @ + 1, !.count = @ + 1]}
      BY <1>6 DEF CreateWorker
    <3>2. [local EXCEPT !.i = @ + 1] \in Locals
      BY DEF Types, Locals
    <3>3. [local EXCEPT !.i = @ + 1, !.count = @ + 1] \in Locals
      <4>1. /\ local \in Locals
            /\ local.i + 1 \in Nat /\ local.count + 1 \in Nat
        BY DEF Types, Locals
      <4> QED
        BY <4>1 DEF Locals
    <3> QED
      BY <3>1, <3>2, <3>3 DEF Types
  <2>3. manager' \in ManagerLocations
    BY <1>6 DEF CreateWorker, Types, ManagerLocations
  <2> QED
    BY <1>6, <2>1, <2>2, <2>3 DEF CreateWorker, Types, ring, counters
<1>7. CASE Shrink
  <2>1. Wakes
    BY <1>7, SignalWakes DEF Shrink, Types
  <2>2. num_exit' \in Int
    BY <1>7, PoolAssumption DEF Shrink, Types, Locals, Lesser
  <2> QED
    BY <1>7, <2>1, <2>2 DEF Shrink, Wakes, Types, ring, ManagerLocations
<1>8. CASE Sleep
  <2>1. local' \in Locals
    BY <1>8 DEF Sleep, Locals, NoLocals
  <2> QED
    BY <1>8, <2>1 DEF Sleep, Types, ring, counters, threads, ManagerLocations
<1> QED
  BY <1>1, <1>2, <1>3, <1>4, <1>5, <1>6, <1>7, <1>8 DEF Manager

LEMMA StepTypes ==
    ASSUME Types, RingShape, HoldsTask, [Next]_vars
    PROVE  Types'
BY HostTypes, WorkerTypes, ManagerTypes DEF Next, Freed

-----------------------------------------------------------------------------
(* Every step keeps the count of the running workers. *)
LEMMA StepBusy ==
    ASSUME Types, BusyCount, [Next]_vars
    PROVE  BusyCount'
<1>0. pc \in [Slots -> WorkerLocations]
  BY DEF Types
<1>1. ASSUME \A w \in Slots : pc'[w] = "run" <=> pc[w] = "run",
             UNCHANGED num_busy
      PROVE  BusyCount'
  <2>1. {v \in Slots : pc'[v] = "run"} = {v \in Slots : pc[v] = "run"}
    BY <1>1
  <2> QED
    BY <1>1, <2>1 DEF BusyCount, Count
<1>2. CASE Aside
  <2>1. UNCHANGED num_busy
    BY <1>2, AsideLeaves
  <2>2. CASE MovesAside
    BY <1>0, <1>1, <2>1, <2>2 DEF MovesAside, OffTask
  <2>3. CASE Wakes
    BY <1>1, <2>1, <2>3 DEF Wakes
  <2> QED
    BY <1>2, <2>2, <2>3, AsideMoves
<1>3. CASE \E t \in Tasks : tp_add_task(t)
  <2>1. Wakes /\ UNCHANGED num_busy
    BY <1>0, <1>3, SignalWakes DEF tp_add_task, counters
  <2> QED
    BY <1>1, <2>1 DEF Wakes
<1>4. ASSUME NEW w \in Slots, TakeTask(w) PROVE BusyCount'
  BY <1>0, <1>1, <1>4 DEF TakeTask, counters
<1>5. ASSUME NEW w \in Slots, BeginTask(w) PROVE BusyCount'
  <2>1. /\ pc[w] = "took" /\ pc' = [pc EXCEPT ![w] = "run"]
        /\ num_busy' = num_busy + 1
    BY <1>5 DEF BeginTask
  <2>2. "run" \in WorkerLocations
    BY DEF WorkerLocations
  <2>3. Count([pc EXCEPT ![w] = "run"], "run") = Count(pc, "run") + 1
    BY <1>0, <2>1, <2>2, CountArrive
  <2> QED
    BY <2>1, <2>3 DEF BusyCount
<1>6. ASSUME NEW w \in Slots, EndTask(w) PROVE BusyCount'
  <2>1. /\ pc[w] = "run" /\ pc' = [pc EXCEPT ![w] = "loop"]
        /\ num_busy' = num_busy - 1
    BY <1>6 DEF EndTask
  <2>2. "loop" \in WorkerLocations
    BY DEF WorkerLocations
  <2>3. Count([pc EXCEPT ![w] = "loop"], "run") = Count(pc, "run") - 1
    BY <1>0, <2>1, <2>2, CountLeave
  <2> QED
    BY <2>1, <2>3 DEF BusyCount
<1> QED
  BY <1>2, <1>3, <1>4, <1>5, <1>6, NextCases

(* Every step keeps the tasks of the workers. *)
LEMMA StepHolds ==
    ASSUME Types, RingShape, HoldsTask, [Next]_vars
    PROVE  HoldsTask'
<1>0. pc \in [Slots -> WorkerLocations] /\ task \in [Slots -> Tasks \cup {NoTask}]
  BY DEF Types
<1>1. ASSUME Wakes, UNCHANGED task PROVE HoldsTask'
  BY <1>0, <1>1 DEF Wakes, HoldsTask
<1>2. CASE Aside
  <2>1. UNCHANGED task
    BY <1>2, AsideLeaves
  <2>2. CASE MovesAside
    BY <1>0, <2>1, <2>2 DEF MovesAside, OffTask, HoldsTask
  <2> QED
    BY <1>1, <1>2, <2>1, <2>2, AsideMoves
<1>3. CASE \E t \in Tasks : tp_add_task(t)
  BY <1>0, <1>1, <1>3, SignalWakes DEF tp_add_task
<1>4. ASSUME NEW w \in Slots, TakeTask(w) PROVE HoldsTask'
  <2>1. tasks[front] \in Tasks
    <3>1. /\ size > 0 /\ size \in 0..Capacity /\ front + 0 = front
          /\ Wrap(front) = front
      BY <1>4, PoolAssumption DEF TakeTask, Types, Wrap, Places
    <3>2. 0 \in 0 .. size - 1
      BY <3>1, PoolAssumption
    <3> QED
      BY <3>1, <3>2 DEF RingShape
  <2> QED
    BY <1>0, <1>4, <2>1 DEF TakeTask, HoldsTask
<1>5. ASSUME NEW w \in Slots, BeginTask(w) PROVE HoldsTask'
  BY <1>0, <1>5 DEF BeginTask, HoldsTask
<1>6. ASSUME NEW w \in Slots, EndTask(w) PROVE HoldsTask'
  BY <1>0, <1>6 DEF EndTask, HoldsTask
<1> QED
  BY <1>2, <1>3, <1>4, <1>5, <1>6, NextCases

(* tp_add_task extends the stored tasks at their end ... *)
LEMMA AddBacklog ==
    ASSUME Types, RingShape, NEW t \in Tasks, tp_add_task(t)
    PROVE  /\ RingShape'
           /\ size \in Nat /\ size' = size + 1
           /\ \A i \in 0 .. size - 1 : tasks'[Wrap(front' + i)] = tasks[Wrap(front + i)]
           /\ tasks'[Wrap(front + size)] = t
<1>1. /\ size \in 0 .. Capacity - 1 /\ front \in Places /\ rear \in Places
      /\ front \in Nat
      /\ size' = size + 1 /\ front' = front /\ rear' = Following(rear)
      /\ tasks' = [tasks EXCEPT ![rear] = t]
      /\ Capacity \in Nat \ {0}
      /\ tasks \in [Places -> Tasks \cup {NoTask}]
      /\ rear = Wrap(front + size)
  BY PoolAssumption DEF tp_add_task, Types, RingShape, Places
<1>3. \A i \in 0 .. size - 1 : Wrap(front + i) \in Places /\ Wrap(front + i) # rear
  BY <1>1 DEF Wrap, Places
<1>4. \A i \in 0 .. size - 1 : tasks'[Wrap(front' + i)] = tasks[Wrap(front + i)]
  <2> TAKE i \in 0 .. size - 1
  <2>1. Wrap(front + i) \in Places /\ Wrap(front + i) # rear
    BY <1>3
  <2> QED
    BY <1>1, <2>1
<1>5. tasks'[Wrap(front + size)] = t
  BY <1>1
<1>6. rear' = Wrap(front' + size')
  <2>1. Following(rear) = Wrap(front + size + 1)
    BY <1>1 DEF Following, Wrap, Places
  <2> QED
    BY <1>1, <2>1
<1>7. \A i \in 0 .. size' - 1 : tasks'[Wrap(front' + i)] \in Tasks
  <2> TAKE i \in 0 .. size' - 1
  <2>1. i \in 0 .. size - 1 \/ i = size
    BY <1>1
  <2> QED
    BY <1>1, <1>4, <1>5, <2>1 DEF RingShape
<1> QED
  BY <1>1, <1>4, <1>5, <1>6, <1>7 DEF RingShape

(* ... and a worker takes the first of them. *)
LEMMA TakeBacklog ==
    ASSUME Types, RingShape, NEW w \in Slots, TakeTask(w)
    PROVE  /\ RingShape'
           /\ size \in Nat \ {0} /\ size' = size - 1
           /\ \A i \in 0 .. size - 2 : tasks'[Wrap(front' + i)] = tasks[Wrap(front + i + 1)]
           /\ tasks[Wrap(front)] = task'[w]
<1>1. /\ size \in 1 .. Capacity /\ front \in Places /\ front \in Nat
      /\ rear = Wrap(front + size)
      /\ size' = size - 1 /\ front' = Following(front) /\ rear' = rear
      /\ tasks' = tasks
      /\ Capacity \in Nat \ {0}
  BY PoolAssumption DEF TakeTask, Types, RingShape, Places
<1>2. \A i \in 0 .. size - 1 : Wrap(front' + i) = Wrap(front + i + 1)
  BY <1>1 DEF Wrap, Following, Places
<1>3. \A i \in 0 .. size - 2 : tasks'[Wrap(front' + i)] = tasks[Wrap(front + i + 1)]
  BY <1>1, <1>2
<1>4. Wrap(front) = front
  BY <1>1 DEF Wrap, Places
<1>5. tasks[Wrap(front)] = task'[w]
  BY <1>4 DEF TakeTask, Types
<1>6. rear' = Wrap(front' + size')
  <2>1. Wrap(Following(front) + (size - 1)) = Wrap(front + size)
    BY <1>1 DEF Following, Wrap, Places
  <2> QED
    BY <1>1, <2>1
<1>7. \A i \in 0 .. size' - 1 : tasks'[Wrap(front' + i)] \in Tasks
  <2> TAKE i \in 0 .. size' - 1
  <2>1. /\ i \in 0 .. size - 2 /\ i + 1 \in 0 .. size - 1
        /\ front + (i + 1) = front + i + 1
    BY <1>1
  <2> QED
    BY <1>3, <2>1 DEF RingShape
<1> QED
  BY <1>1, <1>3, <1>5, <1>6, <1>7 DEF RingShape

(* Every other step leaves the ring buffer alone. *)
LEMMA KeepRing ==
    ASSUME RingShape, UNCHANGED ring
    PROVE  RingShape'
BY DEF RingShape, ring

LEMMA StepRing ==
    ASSUME Types, RingShape, [Next]_vars
    PROVE  RingShape'
<1>1. CASE Aside
  BY <1>1, AsideLeaves, KeepRing
<1>2. CASE \E t \in Tasks : tp_add_task(t)
  BY <1>2, AddBacklog
<1>3. CASE \E w \in Slots : TakeTask(w)
  BY <1>3, TakeBacklog
<1>4. CASE \E w \in Slots : BeginTask(w) \/ EndTask(w)
  BY <1>4, KeepRing DEF BeginTask, EndTask
<1> QED
  BY <1>1, <1>2, <1>3, <1>4, NextCases

LEMMA StepInv == Inv /\ [Next]_vars => Inv'
BY StepTypes, StepBusy, StepRing, StepHolds DEF Inv

LEMMA InvTypeOK == Inv => TypeOK
<1> SUFFICES ASSUME Inv PROVE num_busy \in 0..num_max
  BY DEF Inv, Types, TypeOK
<1> DEFINE R == {v \in Slots : pc[v] = "run"}
<1>1. R \in SUBSET Slots /\ Count(pc, "run") = Cardinality(R)
  BY DEF Count
<1> HIDE DEF R
<1>2. /\ IsFiniteSet(R) /\ Cardinality(R) <= Cardinality(Slots)
      /\ Cardinality(R) \in Nat
  BY <1>1, SlotsFinite, FS_Subset, FS_CardinalityType
<1> QED
  BY <1>1, <1>2, SlotsFinite, PoolAssumption DEF Inv, BusyCount

LEMMA PoolInvariant == Spec => []Inv
BY InitInv, StepInv, PTL DEF Spec

(* The fields of the pool stay in their ranges: front and rear are places   *)
(* of the ring buffer, size never exceeds its capacity, num_busy never the  *)
(* number of workers, and an empty place is never handed out as a task.     *)
THEOREM PoolTypeCorrect == Spec => []TypeOK
BY PoolInvariant, InvTypeOK, PTL

-----------------------------------------------------------------------------
(* No wake-up is lost.                                                      *)

(* While there are workers to retire nobody waits: each of them was woken,  *)
(* and looks at num_exit before it waits again.                             *)
Awake ==
    /\ \A w \in Slots : pc[w] = "waiting" => size <= Count(pc, "loop")
    /\ num_exit > 0 => \A w \in Slots : pc[w] # "waiting"

LEMMA InitAwake == tp_create => Awake
BY DEF tp_create, Awake

(* A worker that moves elsewhere is not counted. *)
LEMMA CountBeside ==
    ASSUME NEW f \in [Slots -> WorkerLocations], NEW w \in Slots,
           NEW b \in WorkerLocations, NEW c, f[w] # c, b # c
    PROVE  Count([f EXCEPT ![w] = b], c) = Count(f, c)
<1>1. {v \in Slots : [f EXCEPT ![w] = b][v] = c} = {v \in Slots : f[v] = c}
  OBVIOUS
<1> QED
  BY <1>1 DEF Count

LEMMA CountType ==
    ASSUME NEW f, NEW c
    PROVE  Count(f, c) \in Nat
<1> DEFINE F == {v \in Slots : f[v] = c}
<1>1. F \in SUBSET Slots /\ Count(f, c) = Cardinality(F)
  BY DEF Count
<1> HIDE DEF F
<1> QED
  BY <1>1, SlotsFinite, FS_Subset, FS_CardinalityType

LEMMA Locating ==
    /\ "none" \in WorkerLocations /\ "loop" \in WorkerLocations
    /\ "waiting" \in WorkerLocations /\ "took" \in WorkerLocations
    /\ "run" \in WorkerLocations /\ "exit" \in WorkerLocations
BY DEF WorkerLocations

(* When all have been woken nothing is left to show. *)
LEMMA AllAwake ==
    ASSUME \A w \in Slots : pc'[w] # "waiting"
    PROVE  Awake'
BY DEF Awake

LEMMA StepAwake ==
    ASSUME Types, Awake, [Next]_vars
    PROVE  Awake'
<1>0. pc \in [Slots -> WorkerLocations] /\ size \in Int /\ num_exit \in Int
      /\ Count(pc, "loop") \in Nat
  BY CountType, PoolAssumption DEF Types
<1>1. ASSUME UNCHANGED <<pc, size, num_exit>> PROVE Awake'
  BY <1>1 DEF Awake
<1>2. ASSUME NEW t \in Tasks, tp_add_task(t) PROVE Awake'
  <2>1. size' = size + 1 /\ num_exit' = num_exit
    BY <1>2 DEF tp_add_task, counters
  <2>2. CASE Waiting = {}
    <3>1. \A w \in Slots : pc'[w] # "waiting"
      BY <1>2, <2>2 DEF tp_add_task, SignalNotEmpty, Waiting
    <3> QED
      BY <3>1, AllAwake
  <2>3. CASE Waiting # {}
    <3>1. PICK w \in Slots : /\ pc[w] = "waiting"
                             /\ pc' = [pc EXCEPT ![w] = "loop"]
      BY <1>2, <2>3 DEF tp_add_task, SignalNotEmpty, Waiting
    <3>2. Count([pc EXCEPT ![w] = "loop"], "loop") = Count(pc, "loop") + 1
      BY <1>0, <3>1, Locating, CountArrive
    <3>3. size <= Count(pc, "loop") /\ ~(num_exit > 0)
      BY <3>1 DEF Awake
    <3> QED
      BY <1>0, <2>1, <3>1, <3>2, <3>3 DEF Awake
  <2> QED
    BY <2>2, <2>3
<1>3. CASE tp_destroy \/ JoinManager \/ FreePool \/ UNCHANGED vars
  BY <1>1, <1>3
  DEF tp_destroy, JoinManager, FreePool, vars, ring, counters, threads
<1>4. CASE RetireWorkers \/ Shrink
  <2>1. \A w \in Slots : pc'[w] # "waiting"
    BY <1>4 DEF RetireWorkers, Shrink, BroadcastNotEmpty
  <2> QED
    BY <2>1, AllAwake
<1>5. CASE TestShutdown \/ Look \/ Decide \/ GrowLoad \/ GrowStore \/ Sleep
  BY <1>1, <1>5 DEF TestShutdown, Look, Decide, GrowLoad, GrowStore, Sleep,
                    ring, counters, threads
<1>6. CASE CreateWorker
  <2>1. size' = size /\ num_exit' = num_exit
    BY <1>6 DEF CreateWorker, ring, counters
  <2>2. CASE UNCHANGED pc
    BY <1>1, <2>1, <2>2
  <2>3. CASE ~ UNCHANGED pc
    <3>1. /\ local.i < num_max
          /\ pc[local.i] = "none" /\ pc' = [pc EXCEPT ![local.i] = "loop"]
      BY <1>6, <2>3 DEF CreateWorker
    <3>2. local.i \in Slots
      BY <3>1, PoolAssumption DEF Types, Locals, Slots
    <3>3. Count([pc EXCEPT ![local.i] = "loop"], "loop")
            = Count(pc, "loop") + 1
      BY <1>0, <3>1, <3>2, Locating, CountArrive
    <3> QED
      BY <1>0, <2>1, <3>1, <3>2, <3>3 DEF Awake
  <2> QED
    BY <2>2, <2>3
<1>7. ASSUME NEW w \in Slots, ExitLoad(w) PROVE Awake'
  <2>1. \A v \in Slots : pc'[v] # "waiting"
    BY <1>0, <1>7 DEF ExitLoad, Awake
  <2> QED
    BY <2>1, AllAwake
<1>8. ASSUME NEW w \in Slots, ExitStore(w) \/ BeginTask(w) PROVE Awake'
  <2>1. PICK b \in {"none", "run"} :
            pc[w] \in {"exit", "took"} /\ pc' = [pc EXCEPT ![w] = b]
    BY <1>8 DEF ExitStore, BeginTask
  <2>2. Count([pc EXCEPT ![w] = b], "loop") = Count(pc, "loop")
    <3>1. b \in WorkerLocations /\ pc[w] # "loop" /\ b # "loop"
      BY <2>1, Locating
    <3> QED
      BY <1>0, <3>1, CountBeside
  <2>3. size' = size /\ num_exit' = num_exit
    BY <1>8 DEF ExitStore, BeginTask, ring
  <2> QED
    BY <1>0, <2>1, <2>2, <2>3 DEF Awake
<1>9. ASSUME NEW w \in Slots, TakeTask(w) PROVE Awake'
  <2>1. /\ pc[w] = "loop" /\ pc' = [pc EXCEPT ![w] = "took"]
        /\ size' = size - 1 /\ num_exit' = num_exit
    BY <1>9 DEF TakeTask, counters
  <2>2. Count([pc EXCEPT ![w] = "took"], "loop") = Count(pc, "loop") - 1
    <3>1. "took" \in WorkerLocations
      BY Locating
    <3> QED
      BY <1>0, <2>1, <3>1, CountLeave
  <2> QED
    BY <1>0, <2>1, <2>2 DEF Awake
<1>10. ASSUME NEW w \in Slots, WaitNotEmpty(w) PROVE Awake'
  <2>1. size' = 0 /\ ~(num_exit' > 0)
    BY <1>0, <1>10 DEF WaitNotEmpty, ring, counters
  <2>2. Count(pc', "loop") \in Nat
    BY CountType
  <2> QED
    BY <2>1, <2>2 DEF Awake
<1>11. ASSUME NEW w \in Slots, SpuriousWakeup(w) \/ EndTask(w) PROVE Awake'
  <2>1. /\ pc[w] \in {"waiting", "run"} /\ pc' = [pc EXCEPT ![w] = "loop"]
        /\ size' = size /\ num_exit' = num_exit
    BY <1>11 DEF SpuriousWakeup, EndTask, ring, counters
  <2>2. Count([pc EXCEPT ![w] = "loop"], "loop") = Count(pc, "loop") + 1
    BY <1>0, <2>1, Locating, CountArrive
  <2> QED
    BY <1>0, <2>1, <2>2 DEF Awake
<1> QED
  BY <1>2, <1>3, <1>4, <1>5, <1>6, <1>7, <1>8, <1>9, <1>10, <1>11
  DEF Next, Freed, Worker, Manager

LEMMA AwakeBacklog == Awake => NoIdleBacklog
BY DEF Awake, NoIdleBacklog, Waiting, Count

(* No wake-up is lost, for any number of workers, with or without a manager *)
(* and spurious wake-ups: a worker waits only while enough others are awake *)
(* to look at every task in the ring buffer.                                *)
THEOREM NoLostWakeup == Spec => []NoIdleBacklog
<1>1. tp_create => Awake
  BY InitAwake
<1>2. Inv /\ Awake /\ [Next]_vars => Awake'
  BY StepAwake DEF Inv
<1>3. Spec => []Inv
  BY PoolInvariant
<1> QED
  BY <1>1, <1>2, <1>3, AwakeBacklog, PTL DEF Spec

-----------------------------------------------------------------------------
(* tp_destroy waits for the last worker of a pool of fixed size.            *)

FixedPool == num_min = num_max /\ SpuriousWakeups = FALSE

(* num_live counts the workers, since without a manager the mutex is held   *)
(* at each of its changes; so it is zero only when the last one has left.   *)
Counted ==
    /\ manager = "none"
    /\ mtx # Free => pc[mtx] = "exit" /\ live[mtx] = num_live
    /\ \A w \in Slots : pc[w] = "exit" => mtx = w
    /\ num_live = num_max - Count(pc, "none")
    /\ destroyer \in {"woken", "freed"} => num_live = 0

LEMMA InitCounted == FixedPool /\ tp_create => Counted
<1> SUFFICES ASSUME FixedPool, tp_create PROVE Counted
  OBVIOUS
<1>1. {v \in Slots : pc[v] = "none"} = {}
  BY PoolAssumption DEF FixedPool, tp_create, Slots
<1>2. Count(pc, "none") = 0
  BY <1>1, FS_EmptySet DEF Count
<1>3. manager = "none" /\ num_live = num_max - 0
  BY PoolAssumption DEF FixedPool, tp_create
<1> QED
  BY <1>2, <1>3, PoolAssumption DEF FixedPool, tp_create, Counted

LEMMA StepCounted ==
    ASSUME FixedPool, Types, Counted, [Next]_vars
    PROVE  Counted'
<1>0. /\ pc \in [Slots -> WorkerLocations] /\ num_live \in Int
      /\ live \in [Slots -> Int] /\ num_max \in Int
      /\ Free \notin Slots /\ Count(pc, "none") \in Nat
  BY CountType, PoolAssumption DEF Types, Slots, Free
(* Workers move between locations where they count. *)
<1>1. ASSUME UNCHANGED <<manager, mtx, live, num_live>>,
             destroyer' \in {"woken", "freed"}
               => destroyer \in {"woken", "freed"},
             \A w \in Slots : /\ pc'[w] = "none" <=> pc[w] = "none"
                              /\ pc'[w] = "exit" <=> pc[w] = "exit"
      PROVE  Counted'
  <2>1. {v \in Slots : pc'[v] = "none"} = {v \in Slots : pc[v] = "none"}
    BY <1>1
  <2>2. Count(pc', "none") = Count(pc, "none")
    BY <2>1 DEF Count
  <2>3. mtx # Free => mtx \in Slots
    BY DEF Types
  <2> QED
    BY <1>1, <2>2, <2>3 DEF Counted
<1>2. ASSUME NEW t \in Tasks, tp_add_task(t) PROVE Counted'
  <2>1. Wakes
    BY <1>0, <1>2, SignalWakes DEF tp_add_task
  <2> QED
    BY <1>1, <1>2, <2>1 DEF tp_add_task, Wakes, counters, manage
<1>3. CASE tp_destroy \/ JoinManager \/ UNCHANGED vars
  BY <1>1, <1>3 DEF tp_destroy, JoinManager, vars, counters, threads, manage
<1>4. CASE RetireWorkers
  <2>1. Wakes
    BY <1>0, <1>4, SignalWakes DEF RetireWorkers
  <2> QED
    BY <1>1, <1>4, <2>1 DEF RetireWorkers, Wakes, manage
<1>5. CASE FreePool
  BY <1>1, <1>5 DEF FreePool, FixedPool, counters, threads, manage
<1>6. CASE Manager
  BY <1>6 DEF Counted, Manager, TestShutdown, Look, Decide, GrowLoad,
              GrowStore, CreateWorker, Shrink, Sleep
<1>7. ASSUME NEW w \in Slots, ExitLoad(w) PROVE Counted'
  <2>1. /\ pc[w] = "loop" /\ pc' = [pc EXCEPT ![w] = "exit"]
        /\ mtx = Free /\ mtx' = w
        /\ live' = [live EXCEPT ![w] = num_live]
        /\ UNCHANGED <<num_live, manager, destroyer>>
    BY <1>7 DEF ExitLoad, manage
  <2>2. "exit" \in WorkerLocations
    BY Locating
  <2>3. Count([pc EXCEPT ![w] = "exit"], "none") = Count(pc, "none")
    <3>1. pc[w] # "none" /\ "exit" # "none"
      BY <2>1
    <3>2. pc \in [Slots -> WorkerLocations] /\ w \in Slots
      BY <1>0
    <3> QED
      BY ONLY <2>2, <3>1, <3>2, CountBeside
  <2>4. \A v \in Slots : pc[v] # "exit"
    BY <1>0, <2>1 DEF Counted
  <2> QED
    BY <1>0, <2>1, <2>3, <2>4 DEF Counted
<1>8. ASSUME NEW w \in Slots, ExitStore(w) PROVE Counted'
  <2>1. /\ pc[w] = "exit" /\ pc' = [pc EXCEPT ![w] = "none"]
        /\ mtx' = Free /\ num_live' = live[w] - 1 /\ UNCHANGED manager
        /\ destroyer' \in {"woken", "freed"}
             => num_live' = 0 \/ destroyer \in {"woken", "freed"}
    BY <1>8 DEF ExitStore, manage
  <2>2. mtx = w /\ live[w] = num_live
    BY <1>0, <2>1 DEF Counted
  <2>3. "none" \in WorkerLocations
    BY Locating
  <2>4. Count([pc EXCEPT ![w] = "none"], "none") = Count(pc, "none") + 1
    BY <1>0, <2>1, <2>3, CountArrive
  <2>5. num_live' = num_max - Count(pc', "none")
    BY <1>0, <2>1, <2>2, <2>4 DEF Counted
  <2>6. num_live # 0
    <3> DEFINE N == {v \in Slots : pc[v] = "none"}
    <3>1. N \in SUBSET Slots /\ w \notin N /\ Count(pc, "none") = Cardinality(N)
      BY <2>1 DEF Count
    <3> HIDE DEF N
    <3>2. Cardinality(N) # num_max
      BY <3>1, SlotsFinite, FS_Subset
    <3> QED
      BY <1>0, <3>1, <3>2 DEF Counted
  <2>7. destroyer' \in {"woken", "freed"} => num_live' = 0
    BY <2>1, <2>6 DEF Counted
  <2>8. \A v \in Slots : pc'[v] # "exit"
    BY <1>0, <2>1, <2>2 DEF Counted
  <2> QED
    BY <2>1, <2>5, <2>7, <2>8 DEF Counted
<1>9. ASSUME NEW w \in Slots,
             TakeTask(w) \/ WaitNotEmpty(w) \/ BeginTask(w) \/ EndTask(w)
      PROVE  Counted'
  BY <1>0, <1>1, <1>9 DEF TakeTask, WaitNotEmpty, BeginTask, EndTask,
                          counters, manage
<1>10. ASSUME NEW w \in Slots, SpuriousWakeup(w) PROVE Counted'
  BY <1>10 DEF SpuriousWakeup, FixedPool
<1> QED
  BY <1>2, <1>3, <1>4, <1>5, <1>6, <1>7, <1>8, <1>9, <1>10
  DEF Next, Freed, Worker

LEMMA CountedIdle == Counted => FreedWhenIdle
<1> SUFFICES ASSUME Counted, ~Alive, NEW w \in Slots PROVE pc[w] = "none"
  BY DEF FreedWhenIdle
<1> DEFINE N == {v \in Slots : pc[v] = "none"}
<1>1. N \in SUBSET Slots /\ Count(pc, "none") = Cardinality(N)
  BY DEF Count
<1>2. num_live = 0 /\ num_live = num_max - Count(pc, "none")
  BY DEF Counted, Alive
<1>3. w \in N => pc[w] = "none"
  OBVIOUS
<1> HIDE DEF N
<1>4. Cardinality(N) \in Nat /\ num_max \in Nat
  BY <1>1, SlotsFinite, FS_Subset, FS_CardinalityType, PoolAssumption
<1>5. Cardinality(N) = Cardinality(Slots)
  BY <1>1, <1>2, <1>4, SlotsFinite
<1>6. N = Slots
  BY <1>1, <1>5, SlotsFinite, FS_Subset
<1> QED
  BY <1>3, <1>6

(* In a pool of fixed size, such as the timer manager's, and with a         *)
(* cnd_wait that returns only when signalled, tp_destroy frees the memory   *)
(* of the pool after every worker has left it.                              *)
THEOREM PoolFreedWhenIdle == FixedPool /\ Spec => []FreedWhenIdle
<1> SUFFICES ASSUME FixedPool PROVE Spec => []FreedWhenIdle
  OBVIOUS
<1>1. tp_create => Counted
  BY InitCounted
<1>2. Inv /\ Counted /\ [Next]_vars => Counted'
  BY StepCounted DEF Inv
<1>3. Spec => []Inv
  BY PoolInvariant
<1> QED
  BY <1>1, <1>2, <1>3, CountedIdle, PTL DEF Spec

-----------------------------------------------------------------------------
(* The pool implements the queue of TaskQueue.                              *)

(* A task is in one place of the ring buffer, held by one worker, or        *)
(* executed.                                                                *)
Once ==
    /\ \A i, j \in 0 .. size - 1 :
          tasks[Wrap(front + i)] = tasks[Wrap(front + j)] => i = j
    /\ \A i \in 0 .. size - 1 :
          /\ tasks[Wrap(front + i)] \notin executed
          /\ \A w \in Slots : tasks[Wrap(front + i)] # task[w]
    /\ \A w \in Slots : task[w] \notin executed
    /\ \A v, w \in Slots : task[v] = task[w] /\ task[v] # NoTask => v = w

LEMMA InitOnce == tp_create => Once
BY DEF tp_create, Once

LEMMA KeepOnce ==
    ASSUME Once, UNCHANGED <<ring, task, executed>>
    PROVE  Once'
BY DEF Once, ring

LEMMA StepOnce ==
    ASSUME Inv, Once, [Next]_vars
    PROVE  Once'
<1>0. /\ Types /\ RingShape /\ HoldsTask
      /\ task \in [Slots -> Tasks \cup {NoTask}] /\ executed \in SUBSET Tasks
  BY DEF Inv, Types
<1>1. CASE Aside
  BY <1>1, AsideLeaves, KeepOnce
<1>2. ASSUME NEW t \in Tasks, tp_add_task(t) PROVE Once'
  <2>1. /\ size \in Nat /\ size' = size + 1
        /\ \A i \in 0 .. size - 1 :
              tasks'[Wrap(front' + i)] = tasks[Wrap(front + i)]
        /\ tasks'[Wrap(front + size)] = t
    BY <1>0, <1>2, AddBacklog
  <2>2. /\ UNCHANGED <<task, executed, front>>
        /\ t \notin executed
        /\ \A i \in 0 .. size - 1 : tasks[Wrap(front + i)] # t
        /\ \A w \in Slots : task[w] # t
    <3>1. t # NoTask
      BY PoolAssumption
    <3> QED
      BY <1>2, <3>1 DEF tp_add_task, Submitted, Held
  <2>3. tasks'[Wrap(front' + size)] = t
    BY <2>1, <2>2
  <2>4. \A i \in 0 .. size' - 1 : i = size \/ i \in 0 .. size - 1
    BY <2>1
  <2>5. \A i, j \in 0 .. size' - 1 :
           tasks'[Wrap(front' + i)] = tasks'[Wrap(front' + j)] => i = j
    BY <2>1, <2>2, <2>3, <2>4 DEF Once
  <2>6. \A i \in 0 .. size' - 1 :
           /\ tasks'[Wrap(front' + i)] \notin executed'
           /\ \A w \in Slots : tasks'[Wrap(front' + i)] # task'[w]
    BY <2>1, <2>2, <2>3, <2>4 DEF Once
  <2> QED
    BY <2>2, <2>5, <2>6 DEF Once
<1>3. ASSUME NEW w \in Slots, TakeTask(w) PROVE Once'
  <2>1. /\ size \in Nat \ {0} /\ size' = size - 1
        /\ \A i \in 0 .. size - 2 :
              tasks'[Wrap(front' + i)] = tasks[Wrap(front + i + 1)]
        /\ tasks[Wrap(front)] = task'[w]
        /\ front \in Int
    BY <1>0, <1>3, TakeBacklog DEF Types, Places
  <2>2. task' = [task EXCEPT ![w] = tasks[front]] /\ UNCHANGED executed
    BY <1>3 DEF TakeTask
  <2>3. \A i \in 0 .. size - 2 :
           /\ i + 1 \in 0 .. size - 1 /\ i + 1 # 0
           /\ front + i + 1 = front + (i + 1)
    BY <2>1
  <2>4. 0 \in 0 .. size - 1 /\ front + 0 = front /\ 0 .. size' - 1 = 0 .. size - 2
    BY <2>1
  <2>5. \A i, j \in 0 .. size' - 1 :
           tasks'[Wrap(front' + i)] = tasks'[Wrap(front' + j)] => i = j
    <3> TAKE i, j \in 0 .. size' - 1
    <3> HAVE tasks'[Wrap(front' + i)] = tasks'[Wrap(front' + j)]
    <3>1. i + 1 = j + 1
      BY <2>1, <2>3, <2>4 DEF Once
    <3> QED
      BY <2>1, <3>1
  <2>6. \A v \in Slots : v # w => task'[v] = task[v]
    BY <1>0, <2>2
  <2>7. \A i \in 0 .. size' - 1 :
           /\ tasks'[Wrap(front' + i)] \notin executed'
           /\ \A v \in Slots : tasks'[Wrap(front' + i)] # task'[v]
    <3> TAKE i \in 0 .. size' - 1
    <3>1. /\ tasks'[Wrap(front' + i)] = tasks[Wrap(front + (i + 1))]
          /\ i + 1 \in 0 .. size - 1 /\ i + 1 # 0
      BY <2>1, <2>3, <2>4
    <3>2. tasks[Wrap(front + (i + 1))] # tasks[Wrap(front + 0)]
      BY <2>4, <3>1 DEF Once
    <3> QED
      BY <2>1, <2>2, <2>4, <2>6, <3>1, <3>2 DEF Once
  <2>8. task'[w] \notin executed /\ \A v \in Slots : task[v] # task'[w]
    BY <2>1, <2>4 DEF Once
  <2>9. \A v \in Slots : task'[v] \notin executed'
    BY <2>2, <2>6, <2>8 DEF Once
  <2>10. \A u, v \in Slots : task'[u] = task'[v] /\ task'[u] # NoTask => u = v
    BY <2>6, <2>8 DEF Once
  <2> QED
    BY <2>5, <2>7, <2>9, <2>10 DEF Once
<1>4. ASSUME NEW w \in Slots, BeginTask(w) PROVE Once'
  BY <1>4, KeepOnce DEF BeginTask
<1>5. ASSUME NEW w \in Slots, EndTask(w) PROVE Once'
  <2>1. /\ task' = [task EXCEPT ![w] = NoTask]
        /\ executed' = executed \cup {task[w]}
        /\ UNCHANGED ring /\ task[w] \in Tasks
    BY <1>0, <1>5 DEF EndTask, HoldsTask
  <2>2. NoTask \notin Tasks
    BY PoolAssumption
  <2>3. \A v \in Slots : task'[v] = IF v = w THEN NoTask ELSE task[v]
    BY <1>0, <2>1
  <2>4. \A v \in Slots : task'[v] \notin executed'
    BY <1>0, <2>1, <2>2, <2>3 DEF Once
  <2>5. \A u, v \in Slots : task'[u] = task'[v] /\ task'[u] # NoTask => u = v
    BY <2>3 DEF Once
  <2>6. \A i \in 0 .. size - 1 :
           /\ tasks[Wrap(front + i)] \notin executed'
           /\ \A v \in Slots : tasks[Wrap(front + i)] # task'[v]
    BY <2>1, <2>2, <2>3 DEF Once, RingShape, Inv
  <2> QED
    BY <2>1, <2>4, <2>5, <2>6 DEF Once, ring
<1> QED
  BY <1>1, <1>2, <1>3, <1>4, <1>5, NextCases

(* The three steps that the queue sees. *)
LEMMA AddSubmits ==
    ASSUME Inv, NEW t \in Tasks, tp_add_task(t)
    PROVE  Queue!Submit(t)
<1>1. /\ size \in Nat /\ size' = size + 1 /\ front' = front /\ front \in Int
      /\ \A i \in 0 .. size - 1 :
            tasks'[Wrap(front' + i)] = tasks[Wrap(front + i)]
      /\ tasks'[Wrap(front + size)] = t
      /\ UNCHANGED <<task, executed>>
  <2>1. Types /\ RingShape
    BY DEF Inv
  <2>2. front \in Int /\ UNCHANGED <<front, task, executed>>
    BY <2>1 DEF Types, Places, tp_add_task
  <2> QED
    BY <2>1, <2>2, AddBacklog
<1>2. Len(Backlog) = size /\ DOMAIN Backlog = 1..size
  BY <1>1 DEF Backlog
<1>3. size < Capacity /\ t \notin Submitted \cup Held \cup executed
  BY PoolAssumption DEF tp_add_task, Inv, Types
<1>4. {Backlog[i] : i \in DOMAIN Backlog} = Submitted
  <2>1. \A i \in 1..size : /\ i - 1 \in 0 .. size - 1
                           /\ Backlog[i] = tasks[Wrap(front + (i - 1))]
    BY <1>1 DEF Backlog
  <2>2. \A i \in 0 .. size - 1 : /\ i + 1 \in 1..size
                                 /\ Backlog[i + 1] = tasks[Wrap(front + i)]
    BY <1>1 DEF Backlog
  <2> QED
    BY <1>2, <2>1, <2>2, SMTT(30) DEF Submitted
<1>5. Backlog' = Append(Backlog, t)
  <2>1. Append(Backlog, t)
          = [i \in 1 .. size + 1 |-> IF i = size + 1 THEN t ELSE Backlog[i]]
    BY <1>1, <1>2 DEF Backlog
  <2>2. \A i \in 1 .. size + 1 :
           tasks'[Wrap(front' + i - 1)]
             = IF i = size + 1 THEN t ELSE Backlog[i]
    <3> TAKE i \in 1 .. size + 1
    <3>1. CASE i = size + 1
      <4>1. front' + i - 1 = front + size
        BY <1>1, <3>1
      <4> QED
        BY <1>1, <3>1, <4>1
    <3>2. CASE i # size + 1
      <4>1. i \in 1..size /\ i - 1 \in 0 .. size - 1
            /\ front' + i - 1 = front' + (i - 1)
            /\ front + i - 1 = front + (i - 1)
        BY <1>1, <3>2
      <4> QED
        BY <1>1, <3>2, <4>1 DEF Backlog
    <3> QED
      BY <3>1, <3>2
  <2>3. Backlog' = [i \in 1 .. size + 1 |-> tasks'[Wrap(front' + i - 1)]]
    BY <1>1 DEF Backlog
  <2> QED
    BY <2>1, <2>2, <2>3
<1>6. Held' = Held
  BY <1>1 DEF Held
<1> QED
  BY <1>1, <1>2, <1>3, <1>4, <1>5, <1>6 DEF Queue!Submit

LEMMA TakeTakes ==
    ASSUME Inv, NEW w \in Slots, TakeTask(w)
    PROVE  Queue!Take
<1>1. /\ size \in Nat \ {0} /\ size' = size - 1 /\ front \in Int
      /\ \A i \in 0 .. size - 2 :
            tasks'[Wrap(front' + i)] = tasks[Wrap(front + i + 1)]
      /\ tasks[Wrap(front)] = task'[w]
      /\ UNCHANGED executed
      /\ front' \in Int
  <2>1. Types /\ RingShape
    BY DEF Inv
  <2>2. front \in Places /\ front' = Following(front) /\ UNCHANGED executed
    BY <2>1 DEF Types, TakeTask
  <2>3. front \in Int /\ front' \in Int
    BY <2>2, FollowingType DEF Places
  <2> QED
    BY <2>1, <2>2, <2>3, TakeBacklog
<1>2. /\ Len(Backlog) = size /\ Backlog # <<>>
      /\ Head(Backlog) = task'[w]
  <2>1. front + 1 - 1 = front /\ 1 \in 1..size
    BY <1>1
  <2> QED
    BY <1>1, <2>1 DEF Backlog
<1>3. Backlog' = Tail(Backlog)
  <2>1. Tail(Backlog) = [i \in 1 .. size - 1 |-> Backlog[i + 1]]
    BY <1>1, <1>2, SMTT(30) DEF Backlog
  <2>2. \A i \in 1 .. size - 1 : tasks'[Wrap(front' + i - 1)] = Backlog[i + 1]
    <3> TAKE i \in 1 .. size - 1
    <3>1. /\ i - 1 \in 0 .. size - 2 /\ i + 1 \in 1..size
          /\ front' + i - 1 = front' + (i - 1)
          /\ front + (i - 1) + 1 = front + (i + 1) - 1
      BY <1>1
    <3> QED
      BY <1>1, <3>1 DEF Backlog
  <2>3. Backlog' = [i \in 1 .. size - 1 |-> tasks'[Wrap(front' + i - 1)]]
    BY <1>1 DEF Backlog
  <2> QED
    BY <2>1, <2>2, <2>3
<1>4. Held' = Held \cup {task'[w]}
  <2>1. task[w] = NoTask /\ task \in [Slots -> Tasks \cup {NoTask}]
    BY DEF Inv, HoldsTask, Types, TakeTask
  <2>2. task'[w] \in Tasks
    <3>1. 0 \in 0 .. size - 1 /\ front + 0 = front
      BY <1>1
    <3> QED
      BY <1>1, <3>1 DEF Inv, RingShape
  <2>3. \A v \in Slots : v # w => task'[v] = task[v]
    BY <2>1 DEF TakeTask
  <2> QED
    BY <2>1, <2>2, <2>3, PoolAssumption DEF Held
<1> QED
  BY <1>1, <1>2, <1>3, <1>4 DEF Queue!Take

LEMMA EndFinishes ==
    ASSUME Inv, Once, NEW w \in Slots, EndTask(w)
    PROVE  \E t \in Tasks : Queue!Finish(t)
<1>1. /\ task' = [task EXCEPT ![w] = NoTask]
      /\ executed' = executed \cup {task[w]}
      /\ UNCHANGED ring /\ task[w] \in Tasks /\ NoTask \notin Tasks
      /\ task \in [Slots -> Tasks \cup {NoTask}]
  BY PoolAssumption DEF EndTask, Inv, Types, HoldsTask
<1>2. \A v \in Slots : task'[v] = IF v = w THEN NoTask ELSE task[v]
  BY <1>1
<1>3. Held' = Held \ {task[w]} /\ task[w] \in Held
  BY <1>1, <1>2 DEF Held, Once
<1>4. Backlog' = Backlog
  BY <1>1 DEF Backlog, ring
<1> QED
  BY <1>1, <1>3, <1>4 DEF Queue!Finish

LEMMA StepQueue ==
    ASSUME Inv, Once, [Next]_vars
    PROVE  [Queue!QueueNext]_(Queue!taskVars)
<1>1. ASSUME UNCHANGED <<ring, task, executed>>
      PROVE  UNCHANGED Queue!taskVars
  BY <1>1 DEF Queue!taskVars, Backlog, Held, ring
<1>2. CASE Aside
  BY <1>1, <1>2, AsideLeaves
<1>3. ASSUME NEW t \in Tasks, tp_add_task(t) PROVE Queue!QueueNext
  BY <1>3, AddSubmits DEF Queue!QueueNext
<1>4. ASSUME NEW w \in Slots, TakeTask(w) PROVE Queue!QueueNext
  BY <1>4, TakeTakes DEF Queue!QueueNext
<1>5. ASSUME NEW w \in Slots, BeginTask(w) PROVE UNCHANGED Queue!taskVars
  BY <1>1, <1>5 DEF BeginTask
<1>6. ASSUME NEW w \in Slots, EndTask(w) PROVE Queue!QueueNext
  BY <1>6, EndFinishes DEF Queue!QueueNext
<1> QED
  BY <1>2, <1>3, <1>4, <1>5, <1>6, NextCases

LEMMA InitQueue == tp_create => Queue!QueueInit
<1> SUFFICES ASSUME tp_create PROVE Queue!QueueInit
  OBVIOUS
<1>1. Backlog = <<>>
  BY DEF tp_create, Backlog
<1>2. Held = {}
  BY DEF tp_create, Held
<1> QED
  BY <1>1, <1>2 DEF tp_create, Queue!QueueInit

(* The pool is a bounded first-in first-out queue for any number of workers *)
(* and any capacity, with or without a manager: tasks leave the ring buffer *)
(* in the order in which tp_add_task stored them, each once, and no two     *)
(* workers run the same one.                                                *)
THEOREM PoolServesInOrder == Spec => ServesInOrder
<1>1. tp_create => Once
  BY InitOnce
<1>2. Inv /\ Once /\ [Next]_vars => Once'
  BY StepOnce
<1>3. Inv /\ Once /\ [Next]_vars => [Queue!QueueNext]_(Queue!taskVars)
  BY StepQueue
<1>4. tp_create => Queue!QueueInit
  BY InitQueue
<1>5. Spec => []Inv
  BY PoolInvariant
<1> QED
  BY <1>1, <1>2, <1>3, <1>4, <1>5, PTL DEF Spec, ServesInOrder, Queue!QueueSpec

=============================================================================
