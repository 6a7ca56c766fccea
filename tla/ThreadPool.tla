----------------------------- MODULE ThreadPool -----------------------------
(***************************************************************************)
(* src/src/thread_pool.c: a pool of worker threads over a ring buffer of   *)
(* tasks, with an optional manager thread that adds and retires workers.   *)
(* A worker is named by its slot in workers[].  A critical section of      *)
(* mtx_pool is one step, except the exit of a worker: the manager changes  *)
(* num_live without the mutex, so the worker's decrement is a load and a   *)
(* store, and mtx tells who is between them.                               *)
(***************************************************************************)
EXTENDS Integers, Sequences, FiniteSets

CONSTANTS
    num_min, num_max,    \* the arguments of tp_create
    Capacity,            \* its argument size: places in the ring buffer
    Tasks,               \* the tasks that may be submitted, each at most once
    NoTask,              \* no task
    BatchLimit,          \* batch_limit (2 in the code)
    SpuriousWakeups      \* may cnd_wait return without a signal?

Slots == 0 .. num_max - 1
Places == 0 .. Capacity - 1
Free == -1               \* nobody is inside a worker's exit

ASSUME PoolAssumption ==
    /\ num_min \in Nat /\ num_max \in Nat \ {0} /\ num_min <= num_max
    /\ Capacity \in Nat \ {0}
    /\ NoTask \notin Tasks
    /\ BatchLimit \in Nat \ {0}
    /\ SpuriousWakeups \in BOOLEAN

VARIABLES
    tasks, size, front, rear,      \* the ring buffer
    num_busy, num_live, num_exit, shutdown,
    enable,                        \* workers[i].enable
    mtx,                           \* the worker that exits, or Free
    pc, task,                      \* of each worker; task is its local
    live,                          \* the value a worker loaded from num_live
    manager,                       \* where the manager thread is
    local,                         \* its locals: size, live, increase, i, count, and
                                   \* the value it loaded from num_live
    destroyer,                     \* where the thread in tp_destroy is
    executed                       \* history: the tasks that have run

ring == <<tasks, size, front, rear>>
counters == <<num_busy, num_live, num_exit, shutdown>>
threads == <<enable, mtx, pc, task, live>>
manage == <<manager, local>>
vars == <<ring, counters, threads, manage, destroyer, executed>>

WorkerLocations == {"none", "loop", "waiting", "took", "run", "exit"}
ManagerLocations == {"none", "test", "look", "decide", "grow", "store",
                     "create", "shrink", "sleep", "exited"}
DestroyerLocations == {"idle", "join", "retire", "waiting", "woken", "freed"}
Locals == [size : Nat, live : Int, increase : Int, i : Nat, count : Nat,
           loaded : Int]
NoLocals == [size |-> 0, live |-> 0, increase |-> 0, i |-> 0, count |-> 0,
             loaded |-> 0]

TypeOK ==
    /\ tasks \in [Places -> Tasks \cup {NoTask}]
    /\ size \in 0..Capacity /\ front \in Places /\ rear \in Places
    /\ num_busy \in 0..num_max /\ num_live \in Int /\ num_exit \in Int
    /\ shutdown \in BOOLEAN
    /\ enable \in [Slots -> BOOLEAN]
    /\ mtx \in Slots \cup {Free}
    /\ pc \in [Slots -> WorkerLocations]
    /\ task \in [Slots -> Tasks \cup {NoTask}]
    /\ live \in [Slots -> Int]
    /\ manager \in ManagerLocations
    /\ local \in Locals
    /\ destroyer \in DestroyerLocations
    /\ executed \in SUBSET Tasks

(* tp_create: the first num_min slots have a worker; there is a manager     *)
(* only if num_min < num_max.                                               *)
tp_create ==
    /\ tasks = [p \in Places |-> NoTask]
    /\ size = 0 /\ front = 0 /\ rear = 0
    /\ num_busy = 0 /\ num_live = num_min /\ num_exit = 0 /\ shutdown = FALSE
    /\ enable = [w \in Slots |-> w < num_min]
    /\ mtx = Free
    /\ pc = [w \in Slots |-> IF w < num_min THEN "loop" ELSE "none"]
    /\ task = [w \in Slots |-> NoTask]
    /\ live = [w \in Slots |-> 0]
    /\ manager = IF num_min < num_max THEN "test" ELSE "none"
    /\ local = NoLocals
    /\ destroyer = "idle"
    /\ executed = {}

Lesser(a, b) == IF a < b THEN a ELSE b
Waiting == {w \in Slots : pc[w] = "waiting"}

(* The next place of the ring buffer, as tp_add_task and worker compute it. *)
Following(p) == IF p >= Capacity - 1 THEN 0 ELSE p + 1

(* Mutant: tp_add_task signals only when the ring buffer was empty. *)
SignalNotEmpty_first ==
    IF Waiting = {} \/ size > 0 THEN UNCHANGED pc
    ELSE \E w \in Waiting : pc' = [pc EXCEPT ![w] = "loop"]

(* cnd_signal and cnd_broadcast on cnd_notempty: a woken worker leaves      *)
(* cnd_wait, unlocks and starts its loop again.                             *)
SignalNotEmpty ==
    IF Waiting = {} THEN UNCHANGED pc
    ELSE \E w \in Waiting : pc' = [pc EXCEPT ![w] = "loop"]

BroadcastNotEmpty ==
    pc' = [w \in Slots |-> IF pc[w] = "waiting" THEN "loop" ELSE pc[w]]

(* The i-th of the stored tasks, counted from the oldest, is at the place   *)
(* Wrap(front + i).                                                         *)
Wrap(p) == IF p < Capacity THEN p ELSE p - Capacity

Backlog == [i \in 1..size |-> tasks[Wrap(front + i - 1)]]
Submitted == {tasks[Wrap(front + i)] : i \in 0 .. size - 1}
Held == {task[w] : w \in Slots} \ {NoTask}

-----------------------------------------------------------------------------
(* Calls of the host while the pool exists. *)

(* tp_add_task stores the task at rear; when the ring buffer is full it     *)
(* returns 0 and nothing changes.                                           *)
tp_add_task(t) ==
    /\ mtx = Free
    /\ destroyer = "idle"
    /\ t \notin Submitted \cup Held \cup executed
    /\ size # Capacity
    /\ tasks' = [tasks EXCEPT ![rear] = t]
    /\ rear' = Following(rear)
    /\ size' = size + 1
    /\ SignalNotEmpty
    /\ UNCHANGED <<front, counters, enable, mtx, task, live, manage,
                   destroyer, executed>>

(* tp_destroy up to thrd_join of the manager, or, without a manager, up to  *)
(* cnd_wait.                                                                *)
tp_destroy ==
    /\ mtx = Free
    /\ destroyer = "idle"
    /\ shutdown' = TRUE
    /\ destroyer' = IF manager = "none" THEN "retire" ELSE "join"
    /\ UNCHANGED <<ring, num_busy, num_live, num_exit, threads, manage,
                   executed>>

JoinManager ==
    /\ destroyer = "join"
    /\ manager = "exited"
    /\ destroyer' = "retire"
    /\ UNCHANGED <<ring, counters, threads, manage, executed>>

(* Mutant: tp_destroy does not wake the workers. *)
RetireWorkers_silent ==
    /\ destroyer = "retire"
    /\ mtx = Free
    /\ num_exit' = num_live
    /\ destroyer' = "waiting"
    /\ UNCHANGED <<ring, num_busy, num_live, shutdown, threads, manage,
                   executed>>

(* All workers are told to exit; cnd_wait(&cnd_shutdown) has no predicate.  *)
RetireWorkers ==
    /\ destroyer = "retire"
    /\ mtx = Free
    /\ num_exit' = num_live
    /\ BroadcastNotEmpty
    /\ destroyer' = "waiting"
    /\ UNCHANGED <<ring, num_busy, num_live, shutdown, enable, mtx, task,
                   live, manage, executed>>

FreePool ==
    /\ destroyer = "woken" \/ (destroyer = "waiting" /\ SpuriousWakeups)
    /\ mtx = Free
    /\ destroyer' = "freed"
    /\ UNCHANGED <<ring, counters, threads, manage, executed>>

-----------------------------------------------------------------------------
(* The workers. *)

(* num_exit > 0: the worker finds its slot, gives it back, and loads        *)
(* num_live ...                                                             *)
ExitLoad(w) ==
    /\ pc[w] = "loop" /\ mtx = Free
    /\ num_exit > 0
    /\ enable' = [enable EXCEPT ![w] = FALSE]
    /\ num_exit' = num_exit - 1
    /\ live' = [live EXCEPT ![w] = num_live]
    /\ pc' = [pc EXCEPT ![w] = "exit"]
    /\ mtx' = w
    /\ UNCHANGED <<ring, num_busy, num_live, shutdown, task, manage,
                   destroyer, executed>>

(* Mutant: every worker that exits signals cnd_shutdown. *)
ExitStore_signals(w) ==
    /\ pc[w] = "exit"
    /\ num_live' = live[w] - 1
    /\ destroyer' = IF destroyer = "waiting" THEN "woken" ELSE destroyer
    /\ pc' = [pc EXCEPT ![w] = "none"]
    /\ live' = [live EXCEPT ![w] = 0]
    /\ mtx' = Free
    /\ UNCHANGED <<ring, num_busy, num_exit, shutdown, enable, task, manage,
                   executed>>

(* ... stores it decremented, signals cnd_shutdown if it is zero, unlocks   *)
(* and returns.                                                             *)
ExitStore(w) ==
    /\ pc[w] = "exit"
    /\ num_live' = live[w] - 1
    /\ destroyer' = IF num_live' = 0 /\ destroyer = "waiting" THEN "woken"
                    ELSE destroyer
    /\ pc' = [pc EXCEPT ![w] = "none"]
    /\ live' = [live EXCEPT ![w] = 0]
    /\ mtx' = Free
    /\ UNCHANGED <<ring, num_busy, num_exit, shutdown, enable, task, manage,
                   executed>>

(* Mutant: the worker takes the task that was stored last. *)
TakeTask_last(w) ==
    /\ pc[w] = "loop" /\ mtx = Free
    /\ num_exit <= 0
    /\ size > 0
    /\ task' = [task EXCEPT ![w] = tasks[Wrap(rear + Capacity - 1)]]
    /\ rear' = Wrap(rear + Capacity - 1)
    /\ size' = size - 1
    /\ pc' = [pc EXCEPT ![w] = "took"]
    /\ UNCHANGED <<tasks, front, counters, enable, mtx, live, manage,
                   destroyer, executed>>

(* size > 0: take the front of the ring buffer. *)
TakeTask(w) ==
    /\ pc[w] = "loop" /\ mtx = Free
    /\ num_exit <= 0
    /\ size > 0
    /\ task' = [task EXCEPT ![w] = tasks[front]]
    /\ front' = Following(front)
    /\ size' = size - 1
    /\ pc' = [pc EXCEPT ![w] = "took"]
    /\ UNCHANGED <<tasks, rear, counters, enable, mtx, live, manage,
                   destroyer, executed>>

(* Mutant: the worker waits without a look at size. *)
WaitNotEmpty_unchecked(w) ==
    /\ pc[w] = "loop" /\ mtx = Free
    /\ num_exit <= 0
    /\ pc' = [pc EXCEPT ![w] = "waiting"]
    /\ UNCHANGED <<ring, counters, enable, mtx, task, live, manage,
                   destroyer, executed>>

(* Nothing to do: wait for cnd_notempty. *)
WaitNotEmpty(w) ==
    /\ pc[w] = "loop" /\ mtx = Free
    /\ num_exit <= 0
    /\ size = 0
    /\ pc' = [pc EXCEPT ![w] = "waiting"]
    /\ UNCHANGED <<ring, counters, enable, mtx, task, live, manage,
                   destroyer, executed>>

SpuriousWakeup(w) ==
    /\ SpuriousWakeups
    /\ pc[w] = "waiting"
    /\ pc' = [pc EXCEPT ![w] = "loop"]
    /\ UNCHANGED <<ring, counters, enable, mtx, task, live, manage,
                   destroyer, executed>>

(* Run the task, with num_busy raised meanwhile. *)
BeginTask(w) ==
    /\ pc[w] = "took"
    /\ num_busy' = num_busy + 1
    /\ pc' = [pc EXCEPT ![w] = "run"]
    /\ UNCHANGED <<ring, num_live, num_exit, shutdown, enable, mtx, task,
                   live, manage, destroyer, executed>>

EndTask(w) ==
    /\ pc[w] = "run"
    /\ num_busy' = num_busy - 1
    /\ executed' = executed \cup {task[w]}
    /\ task' = [task EXCEPT ![w] = NoTask]
    /\ pc' = [pc EXCEPT ![w] = "loop"]
    /\ UNCHANGED <<ring, num_live, num_exit, shutdown, enable, mtx, live,
                   manage, destroyer>>

Worker(w) ==
    \/ ExitLoad(w) \/ ExitStore(w) \/ TakeTask(w) \/ WaitNotEmpty(w)
    \/ BeginTask(w) \/ EndTask(w)

-----------------------------------------------------------------------------
(* The manager.                                                             *)

(* while (!pool->shutdown) *)
TestShutdown ==
    /\ manager = "test"
    /\ manager' = IF shutdown THEN "exited" ELSE "look"
    /\ UNCHANGED <<ring, counters, threads, local, destroyer, executed>>

(* Copy size and num_live under the mutex. *)
Look ==
    /\ manager = "look" /\ mtx = Free
    /\ local' = [local EXCEPT !.size = size, !.live = num_live]
    /\ manager' = "decide"
    /\ UNCHANGED <<ring, counters, threads, destroyer, executed>>

(* Grow, shrink or neither, by the copies and the current num_busy. *)
Decide ==
    /\ manager = "decide"
    /\ IF local.size > local.live /\ local.live < num_max
       THEN /\ manager' = "grow"
            /\ local' = [local EXCEPT !.increase =
                  Lesser(BatchLimit,
                         Lesser(local.size - local.live, num_max - local.live))]
       ELSE /\ manager' = IF num_busy * 2 < local.live /\ local.live > num_min
                          THEN "shrink" ELSE "sleep"
            /\ UNCHANGED local
    /\ UNCHANGED <<ring, counters, threads, destroyer, executed>>

(* num_live += increase, without the mutex: a load and a store. *)
GrowLoad ==
    /\ manager = "grow"
    /\ local' = [local EXCEPT !.loaded = num_live]
    /\ manager' = "store"
    /\ UNCHANGED <<ring, counters, threads, destroyer, executed>>

GrowStore ==
    /\ manager = "store"
    /\ num_live' = local.loaded + local.increase
    /\ manager' = "create"
    /\ UNCHANGED <<ring, num_busy, num_exit, shutdown, threads, local,
                   destroyer, executed>>

(* One round of the loop over the slots, without the mutex.  The slot of a  *)
(* worker that cleared its enable and is still leaving is taken once it has *)
(* left: until then the two threads do nothing the other can see.           *)
CreateWorker ==
    /\ manager = "create"
    /\ IF local.i < num_max /\ local.count < local.increase
       THEN IF enable[local.i]
            THEN /\ local' = [local EXCEPT !.i = @ + 1]
                 /\ UNCHANGED <<enable, pc, manager>>
            ELSE /\ enable' = [enable EXCEPT ![local.i] = TRUE]
                 /\ pc[local.i] = "none"
                 /\ pc' = [pc EXCEPT ![local.i] = "loop"]
                 /\ local' = [local EXCEPT !.i = @ + 1, !.count = @ + 1]
                 /\ UNCHANGED manager
       ELSE /\ manager' = "sleep"
            /\ UNCHANGED <<enable, pc, local>>
    /\ UNCHANGED <<ring, counters, mtx, task, live, destroyer, executed>>

(* Ask up to batch_limit workers to exit, by the copy of num_live. *)
Shrink ==
    /\ manager = "shrink" /\ mtx = Free
    /\ num_exit' = Lesser(local.live - num_min, BatchLimit)
    /\ BroadcastNotEmpty
    /\ manager' = "sleep"
    /\ UNCHANGED <<ring, num_busy, num_live, shutdown, enable, mtx, task,
                   live, local, destroyer, executed>>

(* cnd_timedwait for three seconds, which a signal of cnd_shutdown only     *)
(* shortens.                                                                *)
Sleep ==
    /\ manager = "sleep" /\ mtx = Free
    /\ manager' = "test"
    /\ local' = NoLocals
    /\ UNCHANGED <<ring, counters, threads, destroyer, executed>>

Manager ==
    \/ TestShutdown \/ Look \/ Decide \/ GrowLoad \/ GrowStore
    \/ CreateWorker \/ Shrink \/ Sleep

-----------------------------------------------------------------------------
(* Once the pool is freed nothing is specified any more. *)
Alive == destroyer # "freed"

Freed == ~Alive /\ UNCHANGED vars

Next ==
    \/ /\ Alive
       /\ \/ \E t \in Tasks : tp_add_task(t)
          \/ tp_destroy \/ JoinManager \/ RetireWorkers \/ FreePool
          \/ \E w \in Slots : Worker(w) \/ SpuriousWakeup(w)
          \/ Manager
    \/ Freed

Spec == tp_create /\ [][Next]_vars

(* Every thread goes on, tasks return, and a call of tp_destroy runs on.    *)
(* Nothing makes the host submit a task or destroy the pool.                *)
Fairness ==
    /\ \A w \in Slots : WF_vars(Alive /\ Worker(w))
    /\ WF_vars(Alive /\ Manager)
    /\ WF_vars(Alive /\ (JoinManager \/ RetireWorkers \/ FreePool))

FairSpec == Spec /\ Fairness

-----------------------------------------------------------------------------
(* No wake-up is lost: while a worker waits on cnd_notempty, at least as    *)
(* many workers are awake and about to look at the ring buffer as there are *)
(* tasks in it.  It takes a signal for every task, since workers that end a *)
(* task compete with those that were woken and workers told to exit leave   *)
(* without a look.                                                          *)
NoIdleBacklog ==
    Waiting # {} => size <= Cardinality({w \in Slots : pc[w] = "loop"})

(* tp_destroy frees the pool only after the last worker has left it, though *)
(* it waits once, without a predicate.  It is so for a pool without manager *)
(* and without spurious wake-ups.                                           *)
FreedWhenIdle == ~Alive => \A w \in Slots : pc[w] = "none"

(* A task that tp_add_task accepted is executed, unless the pool is         *)
(* destroyed first.                                                         *)
TasksExecuted ==
    \A t \in Tasks : t \in Submitted ~> (t \in executed \/ destroyer # "idle")

(* tp_destroy returns, whatever the workers are doing when it is called.    *)
DestroyReturns == (destroyer # "idle") ~> ~Alive

Queue == INSTANCE TaskQueue WITH queue <- Backlog, running <- Held

(* The pool is a bounded first-in first-out queue from which each task is   *)
(* taken once: the ring buffer loses, repeats and reorders nothing when it  *)
(* wraps round or is full, and no two workers run the same task.            *)
ServesInOrder == Queue!QueueSpec

=============================================================================
