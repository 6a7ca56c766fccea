------------------------------ MODULE TaskQueue ------------------------------
(***************************************************************************)
(* What a thread pool promises to the code that submits tasks, without its *)
(* threads, ring buffer and condition variables: a bounded first-in first- *)
(* out queue, from which each task is taken once, in the order of          *)
(* submission, and executed at most once.  ThreadPool implements it.       *)
(***************************************************************************)
EXTENDS Naturals, Sequences

CONSTANTS Tasks, Capacity

VARIABLES
    queue,       \* the tasks submitted and not yet taken
    running,     \* the tasks taken and not yet finished
    executed     \* the finished tasks

taskVars == <<queue, running, executed>>

QueueInit == queue = <<>> /\ running = {} /\ executed = {}

Submit(task) ==
    /\ task \notin {queue[i] : i \in DOMAIN queue} \cup running \cup executed
    /\ Len(queue) < Capacity
    /\ queue' = Append(queue, task)
    /\ UNCHANGED <<running, executed>>

Take ==
    /\ queue # <<>>
    /\ queue' = Tail(queue)
    /\ running' = running \cup {Head(queue)}
    /\ UNCHANGED executed

Finish(task) ==
    /\ task \in running
    /\ running' = running \ {task}
    /\ executed' = executed \cup {task}
    /\ UNCHANGED queue

QueueNext == (\E task \in Tasks : Submit(task) \/ Finish(task)) \/ Take

QueueSpec == QueueInit /\ [][QueueNext]_taskVars

=============================================================================
