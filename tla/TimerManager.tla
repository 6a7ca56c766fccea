----------------------------- MODULE TimerManager -----------------------------
(***************************************************************************)
(* The timer manager of src/src/timer_manager.c: a thread that waits in    *)
(* epoll for timerfds and calls back, and the calls by which other threads *)
(* make, start, stop and destroy timers while it runs.  tm_run_after makes *)
(* a timer that calls back once and is then destroyed by the poll thread.  *)
(* tm_create is called with a pool of size 0, as everywhere in the plugin: *)
(* the poll thread calls back itself.                                      *)
(*                                                                         *)
(* Object j of Jobs is the timer_param_t of one call of tm_run_after, an   *)
(* object of Timers or Dummy that of one call of tm_timer_create; Dummy is *)
(* the timer by which tm_destroy wakes the poll thread.  A step of a thread *)
(* is what it does between two accesses that another thread can see.       *)
(* timerfds and epoll are those of Linux; their calls fail only as noted.  *)
(***************************************************************************)
EXTENDS Integers, FiniteSets

CONSTANTS
    Jobs,            \* the calls of tm_run_after, by any thread
    Timers,          \* the timers a client creates with tm_timer_create
    Dummy,           \* dummyfd of tm_destroy
    FDs,             \* file descriptors
    None,            \* no object
    MAX_EVENTS,      \* size of a batch of epoll_wait (32 in the code)
    MaxStarts,       \* bound on the calls of tm_timer_start per timer
    Signals          \* may a signal interrupt epoll_wait?

Objects == Jobs \cup Timers \cup {Dummy}

ASSUME TimerAssumption ==
    /\ Jobs \cap Timers = {} /\ Dummy \notin Jobs \cup Timers
    /\ None \notin Objects /\ None \notin FDs
    /\ MAX_EVENTS \in Nat \ {0}
    /\ MaxStarts \in Nat
    /\ Signals \in BOOLEAN

VARIABLES
    running, callbacks,         \* of the manager; callbacks: fd -> object
    clock, ready, interest,     \* the kernel: what each timerfd is set to,
                                \* which expired unread, which epoll watches
    memory,                     \* of each object: "none", "live" or "freed"
    timerfd, periodic, inepoll, \* its fields
    context,                    \* cb and context: the number of the start
    poll, batch, fd, param, ctx,\* the poll thread and its local variables
    job,                        \* how far each call of tm_run_after is
    nested,                     \* the one made by a callback, or None
    client, timer, result,      \* the thread of the client, the timer it is
                                \* starting or stopping, and ret
    credit,                     \* history: expirations not called back yet
    ran,                        \* history: the jobs called back
    pledged                     \* history: timers whose last start was made
                                \* while no old expiry of theirs was being
                                \* handled, and that have not called back,
                                \* been stopped, or been reported as failed

manager == <<running, callbacks>>
kernel == <<clock, ready, interest>>
fields == <<memory, timerfd, periodic, inepoll, context>>
thread == <<poll, batch, fd, param, ctx>>
calls == <<job, nested>>
host == <<client, timer, result>>
history == <<credit, ran, pledged>>
vars == <<manager, kernel, fields, thread, calls, host, history>>

TypeOK ==
    /\ running \in BOOLEAN
    /\ DOMAIN callbacks \subseteq FDs
    /\ \A f \in DOMAIN callbacks : callbacks[f] \in Objects
    /\ clock \in [FDs -> {"closed", "disarmed", "once", "periodic"}]
    /\ ready \subseteq FDs /\ interest \subseteq FDs
    /\ memory \in [Objects -> {"none", "live", "freed"}]
    /\ timerfd \in [Objects -> FDs \cup {None}]
    /\ periodic \in [Objects -> BOOLEAN]
    /\ inepoll \in [Objects -> BOOLEAN]
    /\ context \in [Objects -> 0..MaxStarts]
    /\ poll \in {"test", "wait", "next", "read", "find", "use", "branch",
                 "erase", "close", "del", "clear", "call", "back", "exited"}
    /\ batch \subseteq FDs
    /\ fd \in FDs \cup {None} /\ param \in Objects \cup {None}
    /\ ctx \in 0..MaxStarts
    /\ job \in [Jobs -> {"none", "add", "store", "returned"}]
    /\ nested \in Jobs \cup {None}
    /\ client \in {"idle", "settime", "periodic", "add", "store", "find",
                   "delete", "dummy", "start", "join", "free", "gone"}
    /\ timer \in Objects \cup {None}
    /\ result \in BOOLEAN
    /\ credit \in [Objects -> Int] /\ ran \subseteq Jobs
    /\ pledged \subseteq Timers

(* tm_create. *)
Init ==
    /\ running = TRUE /\ callbacks = <<>>
    /\ clock = [f \in FDs |-> "closed"] /\ ready = {} /\ interest = {}
    /\ memory = [o \in Objects |-> "none"]
    /\ timerfd = [o \in Objects |-> None]
    /\ periodic = [o \in Objects |-> FALSE]
    /\ inepoll = [o \in Objects |-> FALSE]
    /\ context = [o \in Objects |-> 0]
    /\ poll = "test" /\ batch = {} /\ fd = None /\ param = None /\ ctx = 0
    /\ job = [j \in Jobs |-> "none"] /\ nested = None
    /\ client = "idle" /\ timer = None /\ result = TRUE
    /\ credit = [o \in Objects |-> 0] /\ ran = {}
    /\ pledged = {}

-----------------------------------------------------------------------------
(* The kernel.                                                              *)

(* timerfd_settime forgets the expirations nobody has read. *)
SetTime(f, c) ==
    /\ clock' = [clock EXCEPT ![f] = c]
    /\ ready' = ready \ {f}

(* Closing the only descriptor of a timer also ends epoll's interest. *)
Close(f) ==
    /\ SetTime(f, "closed")
    /\ interest' = interest \ {f}

(* The time a timerfd is set to has come.  (Further expirations change      *)
(* nothing until the first is read.)                                        *)
Expire(f) ==
    /\ clock[f] \in {"once", "periodic"}
    /\ f \notin ready
    /\ \E o \in Objects :
          /\ memory[o] = "live" /\ timerfd[o] = f
          /\ credit' = [credit EXCEPT ![o] = @ + 1]
    /\ ready' = ready \cup {f}
    /\ clock' = [clock EXCEPT ![f] = IF @ = "once" THEN "disarmed" ELSE @]
    /\ UNCHANGED <<manager, interest, fields, thread, calls, host, ran, pledged>>

-----------------------------------------------------------------------------
(* Making timers.                                                           *)

Bound(f, o) ==
    [g \in DOMAIN callbacks \cup {f} |-> IF g = f THEN o ELSE callbacks[g]]

Unbound(f) == [g \in DOMAIN callbacks \ {f} |-> callbacks[g]]

(* timerfd_create, a zeroed timer_param_t, and map_insert under the mutex. *)
Make(o, f) ==
    /\ clock[f] = "closed"
    /\ memory[o] = "none"
    /\ memory' = [memory EXCEPT ![o] = "live"]
    /\ timerfd' = [timerfd EXCEPT ![o] = f]
    /\ callbacks' = Bound(f, o)

autodelete(o) == o \in Jobs

Destroying ==
    client \in {"dummy", "start", "join", "free", "gone"} \/ timer = Dummy

(* Mutant: tm_run_after sets a relative time, and a delay of 0 disarms.     *)
tm_run_after_relative(j, f) ==
    /\ \/ ~Destroying /\ UNCHANGED nested
       \/ poll = "back" /\ nested = None /\ nested' = j
    /\ Make(j, f)
    /\ \E c \in {"once", "disarmed"} : SetTime(f, c)
    /\ job' = [job EXCEPT ![j] = "add"]
    /\ UNCHANGED <<running, interest, periodic, inepoll, context, thread, host,
                   history>>

(* tm_run_after up to timerfd_settime.  Any thread calls it until the host  *)
(* destroys the manager; a callback may call it as long as it runs.         *)
tm_run_after(j, f) ==
    /\ \/ ~Destroying /\ UNCHANGED nested
       \/ poll = "back" /\ nested = None /\ nested' = j
    /\ Make(j, f)
    /\ SetTime(f, "once")
    /\ job' = [job EXCEPT ![j] = "add"]
    /\ UNCHANGED <<running, interest, periodic, inepoll, context, thread, host,
                   history>>

RunAfterAdd(j) ==
    /\ job[j] = "add"
    /\ interest' = interest \cup {timerfd[j]}
    /\ job' = [job EXCEPT ![j] = "store"]
    /\ UNCHANGED <<manager, clock, ready, fields, thread, nested, host, history>>

(* param->inepoll = true.  If the poll thread has destroyed the timer in    *)
(* the meantime the store goes to freed memory, which may be that of        *)
(* another timer by now.                                                    *)
RunAfterStore(j) ==
    /\ job[j] = "store"
    /\ IF memory[j] = "live" THEN inepoll' = [inepoll EXCEPT ![j] = TRUE]
       ELSE \/ UNCHANGED inepoll
            \/ \E o \in Objects : /\ memory[o] = "live"
                                  /\ inepoll' = [inepoll EXCEPT ![o] = TRUE]
    /\ job' = [job EXCEPT ![j] = "returned"]
    /\ nested' = IF nested = j THEN None ELSE nested
    /\ UNCHANGED <<manager, kernel, memory, timerfd, periodic, context, thread,
                   host, history>>

-----------------------------------------------------------------------------
(* The client's thread.                                                     *)

tm_timer_create(t, f) ==
    /\ client = "idle"
    /\ Make(t, f)
    /\ clock' = [clock EXCEPT ![f] = "disarmed"]
    /\ UNCHANGED <<running, ready, interest, periodic, inepoll, context, thread,
                   calls, host, history>>

(* Does the poll thread hold an event of f, or is one there for it? *)
Handling(f) ==
    f \in batch \/ (fd = f /\ poll \in {"read", "find", "use", "branch", "del",
                                        "clear", "call"})

(* tm_timer_start finds the param and sets its cb and context. *)
Found(t) ==
    /\ context' = [context EXCEPT ![t] = @ + 1]
    /\ timer' = t
    /\ client' = "settime"

tm_timer_start(t) ==
    /\ client = "idle"
    /\ memory[t] = "live"
    /\ context[t] < MaxStarts
    /\ Found(t)
    /\ pledged' = IF Handling(timerfd[t]) THEN pledged \ {t} ELSE pledged \cup {t}
    /\ UNCHANGED <<manager, kernel, memory, timerfd, periodic, inepoll, thread,
                   calls, result, credit, ran>>

(* Mutant: tm_timer_start sets a relative time, and 0 disarms. *)
StartSetTime_relative ==
    /\ client = "settime"
    /\ \E c \in {"once", "periodic", "disarmed"} : SetTime(timerfd[timer], c)
    /\ client' = "periodic"
    /\ UNCHANGED <<manager, interest, fields, thread, calls, timer, result, history>>

StartSetTime ==
    /\ client = "settime"
    /\ \E c \in {"once", "periodic"} :
          /\ timer = Dummy => c = "once"
          /\ SetTime(timerfd[timer], c)
    /\ client' = "periodic"
    /\ UNCHANGED <<manager, interest, fields, thread, calls, timer, result, history>>

(* The interval of the start is still what clock says: only an expiry turns *)
(* "once" into "disarmed". *)
StartPeriodic ==
    /\ client = "periodic"
    /\ periodic' = [periodic EXCEPT ![timer] = clock[timerfd[timer]] = "periodic"]
    /\ client' = "add"
    /\ UNCHANGED <<manager, kernel, memory, timerfd, inepoll, context, thread,
                   calls, timer, result, history>>

(* EPOLL_CTL_ADD fails with EEXIST if epoll watches the timer already. *)
StartAdd ==
    /\ client = "add"
    /\ result' = (timerfd[timer] \notin interest)
    /\ interest' = interest \cup {timerfd[timer]}
    /\ client' = "store"
    /\ UNCHANGED <<manager, clock, ready, fields, thread, calls, timer, history>>

StartStore ==
    /\ client = "store"
    /\ inepoll' = [inepoll EXCEPT ![timer] = result]
    /\ pledged' = IF result THEN pledged ELSE pledged \ {timer}
    /\ IF timer = Dummy THEN client' = "join" /\ UNCHANGED timer
       ELSE client' = "idle" /\ timer' = None
    /\ UNCHANGED <<manager, kernel, memory, timerfd, periodic, context, thread,
                   calls, result, credit, ran>>

tm_timer_stop(t) ==
    /\ client = "idle"
    /\ memory[t] = "live"
    /\ SetTime(timerfd[t], "disarmed")
    /\ timer' = t
    /\ client' = "find"
    /\ pledged' = pledged \ {t}
    /\ UNCHANGED <<manager, interest, fields, thread, calls, result, credit, ran>>

StopClear ==
    /\ client = "find"
    /\ IF inepoll[timer]
       THEN /\ inepoll' = [inepoll EXCEPT ![timer] = FALSE]
            /\ client' = "delete"
            /\ UNCHANGED timer
       ELSE client' = "idle" /\ timer' = None /\ UNCHANGED inepoll
    /\ UNCHANGED <<manager, kernel, memory, timerfd, periodic, context, thread,
                   calls, result, history>>

(* Mutant: tm_timer_stop also frees the param, as tm_timer_destroy does. *)
StopDelete_frees ==
    /\ client = "delete"
    /\ interest' = interest \ {timerfd[timer]}
    /\ callbacks' = Unbound(timerfd[timer])
    /\ memory' = [memory EXCEPT ![timer] = "freed"]
    /\ client' = "idle"
    /\ timer' = None
    /\ UNCHANGED <<running, clock, ready, timerfd, periodic, inepoll, context,
                   thread, calls, result, history>>

StopDelete ==
    /\ client = "delete"
    /\ interest' = interest \ {timerfd[timer]}
    /\ client' = "idle"
    /\ timer' = None
    /\ UNCHANGED <<manager, clock, ready, fields, thread, calls, result, history>>

(* tm_destroy, called by the host when no other thread uses the manager.    *)
tm_destroy ==
    /\ client = "idle"
    /\ \A j \in Jobs : job[j] \in {"none", "returned"} \/ nested = j
    /\ running' = FALSE
    /\ client' = "dummy"
    /\ pledged' = {}
    /\ UNCHANGED <<callbacks, kernel, fields, thread, calls, timer, result,
                   credit, ran>>

CreateDummy ==
    /\ client = "dummy"
    /\ \E f \in FDs : Make(Dummy, f) /\ clock' = [clock EXCEPT ![f] = "disarmed"]
    /\ client' = "start"
    /\ UNCHANGED <<running, ready, interest, periodic, inepoll, context, thread,
                   calls, timer, result, history>>

(* Mutant: tm_destroy joins the poll thread without waking it. *)
StartDummy_not ==
    /\ client = "start"
    /\ client' = "join"
    /\ UNCHANGED <<manager, kernel, fields, thread, calls, timer, result, history>>

StartDummy ==
    /\ client = "start"
    /\ timer' = Dummy
    /\ client' = "settime"
    /\ UNCHANGED <<manager, kernel, fields, thread, calls, result, history>>

(* Mutant: tm_destroy does not wait for the poll thread. *)
Join_not ==
    /\ client = "join"
    /\ client' = "free"
    /\ UNCHANGED <<manager, kernel, fields, thread, calls, timer, result, history>>

(* thrd_join. *)
Join ==
    /\ client = "join"
    /\ poll = "exited"
    /\ client' = "free"
    /\ UNCHANGED <<manager, kernel, fields, thread, calls, timer, result, history>>

(* tm_timer_destroy(dummyfd), and every timer left is closed and freed. *)
FreeManager ==
    /\ client = "free"
    /\ memory' = [o \in Objects |-> IF o \in {callbacks[f] : f \in DOMAIN callbacks}
                                    THEN "freed" ELSE memory[o]]
    /\ clock' = [f \in FDs |-> IF f \in DOMAIN callbacks THEN "closed" ELSE clock[f]]
    /\ ready' = ready \ DOMAIN callbacks
    /\ interest' = interest \ DOMAIN callbacks
    /\ callbacks' = <<>>
    /\ client' = "gone"
    /\ timer' = None
    /\ UNCHANGED <<running, timerfd, periodic, inepoll, context, thread, calls,
                   result, history>>

Client ==
    \/ StartSetTime \/ StartPeriodic \/ StartAdd \/ StartStore
    \/ StopClear \/ StopDelete
    \/ CreateDummy \/ StartDummy \/ Join \/ FreeManager

-----------------------------------------------------------------------------
(* The poll thread.                                                         *)

Step(from, to) == poll = from /\ poll' = to

Test ==
    /\ Step("test", IF running THEN "wait" ELSE "exited")
    /\ UNCHANGED <<manager, kernel, fields, batch, fd, param, ctx, calls, host,
                   history>>

(* epoll_wait returns some of the timers that are ready. *)
Wait ==
    /\ Step("wait", "next")
    /\ batch' \in {B \in SUBSET (ready \cap interest) :
                      B # {} /\ Cardinality(B) <= MAX_EVENTS}
    /\ UNCHANGED <<manager, kernel, fields, fd, param, ctx, calls, host, history>>

(* A signal interrupts epoll_wait, and the thread ends. *)
Interrupt ==
    /\ Signals
    /\ Step("wait", "exited")
    /\ UNCHANGED <<manager, kernel, fields, batch, fd, param, ctx, calls, host,
                   history>>

(* Mutant: the loop may go on with an event of an earlier batch. *)
NextEvent_stale ==
    /\ \/ batch = {} /\ Step("next", "test") /\ UNCHANGED <<batch, fd>>
       \/ /\ Step("next", "read")
          /\ fd' \in batch \cup ({fd} \ {None})
          /\ batch' = batch \ {fd'}
    /\ UNCHANGED <<manager, kernel, fields, param, ctx, calls, host, history>>

NextEvent ==
    /\ \/ batch = {} /\ Step("next", "test") /\ UNCHANGED <<batch, fd>>
       \/ /\ Step("next", "read")
          /\ fd' \in batch
          /\ batch' = batch \ {fd'}
    /\ UNCHANGED <<manager, kernel, fields, param, ctx, calls, host, history>>

(* Mutant: the timer is not read, so it stays ready. *)
Read_not ==
    /\ Step("read", "find")
    /\ UNCHANGED <<manager, kernel, fields, batch, fd, param, ctx, calls, host,
                   history>>

(* read; without an unread expiration it fails, which nobody looks at. *)
Read ==
    /\ Step("read", "find")
    /\ ready' = ready \ {fd}
    /\ UNCHANGED <<manager, clock, interest, fields, batch, fd, param, ctx,
                   calls, host, history>>

Find ==
    /\ IF fd \in DOMAIN callbacks
       THEN Step("find", "use") /\ param' = callbacks[fd]
       ELSE Step("find", "next") /\ UNCHANGED param
    /\ UNCHANGED <<manager, kernel, fields, batch, fd, ctx, calls, host, history>>

(* param->cb, param->context and the test of param->autodelete. *)
Use ==
    /\ Step("use", IF autodelete(param) THEN "erase" ELSE "branch")
    /\ ctx' = context[param]
    /\ UNCHANGED <<manager, kernel, fields, batch, fd, param, calls, host, history>>

Erase ==
    /\ Step("erase", "close")
    /\ callbacks' = Unbound(fd)
    /\ UNCHANGED <<running, kernel, fields, batch, fd, param, ctx, calls, host,
                   history>>

CloseFree ==
    /\ Step("close", "call")
    /\ Close(timerfd[param])
    /\ memory' = [memory EXCEPT ![param] = "freed"]
    /\ UNCHANGED <<manager, timerfd, periodic, inepoll, context, batch, fd,
                   param, ctx, calls, host, history>>

Branch ==
    /\ Step("branch", IF periodic[param] THEN "call" ELSE "del")
    /\ UNCHANGED <<manager, kernel, fields, batch, fd, param, ctx, calls, host,
                   history>>

Delete ==
    /\ Step("del", "clear")
    /\ interest' = interest \ {timerfd[param]}
    /\ UNCHANGED <<manager, clock, ready, fields, batch, fd, param, ctx, calls,
                   host, history>>

Clear ==
    /\ Step("clear", "call")
    /\ inepoll' = [inepoll EXCEPT ![param] = FALSE]
    /\ UNCHANGED <<manager, kernel, memory, timerfd, periodic, context, batch,
                   fd, param, ctx, calls, host, history>>

(* cb(ctx); Dummy has no cb. *)
Call ==
    /\ IF param = Dummy THEN Step("call", "next") /\ UNCHANGED history
       ELSE /\ Step("call", "back")
            /\ credit' = [credit EXCEPT ![param] = @ - 1]
            /\ ran' = ran \cup ({param} \cap Jobs)
            /\ pledged' = IF ctx = context[param] THEN pledged \ {param} ELSE pledged
    /\ UNCHANGED <<manager, kernel, fields, batch, fd, param, ctx, calls, host>>

(* The callback returns. *)
Back ==
    /\ nested = None
    /\ Step("back", "next")
    /\ UNCHANGED <<manager, kernel, fields, batch, fd, param, ctx, calls, host,
                   history>>

timer_poll_thread ==
    \/ Test \/ Wait \/ NextEvent \/ Read \/ Find \/ Use \/ Erase \/ CloseFree
    \/ Branch \/ Delete \/ Clear \/ Call \/ Back

-----------------------------------------------------------------------------
RunAfter(j) == RunAfterAdd(j) \/ RunAfterStore(j)

Next ==
    \/ \E j \in Jobs, f \in FDs : tm_run_after(j, f)
    \/ \E j \in Jobs : RunAfter(j)
    \/ \E t \in Timers : \/ \E f \in FDs : tm_timer_create(t, f)
                          \/ tm_timer_start(t) \/ tm_timer_stop(t)
    \/ tm_destroy
    \/ Client
    \/ timer_poll_thread \/ Interrupt
    \/ \E f \in FDs : Expire(f)

Spec == Init /\ [][Next]_vars

(* Threads run, callbacks return, and time passes.  epoll serves the timers *)
(* that are ready in turn, so none is left out for ever.                    *)
Fairness ==
    /\ WF_vars(timer_poll_thread)
    /\ WF_vars(Client)
    /\ \A j \in Jobs : WF_vars(RunAfter(j))
    /\ \A f \in FDs : WF_vars(Expire(f)) /\ SF_vars(Wait /\ f \in batch')

FairSpec == Spec /\ Fairness

-----------------------------------------------------------------------------
(* What the poll thread uses without the mutex is still there: the param it *)
(* found, whoever makes and starts timers meanwhile, and the map entry it   *)
(* is about to erase.  (tm_timer_destroy would break it, were it called     *)
(* while the thread runs.)                                                  *)
PollUsesLiveParams ==
    /\ poll \in {"use", "branch", "erase", "close", "del", "clear"} =>
          memory[param] = "live"
    /\ poll = "erase" => fd \in DOMAIN callbacks /\ callbacks[fd] = param

(* A timer calls back at most once for each of its expirations, although    *)
(* the poll thread may handle an event long after epoll reported it, when   *)
(* the timer has been stopped or started again.                             *)
CallbacksDue ==
    \A o \in Objects : credit[o] >= 0

(* tm_destroy leaves nothing behind and frees nothing that is in use.       *)
DestroyedClean ==
    client = "gone" =>
        /\ poll = "exited"
        /\ \A o \in Objects : memory[o] # "live"
        /\ \A f \in FDs : clock[f] = "closed"

(* Each job of tm_run_after runs once, when its time has come, or is        *)
(* dropped by tm_destroy: what Alarms says.                                 *)
State(j) ==
    IF j \in ran THEN "ran"
    ELSE IF memory[j] = "freed" /\ ~(poll = "call" /\ param = j) THEN "dropped"
    ELSE IF credit[j] > 0 THEN "due"
    ELSE IF job[j] # "none" THEN "waiting"
    ELSE "new"

Promise == INSTANCE Alarms WITH state <- [j \in Jobs |-> State(j)]

ImplementsAlarms == Promise!Spec

(* Every job runs, unless the manager is destroyed. *)
JobsRun ==
    \A j \in Jobs : job[j] = "returned" ~> (j \in ran \/ ~running)

(* A start that reports success, made while no old expiry of the timer is   *)
(* being handled, is followed by its callback, unless the client stops or   *)
(* starts the timer again or destroys the manager.  (Made while the poll    *)
(* thread is about to delete the timer from epoll, it may be forgotten.)    *)
StartedCallsBack == \A t \in Timers : t \in pledged ~> t \notin pledged

(* tm_destroy wakes the poll thread, wherever it is, and returns. *)
DestroyReturns == ~running ~> client = "gone"

=============================================================================
