# A formal model of the KingCloud plugin

The plugin connects a home-automation gateway ("rex", the host program) to the
KingCloud platform over MQTT. It is a shared library of about 7,000 lines of C:
the host calls `rex_init`, `rex_start`, `rex_stop` and `rex_notify` and gives it
one function, `processCmd`, through which the plugin hands it commands. The
plugin keeps an MQTT connection alive, routes the messages that arrive to
handlers, tells the host what the platform asks for, and tells the platform what
the host answers. Most of what can go wrong in it lies between threads: few of
its fields are locked, callbacks of the MQTT library, of a timer thread and of
the host meet in the same structures, and objects are freed by whichever of them
comes last.

This directory holds TLA+ modules translated from the code, TLC configurations
that check them on small instances, and TLAPS proofs of the most important
theorems for every value of the constants.

    tlc -workers 2 -config mqtt_order.cfg MCMqttClient     # one of the runs
    tlapm MqttClientProofs.tla                             # one of the proof modules

`PROJECT.json` lists runs, mutants (a plausible bug for each property, which the
property catches), the lines each definition stands for, the hazards of the code
and the theorems.

## 1. Inventory

### Threads

| thread | runs | modelled as |
|---|---|---|
| host threads | `rex_start`, `rex_stop`, `rex_notify`, `mqtt_publish_ex`, `mqtt_delete` | `"app"` and `Publishers` in MqttClient, `Hosts` in TopicRouter, `HostAnswers`/`Notify` in Requests, `"host"` in Session, the client of TimerManager |
| the Paho thread | `onConnect`, `connlost`, `onConnectFailure`, `messageArrived`, and the handlers they call | `"cb"` in MqttClient, `Paho` in TopicRouter and Requests, `"paho"` in Session |
| timer threads | one poll thread per timer manager, running timer callbacks (`mqtt_retry` runs `retry_start_mqtt`) | `"timer"` in MqttClient, in full in TimerManager |
| pool threads | the workers and the manager of a thread pool | ThreadPool |

### Components

| component | state | operations | hard part | what makes it correct |
|---|---|---|---|---|
| MQTT client (`mqtt.c`) | `running`, `connecting`, `connected`, `waitTime`, `pendingMessages`, retry timers, the state of the Paho client | `mqtt_start`, `mqtt_stop`, `mqtt_delete`, `mqtt_publish_ex`, `do_mqtt_start`, `onConnect`, `connlost`, `onConnectFailure`, retries | the flags are plain fields no lock protects, set after the call they describe; any thread may restart the client | a wanted connection is always being retried; a message is sent once, in order, or given up; a new connection empties the queue |
| topic list (`mqtt.c`, `mqtt_handler.c`) | the linked list `topicList`, the subscriptions at the broker | `mqtt_subscribe_ex`, the look-up in `messageArrived`, the clearing in `connlost`, `init_topics` | `connlost` frees the list without the mutex | one item per topic; what is subscribed is handled; freed items are reached only by a subscriber whose connection was lost, or that came before `connlost` had run |
| thread pool (`thread_pool.c`) | ring buffer, counters, worker slots, mutex and condition variables | `tp_create`, `tp_add_task`, `tp_destroy`, workers, manager | lost wake-ups, unlocked counters, shutdown | a bounded FIFO queue, no lost wake-up, `tp_destroy` returns and frees an idle pool |
| timer manager (`timer_manager.c`) | params, the map from descriptors to params, epoll's interest, timerfds | `tm_create`, `tm_run_after`, `tm_timer_create/start/stop/destroy`, `tm_destroy`, the poll thread | params are used without the mutex; batches of events go stale | one callback per expiration, on a param that exists; jobs run; destroy leaves nothing |
| service calls (`callbacks.c`, `main.c`) | the map of requests in progress, the params of each call | `handle_common_service`, `handle_permit_join`, `handle_scene…`, `handle_ota…`, `rex_notify`, replies | the answer can come before the request is entered, or while another one is being entered in a map that has no lock; params change owner along error paths | answers reach their call, params are destroyed once |
| gateway session (`callbacks.c`, `mqtt_handler.c`, `main.c`) | `instance.devList`; each reply carries what the next request needs; the device map | `rex_start`, `check_register`, `topo_join`, `topo_leave`, `login`, `sub_login`, `sub_logout` and their replies | requests that are disabled or have no reply; replies and notifications in two threads, which share a list without a lock | a new device is pursued until it is logged in; a device that left is not in the map |
| instance, device map (`instance.c`) | devices by id, two lists of timers, the texts of the gateway, the host's callbacks, topics | `instance_init/deinit`, `register_gateway`, `add_device`, `remove_device`, `require/release_timer` | find under one lock, call the host, erase under another, iterators held without a lock; lists locked per operation only; steps of the start that fail one by one | no call erases the node it uses itself; a timer has one user |
| ordered map (`rbtree.c`, `map.c`) | tree nodes | insert, erase, find, iterate | rebalancing | order, colours, equal black heights; agrees with a finite map |
| deque (`deque.h`) | doubly linked lists | emplace, pop, move between lists | links of the neighbours are left as they were | walks from the head read the queue in order |
| configuration tree (`config.c`) | tree of named nodes | parse, get, set, remove, dump | parsing and paths that stop part way | no node is lost; a path leads back to its node |
| variant values (`any.c`) | blocks of memory and who owns them | set, append, map_add, duplicate, free | ownership moves with values; freed pointers stay behind | a block has one owner |
| cson (`cson.c`, tables of `protocol.h`) | the structure that is read and the blocks it points at | read JSON along a table, free along a table | missing fields, errors in the middle, tables that do not describe the structure | what was allocated is freed once |
| globals (`global.c`) | `g_config_root`, `g_server_topics` | `init`, `destroy` | settings in order, each may be missing | topics are made of the settings they name |
| text helpers, AES, logging | none | pure functions | - | test vectors |
| `preprocessor.h`, `contrib/`, `lib/`, `doc/` | - | generated or vendored | - | - |

`g_config`, which says which requests are enabled and under which topics, is used
but never defined at this commit, so the models take it as a parameter (`Topics`
in Requests, `InitTopics` in TopicRouter, `Configs` in Session).

### How the components interact

    host ── rex_* ──> main.c ──> Requests ──publish──> MqttClient ──> Paho ──> platform
      ^                             |  ^                   |  ^          |
      └──────── processCmd ─────────┘  └─ TopicRouter <────┘  │      callbacks
                                           (messageArrived)   │          |
                             TimerManager ── retry_start_mqtt ┴──────────┘
                                  └── ThreadPool (size 0 in the plugin)

The interfaces are cut where one module's abstract promise is what the next one
assumes. MqttClient counts on its timer manager in the shape of a number of armed
retries, each of which fires once: `Alarms` says so, and `TimerManager` is shown
to implement it. A caller of `mqtt_publish_ex` sees an `Outbox`, which MqttClient
is shown to implement. A user of a pool sees a `TaskQueue`, which ThreadPool is
shown to implement. Requests and Session take a publication as
a step, since `mqtt_publish_ex` accepts it at once and keeps the order of what it queues.

## 2. Modules

| module | stands for | state and steps |
|---|---|---|
| `Outbox` | promise of `mqtt_publish_ex` | messages in the hands of callers, waiting, delivered; one action per way a message moves |
| `MqttClient` | connection side of `mqtt.c` | the three flags, `waitTime`, `pendingMessages`, the Paho client (`client`, `events`), armed retries, one program counter per thread. **A step is what a thread does between two accesses another thread can see**, so `do_mqtt_start` is check, connect, `connecting = true`, back-off comparison, the load and the store of `waitTime++`, and arming |
| `TaskQueue` | promise of the pool | bounded FIFO queue and the tasks being run |
| `ThreadPool` | `thread_pool.c` | ring buffer with `front`, `rear`, `size`, the counters, `enable[]`, the owner of the mutex, one program counter per worker, manager and destroyer. Condition variables are sets of waiting threads; a signal wakes any one of them. The mutex is explicit where a thread holds it for more than one step |
| `Alarms` | promise of `tm_run_after` | each job new, waiting, due, ran or dropped |
| `TimerManager` | `timer_manager.c` over timerfd and epoll | `callbacks` (descriptor to param), the clock and readiness of each descriptor, epoll's interest, the fields of each param, the program counter of the poll thread, of each `tm_run_after` and of a client that makes, starts, stops and finally destroys |
| `Requests` | calls in progress, `callbacks.c` 731-1421 and `rex_notify` | what was handed to the host, the map of requests, how often params were destroyed, where the Paho thread and the host's answer are. An insertion is two steps, and a look-up in between may miss |
| `TopicRouter` | topic list of `mqtt.c`, `init_topics` | the linked list node by node, with freed nodes, the mutex, the broker's subscriptions, one program counter per thread. A thread that reads a freed item, or NULL where it had found a list, is `"undefined"` and takes no further step: the C standard says nothing about it |
| `Session` | sub-devices: `rex_start`, `rex_stop` and the node notifications of `main.c`, `check_register` and `init_topics`, `add_device` and `remove_device`, the dialogue of `callbacks.c` 160-375 | the map of devices, the host's network as `getDevList` shows it, the list in `instance.devList`, the requests the platform has not answered; of each thread its place, call, device and iterator, of a call that is interrupted inside `processCmd` its iterator, and who has erased the iterator's node since. A thread that reads an erased node is `"undefined"`, one that reads a list that is freed or being written has `"overrun"` it |
| `SortedMap` | what a user of a map sees | the keys a look-up finds, the first key, and the successor and predecessor of each |
| `RBTree` | `rbtree.c` and the maps of `map.h` over it | the links and colours of the nodes; a call is one step up to the rebalancing, of which each round of a loop is a step. The code's mirrored branches are one action with the side as a parameter |
| `Queues` | `deque.h`, and its users `pendingMessages` (`mqtt.c`), `activeTimers` and `timerPool` (`instance.c`) | `head`, `tail` and the links of each node as the code leaves them, and where each caller of `instance_require_timer` and `instance_release_timer` is; a freed node is what malloc gives next |
| `ConfigTree` | `config.c` | the nodes, those a caller has removed, those that were dropped unlinked, and where the parser or `conf_set` is; a node in a step, each of which may fail |
| `AnyValue` | the ownership of memory in `any.c` | the blocks, and the values of variables; a call in a step |
| `Cson` | `csonJsonStr2Struct` and `csonFreePointer` of `cson.c` along the tables of `protocol.h` | the words of the structure and of each block, the calls that are under way; a field in a step. The text is revealed while it is read, so a step chooses whether the field is there, how many items it has, or whether memory ran out |
| `Startup` | `init` of `global.c`, `instance_init`, `register_gateway`, `rex_start/stop/deinit` | which settings the file has, where each text of the instance comes from, the callbacks in force, topics, the client |
| `MC*` | instances for TLC | symmetry sets, small topics and command codes; `MCTimerUsers` has one kind of user of the timers in each behaviour, `MCStructures` one data structure; `Queues`, `RBTree` and `ConfigTree`, about which theorems are proved, are extended there, the others are instances |
| `Pointers` | the `NULL` that the linked structures share | no state |
| `*Proofs` | theorems | inductive invariants and their proofs |

Actions carry the names of the functions they stand for where they are a whole
function, and say in a comment which part they are otherwise. Definitions named
`X_something` next to `X`, with a comment beginning "Mutant", are not part of the
specification: they are the plausible bugs of `PROJECT.json`, never used by `Next`.

### Decisions of the models

* **MqttClient.** The flags are read and written one by one, since nothing locks
  them: `connecting = true` (mqtt.c:190) may come after the callback that ended the attempt,
  and `connected = false` (586) after a reconnect. `MQTTAsync_connect`, `_disconnect`
  and `_sendMessage` may return an error or accept; callbacks are delivered in order by one thread,
  as the library does. A retry is an armed timer, of which there can be any
  number. `waitTime++` (138) is a load and a store, so a store may undo the reset of
  `onConnect`; `overlapped` is a history variable, and one value stands for every index past the table.
  Freeing the instance ends the behaviour. The topic list is in
  TopicRouter.
* **ThreadPool.** Mutex regions without a wait inside are one step. The plugin creates pools
  of fixed size only, and only through `tm_create`, which passes 0 everywhere
  (then there is no pool at all); the manager of elastic pools is modelled
  all the same, including its unlocked updates of `num_live`.
* **TimerManager.** The pool size is 0, so callbacks run on the poll thread. Kernel calls
  do not fail, but for `EPOLL_CTL_ADD` of a descriptor that is already there and
  `epoll_wait` interrupted by a signal (`Signals`). One client thread makes, starts and stops
  timers; jobs come from any thread. `tm_destroy` is called when no other thread
  is inside `tm_run_after`; a callback may be. A callback and its context are one
  value, counted by start. `credit` and `pledged` are history variables.
* **Requests.** The four kinds are those to which something subscribes: a common
  service, a permit to join, a scene command and an upgrade. Nothing locks the map of requests: from the first to the
  last write of an insertion (`Enter`, `Entered`) a look-up may already find the new request, and may miss any other
  if there are two others to rotate (`Rebalancing`; `Earlier` counts entries of settled
  calls, which are never erased). It does not crash: rotations move nodes and free none. `malloc` succeeds, and the sequence
  number does not wrap. The host answers a service once and reports nothing after
  the end of an upgrade.
* **TopicRouter.** Handlers are left out: each topic always gets the same one, and no
  caller passes NULL, so the removal branch is dead. The broker forgets
  subscriptions with the connection (`cleansession = 1`). Matching is modelled as
  the code does it, next to the standard's matching for the broker: the two
  differ at the parent level of a `#`. `Listed` is what can be reached from the head of
  the list, as a set that is closed under `next`; `Emptying` says that `connlost` is
  inside its loop over the list, which takes no mutex. The test of the list (509) and the read after it (512) are
  two steps. A connection comes up whenever one was asked for, also by a refused publisher (592)
  before the `connlost` of the last one has run: `losses` counts connections that were lost, `emptied` the
  `connlost` that have ended. `since` and `early` are history variables.
* **Session.** Look-ups take no lock, but do not tear: each is one step (what a torn one may miss is in
  Requests). Publications are accepted and `getDevList` succeeds. All devices have one product, so the search of
  `handle_sub_register` ends at the first device. The setting of each request
  (enabled or not, with a reply or not, with a topic and payload that can be made or not) is chosen at the start; logins and logouts of
  devices are publications without consequence in the plugin. Topics are in TopicRouter.
  `processCmd(CMD_REMOVE_NODE)` may begin the removal of the node in the host, which
  later says `NODE_REMOVED`, or says so inside that very call, on the same thread (one call deep: `below`);
  `topo_delete` names one device. A connection attempted before `rex_stop` may still come up after it, since
  `mqtt_stop` leaves it alone. `late`, `awaited` and `restarted` are history variables.
* **Queues.** An operation holds the mutex of its list and is one step; `front` reads
  the head without it. `instance_require_timer` is the test of the pool, the read of its front and the move (229, 234,
  235), `instance_release_timer` a step for each round of its loop and one for the move, and any number of callers
  (`Users`) interleave. A behaviour ends when a caller moves a node that another has moved to the other list since it
  read it (`raced`). The second loop of `instance_deinit` pops the wrong list: it is modelled
  as it is, and closes the same descriptor for ever. A walk makes as many steps as there are nodes, so
  it ends whatever the links say. `line`, `held` and `raced` are history variables.
* **ConfigTree.** A name is one part, or two with a dot between them (`Dotted`: YAML keys may have
  dots, look-ups split at them). What the nodes have for values is left out: they are texts no other call reads.
  `malloc` may fail anywhere. `dropped` holds the items lost at config.c:125, and is a history variable.
* **AnyValue.** `malloc` succeeds (the code checks it in some places only); numbers, truth values and
  null are `"integer"`, since none owns anything. A behaviour ends when a value frees what is not its own.
* **Cson.** Memory is in words of eight bytes, and neighbouring texts of a table are one or two. The
  handlers that read the tables do not compile as committed (`strcpm` at callbacks.c:94, `scan_join`
  defined twice in protocol.h): the model is of the calls they make.
* **Startup.** `init` has no caller in the repository, so the host may call it before `rex_init` or
  never. `register_gateway` does not compile as committed either (`ret` is declared twice, texts
  are passed where their address is due); the model has the calls it evidently makes.

## 3. Runs

All runs finish with TLC on two workers within four minutes.

| run | instance | shows |
|---|---|---|
| `mqtt_order` | 1 publisher, 2 messages, one start, a table of 2 delays | `ServesOutbox`: the client implements the outbox, so a message is in one place, once, and in order |
| `mqtt_restart` | 1 publisher, 1 message, 2 starts and a stop | `NeverStranded`: while the host wants a connection that is down, a retry is under way and will not be ignored; `DelayInTable`: the index leaves the table of delays only after two threads were in the unlocked increment at once |
| `mqtt_liveness` | 1 publisher, 1 message, 1 start, fair | `Reconnects`; `ConnectionFlushesQueue` |
| `pool_fixed` | 3 workers, 3 tasks, capacity 2, fair, deadlock checked | `TasksExecuted`; `DestroyReturns`; `FreedWhenIdle` |
| `pool_elastic` | 1 to 3 workers, 4 tasks, capacity 3, spurious wake-ups | `NoIdleBacklog`: no wake-up is lost; `ServesInOrder`: the pool implements the FIFO queue |
| `requests` | 2 overlapping calls of any of 4 kinds, 1 error code, upgrades of up to 3 reports, fair | `AnswersReachTheirCall`; `ParamsDestroyedOnce`; `AnswersLostInInserts`: an answer is lost before its request is entered or during the insertion of another, and never otherwise; `CallsSettle` |
| `timers_jobs` | 2 jobs, 3 descriptors, or 1 timer started twice; batches of 1, fair | `ImplementsAlarms`; `JobsRun`; `DestroyReturns`; `StartedCallsBack`: outside one named window, a start that reports success calls back |
| `timers_client` | 1 timer started 3 times, 1 job, batches of 2, signals | `PollUsesLiveParams`; `CallbacksDue`; `DestroyedClean` |
| `topics` | 1 host thread, filters `g/+/#` and `d/b`, 3 names, 3 list items, 2 losses, 1 call of the host, fair | `TypeOK`; `OneItemPerTopic`: unless `connlost` is emptying the list, a topic is in it once; `FreedOnlyAfterLoss`; `UnhandledOnlyEarly`; `Resubscribed` |
| `session` | 2 devices that come and go, 2 events (connections that come up and `topo_delete`), 4 configurations | `TypeOK`; `DevicesKeptInUse`: a thread that meets an erased node was hit by the other thread or by a call that interrupted it; `ListKeptInUse`: outside one named case the list of `getDevList` stays in place while it is read; `LeftDevicesUnlisted`: outside two named cases a device that left is not in the map; `NewDevicePursued`: what was announced on a connection is never forgotten before it is logged in |
| `structures` | 9 keys; 2 messages, or 3 timers and 2 callers, in 4 nodes; a configuration of 4 nodes, one name `a` and the dotted `a.a`; 2 variables, 3 blocks; arrays of up to 2 items in 10 blocks | `EachTypeOK`; `RedBlack`: the tree is balanced between calls; `ImplementsMap`: in every round of every call the tree shows exactly the keys of the map, in order; `PendingInOrder`; `TimerHasOneUser`; `NothingLost` and `PathsFound` of the configuration; `OwnedOnce`: a block of a value has one owner; `FreedOnce`: what was read from JSON is freed once |
| `startup` | every file, 3 hosts, 2 calls of `rex_init` | expected violation: `TopicsNameTheGateway`, see section 6 |

**Bounds.** `MaxStarts` (MqttClient) counts the host's starts; one start already has every
thread arm retries, two make a start race with the retries of the last one. The
delay table has 12 entries in the code and 2 in the runs (`LastWait` is its last
index): the only thing the code does with the index is compare it with the last one. Two messages are
enough for an order and for a duplicate. Three workers are what it takes to have
one waiting, one working and one leaving; a capacity below the number of tasks
makes the ring both wrap and fill. With two jobs and a batch of one, one is ready
while the other is served; three starts are a start, the restart that meets its
old event, and one more. Two calls of every kind overlap in every way the single
Paho thread allows. `MaxLosses` 2 gives a lost connection, the next one, and the end of that
one while a thread of the first is still subscribing; the host subscribes a topic of the connect callback, so
both meet in the list, and three items let a freed one differ from those two topics need.
Two devices are what a search and `rex_stop` need to hold the node of one
while the other thread removes it or another one; two events give a second
`check_register` that meets what the first one added, or a `topo_delete` on a connection; the four configurations are a
join with a reply, a registration with a reply and then a join without one, a registration that cannot be made, and
a registration without a reply before a join that cannot be made.
The five structures share no state, so `MCStructures` chooses one at the start of a behaviour: their
states add up. Nine keys let the loops of
`rb_insert_color` and `__rb_erase_color` go up and rotate, with either side. (Ten give a tree of black
height three whose erasure goes up and then rotates; that instance passes as well, alone.) Four nodes
are the least that hold a removed part with something below it next to a tree with two levels; one name
lets a mapping have a key twice, and two siblings in a sequence differ by their place.
(Two names pass as well, alone.) Two callers are one that reads and one that moves in between. The two variables of
`AnyValue` stand for each other, and so do the callers and the timers, so they are symmetry sets. Three
blocks are a container, an item and what replaces it; ten hold two items of every table read, the second of which an object of the first overwrites. Two calls of
`rex_init` are a start and the one after `rex_deinit`.

**Deadlock** is checked in `pool_fixed`. The other runs say `CHECK_DEADLOCK
FALSE`: the host may simply make no further call (the bounds on calls end too),
an instance that was freed does nothing more, a thread or structure that is `"undefined"` stops, and in elastic mode `tp_destroy` can hang (section 6).

### Fairness

Only the program's own threads and the environment's obligations are fair; no
formula makes the host start, publish, submit a task, call or destroy.

* MqttClient: weak fairness of each thread inside a call (threads are scheduled),
  of retries (an armed timer fires: `JobsRun` of `timers_jobs`), of callbacks, and
  of the library ending what it began. Strong fairness of one thing: that the
  library does not refuse every call of `MQTTAsync_connect` for ever. Without it a
  client that is refused each time is never connecting, which is nobody's fault.
* ThreadPool: weak fairness of workers, manager and of a `tp_destroy` that has
  begun. Tasks return.
* Requests: weak fairness of the Paho thread, of `rex_notify` once called, and of
  the host answering what it accepted.
* TimerManager: weak fairness of the poll thread, of the client inside a call, of
  `tm_run_after`, and of time. Strong fairness of each ready descriptor being in
  a batch: the kernel moves a level-triggered descriptor it reported to the end of its ready
  list, so none starves.
* TopicRouter: weak fairness of threads, strong of the callbacks of connections and of messages, of which the library
  has a queue each, and strong of taking the mutex, which is
  always released after a bounded walk. (A mutex of pthreads does not promise it in
  theory; threads here contend a bounded number of times.)

## 4. Proofs

TLAPS proves these for all values of the constants that satisfy the modules'
named assumptions (`ClientAssumption`, `PoolAssumption`, ... in the module that
declares the constants; TLC evaluates them on every run).

* **MqttClientProofs.** `TypeCorrect`, `ClientNeverStranded`, `DelayStaysInTable`,
  `OneCopyOfEach` and `ClientServesOutbox`, for any number of publishers, messages and
  delays. The type invariant needs `HoldsMessage` (a
  thread inside `mqtt_publish_ex` has a message in hand). `NeverStranded` is not
  inductive alone: it needs `Wanted`, that a client the host wants is running and
  that the host is not inside `mqtt_stop` or `mqtt_delete` at the same time, for
  else the timer thread may be joined while a retry still has to be armed. The step proof has
  two ways to keep a retry under way: another thread has one (`Bystander`),
  or the acting thread moves to a place from which it arms one (`Actor`).
  `DelayInTable` needs `Alone`: until two threads overlap, at most one is between the comparison of `waitTime` and the
  store of its increment, and what it has compared or loaded is below the end of the table, also if `onConnect`
  resets the index meanwhile. The refinement of
  `Outbox` needs `OneCopy`: a message is in one place, in the hand of one thread, in
  `pendingMessages`, sent or given up. Each step is then a step of the outbox or a stutter.
* **ThreadPoolProofs.** `PoolTypeCorrect`, `NoLostWakeup`, `PoolServesInOrder` for
  every pool, elastic or fixed, with and without spurious wake-ups;
  `PoolFreedWhenIdle` for a fixed pool without them (`FixedPool`), where `num_live`
  counts the workers that have not left (`Counted`). Lost wake-ups need `Awake`, which
  counts workers and tasks together. The invariant is `Types`,
  `BusyCount` (`num_busy` counts the workers that run a task), `RingShape`
  (`size` is the distance from `front` to `rear`) and `HoldsTask`. The refinement theorem maps each
  step to a step of `TaskQueue` or a stutter.
* **RequestsProofs.** `RequestsTypeCorrect`, `ParamsOnce`, `AnswersLost` and
  `AnswersReach`, for any number of overlapping calls. The invariant relates the commands the host
  has, the map of requests and where the Paho thread is: the call it works on has
  its params and cannot be answered before its insertion begins (`Handling`); a command that is still open
  belongs to the request of its sequence, or to the call about to enter its
  request (`Matching`); sequences in use are past ones (`Numbering`); a call that may
  still be answered has its params (`Pending`).
* **TimerManagerProofs.** `TimersTypeCorrect`, `PollLive`, `CleanDestruction`, `CallbacksAreDue`, and
  `TimersImplementAlarms`: a step of the manager is a step of `Alarms` or a stutter, for
  any number of jobs, timers and descriptors. The invariant is `TypeOK`,
  `Binding` (a map entry and the descriptor of a live param point at each other),
  `Polling` (what the poll thread holds), `Hosting` (what the client holds) and
  `Running` (a job that is being made is not in epoll yet, one that has expired has expired
  once, and one that was freed has run, or is about to). `Running` is what the
  refinement needs; the other three are what `PollLive` and `CleanDestruction` need.
  `CallbacksAreDue` needs `Owed`: the callbacks a param has had, and the expiration the poll
  thread has read from it or the event it still has in its batch, are no more than the expirations so far.
* **SessionProofs.** `SessionTypeCorrect`, `NodesKeptInUse`, `ListStaysInPlace`, `LeftDevicesGone` and
  `AnnouncedPursued`, for the two threads, any number of devices and connections, and every
  setting of the requests. The invariant is `TypeOK`; `Routed`
  (which call takes a thread to which place, and that it has a device there); `Handed` (a thread
  reads the node of the device it is about, and a call that erased its node leaves its iterator alone from then on,
  in whatever order the calls of the two threads and those inside `processCmd` erase);
  `Unlisted` (the host hears of a device before it changes again, and what is listed while the plugin is
  stopped was added too late, and so was one that is listed again when its removal ends); `Pursued` (the host joins a device itself only if no reply to a registration by product does); and
  `Listed` (no connection is attempted or served while `rex_start` works on the list, unless an earlier one was when it began).
* **TopicRouterProofs.** `TopicsTypeCorrect`, `TopicsListedOnce`, `FreedAfterLoss` and
  `UnhandledIsEarly`, for any number of hosts, topics, items and losses. `Locking` says that a thread
  at the list has the mutex and a topic to enter; `Emptied` that `connlost` runs for a connection that was lost, and that
  who found the list empty creates its first item; `Sound` that, unless `connlost` is emptying the list, its items are live and
  distinct and the thread that walks it has passed no item with its topic; `Lasting` that a
  thread that subscribed with no `connlost` due, and whose connection is still there, finds a list and is at a listed item;
  `Brokered` that what the
  broker holds or has sent is listed or about to be, unless it was subscribed too early. A lemma shows that the match of
  `messageArrived` and the broker's agree but at the parent level of a `#`.
  The proof of `OneItemPerTopic` failed at first for a good reason: with two hosts, two topics and an address that
  is used again, TLC finds a topic that is listed twice while `connlost` empties
  the list (section 6), so the property now excepts that time.
* **StructuresProofs.** The queues: `QueuesTypeCorrect`, `PendingKeepsOrder` and `TimersHaveOneUser`, for any
  number of nodes, messages and timers. A walk is defined by recursion, so what it
  meets is an induction: the library's induction theorems are out of the provers' reach, but
  `Inductive` gets the same for a *set* of numbers from the natural numbers being well-founded. `WalkChain`
  (a walk of a list meets that list) and `WalkWithin` (a walk stays where the links stay)
  are proved so. The invariant says that `pendingMessages` is a list (`Ordered`), and of the
  timers that those in reach of `activeTimers` are linked both ways (`InReach`), that the
  pool is a stack of timers nobody holds (`Stacked`), and that no node is in both; and of the callers that what one is
  about to move is allocated and, if it gives it back, is the timer that it releases (`Placed`). As long as no caller
  has moved what another moved before it (`raced`), each step of each caller keeps this (`ReadsSharing`, `TakeSharing`, `GiveSharing`). The tail of
  `activeTimers` may be out of reach (section 6): the invariant only asks that it is allocated and has no next.

  The configuration: `ConfTypeCorrect`, `NothingIsLost` and `PathsAreFound`, for any number
  of nodes and names, any depth, and with `malloc` failing anywhere. The invariant `ConfInv` is
  the types; `Good`, that the trees of the tops (the configuration, what callers have removed and what
  the parser is filling) are `Sound`, where each child names its parent and is a child once,
  and that together they hold every allocated node but those dropped at config.c:125; and `PathInv`, that the
  names below a mapping are `Distinct` and that every node `HasPaths`, the names on the way up from it.
  The nodes below another are the least set closed under `children`, so what
  a step does to them is shown by giving a closed set and, the other way round, a walk to each of its
  members, by `Inductive` over its length. `PathsAreFound` then follows a path down again: at
  each level the names are distinct, so the look-up takes the child the walk came from.

  And the search tree under the colours of `RBTree`, which RBTreeProofs extends. `Shape(t, S, b)` says that
  the tree has the keys `S`, where the bounds `b` of a node are the two keys (or ends) between which
  everything below it lies: a child takes one bound from its parent, and has the parent as the other. One
  lemma for each change of the tree gives the bounds after it: a new leaf (`BelowKeeps`), a
  rotation (`RotateKeeps`), a node that is spliced out (`DropKeeps`), and a node that its successor
  replaces (`RenameKeeps`, `SubstituteIs`). The distance between the bounds shrinks on every way down, so it
  is a rank: the recursive functions (`Search`, `Outermost`, `Neighbour`) have a value for each node
  (`Recursion`), and what they return is shown by induction over the rank (`RankInduction`). `ShownIs` concludes that what a
  user sees of any tree of that shape is the sorted set of its keys.
* **RBTreeProofs.** `TreeTypeCorrect`, `RedBlackHolds` and `MapIsImplemented`, for every finite set of integer keys.
  The colours are stated with a number of black nodes `h[n]` for each node, the same on both sides (`Even`), and with
  the only node that may be red under a red father (`Calm`). `Settled` is the tree between calls; `Inserting` allows a
  red conflict at `node`; `Erasing` lacks one black node on the side of `parent` where `node` is. The invariant
  `TreeHolds` is that the tree has one of these, as the loop that is under way says, for some
  set of keys and some `h`. A rotation moves heights between two nodes (`RotateLevels`); each round of
  the two loops is then a lemma about one such change, from one of the three to another (`RecolorHolds`,
  `TurnHolds`, `LiftHolds`, `PrepareHolds`, `UpHolds`, `StraightenHolds`, `LastHolds`). The balance that `RedBlack`
  states recursively follows by induction over the rank (`BalanceHolds`). For the refinement, `TreeStep` says that
  a step adds one key, removes one or leaves the keys alone, so rebalancing is a stutter of the sorted map.
  In particular no loop of the code meets a NULL where it reads a node: `FamilyIs` shows that there is a
  grandfather, `LackingIs` that there is a sibling, and `SubstituteIs` that there is a successor.

Each invariant was checked by TLC before it was proved. Leaves cite the facts
they need. Every proof module passes within the default timeouts.

The type invariants of MqttClient, ThreadPool, TimerManager and Requests are in no run: they are proved for every
value of the constants. `OneCopy` of MqttClient is in none either: `ServesOutbox` implies it.

**Only model-checked**: all liveness properties (the prover does not reason about
fairness and `ENABLED`), `AnyValue`, `Cson` and `Startup`'s finding. `AnyValue` and `Cson` declare RECURSIVE
operators, which cost a module its SMT backend: what a call frees there depends on a recursion over data.

## 5. What the checks show

The core of the client holds up: although its flags are wrong at times (a client can be
connected with `connecting` set, or connected with `connected` clear), a wanted connection is
always retried, and no message is sent twice or out of order. The pool is a
correct FIFO queue without lost wake-ups in both modes. The timer manager implements its
promise for jobs. The dialogue with new devices has no way out that forgets one, whatever
is disabled, malformed or without a reply, and the device map is right but for the races of section 6. The maps are sorted and
balanced, in every size. The lists keep wrong links, but none that a walk from the head reads while the plugin uses them
as it does, and a timer has one user as long as two callers do not take the front of the pool at the same time. The configuration is parsed, changed and freed without losing a node but
one kind. Values own their memory once as long as no text is set to NULL.

## 6. Behaviour of the code worth knowing

These came up while modelling. The properties name them as exceptions, or the
models exclude them by a stated assumption, so none is hidden.

* `mqtt_delete` (mqtt.c:433) waits for flags that line 190 can leave set for ever,
  and frees the timer manager (432) while `onConnectFailure` may still use it.
* A publisher that is refused calls `mqtt_start(mqtt, NULL, NULL)` (592), which erases the
  connect callback: from then on new connections subscribe nothing
  (`Resubscribed` needs the callback).
* A subscriber whose connection is lost can walk items that `connlost` frees
  (`FreedOnlyAfterLoss` says it is only that one), or read NULL at line 512 although line 509 found a list.
* A refused publisher may connect again (592) before `connlost` of the last connection has run, which then
  empties the list of the new one: until the next connection its messages find no handler (`early`), and as the callback is
  erased nothing enters the topics again.
* `increase_delay_time` (138) is a load and a store without a lock. Two threads in it at once can take the index past the end of the
  table, and a store held over the reset of `onConnect` (209) brings an old index back: `DelayInTable` says that
  one thread at a time stays in the table.
* `onConnect` sets `connected` (207) before it drains the queue, so a message published then overtakes those that wait: only the
  queue itself is first-in first-out.
* `connlost` takes no mutex (mqtt.c:146), so while it empties the list another thread may
  append to an item that is about to be freed: the new item is lost, or, if the next `malloc`
  returns the freed address, a topic is listed twice for a while. When the loop has ended the list is empty
  (`OneItemPerTopic`).
* `a/#` does not match `a` (336).
* An answer given inside `processCmd`, or soon after, finds no request, and so may one that is looked up (main.c:79)
  while another request is inserted (`AnswersLostInInserts`); some params are destroyed twice (`DestroyedTwice`)
  or never (`Leaked`).
* Stopping and starting a timer while the poll thread deletes it from epoll loses
  the start (timer_manager.c:69); a signal ends the poll thread (45);
  `tm_run_after` writes to a param that may be freed (258).
* `topo_delete` makes `remove_device` send `CMD_REMOVE_NODE`; if the host then announces
  `NODE_REMOVED`, its thread removes the device as well, and both erase the same node
  (instance.c:310-347), and so do they if it announces it inside `processCmd`: `DevicesKeptInUse` allows these, and no call that
  reads what it erased itself.
* `rex_start` (main.c:43) writes `instance.devList`, which `check_register` of a connection attempted before `rex_stop`
  may be reading, and may free (`ListKeptInUse`).
* A registration or join whose topic or payload cannot be made is dropped without a message to the platform
  (callbacks.c:189, 246): the device is not logged in.
* `remove_device` of one device unsubscribes the four topics of the gateway (instance.c:329-332),
  which all devices use; they come back with the next `add_device` or connection.
* `check_register` (mqtt_handler.c:107) adds from a list made earlier: a device that left meanwhile
  is listed again, as is one added while `rex_stop` empties the map (`late`). With
  `topo_leave` not enabled a device that leaves stays in the map (callbacks.c:294).
* With `dev_register` enabled the request names the product key in the place of the device
  (callbacks.c:188), so the reply joins and logs in the product key.
* `init` reads the client id into `vendorCode` and never sets `clientId` (global.c:59): the topics
  begin with the client id, the model and an empty level, where the comments (71-83) have vendor code, model and client
  id. Run `startup` shows it. `replace_char` (95) changes `modelCode` in place as well.
* A registration that fails leaves no topics and no client, yet `rex_init` and `rex_start` report success
  (instance.c:179, main.c:55). `instance_deinit` does not reset `instance.mqtt` (208): if the next
  registration fails, `rex_start` uses the freed client. It calls `free_config` (225), which is defined nowhere.
* `instance_deinit` pops `activeTimers` in the loop over `timerPool` (219): with a timer in the pool it does
  not end. A timer taken from the pool is not reachable from the head of `activeTimers` if one is there
  (`move_to_back` does not link the old tail to it, deque.h:169-171), so `instance_release_timer` does not
  find it: it is never used again (`TimerHasOneUser`). Two callers that both read the front of the pool (234) before
  one moves it get the same timer. Nothing calls `instance_require_timer` yet.
* A sequence item whose name cannot be allocated is lost (config.c:125). `conf_set` reads through NULL
  after the last part of a name, unless the name ends in a dot (379).
* `any_set_string(NULL)` and `any_set_string_n` without a text leave the freed pointer in the value
  (any.c:98, 112), and the next call frees it again. A key that a YAML mapping has twice loses the first value (463).
* `start_join_data.value` and `scan_join_data.value` are pointers, but their tables describe
  structures that are part of the item (protocol.h:313, 413): the two words of `start_join_value` overwrite the word after the
  item, which is the next item or beyond the block. An item without the object loses its first text (`parseJsonObjectDefault`, cson.c:528,
  clears it at the offset of the inner table).
* `register_gateway` frees the reply with the table of the request (instance.c:455): the integer code is freed as a pointer.
* Elastic pools: `num_live` is updated without the lock (thread_pool.c:125) against
  171, so `tp_destroy` can free early or hang (64). The plugin makes none.
  Tasks still queued at `tp_destroy` are dropped.

## 7. Not modelled, and the plan

Modelled first, because everything else rests on it: the connection (MqttClient), then the
pool, the timers, the requests, the topic list, the sub-devices and the map they use; then the data
structures and the start, and proofs from the client down to the red-black tree. What is left:

1. The handlers of `callbacks.c` that nothing subscribes at this commit (`handle_service`, `property_set`,
   `set_alias`, `dev_ota_request`, 490-728 and 800-940). They are sequential. (`handle_service` steps over the next
   parameter twice, 809, and keeps values that its params also own, 836-934.)

Not modelled, and why:

* conversions between texts: of `any.c` to and from text and YAML, writing JSON with `cson.c`, hex, base64, and what `fmt_helper.c`
  formats: no state, a matter of test vectors;
* AES: a cipher without state, likewise;
* logging, reading network interfaces (`if_helper.c`), the HTTP exchange of the registration: I/O;
* two races that the models exclude: `mqtt_delete` frees the timer manager while the Paho client
  may still arm a retry (mqtt.c:432; MqttClient ends with the freeing), and a look-up of a device, or `rex_stop`, takes no lock
  while the other thread inserts or erases (main.c:110, 62, callbacks.c:160; each is one step of Session, and the calls of a map
  follow each other in RBTree);
* the freeing of whole maps and lists at the end of the plugin, which is a loop of modelled operations;
* `preprocessor.h` (8,375 lines), `MQTTAsync.h` (2,383) and `yaml.h` (1,985) are generated or vendored:
  they are more than half of the lines in the repository, and no behaviour of this program.
