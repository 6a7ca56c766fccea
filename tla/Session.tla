-------------------------------- MODULE Session --------------------------------
(***************************************************************************)
(* The sub-devices of the gateway: the map instance.devices, which the     *)
(* host's notifications (main.c), the connect callback (mqtt_handler.c) and *)
(* the platform's messages (callbacks.c) change, and the dialogue that     *)
(* registers, joins and logs in a device.                                  *)
(*                                                                         *)
(*   "host"   the thread of the host that calls rex_start, rex_stop and    *)
(*            rex_notify                                                   *)
(*   "paho"   the thread of the MQTT library                               *)
(*                                                                         *)
(* A step of a thread is what it does between two accesses to the map, or to *)
(* instance.devList, that the other can see.  Two accesses to the map never *)
(* tear: a look-up without the mutex is one step.  When the plugin asks the *)
(* host to remove a node, the host may announce at once, in that very call, *)
(* that it has left.  Messages are published at once, getDevList succeeds, *)
(* and all devices are of one product.  What a device's login and logout do *)
(* is up to the platform; the topics that add_device and remove_device     *)
(* subscribe and unsubscribe are left to TopicRouter.                      *)
(***************************************************************************)
EXTENDS Naturals, FiniteSets

CONSTANTS
    Devices,         \* the sub-devices
    Product,         \* the product key, which the registration sends
    None,            \* NULL, and nobody
    Configs,         \* the settings of g_config to start with
    MaxEvents        \* a bound on connections and topo_delete, together

Threads == {"host", "paho"}

(* register, join, leave: is the request enabled?  Reply: has it a          *)
(* res_topic?  Bad: is its topic or its payload malformed?                  *)
Settings == {"register", "registerReply", "registerBad",
             "join", "joinReply", "joinBad", "leave"}

ASSUME SessionAssumption ==
    /\ Product \notin Devices /\ None \notin Devices \cup {Product} \cup Threads
    /\ Configs \subseteq SUBSET Settings
    /\ MaxEvents \in Nat

Names == Devices \cup {Product}

VARIABLES
    config,
    status,          \* the host's network, as getDevList shows it
    started, link,   \* is mqtt_start in force? the connection
    events,          \* connections and topo_delete so far
    devices,         \* the devices in instance.devices
    pc, task, dev,   \* of each thread: place, call, device
    iter,            \* of each holder: the device whose node its iterator is at
    eraser,          \* and the caller that has erased that node since
    below,           \* the call of paho that a NODE_REMOVED interrupts
    list,            \* instance.devList: what check_register has to add
    given,           \* is instance.devList an array that is not freed?
    asked,           \* requests the platform has not answered
    late,            \* history: devices added after they had left
    awaited,         \* history: names announced and not logged in yet
    restarted        \* history: may the last rex_start overlap check_register
                     \* of an earlier attempt to connect?

network == <<config, status, started, link, events>>
map == <<devices, late>>
hands == <<iter, eraser, below>>
threads == <<pc, task, dev, hands>>
dialogue == <<list, given, asked>>
history == <<awaited, restarted>>
vars == <<network, map, threads, dialogue, history>>

Present == {"online", "offline", "leaving"}

(* Who holds an iterator: each thread, and the call that was interrupted.   *)
Holders == Threads \cup {"outer"}

(* Who erases: each thread, and a call that interrupts another.             *)
Callers == Threads \cup {"nested"}

TypeOK ==
    /\ config \in Configs
    /\ status \in [Devices -> Present \cup {"absent"}]
    /\ started \in BOOLEAN /\ link \in {"down", "connecting", "up"}
    /\ events \in 0..MaxEvents
    /\ devices \subseteq Devices
    /\ pc \in [Threads -> {"idle", "search", "product", "insert", "register",
                           "join", "login", "lookup", "read", "find", "command",
                           "logout", "erase", "end", "first", "drop", "list",
                           "next", "fetch", "header", "undefined", "overrun"}]
    /\ task \in [Threads -> {"none", "added", "removed", "online", "offline",
                             "start", "stop", "init", "reply", "delete"}]
    /\ dev \in [Threads -> Names \cup {None}]
    /\ iter \in [Holders -> Devices \cup {None}]
    /\ eraser \in [Holders -> Callers \cup {None}]
    /\ below \in {"none", "delete", "init"}
    /\ list \in [Devices -> Present \cup {"absent"}] /\ given \in BOOLEAN
    /\ asked \subseteq {"register", "join"} \X Names
    /\ late \subseteq Devices /\ awaited \subseteq Names
    /\ restarted \in BOOLEAN

(* instance_init; the host has its network before it starts the plugin. *)
Init ==
    /\ config \in Configs
    /\ status \in [Devices -> {"absent", "online"}]
    /\ started = FALSE /\ link = "down" /\ events = 0
    /\ devices = {}
    /\ pc = [t \in Threads |-> "idle"] /\ task = [t \in Threads |-> "none"]
    /\ dev = [t \in Threads |-> None]
    /\ iter = [h \in Holders |-> None] /\ eraser = [h \in Holders |-> None]
    /\ below = "none"
    /\ list = [d \in Devices |-> "absent"] /\ given = FALSE
    /\ asked = {}
    /\ late = {} /\ awaited = {} /\ restarted = FALSE

Goto(t, p) == pc' = [pc EXCEPT ![t] = p] /\ UNCHANGED <<task, dev>>

Enter(t, c, d, p) ==
    /\ pc' = [pc EXCEPT ![t] = p]
    /\ task' = [task EXCEPT ![t] = c]
    /\ dev' = [dev EXCEPT ![t] = d]

(* The iterator of a thread is at the node of d, or nowhere. *)
Hold(t, d) ==
    /\ iter' = [iter EXCEPT ![t] = d]
    /\ eraser' = [eraser EXCEPT ![t] = None]
    /\ UNCHANGED below

Begin(t, c, d, p) == Enter(t, c, d, p) /\ Hold(t, None)

(* The iterator of one holder becomes that of the other. *)
Hand(from, to) ==
    /\ iter' = [iter EXCEPT ![to] = iter[from], ![from] = None]
    /\ eraser' = [eraser EXCEPT ![to] = eraser[from], ![from] = None]

(* In processCmd the host calls rex_notify(NODE_REMOVED): the call c of the *)
(* paho thread, and its iterator, wait below.                               *)
Interrupt(c, d) ==
    /\ Enter("paho", "removed", d, "lookup")
    /\ below' = c
    /\ Hand("paho", "outer")
    /\ status' = [status EXCEPT ![d] = "absent"]
    /\ awaited' = awaited \ {d} /\ UNCHANGED restarted

(* Back to the call below: remove_device, or the walk of init_topics.       *)
Resume ==
    /\ IF below = "delete" THEN Enter("paho", "delete", dev["paho"], "logout")
                           ELSE Enter("paho", "init", None, "next")
    /\ below' = "none"
    /\ Hand("outer", "paho")

Return(t) ==
    IF t = "paho" /\ below # "none" THEN Resume ELSE Begin(t, "none", None, "idle")

(* The thread reads the node of an iterator that was erased meanwhile. *)
Dangling(t) == eraser[t] # None

Undefined(t) == Goto(t, "undefined") /\ UNCHANGED hands

(* Registrations name the product key in the place of the device. *)
Named(d) == IF {"register", "registerReply"} \subseteq config THEN Product ELSE d

-----------------------------------------------------------------------------
(* The calls of the host.                                                   *)

(* Is the paho thread in check_register? *)
Walking == task["paho"] \in {"init", "online", "offline"} \/ below = "init"

(* rex_start calls getDevList, which writes instance.devList.  A connection *)
(* attempted before rex_stop may still come up, and run check_register.     *)
rex_start ==
    /\ pc["host"] = "idle" /\ ~started
    /\ Begin("host", "start", None, "fetch")
    /\ restarted' = (Walking \/ link = "connecting")
    /\ UNCHANGED <<network, map, dialogue, awaited>>

mqtt_start ==
    /\ started' = TRUE
    /\ link' = IF link = "down" THEN "connecting" ELSE link

(* The list is stored: a walk goes on in it, from where it was.             *)
NewList ==
    /\ given' = TRUE
    /\ \E D \in IF Walking THEN SUBSET Devices ELSE {Devices} :
          list' = [d \in Devices |-> IF d \in D THEN status[d] ELSE "absent"]

(* Mutant: the client is started before the gateway's names are read. *)
StoreDevList_starts ==
    /\ pc["host"] = "fetch"
    /\ NewList /\ mqtt_start
    /\ Goto("host", "header") /\ UNCHANGED hands
    /\ UNCHANGED <<config, status, events, map, asked, history>>

StoreDevList ==
    /\ pc["host"] = "fetch"
    /\ NewList
    /\ Goto("host", "header") /\ UNCHANGED hands
    /\ UNCHANGED <<network, map, asked, history>>

(* devList.devices[0] is the gateway; then mqtt_start. *)
ReadHeader ==
    /\ pc["host"] = "header"
    /\ IF given THEN mqtt_start /\ Return("host")
                ELSE Goto("host", "overrun") /\ UNCHANGED <<started, link, hands>>
    /\ UNCHANGED <<config, status, events, map, dialogue, history>>

(* rex_stop begins to empty the map. *)
rex_stop ==
    /\ pc["host"] = "idle" /\ started
    /\ Begin("host", "stop", None, "first")
    /\ UNCHANGED <<network, map, dialogue, history>>

(* map_device_first, until it is NULL: then mqtt_stop, which leaves an      *)
(* attempt to connect alone.  Nothing here takes mtxDevices.                *)
StopFirst ==
    /\ pc["host"] = "first"
    /\ IF devices = {}
       THEN /\ started' = FALSE
            /\ link' = IF link = "up" THEN "down" ELSE link
            /\ asked' = {} /\ awaited' = {}
            /\ Return("host")
       ELSE /\ \E d \in devices : Hold("host", d)
            /\ Goto("host", "drop")
            /\ UNCHANGED <<started, link, asked, awaited>>
    /\ UNCHANGED <<config, status, events, map, list, given>>
    /\ UNCHANGED restarted

(* While the plugin is stopped the network changes unseen. *)
ChangeUnseen(d) ==
    /\ pc["host"] = "idle" /\ ~started
    /\ \E s \in {"absent", "online"} : status' = [status EXCEPT ![d] = s]
    /\ UNCHANGED <<config, started, link, events, map, threads, dialogue, history>>

(* A node is included, and rex_notify is told. *)
NodeAdded(d) ==
    /\ pc["host"] = "idle" /\ started /\ status[d] = "absent"
    /\ status' = [status EXCEPT ![d] = "online"]
    /\ late' = late \ {d}
    /\ awaited' = IF link = "up" THEN awaited \cup {Named(d)} ELSE awaited
    /\ Begin("host", "added", d, "search")
    /\ UNCHANGED <<config, started, link, events, devices, dialogue>>
    /\ UNCHANGED restarted

(* A node has left, and rex_notify is told. *)
NodeRemoved(d) ==
    /\ pc["host"] = "idle" /\ started /\ status[d] # "absent"
    /\ status' = [status EXCEPT ![d] = "absent"]
    /\ awaited' = awaited \ {d}
    /\ Begin("host", "removed", d, "lookup")
    /\ UNCHANGED <<config, started, link, events, map, dialogue, restarted>>

(* A node comes on line or goes off, and rex_notify is told. *)
NodeConnState(d, s) ==
    /\ pc["host"] = "idle" /\ started
    /\ {status[d], s} = {"online", "offline"}
    /\ status' = [status EXCEPT ![d] = s]
    /\ Begin("host", s, d, "lookup")
    /\ UNCHANGED <<config, started, link, events, map, dialogue, history>>

-----------------------------------------------------------------------------
(* rex_notify.                                                              *)

(* map_device_find, without the mutex. *)
Lookup(t) ==
    /\ pc[t] = "lookup"
    /\ IF dev[t] \in devices
       THEN Hold(t, dev[t]) /\ Goto(t, "read")
       ELSE Return(t)
    /\ UNCHANGED <<network, map, dialogue, history>>

(* iter->val0, the product of the device, and the handler: handle_topo_leave *)
(* which does nothing if it is not enabled, or a login or a logout.          *)
ReadProduct(t) ==
    /\ pc[t] = "read"
    /\ IF Dangling(t) THEN Undefined(t)
       ELSE CASE task[t] = "removed" /\ "leave" \in config ->
                   Goto(t, "find") /\ Hold(t, None)
              [] task[t] = "online" ->
                   Goto(t, "login") /\ Hold(t, None)
              [] OTHER -> Return(t)
    /\ UNCHANGED <<network, map, dialogue, history>>

-----------------------------------------------------------------------------
(* handle_sub_register, in the host's thread.                               *)

(* Look for a device of the same product, without the mutex; if there is    *)
(* none the new device is in the list of getDevList.                        *)
Search ==
    /\ pc["host"] = "search"
    /\ IF devices = {} THEN Goto("host", "insert") /\ UNCHANGED hands
       ELSE /\ \E d \in devices : Hold("host", d)
            /\ Goto("host", "product")
    /\ UNCHANGED <<network, map, dialogue, history>>

(* iter->val0->productId, and iter->val0 for add_device. *)
CompareProduct ==
    /\ pc["host"] = "product"
    /\ IF Dangling("host") THEN Undefined("host")
       ELSE Goto("host", "insert") /\ Hold("host", None)
    /\ UNCHANGED <<network, map, dialogue, history>>

(* The request to register, if enabled, names the product key in the place  *)
(* of the device.  The device joins at once if no reply will do it; nothing *)
(* is published if the topic or the payload cannot be made.                 *)
Register ==
    /\ pc["host"] = "register"
    /\ CASE "register" \notin config ->
              Goto("host", "join") /\ UNCHANGED <<hands, asked, awaited>>
         [] {"register", "registerBad"} \subseteq config ->
              /\ Return("host") /\ UNCHANGED asked
              /\ awaited' = awaited \ {Named(dev["host"])}
         [] OTHER ->
              /\ IF "registerReply" \in config
                 THEN asked' = asked \cup {<<"register", Product>>} /\ Return("host")
                 ELSE Goto("host", "join") /\ UNCHANGED <<hands, asked>>
              /\ UNCHANGED awaited
    /\ UNCHANGED <<network, map, list, given, restarted>>

(* Mutant: handle_topo_join waits for a reply that has no topic. *)
handle_topo_join_waits(t) ==
    /\ pc[t] = "join"
    /\ IF "join" \in config
       THEN /\ asked' = IF "joinReply" \in config
                        THEN asked \cup {<<"join", dev[t]>>} ELSE asked
            /\ Return(t)
       ELSE Goto(t, "login") /\ UNCHANGED <<hands, asked>>
    /\ UNCHANGED <<network, map, list, given, history>>

(* handle_topo_join: publish the request, if enabled, and log in at once if *)
(* it is not, or has no reply; but not if it cannot be made.                *)
handle_topo_join(t) ==
    /\ pc[t] = "join"
    /\ CASE {"join", "joinBad"} \subseteq config ->
              /\ Return(t) /\ UNCHANGED asked
              /\ awaited' = awaited \ {dev[t]}
         [] {"join", "joinReply"} \subseteq config /\ "joinBad" \notin config ->
              /\ asked' = asked \cup {<<"join", dev[t]>>} /\ Return(t)
              /\ UNCHANGED awaited
         [] OTHER -> Goto(t, "login") /\ UNCHANGED <<hands, asked, awaited>>
    /\ UNCHANGED <<network, map, list, given, restarted>>

(* Whom handle_sub_login names: init_topics reads the list again for it.    *)
LoggedIn(t) ==
    IF t = "paho" /\ task[t] = "online" /\ restarted THEN Devices ELSE {dev[t]}

(* handle_sub_login. *)
handle_sub_login(t) ==
    /\ pc[t] = "login"
    /\ \E n \in LoggedIn(t) : awaited' = awaited \ {n}
    /\ IF t = "paho" /\ task[t] = "online" THEN Begin(t, "init", None, "next")
       ELSE Return(t)
    /\ UNCHANGED <<network, map, dialogue, restarted>>

-----------------------------------------------------------------------------
(* add_device and remove_device, in either thread.                          *)

Stopped == ~started \/ task["host"] = "stop"

(* map_device_insert under the mutex: a device that is listed keeps its     *)
(* node.  Then handle_sub_register goes on to register, and init_topics to  *)
(* log in a device that is on line.                                         *)
add_device(t) ==
    /\ pc[t] = "insert"
    /\ devices' = devices \cup {dev[t]}
    /\ late' = IF status[dev[t]] = "absent" \/ Stopped THEN late \cup {dev[t]}
               ELSE late
    /\ CASE task[t] = "added" -> Goto(t, "register") /\ UNCHANGED hands
         [] task[t] = "online" -> Goto(t, "login") /\ UNCHANGED hands
         [] task[t] = "offline" -> Begin(t, "init", None, "next")
    /\ UNCHANGED <<network, dialogue, history>>

(* map_device_find, under the mutex. *)
Find(t) ==
    /\ pc[t] = "find"
    /\ IF dev[t] \in devices
       THEN Hold(t, dev[t]) /\ Goto(t, "command")
       ELSE Goto(t, "end") /\ UNCHANGED hands
    /\ UNCHANGED <<network, map, dialogue, history>>

(* processCmd(CMD_REMOVE_NODE): the host may begin to remove the node, or   *)
(* have it removed and announce that before it returns (one call deep).     *)
Ask(d) ==
    \/ UNCHANGED status
    \/ status[d] \in Present /\ status' = [status EXCEPT ![d] = "leaving"]

RemoveCommand(t) ==
    /\ pc[t] = "command"
    /\ \/ Ask(dev[t]) /\ Goto(t, "logout") /\ UNCHANGED <<hands, history>>
       \/ /\ status[dev[t]] \in Present /\ t = "paho" /\ below = "none"
          /\ Interrupt("delete", dev[t])
    /\ UNCHANGED <<config, started, link, events, map, dialogue>>

(* iter->val0 for handle_sub_logout. *)
RemoveLogout(t) ==
    /\ pc[t] = "logout"
    /\ IF Dangling(t) THEN Undefined(t) ELSE Goto(t, "erase") /\ UNCHANGED hands
    /\ UNCHANGED <<network, map, dialogue, history>>

Caller(t) == IF t = "paho" /\ below # "none" THEN "nested" ELSE t

(* map_device_erase, of rex_stop or of remove_device: whoever is at the     *)
(* node, this call too, is at a node that is gone.                          *)
EraseHeld(t) ==
    /\ devices' = devices \ {iter[t]}
    /\ late' = late \ {iter[t]}
    /\ eraser' = [h \in Holders |->
                    IF iter[h] = iter[t] /\ eraser[h] = None THEN Caller(t)
                    ELSE eraser[h]]
    /\ UNCHANGED <<iter, below>>

(* Mutant: only a device with a secret is erased. *)
Erase_secret(t) ==
    /\ pc[t] = "erase"
    /\ IF Dangling(t) THEN Undefined(t) ELSE Goto(t, "end") /\ UNCHANGED hands
    /\ UNCHANGED <<network, map, dialogue, history>>

(* Under the mutex again: iter->val1, and map_device_erase. *)
Erase(t) ==
    /\ pc[t] = "erase"
    /\ IF Dangling(t) THEN Undefined(t) /\ UNCHANGED map
       ELSE EraseHeld(t) /\ Goto(t, "end")
    /\ UNCHANGED <<network, dialogue, history>>

(* Mutant: rex_stop goes on from the node it has erased. *)
StopErase_next ==
    /\ pc["host"] = "drop"
    /\ IF Dangling("host") THEN Undefined("host") /\ UNCHANGED map
       ELSE EraseHeld("host") /\ Goto("host", "drop")
    /\ UNCHANGED <<network, dialogue, history>>

(* The rest of a round of rex_stop, without the mutex. *)
StopErase ==
    /\ pc["host"] = "drop"
    /\ IF Dangling("host") THEN Undefined("host") /\ UNCHANGED map
       ELSE EraseHeld("host") /\ Goto("host", "first")
    /\ UNCHANGED <<network, dialogue, history>>

(* remove_device has returned: topo_leave or the reply to topo_delete is    *)
(* published, and another logout if topo_leave has no reply.                *)
Removed(t) ==
    /\ pc[t] = "end"
    /\ Return(t)
    /\ UNCHANGED <<network, map, dialogue, history>>

-----------------------------------------------------------------------------
(* The MQTT thread.                                                         *)

(* A connection comes up, and onConnect calls check_register, also when the *)
(* plugin has been stopped since the attempt.                               *)
Connect ==
    /\ pc["paho"] = "idle" /\ link = "connecting" /\ events < MaxEvents
    /\ link' = "up" /\ events' = events + 1
    /\ Begin("paho", "init", None, "list")
    /\ UNCHANGED <<config, status, started, map, dialogue, history>>

(* The attempt fails, and is not repeated once the plugin is stopped. *)
ConnectFails ==
    /\ pc["paho"] = "idle" /\ link = "connecting" /\ ~started
    /\ link' = "down"
    /\ UNCHANGED <<config, status, started, events, map, threads, dialogue, history>>

(* The platform forgets what it was asked on a connection that is lost; the *)
(* client connects again unless the plugin is stopped.                      *)
ConnectionLost ==
    /\ link = "up"
    /\ link' = IF started THEN "connecting" ELSE "down"
    /\ asked' = {} /\ awaited' = {}
    /\ UNCHANGED <<config, status, started, events, map, threads>>
    /\ UNCHANGED <<list, given, restarted>>

(* getDevList, in check_register. *)
check_register ==
    /\ pc["paho"] = "list"
    /\ list' = status /\ given' = TRUE
    /\ Goto("paho", "next") /\ UNCHANGED hands
    /\ UNCHANGED <<network, map, asked, history>>

(* It reads a list that rex_start is writing: the count of one, the array of *)
(* the other.                                                                *)
InitTorn ==
    /\ pc["host"] = "fetch"
    /\ pc["paho"] \in {"next", "login"} /\ task["paho"] \in {"init", "online"}
    /\ Goto("paho", "overrun") /\ UNCHANGED hands
    /\ UNCHANGED <<network, map, dialogue, history>>

Taken(d) == list' = [list EXCEPT ![d] = "absent"] /\ UNCHANGED given

(* init_topics adds a device that is on line or off. *)
InitAdd(d) ==
    /\ pc["paho"] = "next" /\ list[d] \in {"online", "offline"}
    /\ Begin("paho", list[d], d, "insert") /\ Taken(d)
    /\ UNCHANGED <<network, map, asked, history>>

(* A device that is leaving is left out, or the host is told to delete it.  *)
InitSkip(d) ==
    /\ pc["paho"] = "next" /\ list[d] = "leaving"
    /\ Taken(d)
    /\ \/ Ask(d) /\ UNCHANGED <<threads, history>>
       \/ status[d] \in Present /\ Interrupt("init", d)
    /\ UNCHANGED <<config, started, link, events, map, asked>>

(* The list is done and freed, and register_gateway_mqtt concerns the       *)
(* gateway alone.                                                           *)
InitDone ==
    /\ pc["paho"] = "next" /\ \A d \in Devices : list[d] = "absent"
    /\ given' = FALSE
    /\ Return("paho")
    /\ UNCHANGED <<network, map, list, asked, history>>

(* Mutant: the reply's parameters are swapped. *)
Accepted_swapped(q) ==
    /\ pc["paho"] = "idle" /\ link = "up" /\ q \in asked
    /\ asked' = asked \ {q}
    /\ Begin("paho", "reply", q[1], IF q[1] = "register" THEN "join" ELSE "login")
    /\ UNCHANGED <<network, map, list, given, history>>

(* The platform accepts a request: handle_sub_register_reply joins the      *)
(* device the reply names, handle_topo_join_reply logs it in.               *)
Accepted(q) ==
    /\ pc["paho"] = "idle" /\ link = "up" /\ q \in asked
    /\ asked' = asked \ {q}
    /\ Begin("paho", "reply", q[2], IF q[1] = "register" THEN "join" ELSE "login")
    /\ UNCHANGED <<network, map, list, given, history>>

(* The platform refuses it: the handlers only log. *)
Refused(q) ==
    /\ pc["paho"] = "idle" /\ link = "up" /\ q \in asked
    /\ asked' = asked \ {q}
    /\ awaited' = awaited \ {q[2]}
    /\ UNCHANGED <<network, map, threads, list, given, restarted>>

(* handle_topo_delete calls remove_device. *)
handle_topo_delete(d) ==
    /\ pc["paho"] = "idle" /\ link = "up" /\ events < MaxEvents
    /\ events' = events + 1
    /\ Begin("paho", "delete", d, "find")
    /\ UNCHANGED <<config, status, started, link, map, list, given, asked>>
    /\ UNCHANGED <<awaited, restarted>>

-----------------------------------------------------------------------------
HostCalls ==
    \/ rex_start \/ rex_stop
    \/ \E d \in Devices :
          \/ ChangeUnseen(d) \/ NodeAdded(d) \/ NodeRemoved(d)
          \/ \E s \in Present : NodeConnState(d, s)

Shared(t) ==
    \/ Lookup(t) \/ ReadProduct(t)
    \/ handle_topo_join(t) \/ handle_sub_login(t) \/ add_device(t)
    \/ Find(t) \/ RemoveCommand(t) \/ RemoveLogout(t) \/ Erase(t) \/ Removed(t)

HostThread ==
    \/ StoreDevList \/ ReadHeader
    \/ StopFirst \/ StopErase
    \/ Search \/ CompareProduct \/ Register \/ Shared("host")

PahoThread ==
    \/ check_register \/ InitTorn \/ InitDone \/ Shared("paho")
    \/ \E d \in Devices : InitAdd(d) \/ InitSkip(d)

(* What the program does after it has read what was freed is not defined: *)
(* the model ends there.                                                  *)
Defined == \A t \in Threads : pc[t] \notin {"undefined", "overrun"}

Next ==
    /\ Defined
    /\ \/ HostCalls \/ HostThread \/ PahoThread
       \/ Connect \/ ConnectFails \/ ConnectionLost
       \/ \E q \in asked : Accepted(q) \/ Refused(q)
       \/ \E d \in Devices : handle_topo_delete(d)

Spec == Init /\ [][Next]_vars

-----------------------------------------------------------------------------
(* No call reads the node of a device that it has erased itself, though     *)
(* rex_stop walks the map that it empties and handle_topo_leave goes on with *)
(* what rex_notify read from the node: a thread is hit only by a call of the *)
(* other, or by one that interrupts it.  So the host's is hit by nothing but *)
(* a removal in the MQTT thread: the platform deletes the device, or the    *)
(* host announces from inside processCmd that it has left.                  *)
DevicesKeptInUse ==
    \A t \in Threads : pc[t] = "undefined" => eraser[t] \in Callers \ {t}

(* The list of getDevList stays in place while rex_start and check_register, *)
(* which share it without a lock, read it: but for a rex_start that overlaps *)
(* the check_register of a connection attempted before the last rex_stop.    *)
ListKeptInUse ==
    \A t \in Threads : pc[t] = "overrun" => restarted

(* A device that left the network is not in the map, once the host has been *)
(* heard out, whoever added, removed or announced it meanwhile; but for     *)
(* those that the connect callback adds from a list made before they left   *)
(* or while the host stops the plugin, and if topo_leave is not enabled.    *)
LeftDevicesUnlisted ==
    \A d \in devices : status[d] = "absent" =>
        \/ d \in late \/ "leave" \notin config
        \/ \E t \in Threads : task[t] = "removed" /\ dev[t] = d

(* Somebody goes on with a device that was announced while there was a       *)
(* connection, until it is logged in, leaves, is refused, has no request     *)
(* that can be made, or the connection is lost: the platform owes an answer, *)
(* or a thread is at it, also when requests are not enabled or have no       *)
(* reply; but for a host that was lost as DevicesKeptInUse says.  (What is   *)
(* registered is the product instead of the device.)                         *)
NewDevicePursued ==
    \A n \in awaited :
        \/ <<"register", n>> \in asked \/ <<"join", n>> \in asked
        \/ /\ task["host"] = "added" /\ Named(dev["host"]) = n
           /\ \/ pc["host"] \in {"search", "product", "insert",
                                "register", "join", "login"}
              \/ pc["host"] = "undefined" /\ eraser["host"] # "host"
        \/ /\ task["paho"] = "reply" /\ dev["paho"] = n
           /\ pc["paho"] \in {"join", "login"}

=============================================================================
