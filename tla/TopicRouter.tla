------------------------------ MODULE TopicRouter ------------------------------
(***************************************************************************)
(* The topic list of src/src/mqtt.c: mqtt_subscribe_ex enters handlers in a *)
(* linked list, messageArrived looks a handler up in it, and connlost, on  *)
(* the same thread as messageArrived, empties it without the mutex.        *)
(*                                                                         *)
(* Topics are sequences of levels.  Every caller of mqtt_subscribe_ex      *)
(* gives a topic always the same handler and never NULL, so handlers are   *)
(* left out.  The library refuses a subscription only when the connection  *)
(* is down; the broker keeps subscriptions for one connection              *)
(* (cleansession = 1).  A step of a thread is what it does between two     *)
(* accesses that another thread can see.                                   *)
(***************************************************************************)
EXTENDS Naturals, Sequences, FiniteSets

CONSTANTS
    Hosts,           \* threads of the host, which subscribe in add_device
    HostTopics,      \* the topics they subscribe
    Paho,            \* the thread of the MQTT library
    InitTopics,      \* the topics the connect callback subscribes, in order
    Names,           \* topic names that messages are published under
    Items,           \* addresses of struct TopicItem
    None,            \* NULL, and no thread
    MaxLosses,       \* bound on the connections lost
    MaxCalls         \* bound on the calls of mqtt_subscribe_ex per host

Threads == Hosts \cup {Paho}

InitSet == {InitTopics[k] : k \in DOMAIN InitTopics}

ASSUME RouterAssumption ==
    /\ Paho \notin Hosts /\ None \notin Threads \cup Items
    /\ HostTopics \cup InitSet \cup Names \subseteq Seq(STRING) \ {<<>>}
    /\ InitTopics \in Seq(InitSet)
    /\ MaxLosses \in Nat /\ MaxCalls \in Nat

VARIABLES
    link, held,                  \* the connection; what the broker holds for it
    losses, emptied, told,       \* connections lost; connlost's ended; has
                                 \* onConnect run for the one that is next?
    connected, callback, topicList, mutex,  \* of MqttInstance; callback: is
                                 \* connectCallback set?
    memory, topic, next,         \* of each TopicItem
    pc, filter, temp,            \* of each thread
    todo,                        \* what the connect callback has to subscribe
    victim, rest,                \* connlost: the item it deletes, and item->next
    message, via,                \* the message that arrived and the filter for
                                 \* which the broker sent it
    publisher,                   \* a publisher that is told it is disconnected
    since, early, calls          \* history: connlost's ended when the library
                                 \* accepted the thread's subscription; topics
                                 \* it last accepted with a connlost yet to
                                 \* end; calls made

broker == <<link, held, losses, emptied, told>>
instance == <<connected, callback, topicList, mutex>>
items == <<memory, topic, next>>
locals == <<filter, temp, todo, victim, rest, message, via>>
history == <<since, early, calls>>
vars == <<broker, instance, items, pc, locals, publisher, history>>

Filters == HostTopics \cup InitSet

TypeOK ==
    /\ link \in {"down", "connecting", "up"} /\ held \subseteq Filters
    /\ losses \in 0..MaxLosses /\ emptied \in 0..MaxLosses /\ told \in BOOLEAN
    /\ connected \in BOOLEAN /\ callback \in BOOLEAN
    /\ topicList \in Items \cup {None} /\ mutex \in Threads \cup {None}
    /\ memory \in [Items -> {"free", "live"}]
    /\ topic \in [Items -> Filters \cup {None}]
    /\ next \in [Items -> Items \cup {None}]
    /\ pc \in [Threads -> {"idle", "subscribe", "library", "lock", "head", "create",
                           "reread", "walk", "append", "unlock", "undefined",
                           "clear", "delete", "store", "arrived"}]
    /\ filter \in [Threads -> Filters \cup {None}]
    /\ temp \in [Threads -> Items \cup {None}]
    /\ \A t \in Threads : pc[t] \in {"walk", "append"} => temp[t] # None
    /\ todo \in Seq(InitSet)
    /\ victim \in Items \cup {None} /\ rest \in Items \cup {None}
    /\ message \in Names \cup {None} /\ via \in Filters \cup {None}
    /\ publisher \in {"idle", "send", "mark", "restart", "connect"}
    /\ since \in [Threads -> 0..MaxLosses] /\ early \subseteq Filters
    /\ calls \in [Hosts -> 0..MaxCalls]

Init ==
    /\ link = "connecting" /\ held = {}
    /\ losses = 0 /\ emptied = 0 /\ told = FALSE
    /\ connected = FALSE /\ callback = TRUE /\ topicList = None /\ mutex = None
    /\ memory = [i \in Items |-> "free"] /\ topic = [i \in Items |-> None]
    /\ next = [i \in Items |-> None]
    /\ pc = [t \in Threads |-> "idle"] /\ filter = [t \in Threads |-> None]
    /\ temp = [t \in Threads |-> None] /\ todo = <<>>
    /\ victim = None /\ rest = None /\ message = None /\ via = None
    /\ publisher = "idle"
    /\ since = [t \in Threads |-> 0] /\ early = {} /\ calls = [h \in Hosts |-> 0]

Goto(t, l) == pc' = [pc EXCEPT ![t] = l]

-----------------------------------------------------------------------------
(* Matching.                                                                *)

LevelMatches(f, n) == f = "+" \/ f = n

(* Mutant: a filter that ends in "#" matches whatever begins with its text, *)
(* wildcards before the "#" not counted.                                    *)
Matches_prefix(f, n) ==
    /\ Len(f) <= Len(n)
    /\ IF f[Len(f)] = "#"
       THEN \A i \in 1..Len(f) - 1 : f[i] = n[i]
       ELSE Len(f) = Len(n) /\ \A i \in 1..Len(f) : LevelMatches(f[i], n[i])

(* The test of messageArrived. *)
Matches(f, n) ==
    /\ Len(f) <= Len(n)
    /\ IF f[Len(f)] = "#"
       THEN \A i \in 1..Len(f) - 1 : LevelMatches(f[i], n[i])
       ELSE Len(f) = Len(n) /\ \A i \in 1..Len(f) : LevelMatches(f[i], n[i])

(* What a broker does, by the MQTT standard: a final "#" stands for any     *)
(* number of levels, none included.                                         *)
BrokerMatches(f, n) ==
    LET g == IF f[Len(f)] # "#" THEN f
             ELSE SubSeq(f, 1, Len(f) - 1) \o SubSeq(n, Len(f), Len(n))
    IN  Len(g) = Len(n) /\ \A i \in DOMAIN g : g[i] \in {"+", n[i]}

(* The item and those after it: what every set that holds it and goes on    *)
(* with the next ones contains.                                             *)
After(i, nx) ==
    {j \in Items : \A S \in SUBSET Items :
                      i \in S /\ (\A k \in S : nx[k] \in S \cup {None}) => j \in S}

(* The list, as messageArrived walks it. *)
Listed == IF topicList = None THEN {} ELSE After(topicList, next)

ListedTopics == {topic[i] : i \in Listed}

-----------------------------------------------------------------------------
(* mqtt_subscribe_ex.                                                       *)

Back(t) == IF t = Paho /\ todo # <<>> THEN "subscribe" ELSE "idle"

(* A host calls it in add_device; it returns at once when not connected.    *)
Subscribe(t) ==
    /\ pc[t] = "idle" /\ calls[t] < MaxCalls
    /\ connected
    /\ \E f \in HostTopics : filter' = [filter EXCEPT ![t] = f]
    /\ calls' = [calls EXCEPT ![t] = @ + 1]
    /\ Goto(t, "library")
    /\ UNCHANGED <<broker, instance, items, temp, todo, victim, rest, message,
                   via, publisher, since, early>>

(* init_topics goes on to the next topic whatever the call returns. *)
InitTopic ==
    /\ pc[Paho] = "subscribe"
    /\ filter' = [filter EXCEPT ![Paho] = Head(todo)]
    /\ todo' = Tail(todo)
    /\ Goto(Paho, IF connected THEN "library"
                  ELSE IF Tail(todo) = <<>> THEN "idle" ELSE "subscribe")
    /\ UNCHANGED <<broker, instance, items, temp, victim, rest, message, via,
                   publisher, history>>

(* Every connection lost has had its connlost, to the end. *)
Settled == emptied = losses

(* MQTTAsync_subscribe. *)
Ask(t) ==
    /\ pc[t] = "library"
    /\ IF link = "up"
       THEN /\ held' = held \cup {filter[t]}
            /\ since' = [since EXCEPT ![t] = emptied]
            /\ early' = IF Settled THEN early \ {filter[t]}
                        ELSE early \cup {filter[t]}
            /\ Goto(t, "lock")
       ELSE Goto(t, Back(t)) /\ UNCHANGED <<held, since, early>>
    /\ UNCHANGED <<link, losses, emptied, told, instance, items, locals,
                   publisher, calls>>

(* Mutant: the list is changed without the mutex. *)
Lock_not(t) ==
    /\ pc[t] = "lock"
    /\ Goto(t, "head")
    /\ UNCHANGED <<broker, instance, items, locals, publisher, history>>

Lock(t) ==
    /\ pc[t] = "lock" /\ mutex = None
    /\ mutex' = t
    /\ Goto(t, "head")
    /\ UNCHANGED <<broker, connected, callback, topicList, items, locals,
                   publisher, history>>

(* TopicItem_new. *)
New(i, f) ==
    /\ memory[i] = "free"
    /\ memory' = [memory EXCEPT ![i] = "live"]
    /\ topic' = [topic EXCEPT ![i] = f]

(* The test of topicList, and the statement after it that reads topicList   *)
(* again; connlost may have stored NULL in between.                         *)
TestHead(t) ==
    /\ pc[t] = "head"
    /\ Goto(t, IF topicList = None THEN "create" ELSE "reread")
    /\ UNCHANGED <<broker, instance, items, locals, publisher, history>>

(* What happens after a read through NULL is not defined. *)
ReadHead(t) ==
    /\ pc[t] = "reread"
    /\ temp' = [temp EXCEPT ![t] = topicList]
    /\ Goto(t, IF topicList = None THEN "undefined" ELSE "walk")
    /\ UNCHANGED <<broker, instance, items, filter, todo, victim, rest, message,
                   via, publisher, history>>

Create(t) ==
    /\ pc[t] = "create"
    /\ \E i \in Items : /\ New(i, filter[t])
                        /\ next' = [next EXCEPT ![i] = None]
                        /\ topicList' = i
    /\ Goto(t, "unlock")
    /\ UNCHANGED <<broker, connected, callback, mutex, locals, publisher, history>>

(* Mutant: the loop goes on past the last item. *)
Walk_past_end(t) ==
    /\ pc[t] = "walk" /\ memory[temp[t]] = "live"
    /\ IF topic[temp[t]] = filter[t] THEN Goto(t, "unlock") /\ UNCHANGED temp
       ELSE temp' = [temp EXCEPT ![t] = next[temp[t]]] /\ UNCHANGED pc
    /\ UNCHANGED <<broker, instance, items, filter, todo, victim, rest, message,
                   via, publisher, history>>

(* One turn of the loop: the item with the topic (its cb is set), the last  *)
(* item, or the next one.  What happens after the loop reads an item that   *)
(* is freed is not defined; the model stops the thread.                     *)
Walk(t) ==
    /\ pc[t] = "walk"
    /\ LET item == temp[t] IN
       \/ memory[item] = "free" /\ Goto(t, "undefined") /\ UNCHANGED temp
       \/ /\ memory[item] = "live" /\ topic[item] = filter[t]
          /\ Goto(t, "unlock") /\ UNCHANGED temp
       \/ /\ memory[item] = "live" /\ topic[item] # filter[t] /\ next[item] = None
          /\ Goto(t, "append") /\ UNCHANGED temp
       \/ /\ memory[item] = "live" /\ topic[item] # filter[t] /\ next[item] # None
          /\ temp' = [temp EXCEPT ![t] = next[item]] /\ UNCHANGED pc
    /\ UNCHANGED <<broker, instance, items, filter, todo, victim, rest, message,
                   via, publisher, history>>

(* temp->next = TopicItem_new(...). *)
Link(t) ==
    /\ pc[t] = "append"
    /\ IF memory[temp[t]] = "free" THEN Goto(t, "undefined") /\ UNCHANGED items
       ELSE /\ \E i \in Items : /\ New(i, filter[t])
                                /\ next' = [next EXCEPT ![temp[t]] = i, ![i] = None]
            /\ Goto(t, "unlock")
    /\ UNCHANGED <<broker, instance, locals, publisher, history>>

Unlock(t) ==
    /\ pc[t] = "unlock"
    /\ mutex' = None
    /\ filter' = [filter EXCEPT ![t] = None]
    /\ temp' = [temp EXCEPT ![t] = None]
    /\ Goto(t, Back(t))
    /\ UNCHANGED <<broker, connected, callback, topicList, items, todo, victim,
                   rest, message, via, publisher, history>>

Subscribing(t) ==
    \/ Ask(t) \/ Lock(t) \/ TestHead(t) \/ ReadHead(t) \/ Create(t)
    \/ Walk(t) \/ Link(t) \/ Unlock(t)

-----------------------------------------------------------------------------
(* The connection, as far as the list is concerned; MqttClient has the rest: *)
(* an attempt that fails is made again until one succeeds.  The library     *)
(* calls onConnect and connlost of a connection in the order of what        *)
(* happened, on one thread, maybe when a later connection is there already. *)

ConnectSucceeds ==
    /\ link = "connecting"
    /\ link' = "up"
    /\ UNCHANGED <<held, losses, emptied, told, instance, items, pc, locals,
                   publisher, history>>

(* The link breaks, and with it go the subscriptions. *)
ConnectionDrops ==
    /\ link = "up" /\ losses < MaxLosses
    /\ link' = "down" /\ held' = {} /\ losses' = losses + 1
    /\ UNCHANGED <<emptied, told, instance, items, pc, locals, publisher, history>>

onConnectDue == pc[Paho] = "idle" /\ ~told /\ (emptied < losses \/ link = "up")

(* Mutant: the connect callback is not called. *)
onConnect_silent ==
    /\ onConnectDue
    /\ told' = TRUE /\ connected' = TRUE
    /\ UNCHANGED <<link, held, losses, emptied, callback, topicList, mutex,
                   items, pc, locals, publisher, history>>

(* onConnect, and its connectCallback check_register up to init_topics. *)
onConnect ==
    /\ onConnectDue
    /\ told' = TRUE /\ connected' = TRUE
    /\ todo' = IF callback THEN InitTopics ELSE <<>>
    /\ Goto(Paho, IF todo' # <<>> THEN "subscribe" ELSE "idle")
    /\ UNCHANGED <<link, held, losses, emptied, callback, topicList, mutex,
                   items, filter, temp, victim, rest, message, via, publisher,
                   history>>

connlost ==
    /\ pc[Paho] = "idle" /\ told /\ emptied < losses
    /\ connected' = FALSE
    /\ Goto(Paho, "clear")
    /\ UNCHANGED <<broker, callback, topicList, mutex, items, locals, publisher,
                   history>>

(* MQTTAsync_connect, of retry_start_mqtt or mqtt_start. *)
Connect == link' = IF link = "down" THEN "connecting" ELSE link

(* After its loop connlost calls retry_start_mqtt. *)
EndOfLoss ==
    /\ Connect
    /\ emptied' = emptied + 1 /\ told' = FALSE
    /\ Goto(Paho, "idle")

(* The test of the loop and TopicItem_delete up to free. *)
Clear ==
    /\ pc[Paho] = "clear"
    /\ IF topicList = None
       THEN EndOfLoss /\ UNCHANGED <<victim, rest>>
       ELSE /\ victim' = topicList /\ rest' = next[topicList]
            /\ Goto(Paho, "delete") /\ UNCHANGED <<link, emptied, told>>
    /\ UNCHANGED <<held, losses, instance, items, filter, temp, todo, message,
                   via, publisher, history>>

TopicItem_delete ==
    /\ pc[Paho] = "delete"
    /\ memory' = [memory EXCEPT ![victim] = "free"]
    /\ topic' = [topic EXCEPT ![victim] = None]
    /\ next' = [next EXCEPT ![victim] = None]
    /\ victim' = None
    /\ Goto(Paho, "store")
    /\ UNCHANGED <<broker, instance, filter, temp, todo, rest, message, via,
                   publisher, history>>

(* Mutant: topicList still points to the last item after it is freed. *)
StoreList_last ==
    /\ pc[Paho] = "store"
    /\ IF rest = None
       THEN EndOfLoss /\ UNCHANGED <<topicList, rest>>
       ELSE /\ topicList' = rest /\ rest' = None
            /\ Goto(Paho, "clear") /\ UNCHANGED <<link, emptied, told>>
    /\ UNCHANGED <<held, losses, connected, callback, mutex, items, filter, temp,
                   todo, victim, message, via, publisher, history>>

StoreList ==
    /\ pc[Paho] = "store"
    /\ topicList' = rest /\ rest' = None
    /\ Goto(Paho, "clear")
    /\ UNCHANGED <<broker, connected, callback, mutex, items, filter, temp, todo,
                   victim, message, via, publisher, history>>

(* A publisher finds the client connected; MQTTAsync_sendMessage tells it    *)
(* that there is no connection, it clears connected and calls               *)
(* mqtt_start(mqtt, NULL, NULL), which connects, at once or by a retry.     *)
Publish ==
    /\ publisher = "idle" /\ connected
    /\ publisher' = "send"
    /\ UNCHANGED <<broker, instance, items, pc, locals, history>>

Send ==
    /\ publisher = "send"
    /\ publisher' = IF link = "up" THEN "idle" ELSE "mark"
    /\ UNCHANGED <<broker, instance, items, pc, locals, history>>

MarkDisconnected ==
    /\ publisher = "mark"
    /\ connected' = FALSE
    /\ publisher' = "restart"
    /\ UNCHANGED <<broker, callback, topicList, mutex, items, pc, locals, history>>

Restart ==
    /\ publisher = "restart"
    /\ callback' = FALSE
    /\ publisher' = "connect"
    /\ UNCHANGED <<broker, connected, topicList, mutex, items, pc, locals, history>>

RestartConnect ==
    /\ publisher = "connect"
    /\ Connect
    /\ publisher' = "idle"
    /\ UNCHANGED <<held, losses, emptied, told, instance, items, pc, locals,
                   history>>

Publisher == Send \/ MarkDisconnected \/ Restart \/ RestartConnect

-----------------------------------------------------------------------------
(* messageArrived.                                                          *)

Arrive(f, n) ==
    /\ pc[Paho] = "idle" /\ link = "up"
    /\ f \in held /\ BrokerMatches(f, n)
    /\ message' = n /\ via' = f
    /\ Goto(Paho, "arrived")
    /\ UNCHANGED <<broker, instance, items, filter, temp, todo, victim, rest,
                   publisher, history>>

Handled == \E f \in ListedTopics : Matches(f, message)

(* The look-up under the mutex, and the handler or the warning.  The other  *)
(* threads change the list under the mutex only.                            *)
messageArrived ==
    /\ pc[Paho] = "arrived" /\ mutex = None
    /\ message' = None /\ via' = None
    /\ Goto(Paho, "idle")
    /\ UNCHANGED <<broker, instance, items, filter, temp, todo, victim, rest,
                   publisher, history>>

Callbacks ==
    \/ InitTopic \/ Subscribing(Paho) \/ onConnect \/ connlost \/ Clear
    \/ TopicItem_delete \/ StoreList \/ messageArrived

Next ==
    \/ \E h \in Hosts : Subscribe(h) \/ Subscribing(h)
    \/ Callbacks
    \/ ConnectSucceeds \/ ConnectionDrops
    \/ Publish \/ Publisher
    \/ \E f \in Filters, n \in Names : Arrive(f, n)

Spec == Init /\ [][Next]_vars

(* The threads run; the mutex is held for short, so who waits gets it, and   *)
(* messages do not keep the library from a callback that is due.             *)
Fairness ==
    /\ SF_vars(onConnect) /\ SF_vars(connlost)
    /\ WF_vars(Callbacks) /\ SF_vars(Lock(Paho)) /\ SF_vars(messageArrived)
    /\ WF_vars(Publisher)
    /\ \A h \in Hosts : WF_vars(Subscribing(h)) /\ SF_vars(Lock(h))

FairSpec == Spec /\ Fairness

-----------------------------------------------------------------------------
(* connlost is emptying the list. *)
Emptying == pc[Paho] \in {"clear", "delete", "store"}

(* A topic is listed once, although hosts and the connect callback subscribe *)
(* the same topics at the same time, and connlost frees the list under them. *)
(* (While connlost is at it, the item a host appends may get the address of  *)
(* the one that topicList still points to, and the next host, which starts   *)
(* there, misses the items between: until the list is empty.)                *)
OneItemPerTopic ==
    ~Emptying => \A i, j \in Listed : topic[i] = topic[j] => i = j

(* A message the broker sends for a subscription of this client is handled, *)
(* unless it comes before mqtt_subscribe_ex has entered the topic it was     *)
(* sent for, or is published at the parent level of a "#", which             *)
(* messageArrived does not match, or the topic was subscribed while the      *)
(* connlost of an earlier connection was still to end.  (mqtt_publish_ex     *)
(* may connect again before that connlost runs, which then empties the list  *)
(* of the connection that is there, and has erased the connect callback, so  *)
(* that nothing enters the topic again.)                                     *)
UnhandledOnlyEarly ==
    [][messageArrived =>
          \/ Handled
          \/ \E t \in Hosts : pc[t] = "lock" /\ filter[t] = via
          \/ via[Len(via)] = "#" /\ Len(message) = Len(via) - 1
          \/ via \in early]_vars

(* A thread of mqtt_subscribe_ex reads an item that connlost freed, or NULL  *)
(* where it had found a list, only when a connection was lost since the      *)
(* library accepted its subscription, or the connlost of an earlier one had  *)
(* not ended then: what is subscribed on a connection that lasts, with no    *)
(* connlost due, is safe.                                                    *)
FreedOnlyAfterLoss ==
    \A t \in Threads : pc[t] = "undefined" => since[t] < losses

(* On a new connection the topics of the connect callback are all entered,  *)
(* unless the connection is lost again, a subscriber ran into freed items,  *)
(* or a publisher that was refused has erased the callback.                 *)
Resubscribed ==
    link = "up" /\ callback ~>
        \/ InitSet \subseteq ListedTopics
        \/ link # "up" \/ ~callback
        \/ \E t \in Threads : pc[t] = "undefined"

=============================================================================
