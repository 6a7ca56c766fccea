----------------------------- MODULE MqttClient -----------------------------
(***************************************************************************)
(* The connection side of src/src/mqtt.c: the flags running, connecting    *)
(* and connected, the delayed retries, the queue of messages published     *)
(* while there is no connection, and the calls mqtt_start, mqtt_stop,      *)
(* mqtt_publish_ex and mqtt_delete, as the threads that run them interleave*)
(*                                                                         *)
(*   "app"        the host thread that starts, stops and deletes           *)
(*   Publishers   the threads that publish                                 *)
(*   "timer"      the thread of the "mqtt_retry" timer manager             *)
(*   "cb"         the Paho thread that runs the client's callbacks         *)
(*                                                                         *)
(* The flags are plain bool fields that no lock protects, so a step of a   *)
(* thread is what it does between two accesses another thread can see.     *)
(* The topic list, which connlost also clears, is not part of this module. *)
(***************************************************************************)
EXTENDS Integers, Sequences, FiniteSets

CONSTANTS
    Publishers,     \* threads that call mqtt_publish_ex
    Messages,       \* the messages they may publish, each at most once
    None,           \* no message
    LastWait,       \* last index of the waitTime[] table (11 in the code)
    MaxStarts       \* bound on the calls of mqtt_start by the host

Threads == Publishers \cup {"app", "timer", "cb"}
Senders == Publishers \cup {"cb"}

ASSUME ClientAssumption ==
    /\ Publishers \cap {"app", "timer", "cb"} = {}
    /\ IsFiniteSet(Publishers)
    /\ None \notin Messages
    /\ LastWait \in Nat
    /\ MaxStarts \in Nat

VARIABLES
    running, connecting, connected,  \* the flags of struct MqttInstance
    waitTime,                        \* index into the table of delays
    loaded,                          \* what each thread in waitTime++ has read
    overlapped,                      \* history: two threads were in it at once
    connectCallback,                 \* is a connect callback registered?
    pendingMessages,                 \* the queue of struct MqttInstance
    locked,                          \* mqtt->mutex is held by onConnect
    timers,                          \* retries armed with tm_run_after
    client,                          \* the Paho client (external)
    events,                          \* its callbacks not yet run, oldest first
    pc,                              \* where each thread is
    handler,                         \* the callback "cb" is running
    hand,                            \* the message each thread is publishing
    sent, gone,                      \* history: accepted by Paho; given up
    wanted,                          \* history: the host's last call was a start
    starts                           \* number of mqtt_start calls, for the bound

flags == <<running, connecting, connected>>
queues == <<pendingMessages, hand, sent, gone>>
library == <<client, events>>
host == <<wanted, starts>>
backoff == <<waitTime, loaded, overlapped>>
vars == <<flags, backoff, connectCallback, queues, locked, timers, library,
          pc, handler, host>>

ClientStates == {"down", "connecting", "up", "closing", "cycling", "destroyed"}
Callbacks == {"onConnect", "onConnectFailure", "connlost", "onDisconnect"}
Locations == {"idle", "check", "connect", "flag", "delay", "bump",
              "store", "arm", "send", "mark", "requeue", "restart", "stop",
              "spin", "freed", "joined", "callback", "lock", "drain", "settle"}
Handlers == {"none", "onConnect", "onConnectFailure", "connlost",
             "messageArrived"}

Elements(s) == {s[i] : i \in DOMAIN s}
Issued == Elements(pendingMessages) \cup Elements(sent) \cup gone
            \cup {hand[t] : t \in Senders}

TypeOK ==
    /\ running \in BOOLEAN /\ connecting \in BOOLEAN /\ connected \in BOOLEAN
    /\ waitTime \in 0..LastWait + 1
    /\ loaded \in [Threads -> 0..LastWait + 1]
    /\ overlapped \in BOOLEAN
    /\ connectCallback \in BOOLEAN
    /\ pendingMessages \in Seq(Messages)
    /\ locked \in BOOLEAN
    /\ timers \in Nat
    /\ client \in ClientStates
    /\ events \in Seq(Callbacks)
    /\ pc \in [Threads -> Locations]
    /\ handler \in Handlers
    /\ hand \in [Senders -> Messages \cup {None}]
    /\ sent \in Seq(Messages)
    /\ gone \in SUBSET Messages
    /\ wanted \in BOOLEAN
    /\ starts \in 0..MaxStarts

(* mqtt_new: everything zero, no connection, the retry timer running. *)
mqtt_new ==
    /\ running = FALSE /\ connecting = FALSE /\ connected = FALSE
    /\ waitTime = 0
    /\ loaded = [t \in Threads |-> 0] /\ overlapped = FALSE
    /\ connectCallback = FALSE
    /\ pendingMessages = <<>>
    /\ locked = FALSE
    /\ timers = 0
    /\ client = "down"
    /\ events = <<>>
    /\ pc = [t \in Threads |-> "idle"]
    /\ handler = "none"
    /\ hand = [t \in Senders |-> None]
    /\ sent = <<>> /\ gone = {}
    /\ wanted = FALSE /\ starts = 0

Goto(t, l) == pc' = [pc EXCEPT ![t] = l]

(* Where "cb" goes on when a function it called returns: onConnect goes on  *)
(* to its drain, onConnectFailure to its last assignment.                   *)
Continuation(t) ==
    IF t # "cb" THEN "idle"
    ELSE IF handler = "onConnect" THEN "lock"
    ELSE IF handler = "onConnectFailure" THEN "settle"
    ELSE "idle"

Return(t) ==
    /\ Goto(t, Continuation(t))
    /\ handler' = IF t = "cb" /\ Continuation(t) = "idle" THEN "none"
                  ELSE handler

-----------------------------------------------------------------------------
(* do_mqtt_start and what its three callers do with its result.             *)

(* do_mqtt_start returns at once when the client is not running. *)
CheckRunning(t) ==
    /\ pc[t] = "check"
    /\ IF running THEN Goto(t, "connect") /\ UNCHANGED handler ELSE Return(t)
    /\ UNCHANGED <<flags, backoff, connectCallback, queues, locked, timers,
                   library, host>>

(* MQTTAsync_connect returns MQTTASYNC_SUCCESS: the attempt begins if there *)
(* is no connection, runs after a disconnect that is under way, and is      *)
(* ignored if the client is connecting or connected already.                *)
ConnectAccepted(t) ==
    /\ pc[t] = "connect"
    /\ client' = CASE client = "down" -> "connecting"
                   [] client = "closing" -> "cycling"
                   [] OTHER -> client
    /\ Goto(t, "flag")
    /\ UNCHANGED <<flags, backoff, connectCallback, queues, locked, timers,
                   events, handler, host>>

(* MQTTAsync_connect returns an error. *)
ConnectRefused(t) ==
    /\ pc[t] = "connect"
    /\ Goto(t, "delay")
    /\ UNCHANGED <<flags, backoff, connectCallback, queues, locked, timers,
                   library, handler, host>>

(* connecting = true, after the call: a callback may have run in between. *)
SetConnecting(t) ==
    /\ pc[t] = "flag"
    /\ connecting' = TRUE
    /\ Return(t)
    /\ UNCHANGED <<running, connected, backoff, connectCallback, queues,
                   locked, timers, library, host>>

(* Another thread is between its comparison and its store. *)
Incrementing == {"bump", "store"}
Overlaps(t) == \E u \in Threads \ {t} : pc[u] \in Incrementing

(* Mutant: increase_delay_time compares with <= instead of <. *)
increase_delay_time_off_by_one(t) ==
    /\ pc[t] = "delay"
    /\ IF waitTime <= LastWait
       THEN Goto(t, "bump") /\ overlapped' = (overlapped \/ Overlaps(t))
       ELSE Goto(t, "arm") /\ UNCHANGED overlapped
    /\ UNCHANGED <<flags, waitTime, loaded, connectCallback, queues, locked,
                   timers, library, handler, host>>

(* increase_delay_time: the comparison of the index ... *)
increase_delay_time(t) ==
    /\ pc[t] = "delay"
    /\ IF waitTime < LastWait
       THEN Goto(t, "bump") /\ overlapped' = (overlapped \/ Overlaps(t))
       ELSE Goto(t, "arm") /\ UNCHANGED overlapped
    /\ UNCHANGED <<flags, waitTime, loaded, connectCallback, queues, locked,
                   timers, library, handler, host>>

(* ... then mqtt->waitTime++, a load ... *)
LoadWaitTime(t) ==
    /\ pc[t] = "bump"
    /\ loaded' = [loaded EXCEPT ![t] = waitTime]
    /\ Goto(t, "store")
    /\ UNCHANGED <<flags, waitTime, overlapped, connectCallback, queues,
                   locked, timers, library, handler, host>>

(* ... and a store, which undoes what others stored since the load, the     *)
(* reset of onConnect included.  LastWait + 1 stands for every index past   *)
(* the table: no comparison tells them apart.                               *)
StoreWaitTime(t) ==
    /\ pc[t] = "store"
    /\ waitTime' = IF loaded[t] > LastWait THEN loaded[t] ELSE loaded[t] + 1
    /\ loaded' = [loaded EXCEPT ![t] = 0]
    /\ Goto(t, "arm")
    /\ UNCHANGED <<flags, overlapped, connectCallback, queues, locked, timers,
                   library, handler, host>>

(* tm_run_after(..., retry_start_mqtt, mqtt).  Once mqtt_delete has joined  *)
(* the timer thread the timer manager is freed: the call uses freed memory, *)
(* and at best nobody is left to run the retry.                             *)
ArmRetry(t) ==
    /\ pc[t] = "arm"
    /\ timers' = IF pc["timer"] = "joined" THEN timers ELSE timers + 1
    /\ Return(t)
    /\ UNCHANGED <<flags, backoff, connectCallback, queues, locked, library,
                   host>>

(* The timer thread runs retry_start_mqtt for one of the armed retries. *)
retry_start_mqtt ==
    /\ pc["timer"] = "idle"
    /\ timers > 0
    /\ timers' = timers - 1
    /\ Goto("timer", "check")
    /\ UNCHANGED <<flags, backoff, connectCallback, queues, locked, library,
                   handler, host>>

Starting(t) ==
    \/ CheckRunning(t) \/ ConnectAccepted(t) \/ ConnectRefused(t)
    \/ SetConnecting(t)
    \/ increase_delay_time(t) \/ LoadWaitTime(t) \/ StoreWaitTime(t)
    \/ ArmRetry(t)

-----------------------------------------------------------------------------
(* The calls of the host.                                                   *)

mqtt_start ==
    /\ pc["app"] = "idle"
    /\ starts < MaxStarts
    /\ starts' = starts + 1
    /\ wanted' = TRUE
    /\ running' = TRUE
    /\ connectCallback' = TRUE
    /\ Goto("app", "check")
    /\ UNCHANGED <<connecting, connected, backoff, queues, locked, timers,
                   library, handler>>

mqtt_stop ==
    /\ pc["app"] = "idle"
    /\ starts > 0
    /\ wanted' = FALSE
    /\ running' = FALSE
    /\ Goto("app", "stop")
    /\ UNCHANGED <<connecting, connected, backoff, connectCallback, queues,
                   locked, timers, library, handler, starts>>

(* The rest of mqtt_stop: if connected, MQTTAsync_disconnect, which may     *)
(* return an error and does so when there is no connection.                 *)
StopDisconnect ==
    /\ pc["app"] = "stop"
    /\ \/ connected /\ client = "up" /\ client' = "closing"
       \/ UNCHANGED client
    /\ Goto("app", "idle")
    /\ UNCHANGED <<flags, backoff, connectCallback, queues, locked, timers,
                   events, handler, host>>

(* mqtt_delete, called when the host is done with the client: tm_destroy    *)
(* joins the timer thread and drops the armed retries.                      *)
mqtt_delete ==
    /\ pc["app"] = "idle"
    /\ ~wanted
    /\ \A p \in Publishers : pc[p] = "idle"
    /\ pc["timer"] = "idle"
    /\ timers' = 0
    /\ pc' = [pc EXCEPT !["timer"] = "joined", !["app"] = "spin"]
    /\ UNCHANGED <<flags, backoff, connectCallback, queues, locked, library,
                   handler, host>>

(* mqtt_delete leaves its waiting loop when both flags are clear, destroys  *)
(* the Paho client and frees the instance with the queue.                   *)
DeleteFree ==
    /\ pc["app"] = "spin"
    /\ ~connected /\ ~connecting
    /\ client' = "destroyed"
    /\ events' = <<>>
    /\ gone' = gone \cup Elements(pendingMessages)
    /\ pendingMessages' = <<>>
    /\ Goto("app", "freed")
    /\ UNCHANGED <<flags, backoff, connectCallback, hand, sent, locked,
                   timers, handler, host>>

-----------------------------------------------------------------------------
(* mqtt_publish_ex.                                                         *)

(* Mutant: mqtt_publish_ex queues with emplace_front. *)
mqtt_publish_ex_front(t, m) ==
    /\ m \notin Issued
    /\ ~locked
    /\ pc[t] = "idle" /\ pc["app"] # "spin"
    /\ ~connected
    /\ pendingMessages' = <<m>> \o pendingMessages
    /\ UNCHANGED <<flags, backoff, connectCallback, hand, sent, gone, locked,
                   timers, library, pc, handler, host>>

(* Under mqtt->mutex: queue the message if not connected.  "cb" publishes   *)
(* from the connect callback and from the handlers of arrived messages.     *)
mqtt_publish_ex(t, m) ==
    /\ m \notin Issued
    /\ ~locked
    /\ \/ /\ t # "cb" /\ pc[t] = "idle" /\ pc["app"] # "spin"
          /\ UNCHANGED handler
       \/ /\ t = "cb" /\ pc[t] = "idle" /\ client = "up"
          /\ handler' = IF connected THEN "messageArrived" ELSE "none"
       \/ /\ t = "cb" /\ pc[t] = "callback" /\ connectCallback
          /\ UNCHANGED handler
    /\ IF connected
       THEN /\ hand' = [hand EXCEPT ![t] = m]
            /\ Goto(t, "send")
            /\ UNCHANGED pendingMessages
       ELSE /\ pendingMessages' = Append(pendingMessages, m)
            /\ Goto(t, IF pc[t] = "callback" THEN "lock" ELSE "idle")
            /\ UNCHANGED hand
    /\ UNCHANGED <<flags, backoff, connectCallback, sent, gone, locked,
                   timers, library, host>>

(* MQTTAsync_sendMessage, with the mutex released. *)
SendAccepted(t) ==
    /\ pc[t] = "send"
    /\ client \in {"up", "closing", "cycling"}
    /\ sent' = Append(sent, hand[t])
    /\ hand' = [hand EXCEPT ![t] = None]
    /\ Return(t)
    /\ UNCHANGED <<flags, backoff, connectCallback, pendingMessages, gone,
                   locked, timers, library, host>>

SendRefused(t) ==
    /\ pc[t] = "send"
    /\ gone' = gone \cup {hand[t]}
    /\ hand' = [hand EXCEPT ![t] = None]
    /\ Return(t)
    /\ UNCHANGED <<flags, backoff, connectCallback, pendingMessages, sent,
                   locked, timers, library, host>>

(* MQTTASYNC_DISCONNECTED, and connected = false some time after it. *)
SendDisconnected(t) ==
    /\ pc[t] = "send"
    /\ client # "up"
    /\ Goto(t, "mark")
    /\ UNCHANGED <<flags, backoff, connectCallback, queues, locked, timers,
                   library, handler, host>>

MarkDisconnected(t) ==
    /\ pc[t] = "mark"
    /\ connected' = FALSE
    /\ Goto(t, "requeue")
    /\ UNCHANGED <<running, connecting, backoff, connectCallback, queues,
                   locked, timers, library, handler, host>>

(* Not running: give the message up.  Running: queue it, without the mutex  *)
(* of the client, and call mqtt_start(mqtt, NULL, NULL).                    *)
Requeue(t) ==
    /\ pc[t] = "requeue"
    /\ hand' = [hand EXCEPT ![t] = None]
    /\ IF running
       THEN /\ pendingMessages' = Append(pendingMessages, hand[t])
            /\ Goto(t, "restart")
            /\ UNCHANGED <<gone, handler>>
       ELSE /\ gone' = gone \cup {hand[t]}
            /\ Return(t)
            /\ UNCHANGED pendingMessages
    /\ UNCHANGED <<flags, backoff, connectCallback, sent, locked, timers,
                   library, host>>

Restart(t) ==
    /\ pc[t] = "restart"
    /\ running' = TRUE
    /\ connectCallback' = FALSE
    /\ Goto(t, "check")
    /\ UNCHANGED <<connecting, connected, backoff, queues, locked, timers,
                   library, handler, host>>

Publishing(t) ==
    \/ SendAccepted(t) \/ SendRefused(t) \/ SendDisconnected(t)
    \/ MarkDisconnected(t) \/ Requeue(t) \/ Restart(t)

-----------------------------------------------------------------------------
(* The callbacks.                                                           *)

NextEvent(e) ==
    /\ pc["cb"] = "idle"
    /\ events # <<>>
    /\ Head(events) = e
    /\ events' = Tail(events)
    /\ handler' = IF e = "onDisconnect" THEN "none" ELSE e

onConnect ==
    /\ NextEvent("onConnect")
    /\ connected' = TRUE
    /\ connecting' = FALSE
    /\ waitTime' = 0
    /\ Goto("cb", "callback")
    /\ UNCHANGED <<running, loaded, overlapped, connectCallback, queues, locked,
                   timers, client, host>>

(* The connect callback is absent, or returns without publishing. *)
SkipCallback ==
    /\ pc["cb"] = "callback"
    /\ Goto("cb", "lock")
    /\ UNCHANGED <<flags, backoff, connectCallback, queues, locked, timers,
                   library, handler, host>>

(* onConnect takes the mutex ... *)
DrainLock ==
    /\ pc["cb"] = "lock"
    /\ locked' = TRUE
    /\ Goto("cb", "drain")
    /\ UNCHANGED <<flags, backoff, connectCallback, queues, timers, library,
                   handler, host>>

(* ... hands the front of the queue to MQTTAsync_sendMessage, whose error   *)
(* is only logged, and pops it ...                                          *)
DrainOne ==
    /\ pc["cb"] = "drain"
    /\ pendingMessages # <<>>
    /\ pendingMessages' = Tail(pendingMessages)
    /\ \/ /\ client \in {"up", "closing", "cycling"}
          /\ sent' = Append(sent, Head(pendingMessages))
          /\ UNCHANGED gone
       \/ /\ gone' = gone \cup {Head(pendingMessages)}
          /\ UNCHANGED sent
    /\ UNCHANGED <<flags, backoff, connectCallback, hand, locked, timers,
                   library, pc, handler, host>>

(* Mutant: onConnect sends one message instead of looping. *)
DrainUnlock_early ==
    /\ pc["cb"] = "drain"
    /\ locked' = FALSE
    /\ Goto("cb", "idle")
    /\ handler' = "none"
    /\ UNCHANGED <<flags, backoff, connectCallback, queues, timers, library,
                   host>>

(* ... and releases the mutex when the queue is empty. *)
DrainUnlock ==
    /\ pc["cb"] = "drain"
    /\ pendingMessages = <<>>
    /\ locked' = FALSE
    /\ Goto("cb", "idle")
    /\ handler' = "none"
    /\ UNCHANGED <<flags, backoff, connectCallback, queues, timers, library,
                   host>>

(* connlost ends with retry_start_mqtt. *)
connlost ==
    /\ NextEvent("connlost")
    /\ connected' = FALSE
    /\ Goto("cb", "check")
    /\ UNCHANGED <<running, connecting, backoff, connectCallback, queues,
                   locked, timers, client, host>>

(* Mutant: onConnectFailure does not arm a retry. *)
onConnectFailure_no_retry ==
    /\ NextEvent("onConnectFailure")
    /\ Goto("cb", "settle")
    /\ UNCHANGED <<flags, backoff, connectCallback, queues, locked, timers,
                   client, host>>

(* onConnectFailure arms a retry if the client is running ... *)
onConnectFailure ==
    /\ NextEvent("onConnectFailure")
    /\ Goto("cb", IF running THEN "delay" ELSE "settle")
    /\ UNCHANGED <<flags, backoff, connectCallback, queues, locked, timers,
                   client, host>>

(* ... and in both branches ends with connecting = false. *)
ClearConnecting ==
    /\ pc["cb"] = "settle"
    /\ connecting' = FALSE
    /\ Goto("cb", "idle")
    /\ handler' = "none"
    /\ UNCHANGED <<running, connected, backoff, connectCallback, queues,
                   locked, timers, library, host>>

(* onDisconnect and onDisconnectFailure. *)
onDisconnect ==
    /\ NextEvent("onDisconnect")
    /\ connected' = FALSE
    /\ UNCHANGED <<running, connecting, backoff, connectCallback, queues,
                   locked, timers, client, pc, host>>

Callback ==
    \/ onConnect \/ SkipCallback \/ DrainLock \/ DrainOne \/ DrainUnlock
    \/ connlost \/ onConnectFailure \/ ClearConnecting \/ onDisconnect

-----------------------------------------------------------------------------
(* The Paho client, from how mqtt.c uses it.                                *)

Library(from, to, event) ==
    /\ client = from
    /\ client' = to
    /\ events' = Append(events, event)
    /\ UNCHANGED <<flags, backoff, connectCallback, queues, locked, timers,
                   pc, handler, host>>

ConnectSucceeds == Library("connecting", "up", "onConnect")
ConnectFails    == Library("connecting", "down", "onConnectFailure")
ConnectionDrops == Library("up", "down", "connlost")
Disconnected    == \/ Library("closing", "down", "onDisconnect")
                   \/ Library("cycling", "connecting", "onDisconnect")

Paho == ConnectSucceeds \/ ConnectFails \/ ConnectionDrops \/ Disconnected

-----------------------------------------------------------------------------
(* Once mqtt_delete has freed the instance nothing is specified any more.   *)
Alive == pc["app"] # "freed"

Next ==
    /\ Alive
    /\ \/ mqtt_start \/ mqtt_stop \/ StopDisconnect
       \/ mqtt_delete \/ DeleteFree
       \/ retry_start_mqtt
       \/ \E t \in Threads : Starting(t)
       \/ \E t \in Senders, m \in Messages : mqtt_publish_ex(t, m)
       \/ \E t \in Senders : Publishing(t)
       \/ Callback
       \/ Paho

Spec == mqtt_new /\ [][Next]_vars

(***************************************************************************)
(* Every thread goes on with the call it is in, an armed retry fires, the  *)
(* callback thread runs what is due, and the library ends what it began.   *)
(* The strong fairness is about the library alone: it does not refuse each *)
(* and every call of MQTTAsync_connect for ever.  Nothing makes the host   *)
(* start, stop, publish or delete.                                         *)
(***************************************************************************)
Fairness ==
    /\ \A t \in Threads : WF_vars(Alive /\ Starting(t))
    /\ \A t \in Senders : WF_vars(Alive /\ Publishing(t))
    /\ WF_vars(Alive /\ retry_start_mqtt)
    /\ WF_vars(Alive /\ StopDisconnect)
    /\ WF_vars(Alive /\ Callback)
    /\ WF_vars(Alive /\ (ConnectSucceeds \/ ConnectFails))
    /\ WF_vars(Alive /\ Disconnected)
    /\ SF_vars(Alive /\ \E t \in Threads : ConnectAccepted(t))

FairSpec == Spec /\ Fairness

-----------------------------------------------------------------------------
(* Something will try to connect again: a retry is armed, a thread is on    *)
(* its way to MQTTAsync_connect or to arming a retry, or a callback that    *)
(* does so is due.                                                          *)
Active == {"check", "connect", "delay", "bump", "store", "arm"}

Due(s) == \E i \in DOMAIN s : s[i] \in {"connlost", "onConnectFailure"}

RetryUnderWay ==
    timers > 0 \/ (\E t \in Threads : pc[t] \in Active) \/ Due(events)

(* While the host wants the connection (it started the client and has not   *)
(* stopped it since) the client never sits without a connection and without *)
(* anything left that would reconnect it: whatever the interleaving of      *)
(* mqtt_start, failed attempts, connlost, the retries of the timer thread   *)
(* and the restarts made by mqtt_publish_ex, a retry is always under way    *)
(* and do_mqtt_start will not take its early return.                        *)
NeverStranded ==
    wanted /\ client \in {"down", "closing"} => running /\ RetryUnderWay

Distinct(s) == \A i, j \in DOMAIN s : s[i] = s[j] => i = j

(* A published message is in one place only and there once: in the call     *)
(* publishing it, in pendingMessages, accepted by Paho, or given up.  So    *)
(* no message is sent twice, although mqtt_publish_ex queues again what it  *)
(* failed to send and onConnect sends what others queue meanwhile.          *)
OneCopy ==
    /\ Distinct(pendingMessages) /\ Distinct(sent)
    /\ Elements(pendingMessages) \cap Elements(sent) = {}
    /\ gone \cap (Elements(pendingMessages) \cup Elements(sent)) = {}
    /\ \A t \in Senders : hand[t] \notin
          Elements(pendingMessages) \cup Elements(sent) \cup gone
    /\ \A t, u \in Senders : hand[t] = hand[u] /\ hand[t] # None => t = u

(* The delay of a retry is read from waitTime[] at the index as it is, and  *)
(* increase_delay_time has no lock.  The index leaves the table only when   *)
(* two threads were in the increment at once: threads that back off one     *)
(* after the other keep it inside, whatever onConnect resets meanwhile, and *)
(* also when a store undoes such a reset.  After an overlap no bound holds: *)
(* a stale store brings back an index that threads passing the comparison   *)
(* after the reset then increment further.                                  *)
DelayInTable == waitTime > LastWait => overlapped

(* A wanted connection that is down is attempted again. *)
Reconnects == (wanted /\ client = "down") ~> (client # "down" \/ ~wanted)

(* Every connection that comes up empties the queue of pending messages,    *)
(* those included that threads queue while onConnect is draining it.        *)
ConnectionFlushesQueue ==
    (client = "up" /\ handler = "onConnect") ~> (pendingMessages = <<>>)

Box == INSTANCE Outbox
          WITH held <- {hand[t] : t \in Senders} \ {None},
               waiting <- pendingMessages, delivered <- sent

(* The client keeps the promise of the outbox: pending messages are served  *)
(* in the order in which they were queued, and none is transmitted twice or *)
(* comes back after it was given up.                                        *)
ServesOutbox == Box!OutboxSpec

=============================================================================
