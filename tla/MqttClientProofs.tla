-------------------------- MODULE MqttClientProofs --------------------------
(***************************************************************************)
(* Proofs about MqttClient for any number of publishers and messages and   *)
(* any length of the table of delays.                                      *)
(***************************************************************************)
EXTENDS MqttClient, TLAPS

(* The threads of the client are told apart by ClientAssumption. *)
LEMMA ThreadFacts ==
    /\ "app" \in Threads /\ "timer" \in Threads /\ "cb" \in Threads
    /\ Senders \subseteq Threads
    /\ "app" \notin Senders /\ "timer" \notin Senders
    /\ "cb" \in Senders
BY ClientAssumption DEF Threads, Senders

(* What the sequence operators return. *)
LEMMA AppendType ==
    ASSUME NEW S, NEW s \in Seq(S), NEW x \in S
    PROVE  Append(s, x) \in Seq(S)
OBVIOUS

LEMMA PopType ==
    ASSUME NEW S, NEW s \in Seq(S), s # <<>>
    PROVE  Head(s) \in S /\ Tail(s) \in Seq(S)
OBVIOUS

(* A call that returns lands where its caller waits for it. *)
LEMMA ContinuationType ==
    ASSUME NEW t
    PROVE  Continuation(t) \in {"idle", "lock", "settle"}
BY DEF Continuation

(* A thread inside mqtt_publish_ex after the check of connected holds the  *)
(* message it publishes: what it appends to sent, pendingMessages or gone  *)
(* is a message.                                                           *)
HoldsMessage ==
    \A t \in Senders :
        pc[t] \in {"send", "mark", "requeue"} => hand[t] \in Messages

TypeInv == TypeOK /\ HoldsMessage

LEMMA InitType == mqtt_new => TypeInv
<1> SUFFICES ASSUME mqtt_new PROVE TypeInv
  OBVIOUS
<1>1. pc \in [Threads -> Locations] /\ hand \in [Senders -> Messages \cup {None}]
  BY DEF mqtt_new, Locations
<1>2. /\ pendingMessages \in Seq(Messages) /\ events \in Seq(Callbacks)
      /\ sent \in Seq(Messages) /\ gone \in SUBSET Messages
  BY DEF mqtt_new
<1>3. starts \in 0..MaxStarts /\ timers \in Nat
  BY ClientAssumption DEF mqtt_new
<1>7. waitTime \in 0..LastWait + 1 /\ loaded \in [Threads -> 0..LastWait + 1]
  <2>1. 0 \in 0..LastWait + 1
    BY ClientAssumption
  <2> QED
    BY <2>1 DEF mqtt_new
<1>4. client \in ClientStates /\ handler \in Handlers
  BY DEF mqtt_new, ClientStates, Handlers
<1>5. /\ running \in BOOLEAN /\ connecting \in BOOLEAN /\ connected \in BOOLEAN
      /\ connectCallback \in BOOLEAN /\ locked \in BOOLEAN /\ wanted \in BOOLEAN
      /\ overlapped \in BOOLEAN
  BY DEF mqtt_new
<1>6. HoldsMessage
  BY ThreadFacts DEF mqtt_new, HoldsMessage
<1> QED
  BY <1>1, <1>2, <1>3, <1>4, <1>5, <1>6, <1>7 DEF TypeInv, TypeOK

(* The next event leaves a queue of events. *)
LEMMA NextEventType ==
    ASSUME TypeOK, NEW e \in Callbacks, NextEvent(e)
    PROVE  events' \in Seq(Callbacks) /\ handler' \in Handlers
BY PopType DEF NextEvent, TypeOK, Callbacks, Handlers

LEMMA StepType == TypeInv /\ [Next]_vars => TypeInv'
<1> SUFFICES ASSUME TypeInv, [Next]_vars PROVE TypeInv'
  OBVIOUS
<1> USE ThreadFacts, ClientAssumption
      DEF TypeInv, TypeOK, HoldsMessage, ClientStates, Callbacks, Handlers,
          Locations, Goto, flags, backoff, queues, library, host
<1>1. CASE mqtt_start
  BY <1>1 DEF mqtt_start
<1>2. CASE mqtt_stop
  <2>1. pc' \in [Threads -> Locations] /\ HoldsMessage'
    BY <1>2 DEF mqtt_stop
  <2>2. running' \in BOOLEAN /\ wanted' \in BOOLEAN
    BY <1>2 DEF mqtt_stop
  <2>3. /\ UNCHANGED <<connecting, connected, backoff, connectCallback, queues>>
        /\ UNCHANGED <<locked, timers, library, handler, starts>>
    BY <1>2 DEF mqtt_stop
  <2> QED
    BY <2>1, <2>2, <2>3
<1>3. CASE StopDisconnect
  BY <1>3 DEF StopDisconnect
<1>4. CASE mqtt_delete
  <2>1. pc' \in [Threads -> Locations] /\ HoldsMessage'
    BY <1>4 DEF mqtt_delete
  <2> QED
    BY <1>4, <2>1 DEF mqtt_delete
<1>5. CASE DeleteFree
  BY <1>5 DEF DeleteFree, Elements
<1>6. CASE retry_start_mqtt
  BY <1>6 DEF retry_start_mqtt
<1>7. ASSUME NEW t \in Threads, Starting(t) PROVE TypeInv'
  <2> USE ContinuationType DEF Return
  <2>1. CASE CheckRunning(t)
    <3>1. CASE running
      <4>1. /\ pc' = [pc EXCEPT ![t] = "connect"]
            /\ UNCHANGED <<flags, backoff, connectCallback, queues, locked,
                           timers, library, host, handler>>
        BY <2>1, <3>1 DEF CheckRunning
      <4>2. pc' \in [Threads -> Locations]
        BY <4>1
      <4>3. HoldsMessage'
        BY <4>1
      <4> QED
        BY <4>1, <4>2, <4>3
    <3>2. CASE ~running
      <4>1. /\ pc' = [pc EXCEPT ![t] = Continuation(t)]
            /\ handler' \in {"none", handler}
            /\ UNCHANGED <<flags, backoff, connectCallback, queues, locked,
                           timers, library, host>>
        BY <2>1, <3>2 DEF CheckRunning
      <4>2. pc' \in [Threads -> Locations] /\ HoldsMessage'
        BY <4>1
      <4> QED
        BY <4>1, <4>2
    <3> QED
      BY <3>1, <3>2
  <2>2. CASE ConnectAccepted(t)
    BY <2>2 DEF ConnectAccepted
  <2>3. CASE ConnectRefused(t)
    BY <2>3 DEF ConnectRefused
  <2>4. CASE SetConnecting(t)
    BY <2>4 DEF SetConnecting
  <2>5. CASE increase_delay_time(t)
    <3>1. /\ pc' \in [Threads -> Locations] /\ HoldsMessage'
          /\ overlapped' \in BOOLEAN
      BY <2>5 DEF increase_delay_time, Overlaps
    <3> QED
      BY <2>5, <3>1 DEF increase_delay_time
  <2>6. CASE LoadWaitTime(t)
    <3>1. pc' \in [Threads -> Locations] /\ HoldsMessage'
      BY <2>6 DEF LoadWaitTime
    <3> QED
      BY <2>6, <3>1 DEF LoadWaitTime
  <2>8. CASE StoreWaitTime(t)
    <3>1. pc' \in [Threads -> Locations] /\ HoldsMessage'
      BY <2>8 DEF StoreWaitTime
    <3>2. /\ waitTime' \in 0..LastWait + 1
          /\ loaded' \in [Threads -> 0..LastWait + 1]
      BY <2>8 DEF StoreWaitTime
    <3> QED
      BY <2>8, <3>1, <3>2 DEF StoreWaitTime
  <2>7. CASE ArmRetry(t)
    BY <2>7 DEF ArmRetry
  <2> QED
    BY <1>7, <2>1, <2>2, <2>3, <2>4, <2>5, <2>6, <2>7, <2>8 DEF Starting
<1>8. ASSUME NEW t \in Senders, NEW m \in Messages, mqtt_publish_ex(t, m)
      PROVE  TypeInv'
  <2>1. CASE connected
    <3>1. pc' \in [Threads -> Locations] /\ HoldsMessage'
      <4>1. pc' = [pc EXCEPT ![t] = "send"] /\ hand' = [hand EXCEPT ![t] = m]
        BY <1>8, <2>1 DEF mqtt_publish_ex
      <4> QED
        BY <4>1
    <3>2. hand' \in [Senders -> Messages \cup {None}]
      BY <1>8, <2>1 DEF mqtt_publish_ex
    <3>4. handler' \in Handlers
      BY <1>8, <2>1 DEF mqtt_publish_ex
    <3>3. /\ UNCHANGED <<flags, backoff, connectCallback, pendingMessages, sent>>
          /\ UNCHANGED <<gone, locked, timers, library, host>>
      BY <1>8, <2>1 DEF mqtt_publish_ex
    <3> QED
      BY <3>1, <3>2, <3>3, <3>4
  <2>2. CASE ~connected
    <3>1. Append(pendingMessages, m) \in Seq(Messages)
      BY AppendType
    <3>2. handler' \in Handlers
      BY <1>8, <2>2 DEF mqtt_publish_ex
    <3>3. pc' \in [Threads -> Locations] /\ HoldsMessage'
      BY <1>8, <2>2 DEF mqtt_publish_ex
    <3> QED
      BY <1>8, <2>2, <3>1, <3>2, <3>3 DEF mqtt_publish_ex
  <2> QED
    BY <2>1, <2>2
<1>9. ASSUME NEW t \in Senders, Publishing(t) PROVE TypeInv'
  <2> USE ContinuationType DEF Return
  <2>1. CASE SendAccepted(t)
    BY <2>1 DEF SendAccepted
  <2>2. CASE SendRefused(t)
    BY <2>2 DEF SendRefused
  <2>3. CASE SendDisconnected(t)
    BY <2>3 DEF SendDisconnected
  <2>4. CASE MarkDisconnected(t)
    BY <2>4 DEF MarkDisconnected
  <2>5. CASE Requeue(t)
    <3>1. hand[t] \in Messages
      BY <2>5 DEF Requeue
    <3>2. CASE running
      <4>1. Append(pendingMessages, hand[t]) \in Seq(Messages)
        BY <3>1, AppendType
      <4>2. /\ pc' = [pc EXCEPT ![t] = "restart"]
            /\ hand' = [hand EXCEPT ![t] = None]
            /\ pendingMessages' = Append(pendingMessages, hand[t])
            /\ UNCHANGED <<flags, backoff, connectCallback, sent, gone,
                           locked, timers, library, host, handler>>
        BY <2>5, <3>2 DEF Requeue
      <4>3. /\ pc' \in [Threads -> Locations]
            /\ hand' \in [Senders -> Messages \cup {None}]
        BY <4>2
      <4>4. HoldsMessage'
        BY <4>2
      <4> QED
        BY <4>1, <4>2, <4>3, <4>4
    <3>3. CASE ~running
      <4>1. pc' \in [Threads -> Locations] /\ HoldsMessage'
        <5>1. /\ pc' = [pc EXCEPT ![t] = Continuation(t)]
              /\ hand' = [hand EXCEPT ![t] = None]
          BY <2>5, <3>3 DEF Requeue
        <5> QED
          BY <5>1
      <4>2. /\ hand' \in [Senders -> Messages \cup {None}]
            /\ handler' \in Handlers /\ gone' \in SUBSET Messages
        BY <2>5, <3>1, <3>3 DEF Requeue
      <4> QED
        BY <2>5, <3>3, <4>1, <4>2 DEF Requeue
    <3> QED
      BY <3>2, <3>3
  <2>6. CASE Restart(t)
    BY <2>6 DEF Restart
  <2> QED
    BY <1>9, <2>1, <2>2, <2>3, <2>4, <2>5, <2>6 DEF Publishing
<1>10. CASE Callback
  <2>1. CASE onConnect
    <3>1. events' \in Seq(Callbacks) /\ handler' \in Handlers
      BY <2>1, NextEventType DEF onConnect
    <3>2. pc' \in [Threads -> Locations] /\ HoldsMessage'
      BY <2>1 DEF onConnect
    <3>3. waitTime' \in 0..LastWait + 1
      BY <2>1 DEF onConnect
    <3> QED
      BY <2>1, <3>1, <3>2, <3>3 DEF onConnect
  <2>2. CASE SkipCallback
    BY <2>2 DEF SkipCallback
  <2>3. CASE DrainLock
    BY <2>3 DEF DrainLock
  <2>4. CASE DrainOne
    <3>1. /\ Head(pendingMessages) \in Messages
          /\ Tail(pendingMessages) \in Seq(Messages)
      BY <2>4, PopType DEF DrainOne
    <3>2. Append(sent, Head(pendingMessages)) \in Seq(Messages)
      BY <3>1, AppendType
    <3>3. /\ pendingMessages' \in Seq(Messages) /\ sent' \in Seq(Messages)
          /\ gone' \in SUBSET Messages
      BY <2>4, <3>1, <3>2 DEF DrainOne
    <3> QED
      BY <2>4, <3>3 DEF DrainOne
  <2>5. CASE DrainUnlock
    BY <2>5 DEF DrainUnlock
  <2>6. CASE connlost
    <3>1. events' \in Seq(Callbacks) /\ handler' \in Handlers
      BY <2>6, NextEventType DEF connlost
    <3> QED
      BY <2>6, <3>1 DEF connlost
  <2>7. CASE onConnectFailure
    <3>1. CASE running
      BY <2>7, <3>1 DEF onConnectFailure, NextEvent
    <3>2. CASE ~running
      BY <2>7, <3>2 DEF onConnectFailure, NextEvent
    <3> QED
      BY <3>1, <3>2
  <2>8. CASE ClearConnecting
    BY <2>8 DEF ClearConnecting
  <2>9. CASE onDisconnect
    <3>1. events' \in Seq(Callbacks) /\ handler' \in Handlers
      BY <2>9, NextEventType DEF onDisconnect
    <3> QED
      BY <2>9, <3>1 DEF onDisconnect
  <2> QED
    BY <1>10, <2>1, <2>2, <2>3, <2>4, <2>5, <2>6, <2>7, <2>8, <2>9 DEF Callback
<1>11. CASE Paho
  <2>1. CASE ConnectSucceeds
    BY <2>1 DEF ConnectSucceeds, Library
  <2>2. CASE ConnectFails
    BY <2>2 DEF ConnectFails, Library
  <2>3. CASE ConnectionDrops
    BY <2>3 DEF ConnectionDrops, Library
  <2>4. CASE Disconnected
    <3>1. Append(events, "onDisconnect") \in Seq(Callbacks)
      BY AppendType
    <3>2. events' = Append(events, "onDisconnect")
      BY <2>4 DEF Disconnected, Library
    <3>3. client' \in ClientStates
      BY <2>4 DEF Disconnected, Library
    <3>4. UNCHANGED <<flags, backoff, connectCallback, queues, locked,
                      timers, pc, handler, host>>
      BY <2>4 DEF Disconnected, Library
    <3> QED
      BY <3>1, <3>2, <3>3, <3>4
  <2> QED
    BY <1>11, <2>1, <2>2, <2>3, <2>4 DEF Paho
<1>12. CASE UNCHANGED vars
  BY <1>12 DEF vars
<1> QED
  BY <1>1, <1>2, <1>3, <1>4, <1>5, <1>6, <1>7, <1>8, <1>9, <1>10, <1>11, <1>12 DEF Next

(* The variables of the client keep their types. *)
THEOREM TypeCorrect == Spec => []TypeOK
<1>1. Spec => []TypeInv
  BY InitType, StepType, PTL DEF Spec
<1> QED
  BY <1>1, PTL DEF TypeInv

-----------------------------------------------------------------------------
(* NeverStranded is not inductive alone: that the host wants the client     *)
(* must imply that it is running, and a start must not overlap a stop or a  *)
(* delete of the same host.                                                 *)
Wanted ==
    /\ wanted => running /\ pc["app"] \notin {"stop", "spin", "freed"}
    /\ pc["timer"] = "joined" => pc["app"] \in {"spin", "freed"}

StrandedInv == Wanted /\ NeverStranded

(* A due callback stays due when another joins the queue or leaves it.      *)
LEMMA DueAppend ==
    ASSUME NEW S, NEW s \in Seq(S), NEW x \in S,
           Due(s) \/ x \in {"connlost", "onConnectFailure"}
    PROVE  Due(Append(s, x))
<1>1. CASE Due(s)
  <2>1. PICK i \in DOMAIN s : s[i] \in {"connlost", "onConnectFailure"}
    BY <1>1 DEF Due
  <2>2. i \in DOMAIN Append(s, x) /\ Append(s, x)[i] = s[i]
    BY <2>1
  <2> QED
    BY <2>1, <2>2 DEF Due
<1>2. CASE x \in {"connlost", "onConnectFailure"}
  <2>1. Len(s) + 1 \in DOMAIN Append(s, x) /\ Append(s, x)[Len(s) + 1] = x
    OBVIOUS
  <2> QED
    BY <1>2, <2>1 DEF Due
<1> QED
  BY <1>1, <1>2

LEMMA DueTail ==
    ASSUME NEW S, NEW s \in Seq(S), s # <<>>, Due(s),
           Head(s) \notin {"connlost", "onConnectFailure"}
    PROVE  Due(Tail(s))
<1>1. PICK i \in DOMAIN s : s[i] \in {"connlost", "onConnectFailure"}
  BY DEF Due
<1>2. i # 1
  BY <1>1
<1>3. i - 1 \in DOMAIN Tail(s) /\ Tail(s)[i - 1] = s[i]
  BY <1>1, <1>2
<1> QED
  BY <1>1, <1>3 DEF Due

LEMMA InitStranded == mqtt_new => StrandedInv
BY ThreadFacts DEF mqtt_new, StrandedInv, Wanted, NeverStranded

LEMMA StepWanted == TypeInv /\ Wanted /\ [Next]_vars => Wanted'
<1> SUFFICES ASSUME TypeInv, Wanted, [Next]_vars PROVE Wanted'
  OBVIOUS
<1> USE ThreadFacts DEF TypeInv, TypeOK, Wanted, Goto, flags, backoff, queues, library, host
<1>1. CASE mqtt_start
  BY <1>1 DEF mqtt_start
<1>2. CASE mqtt_stop
  BY <1>2 DEF mqtt_stop
<1>3. CASE StopDisconnect
  BY <1>3 DEF StopDisconnect
<1>4. CASE mqtt_delete
  BY <1>4 DEF mqtt_delete
<1>5. CASE DeleteFree
  BY <1>5 DEF DeleteFree, Elements
<1>6. CASE retry_start_mqtt
  BY <1>6 DEF retry_start_mqtt
<1>7. ASSUME NEW t \in Threads, Starting(t) PROVE Wanted'
  <2> USE ContinuationType DEF Return
  <2>1. CASE CheckRunning(t)
    <3>1. CASE running
      BY <2>1, <3>1 DEF CheckRunning
    <3>2. CASE ~running
      BY <2>1, <3>2 DEF CheckRunning
    <3> QED
      BY <3>1, <3>2
  <2>2. CASE ConnectAccepted(t)
    BY <2>2 DEF ConnectAccepted
  <2>3. CASE ConnectRefused(t)
    BY <2>3 DEF ConnectRefused
  <2>4. CASE SetConnecting(t)
    BY <2>4 DEF SetConnecting
  <2>5. CASE increase_delay_time(t)
    BY <2>5 DEF increase_delay_time
  <2>6. CASE LoadWaitTime(t)
    BY <2>6 DEF LoadWaitTime
  <2>8. CASE StoreWaitTime(t)
    BY <2>8 DEF StoreWaitTime
  <2>7. CASE ArmRetry(t)
    BY <2>7 DEF ArmRetry
  <2> QED
    BY <1>7, <2>1, <2>2, <2>3, <2>4, <2>5, <2>6, <2>7, <2>8 DEF Starting
<1>8. ASSUME NEW t \in Senders, NEW m \in Messages, mqtt_publish_ex(t, m)
      PROVE  Wanted'
  <2>1. CASE connected
    BY <1>8, <2>1 DEF mqtt_publish_ex
  <2>2. CASE ~connected
    BY <1>8, <2>2 DEF mqtt_publish_ex
  <2> QED
    BY <2>1, <2>2
<1>9. ASSUME NEW t \in Senders, Publishing(t) PROVE Wanted'
  <2> USE ContinuationType DEF Return
  <2>1. CASE SendAccepted(t)
    BY <2>1 DEF SendAccepted
  <2>2. CASE SendRefused(t)
    BY <2>2 DEF SendRefused
  <2>3. CASE SendDisconnected(t)
    BY <2>3 DEF SendDisconnected
  <2>4. CASE MarkDisconnected(t)
    BY <2>4 DEF MarkDisconnected
  <2>5. CASE Requeue(t)
    <3>1. CASE running
      BY <2>5, <3>1 DEF Requeue
    <3>2. CASE ~running
      BY <2>5, <3>2 DEF Requeue
    <3> QED
      BY <3>1, <3>2
  <2>6. CASE Restart(t)
    BY <2>6 DEF Restart
  <2> QED
    BY <1>9, <2>1, <2>2, <2>3, <2>4, <2>5, <2>6 DEF Publishing
<1>10. CASE Callback
  <2>1. CASE onConnect
    BY <2>1 DEF onConnect, NextEvent
  <2>2. CASE SkipCallback
    BY <2>2 DEF SkipCallback
  <2>3. CASE DrainLock
    BY <2>3 DEF DrainLock
  <2>4. CASE DrainOne
    BY <2>4 DEF DrainOne
  <2>5. CASE DrainUnlock
    BY <2>5 DEF DrainUnlock
  <2>6. CASE connlost
    BY <2>6 DEF connlost, NextEvent
  <2>7. CASE onConnectFailure
    <3>1. CASE running
      BY <2>7, <3>1 DEF onConnectFailure, NextEvent
    <3>2. CASE ~running
      BY <2>7, <3>2 DEF onConnectFailure, NextEvent
    <3> QED
      BY <3>1, <3>2
  <2>8. CASE ClearConnecting
    BY <2>8 DEF ClearConnecting
  <2>9. CASE onDisconnect
    BY <2>9 DEF onDisconnect, NextEvent
  <2> QED
    BY <1>10, <2>1, <2>2, <2>3, <2>4, <2>5, <2>6, <2>7, <2>8, <2>9 DEF Callback
<1>11. CASE Paho
  <2>1. CASE ConnectSucceeds
    BY <2>1 DEF ConnectSucceeds, Library
  <2>2. CASE ConnectFails
    BY <2>2 DEF ConnectFails, Library
  <2>3. CASE ConnectionDrops
    BY <2>3 DEF ConnectionDrops, Library
  <2>4. CASE Disconnected
    BY <2>4 DEF Disconnected, Library
  <2> QED
    BY <1>11, <2>1, <2>2, <2>3, <2>4 DEF Paho
<1>12. CASE UNCHANGED vars
  BY <1>12 DEF vars
<1> QED
  BY <1>1, <1>2, <1>3, <1>4, <1>5, <1>6, <1>7, <1>8, <1>9, <1>10, <1>11, <1>12 DEF Next

(* A thread that is not under way moves, and the rest stays as it is. *)
LEMMA Bystander ==
    ASSUME RetryUnderWay, NEW t \in Threads, pc[t] \notin Active,
           \A u \in Threads \ {t} : pc'[u] = pc[u],
           timers > 0 => timers' > 0,
           Due(events) => Due(events')
    PROVE  RetryUnderWay'
<1>1. CASE timers > 0
  BY <1>1 DEF RetryUnderWay
<1>2. CASE Due(events)
  BY <1>2 DEF RetryUnderWay, Due
<1>3. ASSUME NEW u \in Threads, pc[u] \in Active PROVE RetryUnderWay'
  <2>1. pc'[u] \in Active
    BY <1>3
  <2> QED
    BY <2>1 DEF RetryUnderWay, Active
<1> QED
  BY <1>1, <1>2, <1>3 DEF RetryUnderWay

(* A thread that is under way after a step keeps a retry under way. *)
LEMMA Actor ==
    ASSUME NEW t \in Threads, pc'[t] \in Active
    PROVE  RetryUnderWay'
BY DEF RetryUnderWay, Active

(* A step leaves a wanted client without a connection with a retry under   *)
(* way: either the thread that steps was not the one under way, or it still*)
(* is, or it has just armed the retry.                                     *)
LEMMA StepStranded == TypeInv /\ StrandedInv /\ [Next]_vars => NeverStranded'
<1> SUFFICES ASSUME TypeInv, StrandedInv, [Next]_vars,
                    wanted', client' \in {"down", "closing"}
             PROVE  RetryUnderWay'
  BY StepWanted DEF NeverStranded, StrandedInv, Wanted
<1> USE ThreadFacts
<1>1. CASE UNCHANGED vars
  <2>1. RetryUnderWay
    BY <1>1 DEF vars, library, host, StrandedInv, NeverStranded
  <2> QED
    BY <1>1, <2>1 DEF vars, library, RetryUnderWay, Due
<1>2. CASE mqtt_start
  BY <1>2, Actor DEF mqtt_start, Goto, TypeInv, TypeOK, Active
<1>3. CASE mqtt_stop \/ StopDisconnect \/ mqtt_delete \/ DeleteFree
  <2>1. ~wanted'
    BY <1>3 DEF mqtt_stop, StopDisconnect, mqtt_delete, DeleteFree, host,
                StrandedInv, Wanted
  <2> QED
    BY <2>1
<1>4. CASE retry_start_mqtt
  BY <1>4, Actor DEF retry_start_mqtt, Goto, TypeInv, TypeOK, Active
<1>5. ASSUME NEW t \in Threads, Starting(t) PROVE RetryUnderWay'
  <2>1. CASE CheckRunning(t)
    <3>1. running
      BY <2>1 DEF CheckRunning, host, StrandedInv, Wanted
    <3> QED
      BY <2>1, <3>1, Actor DEF CheckRunning, Goto, TypeInv, TypeOK, Active
  <2>2. CASE ConnectAccepted(t)
    <3>1. client' \notin {"down", "closing"}
      BY <2>2 DEF ConnectAccepted
    <3> QED
      BY <3>1
  <2>3. CASE ConnectRefused(t)
    BY <2>3, Actor DEF ConnectRefused, Goto, TypeInv, TypeOK, Active
  <2>4. CASE SetConnecting(t)
    <3>1. RetryUnderWay
      BY <2>4 DEF SetConnecting, library, host, StrandedInv, NeverStranded
    <3> QED
      BY <2>4, <3>1, Bystander
      DEF SetConnecting, Return, Goto, TypeInv, TypeOK, Active, library, Due
  <2>5. CASE increase_delay_time(t)
    BY <2>5, Actor DEF increase_delay_time, Goto, TypeInv, TypeOK, Active
  <2>6. CASE LoadWaitTime(t)
    BY <2>6, Actor DEF LoadWaitTime, Goto, TypeInv, TypeOK, Active
  <2>8. CASE StoreWaitTime(t)
    BY <2>8, Actor DEF StoreWaitTime, Goto, TypeInv, TypeOK, Active
  <2>7. CASE ArmRetry(t)
    <3>1. pc["timer"] # "joined"
      BY <2>7 DEF ArmRetry, host, StrandedInv, Wanted
    <3>2. timers' > 0
      BY <2>7, <3>1 DEF ArmRetry, TypeInv, TypeOK
    <3> QED
      BY <3>2 DEF RetryUnderWay
  <2> QED
    BY <1>5, <2>1, <2>2, <2>3, <2>4, <2>5, <2>6, <2>7, <2>8 DEF Starting
<1>6. ASSUME NEW t \in Senders, NEW m \in Messages, mqtt_publish_ex(t, m)
      PROVE  RetryUnderWay'
  <2>1. RetryUnderWay
    BY <1>6 DEF mqtt_publish_ex, library, host, StrandedInv, NeverStranded
  <2>2. pc[t] \in {"idle", "callback"} /\ timers' = timers /\ events' = events
    BY <1>6 DEF mqtt_publish_ex, library
  <2>3. \A u \in Threads \ {t} : pc'[u] = pc[u]
    BY <1>6 DEF mqtt_publish_ex, Goto, TypeInv, TypeOK
  <2> QED
    BY <2>1, <2>2, <2>3, Bystander DEF Active, Due
<1>7. ASSUME NEW t \in Senders, Publishing(t) PROVE RetryUnderWay'
  <2>1. CASE Restart(t)
    BY <2>1, Actor DEF Restart, Goto, TypeInv, TypeOK, Active
  <2>2. CASE SendAccepted(t) \/ SendRefused(t) \/ SendDisconnected(t)
               \/ MarkDisconnected(t) \/ Requeue(t)
    <3>1. wanted' = wanted /\ client' = client /\ timers' = timers /\ events' = events
      BY <2>2 DEF SendAccepted, SendRefused, SendDisconnected,
                  MarkDisconnected, Requeue, library, host
    <3>2. pc[t] \in {"send", "mark", "requeue"}
      BY <2>2 DEF SendAccepted, SendRefused, SendDisconnected,
                  MarkDisconnected, Requeue
    <3>3. \A u \in Threads \ {t} : pc'[u] = pc[u]
      BY <2>2 DEF SendAccepted, SendRefused, SendDisconnected,
                  MarkDisconnected, Requeue, Return, Goto, TypeInv, TypeOK
    <3>4. RetryUnderWay
      BY <3>1 DEF StrandedInv, NeverStranded
    <3> QED
      BY <3>1, <3>2, <3>3, <3>4, Bystander DEF Active, Due
  <2> QED
    BY <1>7, <2>1, <2>2 DEF Publishing
<1>8. CASE Callback
  <2>1. CASE connlost
    BY <2>1, Actor DEF connlost, Goto, TypeInv, TypeOK, Active
  <2>2. CASE onConnectFailure
    <3>1. running
      BY <2>2 DEF onConnectFailure, host, StrandedInv, Wanted
    <3> QED
      BY <2>2, <3>1, Actor DEF onConnectFailure, Goto, TypeInv, TypeOK, Active
  <2>3. CASE onConnect \/ onDisconnect
    <3>1. wanted' = wanted /\ client' = client /\ timers' = timers
      BY <2>3 DEF onConnect, onDisconnect, host
    <3>2. RetryUnderWay
      BY <3>1 DEF StrandedInv, NeverStranded
    <3>3. /\ events # <<>> /\ events' = Tail(events)
          /\ Head(events) \in {"onConnect", "onDisconnect"}
          /\ pc["cb"] = "idle"
      BY <2>3 DEF onConnect, onDisconnect, NextEvent
    <3>4. \A u \in Threads \ {"cb"} : pc'[u] = pc[u]
      BY <2>3 DEF onConnect, onDisconnect, Goto, TypeInv, TypeOK
    <3>5. Due(events) => Due(events')
      BY <3>3, DueTail DEF TypeInv, TypeOK
    <3> QED
      BY <3>1, <3>2, <3>3, <3>4, <3>5, Bystander DEF Active
  <2>4. CASE SkipCallback \/ DrainLock \/ DrainOne \/ DrainUnlock \/ ClearConnecting
    <3>1. wanted' = wanted /\ client' = client /\ timers' = timers /\ events' = events
      BY <2>4 DEF SkipCallback, DrainLock, DrainOne, DrainUnlock,
                  ClearConnecting, library, host
    <3>2. pc["cb"] \in {"callback", "lock", "drain", "settle"}
      BY <2>4 DEF SkipCallback, DrainLock, DrainOne, DrainUnlock, ClearConnecting
    <3>3. \A u \in Threads \ {"cb"} : pc'[u] = pc[u]
      BY <2>4 DEF SkipCallback, DrainLock, DrainOne, DrainUnlock,
                  ClearConnecting, Goto, TypeInv, TypeOK
    <3>4. RetryUnderWay
      BY <3>1 DEF StrandedInv, NeverStranded
    <3> QED
      BY <3>1, <3>2, <3>3, <3>4, Bystander DEF Active, Due
  <2> QED
    BY <1>8, <2>1, <2>2, <2>3, <2>4 DEF Callback
<1>9. CASE Paho
  <2>1. PICK e \in Callbacks : events' = Append(events, e)
    BY <1>9 DEF Paho, ConnectSucceeds, ConnectFails, ConnectionDrops,
                Disconnected, Library, Callbacks
  <2>2. wanted' = wanted /\ timers' = timers /\ pc' = pc
    BY <1>9 DEF Paho, ConnectSucceeds, ConnectFails, ConnectionDrops,
                Disconnected, Library, host
  <2>3. CASE client = "closing"
    <3>1. RetryUnderWay
      BY <2>2, <2>3 DEF StrandedInv, NeverStranded
    <3>2. Due(events) => Due(events')
      BY <2>1, DueAppend DEF TypeInv, TypeOK
    <3> QED
      BY <2>2, <3>1, <3>2 DEF RetryUnderWay, Due
  <2>4. CASE client # "closing"
    <3>1. PICK f \in {"onConnectFailure", "connlost"} : events' = Append(events, f)
      BY <1>9, <2>4 DEF Paho, ConnectSucceeds, ConnectFails, ConnectionDrops,
                        Disconnected, Library
    <3>2. f \in Callbacks /\ events \in Seq(Callbacks)
      BY DEF Callbacks, TypeInv, TypeOK
    <3>3. Due(Append(events, f))
      BY <3>2, DueAppend
    <3> QED
      BY <3>1, <3>3 DEF RetryUnderWay, Due
  <2> QED
    BY <2>3, <2>4
<1> QED
  BY <1>1, <1>2, <1>3, <1>4, <1>5, <1>6, <1>7, <1>8, <1>9 DEF Next

(* While the host wants the connection, a client without one always has a  *)
(* retry under way, for any number of publishing threads, messages and     *)
(* starts: the concurrency of connlost, onConnectFailure, retry_start_mqtt,*)
(* mqtt_start and the restart inside mqtt_publish_ex loses no retry.       *)
THEOREM ClientNeverStranded == Spec => []NeverStranded
<1>1. Spec => [](TypeInv /\ StrandedInv)
  <2>1. mqtt_new => TypeInv /\ StrandedInv
    BY InitType, InitStranded
  <2>2. TypeInv /\ StrandedInv /\ [Next]_vars => (TypeInv /\ StrandedInv)'
    BY StepType, StepWanted, StepStranded DEF StrandedInv
  <2> QED
    BY <2>1, <2>2, PTL DEF Spec
<1> QED
  BY <1>1, PTL DEF StrandedInv

-----------------------------------------------------------------------------
(* DelayInTable is not inductive alone: until two threads overlap, one at   *)
(* most is in the increment, and what it has compared or read is below the  *)
(* end of the table.                                                        *)
Alone ==
    ~overlapped =>
        /\ waitTime <= LastWait
        /\ \A t, u \in Threads :
              pc[t] \in Incrementing /\ pc[u] \in Incrementing => t = u
        /\ \A t \in Threads : /\ pc[t] = "bump" => waitTime < LastWait
                              /\ pc[t] = "store" => loaded[t] < LastWait

(* Only increase_delay_time takes a thread into the increment, and only     *)
(* onConnect, with 0, and a thread in the increment set the index.          *)
LEMMA BackoffCases ==
    ASSUME TypeInv, [Next]_vars
    PROVE  \/ /\ waitTime' \in {0, waitTime}
              /\ UNCHANGED <<loaded, overlapped>>
              /\ \A t \in Threads : pc'[t] \in Incrementing => pc'[t] = pc[t]
           \/ \E t \in Threads : \/ increase_delay_time(t)
                                 \/ LoadWaitTime(t) \/ StoreWaitTime(t)
<1> DEFINE Still == /\ waitTime' \in {0, waitTime}
                    /\ UNCHANGED <<loaded, overlapped>>
                    /\ \A t \in Threads : pc'[t] \in Incrementing => pc'[t] = pc[t]
<1> USE ThreadFacts
      DEF TypeInv, TypeOK, Incrementing, Goto, flags, backoff, queues, library,
          host
<1>1. CASE UNCHANGED vars
  BY <1>1 DEF vars
<1>2. CASE mqtt_start \/ mqtt_stop \/ StopDisconnect \/ mqtt_delete
             \/ DeleteFree \/ retry_start_mqtt
  BY <1>2 DEF mqtt_start, mqtt_stop, StopDisconnect, mqtt_delete, DeleteFree,
              retry_start_mqtt
<1>3. ASSUME NEW t \in Threads,
             CheckRunning(t) \/ ConnectAccepted(t) \/ ConnectRefused(t)
               \/ SetConnecting(t) \/ ArmRetry(t)
      PROVE  Still
  BY <1>3, ContinuationType
  DEF CheckRunning, ConnectAccepted, ConnectRefused, SetConnecting, ArmRetry,
      Return
<1>4. ASSUME NEW t \in Senders, NEW m \in Messages, mqtt_publish_ex(t, m)
      PROVE  Still
  BY <1>4 DEF mqtt_publish_ex
<1>5. ASSUME NEW t \in Senders, Publishing(t)
      PROVE  Still
  BY <1>5, ContinuationType
  DEF Publishing, SendAccepted, SendRefused, SendDisconnected,
      MarkDisconnected, Requeue, Restart, Return
<1>6. CASE Callback
  BY <1>6
  DEF Callback, onConnect, SkipCallback, DrainLock, DrainOne, DrainUnlock,
      connlost, onConnectFailure, ClearConnecting, onDisconnect
<1>7. CASE Paho
  BY <1>7 DEF Paho, ConnectSucceeds, ConnectFails, ConnectionDrops,
              Disconnected, Library
<1> QED
  BY <1>1, <1>2, <1>3, <1>4, <1>5, <1>6, <1>7 DEF Next, Starting

LEMMA StepAlone == TypeInv /\ Alone /\ [Next]_vars => Alone'
<1> SUFFICES ASSUME TypeInv, Alone, [Next]_vars, ~overlapped' PROVE Alone'
  BY DEF Alone
<1>1. /\ waitTime \in 0..LastWait + 1 /\ LastWait \in Nat
      /\ loaded \in [Threads -> 0..LastWait + 1]
      /\ pc \in [Threads -> Locations]
  BY ClientAssumption DEF TypeInv, TypeOK
<1>2. CASE /\ waitTime' \in {0, waitTime}
           /\ UNCHANGED <<loaded, overlapped>>
           /\ \A t \in Threads : pc'[t] \in Incrementing => pc'[t] = pc[t]
  BY <1>1, <1>2 DEF Alone, Incrementing
<1>3. ASSUME NEW t \in Threads, increase_delay_time(t) PROVE Alone'
  <2>1. CASE waitTime < LastWait
    <3>1. /\ pc' = [pc EXCEPT ![t] = "bump"] /\ UNCHANGED <<waitTime, loaded>>
          /\ overlapped' = (overlapped \/ Overlaps(t))
      BY <1>3, <2>1 DEF increase_delay_time, Goto
    <3>2. ~overlapped /\ \A u \in Threads \ {t} : pc[u] \notin Incrementing
      BY <3>1 DEF Overlaps
    <3> QED
      BY <1>1, <2>1, <3>1, <3>2 DEF Alone, Incrementing
  <2>2. CASE ~(waitTime < LastWait)
    <3>1. /\ pc' = [pc EXCEPT ![t] = "arm"]
          /\ UNCHANGED <<waitTime, loaded, overlapped>>
      BY <1>3, <2>2 DEF increase_delay_time, Goto
    <3> QED
      BY <1>1, <3>1 DEF Alone, Incrementing
  <2> QED
    BY <2>1, <2>2
<1>4. ASSUME NEW t \in Threads, LoadWaitTime(t) PROVE Alone'
  BY <1>1, <1>4 DEF LoadWaitTime, Goto, Alone, Incrementing
<1>5. ASSUME NEW t \in Threads, StoreWaitTime(t) PROVE Alone'
  <2>1. /\ pc[t] = "store" /\ pc' = [pc EXCEPT ![t] = "arm"]
        /\ overlapped' = overlapped /\ loaded' = [loaded EXCEPT ![t] = 0]
        /\ waitTime' = IF loaded[t] > LastWait THEN loaded[t]
                       ELSE loaded[t] + 1
    BY <1>5 DEF StoreWaitTime, Goto
  <2>2. loaded[t] < LastWait /\ loaded[t] \in Nat
    BY <1>1, <2>1 DEF Alone
  <2>3. \A u \in Threads : pc'[u] \notin Incrementing
    BY <1>1, <2>1 DEF Alone, Incrementing
  <2> QED
    BY <1>1, <2>1, <2>2, <2>3 DEF Alone, Incrementing
<1> QED
  BY <1>2, <1>3, <1>4, <1>5, BackoffCases

(* Unless two threads were in the increment at once, the index of the table *)
(* of delays stays inside the table: for any number of publishers and any   *)
(* length of the table.                                                     *)
THEOREM DelayStaysInTable == Spec => []DelayInTable
<1>1. mqtt_new => Alone
  BY ClientAssumption DEF mqtt_new, Alone, Incrementing
<1>2. TypeInv /\ Alone => DelayInTable
  BY ClientAssumption DEF Alone, DelayInTable, TypeInv, TypeOK
<1>3. Spec => [](TypeInv /\ Alone)
  BY <1>1, InitType, StepType, StepAlone, PTL DEF Spec
<1> QED
  BY <1>2, <1>3, PTL

-----------------------------------------------------------------------------
(* The client implements Outbox.  That a message is in one place only needs *)
(* to know that a thread holds a message only while it is publishing it.    *)
InCall == {"send", "mark", "requeue"}

Held == {hand[t] : t \in Senders} \ {None}

Holding == \A t \in Senders : hand[t] # None => pc[t] \in InCall

LEMMA ElementsAppend ==
    ASSUME NEW S, NEW s \in Seq(S), NEW x \in S
    PROVE  Elements(Append(s, x)) = Elements(s) \cup {x}
<1>1. /\ DOMAIN Append(s, x) = DOMAIN s \cup {Len(s) + 1}
      /\ Append(s, x)[Len(s) + 1] = x
      /\ \A i \in DOMAIN s : Append(s, x)[i] = s[i]
  OBVIOUS
<1> QED
  BY <1>1 DEF Elements

LEMMA DistinctAppend ==
    ASSUME NEW S, NEW s \in Seq(S), NEW x \in S, Distinct(s), x \notin Elements(s)
    PROVE  Distinct(Append(s, x))
<1>1. /\ DOMAIN Append(s, x) = DOMAIN s \cup {Len(s) + 1}
      /\ Append(s, x)[Len(s) + 1] = x
      /\ \A i \in DOMAIN s : Append(s, x)[i] = s[i]
  OBVIOUS
<1> QED
  BY <1>1 DEF Distinct, Elements

LEMMA ElementsTail ==
    ASSUME NEW S, NEW s \in Seq(S), s # <<>>, Distinct(s)
    PROVE  /\ Distinct(Tail(s))
           /\ Elements(Tail(s)) = Elements(s) \ {Head(s)}
           /\ Head(s) \in Elements(s)
<1>1. /\ \A i \in DOMAIN Tail(s) : i + 1 \in DOMAIN s /\ Tail(s)[i] = s[i + 1]
      /\ \A i \in DOMAIN s : i # 1 => i - 1 \in DOMAIN Tail(s) /\ Tail(s)[i - 1] = s[i]
      /\ 1 \in DOMAIN s /\ Head(s) = s[1]
      /\ DOMAIN Tail(s) \subseteq Nat /\ DOMAIN s \subseteq Nat \ {0}
      /\ 0 \notin DOMAIN Tail(s)
  OBVIOUS
<1>2. Distinct(Tail(s))
  <2> SUFFICES ASSUME NEW i \in DOMAIN Tail(s), NEW j \in DOMAIN Tail(s),
                      Tail(s)[i] = Tail(s)[j]
               PROVE  i = j
    BY DEF Distinct
  <2>1. i + 1 = j + 1
    BY <1>1 DEF Distinct
  <2> QED
    BY <1>1, <2>1
<1>3. ASSUME NEW x \in Elements(Tail(s)) PROVE x \in Elements(s) \ {Head(s)}
  <2>1. PICK i \in DOMAIN Tail(s) : x = Tail(s)[i]
    BY <1>3 DEF Elements
  <2>2. i + 1 \in DOMAIN s /\ x = s[i + 1] /\ i + 1 # 1
    BY <1>1, <2>1
  <2> QED
    BY <1>1, <2>2 DEF Distinct, Elements
<1>4. ASSUME NEW x \in Elements(s) \ {Head(s)} PROVE x \in Elements(Tail(s))
  <2>1. PICK i \in DOMAIN s : x = s[i]
    BY <1>4 DEF Elements
  <2>2. i # 1
    BY <1>1, <1>4, <2>1
  <2> QED
    BY <1>1, <2>1, <2>2 DEF Elements
<1> QED
  BY <1>1, <1>2, <1>3, <1>4 DEF Elements

LEMMA ElementsEmpty == Elements(<<>>) = {} /\ Distinct(<<>>)
  BY DEF Elements, Distinct

(* The steps that move a message, and what the others leave alone. *)
LEMMA MessageCases ==
    ASSUME TypeInv, [Next]_vars
    PROVE  \/ UNCHANGED queues
           \/ DeleteFree
           \/ DrainOne
           \/ \E t \in Senders, m \in Messages : mqtt_publish_ex(t, m)
           \/ \E t \in Senders : SendAccepted(t) \/ SendRefused(t) \/ Requeue(t)
<1>1. CASE UNCHANGED vars
  BY <1>1 DEF vars
<1>2. CASE mqtt_start \/ mqtt_stop \/ StopDisconnect \/ mqtt_delete
             \/ retry_start_mqtt
  BY <1>2 DEF mqtt_start, mqtt_stop, StopDisconnect, mqtt_delete,
              retry_start_mqtt
<1>3. ASSUME NEW t \in Threads, Starting(t) PROVE UNCHANGED queues
  BY <1>3 DEF Starting, CheckRunning, ConnectAccepted, ConnectRefused,
              SetConnecting, increase_delay_time, LoadWaitTime, StoreWaitTime,
              ArmRetry
<1>4. ASSUME NEW t \in Senders,
             SendDisconnected(t) \/ MarkDisconnected(t) \/ Restart(t)
      PROVE  UNCHANGED queues
  BY <1>4 DEF SendDisconnected, MarkDisconnected, Restart
<1>5. CASE Callback
  BY <1>5
  DEF Callback, onConnect, SkipCallback, DrainLock, DrainUnlock, connlost,
      onConnectFailure, ClearConnecting, onDisconnect
<1>6. CASE Paho
  BY <1>6 DEF Paho, ConnectSucceeds, ConnectFails, ConnectionDrops,
              Disconnected, Library
<1> QED
  BY <1>1, <1>2, <1>3, <1>4, <1>5, <1>6 DEF Next, Publishing

(* A thread that is publishing goes on publishing, or is rid of its message. *)
LEMMA StepHolding == TypeInv /\ Holding /\ [Next]_vars => Holding'
<1> SUFFICES ASSUME TypeInv, Holding, [Next]_vars, NEW t \in Senders,
                    hand'[t] # None
             PROVE  pc'[t] \in InCall
  BY DEF Holding
<1> USE ThreadFacts
      DEF Holding, InCall, TypeInv, TypeOK, Goto, flags, backoff, queues,
          library, host
<1>1. CASE UNCHANGED vars
  BY <1>1 DEF vars
<1>2. CASE mqtt_start \/ mqtt_stop \/ StopDisconnect \/ mqtt_delete
             \/ DeleteFree \/ retry_start_mqtt
  BY <1>2 DEF mqtt_start, mqtt_stop, StopDisconnect, mqtt_delete, DeleteFree,
              retry_start_mqtt
<1>3. ASSUME NEW u \in Threads, Starting(u) PROVE pc'[t] \in InCall
  <2>1. pc[u] \in {"check", "connect", "flag", "delay", "bump", "store", "arm"}
    BY <1>3
    DEF Starting, CheckRunning, ConnectAccepted, ConnectRefused, SetConnecting,
        increase_delay_time, LoadWaitTime, StoreWaitTime, ArmRetry
  <2>2. hand' = hand /\ \A v \in Threads \ {u} : pc'[v] = pc[v]
    BY <1>3
    DEF Starting, CheckRunning, ConnectAccepted, ConnectRefused, SetConnecting,
        increase_delay_time, LoadWaitTime, StoreWaitTime, ArmRetry, Return
  <2> QED
    BY <2>1, <2>2
<1>4. ASSUME NEW u \in Senders, NEW m \in Messages, mqtt_publish_ex(u, m)
      PROVE  pc'[t] \in InCall
  BY <1>4 DEF mqtt_publish_ex
<1>5. ASSUME NEW u \in Senders, Publishing(u)
      PROVE  pc'[t] \in InCall
  <2>1. \A v \in Threads \ {u} : pc'[v] = pc[v]
    BY <1>5
    DEF Publishing, SendAccepted, SendRefused, SendDisconnected,
        MarkDisconnected, Requeue, Restart, Return
  <2>2. hand' = hand \/ hand' = [hand EXCEPT ![u] = None]
    BY <1>5
    DEF Publishing, SendAccepted, SendRefused, SendDisconnected,
        MarkDisconnected, Requeue, Restart
  <2>3. u # t => pc'[t] \in InCall
    BY <2>1, <2>2
  <2>4. ASSUME u = t PROVE pc'[t] \in InCall
    <3>1. hand' = hand
      BY <2>2, <2>4
    <3>2. SendDisconnected(t) \/ MarkDisconnected(t) \/ Restart(t)
      BY <1>5, <2>4
      DEF Publishing, SendAccepted, SendRefused, Requeue
    <3> QED
      BY <3>1, <3>2 DEF SendDisconnected, MarkDisconnected, Restart
  <2> QED
    BY <2>3, <2>4
<1>6. CASE Callback
  BY <1>6
  DEF Callback, onConnect, SkipCallback, DrainLock, DrainOne, DrainUnlock,
      connlost, onConnectFailure, ClearConnecting, onDisconnect, NextEvent
<1>7. CASE Paho
  BY <1>7 DEF Paho, ConnectSucceeds, ConnectFails, ConnectionDrops,
              Disconnected, Library
<1> QED
  BY <1>1, <1>2, <1>3, <1>4, <1>5, <1>6, <1>7 DEF Next

OneInv == TypeInv /\ Holding /\ OneCopy

(* What a step that takes the message out of a thread's hands leaves there.  *)
LEMMA HandEmptied ==
    ASSUME TypeInv, OneCopy, NEW t \in Senders, hand[t] \in Messages,
           hand' = [hand EXCEPT ![t] = None]
    PROVE  /\ Held' = Held \ {hand[t]} /\ hand[t] \in Held
           /\ \A u \in Senders : hand'[u] = IF u = t THEN None ELSE hand[u]
           /\ \A u \in Senders : hand'[u] # hand[t]
           /\ \A u, v \in Senders : hand'[u] = hand'[v] /\ hand'[u] # None => u = v
<1>1. \A u \in Senders : hand'[u] = IF u = t THEN None ELSE hand[u]
  BY DEF TypeInv, TypeOK
<1>2. hand[t] # None
  BY ClientAssumption
<1>3. \A u \in Senders : hand[u] = hand[t] => u = t
  BY <1>2 DEF OneCopy
<1> QED
  BY <1>1, <1>2, <1>3 DEF Held, OneCopy

LEMMA StepOneCopy == OneInv /\ [Next]_vars => OneCopy'
<1> SUFFICES ASSUME OneInv, [Next]_vars PROVE OneCopy'
  OBVIOUS
<1>0. /\ TypeInv /\ Holding /\ OneCopy
      /\ pendingMessages \in Seq(Messages) /\ sent \in Seq(Messages)
      /\ hand \in [Senders -> Messages \cup {None}]
      /\ None \notin Messages
  BY ClientAssumption DEF OneInv, TypeInv, TypeOK
<1>1. CASE UNCHANGED queues
  BY <1>0, <1>1 DEF OneCopy, queues
<1>2. CASE DeleteFree
  <2>1. /\ pendingMessages' = <<>> /\ sent' = sent /\ hand' = hand
        /\ gone' = gone \cup Elements(pendingMessages)
    BY <1>2 DEF DeleteFree
  <2> QED
    BY <1>0, <2>1, ElementsEmpty DEF OneCopy
<1>3. CASE DrainOne
  <2>1. /\ pendingMessages # <<>> /\ pendingMessages' = Tail(pendingMessages)
        /\ hand' = hand
        /\ \/ sent' = Append(sent, Head(pendingMessages)) /\ gone' = gone
           \/ gone' = gone \cup {Head(pendingMessages)} /\ sent' = sent
    BY <1>3 DEF DrainOne, queues
  <2>2. /\ Distinct(Tail(pendingMessages))
        /\ Elements(Tail(pendingMessages))
             = Elements(pendingMessages) \ {Head(pendingMessages)}
        /\ Head(pendingMessages) \in Elements(pendingMessages)
        /\ Head(pendingMessages) \in Messages
    BY <1>0, <2>1, ElementsTail, PopType DEF OneCopy
  <2>3. Head(pendingMessages) \notin Elements(sent)
    BY <1>0, <2>2 DEF OneCopy
  <2>4. /\ Distinct(Append(sent, Head(pendingMessages)))
        /\ Elements(Append(sent, Head(pendingMessages)))
             = Elements(sent) \cup {Head(pendingMessages)}
    BY <1>0, <2>2, <2>3, ElementsAppend, DistinctAppend DEF OneCopy
  <2>5. CASE sent' = Append(sent, Head(pendingMessages)) /\ gone' = gone
    BY <1>0, <2>1, <2>2, <2>4, <2>5 DEF OneCopy
  <2>6. CASE gone' = gone \cup {Head(pendingMessages)} /\ sent' = sent
    BY <1>0, <2>1, <2>2, <2>3, <2>6 DEF OneCopy
  <2> QED
    BY <2>1, <2>5, <2>6
<1>4. ASSUME NEW t \in Senders, NEW m \in Messages, mqtt_publish_ex(t, m)
      PROVE  OneCopy'
  <2>1. /\ m \notin Elements(pendingMessages) \cup Elements(sent) \cup gone
        /\ \A u \in Senders : hand[u] # m
        /\ sent' = sent /\ gone' = gone
    BY <1>4 DEF mqtt_publish_ex, Issued
  <2>2. CASE connected
    <3>1. hand' = [hand EXCEPT ![t] = m] /\ pendingMessages' = pendingMessages
      BY <1>4, <2>2 DEF mqtt_publish_ex
    <3>2. \A u \in Senders : hand'[u] = IF u = t THEN m ELSE hand[u]
      BY <1>0, <3>1
    <3> QED
      BY <1>0, <2>1, <3>1, <3>2 DEF OneCopy
  <2>3. CASE ~connected
    <3>1. hand' = hand /\ pendingMessages' = Append(pendingMessages, m)
      BY <1>4, <2>3 DEF mqtt_publish_ex
    <3>2. /\ Distinct(pendingMessages')
          /\ Elements(pendingMessages') = Elements(pendingMessages) \cup {m}
      BY <1>0, <2>1, <3>1, ElementsAppend, DistinctAppend DEF OneCopy
    <3> QED
      BY <1>0, <2>1, <3>1, <3>2 DEF OneCopy
  <2> QED
    BY <2>2, <2>3
<1>5. ASSUME NEW t \in Senders, SendAccepted(t) \/ SendRefused(t) \/ Requeue(t)
      PROVE  OneCopy'
  <2>1. hand[t] \in Messages /\ hand' = [hand EXCEPT ![t] = None]
    BY <1>0, <1>5 DEF SendAccepted, SendRefused, Requeue, TypeInv, HoldsMessage
  <2>2. hand[t] \notin Elements(pendingMessages) \cup Elements(sent) \cup gone
    BY <1>0 DEF OneCopy
  <2>3. /\ \A u \in Senders : hand'[u] = IF u = t THEN None ELSE hand[u]
        /\ \A u \in Senders : hand'[u] # hand[t]
        /\ \A u, v \in Senders : hand'[u] = hand'[v] /\ hand'[u] # None => u = v
    BY <1>0, <2>1, HandEmptied
  <2>4. /\ Elements(pendingMessages) \subseteq Messages
        /\ Elements(sent) \subseteq Messages /\ gone \subseteq Messages
    BY <1>0 DEF Elements, TypeInv, TypeOK
  <2>5. \A u \in Senders :
           hand'[u] \notin Elements(pendingMessages) \cup Elements(sent) \cup gone
    BY <1>0, <2>3, <2>4 DEF OneCopy
  <2>6. CASE sent' = Append(sent, hand[t]) /\ UNCHANGED <<pendingMessages, gone>>
    <3>1. /\ Distinct(sent')
          /\ Elements(sent') = Elements(sent) \cup {hand[t]}
      BY <1>0, <2>1, <2>2, <2>6, ElementsAppend, DistinctAppend DEF OneCopy
    <3> QED
      BY <1>0, <2>2, <2>3, <2>5, <2>6, <3>1 DEF OneCopy
  <2>7. CASE pendingMessages' = Append(pendingMessages, hand[t])
               /\ UNCHANGED <<sent, gone>>
    <3>1. /\ Distinct(pendingMessages')
          /\ Elements(pendingMessages') = Elements(pendingMessages) \cup {hand[t]}
      BY <1>0, <2>1, <2>2, <2>7, ElementsAppend, DistinctAppend DEF OneCopy
    <3> QED
      BY <1>0, <2>2, <2>3, <2>5, <2>7, <3>1 DEF OneCopy
  <2>8. CASE gone' = gone \cup {hand[t]} /\ UNCHANGED <<sent, pendingMessages>>
    BY <1>0, <2>2, <2>3, <2>5, <2>8 DEF OneCopy
  <2> QED
    BY <1>5, <2>6, <2>7, <2>8 DEF SendAccepted, SendRefused, Requeue
<1> QED
  BY <1>0, <1>1, <1>2, <1>3, <1>4, <1>5, MessageCases

LEMMA InitOne == mqtt_new => OneInv
<1> SUFFICES ASSUME mqtt_new PROVE OneInv
  OBVIOUS
<1>1. Holding
  BY DEF mqtt_new, Holding
<1>2. OneCopy
  BY ElementsEmpty DEF mqtt_new, OneCopy
<1> QED
  BY <1>1, <1>2, InitType DEF OneInv

LEMMA OneInvariant == Spec => []OneInv
<1>1. OneInv /\ [Next]_vars => OneInv'
  BY StepType, StepHolding, StepOneCopy DEF OneInv
<1> QED
  BY <1>1, InitOne, PTL DEF Spec

(* However the publishing threads, the reconnecting callback and the        *)
(* deletion interleave, a published message is in one place and there once. *)
THEOREM OneCopyOfEach == Spec => []OneCopy
<1>1. OneInv => OneCopy
  BY DEF OneInv
<1> QED
  BY <1>1, OneInvariant, PTL

(* The steps of the client are steps of the outbox.                         *)
LEMMA PublishOffers ==
    ASSUME OneInv, NEW t \in Senders, NEW m \in Messages, mqtt_publish_ex(t, m)
    PROVE  Box!Offer(m) \/ Box!OfferToLine(m)
<1>1. /\ hand \in [Senders -> Messages \cup {None}] /\ m # None
      /\ \A u \in Senders : hand[u] # m
      /\ m \notin Elements(pendingMessages) \cup Elements(sent) \cup gone
      /\ UNCHANGED <<sent, gone>>
  BY ClientAssumption
  DEF mqtt_publish_ex, Issued, OneInv, TypeInv, TypeOK
<1>2. m \notin Held \cup Box!Elements(pendingMessages) \cup Box!Elements(sent) \cup gone
  BY <1>1 DEF Held, Elements, Box!Elements
<1>3. CASE connected
  <2>1. hand' = [hand EXCEPT ![t] = m] /\ pendingMessages' = pendingMessages
    BY <1>3 DEF mqtt_publish_ex
  <2>2. hand[t] = None
    <3>1. pc[t] \in {"idle", "callback"}
      BY DEF mqtt_publish_ex
    <3> QED
      BY <3>1 DEF OneInv, Holding, InCall
  <2>3. Held' = Held \cup {m}
    <3>1. \A u \in Senders : hand'[u] = IF u = t THEN m ELSE hand[u]
      BY <1>1, <2>1
    <3> QED
      BY <1>1, <2>2, <3>1 DEF Held
  <2> QED
    BY <1>1, <1>2, <2>1, <2>3 DEF Box!Offer, Held
<1>4. CASE ~connected
  <2>1. hand' = hand /\ pendingMessages' = Append(pendingMessages, m)
    BY <1>4 DEF mqtt_publish_ex
  <2> QED
    BY <1>1, <1>2, <2>1 DEF Box!OfferToLine, Held
<1> QED
  BY <1>3, <1>4

LEMMA SendingServes ==
    ASSUME OneInv, NEW t \in Senders,
           SendAccepted(t) \/ SendRefused(t) \/ Requeue(t)
    PROVE  \E m \in Messages : Box!Deliver(m) \/ Box!Defer(m) \/ Box!GiveUp(m)
<1>1. hand[t] \in Messages /\ hand' = [hand EXCEPT ![t] = None]
  BY DEF SendAccepted, SendRefused, Requeue, OneInv, TypeInv, HoldsMessage
<1>2. Held' = Held \ {hand[t]} /\ hand[t] \in Held
  BY <1>1, HandEmptied DEF OneInv
<1>3. \/ sent' = Append(sent, hand[t]) /\ UNCHANGED <<pendingMessages, gone>>
      \/ /\ pendingMessages' = Append(pendingMessages, hand[t])
         /\ UNCHANGED <<sent, gone>>
      \/ gone' = gone \cup {hand[t]} /\ UNCHANGED <<sent, pendingMessages>>
  BY DEF SendAccepted, SendRefused, Requeue
<1> QED
  BY <1>1, <1>2, <1>3 DEF Box!Deliver, Box!Defer, Box!GiveUp, Held

LEMMA StepOutbox ==
    ASSUME OneInv, [Next]_vars
    PROVE  [Box!OutboxNext]_(Box!outboxVars)
<1>1. CASE UNCHANGED queues
  BY <1>1 DEF Box!outboxVars, queues
<1>2. CASE DeleteFree
  <2>1. Box!Discard
    BY <1>2 DEF DeleteFree, Box!Discard, Box!Elements, Elements
  <2> QED
    BY <2>1 DEF Box!OutboxNext
<1>3. CASE DrainOne
  <2>1. Box!ServeFront
    BY <1>3 DEF DrainOne, Box!ServeFront
  <2> QED
    BY <2>1 DEF Box!OutboxNext
<1>4. ASSUME NEW t \in Senders, NEW m \in Messages, mqtt_publish_ex(t, m)
      PROVE  Box!OutboxNext
  BY <1>4, PublishOffers DEF Box!OutboxNext
<1>5. ASSUME NEW t \in Senders, SendAccepted(t) \/ SendRefused(t) \/ Requeue(t)
      PROVE  Box!OutboxNext
  BY <1>5, SendingServes DEF Box!OutboxNext
<1> QED
  BY <1>1, <1>2, <1>3, <1>4, <1>5, MessageCases DEF OneInv

(* For any number of publishing threads and messages the client implements  *)
(* Outbox: what waits for a connection is transmitted in the order in which *)
(* it was queued, and nothing is transmitted twice.                         *)
THEOREM ClientServesOutbox == Spec => ServesOutbox
<1>1. mqtt_new => Box!OutboxInit
  BY DEF mqtt_new, Box!OutboxInit
<1>2. OneInv /\ [Next]_vars => [Box!OutboxNext]_(Box!outboxVars)
  BY StepOutbox
<1> QED
  BY <1>1, <1>2, OneInvariant, PTL DEF Spec, ServesOutbox, Box!OutboxSpec

=============================================================================
