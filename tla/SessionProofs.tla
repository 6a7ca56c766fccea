----------------------------- MODULE SessionProofs -----------------------------
(***************************************************************************)
(* Proofs about Session, of the host's thread and the MQTT thread, for any *)
(* devices, settings and number of connections and deletions: the state    *)
(* keeps its types, a thread is only hit by a call of the other thread or  *)
(* by one that interrupts it, a device that has left is not listed, and one *)
(* that was announced is not forgotten.                                    *)
(***************************************************************************)
EXTENDS Session, TLAPS

(* Which call takes a thread to which place, and what device it is about.   *)
Routed ==
    /\ task["host"] \in {"none", "added", "removed", "online", "offline", "start", "stop"}
    /\ task["paho"] \in {"none", "init", "online", "offline", "reply", "delete", "removed"}
    /\ task["paho"] = "removed" <=> below # "none"
    /\ \A t \in Threads :
          /\ pc[t] = "idle" <=> task[t] = "none"
          /\ pc[t] \in {"search", "product", "register"} => task[t] = "added"
          /\ pc[t] = "insert" => IF t = "host" THEN task[t] = "added"
                                               ELSE task[t] \in {"online", "offline"}
          /\ pc[t] \in {"join", "login"} => task[t] \in {"added", "online", "reply"}
          /\ pc[t] \in {"lookup", "read"} => task[t] \in {"removed", "online", "offline"}
          /\ pc[t] \in {"find", "command", "logout", "erase", "end"} =>
                task[t] \in {"removed", "delete"}
          /\ pc[t] \in {"list", "next"} => task[t] = "init"
          /\ pc[t] \in {"fetch", "header"} => task[t] = "start"
          /\ pc[t] \in {"first", "drop"} => task[t] = "stop"
          /\ task[t] \in {"added", "removed", "online", "offline", "delete"} =>
                dev[t] \in Devices
          /\ task[t] = "reply" => dev[t] \in Names
          /\ task[t] \in {"none", "start", "stop", "init"} => dev[t] = None

(* The part of TypeOK that is about the threads. *)
ThreadsOK ==
    /\ pc \in [Threads -> {"idle", "search", "product", "insert", "register",
                           "join", "login", "lookup", "read", "find", "command",
                           "logout", "erase", "end", "first", "drop", "list",
                           "next", "fetch", "header", "undefined", "overrun"}]
    /\ task \in [Threads -> {"none", "added", "removed", "online", "offline",
                             "start", "stop", "init", "reply", "delete"}]
    /\ dev \in [Threads -> Names \cup {None}]

HandsOK ==
    /\ iter \in [Holders -> Devices \cup {None}]
    /\ eraser \in [Holders -> Callers \cup {None}]
    /\ below \in {"none", "delete", "init"}

(* A thread reads the node of the device it is about.  A call that erased   *)
(* its node leaves its iterator alone from then on.                         *)
Handed ==
    /\ \A t \in Threads :
          /\ eraser[t] = t => pc[t] \in {"end", "first"}
          /\ pc[t] = "undefined" => eraser[t] # None
          /\ pc[t] \in {"read", "command", "logout", "erase"} => iter[t] = dev[t]
          /\ pc[t] \in {"product", "drop"} => iter[t] # None
    /\ eraser["outer"] # "paho"
    /\ below = "none" => iter["outer"] = None
    /\ below = "delete" => iter["outer"] = dev["paho"]

(* What is listed while the plugin is stopped was added too late, and so    *)
(* was a device that is listed again when its removal ends, unless the host *)
(* has begun to remove it once more.                                        *)
Unlisted ==
    /\ ~started => devices \subseteq late
    /\ task["host"] = "removed" => status[dev["host"]] = "absent"
    /\ pc["host"] = "end" /\ dev["host"] \in devices => dev["host"] \in late
    /\ pc["paho"] = "end" /\ task["paho"] = "removed" /\ dev["paho"] \in devices
          /\ status[dev["paho"]] = "absent" =>
          \/ dev["paho"] \in late \/ "leave" \notin config
          \/ task["host"] = "removed" /\ dev["host"] = dev["paho"]
    /\ LeftDevicesUnlisted

(* The host joins a device itself if a reply to its registration does not.  *)
Pursued ==
    /\ pc["host"] \in {"join", "login"} /\ task["host"] = "added" =>
          Named(dev["host"]) = dev["host"]
    /\ NewDevicePursued

(* No connection is attempted or served while rex_start works on the list,  *)
(* unless an earlier one was when it began.                                 *)
Listed ==
    /\ task["host"] = "start" => ~started
    /\ task["host"] = "start" /\ ~restarted => link # "connecting" /\ ~Walking
    /\ pc["host"] = "header" /\ ~restarted => given
    /\ ListKeptInUse

Inv == TypeOK /\ Routed /\ Handed /\ Unlisted /\ Pursued /\ Listed

-----------------------------------------------------------------------------
LEMMA InvInit == Init => Inv
<1> SUFFICES ASSUME Init PROVE Inv
  OBVIOUS
<1> USE SessionAssumption DEF Init, Threads, Holders, Callers
<1>1. TypeOK
  <2>1. 0 \in 0..MaxEvents
    OBVIOUS
  <2>2. status \in [Devices -> Present \cup {"absent"}]
    BY DEF Present
  <2>3. list \in [Devices -> Present \cup {"absent"}]
    OBVIOUS
  <2>4. iter \in [Holders -> Devices \cup {None}]
    OBVIOUS
  <2>5. eraser \in [Holders -> Callers \cup {None}]
    OBVIOUS
  <2> QED
    BY <2>1, <2>2, <2>3, <2>4, <2>5 DEF TypeOK
<1>2. Routed
  BY DEF Routed
<1>3. Handed
  BY DEF Handed
<1>4. Unlisted
  BY DEF Unlisted, LeftDevicesUnlisted
<1>5. Pursued
  BY DEF Pursued, NewDevicePursued
<1>6. Listed
  BY DEF Listed, ListKeptInUse
<1> QED
  BY <1>1, <1>2, <1>3, <1>4, <1>5, <1>6 DEF Inv

(* The paho thread is at a call of processCmd, for d. *)
Calling(c, d) ==
    \/ /\ c = "delete" /\ pc["paho"] = "command" /\ d = dev["paho"]
       /\ task["paho"] = "delete"
    \/ c = "init" /\ pc["paho"] = "next" /\ task["paho"] = "init"

(* An announcement of the host from inside processCmd keeps the invariant. *)
LEMMA Interrupted ==
    ASSUME Inv, NEW c, NEW d \in Devices, Calling(c, d), Interrupt(c, d),
           UNCHANGED <<config, started, link, events, map, asked>>,
           list' \in [Devices -> Present \cup {"absent"}], given' = given,
           status[d] \in Present, below = "none"
    PROVE  Inv'
<1> USE DEF Threads, Holders, Callers, network, map, hands, threads, dialogue, history
<1> USE SessionAssumption
<1>1. /\ pc' = [pc EXCEPT !["paho"] = "lookup"]
      /\ task' = [task EXCEPT !["paho"] = "removed"]
      /\ dev' = [dev EXCEPT !["paho"] = d]
      /\ below' = c
      /\ iter' = [iter EXCEPT !["outer"] = iter["paho"], !["paho"] = None]
      /\ eraser' = [eraser EXCEPT !["outer"] = eraser["paho"], !["paho"] = None]
      /\ status' = [status EXCEPT ![d] = "absent"]
      /\ awaited' = awaited \ {d}
      /\ UNCHANGED restarted
  BY DEF Interrupt, Enter, Hand
<1>2. /\ c \in {"delete", "init"}
      /\ pc["paho"] \in {"command", "next"}
      /\ task["paho"] \in {"delete", "init"}
  BY DEF Calling
<1>3. TypeOK'
  <2>1. ThreadsOK'
    BY <1>1 DEF Inv, TypeOK, ThreadsOK, Names
  <2>2. HandsOK'
    BY <1>1, <1>2 DEF Inv, TypeOK, HandsOK
  <2>3. status' \in [Devices -> Present \cup {"absent"}]
    BY <1>1 DEF Inv, TypeOK
  <2> QED
    BY <1>1, <2>1, <2>2, <2>3 DEF Inv, TypeOK, ThreadsOK, HandsOK
<1>4. Routed'
  BY <1>1, <1>2 DEF Inv, TypeOK, Routed
<1>5. Handed'
  <2>1. eraser["paho"] # "paho"
    BY <1>2 DEF Inv, TypeOK, Handed
  <2>2. c = "delete" => iter["paho"] = d
    BY DEF Calling, Inv, Handed
  <2> QED
    BY <1>1, <1>2, <2>1, <2>2 DEF Inv, TypeOK, Handed
<1>6. Unlisted'
  <2>1. LeftDevicesUnlisted'
    BY <1>1, <1>2 DEF Inv, TypeOK, Unlisted, LeftDevicesUnlisted
  <2>2. task["host"] = "removed" => dev["host"] \in Devices /\ dev["host"] # d
    BY DEF Present, Inv, Routed, Unlisted
  <2> QED
    BY <1>1, <1>2, <2>1, <2>2 DEF Inv, TypeOK, Routed, Unlisted
<1>7. Pursued'
  BY <1>1, <1>2 DEF Inv, TypeOK, Routed, Pursued, NewDevicePursued, Named
<1>8. Listed'
  <2>1. Walking' => Walking
    BY <1>1, <1>2 DEF Calling, Walking, Inv, TypeOK
  <2> QED
    BY <1>1, <1>2, <2>1 DEF Inv, TypeOK, Routed, Listed, ListKeptInUse
<1> QED
  BY <1>3, <1>4, <1>5, <1>6, <1>7, <1>8 DEF Inv

LEMMA InvStep == Inv /\ [Next]_vars => Inv'
<1> SUFFICES ASSUME Inv, [Next]_vars PROVE Inv'
  OBVIOUS
<1> USE SessionAssumption
    DEF Threads, Holders, Callers, network, map, hands, threads, dialogue, history
<1>0. Defined \/ UNCHANGED vars
  BY DEF Next
<1>1. ASSUME rex_start PROVE Inv'
  <2>1. TypeOK'
    <3>1. ThreadsOK'
      BY <1>1
      DEF rex_start, Begin, Enter, Hold, Walking, Inv, TypeOK, Routed,
          ThreadsOK, Names, Present
    <3>2. HandsOK'
      BY <1>1
      DEF rex_start, Begin, Enter, Hold, Walking, Inv, TypeOK, Routed, HandsOK
    <3> QED
      BY <1>1, <3>1, <3>2
      DEF rex_start, Begin, Enter, Hold, Walking, Inv, TypeOK, ThreadsOK,
          HandsOK, Names, Present
  <2>2. Routed'
    BY <1>1
    DEF rex_start, Begin, Enter, Hold, Walking, Inv, TypeOK, Routed, Names,
        Present
  <2>3. Handed'
    BY <1>1
    DEF rex_start, Begin, Enter, Hold, Walking, Inv, TypeOK, Routed, Handed
  <2>4. Unlisted'
    BY <1>1
    DEF rex_start, Begin, Enter, Hold, Walking, Inv, TypeOK, Routed, Handed,
        Unlisted, LeftDevicesUnlisted, Present
  <2>5. Pursued'
    BY <1>1
    DEF rex_start, Begin, Enter, Hold, Walking, Inv, TypeOK, Routed, Handed,
        Pursued, NewDevicePursued, Named
  <2>6. Listed'
    <3>1. \A t \in Threads : pc'[t] # "overrun"
      <4>1. pc' # pc
        BY <1>1 DEF rex_start, Begin, Enter, Inv, TypeOK
      <4>2. Defined
        BY <1>0, <4>1 DEF vars
      <4> QED
        BY <1>1, <4>2 DEF rex_start, Begin, Enter, Inv, TypeOK, Defined
    <3>2. /\ restarted' = (Walking \/ link = "connecting")
          /\ ~started /\ UNCHANGED <<started, link, below, given>>
          /\ pc' = [pc EXCEPT !["host"] = "fetch"]
          /\ task' = [task EXCEPT !["host"] = "start"]
      BY <1>1 DEF rex_start, Begin, Enter, Hold
    <3>3. Walking' = Walking
      BY <3>2 DEF Walking, Inv, TypeOK
    <3> QED
      BY <3>1, <3>2, <3>3 DEF Inv, TypeOK, Listed, ListKeptInUse
  <2> QED
    BY <2>1, <2>2, <2>3, <2>4, <2>5, <2>6 DEF Inv
<1>2. ASSUME StoreDevList PROVE Inv'
  <2>1. TypeOK'
    <3>1. ThreadsOK'
      BY <1>2
      DEF StoreDevList, NewList, Goto, Walking, Inv, TypeOK, Routed,
          ThreadsOK, Names, Present
    <3>2. HandsOK'
      BY <1>2
      DEF StoreDevList, NewList, Goto, Walking, Inv, TypeOK, Routed, HandsOK
    <3> QED
      BY <1>2, <3>1, <3>2
      DEF StoreDevList, NewList, Goto, Walking, Inv, TypeOK, ThreadsOK,
          HandsOK, Names, Present
  <2>2. Routed'
    BY <1>2
    DEF StoreDevList, NewList, Goto, Walking, Inv, TypeOK, Routed, Names,
        Present
  <2>3. Handed'
    BY <1>2
    DEF StoreDevList, NewList, Goto, Walking, Inv, TypeOK, Routed, Handed
  <2>4. Unlisted'
    BY <1>2
    DEF StoreDevList, NewList, Goto, Walking, Inv, TypeOK, Routed, Handed,
        Unlisted, LeftDevicesUnlisted, Present
  <2>5. Pursued'
    BY <1>2
    DEF StoreDevList, NewList, Goto, Walking, Inv, TypeOK, Routed, Handed,
        Pursued, NewDevicePursued, Named
  <2>6. Listed'
    BY <1>0, <1>2
    DEF StoreDevList, NewList, Goto, Walking, Inv, TypeOK, Routed, Listed,
        ListKeptInUse, Defined
  <2> QED
    BY <2>1, <2>2, <2>3, <2>4, <2>5, <2>6 DEF Inv
<1>3. ASSUME ReadHeader PROVE Inv'
  <2>1. TypeOK'
    <3>1. ThreadsOK'
      BY <1>3
      DEF ReadHeader, mqtt_start, Goto, Return, Begin, Enter, Hold, Inv,
          TypeOK, Routed, ThreadsOK, Names, Present
    <3>2. HandsOK'
      BY <1>3
      DEF ReadHeader, mqtt_start, Goto, Return, Begin, Enter, Hold, Inv,
          TypeOK, Routed, HandsOK
    <3> QED
      BY <1>3, <3>1, <3>2
      DEF ReadHeader, mqtt_start, Goto, Return, Begin, Enter, Hold, Inv,
          TypeOK, ThreadsOK, HandsOK, Names, Present
  <2>2. Routed'
    BY <1>3
    DEF ReadHeader, mqtt_start, Goto, Return, Begin, Enter, Hold, Inv, TypeOK,
        Routed, Names, Present
  <2>3. Handed'
    BY <1>3
    DEF ReadHeader, mqtt_start, Goto, Return, Begin, Enter, Hold, Inv, TypeOK,
        Routed, Handed
  <2>4. Unlisted'
    BY <1>3
    DEF ReadHeader, mqtt_start, Goto, Return, Begin, Enter, Hold, Inv, TypeOK,
        Routed, Handed, Unlisted, LeftDevicesUnlisted, Present
  <2>5. Pursued'
    BY <1>3
    DEF ReadHeader, mqtt_start, Goto, Return, Begin, Enter, Hold, Inv, TypeOK,
        Routed, Handed, Pursued, NewDevicePursued, Named
  <2>6. Listed'
    BY <1>0, <1>3
    DEF ReadHeader, mqtt_start, Goto, Return, Begin, Enter, Hold, Inv, TypeOK,
        Routed, Listed, Walking, ListKeptInUse, Defined
  <2> QED
    BY <2>1, <2>2, <2>3, <2>4, <2>5, <2>6 DEF Inv
<1>4. ASSUME rex_stop PROVE Inv'
  <2>1. TypeOK'
    <3>1. ThreadsOK'
      BY <1>4
      DEF rex_stop, Begin, Enter, Hold, Inv, TypeOK, Routed, ThreadsOK, Names,
          Present
    <3>2. HandsOK'
      BY <1>4
      DEF rex_stop, Begin, Enter, Hold, Inv, TypeOK, Routed, HandsOK
    <3> QED
      BY <1>4, <3>1, <3>2
      DEF rex_stop, Begin, Enter, Hold, Inv, TypeOK, ThreadsOK, HandsOK,
          Names, Present
  <2>2. Routed'
    BY <1>4
    DEF rex_stop, Begin, Enter, Hold, Inv, TypeOK, Routed, Names, Present
  <2>3. Handed'
    BY <1>4
    DEF rex_stop, Begin, Enter, Hold, Inv, TypeOK, Routed, Handed
  <2>4. Unlisted'
    BY <1>4
    DEF rex_stop, Begin, Enter, Hold, Inv, TypeOK, Routed, Handed, Unlisted,
        LeftDevicesUnlisted, Present
  <2>5. Pursued'
    BY <1>4
    DEF rex_stop, Begin, Enter, Hold, Inv, TypeOK, Routed, Handed, Pursued,
        NewDevicePursued, Named
  <2>6. Listed'
    BY <1>0, <1>4
    DEF rex_stop, Begin, Enter, Hold, Inv, TypeOK, Routed, Listed, Walking,
        ListKeptInUse, Defined
  <2> QED
    BY <2>1, <2>2, <2>3, <2>4, <2>5, <2>6 DEF Inv
<1>5. ASSUME NEW d \in Devices, ChangeUnseen(d) PROVE Inv'
  <2>1. TypeOK'
    <3>1. ThreadsOK'
      BY <1>5
      DEF ChangeUnseen, Inv, TypeOK, Routed, ThreadsOK, Names, Present
    <3>2. HandsOK'
      BY <1>5
      DEF ChangeUnseen, Inv, TypeOK, Routed, HandsOK
    <3> QED
      BY <1>5, <3>1, <3>2
      DEF ChangeUnseen, Inv, TypeOK, ThreadsOK, HandsOK, Names, Present
  <2>2. Routed'
    BY <1>5
    DEF ChangeUnseen, Inv, TypeOK, Routed, Names, Present
  <2>3. Handed'
    BY <1>5
    DEF ChangeUnseen, Inv, TypeOK, Routed, Handed
  <2>4. Unlisted'
    BY <1>5
    DEF ChangeUnseen, Inv, TypeOK, Routed, Handed, Unlisted,
        LeftDevicesUnlisted, Present
  <2>5. Pursued'
    BY <1>5
    DEF ChangeUnseen, Inv, TypeOK, Routed, Handed, Pursued, NewDevicePursued,
        Named
  <2>6. Listed'
    BY <1>0, <1>5
    DEF ChangeUnseen, Inv, TypeOK, Routed, Listed, Walking, ListKeptInUse,
        Defined
  <2> QED
    BY <2>1, <2>2, <2>3, <2>4, <2>5, <2>6 DEF Inv
<1>6. ASSUME NEW d \in Devices, NodeAdded(d) PROVE Inv'
  <2>1. TypeOK'
    <3>1. ThreadsOK'
      BY <1>6
      DEF NodeAdded, Begin, Enter, Hold, Inv, TypeOK, Routed, ThreadsOK,
          Names, Present
    <3>2. HandsOK'
      BY <1>6
      DEF NodeAdded, Begin, Enter, Hold, Inv, TypeOK, Routed, HandsOK
    <3>3. status' \in [Devices -> Present \cup {"absent"}]
      BY <1>6 DEF NodeAdded, Inv, TypeOK, Present
    <3>4. awaited' \subseteq Names
      BY <1>6 DEF NodeAdded, Named, Inv, TypeOK, Names
    <3> QED
      BY <1>6, <3>1, <3>2, <3>3, <3>4
      DEF NodeAdded, Begin, Enter, Hold, Inv, TypeOK, ThreadsOK, HandsOK
  <2>2. Routed'
    BY <1>6
    DEF NodeAdded, Begin, Enter, Hold, Inv, TypeOK, Routed, Names, Present
  <2>3. Handed'
    BY <1>6
    DEF NodeAdded, Begin, Enter, Hold, Inv, TypeOK, Routed, Handed
  <2>4. Unlisted'
    BY <1>6
    DEF NodeAdded, Begin, Enter, Hold, Inv, TypeOK, Routed, Handed, Unlisted,
        LeftDevicesUnlisted, Present
  <2>5. Pursued'
    BY <1>6
    DEF NodeAdded, Begin, Enter, Hold, Inv, TypeOK, Routed, Handed, Pursued,
        NewDevicePursued, Named
  <2>6. Listed'
    BY <1>0, <1>6
    DEF NodeAdded, Begin, Enter, Hold, Inv, TypeOK, Routed, Listed, Walking,
        ListKeptInUse, Defined
  <2> QED
    BY <2>1, <2>2, <2>3, <2>4, <2>5, <2>6 DEF Inv
<1>7. ASSUME NEW d \in Devices, NodeRemoved(d) PROVE Inv'
  <2>1. TypeOK'
    <3>1. ThreadsOK'
      BY <1>7
      DEF NodeRemoved, Begin, Enter, Hold, Inv, TypeOK, Routed, ThreadsOK,
          Names, Present
    <3>2. HandsOK'
      BY <1>7
      DEF NodeRemoved, Begin, Enter, Hold, Inv, TypeOK, Routed, HandsOK
    <3> QED
      BY <1>7, <3>1, <3>2
      DEF NodeRemoved, Begin, Enter, Hold, Inv, TypeOK, ThreadsOK, HandsOK,
          Names, Present
  <2>2. Routed'
    BY <1>7
    DEF NodeRemoved, Begin, Enter, Hold, Inv, TypeOK, Routed, Names, Present
  <2>3. Handed'
    BY <1>7
    DEF NodeRemoved, Begin, Enter, Hold, Inv, TypeOK, Routed, Handed
  <2>4. Unlisted'
    <3>1. /\ task' = [task EXCEPT !["host"] = "removed"]
          /\ dev' = [dev EXCEPT !["host"] = d]
          /\ pc' = [pc EXCEPT !["host"] = "lookup"]
          /\ status' = [status EXCEPT ![d] = "absent"]
          /\ UNCHANGED <<config, started, devices, late>>
          /\ task["host"] = "none"
      BY <1>7 DEF NodeRemoved, Begin, Enter, Inv, TypeOK, Routed
    <3>2. LeftDevicesUnlisted'
      BY <3>1 DEF Inv, TypeOK, Unlisted, LeftDevicesUnlisted
    <3> QED
      BY <3>1, <3>2 DEF Inv, TypeOK, Handed, Unlisted
  <2>5. Pursued'
    BY <1>7
    DEF NodeRemoved, Begin, Enter, Hold, Inv, TypeOK, Routed, Handed, Pursued,
        NewDevicePursued, Named
  <2>6. Listed'
    BY <1>0, <1>7
    DEF NodeRemoved, Begin, Enter, Hold, Inv, TypeOK, Routed, Listed, Walking,
        ListKeptInUse, Defined
  <2> QED
    BY <2>1, <2>2, <2>3, <2>4, <2>5, <2>6 DEF Inv
<1>8. ASSUME NEW d \in Devices, NEW s \in Present, NodeConnState(d, s) PROVE Inv'
  <2>1. TypeOK'
    <3>1. ThreadsOK'
      BY <1>8
      DEF NodeConnState, Begin, Enter, Hold, Inv, TypeOK, Routed, ThreadsOK,
          Names, Present
    <3>2. HandsOK'
      BY <1>8
      DEF NodeConnState, Begin, Enter, Hold, Inv, TypeOK, Routed, HandsOK
    <3> QED
      BY <1>8, <3>1, <3>2
      DEF NodeConnState, Begin, Enter, Hold, Inv, TypeOK, ThreadsOK, HandsOK,
          Names, Present
  <2>2. Routed'
    BY <1>8
    DEF NodeConnState, Begin, Enter, Hold, Inv, TypeOK, Routed, Names, Present
  <2>3. Handed'
    BY <1>8
    DEF NodeConnState, Begin, Enter, Hold, Inv, TypeOK, Routed, Handed
  <2>4. Unlisted'
    BY <1>8
    DEF NodeConnState, Begin, Enter, Hold, Inv, TypeOK, Routed, Handed,
        Unlisted, LeftDevicesUnlisted, Present
  <2>5. Pursued'
    BY <1>8
    DEF NodeConnState, Begin, Enter, Hold, Inv, TypeOK, Routed, Handed,
        Pursued, NewDevicePursued, Named
  <2>6. Listed'
    BY <1>0, <1>8
    DEF NodeConnState, Begin, Enter, Hold, Inv, TypeOK, Routed, Listed,
        Walking, ListKeptInUse, Defined
  <2> QED
    BY <2>1, <2>2, <2>3, <2>4, <2>5, <2>6 DEF Inv
<1>9. ASSUME StopFirst PROVE Inv'
  <2>1. TypeOK'
    <3>1. ThreadsOK'
      BY <1>9
      DEF StopFirst, Goto, Return, Begin, Enter, Hold, Inv, TypeOK, Routed,
          ThreadsOK, Names, Present
    <3>2. HandsOK'
      BY <1>9
      DEF StopFirst, Goto, Return, Begin, Enter, Hold, Inv, TypeOK, Routed,
          HandsOK
    <3> QED
      BY <1>9, <3>1, <3>2
      DEF StopFirst, Goto, Return, Begin, Enter, Hold, Inv, TypeOK, ThreadsOK,
          HandsOK, Names, Present
  <2>2. Routed'
    BY <1>9
    DEF StopFirst, Goto, Return, Begin, Enter, Hold, Inv, TypeOK, Routed,
        Names, Present
  <2>3. Handed'
    BY <1>9
    DEF StopFirst, Goto, Return, Begin, Enter, Hold, Inv, TypeOK, Routed,
        Handed
  <2>4. Unlisted'
    BY <1>9
    DEF StopFirst, Goto, Return, Begin, Enter, Hold, Inv, TypeOK, Routed,
        Handed, Unlisted, LeftDevicesUnlisted, Present
  <2>5. Pursued'
    BY <1>9
    DEF StopFirst, Goto, Return, Begin, Enter, Hold, Inv, TypeOK, Routed,
        Handed, Pursued, NewDevicePursued, Named
  <2>6. Listed'
    BY <1>0, <1>9
    DEF StopFirst, Goto, Return, Begin, Enter, Hold, Inv, TypeOK, Routed,
        Listed, Walking, ListKeptInUse, Defined
  <2> QED
    BY <2>1, <2>2, <2>3, <2>4, <2>5, <2>6 DEF Inv
<1>10. ASSUME StopErase PROVE Inv'
  <2>1. TypeOK'
    <3>1. ThreadsOK'
      BY <1>10
      DEF StopErase, Goto, Undefined, Dangling, EraseHeld, Caller, Inv,
          TypeOK, Routed, ThreadsOK, Names, Present
    <3>2. HandsOK'
      BY <1>10
      DEF StopErase, Goto, Undefined, Dangling, EraseHeld, Caller, Inv,
          TypeOK, Routed, HandsOK
    <3> QED
      BY <1>10, <3>1, <3>2
      DEF StopErase, Goto, Undefined, Dangling, EraseHeld, Caller, Inv,
          TypeOK, ThreadsOK, HandsOK, Names, Present
  <2>2. Routed'
    BY <1>10
    DEF StopErase, Goto, Undefined, Dangling, EraseHeld, Caller, Inv, TypeOK,
        Routed, Names, Present
  <2>3. Handed'
    BY <1>10
    DEF StopErase, Goto, Undefined, Dangling, EraseHeld, Caller, Inv, TypeOK,
        Routed, Handed
  <2>4. Unlisted'
    BY <1>10
    DEF StopErase, Goto, Undefined, Dangling, EraseHeld, Caller, Inv, TypeOK,
        Routed, Handed, Unlisted, LeftDevicesUnlisted, Present
  <2>5. Pursued'
    BY <1>10
    DEF StopErase, Goto, Undefined, Dangling, EraseHeld, Caller, Inv, TypeOK,
        Routed, Handed, Pursued, NewDevicePursued, Named
  <2>6. Listed'
    BY <1>0, <1>10
    DEF StopErase, Goto, Undefined, Dangling, EraseHeld, Caller, Inv, TypeOK,
        Routed, Listed, Walking, ListKeptInUse, Defined
  <2> QED
    BY <2>1, <2>2, <2>3, <2>4, <2>5, <2>6 DEF Inv
<1>11. ASSUME NEW t \in Threads, Lookup(t) PROVE Inv'
  <2>1. TypeOK'
    <3>1. ThreadsOK'
      BY <1>11
      DEF Lookup, Goto, Return, Resume, Hand, Begin, Enter, Hold, Inv, TypeOK,
          Routed, ThreadsOK, Names, Present
    <3>2. HandsOK'
      BY <1>11
      DEF Lookup, Goto, Return, Resume, Hand, Begin, Enter, Hold, Inv, TypeOK,
          Routed, HandsOK
    <3> QED
      BY <1>11, <3>1, <3>2
      DEF Lookup, Goto, Return, Resume, Hand, Begin, Enter, Hold, Inv, TypeOK,
          ThreadsOK, HandsOK, Names, Present
  <2>2. Routed'
    BY <1>11
    DEF Lookup, Goto, Return, Resume, Hand, Begin, Enter, Hold, Inv, TypeOK,
        Routed, Names, Present
  <2>3. Handed'
    BY <1>11
    DEF Lookup, Goto, Return, Resume, Hand, Begin, Enter, Hold, Inv, TypeOK,
        Routed, Handed
  <2>4. Unlisted'
    BY <1>11
    DEF Lookup, Goto, Return, Resume, Hand, Begin, Enter, Hold, Inv, TypeOK,
        Routed, Handed, Unlisted, LeftDevicesUnlisted, Present
  <2>5. Pursued'
    BY <1>11
    DEF Lookup, Goto, Return, Resume, Hand, Begin, Enter, Hold, Inv, TypeOK,
        Routed, Handed, Pursued, NewDevicePursued, Named
  <2>6. Listed'
    BY <1>0, <1>11
    DEF Lookup, Goto, Return, Resume, Hand, Begin, Enter, Hold, Inv, TypeOK,
        Routed, Listed, Walking, ListKeptInUse, Defined
  <2> QED
    BY <2>1, <2>2, <2>3, <2>4, <2>5, <2>6 DEF Inv
<1>12. ASSUME NEW t \in Threads, ReadProduct(t) PROVE Inv'
  <2>1. TypeOK'
    <3>1. ThreadsOK'
      BY <1>12
      DEF ReadProduct, Goto, Undefined, Dangling, Return, Resume, Hand, Begin,
          Enter, Hold, Inv, TypeOK, Routed, ThreadsOK, Names, Present
    <3>2. HandsOK'
      BY <1>12
      DEF ReadProduct, Goto, Undefined, Dangling, Return, Resume, Hand, Begin,
          Enter, Hold, Inv, TypeOK, Routed, HandsOK
    <3> QED
      BY <1>12, <3>1, <3>2
      DEF ReadProduct, Goto, Undefined, Dangling, Return, Resume, Hand, Begin,
          Enter, Hold, Inv, TypeOK, ThreadsOK, HandsOK, Names, Present
  <2>2. Routed'
    BY <1>12
    DEF ReadProduct, Goto, Undefined, Dangling, Return, Resume, Hand, Begin,
        Enter, Hold, Inv, TypeOK, Routed, Names, Present
  <2>3. Handed'
    BY <1>12
    DEF ReadProduct, Goto, Undefined, Dangling, Return, Resume, Hand, Begin,
        Enter, Hold, Inv, TypeOK, Routed, Handed
  <2>4. Unlisted'
    BY <1>12
    DEF ReadProduct, Goto, Undefined, Dangling, Return, Resume, Hand, Begin,
        Enter, Hold, Inv, TypeOK, Routed, Handed, Unlisted,
        LeftDevicesUnlisted, Present
  <2>5. Pursued'
    BY <1>12
    DEF ReadProduct, Goto, Undefined, Dangling, Return, Resume, Hand, Begin,
        Enter, Hold, Inv, TypeOK, Routed, Handed, Pursued, NewDevicePursued,
        Named
  <2>6. Listed'
    BY <1>0, <1>12
    DEF ReadProduct, Goto, Undefined, Dangling, Return, Resume, Hand, Begin,
        Enter, Hold, Inv, TypeOK, Routed, Listed, Walking, ListKeptInUse,
        Defined
  <2> QED
    BY <2>1, <2>2, <2>3, <2>4, <2>5, <2>6 DEF Inv
<1>13. ASSUME Search PROVE Inv'
  <2>1. TypeOK'
    <3>1. ThreadsOK'
      BY <1>13
      DEF Search, Goto, Hold, Inv, TypeOK, Routed, ThreadsOK, Names, Present
    <3>2. HandsOK'
      BY <1>13
      DEF Search, Goto, Hold, Inv, TypeOK, Routed, HandsOK
    <3> QED
      BY <1>13, <3>1, <3>2
      DEF Search, Goto, Hold, Inv, TypeOK, ThreadsOK, HandsOK, Names, Present
  <2>2. Routed'
    BY <1>13
    DEF Search, Goto, Hold, Inv, TypeOK, Routed, Names, Present
  <2>3. Handed'
    BY <1>13
    DEF Search, Goto, Hold, Inv, TypeOK, Routed, Handed
  <2>4. Unlisted'
    BY <1>13
    DEF Search, Goto, Hold, Inv, TypeOK, Routed, Handed, Unlisted,
        LeftDevicesUnlisted, Present
  <2>5. Pursued'
    BY <1>13
    DEF Search, Goto, Hold, Inv, TypeOK, Routed, Handed, Pursued,
        NewDevicePursued, Named
  <2>6. Listed'
    BY <1>0, <1>13
    DEF Search, Goto, Hold, Inv, TypeOK, Routed, Listed, Walking,
        ListKeptInUse, Defined
  <2> QED
    BY <2>1, <2>2, <2>3, <2>4, <2>5, <2>6 DEF Inv
<1>14. ASSUME CompareProduct PROVE Inv'
  <2>1. TypeOK'
    <3>1. ThreadsOK'
      BY <1>14
      DEF CompareProduct, Goto, Hold, Undefined, Dangling, Inv, TypeOK,
          Routed, ThreadsOK, Names, Present
    <3>2. HandsOK'
      BY <1>14
      DEF CompareProduct, Goto, Hold, Undefined, Dangling, Inv, TypeOK,
          Routed, HandsOK
    <3> QED
      BY <1>14, <3>1, <3>2
      DEF CompareProduct, Goto, Hold, Undefined, Dangling, Inv, TypeOK,
          ThreadsOK, HandsOK, Names, Present
  <2>2. Routed'
    BY <1>14
    DEF CompareProduct, Goto, Hold, Undefined, Dangling, Inv, TypeOK, Routed,
        Names, Present
  <2>3. Handed'
    BY <1>14
    DEF CompareProduct, Goto, Hold, Undefined, Dangling, Inv, TypeOK, Routed,
        Handed
  <2>4. Unlisted'
    BY <1>14
    DEF CompareProduct, Goto, Hold, Undefined, Dangling, Inv, TypeOK, Routed,
        Handed, Unlisted, LeftDevicesUnlisted, Present
  <2>5. Pursued'
    BY <1>14
    DEF CompareProduct, Goto, Hold, Undefined, Dangling, Inv, TypeOK, Routed,
        Handed, Pursued, NewDevicePursued, Named
  <2>6. Listed'
    BY <1>0, <1>14
    DEF CompareProduct, Goto, Hold, Undefined, Dangling, Inv, TypeOK, Routed,
        Listed, Walking, ListKeptInUse, Defined
  <2> QED
    BY <2>1, <2>2, <2>3, <2>4, <2>5, <2>6 DEF Inv
<1>15. ASSUME Register PROVE Inv'
  <2>1. TypeOK'
    <3>1. ThreadsOK'
      BY <1>15
      DEF Register, Goto, Return, Begin, Enter, Hold, Inv, TypeOK, Routed,
          ThreadsOK, Names, Present
    <3>2. HandsOK'
      BY <1>15
      DEF Register, Goto, Return, Begin, Enter, Hold, Inv, TypeOK, Routed,
          HandsOK
    <3> QED
      BY <1>15, <3>1, <3>2
      DEF Register, Goto, Return, Begin, Enter, Hold, Inv, TypeOK, ThreadsOK,
          HandsOK, Names, Present
  <2>2. Routed'
    BY <1>15
    DEF Register, Goto, Return, Begin, Enter, Hold, Inv, TypeOK, Routed,
        Names, Present
  <2>3. Handed'
    BY <1>15
    DEF Register, Goto, Return, Begin, Enter, Hold, Inv, TypeOK, Routed,
        Handed
  <2>4. Unlisted'
    BY <1>15
    DEF Register, Goto, Return, Begin, Enter, Hold, Inv, TypeOK, Routed,
        Handed, Unlisted, LeftDevicesUnlisted, Present
  <2>5. Pursued'
    BY <1>15
    DEF Register, Goto, Return, Begin, Enter, Hold, Inv, TypeOK, Routed,
        Handed, Pursued, NewDevicePursued, Named
  <2>6. Listed'
    BY <1>0, <1>15
    DEF Register, Goto, Return, Begin, Enter, Hold, Inv, TypeOK, Routed,
        Listed, Walking, ListKeptInUse, Defined
  <2> QED
    BY <2>1, <2>2, <2>3, <2>4, <2>5, <2>6 DEF Inv
<1>16. ASSUME NEW t \in Threads, handle_topo_join(t) PROVE Inv'
  <2>1. TypeOK'
    <3>1. ThreadsOK'
      BY <1>16
      DEF handle_topo_join, Goto, Return, Resume, Hand, Begin, Enter, Hold,
          Inv, TypeOK, Routed, ThreadsOK, Names, Present
    <3>2. HandsOK'
      BY <1>16
      DEF handle_topo_join, Goto, Return, Resume, Hand, Begin, Enter, Hold,
          Inv, TypeOK, Routed, HandsOK
    <3>3. asked' \subseteq {"register", "join"} \X Names /\ awaited' \subseteq Names
      <4>1. dev[t] \in Names
        BY <1>16 DEF handle_topo_join, Inv, Routed, Names
      <4>2. <<"join", dev[t]>> \in {"register", "join"} \X Names
        BY <4>1
      <4> QED
        BY <1>16, <4>2 DEF handle_topo_join, Inv, TypeOK
    <3> QED
      BY <1>16, <3>1, <3>2, <3>3
      DEF handle_topo_join, Inv, TypeOK, ThreadsOK, HandsOK
  <2>2. Routed'
    BY <1>16
    DEF handle_topo_join, Goto, Return, Resume, Hand, Begin, Enter, Hold, Inv,
        TypeOK, Routed, Names, Present
  <2>3. Handed'
    BY <1>16
    DEF handle_topo_join, Goto, Return, Resume, Hand, Begin, Enter, Hold, Inv,
        TypeOK, Routed, Handed
  <2>4. Unlisted'
    BY <1>16
    DEF handle_topo_join, Goto, Return, Resume, Hand, Begin, Enter, Hold, Inv,
        TypeOK, Routed, Handed, Unlisted, LeftDevicesUnlisted, Present
  <2>5. Pursued'
    BY <1>16
    DEF handle_topo_join, Goto, Return, Resume, Hand, Begin, Enter, Hold, Inv,
        TypeOK, Routed, Handed, Pursued, NewDevicePursued, Named
  <2>6. Listed'
    BY <1>0, <1>16
    DEF handle_topo_join, Goto, Return, Resume, Hand, Begin, Enter, Hold, Inv,
        TypeOK, Routed, Listed, Walking, ListKeptInUse, Defined
  <2> QED
    BY <2>1, <2>2, <2>3, <2>4, <2>5, <2>6 DEF Inv
<1>17. ASSUME NEW t \in Threads, handle_sub_login(t) PROVE Inv'
  <2>1. TypeOK'
    <3>1. ThreadsOK'
      BY <1>17
      DEF handle_sub_login, LoggedIn, Return, Resume, Hand, Begin, Enter,
          Hold, Inv, TypeOK, Routed, ThreadsOK, Names, Present
    <3>2. HandsOK'
      BY <1>17
      DEF handle_sub_login, LoggedIn, Return, Resume, Hand, Begin, Enter,
          Hold, Inv, TypeOK, Routed, HandsOK
    <3> QED
      BY <1>17, <3>1, <3>2
      DEF handle_sub_login, LoggedIn, Return, Resume, Hand, Begin, Enter,
          Hold, Inv, TypeOK, ThreadsOK, HandsOK, Names, Present
  <2>2. Routed'
    BY <1>17
    DEF handle_sub_login, LoggedIn, Return, Resume, Hand, Begin, Enter, Hold,
        Inv, TypeOK, Routed, Names, Present
  <2>3. Handed'
    BY <1>17
    DEF handle_sub_login, LoggedIn, Return, Resume, Hand, Begin, Enter, Hold,
        Inv, TypeOK, Routed, Handed
  <2>4. Unlisted'
    BY <1>17
    DEF handle_sub_login, LoggedIn, Return, Resume, Hand, Begin, Enter, Hold,
        Inv, TypeOK, Routed, Handed, Unlisted, LeftDevicesUnlisted, Present
  <2>5. Pursued'
    BY <1>17
    DEF handle_sub_login, LoggedIn, Return, Resume, Hand, Begin, Enter, Hold,
        Inv, TypeOK, Routed, Handed, Pursued, NewDevicePursued, Named
  <2>6. Listed'
    BY <1>0, <1>17
    DEF handle_sub_login, LoggedIn, Return, Resume, Hand, Begin, Enter, Hold,
        Inv, TypeOK, Routed, Listed, Walking, ListKeptInUse, Defined
  <2> QED
    BY <2>1, <2>2, <2>3, <2>4, <2>5, <2>6 DEF Inv
<1>18. ASSUME NEW t \in Threads, add_device(t) PROVE Inv'
  <2>1. /\ pc[t] = "insert" /\ task[t] \in {"added", "online", "offline"}
        /\ dev[t] \in Devices
    BY <1>18 DEF add_device, Inv, Routed
  <2>2. \/ task[t] = "added" /\ Goto(t, "register") /\ UNCHANGED hands
        \/ task[t] = "online" /\ Goto(t, "login") /\ UNCHANGED hands
        \/ task[t] = "offline" /\ Begin(t, "init", None, "next")
    BY <1>18, <2>1 DEF add_device
  <2>3. /\ devices' = devices \cup {dev[t]}
        /\ late' = IF status[dev[t]] = "absent" \/ Stopped THEN late \cup {dev[t]}
                   ELSE late
        /\ UNCHANGED <<network, dialogue, history>>
    BY <1>18 DEF add_device
  <2>4. TypeOK'
    <3>1. ThreadsOK'
      BY <2>1, <2>2 DEF Goto, Begin, Enter, Inv, TypeOK, ThreadsOK
    <3>2. HandsOK'
      BY <2>1, <2>2 DEF Begin, Hold, Inv, TypeOK, HandsOK
    <3> QED
      BY <2>1, <2>3, <3>1, <3>2 DEF Inv, TypeOK, ThreadsOK, HandsOK, Present
  <2>5. Routed'
    BY <2>1, <2>2, <2>3 DEF Goto, Begin, Enter, Hold, Inv, TypeOK, Routed
  <2>6. Handed'
    BY <2>1, <2>2, <2>3 DEF Goto, Begin, Enter, Hold, Inv, TypeOK, Routed, Handed
  <2>7. Unlisted'
    BY <2>1, <2>2, <2>3
    DEF Goto, Begin, Enter, Hold, Stopped, Inv, TypeOK, Routed, Unlisted,
        LeftDevicesUnlisted
  <2>8. Pursued'
    BY <2>1, <2>2, <2>3
    DEF Goto, Begin, Enter, Hold, Inv, TypeOK, Routed, Pursued, NewDevicePursued,
        Named
  <2>9. Listed'
    BY <1>18, <2>1, <2>2, <2>3
    DEF add_device, Goto, Begin, Enter, Hold, Inv, TypeOK, Routed, Listed, Walking,
        ListKeptInUse
  <2> QED
    BY <2>4, <2>5, <2>6, <2>7, <2>8, <2>9 DEF Inv
<1>19. ASSUME NEW t \in Threads, Find(t) PROVE Inv'
  <2>1. TypeOK'
    <3>1. ThreadsOK'
      BY <1>19
      DEF Find, Goto, Hold, Inv, TypeOK, Routed, ThreadsOK, Names, Present
    <3>2. HandsOK'
      BY <1>19
      DEF Find, Goto, Hold, Inv, TypeOK, Routed, HandsOK
    <3> QED
      BY <1>19, <3>1, <3>2
      DEF Find, Goto, Hold, Inv, TypeOK, ThreadsOK, HandsOK, Names, Present
  <2>2. Routed'
    BY <1>19
    DEF Find, Goto, Hold, Inv, TypeOK, Routed, Names, Present
  <2>3. Handed'
    BY <1>19
    DEF Find, Goto, Hold, Inv, TypeOK, Routed, Handed
  <2>4. Unlisted'
    BY <1>19
    DEF Find, Goto, Hold, Inv, TypeOK, Routed, Handed, Unlisted,
        LeftDevicesUnlisted, Present
  <2>5. Pursued'
    BY <1>19
    DEF Find, Goto, Hold, Inv, TypeOK, Routed, Handed, Pursued,
        NewDevicePursued, Named
  <2>6. Listed'
    BY <1>0, <1>19
    DEF Find, Goto, Hold, Inv, TypeOK, Routed, Listed, Walking, ListKeptInUse,
        Defined
  <2> QED
    BY <2>1, <2>2, <2>3, <2>4, <2>5, <2>6 DEF Inv
<1>20. ASSUME NEW t \in Threads, RemoveCommand(t) PROVE Inv'
  <2>1. CASE Ask(dev[t]) /\ Goto(t, "logout") /\ UNCHANGED <<hands, history>>
    <3>1. pc[t] = "command" /\ dev[t] \in Devices
      BY <1>20 DEF RemoveCommand, Inv, Routed
    <3>2. UNCHANGED <<config, started, link, events, map, dialogue>>
      BY <1>20 DEF RemoveCommand
    <3>3. TypeOK'
      BY <2>1, <3>1, <3>2 DEF Goto, Ask, Inv, TypeOK, Present
    <3>4. Routed'
      BY <2>1, <3>1, <3>2 DEF Goto, Inv, TypeOK, Routed
    <3>5. Handed'
      BY <2>1, <3>1, <3>2 DEF Goto, Inv, TypeOK, Handed
    <3>6. Unlisted'
      BY <2>1, <3>1, <3>2
      DEF Goto, Ask, Inv, TypeOK, Routed, Unlisted, LeftDevicesUnlisted, Present
    <3>7. Pursued'
      BY <2>1, <3>1, <3>2
      DEF Goto, Inv, TypeOK, Routed, Pursued, NewDevicePursued, Named
    <3>8. Listed'
      BY <2>1, <3>1, <3>2 DEF Goto, Inv, TypeOK, Routed, Listed, Walking, ListKeptInUse
    <3> QED
      BY <3>3, <3>4, <3>5, <3>6, <3>7, <3>8 DEF Inv
  <2>2. CASE /\ status[dev[t]] \in Present /\ t = "paho" /\ below = "none"
             /\ Interrupt("delete", dev[t])
    <3>1. /\ pc["paho"] = "command" /\ dev["paho"] \in Devices
          /\ task["paho"] = "delete" /\ below = "none" /\ status[dev["paho"]] \in Present
      BY <1>20, <2>2 DEF RemoveCommand, Inv, TypeOK, Routed
    <3>2. /\ UNCHANGED <<config, started, link, events, map, dialogue>>
          /\ list' \in [Devices -> Present \cup {"absent"}]
      BY <1>20 DEF RemoveCommand, Inv, TypeOK
    <3> QED
      BY <2>2, <3>1, <3>2, Interrupted DEF Calling
  <2> QED
    BY <1>20, <2>1, <2>2 DEF RemoveCommand
<1>21. ASSUME NEW t \in Threads, RemoveLogout(t) PROVE Inv'
  <2>1. TypeOK'
    <3>1. ThreadsOK'
      BY <1>21
      DEF RemoveLogout, Goto, Undefined, Dangling, Inv, TypeOK, Routed,
          ThreadsOK, Names, Present
    <3>2. HandsOK'
      BY <1>21
      DEF RemoveLogout, Goto, Undefined, Dangling, Inv, TypeOK, Routed,
          HandsOK
    <3> QED
      BY <1>21, <3>1, <3>2
      DEF RemoveLogout, Goto, Undefined, Dangling, Inv, TypeOK, ThreadsOK,
          HandsOK, Names, Present
  <2>2. Routed'
    BY <1>21
    DEF RemoveLogout, Goto, Undefined, Dangling, Inv, TypeOK, Routed, Names,
        Present
  <2>3. Handed'
    BY <1>21
    DEF RemoveLogout, Goto, Undefined, Dangling, Inv, TypeOK, Routed, Handed
  <2>4. Unlisted'
    BY <1>21
    DEF RemoveLogout, Goto, Undefined, Dangling, Inv, TypeOK, Routed, Handed,
        Unlisted, LeftDevicesUnlisted, Present
  <2>5. Pursued'
    BY <1>21
    DEF RemoveLogout, Goto, Undefined, Dangling, Inv, TypeOK, Routed, Handed,
        Pursued, NewDevicePursued, Named
  <2>6. Listed'
    BY <1>0, <1>21
    DEF RemoveLogout, Goto, Undefined, Dangling, Inv, TypeOK, Routed, Listed,
        Walking, ListKeptInUse, Defined
  <2> QED
    BY <2>1, <2>2, <2>3, <2>4, <2>5, <2>6 DEF Inv
<1>22. ASSUME NEW t \in Threads, Erase(t) PROVE Inv'
  <2>1. TypeOK'
    <3>1. ThreadsOK'
      BY <1>22
      DEF Erase, Goto, Undefined, Dangling, EraseHeld, Caller, Inv, TypeOK,
          Routed, ThreadsOK, Names, Present
    <3>2. HandsOK'
      BY <1>22
      DEF Erase, Goto, Undefined, Dangling, EraseHeld, Caller, Inv, TypeOK,
          Routed, HandsOK
    <3> QED
      BY <1>22, <3>1, <3>2
      DEF Erase, Goto, Undefined, Dangling, EraseHeld, Caller, Inv, TypeOK,
          ThreadsOK, HandsOK, Names, Present
  <2>2. Routed'
    BY <1>22
    DEF Erase, Goto, Undefined, Dangling, EraseHeld, Caller, Inv, TypeOK,
        Routed, Names, Present
  <2>3. Handed'
    BY <1>22
    DEF Erase, Goto, Undefined, Dangling, EraseHeld, Caller, Inv, TypeOK,
        Routed, Handed
  <2>4. Unlisted'
    BY <1>22
    DEF Erase, Goto, Undefined, Dangling, EraseHeld, Caller, Inv, TypeOK,
        Routed, Handed, Unlisted, LeftDevicesUnlisted, Present
  <2>5. Pursued'
    BY <1>22
    DEF Erase, Goto, Undefined, Dangling, EraseHeld, Caller, Inv, TypeOK,
        Routed, Handed, Pursued, NewDevicePursued, Named
  <2>6. Listed'
    BY <1>0, <1>22
    DEF Erase, Goto, Undefined, Dangling, EraseHeld, Caller, Inv, TypeOK,
        Routed, Listed, Walking, ListKeptInUse, Defined
  <2> QED
    BY <2>1, <2>2, <2>3, <2>4, <2>5, <2>6 DEF Inv
<1>23. ASSUME NEW t \in Threads, Removed(t) PROVE Inv'
  <2>1. TypeOK'
    <3>1. ThreadsOK'
      BY <1>23
      DEF Removed, Return, Resume, Hand, Begin, Enter, Hold, Inv, TypeOK,
          Routed, ThreadsOK, Names, Present
    <3>2. HandsOK'
      BY <1>23
      DEF Removed, Return, Resume, Hand, Begin, Enter, Hold, Inv, TypeOK,
          Routed, HandsOK
    <3> QED
      BY <1>23, <3>1, <3>2
      DEF Removed, Return, Resume, Hand, Begin, Enter, Hold, Inv, TypeOK,
          ThreadsOK, HandsOK, Names, Present
  <2>2. Routed'
    BY <1>23
    DEF Removed, Return, Resume, Hand, Begin, Enter, Hold, Inv, TypeOK,
        Routed, Names, Present
  <2>3. Handed'
    BY <1>23
    DEF Removed, Return, Resume, Hand, Begin, Enter, Hold, Inv, TypeOK,
        Routed, Handed
  <2>4. Unlisted'
    BY <1>23
    DEF Removed, Return, Resume, Hand, Begin, Enter, Hold, Inv, TypeOK,
        Routed, Handed, Unlisted, LeftDevicesUnlisted, Present
  <2>5. Pursued'
    BY <1>23
    DEF Removed, Return, Resume, Hand, Begin, Enter, Hold, Inv, TypeOK,
        Routed, Handed, Pursued, NewDevicePursued, Named
  <2>6. Listed'
    BY <1>0, <1>23
    DEF Removed, Return, Resume, Hand, Begin, Enter, Hold, Inv, TypeOK,
        Routed, Listed, Walking, ListKeptInUse, Defined
  <2> QED
    BY <2>1, <2>2, <2>3, <2>4, <2>5, <2>6 DEF Inv
<1>24. ASSUME check_register PROVE Inv'
  <2>1. TypeOK'
    <3>1. ThreadsOK'
      BY <1>24
      DEF check_register, Goto, Inv, TypeOK, Routed, ThreadsOK, Names, Present
    <3>2. HandsOK'
      BY <1>24
      DEF check_register, Goto, Inv, TypeOK, Routed, HandsOK
    <3> QED
      BY <1>24, <3>1, <3>2
      DEF check_register, Goto, Inv, TypeOK, ThreadsOK, HandsOK, Names,
          Present
  <2>2. Routed'
    BY <1>24
    DEF check_register, Goto, Inv, TypeOK, Routed, Names, Present
  <2>3. Handed'
    BY <1>24
    DEF check_register, Goto, Inv, TypeOK, Routed, Handed
  <2>4. Unlisted'
    BY <1>24
    DEF check_register, Goto, Inv, TypeOK, Routed, Handed, Unlisted,
        LeftDevicesUnlisted, Present
  <2>5. Pursued'
    BY <1>24
    DEF check_register, Goto, Inv, TypeOK, Routed, Handed, Pursued,
        NewDevicePursued, Named
  <2>6. Listed'
    BY <1>0, <1>24
    DEF check_register, Goto, Inv, TypeOK, Routed, Listed, Walking,
        ListKeptInUse, Defined
  <2> QED
    BY <2>1, <2>2, <2>3, <2>4, <2>5, <2>6 DEF Inv
<1>25. ASSUME InitTorn PROVE Inv'
  <2>1. TypeOK'
    <3>1. ThreadsOK'
      BY <1>25
      DEF InitTorn, Goto, Inv, TypeOK, Routed, ThreadsOK, Names, Present
    <3>2. HandsOK'
      BY <1>25
      DEF InitTorn, Goto, Inv, TypeOK, Routed, HandsOK
    <3> QED
      BY <1>25, <3>1, <3>2
      DEF InitTorn, Goto, Inv, TypeOK, ThreadsOK, HandsOK, Names, Present
  <2>2. Routed'
    BY <1>25
    DEF InitTorn, Goto, Inv, TypeOK, Routed, Names, Present
  <2>3. Handed'
    BY <1>25
    DEF InitTorn, Goto, Inv, TypeOK, Routed, Handed
  <2>4. Unlisted'
    BY <1>25
    DEF InitTorn, Goto, Inv, TypeOK, Routed, Handed, Unlisted,
        LeftDevicesUnlisted, Present
  <2>5. Pursued'
    BY <1>25
    DEF InitTorn, Goto, Inv, TypeOK, Routed, Handed, Pursued,
        NewDevicePursued, Named
  <2>6. Listed'
    BY <1>0, <1>25
    DEF InitTorn, Goto, Inv, TypeOK, Routed, Listed, Walking, ListKeptInUse,
        Defined
  <2> QED
    BY <2>1, <2>2, <2>3, <2>4, <2>5, <2>6 DEF Inv
<1>26. ASSUME NEW d \in Devices, InitAdd(d) PROVE Inv'
  <2>1. TypeOK'
    <3>1. ThreadsOK'
      BY <1>26
      DEF InitAdd, Begin, Enter, Hold, Taken, Inv, TypeOK, Routed, ThreadsOK,
          Names, Present
    <3>2. HandsOK'
      BY <1>26
      DEF InitAdd, Begin, Enter, Hold, Taken, Inv, TypeOK, Routed, HandsOK
    <3> QED
      BY <1>26, <3>1, <3>2
      DEF InitAdd, Begin, Enter, Hold, Taken, Inv, TypeOK, ThreadsOK, HandsOK,
          Names, Present
  <2>2. Routed'
    BY <1>26
    DEF InitAdd, Begin, Enter, Hold, Taken, Inv, TypeOK, Routed, Names,
        Present
  <2>3. Handed'
    BY <1>26
    DEF InitAdd, Begin, Enter, Hold, Taken, Inv, TypeOK, Routed, Handed
  <2>4. Unlisted'
    BY <1>26
    DEF InitAdd, Begin, Enter, Hold, Taken, Inv, TypeOK, Routed, Handed,
        Unlisted, LeftDevicesUnlisted, Present
  <2>5. Pursued'
    BY <1>26
    DEF InitAdd, Begin, Enter, Hold, Taken, Inv, TypeOK, Routed, Handed,
        Pursued, NewDevicePursued, Named
  <2>6. Listed'
    BY <1>0, <1>26
    DEF InitAdd, Begin, Enter, Hold, Taken, Inv, TypeOK, Routed, Listed,
        Walking, ListKeptInUse, Defined
  <2> QED
    BY <2>1, <2>2, <2>3, <2>4, <2>5, <2>6 DEF Inv
<1>27. ASSUME NEW d \in Devices, InitSkip(d) PROVE Inv'
  <2> USE <1>27 DEF InitSkip
  <2>1. CASE Ask(d) /\ UNCHANGED <<threads, history>>
    <3>1. TypeOK'
      BY <2>1 DEF Ask, Taken, Inv, TypeOK, Present
    <3>2. Routed'
      BY <2>1 DEF Inv, Routed
    <3>3. Handed'
      BY <2>1 DEF Inv, Handed
    <3>4. Unlisted'
      BY <2>1
      DEF Ask, Inv, TypeOK, Routed, Unlisted, LeftDevicesUnlisted, Present
    <3>5. Pursued'
      BY <2>1 DEF Inv, Pursued, NewDevicePursued, Named
    <3>6. Listed'
      BY <2>1 DEF Taken, Inv, Listed, Walking, ListKeptInUse
    <3> QED
      BY <3>1, <3>2, <3>3, <3>4, <3>5, <3>6 DEF Inv
  <2>2. CASE status[d] \in Present /\ Interrupt("init", d)
    <3>1. /\ pc["paho"] = "next" /\ task["paho"] = "init" /\ below = "none"
      BY DEF Inv, TypeOK, Routed
    <3>2. /\ UNCHANGED <<config, started, link, events, map, asked>>
          /\ list' \in [Devices -> Present \cup {"absent"}] /\ given' = given
      BY DEF Taken, Inv, TypeOK
    <3> QED
      BY <2>2, <3>1, <3>2, Interrupted DEF Calling
  <2> QED
    BY <2>1, <2>2
<1>28. ASSUME InitDone PROVE Inv'
  <2>1. TypeOK'
    <3>1. ThreadsOK'
      BY <1>28
      DEF InitDone, Return, Resume, Hand, Begin, Enter, Hold, Inv, TypeOK,
          Routed, ThreadsOK, Names, Present
    <3>2. HandsOK'
      BY <1>28
      DEF InitDone, Return, Resume, Hand, Begin, Enter, Hold, Inv, TypeOK,
          Routed, HandsOK
    <3> QED
      BY <1>28, <3>1, <3>2
      DEF InitDone, Return, Resume, Hand, Begin, Enter, Hold, Inv, TypeOK,
          ThreadsOK, HandsOK, Names, Present
  <2>2. Routed'
    BY <1>28
    DEF InitDone, Return, Resume, Hand, Begin, Enter, Hold, Inv, TypeOK,
        Routed, Names, Present
  <2>3. Handed'
    BY <1>28
    DEF InitDone, Return, Resume, Hand, Begin, Enter, Hold, Inv, TypeOK,
        Routed, Handed
  <2>4. Unlisted'
    BY <1>28
    DEF InitDone, Return, Resume, Hand, Begin, Enter, Hold, Inv, TypeOK,
        Routed, Handed, Unlisted, LeftDevicesUnlisted, Present
  <2>5. Pursued'
    BY <1>28
    DEF InitDone, Return, Resume, Hand, Begin, Enter, Hold, Inv, TypeOK,
        Routed, Handed, Pursued, NewDevicePursued, Named
  <2>6. Listed'
    BY <1>0, <1>28
    DEF InitDone, Return, Resume, Hand, Begin, Enter, Hold, Inv, TypeOK,
        Routed, Listed, Walking, ListKeptInUse, Defined
  <2> QED
    BY <2>1, <2>2, <2>3, <2>4, <2>5, <2>6 DEF Inv
<1>29. ASSUME Connect PROVE Inv'
  <2>1. TypeOK'
    <3>1. ThreadsOK'
      BY <1>29
      DEF Connect, Begin, Enter, Hold, Inv, TypeOK, Routed, ThreadsOK, Names,
          Present
    <3>2. HandsOK'
      BY <1>29
      DEF Connect, Begin, Enter, Hold, Inv, TypeOK, Routed, HandsOK
    <3> QED
      BY <1>29, <3>1, <3>2
      DEF Connect, Begin, Enter, Hold, Inv, TypeOK, ThreadsOK, HandsOK, Names,
          Present
  <2>2. Routed'
    BY <1>29
    DEF Connect, Begin, Enter, Hold, Inv, TypeOK, Routed, Names, Present
  <2>3. Handed'
    BY <1>29
    DEF Connect, Begin, Enter, Hold, Inv, TypeOK, Routed, Handed
  <2>4. Unlisted'
    BY <1>29
    DEF Connect, Begin, Enter, Hold, Inv, TypeOK, Routed, Handed, Unlisted,
        LeftDevicesUnlisted, Present
  <2>5. Pursued'
    BY <1>29
    DEF Connect, Begin, Enter, Hold, Inv, TypeOK, Routed, Handed, Pursued,
        NewDevicePursued, Named
  <2>6. Listed'
    BY <1>0, <1>29
    DEF Connect, Begin, Enter, Hold, Inv, TypeOK, Routed, Listed, Walking,
        ListKeptInUse, Defined
  <2> QED
    BY <2>1, <2>2, <2>3, <2>4, <2>5, <2>6 DEF Inv
<1>30. ASSUME ConnectFails PROVE Inv'
  <2>1. TypeOK'
    <3>1. ThreadsOK'
      BY <1>30
      DEF ConnectFails, Inv, TypeOK, Routed, ThreadsOK, Names, Present
    <3>2. HandsOK'
      BY <1>30
      DEF ConnectFails, Inv, TypeOK, Routed, HandsOK
    <3> QED
      BY <1>30, <3>1, <3>2
      DEF ConnectFails, Inv, TypeOK, ThreadsOK, HandsOK, Names, Present
  <2>2. Routed'
    BY <1>30
    DEF ConnectFails, Inv, TypeOK, Routed, Names, Present
  <2>3. Handed'
    BY <1>30
    DEF ConnectFails, Inv, TypeOK, Routed, Handed
  <2>4. Unlisted'
    BY <1>30
    DEF ConnectFails, Inv, TypeOK, Routed, Handed, Unlisted,
        LeftDevicesUnlisted, Present
  <2>5. Pursued'
    BY <1>30
    DEF ConnectFails, Inv, TypeOK, Routed, Handed, Pursued, NewDevicePursued,
        Named
  <2>6. Listed'
    BY <1>0, <1>30
    DEF ConnectFails, Inv, TypeOK, Routed, Listed, Walking, ListKeptInUse,
        Defined
  <2> QED
    BY <2>1, <2>2, <2>3, <2>4, <2>5, <2>6 DEF Inv
<1>31. ASSUME ConnectionLost PROVE Inv'
  <2>1. TypeOK'
    <3>1. ThreadsOK'
      BY <1>31
      DEF ConnectionLost, Inv, TypeOK, Routed, ThreadsOK, Names, Present
    <3>2. HandsOK'
      BY <1>31
      DEF ConnectionLost, Inv, TypeOK, Routed, HandsOK
    <3> QED
      BY <1>31, <3>1, <3>2
      DEF ConnectionLost, Inv, TypeOK, ThreadsOK, HandsOK, Names, Present
  <2>2. Routed'
    BY <1>31
    DEF ConnectionLost, Inv, TypeOK, Routed, Names, Present
  <2>3. Handed'
    BY <1>31
    DEF ConnectionLost, Inv, TypeOK, Routed, Handed
  <2>4. Unlisted'
    BY <1>31
    DEF ConnectionLost, Inv, TypeOK, Routed, Handed, Unlisted,
        LeftDevicesUnlisted, Present
  <2>5. Pursued'
    BY <1>31
    DEF ConnectionLost, Inv, TypeOK, Routed, Handed, Pursued,
        NewDevicePursued, Named
  <2>6. Listed'
    BY <1>0, <1>31
    DEF ConnectionLost, Inv, TypeOK, Routed, Listed, Walking, ListKeptInUse,
        Defined
  <2> QED
    BY <2>1, <2>2, <2>3, <2>4, <2>5, <2>6 DEF Inv
<1>32. ASSUME NEW q \in asked, Accepted(q) PROVE Inv'
  <2>1. TypeOK'
    <3>1. ThreadsOK'
      BY <1>32
      DEF Accepted, Begin, Enter, Hold, Inv, TypeOK, Routed, ThreadsOK, Names,
          Present
    <3>2. HandsOK'
      BY <1>32
      DEF Accepted, Begin, Enter, Hold, Inv, TypeOK, Routed, HandsOK
    <3> QED
      BY <1>32, <3>1, <3>2
      DEF Accepted, Begin, Enter, Hold, Inv, TypeOK, ThreadsOK, HandsOK,
          Names, Present
  <2>2. Routed'
    BY <1>32
    DEF Accepted, Begin, Enter, Hold, Inv, TypeOK, Routed, Names, Present
  <2>3. Handed'
    BY <1>32
    DEF Accepted, Begin, Enter, Hold, Inv, TypeOK, Routed, Handed
  <2>4. Unlisted'
    BY <1>32
    DEF Accepted, Begin, Enter, Hold, Inv, TypeOK, Routed, Handed, Unlisted,
        LeftDevicesUnlisted, Present
  <2>5. Pursued'
    BY <1>32
    DEF Accepted, Begin, Enter, Hold, Inv, TypeOK, Routed, Handed, Pursued,
        NewDevicePursued, Named
  <2>6. Listed'
    BY <1>0, <1>32
    DEF Accepted, Begin, Enter, Hold, Inv, TypeOK, Routed, Listed, Walking,
        ListKeptInUse, Defined
  <2> QED
    BY <2>1, <2>2, <2>3, <2>4, <2>5, <2>6 DEF Inv
<1>33. ASSUME NEW q \in asked, Refused(q) PROVE Inv'
  <2>1. TypeOK'
    <3>1. ThreadsOK'
      BY <1>33
      DEF Refused, Inv, TypeOK, Routed, ThreadsOK, Names, Present
    <3>2. HandsOK'
      BY <1>33
      DEF Refused, Inv, TypeOK, Routed, HandsOK
    <3> QED
      BY <1>33, <3>1, <3>2
      DEF Refused, Inv, TypeOK, ThreadsOK, HandsOK, Names, Present
  <2>2. Routed'
    BY <1>33
    DEF Refused, Inv, TypeOK, Routed, Names, Present
  <2>3. Handed'
    BY <1>33
    DEF Refused, Inv, TypeOK, Routed, Handed
  <2>4. Unlisted'
    BY <1>33
    DEF Refused, Inv, TypeOK, Routed, Handed, Unlisted, LeftDevicesUnlisted,
        Present
  <2>5. Pursued'
    BY <1>33
    DEF Refused, Inv, TypeOK, Routed, Handed, Pursued, NewDevicePursued, Named
  <2>6. Listed'
    BY <1>0, <1>33
    DEF Refused, Inv, TypeOK, Routed, Listed, Walking, ListKeptInUse, Defined
  <2> QED
    BY <2>1, <2>2, <2>3, <2>4, <2>5, <2>6 DEF Inv
<1>34. ASSUME NEW d \in Devices, handle_topo_delete(d) PROVE Inv'
  <2>1. TypeOK'
    <3>1. ThreadsOK'
      BY <1>34
      DEF handle_topo_delete, Begin, Enter, Hold, Inv, TypeOK, Routed,
          ThreadsOK, Names, Present
    <3>2. HandsOK'
      BY <1>34
      DEF handle_topo_delete, Begin, Enter, Hold, Inv, TypeOK, Routed, HandsOK
    <3> QED
      BY <1>34, <3>1, <3>2
      DEF handle_topo_delete, Begin, Enter, Hold, Inv, TypeOK, ThreadsOK,
          HandsOK, Names, Present
  <2>2. Routed'
    BY <1>34
    DEF handle_topo_delete, Begin, Enter, Hold, Inv, TypeOK, Routed, Names,
        Present
  <2>3. Handed'
    BY <1>34
    DEF handle_topo_delete, Begin, Enter, Hold, Inv, TypeOK, Routed, Handed
  <2>4. Unlisted'
    BY <1>34
    DEF handle_topo_delete, Begin, Enter, Hold, Inv, TypeOK, Routed, Handed,
        Unlisted, LeftDevicesUnlisted, Present
  <2>5. Pursued'
    BY <1>34
    DEF handle_topo_delete, Begin, Enter, Hold, Inv, TypeOK, Routed, Handed,
        Pursued, NewDevicePursued, Named
  <2>6. Listed'
    BY <1>0, <1>34
    DEF handle_topo_delete, Begin, Enter, Hold, Inv, TypeOK, Routed, Listed,
        Walking, ListKeptInUse, Defined
  <2> QED
    BY <2>1, <2>2, <2>3, <2>4, <2>5, <2>6 DEF Inv
<1>35. CASE UNCHANGED vars
  BY <1>35
  DEF vars, Inv, TypeOK, Routed, Handed, Unlisted, LeftDevicesUnlisted, Pursued,
      NewDevicePursued, Named, Listed, Walking, ListKeptInUse
<1> QED
  BY <1>1, <1>2, <1>3, <1>4, <1>5, <1>6, <1>7, <1>8, <1>9, <1>10, <1>11,
     <1>12, <1>13, <1>14, <1>15, <1>16, <1>17, <1>18, <1>19, <1>20, <1>21,
     <1>22, <1>23, <1>24, <1>25, <1>26, <1>27, <1>28, <1>29, <1>30, <1>31,
     <1>32, <1>33, <1>34, <1>35
  DEF Next, HostCalls, HostThread, PahoThread, Shared

LEMMA SpecInv == Spec => []Inv
  BY InvInit, InvStep, PTL DEF Spec

(* The map, the threads and their iterators keep their types.               *)
THEOREM SessionTypeCorrect == Spec => []TypeOK
<1>1. Inv => TypeOK
  BY DEF Inv
<1> QED
  BY <1>1, SpecInv, PTL

(* No call reads the node of a device that it erased: only a call of the    *)
(* other thread, or one that interrupts it, erases a node under a thread.   *)
THEOREM NodesKeptInUse == Spec => []DevicesKeptInUse
<1>1. Inv => DevicesKeptInUse
  BY DEF Inv, TypeOK, Handed, DevicesKeptInUse, Threads, Holders
<1> QED
  BY <1>1, SpecInv, PTL

(* rex_start and check_register read the list of getDevList while it is     *)
(* there, if the attempts to connect of earlier starts are over.            *)
THEOREM ListStaysInPlace == Spec => []ListKeptInUse
<1>1. Inv => ListKeptInUse
  BY DEF Inv, Listed
<1> QED
  BY <1>1, SpecInv, PTL

(* A device that left is not in the map, but for those added too late.      *)
THEOREM LeftDevicesGone == Spec => []LeftDevicesUnlisted
<1>1. Inv => LeftDevicesUnlisted
  BY DEF Inv, Unlisted
<1> QED
  BY <1>1, SpecInv, PTL

(* A device that was announced is never forgotten by everybody.             *)
THEOREM AnnouncedPursued == Spec => []NewDevicePursued
<1>1. Inv => NewDevicePursued
  BY DEF Inv, Pursued
<1> QED
  BY <1>1, SpecInv, PTL

=============================================================================
