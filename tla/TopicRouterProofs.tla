--------------------------- MODULE TopicRouterProofs ---------------------------
(***************************************************************************)
(* Proofs about TopicRouter, for any number of hosts, items, topics and    *)
(* connections lost: the list holds each topic once, subscribers touch     *)
(* freed items only if a connection was lost, and a message that is not    *)
(* handled came, or was subscribed, too early.                             *)
(***************************************************************************)
EXTENDS TopicRouter, SequenceTheorems, TLAPS

(* The part of TypeOK that is about the places of the threads. *)
PlacesOK ==
    /\ pc \in [Threads -> {"idle", "subscribe", "library", "lock", "head", "create",
                           "reread", "walk", "append", "unlock", "undefined",
                           "clear", "delete", "store", "arrived"}]
    /\ \A t \in Threads : pc[t] \in {"walk", "append"} => temp[t] # None

(* The places between mtx_lock and mtx_unlock of mqtt_subscribe_ex. *)
AtList == {"head", "create", "reread", "walk", "append", "unlock"}

Asked == {"library", "lock"} \cup AtList

(* A thread at the list holds the mutex and has a topic to enter.           *)
Locking ==
    /\ pc[Paho] = "subscribe" => todo # <<>>
    /\ \A t \in Threads :
          /\ pc[t] \in AtList => mutex = t
          /\ pc[t] \in Asked => filter[t] \in Filters

(* connlost runs for a connection that was lost.  It does not find the list *)
(* empty before it has emptied it, and who did find it empty creates the    *)
(* first item.                                                              *)
Emptied ==
    /\ emptied <= losses
    /\ Emptying => emptied < losses
    /\ pc[Paho] \in {"delete", "store"} => topicList # None
    /\ \A t \in Threads : pc[t] = "create" => topicList = None

(* Unless connlost is emptying the list, its items are live, and the thread *)
(* that walks it has passed no item with its topic.  (The list is empty if  *)
(* connlost has emptied it since the thread began.)                         *)
Sound ==
    ~Emptying =>
        /\ \A i \in Listed : memory[i] = "live"
        /\ \A i, j \in Listed : topic[i] = topic[j] => i = j
        /\ topicList # None =>
              \A t \in Threads : pc[t] \in {"walk", "append"} =>
                  /\ temp[t] \in Listed
                  /\ \A i \in Listed : i \in After(temp[t], next) \/ topic[i] # filter[t]
                  /\ pc[t] = "append" =>
                        next[temp[t]] = None /\ topic[temp[t]] # filter[t]

(* What a thread finds that subscribed when no connlost was yet to end, as  *)
(* long as no connection is lost.                                           *)
Lasting ==
    \A t \in Threads :
        /\ since[t] <= emptied
        /\ since[t] = losses /\ pc[t] = "reread" => topicList # None
        /\ since[t] = losses /\ pc[t] \in {"walk", "append"} => temp[t] \in Listed
        /\ pc[t] = "undefined" => since[t] < losses

(* A thread is about to enter f, or f is listed. *)
Entering(f) ==
    \E t \in Threads :
        /\ filter[t] = f
        /\ \/ pc[t] \in {"lock", "head", "create"}
           \/ pc[t] = "reread" /\ topicList # None
           \/ pc[t] \in {"walk", "append"} /\ temp[t] \in Listed

Known(f) == f \in ListedTopics \/ Entering(f)

(* What the broker holds, and what it has sent a message for, is known,     *)
(* unless it was subscribed too early.                                      *)
Brokered ==
    /\ link # "up" => held = {}
    /\ \A f \in held \ early : Settled /\ Known(f)
    /\ pc[Paho] = "arrived" =>
          \E f \in Filters, n \in Names :
             /\ message = n /\ via = f /\ BrokerMatches(f, n)
             /\ f \in early \/ Known(f)

Inv == TypeOK /\ Locking /\ Emptied /\ Sound /\ Lasting /\ Brokered

-----------------------------------------------------------------------------
(* The list as a structure.                                                 *)

Links == [Items -> Items \cup {None}]

LEMMA AfterSelf ==
    ASSUME NEW nx \in Links, NEW i \in Items
    PROVE  i \in After(i, nx) /\ After(i, nx) \subseteq Items
  BY DEF After

LEMMA AfterClosed ==
    ASSUME NEW nx \in Links, NEW i \in Items, NEW j \in After(i, nx), nx[j] # None
    PROVE  nx[j] \in After(i, nx)
<1>1. nx[j] \in Items
  BY DEF After, Links
<1>2. ASSUME NEW S \in SUBSET Items, i \in S, \A k \in S : nx[k] \in S \cup {None}
      PROVE  nx[j] \in S
  BY <1>2 DEF After
<1> QED
  BY <1>1, <1>2 DEF After

LEMMA AfterLeast ==
    ASSUME NEW nx \in Links, NEW S \in SUBSET Items, NEW i \in S,
           \A k \in S : nx[k] \in S \cup {None}
    PROVE  After(i, nx) \subseteq S
  BY DEF After

(* The items from w on are w and those from the next on. *)
LEMMA AfterNext ==
    ASSUME NEW nx \in Links, NEW w \in Items
    PROVE  After(w, nx) \subseteq {w} \cup (IF nx[w] = None THEN {} ELSE After(nx[w], nx))
<1> DEFINE S == {w} \cup (IF nx[w] = None THEN {} ELSE After(nx[w], nx))
<1>1. nx[w] \in Items \cup {None}
  BY DEF Links
<1>2. CASE nx[w] = None
  <2>1. {w} \in SUBSET Items /\ \A k \in {w} : nx[k] \in {w} \cup {None}
    BY <1>2
  <2>2. After(w, nx) \subseteq {w}
    BY <2>1, AfterLeast
  <2> QED
    BY <2>2
<1>3. CASE nx[w] # None
  <2>1. S = {w} \cup After(nx[w], nx)
    BY <1>3
  <2>2. nx[w] \in After(nx[w], nx) /\ After(nx[w], nx) \subseteq Items
    BY <1>1, <1>3, AfterSelf
  <2>3. \A k \in S : nx[k] \in S \cup {None}
    BY <1>1, <1>3, <2>1, <2>2, AfterClosed
  <2>4. w \in S /\ S \subseteq Items
    BY <2>1, <2>2
  <2> HIDE DEF S
  <2>5. After(w, nx) \subseteq S
    BY <2>3, <2>4, AfterLeast
  <2> QED
    BY <2>5 DEF S
<1> QED
  BY <1>2, <1>3

(* An item that is appended to the last one comes after the others.         *)
LEMMA AfterAppend ==
    ASSUME NEW nx \in Links, NEW h \in Items, NEW w \in After(h, nx), nx[w] = None,
           NEW i \in Items, i \notin After(h, nx),
           NEW ny \in Links, ny[w] = i, ny[i] = None,
           \A k \in Items \ {w, i} : ny[k] = nx[k]
    PROVE  After(h, ny) = After(h, nx) \cup {i}
<1> DEFINE S == After(h, nx) \cup {i}
<1>1. /\ None \notin Items
      /\ w \in Items /\ w # i /\ h \in After(h, nx) /\ S \subseteq Items
  BY AfterSelf, RouterAssumption DEF Links
<1>2. \A k \in S : ny[k] \in S \cup {None}
  BY <1>1, AfterClosed
<1>3. After(h, ny) \subseteq S
  BY <1>1, <1>2, AfterLeast
<1>4. ASSUME NEW T \in SUBSET Items, h \in T, \A k \in T : ny[k] \in T \cup {None}
      PROVE  S \subseteq T
  <2> DEFINE B == T \cap After(h, nx)
  <2>1. \A k \in B : nx[k] \in B \cup {None}
    <3> SUFFICES ASSUME NEW k \in B, nx[k] # None PROVE nx[k] \in B
      OBVIOUS
    <3>1. nx[k] \in After(h, nx)
      BY AfterClosed
    <3>2. k \in Items /\ k # w /\ k # i
      BY <1>1
    <3> QED
      BY <1>1, <1>4, <3>1, <3>2
  <2>2. h \in B /\ B \subseteq Items
    BY <1>1, <1>4
  <2>3. After(h, nx) \subseteq T
    <3> HIDE DEF B
    <3>1. After(h, nx) \subseteq B
      BY <2>1, <2>2, AfterLeast
    <3> QED
      BY <3>1 DEF B
  <2>4. i \in T
    BY <1>1, <1>4, <2>3
  <2> QED
    BY <2>3, <2>4
<1>5. S \subseteq After(h, ny)
  BY <1>1, <1>4 DEF After
<1> QED
  BY <1>3, <1>5

-----------------------------------------------------------------------------
(* The steps. *)
LEMMA TypeStep == Inv /\ [Next]_vars => TypeOK'
<1> SUFFICES ASSUME Inv, [Next]_vars PROVE TypeOK'
  OBVIOUS
<1> USE RouterAssumption DEF broker, instance, items, locals, history
<1>1. ASSUME NEW h \in Hosts, Subscribe(h) PROVE TypeOK'
  <2>1. PlacesOK'
    BY <1>1 DEF Subscribe, Goto, Inv, TypeOK, PlacesOK, Threads
  <2>2. filter' \in [Threads -> Filters \cup {None}]
    BY <1>1 DEF Subscribe, Goto, Inv, TypeOK, Filters
  <2>3. calls' \in [Hosts -> 0..MaxCalls]
    BY <1>1 DEF Subscribe, Goto, Inv, TypeOK
  <2> QED
    BY <1>1, <2>1, <2>2, <2>3 DEF Subscribe, Goto, Inv, TypeOK, PlacesOK
<1>2. ASSUME NEW t \in Threads, Ask(t) PROVE TypeOK'
  <2>1. PlacesOK'
    <3>1. PICK p \in {"lock", "idle", "subscribe"} : Goto(t, p)
      BY <1>2 DEF Ask, Settled, Back
    <3>2. UNCHANGED temp
      BY <1>2 DEF Ask
    <3> QED
      BY <3>1, <3>2 DEF Goto, Inv, TypeOK, PlacesOK
  <2>2. held' \subseteq Filters
    BY <1>2 DEF Ask, Settled, Goto, Back, Inv, TypeOK, Locking, Asked
  <2>3. since' \in [Threads -> 0..MaxLosses]
    BY <1>2 DEF Ask, Settled, Goto, Back, Inv, TypeOK
  <2> QED
    BY <1>2, <2>1, <2>2, <2>3 DEF Ask, Settled, Goto, Back, Inv, TypeOK, PlacesOK
<1>3. ASSUME NEW t \in Threads, Lock(t) PROVE TypeOK'
  BY <1>3
  DEF Lock, Goto, Inv, TypeOK, Locking, Asked, AtList, Threads
<1>4. ASSUME NEW t \in Threads, ReadHead(t) PROVE TypeOK'
  BY <1>4
  DEF ReadHead, Goto, Inv, TypeOK, Locking, Asked, AtList, Threads
<1>5. ASSUME NEW t \in Threads, Create(t) PROVE TypeOK'
  BY <1>5
  DEF Create, Goto, New, Inv, TypeOK, Locking, Asked, AtList, Threads
<1>6. ASSUME NEW t \in Threads, Walk(t) PROVE TypeOK'
  <2>1. pc[t] = "walk" /\ temp[t] \in Items /\ next[temp[t]] \in Items \cup {None}
    BY <1>6 DEF Walk, Goto, Inv, TypeOK
  <2>2. temp' \in [Threads -> Items \cup {None}]
    BY <1>6, <2>1 DEF Walk, Goto, Inv, TypeOK
  <2>3. PICK p \in {"walk", "append", "unlock", "undefined"} : pc' = [pc EXCEPT ![t] = p]
    BY <1>6, <2>1 DEF Walk, Goto, Inv, TypeOK
  <2>4. temp'[t] # None /\ \A u \in Threads \ {t} : temp'[u] = temp[u]
    BY <1>6, <2>1, RouterAssumption DEF Walk, Inv, TypeOK
  <2>5. PlacesOK'
    BY <2>3, <2>4 DEF Inv, TypeOK, PlacesOK
  <2> QED
    BY <1>6, <2>2, <2>5 DEF Walk, Inv, TypeOK, PlacesOK
<1>7. ASSUME NEW t \in Threads, Link(t) PROVE TypeOK'
  <2>1. PlacesOK'
    BY <1>7 DEF Link, Goto, New, Inv, TypeOK, PlacesOK
  <2>2. CASE memory[temp[t]] = "free"
    BY <1>7, <2>1, <2>2 DEF Link, Inv, TypeOK, PlacesOK
  <2>3. CASE memory[temp[t]] # "free"
    <3>1. PICK i \in Items : New(i, filter[t]) /\ next' = [next EXCEPT ![temp[t]] = i, ![i] = None]
      BY <1>7, <2>3 DEF Link
    <3>2. memory' \in [Items -> {"free", "live"}]
      BY <3>1 DEF New, Inv, TypeOK
    <3>3. topic' \in [Items -> Filters \cup {None}]
      BY <3>1 DEF New, Inv, TypeOK
    <3>4. next' \in [Items -> Items \cup {None}]
      BY <3>1 DEF Inv, TypeOK
    <3> QED
      BY <1>7, <2>1, <3>2, <3>3, <3>4 DEF Link, Inv, TypeOK, PlacesOK
  <2> QED
    BY <2>2, <2>3
<1>8. ASSUME NEW t \in Threads, Unlock(t) PROVE TypeOK'
  <2>1. PlacesOK'
    BY <1>8 DEF Unlock, Goto, Back, Inv, TypeOK, PlacesOK, Threads
  <2> QED
    BY <1>8, <2>1 DEF Unlock, Goto, Back, Inv, TypeOK, PlacesOK
<1>9. ASSUME InitTopic PROVE TypeOK'
  <2>1. todo # <<>> /\ todo \in Seq(InitSet) /\ Paho \in Threads
    BY <1>9 DEF InitTopic, Goto, Inv, TypeOK, Locking, Threads
  <2>2. Head(todo) \in InitSet /\ Tail(todo) \in Seq(InitSet)
    BY <2>1, HeadTailProperties
  <2>3. PlacesOK'
    BY <1>9, <2>1 DEF InitTopic, Goto, Inv, TypeOK, PlacesOK
  <2>4. filter' \in [Threads -> Filters \cup {None}]
    BY <1>9, <2>1, <2>2 DEF InitTopic, Goto, Inv, TypeOK, Filters
  <2> QED
    BY <1>9, <2>2, <2>3, <2>4 DEF InitTopic, Goto, Inv, TypeOK, PlacesOK
<1>10. ASSUME onConnect PROVE TypeOK'
  BY <1>10
  DEF onConnect, onConnectDue, Goto, Inv, TypeOK, Locking, Asked, AtList, Threads
<1>11. ASSUME connlost PROVE TypeOK'
  <2>1. PlacesOK'
    BY <1>11 DEF connlost, Goto, Inv, TypeOK, PlacesOK, Threads
  <2>3. told' \in BOOLEAN /\ connected' \in BOOLEAN /\ callback' \in BOOLEAN
    BY <1>11, Zenon DEF connlost, Goto, Inv, TypeOK
  <2>4. UNCHANGED <<held, losses, topicList, mutex, items, filter, temp, todo,
                    message, via, history>>
    BY <1>11 DEF connlost, Goto
  <2> QED
    BY <1>11, <2>1, <2>3, <2>4 DEF connlost, Goto, Inv, TypeOK, PlacesOK
<1>12. ASSUME Clear PROVE TypeOK'
  <2>1. PlacesOK'
    BY <1>12 DEF Clear, EndOfLoss, Connect, Goto, Inv, TypeOK, PlacesOK, Threads
  <2>2. emptied' \in 0..MaxLosses
    BY <1>12 DEF Clear, EndOfLoss, Inv, TypeOK, Emptied, Emptying
  <2>3. told' \in BOOLEAN /\ connected' \in BOOLEAN /\ callback' \in BOOLEAN
    BY <1>12, Zenon DEF Clear, EndOfLoss, Connect, Goto, Inv, TypeOK
  <2>4. UNCHANGED <<held, losses, topicList, mutex, items, filter, temp, todo,
                    message, via, history>>
    BY <1>12 DEF Clear, EndOfLoss, Connect, Goto
  <2> QED
    BY <1>12, <2>1, <2>2, <2>3, <2>4 DEF Clear, EndOfLoss, Connect, Goto, Inv, TypeOK, PlacesOK
<1>13. ASSUME TopicItem_delete PROVE TypeOK'
  <2>1. PlacesOK'
    BY <1>13 DEF TopicItem_delete, Goto, Inv, TypeOK, PlacesOK, Threads
  <2>2. /\ memory' \in [Items -> {"free", "live"}]
        /\ topic' \in [Items -> Filters \cup {None}]
        /\ next' \in [Items -> Items \cup {None}]
    BY <1>13 DEF TopicItem_delete, Goto, Inv, TypeOK
  <2> QED
    BY <1>13, <2>1, <2>2 DEF TopicItem_delete, Goto, Inv, TypeOK, PlacesOK
<1>14. ASSUME StoreList PROVE TypeOK'
  BY <1>14
  DEF StoreList, Goto, Inv, TypeOK, Locking, Asked, AtList, Threads
<1>15. ASSUME messageArrived PROVE TypeOK'
  BY <1>15
  DEF messageArrived, Goto, Inv, TypeOK, Locking, Asked, AtList, Threads
<1>16. ASSUME ConnectSucceeds PROVE TypeOK'
  BY <1>16
  DEF ConnectSucceeds, Goto, Inv, TypeOK, Locking, Asked, AtList, Threads
<1>17. ASSUME ConnectionDrops PROVE TypeOK'
  <2>1. losses + 1 \in 0..MaxLosses
    BY <1>17 DEF ConnectionDrops, Inv, TypeOK
  <2> QED
    BY <1>17, <2>1 DEF ConnectionDrops, Inv, TypeOK
<1>18. ASSUME Publish PROVE TypeOK'
  BY <1>18
  DEF Publish, Inv, TypeOK, Locking, Asked, AtList, Threads
<1>19. ASSUME MarkDisconnected PROVE TypeOK'
  <2>1. PlacesOK'
    BY <1>19 DEF MarkDisconnected, Inv, TypeOK, PlacesOK, Threads
  <2>3. told' \in BOOLEAN /\ connected' \in BOOLEAN /\ callback' \in BOOLEAN
    BY <1>19, Zenon DEF MarkDisconnected, Inv, TypeOK
  <2>4. UNCHANGED <<held, losses, topicList, mutex, items, filter, temp, todo,
                    message, via, history>>
    BY <1>19 DEF MarkDisconnected
  <2> QED
    BY <1>19, <2>1, <2>3, <2>4 DEF MarkDisconnected, Inv, TypeOK, PlacesOK
<1>20. ASSUME Restart PROVE TypeOK'
  <2>1. PlacesOK'
    BY <1>20 DEF Restart, Inv, TypeOK, PlacesOK, Threads
  <2>3. told' \in BOOLEAN /\ connected' \in BOOLEAN /\ callback' \in BOOLEAN
    BY <1>20, Zenon DEF Restart, Inv, TypeOK
  <2>4. UNCHANGED <<held, losses, topicList, mutex, items, filter, temp, todo,
                    message, via, history>>
    BY <1>20 DEF Restart
  <2> QED
    BY <1>20, <2>1, <2>3, <2>4 DEF Restart, Inv, TypeOK, PlacesOK
<1>21. ASSUME NEW f \in Filters, NEW n \in Names, Arrive(f, n) PROVE TypeOK'
  BY <1>21
  DEF Arrive, Goto, Inv, TypeOK, Locking, Asked, AtList, Threads
<1>23. ASSUME NEW t \in Threads, TestHead(t) PROVE TypeOK'
  BY <1>23
  DEF TestHead, Goto, Inv, TypeOK, Locking, Asked, AtList, Threads
<1>24. ASSUME Send PROVE TypeOK'
  BY <1>24
  DEF Send, Inv, TypeOK, Locking, Asked, AtList, Threads
<1>25. ASSUME RestartConnect PROVE TypeOK'
  BY <1>25
  DEF RestartConnect, Connect, Inv, TypeOK, Locking, Asked, AtList, Threads
<1>22. CASE UNCHANGED vars
  BY <1>22 DEF vars, Inv, TypeOK, Locking, Asked, AtList, Threads
<1> QED
  BY <1>1, <1>2, <1>3, <1>4, <1>5, <1>6, <1>7, <1>8, <1>9, <1>10, <1>11,
     <1>12, <1>13, <1>14, <1>15, <1>16, <1>17, <1>18, <1>19, <1>20, <1>21,
     <1>22, <1>23, <1>24, <1>25
  DEF Next, Subscribing, Callbacks, Publisher, Threads

LEMMA LockingStep == Inv /\ [Next]_vars => Locking'
<1> SUFFICES ASSUME Inv, [Next]_vars PROVE Locking'
  OBVIOUS
<1> USE RouterAssumption DEF broker, instance, items, locals, history
<1>1. ASSUME NEW h \in Hosts, Subscribe(h) PROVE Locking'
  BY <1>1
  DEF Subscribe, Goto, Inv, TypeOK, Locking, Asked, AtList, Threads, Filters
<1>2. ASSUME NEW t \in Threads, Ask(t) PROVE Locking'
  <2>1. UNCHANGED <<mutex, filter, todo>>
    BY <1>2 DEF Ask, Settled, Goto, Back
  <2>2. /\ pc[t] = "library"
        /\ \/ pc'[t] \in {"lock", "idle"}
           \/ pc'[t] = "subscribe" /\ t = Paho /\ todo # <<>>
        /\ \A u \in Threads \ {t} : pc'[u] = pc[u]
    BY <1>2 DEF Ask, Settled, Goto, Back, Inv, TypeOK
  <2> QED
    BY <2>1, <2>2 DEF Inv, Threads, Locking, Asked, AtList
<1>3. ASSUME NEW t \in Threads, Lock(t) PROVE Locking'
  BY <1>3
  DEF Lock, Goto, Inv, TypeOK, Locking, Asked, AtList, Threads, Filters
<1>4. ASSUME NEW t \in Threads, ReadHead(t) PROVE Locking'
  BY <1>4
  DEF ReadHead, Goto, Inv, TypeOK, Locking, Asked, AtList, Threads, Filters
<1>5. ASSUME NEW t \in Threads, Create(t) PROVE Locking'
  BY <1>5
  DEF Create, Goto, New, Inv, TypeOK, Locking, Asked, AtList, Threads, Filters
<1>6. ASSUME NEW t \in Threads, Walk(t) PROVE Locking'
  BY <1>6
  DEF Walk, Goto, Inv, TypeOK, Locking, Asked, AtList, Threads, Filters
<1>7. ASSUME NEW t \in Threads, Link(t) PROVE Locking'
  BY <1>7
  DEF Link, Goto, New, Inv, TypeOK, Locking, Asked, AtList, Threads, Filters
<1>8. ASSUME NEW t \in Threads, Unlock(t) PROVE Locking'
  BY <1>8
  DEF Unlock, Goto, Back, Inv, TypeOK, Locking, Asked, AtList, Threads,
      Filters
<1>9. ASSUME InitTopic PROVE Locking'
  <2>1. todo # <<>> /\ todo \in Seq(InitSet) /\ Paho \in Threads
    BY <1>9 DEF InitTopic, Goto, Inv, TypeOK, Locking, Threads
  <2>2. Head(todo) \in Filters
    BY <2>1, HeadTailProperties DEF Filters
  <2>3. filter' = [filter EXCEPT ![Paho] = Head(todo)] /\ todo' = Tail(todo) /\ UNCHANGED mutex
    BY <1>9 DEF InitTopic, Goto
  <2>4. /\ pc'[Paho] \in {"library", "idle", "subscribe"}
        /\ pc'[Paho] = "subscribe" => Tail(todo) # <<>>
        /\ \A u \in Threads \ {Paho} : pc'[u] = pc[u]
    BY <1>9, <2>1 DEF InitTopic, Goto, Inv, TypeOK
  <2> QED
    BY <2>1, <2>2, <2>3, <2>4 DEF Inv, TypeOK, Locking, Asked, AtList
<1>10. ASSUME onConnect PROVE Locking'
  BY <1>10
  DEF onConnect, onConnectDue, Goto, Inv, TypeOK, Locking, Asked, AtList, Threads, Filters
<1>11. ASSUME connlost PROVE Locking'
  BY <1>11
  DEF connlost, Goto, Inv, TypeOK, Locking, Asked, AtList, Threads, Filters
<1>12. ASSUME Clear PROVE Locking'
  BY <1>12
  DEF Clear, EndOfLoss, Connect, Goto, Inv, TypeOK, Locking, Asked, AtList, Threads, Filters
<1>13. ASSUME TopicItem_delete PROVE Locking'
  BY <1>13
  DEF TopicItem_delete, Goto, Inv, TypeOK, Locking, Asked, AtList, Threads,
      Filters
<1>14. ASSUME StoreList PROVE Locking'
  BY <1>14
  DEF StoreList, Goto, Inv, TypeOK, Locking, Asked, AtList, Threads, Filters
<1>15. ASSUME messageArrived PROVE Locking'
  BY <1>15
  DEF messageArrived, Goto, Inv, TypeOK, Locking, Asked, AtList, Threads,
      Filters
<1>16. ASSUME ConnectSucceeds PROVE Locking'
  BY <1>16
  DEF ConnectSucceeds, Goto, Inv, TypeOK, Locking, Asked, AtList, Threads,
      Filters
<1>17. ASSUME ConnectionDrops PROVE Locking'
  BY <1>17
  DEF ConnectionDrops, Inv, TypeOK, Locking, Asked, AtList, Threads, Filters
<1>18. ASSUME Publish PROVE Locking'
  BY <1>18
  DEF Publish, Inv, TypeOK, Locking, Asked, AtList, Threads, Filters
<1>19. ASSUME MarkDisconnected PROVE Locking'
  BY <1>19
  DEF MarkDisconnected, Inv, TypeOK, Locking, Asked, AtList, Threads, Filters
<1>20. ASSUME Restart PROVE Locking'
  BY <1>20
  DEF Restart, Inv, TypeOK, Locking, Asked, AtList, Threads, Filters
<1>21. ASSUME NEW f \in Filters, NEW n \in Names, Arrive(f, n) PROVE Locking'
  BY <1>21
  DEF Arrive, Goto, Inv, TypeOK, Locking, Asked, AtList, Threads, Filters
<1>23. ASSUME NEW t \in Threads, TestHead(t) PROVE Locking'
  BY <1>23
  DEF TestHead, Goto, Inv, TypeOK, Locking, Asked, AtList, Threads, Filters
<1>24. ASSUME Send PROVE Locking'
  BY <1>24
  DEF Send, Inv, TypeOK, Locking, Asked, AtList, Threads, Filters
<1>25. ASSUME RestartConnect PROVE Locking'
  BY <1>25
  DEF RestartConnect, Connect, Inv, TypeOK, Locking, Asked, AtList, Threads, Filters
<1>22. CASE UNCHANGED vars
  BY <1>22 DEF vars, Inv, TypeOK, Locking, Asked, AtList, Threads, Filters
<1> QED
  BY <1>1, <1>2, <1>3, <1>4, <1>5, <1>6, <1>7, <1>8, <1>9, <1>10, <1>11,
     <1>12, <1>13, <1>14, <1>15, <1>16, <1>17, <1>18, <1>19, <1>20, <1>21,
     <1>22, <1>23, <1>24, <1>25
  DEF Next, Subscribing, Callbacks, Publisher, Threads

LEMMA EmptiedStep == Inv /\ [Next]_vars => Emptied'
<1> SUFFICES ASSUME Inv, [Next]_vars PROVE Emptied'
  OBVIOUS
<1> USE RouterAssumption DEF broker, instance, items, locals, history
<1>1. ASSUME NEW h \in Hosts, Subscribe(h) PROVE Emptied'
  BY <1>1
  DEF Subscribe, Goto, Inv, TypeOK, Locking, Emptied, Emptying, AtList,
      Threads
<1>2. ASSUME NEW t \in Threads, Ask(t) PROVE Emptied'
  BY <1>2
  DEF Ask, Settled, Goto, Back, Inv, TypeOK, Locking, Emptied, Emptying, AtList,
      Threads
<1>3. ASSUME NEW t \in Threads, Lock(t) PROVE Emptied'
  BY <1>3
  DEF Lock, Goto, Inv, TypeOK, Locking, Emptied, Emptying, AtList, Threads
<1>4. ASSUME NEW t \in Threads, ReadHead(t) PROVE Emptied'
  BY <1>4
  DEF ReadHead, Goto, Inv, TypeOK, Locking, Emptied, Emptying, AtList, Threads
<1>5. ASSUME NEW t \in Threads, Create(t) PROVE Emptied'
  BY <1>5
  DEF Create, Goto, New, Inv, TypeOK, Locking, Emptied, Emptying, AtList,
      Threads
<1>6. ASSUME NEW t \in Threads, Walk(t) PROVE Emptied'
  BY <1>6
  DEF Walk, Goto, Inv, TypeOK, Locking, Emptied, Emptying, AtList, Threads
<1>7. ASSUME NEW t \in Threads, Link(t) PROVE Emptied'
  <2>1. UNCHANGED <<losses, emptied, topicList>>
    BY <1>7 DEF Link
  <2>2. pc[t] = "append" /\ pc'[t] \in {"undefined", "unlock"} /\ \A u \in Threads \ {t} : pc'[u] = pc[u]
    BY <1>7 DEF Link, Goto, New, Inv, TypeOK
  <2> QED
    BY <2>1, <2>2 DEF Inv, Emptied, Emptying, Threads
<1>8. ASSUME NEW t \in Threads, Unlock(t) PROVE Emptied'
  BY <1>8
  DEF Unlock, Goto, Back, Inv, TypeOK, Locking, Emptied, Emptying, AtList,
      Threads
<1>9. ASSUME InitTopic PROVE Emptied'
  BY <1>9
  DEF InitTopic, Goto, Inv, TypeOK, Locking, Emptied, Emptying, AtList,
      Threads
<1>10. ASSUME onConnect PROVE Emptied'
  BY <1>10
  DEF onConnect, onConnectDue, Goto, Inv, TypeOK, Locking, Emptied, Emptying, AtList,
      Threads
<1>11. ASSUME connlost PROVE Emptied'
  BY <1>11
  DEF connlost, Goto, Inv, TypeOK, Locking, Emptied, Emptying, AtList, Threads
<1>12. ASSUME Clear PROVE Emptied'
  BY <1>12
  DEF Clear, EndOfLoss, Connect, Goto, Inv, TypeOK, Locking, Emptied, Emptying, AtList, Threads
<1>13. ASSUME TopicItem_delete PROVE Emptied'
  BY <1>13
  DEF TopicItem_delete, Goto, Inv, TypeOK, Locking, Emptied, Emptying, AtList,
      Threads
<1>14. ASSUME StoreList PROVE Emptied'
  BY <1>14
  DEF StoreList, Goto, Inv, TypeOK, Locking, Emptied, Emptying, AtList,
      Threads
<1>15. ASSUME messageArrived PROVE Emptied'
  BY <1>15
  DEF messageArrived, Goto, Inv, TypeOK, Locking, Emptied, Emptying, AtList,
      Threads
<1>16. ASSUME ConnectSucceeds PROVE Emptied'
  BY <1>16
  DEF ConnectSucceeds, Goto, Inv, TypeOK, Locking, Emptied, Emptying, AtList,
      Threads
<1>17. ASSUME ConnectionDrops PROVE Emptied'
  BY <1>17
  DEF ConnectionDrops, Inv, TypeOK, Locking, Emptied, Emptying, AtList,
      Threads
<1>18. ASSUME Publish PROVE Emptied'
  BY <1>18
  DEF Publish, Inv, TypeOK, Locking, Emptied, Emptying, AtList, Threads
<1>19. ASSUME MarkDisconnected PROVE Emptied'
  BY <1>19
  DEF MarkDisconnected, Inv, TypeOK, Locking, Emptied, Emptying, AtList,
      Threads
<1>20. ASSUME Restart PROVE Emptied'
  BY <1>20
  DEF Restart, Inv, TypeOK, Locking, Emptied, Emptying, AtList, Threads
<1>21. ASSUME NEW f \in Filters, NEW n \in Names, Arrive(f, n) PROVE Emptied'
  BY <1>21
  DEF Arrive, Goto, Inv, TypeOK, Locking, Emptied, Emptying, AtList, Threads
<1>23. ASSUME NEW t \in Threads, TestHead(t) PROVE Emptied'
  BY <1>23
  DEF TestHead, Goto, Inv, TypeOK, Locking, Emptied, Emptying, AtList, Threads
<1>24. ASSUME Send PROVE Emptied'
  BY <1>24
  DEF Send, Inv, TypeOK, Locking, Emptied, Emptying, AtList, Threads
<1>25. ASSUME RestartConnect PROVE Emptied'
  BY <1>25
  DEF RestartConnect, Connect, Inv, TypeOK, Locking, Emptied, Emptying, AtList, Threads
<1>22. CASE UNCHANGED vars
  BY <1>22 DEF vars, Inv, TypeOK, Locking, Emptied, Emptying, AtList, Threads
<1> QED
  BY <1>1, <1>2, <1>3, <1>4, <1>5, <1>6, <1>7, <1>8, <1>9, <1>10, <1>11,
     <1>12, <1>13, <1>14, <1>15, <1>16, <1>17, <1>18, <1>19, <1>20, <1>21,
     <1>22, <1>23, <1>24, <1>25
  DEF Next, Subscribing, Callbacks, Publisher, Threads

-----------------------------------------------------------------------------
(* The list, step by step. *)

LEMMA ListFacts ==
    ASSUME TypeOK
    PROVE  /\ next \in Links
           /\ Listed \subseteq Items
           /\ topicList # None => topicList \in Listed
           /\ \A j \in Listed : next[j] # None => next[j] \in Listed
<1>1. next \in Links
  BY DEF TypeOK, Links
<1>2. CASE topicList = None
  BY <1>1, <1>2 DEF Listed
<1>3. CASE topicList # None
  BY <1>1, <1>3, AfterSelf, AfterClosed DEF TypeOK, Listed
<1> QED
  BY <1>2, <1>3

LEMMA OneHolder ==
    ASSUME Inv, NEW t \in Threads, NEW u \in Threads, pc[t] \in AtList, pc[u] \in AtList
    PROVE  t = u
  BY DEF Inv, Locking

(* A step that leaves the list and who walks it alone; connlost may find it *)
(* empty, and end.                                                          *)
LEMMA SoundQuiet ==
    ASSUME Inv, UNCHANGED <<topicList, next, memory, topic>>,
           ~Emptying' => ~Emptying \/ topicList = None,
           \A t \in Threads : pc'[t] \in {"walk", "append"} =>
               pc'[t] = pc[t] /\ temp'[t] = temp[t] /\ filter'[t] = filter[t]
    PROVE  Sound'
<1>1. Listed' = Listed
  BY DEF Listed
<1>2. topicList = None => Listed = {}
  BY DEF Listed
<1> QED
  BY <1>1, <1>2 DEF Inv, Sound

LEMMA SoundStep == Inv /\ [Next]_vars => Sound'
<1> SUFFICES ASSUME Inv, [Next]_vars PROVE Sound'
  OBVIOUS
<1> USE RouterAssumption DEF broker, instance, items, locals, history
<1>1. ASSUME \/ \E h \in Hosts : Subscribe(h)
             \/ \E t \in Threads : Ask(t) \/ Lock(t) \/ TestHead(t) \/ Unlock(t)
             \/ InitTopic \/ onConnect \/ connlost \/ Clear \/ messageArrived
             \/ ConnectSucceeds \/ ConnectionDrops \/ Publish
             \/ Send \/ MarkDisconnected \/ Restart \/ RestartConnect
             \/ \E f \in Filters, n \in Names : Arrive(f, n)
             \/ UNCHANGED vars
      PROVE  Sound'
  <2>1. UNCHANGED <<topicList, next, memory, topic>>
    BY <1>1 DEF Subscribe, Ask, Lock, TestHead, Unlock, InitTopic, onConnect, connlost, Clear,
                messageArrived, ConnectSucceeds, ConnectionDrops, Publish,
                Send, MarkDisconnected, Restart,
                RestartConnect, Arrive, vars
  <2>2. ~Emptying' => ~Emptying \/ topicList = None
    <3>1. CASE \/ \E h \in Hosts : Subscribe(h)
               \/ \E t \in Threads : Ask(t) \/ Lock(t) \/ TestHead(t) \/ Unlock(t)
               \/ UNCHANGED vars
      BY <3>1 DEF Subscribe, Ask, Lock, TestHead, Unlock, vars, Goto, Back, Emptying,
                  Inv, TypeOK, Threads
    <3>2. CASE InitTopic \/ onConnect \/ connlost \/ Clear \/ messageArrived
      BY <3>2 DEF InitTopic, onConnect, onConnectDue, connlost, Clear, messageArrived,
                  Goto, Emptying, Inv, TypeOK, Threads
    <3>3. CASE \/ ConnectSucceeds \/ ConnectionDrops \/ Publish \/ Send
               \/ MarkDisconnected \/ Restart \/ RestartConnect
               \/ \E f \in Filters, n \in Names : Arrive(f, n)
      BY <3>3 DEF ConnectSucceeds, ConnectionDrops, Publish, Send, MarkDisconnected,
                  Restart, RestartConnect, Arrive, Goto, Emptying, Inv, TypeOK
    <3> QED
      BY <1>1, <3>1, <3>2, <3>3
  <2>3. ASSUME NEW t \in Threads, pc'[t] \in {"walk", "append"}
        PROVE  pc'[t] = pc[t] /\ temp'[t] = temp[t] /\ filter'[t] = filter[t]
    <3>1. ASSUME NEW h \in Hosts, Subscribe(h)
          PROVE  pc'[t] = pc[t] /\ temp'[t] = temp[t] /\ filter'[t] = filter[t]
      BY <2>3, <3>1 DEF Subscribe, Goto, Inv, TypeOK, Threads
    <3>2. ASSUME NEW u \in Threads, Lock(u) \/ TestHead(u) \/ Ask(u) \/ Unlock(u)
          PROVE  pc'[t] = pc[t] /\ temp'[t] = temp[t] /\ filter'[t] = filter[t]
      <4>1. pc'[u] \notin {"walk", "append"} /\ \A v \in Threads \ {u} : pc'[v] = pc[v]
        BY <3>2 DEF Lock, TestHead, Ask, Unlock, Goto, Back, Inv, TypeOK
      <4>2. \A v \in Threads \ {u} : temp'[v] = temp[v] /\ filter'[v] = filter[v]
        BY <3>2 DEF Lock, TestHead, Ask, Unlock, Inv, TypeOK
      <4> QED
        BY <2>3, <4>1, <4>2
    <3>5. CASE UNCHANGED vars
      BY <3>5 DEF vars
    <3>3. CASE InitTopic \/ onConnect \/ connlost \/ Clear \/ messageArrived
      BY <2>3, <3>3 DEF InitTopic, onConnect, connlost, Clear, EndOfLoss,
                        messageArrived, Goto, Inv, TypeOK
    <3>4. CASE \/ ConnectSucceeds \/ ConnectionDrops \/ Publish \/ Send
               \/ MarkDisconnected \/ Restart \/ RestartConnect
               \/ \E f \in Filters, n \in Names : Arrive(f, n)
      BY <2>3, <3>4 DEF ConnectSucceeds, ConnectionDrops, Publish, Send,
                        MarkDisconnected, Restart, RestartConnect, Arrive, Goto,
                        Inv, TypeOK
    <3> QED
      BY <1>1, <3>1, <3>2, <3>3, <3>4, <3>5
  <2> QED
    BY <2>1, <2>2, <2>3, SoundQuiet
<1>2. ASSUME TopicItem_delete \/ StoreList PROVE Sound'
  <2>1. Emptying'
    BY <1>2 DEF TopicItem_delete, StoreList, Goto, Emptying, Inv, TypeOK, Threads
  <2> QED
    BY <2>1 DEF Sound
<1>3. ASSUME NEW t \in Threads, ReadHead(t) PROVE Sound'
  <2>1. UNCHANGED <<topicList, next, memory, topic, filter>> /\ Listed' = Listed
    BY <1>3 DEF ReadHead, Listed
  <2>2. /\ pc[t] = "reread" /\ temp'[t] = topicList
        /\ pc'[t] = IF topicList = None THEN "undefined" ELSE "walk"
        /\ \A u \in Threads \ {t} : pc'[u] = pc[u]
    BY <1>3 DEF ReadHead, Goto, Inv, TypeOK
  <2>3. \A u \in Threads : pc'[u] \in {"walk", "append"} => u = t
    BY <2>2, OneHolder DEF AtList
  <2>4. Emptying' => Emptying
    BY <2>2 DEF Emptying, Threads
  <2>5. Emptying => Emptying'
    BY <2>2 DEF Emptying, Threads
  <2>6. topicList # None => topicList \in Listed /\ Listed = After(topicList, next)
    BY ListFacts DEF Inv, Listed
  <2> QED
    BY <2>1, <2>2, <2>3, <2>5, <2>6 DEF Inv, Sound
<1>4. ASSUME NEW t \in Threads, Create(t) PROVE Sound'
  <2>1. PICK i \in Items : /\ New(i, filter[t])
                         /\ next' = [next EXCEPT ![i] = None]
                         /\ topicList' = i
    BY <1>4 DEF Create
  <2>2. next' \in Links /\ next'[i] = None /\ memory'[i] = "live"
    BY <2>1 DEF New, Inv, TypeOK, Links
  <2>3. Listed' \subseteq {i}
    <3>1. After(i, next') \subseteq {i}
      BY <2>2, AfterNext
    <3> QED
      BY <2>1, <3>1 DEF Listed
  <2>4. pc[t] = "create" /\ pc'[t] = "unlock" /\ \A u \in Threads \ {t} : pc'[u] = pc[u]
    BY <1>4 DEF Create, Goto, Inv, TypeOK
  <2>5. \A u \in Threads : pc'[u] \notin {"walk", "append"}
    BY <2>4, OneHolder DEF AtList
  <2> QED
    BY <2>2, <2>3, <2>5 DEF Sound
<1>5. ASSUME NEW t \in Threads, Walk(t) PROVE Sound'
  <2>1. UNCHANGED <<topicList, next, memory, topic, filter>> /\ Listed' = Listed
    BY <1>5 DEF Walk, Listed
  <2>2. pc[t] = "walk" /\ temp[t] \in Items /\ \A u \in Threads \ {t} : pc'[u] = pc[u]
    BY <1>5 DEF Walk, Goto, Inv, TypeOK
  <2>3. \A u \in Threads : pc'[u] \in {"walk", "append"} => u = t
    BY <2>2, OneHolder DEF AtList
  <2>4. pc'[t] \in {"walk", "append", "unlock", "undefined"}
    BY <1>5, <2>2 DEF Walk, Goto, Inv, TypeOK
  <2>5. Emptying => Emptying'
    BY <2>2 DEF Emptying, Threads
  <2>6. PICK w \in Items : w = temp[t]
    BY <2>2
  <2>7. ASSUME ~Emptying, topicList # None, pc'[t] \in {"walk", "append"}
        PROVE  /\ temp'[t] \in Listed
               /\ \A i \in Listed : i \in After(temp'[t], next) \/ topic[i] # filter[t]
               /\ pc'[t] = "append" => next[temp'[t]] = None /\ topic[temp'[t]] # filter[t]
    <3>1. w \in Listed /\ \A i \in Listed : i \in After(w, next) \/ topic[i] # filter[t]
      BY <2>2, <2>6, <2>7 DEF Inv, Sound
    <3>2. CASE topic[w] # filter[t] /\ next[w] = None /\ temp'[t] = w
      BY <3>1, <3>2
    <3>3. CASE topic[w] # filter[t] /\ next[w] # None /\ temp'[t] = next[w] /\ pc'[t] = "walk"
      <4>1. next[w] \in Listed
        BY <3>1, <3>3, ListFacts DEF Inv
      <4>2. After(w, next) \subseteq {w} \cup After(next[w], next)
        BY <3>3, AfterNext, ListFacts DEF Inv
      <4> QED
        BY <3>1, <3>3, <4>1, <4>2
    <3> QED
      BY <1>5, <2>2, <2>6, <2>7, <3>2, <3>3 DEF Walk, Goto, Inv, TypeOK
  <2> QED
    BY <2>1, <2>3, <2>5, <2>7 DEF Inv, Sound
<1>6. ASSUME NEW t \in Threads, Link(t) PROVE Sound'
  <2>1. /\ pc[t] = "append" /\ pc'[t] \in {"unlock", "undefined"} /\ topicList' = topicList
        /\ \A u \in Threads \ {t} : pc'[u] = pc[u]
    BY <1>6 DEF Link, Goto, Inv, TypeOK
  <2>2. \A u \in Threads : pc'[u] \notin {"walk", "append"}
    BY <2>1, OneHolder DEF AtList
  <2>3. Emptying => Emptying'
    BY <2>1 DEF Emptying, Threads
  <2>4. CASE memory[temp[t]] = "free"
    <3>1. UNCHANGED <<next, memory, topic>> /\ Listed' = Listed
      BY <1>6, <2>4 DEF Link, Listed
    <3> QED
      BY <2>1, <2>2, <2>3, <3>1 DEF Inv, Sound
  <2>5. CASE topicList = None
    <3>1. Listed' = {}
      BY <2>1, <2>5 DEF Listed
    <3> QED
      BY <2>2, <3>1 DEF Sound
  <2>6. CASE memory[temp[t]] # "free" /\ topicList # None /\ ~Emptying
    <3>1. PICK w \in Items : w = temp[t]
      BY <2>1, RouterAssumption DEF Inv, TypeOK
    <3>2. PICK i \in Items : /\ New(i, filter[t])
                           /\ next' = [next EXCEPT ![w] = i, ![i] = None]
      BY <1>6, <2>6, <3>1 DEF Link
    <3>3. /\ w \in Listed /\ next[w] = None /\ topic[w] # filter[t]
          /\ \A j \in Listed : j \in After(w, next) \/ topic[j] # filter[t]
      BY <2>1, <2>6, <3>1 DEF Inv, Sound
    <3>4. \A j \in Listed : topic[j] # filter[t]
      BY <3>3, AfterNext, ListFacts DEF Inv
    <3>5. i \notin Listed
      BY <2>6, <3>2 DEF New, Inv, Sound
    <3>6. Listed' = Listed \cup {i}
      <4>1. PICK h \in Items : h = topicList
        BY <2>6 DEF Inv, TypeOK
      <4>2. Listed = After(h, next) /\ Listed' = After(h, next') /\ next \in Links
        BY <2>1, <2>6, <4>1, ListFacts DEF Inv, Listed
      <4>3. w \in After(h, next) /\ i \notin After(h, next) /\ next[w] = None
        BY <3>3, <3>5, <4>2
      <4>4. /\ next' \in Links /\ next'[w] = i /\ next'[i] = None
            /\ \A k \in Items \ {w, i} : next'[k] = next[k]
        BY <3>2, <3>3, <3>5, <4>2 DEF Links
      <4>5. After(h, next') = After(h, next) \cup {i}
        BY <4>2, <4>3, <4>4, AfterAppend
      <4> QED
        BY <4>2, <4>5
    <3>7. /\ memory'[i] = "live" /\ topic'[i] = filter[t]
          /\ \A j \in Listed : memory'[j] = memory[j] /\ topic'[j] = topic[j]
      BY <3>2, <3>5, ListFacts DEF New, Inv, TypeOK
    <3> QED
      BY <2>2, <2>6, <3>4, <3>6, <3>7 DEF Inv, Sound
  <2> QED
    BY <2>3, <2>4, <2>5, <2>6 DEF Sound
<1> QED
  BY <1>1, <1>2, <1>3, <1>4, <1>5, <1>6
  DEF Next, Subscribing, Callbacks, Publisher, Threads

(* What a subscriber that runs on the connection there is relies on.        *)
LEMMA LastingStep == Inv /\ [Next]_vars => Lasting'
<1> SUFFICES ASSUME Inv, [Next]_vars PROVE Lasting'
  OBVIOUS
<1> USE RouterAssumption DEF broker, instance, items, locals, history
<1>n. /\ losses \in Nat /\ emptied \in Nat /\ emptied <= losses
      /\ \A t \in Threads : since[t] \in Nat /\ since[t] <= emptied
  BY DEF Inv, TypeOK, Emptied, Lasting
<1>1. ASSUME \/ \E h \in Hosts : Subscribe(h)
             \/ \E t \in Threads : Lock(t) \/ TestHead(t) \/ Unlock(t)
             \/ InitTopic \/ onConnect \/ connlost \/ Clear \/ messageArrived
             \/ ConnectSucceeds \/ Publish \/ Send \/ MarkDisconnected
             \/ Restart \/ RestartConnect
             \/ \E f \in Filters, n \in Names : Arrive(f, n)
             \/ UNCHANGED vars
      PROVE  Lasting'
  <2>1. UNCHANGED <<topicList, next, since, losses>> /\ Listed' = Listed
    BY <1>1 DEF Subscribe, Lock, TestHead, Unlock, InitTopic, onConnect, connlost,
                Clear, messageArrived, ConnectSucceeds, Publish, Send,
                MarkDisconnected, Restart, RestartConnect, Arrive, vars, Listed
  <2>2. emptied' \in {emptied, emptied + 1}
    BY <1>1 DEF Subscribe, Lock, TestHead, Unlock, InitTopic, onConnect, connlost,
                Clear, EndOfLoss, messageArrived, ConnectSucceeds, Publish, Send,
                MarkDisconnected, Restart, RestartConnect, Arrive, vars
  <2>3. ASSUME NEW t \in Threads
        PROVE  \/ pc'[t] = pc[t] /\ temp'[t] = temp[t]
               \/ pc[t] = "head" /\ pc'[t] = "reread" /\ topicList # None
               \/ pc'[t] \in {"idle", "subscribe", "library", "head", "create",
                             "clear", "delete", "arrived"}
    <3>1. CASE \/ \E h \in Hosts : Subscribe(h)
               \/ \E u \in Threads : Lock(u) \/ TestHead(u)
               \/ InitTopic \/ UNCHANGED vars
      BY <3>1 DEF Subscribe, Lock, TestHead, InitTopic, vars, Goto, Inv, TypeOK,
                  Threads
    <3>2. ASSUME NEW u \in Threads, Unlock(u)
          PROVE  \/ pc'[t] = pc[t] /\ temp'[t] = temp[t]
                 \/ pc'[t] \in {"idle", "subscribe"}
      BY <3>2 DEF Unlock, Goto, Back, Inv, TypeOK
    <3>3. CASE onConnect \/ connlost \/ Clear \/ messageArrived
      BY <3>3 DEF onConnect, connlost, Clear, EndOfLoss, messageArrived, Goto,
                  Inv, TypeOK, Threads
    <3>4. CASE \/ ConnectSucceeds \/ Publish \/ Send \/ MarkDisconnected
               \/ Restart \/ RestartConnect
               \/ \E f \in Filters, n \in Names : Arrive(f, n)
      BY <3>4 DEF ConnectSucceeds, Publish, Send, MarkDisconnected, Restart,
                  RestartConnect, Arrive, Goto, Inv, TypeOK, Threads
    <3> QED
      BY <1>1, <3>1, <3>2, <3>3, <3>4
  <2>4. \A t \in Threads : since'[t] <= emptied'
    BY <1>n, <2>1, <2>2
  <2> QED
    BY <2>1, <2>3, <2>4 DEF Inv, Lasting
<1>2. ASSUME ConnectionDrops PROVE Lasting'
  <2>1. losses' = losses + 1 /\ UNCHANGED <<pc, since, emptied>>
    BY <1>2 DEF ConnectionDrops
  <2>2. \A t \in Threads : since'[t] < losses' /\ since'[t] # losses'
    BY <1>n, <2>1
  <2> QED
    BY <1>n, <2>1, <2>2 DEF Lasting
<1>3. ASSUME TopicItem_delete \/ StoreList PROVE Lasting'
  <2>1. emptied < losses /\ UNCHANGED <<emptied, since, losses>>
    BY <1>3 DEF TopicItem_delete, StoreList, Inv, Emptied, Emptying
  <2>2. /\ \A t \in Threads \ {Paho} : pc'[t] = pc[t]
        /\ pc'[Paho] \in {"clear", "store"}
    BY <1>3 DEF TopicItem_delete, StoreList, Goto, Inv, TypeOK, Threads
  <2>3. \A t \in Threads : since'[t] < losses' /\ since'[t] # losses'
    BY <1>n, <2>1
  <2> QED
    BY <1>n, <2>1, <2>3 DEF Lasting
<1>4. ASSUME NEW t \in Threads, Ask(t) PROVE Lasting'
  <2>1. UNCHANGED <<topicList, next, temp, losses, emptied>> /\ Listed' = Listed
    BY <1>4 DEF Ask, Listed
  <2>2. /\ \/ since'[t] = emptied /\ pc'[t] = "lock"
           \/ since'[t] = since[t] /\ pc'[t] \in {"idle", "subscribe"}
        /\ \A u \in Threads \ {t} : pc'[u] = pc[u] /\ since'[u] = since[u]
    BY <1>4 DEF Ask, Goto, Back, Inv, TypeOK
  <2>3. \A u \in Threads : since'[u] <= emptied'
    BY <1>n, <2>1, <2>2
  <2> QED
    BY <2>1, <2>2, <2>3 DEF Inv, Lasting
<1>5. ASSUME NEW t \in Threads, ReadHead(t) PROVE Lasting'
  <2>1. /\ UNCHANGED <<emptied, topicList, next, losses, since>>
        /\ Listed' = Listed
    BY <1>5 DEF ReadHead, Listed
  <2>2. /\ pc[t] = "reread" /\ temp'[t] = topicList
        /\ pc'[t] = IF topicList = None THEN "undefined" ELSE "walk"
        /\ \A u \in Threads \ {t} : pc'[u] = pc[u] /\ temp'[u] = temp[u]
    BY <1>5 DEF ReadHead, Goto, Inv, TypeOK
  <2>3. topicList # None => topicList \in Listed
    BY ListFacts DEF Inv
  <2>4. since[t] = losses => topicList # None
    BY <2>2 DEF Inv, Lasting
  <2>5. pc'[t] = "undefined" => since[t] < losses
    BY <1>n, <2>2, <2>4
  <2> QED
    BY <2>1, <2>2, <2>3, <2>5 DEF Inv, Lasting
<1>6. ASSUME NEW t \in Threads, Create(t) \/ Link(t) PROVE Lasting'
  <2>1. UNCHANGED <<emptied, losses, since, temp>>
    BY <1>6 DEF Create, Link, locals
  <2>2. /\ pc[t] \in {"create", "append"} /\ pc'[t] \in {"unlock", "undefined"}
        /\ pc'[t] = "undefined" => pc[t] = "append" /\ memory[temp[t]] = "free"
        /\ \A u \in Threads \ {t} : pc'[u] = pc[u]
    BY <1>6 DEF Create, Link, Goto, Inv, TypeOK
  <2>3. \A u \in Threads : pc'[u] \notin {"reread", "walk", "append"}
    BY <2>2, OneHolder DEF AtList
  <2>4. pc'[t] = "undefined" => since[t] # losses
    <3> SUFFICES ASSUME pc'[t] = "undefined", since[t] = losses PROVE FALSE
      OBVIOUS
    <3>1. temp[t] \in Listed /\ ~Emptying
      BY <1>n, <2>2 DEF Inv, Emptied, Lasting
    <3>2. memory[temp[t]] = "live"
      BY <3>1 DEF Inv, Sound
    <3> QED
      BY <2>2, <3>2
  <2>6. pc'[t] = "undefined" => since[t] < losses
    BY <1>n, <2>4
  <2> QED
    BY <2>1, <2>2, <2>3, <2>6 DEF Inv, Lasting
<1>7. ASSUME NEW t \in Threads, Walk(t) PROVE Lasting'
  <2>1. /\ UNCHANGED <<emptied, topicList, next, losses, since, memory>>
        /\ Listed' = Listed
    BY <1>7 DEF Walk, Listed
  <2>2. /\ pc[t] = "walk" /\ temp[t] \in Items
        /\ \A u \in Threads \ {t} : pc'[u] = pc[u] /\ temp'[u] = temp[u]
    BY <1>7 DEF Walk, Goto, Inv, TypeOK
  <2>3. \/ pc'[t] = "undefined" /\ memory[temp[t]] = "free"
        \/ pc'[t] = "unlock"
        \/ pc'[t] = "append" /\ temp'[t] = temp[t]
        \/ pc'[t] = "walk" /\ temp'[t] = next[temp[t]] /\ next[temp[t]] # None
    BY <1>7 DEF Walk, Goto, Inv, TypeOK
  <2>4. ASSUME since[t] = losses
        PROVE  /\ temp[t] \in Listed /\ memory[temp[t]] = "live"
               /\ next[temp[t]] # None => next[temp[t]] \in Listed
    <3>1. temp[t] \in Listed /\ ~Emptying
      BY <1>n, <2>2, <2>4 DEF Inv, Emptied, Lasting
    <3>2. memory[temp[t]] = "live"
      BY <3>1 DEF Inv, Sound
    <3> QED
      BY <3>1, <3>2, ListFacts DEF Inv
  <2>5. pc'[t] = "undefined" => since[t] < losses
    BY <1>n, <2>3, <2>4
  <2>6. since[t] = losses /\ pc'[t] \in {"walk", "append"} => temp'[t] \in Listed
    BY <2>3, <2>4
  <2>7. pc'[t] # "reread"
    BY <2>3
  <2> QED
    BY <1>n, <2>1, <2>2, <2>5, <2>6, <2>7 DEF Inv, Lasting
<1> QED
  BY <1>1, <1>2, <1>3, <1>4, <1>5, <1>6, <1>7
  DEF Next, Subscribing, Callbacks, Publisher, Threads

-----------------------------------------------------------------------------
(* Unless connlost empties the list, what is known stays known: a thread    *)
(* that enters a topic goes on until the topic is listed.                   *)
LEMMA KnownQuiet ==
    ASSUME UNCHANGED <<topicList, next, topic>>,
           \A t \in Threads :
              pc[t] \in {"lock", "head", "create", "reread", "walk", "append"} =>
               /\ filter'[t] = filter[t]
               /\ \/ pc'[t] = pc[t] /\ temp'[t] = temp[t]
                  \/ pc[t] = "lock" /\ pc'[t] = "head"
                  \/ pc[t] = "head" /\ pc'[t] = "create"
                  \/ pc[t] = "head" /\ pc'[t] = "reread" /\ topicList # None,
           NEW f, Known(f)
    PROVE  Known(f)'
<1>1. Listed' = Listed /\ ListedTopics' = ListedTopics
  BY DEF ListedTopics, Listed
<1> QED
  BY <1>1 DEF Known, Entering

LEMMA KnownStep ==
    ASSUME Inv, [Next]_vars, ~Emptying, NEW f, Known(f)
    PROVE  Known(f)'
<1> USE RouterAssumption DEF broker, instance, items, locals, history
<1>1. ASSUME \/ \E h \in Hosts : Subscribe(h)
             \/ \E t \in Threads : Ask(t) \/ Lock(t) \/ TestHead(t) \/ Unlock(t)
             \/ InitTopic \/ onConnect \/ connlost \/ messageArrived
             \/ ConnectSucceeds \/ ConnectionDrops \/ Publish \/ Send
             \/ MarkDisconnected \/ Restart \/ RestartConnect
             \/ \E g \in Filters, n \in Names : Arrive(g, n)
             \/ UNCHANGED vars
      PROVE  Known(f)'
  <2>1. UNCHANGED <<topicList, next, topic>>
    BY <1>1 DEF Subscribe, Ask, Lock, TestHead, Unlock, InitTopic, onConnect,
                connlost, messageArrived, ConnectSucceeds, ConnectionDrops, Publish,
                Send, MarkDisconnected, Restart, RestartConnect, Arrive, vars
  <2>2. ASSUME NEW t \in Threads,
               pc[t] \in {"lock", "head", "create", "reread", "walk", "append"}
        PROVE  /\ filter'[t] = filter[t]
               /\ \/ pc'[t] = pc[t] /\ temp'[t] = temp[t]
                  \/ pc[t] = "lock" /\ pc'[t] = "head"
                  \/ pc[t] = "head" /\ pc'[t] = "create"
                  \/ pc[t] = "head" /\ pc'[t] = "reread" /\ topicList # None
    <3>1. CASE \/ \E h \in Hosts : Subscribe(h)
               \/ \E u \in Threads : Lock(u) \/ TestHead(u)
               \/ InitTopic \/ UNCHANGED vars
      BY <2>2, <3>1 DEF Subscribe, Lock, TestHead, InitTopic, vars, Goto, Inv, TypeOK,
                        Threads
    <3>3. ASSUME NEW u \in Threads, Ask(u)
          PROVE  pc[u] = "library" /\ UNCHANGED <<filter, temp>>
                 /\ \A v \in Threads \ {u} : pc'[v] = pc[v]
      BY <3>3 DEF Ask, Goto, Inv, TypeOK
    <3>4. ASSUME NEW u \in Threads, Unlock(u)
          PROVE  pc[u] = "unlock"
                 /\ \A v \in Threads \ {u} : /\ pc'[v] = pc[v] /\ filter'[v] = filter[v]
                                              /\ temp'[v] = temp[v]
      BY <3>4 DEF Unlock, Goto, Inv, TypeOK
    <3>2. CASE onConnect \/ connlost \/ messageArrived
      BY <2>2, <3>2 DEF onConnect, onConnectDue, connlost, messageArrived, Goto, Inv,
                        TypeOK, Threads
    <3>5. CASE \/ ConnectSucceeds \/ ConnectionDrops \/ Publish \/ Send
               \/ MarkDisconnected \/ Restart \/ RestartConnect
               \/ \E g \in Filters, n \in Names : Arrive(g, n)
      BY <2>2, <3>5 DEF ConnectSucceeds, ConnectionDrops, Publish, Send,
                        MarkDisconnected, Restart, RestartConnect, Arrive, Goto,
                        Inv, TypeOK, Threads
    <3> QED
      BY <1>1, <2>2, <3>1, <3>2, <3>3, <3>4, <3>5
  <2> QED
    BY <2>1, <2>2, KnownQuiet
<1>2. ASSUME TopicItem_delete \/ StoreList \/ Clear PROVE Known(f)'
  BY <1>2 DEF TopicItem_delete, StoreList, Clear, Emptying
<1>3. ASSUME NEW t \in Threads, ReadHead(t) PROVE Known(f)'
  <2>1. UNCHANGED <<topicList, next, topic, filter>> /\ Listed' = Listed /\ ListedTopics' = ListedTopics
    BY <1>3 DEF ReadHead, Listed, ListedTopics
  <2>2. /\ temp'[t] = topicList
        /\ pc[t] = "reread"
        /\ pc'[t] = IF topicList = None THEN "undefined" ELSE "walk"
        /\ \A u \in Threads \ {t} : pc'[u] = pc[u] /\ temp'[u] = temp[u]
    BY <1>3 DEF ReadHead, Goto, Inv, TypeOK
  <2>3. topicList # None => topicList \in Listed
    BY ListFacts DEF Inv
  <2> QED
    BY <2>1, <2>2, <2>3 DEF Known, Entering
<1>4. ASSUME NEW t \in Threads, Create(t) PROVE Known(f)'
  <2>1. topicList = None /\ Listed = {} /\ ListedTopics = {}
    BY <1>4 DEF Create, Inv, Emptied, Listed, ListedTopics
  <2>2. PICK u \in Threads : filter[u] = f /\ pc[u] \in {"lock", "head", "create"}
    BY <2>1 DEF Known, Entering
  <2>3. CASE u = t
    <3>1. PICK i \in Items : New(i, filter[t]) /\ topicList' = i /\ next' = [next EXCEPT ![i] = None]
      BY <1>4 DEF Create
    <3>2. next' \in Links /\ topic'[i] = f
      BY <2>2, <2>3, <3>1 DEF New, Inv, TypeOK, Links
    <3>3. i \in Listed'
      BY <3>1, <3>2, AfterSelf DEF Listed
    <3> QED
      BY <3>2, <3>3 DEF Known, ListedTopics
  <2>4. CASE u # t
    BY <1>4, <2>2, <2>4 DEF Create, Goto, Known, Entering, Inv, TypeOK
  <2> QED
    BY <2>3, <2>4
<1>5. ASSUME NEW t \in Threads, Walk(t) PROVE Known(f)'
  <2>1. /\ UNCHANGED <<topicList, next, topic, filter>>
        /\ Listed' = Listed /\ ListedTopics' = ListedTopics
    BY <1>5 DEF Walk, Listed, ListedTopics
  <2>2. /\ pc[t] = "walk"
        /\ \A u \in Threads \ {t} : pc'[u] = pc[u] /\ temp'[u] = temp[u]
    BY <1>5 DEF Walk, Goto, Inv, TypeOK
  <2>3. temp[t] \in Listed => memory[temp[t]] = "live"
    BY DEF Inv, Sound
  <2>4. temp[t] \in Listed =>
           \/ topic[temp[t]] = filter[t]
           \/ pc'[t] = "append" /\ temp'[t] = temp[t]
           \/ pc'[t] = "walk" /\ temp'[t] = next[temp[t]] /\ next[temp[t]] # None
    BY <1>5, <2>3 DEF Walk, Goto, Inv, TypeOK
  <2>5. temp[t] \in Listed /\ next[temp[t]] # None => next[temp[t]] \in Listed
    BY ListFacts DEF Inv
  <2>6. CASE f \in ListedTopics
    BY <2>1, <2>6 DEF Known
  <2>7. CASE f \notin ListedTopics
    <3>1. PICK u \in Threads :
             /\ filter[u] = f
             /\ \/ pc[u] \in {"lock", "head", "create"}
                \/ pc[u] = "reread" /\ topicList # None
                \/ pc[u] \in {"walk", "append"} /\ temp[u] \in Listed
      BY <2>7 DEF Known, Entering
    <3>2. CASE u # t
      BY <2>1, <2>2, <3>1, <3>2 DEF Known, Entering
    <3>3. CASE u = t
      <4>1. temp[t] \in Listed /\ topic[temp[t]] # filter[t]
        BY <2>2, <2>7, <3>1, <3>3 DEF ListedTopics
      <4> QED
        BY <2>1, <2>4, <2>5, <3>1, <3>3, <4>1 DEF Known, Entering
    <3> QED
      BY <3>2, <3>3
  <2> QED
    BY <2>6, <2>7
<1>6. ASSUME NEW t \in Threads, Link(t) PROVE Known(f)'
  <2>1. /\ pc[t] = "append" /\ topicList' = topicList /\ UNCHANGED <<filter, temp>>
        /\ \A u \in Threads \ {t} : pc'[u] = pc[u]
    BY <1>6 DEF Link, Goto, Inv, TypeOK
  <2>2. CASE topicList = None
    <3>1. Listed = {} /\ Listed' = {} /\ ListedTopics = {}
      BY <2>1, <2>2 DEF Listed, ListedTopics
    <3>2. PICK u \in Threads : filter[u] = f /\ pc[u] \in {"lock", "head", "create"}
      BY <2>2, <3>1 DEF Known, Entering
    <3> QED
      BY <2>1, <3>2 DEF Known, Entering
  <2>3. CASE topicList # None
    <3>1. /\ temp[t] \in Listed /\ next[temp[t]] = None
          /\ \A j \in Listed : memory[j] = "live"
      BY <2>1, <2>3 DEF Inv, Sound
    <3>2. PICK w \in Items : w = temp[t]
      BY <2>1, RouterAssumption DEF Inv, TypeOK
    <3>3. PICK i \in Items : /\ New(i, filter[t])
                            /\ next' = [next EXCEPT ![w] = i, ![i] = None]
      BY <1>6, <3>1, <3>2 DEF Link
    <3>4. i \notin Listed
      BY <3>1, <3>3 DEF New
    <3>5. PICK h \in Items : h = topicList
      BY <2>3 DEF Inv, TypeOK
    <3>6. Listed = After(h, next) /\ Listed' = After(h, next') /\ next \in Links
      BY <2>1, <2>3, <3>5, ListFacts DEF Inv, Listed
    <3>7. w \in After(h, next) /\ i \notin After(h, next) /\ next[w] = None
      BY <3>1, <3>2, <3>4, <3>6
    <3>8. /\ next' \in Links /\ next'[w] = i /\ next'[i] = None
          /\ \A k \in Items \ {w, i} : next'[k] = next[k]
      BY <3>3, <3>6, <3>7 DEF Links
    <3>9. Listed' = Listed \cup {i}
      BY <3>6, <3>7, <3>8, AfterAppend
    <3>10. topic'[i] = filter[t] /\ \A j \in Listed : topic'[j] = topic[j]
      BY <3>3, <3>4, ListFacts DEF New, Inv, TypeOK
    <3>11. f \in ListedTopics => f \in ListedTopics'
      BY <3>9, <3>10 DEF ListedTopics
    <3>12. filter[t] \in ListedTopics'
      BY <3>9, <3>10 DEF ListedTopics
    <3> QED
      BY <2>1, <3>9, <3>11, <3>12 DEF Known, Entering
  <2> QED
    BY <2>2, <2>3
<1> QED
  BY <1>1, <1>2, <1>3, <1>4, <1>5, <1>6
  DEF Next, Subscribing, Callbacks, Publisher, Threads

(* The broker sends what it holds, and holds what is known.                 *)
LEMMA BrokeredStep == Inv /\ [Next]_vars => Brokered'
<1> SUFFICES ASSUME Inv, [Next]_vars PROVE Brokered'
  OBVIOUS
<1> USE RouterAssumption DEF broker, instance, items, locals, history
<1>1. Settled \/ pc[Paho] = "arrived" => ~Emptying
  BY DEF Inv, TypeOK, Emptied, Emptying, Settled
<1>2. \/ held' \ early' \subseteq held \ early /\ UNCHANGED early
      \/ \E t \in Threads : /\ pc'[t] = "lock" /\ filter' = filter
                           /\ held' = held \cup {filter[t]}
                           /\ \/ Settled' /\ early' = early \ {filter[t]}
                              \/ early' = early \cup {filter[t]}
  <2>1. ASSUME NEW t \in Threads, Ask(t), link = "up"
        PROVE  /\ pc'[t] = "lock" /\ filter' = filter /\ held' = held \cup {filter[t]}
               /\ \/ Settled' /\ early' = early \ {filter[t]}
                  \/ early' = early \cup {filter[t]}
    <3>1. /\ pc'[t] = "lock" /\ filter' = filter /\ held' = held \cup {filter[t]}
          /\ early' = IF Settled THEN early \ {filter[t]} ELSE early \cup {filter[t]}
          /\ UNCHANGED <<emptied, losses>>
      BY <2>1 DEF Ask, Goto, Inv, TypeOK
    <3> QED
      BY <3>1 DEF Settled
  <2>2. ASSUME NEW t \in Threads, Ask(t), link # "up"
        PROVE  UNCHANGED <<held, early>>
    BY <2>2 DEF Ask
  <2>3. CASE \/ \E h \in Hosts : Subscribe(h)
             \/ \E t \in Threads : Lock(t) \/ TestHead(t) \/ ReadHead(t) \/ Create(t)
                                 \/ Walk(t) \/ Link(t) \/ Unlock(t)
             \/ InitTopic \/ onConnect \/ connlost \/ Clear \/ messageArrived
             \/ TopicItem_delete \/ StoreList \/ Publish \/ Send \/ MarkDisconnected
             \/ Restart \/ RestartConnect \/ ConnectSucceeds
             \/ \E f \in Filters, n \in Names : Arrive(f, n)
             \/ UNCHANGED vars
    <3>1. UNCHANGED <<held, early>>
      BY <2>3 DEF Subscribe, Lock, TestHead, ReadHead, Create, Walk, Link, Unlock,
                  InitTopic, onConnect, connlost, Clear, messageArrived,
                  TopicItem_delete, StoreList, Publish, Send, MarkDisconnected,
                  Restart, RestartConnect, ConnectSucceeds, Arrive, vars
    <3> QED
      BY <3>1
  <2>4. CASE ConnectionDrops
    BY <2>4 DEF ConnectionDrops
  <2> QED
    BY <2>1, <2>2, <2>3, <2>4 DEF Next, Subscribing, Callbacks, Publisher, Threads
<1>3. \A f \in held \ early : Known(f)'
  BY <1>1, KnownStep DEF Inv, Brokered
<1>6. ASSUME NEW f \in held \ early, held' # {} PROVE Settled'
  <2>1. Settled /\ ~Emptying
    BY <1>1 DEF Inv, Brokered
  <2>2. ASSUME NEW t \in Threads, Ask(t) PROVE UNCHANGED <<emptied, losses>>
    BY <2>2 DEF Ask
  <2>3. ASSUME \/ \E h \in Hosts : Subscribe(h)
               \/ \E t \in Threads : Lock(t) \/ TestHead(t) \/ ReadHead(t) \/ Create(t)
                                   \/ Walk(t) \/ Link(t) \/ Unlock(t)
               \/ InitTopic \/ onConnect \/ connlost \/ messageArrived
               \/ TopicItem_delete \/ StoreList \/ Publish \/ Send \/ MarkDisconnected
               \/ Restart \/ RestartConnect \/ ConnectSucceeds
               \/ \E g \in Filters, n \in Names : Arrive(g, n)
               \/ UNCHANGED vars
        PROVE  UNCHANGED <<emptied, losses>>
    BY <2>3 DEF Subscribe, Lock, TestHead, ReadHead, Create, Walk, Link, Unlock,
                InitTopic, onConnect, connlost, messageArrived,
                TopicItem_delete, StoreList, Publish, Send, MarkDisconnected,
                Restart, RestartConnect, ConnectSucceeds, Arrive, vars
  <2>4. ~ConnectionDrops /\ ~Clear
    BY <1>6, <2>1 DEF ConnectionDrops, Clear, Emptying
  <2>5. UNCHANGED <<emptied, losses>>
    BY <2>2, <2>3, <2>4 DEF Next, Subscribing, Callbacks, Publisher, Threads
  <2> QED
    BY <2>1, <2>5 DEF Settled
<1>4. link' # "up" => held' = {}
  <2>1. ASSUME NEW t \in Threads, Ask(t), link' # "up" PROVE held' = {}
    BY <2>1 DEF Ask, Inv, Brokered
  <2>2. CASE \/ \E h \in Hosts : Subscribe(h)
             \/ \E t \in Threads : Lock(t) \/ TestHead(t) \/ ReadHead(t) \/ Create(t)
                                 \/ Walk(t) \/ Link(t) \/ Unlock(t)
             \/ InitTopic \/ onConnect \/ connlost \/ messageArrived
             \/ TopicItem_delete \/ StoreList \/ Publish \/ Send \/ MarkDisconnected
             \/ Restart \/ \E f \in Filters, n \in Names : Arrive(f, n)
             \/ UNCHANGED vars
    <3>1. UNCHANGED <<link, held>>
      BY <2>2 DEF Subscribe, Lock, TestHead, ReadHead, Create, Walk, Link, Unlock,
                  InitTopic, onConnect, connlost, messageArrived, TopicItem_delete,
                  StoreList, Publish, Send, MarkDisconnected, Restart, Arrive, vars
    <3> QED
      BY <3>1 DEF Inv, Brokered
  <2>3. CASE ConnectSucceeds \/ ConnectionDrops
    BY <2>3 DEF ConnectSucceeds, ConnectionDrops
  <2>4. CASE Clear \/ RestartConnect
    <3>1. UNCHANGED held /\ (link = "up" => link' = "up")
      BY <2>4 DEF Clear, EndOfLoss, RestartConnect, Connect
    <3> QED
      BY <3>1 DEF Inv, Brokered
  <2> QED
    BY <2>1, <2>2, <2>3, <2>4 DEF Next, Subscribing, Callbacks, Publisher, Threads
<1>5. \A f \in held' \ early' : Settled' /\ Known(f)'
  <2>2. CASE held' \ early' \subseteq held \ early
    BY <1>3, <1>6, <2>2
  <2>3. ASSUME NEW t \in Threads, pc'[t] = "lock", filter' = filter,
               held' = held \cup {filter[t]},
               \/ Settled' /\ early' = early \ {filter[t]}
               \/ early' = early \cup {filter[t]}
        PROVE  \A f \in held' \ early' : Settled' /\ Known(f)'
    <3>1. PICK g : g = filter[t]
      OBVIOUS
    <3>2. Known(g)'
      BY <2>3, <3>1 DEF Known, Entering
    <3>3. ASSUME NEW f \in held' \ early', f # g PROVE Settled' /\ Known(f)'
      <4>1. f \in held \ early
        BY <2>3, <3>1, <3>3
      <4> QED
        BY <1>3, <1>6, <4>1
    <3>4. g \notin early' => Settled'
      BY <2>3, <3>1
    <3> QED
      BY <3>2, <3>3, <3>4
  <2> QED
    BY <1>2, <2>2, <2>3
<1>7. ASSUME NEW f, f \in early PROVE f \in early' \/ Known(f)'
  <2>1. ASSUME NEW t \in Threads, pc'[t] = "lock", filter' = filter,
               \/ early' = early \ {filter[t]}
               \/ early' = early \cup {filter[t]}
        PROVE  f \in early' \/ Known(f)'
    <3>1. PICK g : g = filter[t]
      OBVIOUS
    <3>2. Known(g)'
      BY <2>1, <3>1 DEF Known, Entering
    <3> QED
      BY <1>7, <2>1, <3>1, <3>2
  <2> QED
    BY <1>2, <1>7, <2>1
<1>8. ASSUME pc'[Paho] = "arrived"
      PROVE  \E f \in Filters, n \in Names :
                /\ message' = n /\ via' = f /\ BrokerMatches(f, n)
                /\ f \in early' \/ Known(f)'
  <2>1. \/ pc[Paho] = "arrived" /\ UNCHANGED <<message, via>>
        \/ \E f \in Filters, n \in Names :
              f \in held /\ BrokerMatches(f, n) /\ message' = n /\ via' = f
    <3>1. CASE \/ \E h \in Hosts : Subscribe(h)
               \/ \E t \in Threads : Ask(t) \/ Lock(t) \/ TestHead(t) \/ ReadHead(t)
                                   \/ Create(t) \/ Unlock(t)
      BY <1>8, <3>1 DEF Subscribe, Ask, Lock, TestHead, ReadHead, Create, Unlock,
                        Goto, Back,
                        Inv, TypeOK, Threads
    <3>2. CASE \E t \in Threads : Walk(t) \/ Link(t)
      BY <1>8, <3>2 DEF Walk, Link, Goto, Inv, TypeOK, Threads
    <3>3. CASE \/ InitTopic \/ onConnect \/ connlost \/ messageArrived \/ Clear
               \/ TopicItem_delete \/ StoreList
      BY <1>8, <3>3 DEF InitTopic, onConnect, onConnectDue, connlost, messageArrived,
                        Clear, EndOfLoss, TopicItem_delete, StoreList, Goto, Inv,
                        TypeOK, Threads
    <3>5. CASE \/ Publish \/ Send \/ MarkDisconnected \/ Restart \/ RestartConnect
               \/ ConnectSucceeds \/ ConnectionDrops \/ UNCHANGED vars
      BY <1>8, <3>5 DEF Publish, Send, MarkDisconnected, Restart, RestartConnect,
                        ConnectSucceeds, ConnectionDrops, vars
    <3>4. ASSUME NEW f \in Filters, NEW n \in Names, Arrive(f, n)
          PROVE  f \in held /\ BrokerMatches(f, n) /\ message' = n /\ via' = f
      BY <3>4 DEF Arrive
    <3> QED
      BY <3>1, <3>2, <3>3, <3>4, <3>5 DEF Next, Subscribing, Callbacks, Publisher, Threads
  <2>2. CASE pc[Paho] = "arrived" /\ UNCHANGED <<message, via>>
    <3>1. PICK f \in Filters, n \in Names :
             /\ f = via /\ n = message /\ BrokerMatches(f, n)
             /\ f \in early \/ Known(f)
      BY <2>2 DEF Inv, Brokered
    <3>2. Known(f) => Known(f)'
      BY <1>1, <2>2, KnownStep
    <3>3. f \in early' \/ Known(f)'
      BY <1>7, <3>1, <3>2
    <3> QED
      BY <2>2, <3>1, <3>3
  <2>3. ASSUME NEW f \in Filters, NEW n \in Names,
               f \in held, BrokerMatches(f, n), message' = n, via' = f
        PROVE  /\ message' = n /\ via' = f /\ BrokerMatches(f, n)
               /\ f \in early' \/ Known(f)'
    BY <1>3, <1>7, <2>3
  <2> QED
    BY <2>1, <2>2, <2>3
<1> QED
  BY <1>4, <1>5, <1>8 DEF Brokered

-----------------------------------------------------------------------------
(* The theorems.                                                            *)

LEMMA InvInit == Init => Inv
<1> SUFFICES ASSUME Init PROVE Inv
  OBVIOUS
<1> USE RouterAssumption
<1>1. TypeOK
  <2>1. since \in [Threads -> 0..MaxLosses] /\ calls \in [Hosts -> 0..MaxCalls]
        /\ losses \in 0..MaxLosses /\ emptied \in 0..MaxLosses
    BY DEF Init
  <2>2. todo \in Seq(InitSet)
    BY EmptySeq DEF Init
  <2> QED
    BY <2>1, <2>2 DEF Init, TypeOK
<1>2. Listed = {}
  BY DEF Init, Listed
<1>3. Locking /\ Emptied
  BY DEF Init, Locking, Emptied, Emptying, AtList, Asked, Threads
<1>4. Sound /\ Lasting
  BY <1>2 DEF Init, Sound, Lasting, AtList
<1>5. Brokered
  BY DEF Init, Brokered, Threads
<1> QED
  BY <1>1, <1>3, <1>4, <1>5 DEF Inv

LEMMA InvAlways == Spec => []Inv
<1>1. Inv /\ [Next]_vars => Inv'
  BY TypeStep, LockingStep, EmptiedStep, SoundStep, LastingStep, BrokeredStep DEF Inv
<1> QED
  BY InvInit, <1>1, PTL DEF Spec

(* The types.                                                               *)
THEOREM TopicsTypeCorrect == Spec => []TypeOK
  BY InvAlways, PTL DEF Inv

(* mqtt_subscribe_ex lists a topic once, whoever subscribes it at the same  *)
(* time, unless connlost is emptying the list.                              *)
THEOREM TopicsListedOnce == Spec => []OneItemPerTopic
<1>1. Inv => OneItemPerTopic
  BY DEF Inv, Sound, OneItemPerTopic
<1> QED
  BY <1>1, InvAlways, PTL

(* A thread of mqtt_subscribe_ex reads freed memory, or NULL in place of the *)
(* list, only when a connection was lost since the library accepted its      *)
(* subscription or the connlost of an earlier one had not ended by then.     *)
THEOREM FreedAfterLoss == Spec => []FreedOnlyAfterLoss
<1>1. Inv => FreedOnlyAfterLoss
  BY DEF Inv, Lasting, FreedOnlyAfterLoss
<1> QED
  BY <1>1, InvAlways, PTL

(* A filter by which the broker sends a message matches in messageArrived,  *)
(* but for a final "#" that stands for no level.                            *)
LEMMA BrokerAgrees ==
    ASSUME NEW f \in Seq(STRING) \ {<<>>}, NEW n \in Seq(STRING) \ {<<>>},
           BrokerMatches(f, n)
    PROVE  \/ Matches(f, n)
           \/ f[Len(f)] = "#" /\ Len(n) = Len(f) - 1
<1>1. Len(f) \in Nat \ {0} /\ Len(n) \in Nat \ {0}
  BY EmptySeq
<1>2. DOMAIN f = 1..Len(f)
  BY LenProperties
<1>3. CASE f[Len(f)] # "#"
  <2>1. Len(f) = Len(n) /\ \A i \in DOMAIN f : f[i] \in {"+", n[i]}
    BY <1>3 DEF BrokerMatches
  <2>2. Len(f) <= Len(n) /\ \A i \in 1..Len(f) : LevelMatches(f[i], n[i])
    BY <1>1, <1>2, <2>1 DEF LevelMatches
  <2> QED
    BY <1>3, <2>1, <2>2 DEF Matches
<1>4. CASE f[Len(f)] = "#"
  <2> DEFINE a == SubSeq(f, 1, Len(f) - 1)
             b == SubSeq(n, Len(f), Len(n))
             g == a \o b
  <2>1. Len(g) = Len(n) /\ \A i \in DOMAIN g : g[i] \in {"+", n[i]}
    BY <1>4 DEF BrokerMatches
  <2>2. /\ a \in Seq(STRING) /\ Len(a) = Len(f) - 1
        /\ \A i \in 1..Len(f) - 1 : a[i] = f[i]
    <3>1. \A i \in 1..Len(f) - 1 : f[i] \in STRING
      BY <1>1, ElementOfSeq
    <3>2. /\ a \in Seq(STRING)
          /\ Len(a) = IF 1 <= Len(f) - 1 THEN Len(f) - 1 - 1 + 1 ELSE 0
          /\ \A i \in 1..Len(f) - 1 - 1 + 1 : a[i] = f[1 + i - 1]
      <4> HIDE DEF a
      <4> QED
        BY <1>1, <3>1, SubSeqProperties DEF a
    <3>3. Len(f) - 1 \in Nat /\ (1 <= Len(f) - 1 \/ Len(f) - 1 = 0)
      <4>1. \A m \in Nat \ {0} : m - 1 \in Nat /\ (1 <= m - 1 \/ m - 1 = 0)
        OBVIOUS
      <4> QED
        BY <1>1, <4>1
    <3> HIDE DEF a
    <3>4. Len(a) = Len(f) - 1
      BY <3>2, <3>3
    <3>5. ASSUME NEW i \in 1..Len(f) - 1 PROVE a[i] = f[i]
      <4>1. i \in 1..Len(f) - 1 - 1 + 1 /\ 1 + i - 1 = i
        BY <3>3
      <4> QED
        BY <3>2, <4>1
    <3> QED
      BY <3>2, <3>4, <3>5
  <2>3. b \in Seq(STRING) /\ (Len(n) < Len(f) => Len(b) = 0)
    <3>1. \A i \in Len(f)..Len(n) : n[i] \in STRING
      BY <1>1, ElementOfSeq
    <3> QED
      BY <1>1, <3>1, SubSeqProperties
  <2> HIDE DEF a, b
  <2>4. /\ Len(g) = Len(a) + Len(b) /\ Len(b) \in Nat /\ DOMAIN g = 1..Len(g)
        /\ \A i \in 1..Len(a) + Len(b) :
              g[i] = IF i <= Len(a) THEN a[i] ELSE b[i - Len(a)]
    BY <2>2, <2>3, ConcatProperties, LenProperties
  <2> HIDE DEF g
  <2>5. CASE Len(n) < Len(f)
    <3>1. Len(n) = Len(f) - 1
      BY <1>1, <2>1, <2>2, <2>3, <2>4, <2>5
    <3> QED
      BY <1>4, <3>1
  <2>6. CASE Len(f) <= Len(n)
    <3>1. ASSUME NEW i \in 1..Len(f) - 1 PROVE f[i] \in {"+", n[i]}
      <4>1. i \in 1..Len(a) + Len(b) /\ i <= Len(a)
        BY <1>1, <2>2, <2>4
      <4>2. g[i] = a[i] /\ a[i] = f[i] /\ i \in DOMAIN g
        BY <2>2, <2>4, <4>1
      <4> QED
        BY <2>1, <4>2
    <3>2. \A i \in 1..Len(f) - 1 : LevelMatches(f[i], n[i])
      BY <3>1 DEF LevelMatches
    <3> QED
      BY <1>4, <2>6, <3>2 DEF Matches
  <2> QED
    BY <1>1, <2>5, <2>6
<1> QED
  BY <1>3, <1>4

(* messageArrived finds a handler for what the broker sends, except while a *)
(* host waits to enter the topic, for the parent level of a "#", and for a   *)
(* topic that was subscribed before the connlost of an earlier connection    *)
(* had ended.                                                                *)
THEOREM UnhandledIsEarly == Spec => UnhandledOnlyEarly
<1>1. ASSUME Inv, messageArrived
      PROVE  \/ Handled
             \/ \E t \in Hosts : pc[t] = "lock" /\ filter[t] = via
             \/ via[Len(via)] = "#" /\ Len(message) = Len(via) - 1
             \/ via \in early
  <2>1. pc[Paho] = "arrived" /\ mutex = None
    BY <1>1 DEF messageArrived
  <2>2. PICK f \in Filters, n \in Names :
           /\ message = n /\ via = f /\ BrokerMatches(f, n)
           /\ f \in early \/ Known(f)
    BY <1>1, <2>1 DEF Inv, Brokered
  <2>3. CASE f \in ListedTopics
    <3>1. f \in Seq(STRING) \ {<<>>} /\ n \in Seq(STRING) \ {<<>>}
      BY RouterAssumption DEF Filters
    <3> QED
      BY <2>2, <2>3, <3>1, BrokerAgrees DEF Handled
  <2>4. CASE Entering(f)
    <3>1. PICK t \in Threads : filter[t] = f /\ pc[t] \in {"lock"} \cup AtList
      BY <2>4 DEF Entering, AtList
    <3>2. pc[t] \notin AtList
      BY <1>1, <2>1, RouterAssumption DEF Inv, Locking
    <3>3. t \in Hosts /\ pc[t] = "lock"
      BY <2>1, <3>1, <3>2 DEF Threads
    <3> QED
      BY <2>2, <3>1, <3>3
  <2>5. CASE f \in early
    BY <2>2, <2>5
  <2> QED
    BY <2>2, <2>3, <2>4, <2>5 DEF Known
<1>2. Inv /\ [Next]_vars =>
        [messageArrived =>
            \/ Handled
            \/ \E t \in Hosts : pc[t] = "lock" /\ filter[t] = via
            \/ via[Len(via)] = "#" /\ Len(message) = Len(via) - 1
            \/ via \in early]_vars
  BY <1>1
<1> QED
  BY <1>2, InvAlways, PTL DEF Spec, UnhandledOnlyEarly

=============================================================================
