-------------------------- MODULE TimerManagerProofs --------------------------
(***************************************************************************)
(* Proofs about TimerManager, for any number of jobs, timers, descriptors  *)
(* and starts: the fields keep their types, the poll thread uses live      *)
(* params only, tm_destroy frees nothing in use, and every job runs once   *)
(* and in its time, as Alarms says.                                        *)
(***************************************************************************)
EXTENDS TimerManager, TLAPS

(* Where the poll thread deals with the event of fd, and where with param.  *)
AtEvent == {"read", "find", "use", "branch", "erase", "del", "clear"}
AtParam == {"use", "branch", "erase", "close", "del", "clear"}

(* The map holds the live params, each under its own open descriptor; only  *)
(* the one the poll thread is about to free is no longer there.             *)
Binding ==
    /\ \A f \in DOMAIN callbacks : /\ memory[callbacks[f]] = "live"
                                   /\ timerfd[callbacks[f]] = f
    /\ \A f \in FDs : clock[f] # "closed" =>
          f \in DOMAIN callbacks \/ (poll = "close" /\ f = fd)
    /\ \A o \in Objects : memory[o] = "live" =>
          /\ timerfd[o] \in FDs
          /\ clock[timerfd[o]] # "closed"
          /\ \/ poll = "close" /\ param = o
             \/ timerfd[o] \in DOMAIN callbacks /\ callbacks[timerfd[o]] = o

(* An event the poll thread has or may get is of a timer in the map; the    *)
(* param it uses is the one in the map, or about to be freed.               *)
Polling ==
    /\ ready \cup interest \subseteq {f \in FDs : clock[f] # "closed"}
    /\ \A f \in batch : f \in DOMAIN callbacks /\ (poll \in AtEvent \cup {"close"} => f # fd)
    /\ poll \in {"test", "wait", "exited"} => batch = {}
    /\ poll \in AtEvent => fd \in DOMAIN callbacks
    /\ poll \in AtParam => /\ param \in Objects
                           /\ memory[param] = "live"
                           /\ timerfd[param] = fd
    /\ poll \in AtParam \ {"close"} => callbacks[fd] = param
    /\ poll = "close" => fd \notin DOMAIN callbacks
    /\ poll \in {"erase", "close"} => param \in Jobs
    /\ poll \in {"branch", "del", "clear"} => param \notin Jobs
    /\ poll = "call" => param \in Objects
    /\ client \in {"free", "gone"} => poll = "exited"

(* The client works on a timer that is there, and while it destroys the     *)
(* manager no call of tm_run_after is under way but that of a callback.     *)
Hosting ==
    /\ client \in {"settime", "periodic", "add", "store", "find", "delete"} =>
          timer \in Timers \cup {Dummy} /\ memory[timer] = "live"
    /\ client \in {"idle", "dummy", "start"} => timer = None
    /\ client = "start" => memory[Dummy] = "live"
    /\ client \in {"find", "delete"} => timer # Dummy
    /\ \A o \in Objects \ Jobs : memory[o] = "freed" => client = "gone"
    /\ \A o \in Objects : memory[o] = "live" => client # "gone"
    /\ nested # None => nested \in Jobs /\ poll = "back"
    /\ Destroying => \A j \in Jobs : job[j] \in {"none", "returned"} \/ nested = j

(* No job is handled before it expired, nor called back twice.              *)
Held(f) == f \in batch \/ (poll \in AtEvent \cup {"close"} /\ fd = f)

Running ==
    \A j \in Jobs :
        /\ memory[j] = "none" <=> job[j] = "none"
        /\ memory[j] = "none" => credit[j] = 0 /\ j \notin ran
        /\ job[j] = "add" => /\ memory[j] = "live"
                             /\ timerfd[j] \notin interest
                             /\ ~Held(timerfd[j])
        /\ memory[j] = "live" =>
              /\ j \notin ran
              /\ credit[j] = 0 => /\ clock[timerfd[j]] = "once"
                                  /\ timerfd[j] \notin ready
                                  /\ ~Held(timerfd[j])
              /\ credit[j] # 0 => credit[j] = 1 /\ clock[timerfd[j]] = "disarmed"
        /\ memory[j] = "freed" =>
              j \in ran \/ client = "gone" \/ (poll = "call" /\ param = j)
        /\ poll = "call" /\ param = j => /\ memory[j] = "freed"
                                         /\ credit[j] = 1 /\ j \notin ran

Inv == TypeOK /\ Binding /\ Polling /\ Hosting /\ Running

-----------------------------------------------------------------------------
LEMMA InvInit == Init => Inv
<1> SUFFICES ASSUME Init PROVE Inv
  OBVIOUS
<1>1. DOMAIN callbacks = {}
  BY DEF Init
<1>2. TypeOK
  BY <1>1, TimerAssumption DEF Init, TypeOK
<1> QED
  BY <1>1, <1>2, TimerAssumption
  DEF Init, Inv, Binding, Polling, Hosting, Running, AtEvent, AtParam, Held,
      Objects, Destroying

LEMMA DistinctDescriptors ==
    Inv => \A o, p \in Objects :
              memory[o] = "live" /\ memory[p] = "live" /\ timerfd[o] = timerfd[p]
                => o = p
  BY DEF Inv, Binding, Polling, AtParam

LEMMA ClientTimer ==
    Inv => (client \in {"settime", "periodic", "add", "store", "find", "delete"} =>
              /\ timer \in Objects \ Jobs
              /\ memory[timer] = "live"
              /\ timerfd[timer] \in FDs
              /\ clock[timerfd[timer]] # "closed")
  BY TimerAssumption DEF Inv, Hosting, Binding, Objects

LEMMA InvStep == Inv /\ [Next]_vars => Inv'
<1> SUFFICES ASSUME Inv, [Next]_vars PROVE Inv'
  OBVIOUS
<1> USE TimerAssumption DEF manager, kernel, fields, thread, calls, host, history
<1>1. ASSUME NEW j \in Jobs, NEW f \in FDs, tm_run_after(j, f) PROVE Inv'
  <2>1. TypeOK'
    BY <1>1
    DEF tm_run_after, Make, Bound, SetTime, Inv, TypeOK, Objects
  <2>2. Binding'
    BY <1>1
    DEF tm_run_after, Make, Bound, SetTime, Inv, TypeOK, Binding, Polling,
        Objects
  <2>3. Polling'
    BY <1>1
    DEF tm_run_after, Make, Bound, SetTime, Inv, TypeOK, Binding, Polling,
        AtEvent, AtParam, Objects
  <2>4. Hosting'
    BY <1>1
    DEF tm_run_after, Make, Bound, SetTime, Inv, TypeOK, Polling, Hosting,
        Destroying, Objects
  <2>5. Running'
    <3>1. j \in Objects /\ memory[j] = "none" /\ clock[f] = "closed"
      BY <1>1 DEF tm_run_after, Make, Objects
    <3>2. f \notin DOMAIN callbacks
      BY <3>1 DEF Inv, TypeOK, Binding
    <3>3. \A i \in Jobs : memory[i] = "live" => timerfd[i] # f /\ timerfd[i] \in FDs
      BY <3>1 DEF Inv, Binding, Objects
    <3>4. f \notin interest /\ f \notin batch /\ (poll \in AtEvent => fd # f)
      BY <3>1, <3>2 DEF Inv, Polling
    <3>5. poll = "close" => fd # f
      BY <3>1 DEF Inv, Binding, Polling, AtParam
    <3>6. ~Held(f)
      BY <3>4, <3>5 DEF Held
    <3>7. \A i \in Jobs : memory'[i] = IF i = j THEN "live" ELSE memory[i]
      BY <1>1 DEF tm_run_after, Make, Inv, TypeOK, Objects
    <3>8. \A i \in Jobs : timerfd'[i] = IF i = j THEN f ELSE timerfd[i]
      BY <1>1 DEF tm_run_after, Make, Inv, TypeOK, Objects
    <3>9. \A i \in Jobs : job'[i] = IF i = j THEN "add" ELSE job[i]
      BY <1>1 DEF tm_run_after, Inv, TypeOK
    <3>10. \A g \in FDs : clock'[g] = IF g = f THEN "once" ELSE clock[g]
      BY <1>1 DEF tm_run_after, SetTime, Inv, TypeOK
    <3>11. f \notin ready' /\ ready' \subseteq ready
      BY <1>1 DEF tm_run_after, SetTime
    <3>12. \A g : Held(g)' <=> Held(g)
      BY <1>1 DEF tm_run_after, Held
    <3>13. credit[j] = 0 /\ j \notin ran /\ ~(poll = "call" /\ param = j)
      BY <3>1 DEF Inv, Running
    <3>14. UNCHANGED <<credit, ran, interest, poll, param, client>>
      BY <1>1 DEF tm_run_after
    <3> QED
      BY <3>3, <3>4, <3>6, <3>7, <3>8, <3>9, <3>10, <3>11, <3>12, <3>13, <3>14
      DEF Inv, Running
  <2> QED
    BY <2>1, <2>2, <2>3, <2>4, <2>5 DEF Inv
<1>2. ASSUME NEW j \in Jobs, RunAfterAdd(j) PROVE Inv'
  <2>1. TypeOK'
    <3>1. memory[j] = "live" /\ j \in Objects /\ timerfd[j] \in FDs /\ clock[timerfd[j]] # "closed"
      BY <1>2 DEF RunAfterAdd, Inv, Binding, Running, Objects
    <3>2. interest' \subseteq FDs
      BY <1>2, <3>1 DEF RunAfterAdd, Inv, TypeOK
    <3>3. job' \in [Jobs -> {"none", "add", "store", "returned"}]
      BY <1>2 DEF RunAfterAdd, Inv, TypeOK
    <3> QED
      BY <1>2, <3>2, <3>3 DEF RunAfterAdd, Inv, TypeOK
  <2>2. Binding'
    BY <1>2
    DEF RunAfterAdd, Inv, TypeOK, Binding, Polling, Objects
  <2>3. Polling'
    <3>1. memory[j] = "live" /\ j \in Objects /\ timerfd[j] \in FDs /\ clock[timerfd[j]] # "closed"
      BY <1>2 DEF RunAfterAdd, Inv, Binding, Running, Objects
    <3> QED
      BY <1>2, <3>1 DEF RunAfterAdd, Inv, Polling
  <2>4. Hosting'
    BY <1>2
    DEF RunAfterAdd, Inv, TypeOK, Polling, Hosting, Destroying, Objects
  <2>5. Running'
    <3>1. memory[j] = "live" /\ j \in Objects /\ timerfd[j] \in FDs /\ clock[timerfd[j]] # "closed"
      BY <1>2 DEF RunAfterAdd, Inv, Binding, Running, Objects
    <3>2. \A i \in Jobs : job'[i] = "add" => job[i] = "add" /\ i # j
      BY <1>2 DEF RunAfterAdd, Inv, TypeOK
    <3>3. \A i \in Jobs : job[i] = "add" /\ i # j => timerfd[i] # timerfd[j]
      BY <3>1, DistinctDescriptors DEF Inv, Running, Objects
    <3>4. \A i \in Jobs : job'[i] = "none" <=> job[i] = "none"
      BY <1>2 DEF RunAfterAdd, Inv, TypeOK
    <3> QED
      BY <1>2, <3>1, <3>2, <3>3, <3>4 DEF RunAfterAdd, Inv, Running, Held
  <2> QED
    BY <2>1, <2>2, <2>3, <2>4, <2>5 DEF Inv
<1>3. ASSUME NEW j \in Jobs, RunAfterStore(j) PROVE Inv'
  <2>1. TypeOK'
    <3>1. inepoll' \in [Objects -> BOOLEAN]
      BY <1>3 DEF RunAfterStore, Inv, TypeOK, Objects
    <3>2. job' \in [Jobs -> {"none", "add", "store", "returned"}] /\ nested' \in Jobs \cup {None}
      BY <1>3 DEF RunAfterStore, Inv, TypeOK
    <3> QED
      BY <1>3, <3>1, <3>2 DEF RunAfterStore, Inv, TypeOK
  <2>2. Binding'
    BY <1>3
    DEF RunAfterStore, Inv, TypeOK, Binding, Polling, Objects
  <2>3. Polling'
    BY <1>3
    DEF RunAfterStore, Inv, TypeOK, Binding, Polling, AtEvent, AtParam,
        Objects
  <2>4. Hosting'
    BY <1>3
    DEF RunAfterStore, Inv, TypeOK, Polling, Hosting, Destroying, Objects
  <2>5. Running'
    BY <1>3
    DEF RunAfterStore, Inv, TypeOK, Binding, Polling, Hosting, Running, Held,
        AtEvent, Objects
  <2> QED
    BY <2>1, <2>2, <2>3, <2>4, <2>5 DEF Inv
<1>4. ASSUME NEW t \in Timers, NEW f \in FDs, tm_timer_create(t, f) PROVE Inv'
  <2>1. TypeOK'
    BY <1>4
    DEF tm_timer_create, Make, Bound, Inv, TypeOK, Objects
  <2>2. Binding'
    BY <1>4
    DEF tm_timer_create, Make, Bound, Inv, TypeOK, Binding, Polling, Objects
  <2>3. Polling'
    BY <1>4
    DEF tm_timer_create, Make, Bound, Inv, TypeOK, Binding, Polling, AtEvent,
        AtParam, Objects
  <2>4. Hosting'
    BY <1>4
    DEF tm_timer_create, Make, Bound, Inv, TypeOK, Polling, Hosting,
        Destroying, Objects
  <2>5. Running'
    BY <1>4
    DEF tm_timer_create, Make, Bound, Inv, TypeOK, Binding, Polling, Hosting,
        Running, Held, AtEvent, Objects
  <2> QED
    BY <2>1, <2>2, <2>3, <2>4, <2>5 DEF Inv
<1>5. ASSUME NEW t \in Timers, tm_timer_start(t) PROVE Inv'
  <2>1. TypeOK'
    BY <1>5
    DEF tm_timer_start, Found, Inv, TypeOK, Objects
  <2>2. Binding'
    BY <1>5
    DEF tm_timer_start, Found, Inv, TypeOK, Binding, Polling, Objects
  <2>3. Polling'
    BY <1>5
    DEF tm_timer_start, Found, Inv, TypeOK, Binding, Polling, AtEvent,
        AtParam, Objects
  <2>4. Hosting'
    BY <1>5
    DEF tm_timer_start, Found, Inv, TypeOK, Polling, Hosting, Destroying,
        Objects
  <2>5. Running'
    <3>1. UNCHANGED <<memory, credit, job, ran, poll, batch, fd, param, kernel, timerfd, nested>>
      BY <1>5 DEF tm_timer_start, Found
    <3>2. client # "gone" /\ client' # "gone"
      BY <1>5 DEF tm_timer_start, Found
    <3>3. \A f : Held(f)' <=> Held(f)
      BY <3>1 DEF Held
    <3> QED
      BY <3>1, <3>2, <3>3 DEF Inv, Running
  <2> QED
    BY <2>1, <2>2, <2>3, <2>4, <2>5 DEF Inv
<1>6. ASSUME NEW t \in Timers, tm_timer_stop(t) PROVE Inv'
  <2>1. TypeOK'
    <3>1. clock' \in [FDs -> {"closed", "disarmed", "once", "periodic"}] /\ ready' \subseteq FDs
      BY <1>6 DEF tm_timer_stop, SetTime, Inv, TypeOK
    <3>2. client' = "find" /\ timer' \in Objects /\ pledged' \subseteq Timers
      BY <1>6 DEF tm_timer_stop, Inv, TypeOK, Objects
    <3> QED
      BY <1>6, <3>1, <3>2 DEF tm_timer_stop, Inv, TypeOK
  <2>2. Binding'
    BY <1>6
    DEF tm_timer_stop, SetTime, Inv, TypeOK, Binding, Polling, Objects
  <2>3. Polling'
    BY <1>6
    DEF tm_timer_stop, SetTime, Inv, TypeOK, Binding, Polling, AtEvent,
        AtParam, Objects
  <2>4. Hosting'
    BY <1>6
    DEF tm_timer_stop, SetTime, Inv, TypeOK, Polling, Hosting, Destroying,
        Objects
  <2>5. Running'
    <3>1. \A j \in Jobs : memory[j] = "live" =>
             timerfd[j] \in FDs /\ timerfd[j] # timerfd[t]
      BY <1>6, DistinctDescriptors DEF tm_timer_stop, Inv, Binding, Objects
    <3>2. \A j \in Jobs : memory[j] = "live" =>
             /\ clock'[timerfd[j]] = clock[timerfd[j]]
             /\ timerfd[j] \in ready' => timerfd[j] \in ready
      BY <1>6, <3>1 DEF tm_timer_stop, SetTime, Inv, TypeOK
    <3>3. client # "gone" /\ client' # "gone"
      BY <1>6 DEF tm_timer_stop
    <3>4. \A f : Held(f)' <=> Held(f)
      BY <1>6 DEF tm_timer_stop, Held
    <3> QED
      BY <1>6, <3>2, <3>3, <3>4 DEF tm_timer_stop, Inv, Running
  <2> QED
    BY <2>1, <2>2, <2>3, <2>4, <2>5 DEF Inv
<1>7. ASSUME tm_destroy PROVE Inv'
  <2>1. TypeOK'
    <3>1. running' \in BOOLEAN /\ pledged' \subseteq Timers /\ client' = "dummy"
      BY <1>7 DEF tm_destroy
    <3> QED
      BY <1>7, <3>1 DEF tm_destroy, Inv, TypeOK
  <2>2. Binding'
    BY <1>7
    DEF tm_destroy, Inv, TypeOK, Binding, Polling, Objects
  <2>3. Polling'
    BY <1>7
    DEF tm_destroy, Inv, TypeOK, Binding, Polling, AtEvent, AtParam, Objects
  <2>4. Hosting'
    BY <1>7
    DEF tm_destroy, Inv, TypeOK, Polling, Hosting, Destroying, Objects
  <2>5. Running'
    BY <1>7
    DEF tm_destroy, Inv, TypeOK, Binding, Polling, Hosting, Running, Held,
        AtEvent, Objects
  <2> QED
    BY <2>1, <2>2, <2>3, <2>4, <2>5 DEF Inv
<1>8. ASSUME StartSetTime PROVE Inv'
  <2>1. TypeOK'
    <3>1. timer \in Objects \ Jobs /\ timerfd[timer] \in FDs
      BY <1>8, ClientTimer DEF StartSetTime
    <3>2. clock' \in [FDs -> {"closed", "disarmed", "once", "periodic"}] /\ ready' \subseteq FDs
      BY <1>8, <3>1 DEF StartSetTime, SetTime, Inv, TypeOK
    <3> QED
      BY <1>8, <3>2 DEF StartSetTime, Inv, TypeOK
  <2>2. Binding'
    <3>1. timer \in Objects \ Jobs /\ timerfd[timer] \in FDs
      BY <1>8, ClientTimer DEF StartSetTime
    <3>2. \A f \in FDs : clock[f] # "closed" => clock'[f] # "closed"
      BY <1>8, <3>1 DEF StartSetTime, SetTime, Inv, TypeOK
    <3>3. \A f \in FDs : clock'[f] # "closed" => clock[f] # "closed"
      BY <1>8, ClientTimer DEF StartSetTime, SetTime, Inv, TypeOK
    <3> QED
      BY <1>8, <3>2, <3>3 DEF StartSetTime, Inv, Binding
  <2>3. Polling'
    BY <1>8
    DEF StartSetTime, SetTime, Inv, TypeOK, Binding, Polling, AtEvent,
        AtParam, Objects
  <2>4. Hosting'
    BY <1>8
    DEF StartSetTime, SetTime, Inv, TypeOK, Polling, Hosting, Destroying,
        Objects
  <2>5. Running'
    <3>1. \A j \in Jobs : memory[j] = "live" =>
             timerfd[j] \in FDs /\ timerfd[j] # timerfd[timer]
      BY <1>8, ClientTimer, DistinctDescriptors DEF StartSetTime, Inv, Binding, Objects
    <3>2. \A j \in Jobs : memory[j] = "live" =>
             /\ clock'[timerfd[j]] = clock[timerfd[j]]
             /\ timerfd[j] \in ready' => timerfd[j] \in ready
      BY <1>8, <3>1 DEF StartSetTime, SetTime, Inv, TypeOK
    <3>3. client # "gone" /\ client' # "gone"
      BY <1>8 DEF StartSetTime
    <3>4. \A f : Held(f)' <=> Held(f)
      BY <1>8 DEF StartSetTime, Held
    <3> QED
      BY <1>8, <3>2, <3>3, <3>4 DEF StartSetTime, Inv, Running
  <2> QED
    BY <2>1, <2>2, <2>3, <2>4, <2>5 DEF Inv
<1>9. ASSUME StartPeriodic PROVE Inv'
  <2>1. TypeOK'
    <3>1. periodic' \in [Objects -> BOOLEAN]
      BY <1>9, Zenon DEF StartPeriodic, Inv, TypeOK
    <3> QED
      BY <1>9, <3>1 DEF StartPeriodic, Inv, TypeOK
  <2>2. Binding'
    BY <1>9
    DEF StartPeriodic, Inv, TypeOK, Binding, Polling, Objects
  <2>3. Polling'
    BY <1>9
    DEF StartPeriodic, Inv, TypeOK, Binding, Polling, AtEvent, AtParam,
        Objects
  <2>4. Hosting'
    BY <1>9
    DEF StartPeriodic, Inv, TypeOK, Polling, Hosting, Destroying, Objects
  <2>5. Running'
    BY <1>9
    DEF StartPeriodic, Inv, TypeOK, Binding, Polling, Hosting, Running, Held,
        AtEvent, Objects
  <2> QED
    BY <2>1, <2>2, <2>3, <2>4, <2>5 DEF Inv
<1>10. ASSUME StartAdd PROVE Inv'
  <2>1. TypeOK'
    <3>1. timer \in Objects \ Jobs /\ timerfd[timer] \in FDs
      BY <1>10, ClientTimer DEF StartAdd
    <3>2. result' \in BOOLEAN /\ interest' \subseteq FDs
      BY <1>10, <3>1 DEF StartAdd, Inv, TypeOK
    <3> QED
      BY <1>10, <3>2 DEF StartAdd, Inv, TypeOK
  <2>2. Binding'
    BY <1>10
    DEF StartAdd, Inv, TypeOK, Binding, Polling, Objects
  <2>3. Polling'
    <3>1. timer \in Objects \ Jobs /\ timerfd[timer] \in FDs /\ clock[timerfd[timer]] # "closed"
      BY <1>10, ClientTimer DEF StartAdd
    <3> QED
      BY <1>10, <3>1 DEF StartAdd, Inv, Polling, AtEvent, AtParam
  <2>4. Hosting'
    BY <1>10
    DEF StartAdd, Inv, TypeOK, Polling, Hosting, Destroying, Objects
  <2>5. Running'
    <3>1. \A j \in Jobs : memory[j] = "live" => timerfd[j] # timerfd[timer]
      BY <1>10, ClientTimer, DistinctDescriptors DEF StartAdd, Objects
    <3>2. client # "gone" /\ client' # "gone"
      BY <1>10 DEF StartAdd
    <3>3. \A f : Held(f)' <=> Held(f)
      BY <1>10 DEF StartAdd, Held
    <3> QED
      BY <1>10, <3>1, <3>2, <3>3 DEF StartAdd, Inv, Running
  <2> QED
    BY <2>1, <2>2, <2>3, <2>4, <2>5 DEF Inv
<1>11. ASSUME StartStore PROVE Inv'
  <2>1. TypeOK'
    <3>1. inepoll' \in [Objects -> BOOLEAN] /\ pledged' \subseteq Timers
      BY <1>11 DEF StartStore, Inv, TypeOK
    <3>2. client' \in {"idle", "join"} /\ timer' \in Objects \cup {None}
      BY <1>11 DEF StartStore, Inv, TypeOK
    <3> QED
      BY <1>11, <3>1, <3>2 DEF StartStore, Inv, TypeOK
  <2>2. Binding'
    BY <1>11
    DEF StartStore, Inv, TypeOK, Binding, Polling, Objects
  <2>3. Polling'
    BY <1>11
    DEF StartStore, Inv, TypeOK, Binding, Polling, AtEvent, AtParam, Objects
  <2>4. Hosting'
    BY <1>11
    DEF StartStore, Inv, TypeOK, Polling, Hosting, Destroying, Objects
  <2>5. Running'
    BY <1>11
    DEF StartStore, Inv, TypeOK, Binding, Polling, Hosting, Running, Held,
        AtEvent, Objects
  <2> QED
    BY <2>1, <2>2, <2>3, <2>4, <2>5 DEF Inv
<1>12. ASSUME StopClear PROVE Inv'
  <2>1. TypeOK'
    <3>1. inepoll' \in [Objects -> BOOLEAN]
      BY <1>12 DEF StopClear, Inv, TypeOK
    <3>2. client' \in {"idle", "delete"} /\ timer' \in Objects \cup {None}
      BY <1>12 DEF StopClear, Inv, TypeOK
    <3> QED
      BY <1>12, <3>1, <3>2 DEF StopClear, Inv, TypeOK
  <2>2. Binding'
    BY <1>12
    DEF StopClear, Inv, TypeOK, Binding, Polling, Objects
  <2>3. Polling'
    BY <1>12
    DEF StopClear, Inv, TypeOK, Binding, Polling, AtEvent, AtParam, Objects
  <2>4. Hosting'
    BY <1>12
    DEF StopClear, Inv, TypeOK, Polling, Hosting, Destroying, Objects
  <2>5. Running'
    BY <1>12
    DEF StopClear, Inv, TypeOK, Binding, Polling, Hosting, Running, Held,
        AtEvent, Objects
  <2> QED
    BY <2>1, <2>2, <2>3, <2>4, <2>5 DEF Inv
<1>13. ASSUME StopDelete PROVE Inv'
  <2>1. TypeOK'
    BY <1>13
    DEF StopDelete, Inv, TypeOK, Objects
  <2>2. Binding'
    BY <1>13
    DEF StopDelete, Inv, TypeOK, Binding, Polling, Objects
  <2>3. Polling'
    BY <1>13
    DEF StopDelete, Inv, TypeOK, Binding, Polling, AtEvent, AtParam, Objects
  <2>4. Hosting'
    BY <1>13
    DEF StopDelete, Inv, TypeOK, Polling, Hosting, Destroying, Objects
  <2>5. Running'
    BY <1>13
    DEF StopDelete, Inv, TypeOK, Binding, Polling, Hosting, Running, Held,
        AtEvent, Objects
  <2> QED
    BY <2>1, <2>2, <2>3, <2>4, <2>5 DEF Inv
<1>14. ASSUME CreateDummy PROVE Inv'
  <2>1. TypeOK'
    BY <1>14
    DEF CreateDummy, Make, Bound, Inv, TypeOK, Objects
  <2>2. Binding'
    BY <1>14
    DEF CreateDummy, Make, Bound, Inv, TypeOK, Binding, Polling, Objects
  <2>3. Polling'
    BY <1>14
    DEF CreateDummy, Make, Bound, Inv, TypeOK, Binding, Polling, AtEvent,
        AtParam, Objects
  <2>4. Hosting'
    BY <1>14
    DEF CreateDummy, Make, Bound, Inv, TypeOK, Polling, Hosting, Destroying,
        Objects
  <2>5. Running'
    BY <1>14
    DEF CreateDummy, Make, Bound, Inv, TypeOK, Binding, Polling, Hosting,
        Running, Held, AtEvent, Objects
  <2> QED
    BY <2>1, <2>2, <2>3, <2>4, <2>5 DEF Inv
<1>15. ASSUME StartDummy PROVE Inv'
  <2>1. TypeOK'
    BY <1>15
    DEF StartDummy, Inv, TypeOK, Objects
  <2>2. Binding'
    BY <1>15
    DEF StartDummy, Inv, TypeOK, Binding, Polling, Objects
  <2>3. Polling'
    BY <1>15
    DEF StartDummy, Inv, TypeOK, Binding, Polling, AtEvent, AtParam, Objects
  <2>4. Hosting'
    BY <1>15
    DEF StartDummy, Inv, TypeOK, Polling, Hosting, Destroying, Objects
  <2>5. Running'
    BY <1>15
    DEF StartDummy, Inv, TypeOK, Binding, Polling, Hosting, Running, Held,
        AtEvent, Objects
  <2> QED
    BY <2>1, <2>2, <2>3, <2>4, <2>5 DEF Inv
<1>16. ASSUME Join PROVE Inv'
  <2>1. TypeOK'
    BY <1>16
    DEF Join, Inv, TypeOK, Objects
  <2>2. Binding'
    BY <1>16
    DEF Join, Inv, TypeOK, Binding, Polling, Objects
  <2>3. Polling'
    BY <1>16
    DEF Join, Inv, TypeOK, Binding, Polling, AtEvent, AtParam, Objects
  <2>4. Hosting'
    BY <1>16
    DEF Join, Inv, TypeOK, Polling, Hosting, Destroying, Objects
  <2>5. Running'
    BY <1>16
    DEF Join, Inv, TypeOK, Binding, Polling, Hosting, Running, Held, AtEvent,
        Objects
  <2> QED
    BY <2>1, <2>2, <2>3, <2>4, <2>5 DEF Inv
<1>17. ASSUME FreeManager PROVE Inv'
  <2>1. TypeOK'
    BY <1>17
    DEF FreeManager, Inv, TypeOK, Objects
  <2>2. Binding'
    BY <1>17
    DEF FreeManager, Inv, TypeOK, Binding, Polling, Objects
  <2>3. Polling'
    BY <1>17
    DEF FreeManager, Inv, TypeOK, Binding, Polling, AtEvent, AtParam, Objects
  <2>4. Hosting'
    <3>1. poll = "exited"
      BY <1>17 DEF FreeManager, Inv, Polling
    <3>2. \A o \in Objects : memory'[o] # "live"
      BY <1>17, <3>1 DEF FreeManager, Inv, TypeOK, Binding
    <3>3. nested = None /\ client' = "gone" /\ timer' = None /\ nested' = nested
      BY <1>17, <3>1 DEF FreeManager, Inv, Hosting
    <3>4. \A j \in Jobs : job[j] \in {"none", "returned"}
      BY <1>17, <3>3 DEF FreeManager, Inv, Hosting, Destroying, Objects
    <3> QED
      BY <1>17, <3>2, <3>3, <3>4 DEF FreeManager, Hosting, Destroying
  <2>5. Running'
    <3>1. poll = "exited"
      BY <1>17 DEF FreeManager, Inv, Polling
    <3>2. \A o \in Objects : memory'[o] # "live" /\ (memory'[o] = "none" <=> memory[o] = "none")
      BY <1>17, <3>1 DEF FreeManager, Inv, TypeOK, Binding
    <3>3. nested = None
      BY <1>17, <3>1 DEF FreeManager, Inv, Hosting
    <3>4. \A j \in Jobs : job[j] \in {"none", "returned"}
      BY <1>17, <3>3 DEF FreeManager, Inv, Hosting, Destroying, Objects
    <3> QED
      BY <1>17, <3>1, <3>2, <3>4 DEF FreeManager, Inv, Running, Objects
  <2> QED
    BY <2>1, <2>2, <2>3, <2>4, <2>5 DEF Inv
<1>18. ASSUME Test PROVE Inv'
  <2>1. TypeOK'
    BY <1>18
    DEF Test, Step, Inv, TypeOK, Objects
  <2>2. Binding'
    BY <1>18
    DEF Test, Step, Inv, TypeOK, Binding, Polling, Objects
  <2>3. Polling'
    BY <1>18
    DEF Test, Step, Inv, TypeOK, Binding, Polling, AtEvent, AtParam, Objects
  <2>4. Hosting'
    BY <1>18
    DEF Test, Step, Inv, TypeOK, Polling, Hosting, Destroying, Objects
  <2>5. Running'
    BY <1>18
    DEF Test, Step, Inv, TypeOK, Binding, Polling, Hosting, Running, Held,
        AtEvent, Objects
  <2> QED
    BY <2>1, <2>2, <2>3, <2>4, <2>5 DEF Inv
<1>19. ASSUME Wait PROVE Inv'
  <2>1. TypeOK'
    BY <1>19
    DEF Wait, Step, Inv, TypeOK, Objects
  <2>2. Binding'
    BY <1>19
    DEF Wait, Step, Inv, TypeOK, Binding, Polling, Objects
  <2>3. Polling'
    BY <1>19
    DEF Wait, Step, Inv, TypeOK, Binding, Polling, AtEvent, AtParam, Objects
  <2>4. Hosting'
    BY <1>19
    DEF Wait, Step, Inv, TypeOK, Polling, Hosting, Destroying, Objects
  <2>5. Running'
    BY <1>19
    DEF Wait, Step, Inv, TypeOK, Binding, Polling, Hosting, Running, Held,
        AtEvent, Objects
  <2> QED
    BY <2>1, <2>2, <2>3, <2>4, <2>5 DEF Inv
<1>20. ASSUME NextEvent PROVE Inv'
  <2>1. TypeOK'
    BY <1>20
    DEF NextEvent, Step, Inv, TypeOK, Objects
  <2>2. Binding'
    BY <1>20
    DEF NextEvent, Step, Inv, TypeOK, Binding, Polling, Objects
  <2>3. Polling'
    BY <1>20
    DEF NextEvent, Step, Inv, TypeOK, Binding, Polling, AtEvent, AtParam,
        Objects
  <2>4. Hosting'
    BY <1>20
    DEF NextEvent, Step, Inv, TypeOK, Polling, Hosting, Destroying, Objects
  <2>5. Running'
    BY <1>20
    DEF NextEvent, Step, Inv, TypeOK, Binding, Polling, Hosting, Running,
        Held, AtEvent, Objects
  <2> QED
    BY <2>1, <2>2, <2>3, <2>4, <2>5 DEF Inv
<1>21. ASSUME Read PROVE Inv'
  <2>1. TypeOK'
    BY <1>21
    DEF Read, Step, Inv, TypeOK, Objects
  <2>2. Binding'
    BY <1>21
    DEF Read, Step, Inv, TypeOK, Binding, Polling, Objects
  <2>3. Polling'
    BY <1>21
    DEF Read, Step, Inv, TypeOK, Binding, Polling, AtEvent, AtParam, Objects
  <2>4. Hosting'
    BY <1>21
    DEF Read, Step, Inv, TypeOK, Polling, Hosting, Destroying, Objects
  <2>5. Running'
    BY <1>21
    DEF Read, Step, Inv, TypeOK, Binding, Polling, Hosting, Running, Held,
        AtEvent, Objects
  <2> QED
    BY <2>1, <2>2, <2>3, <2>4, <2>5 DEF Inv
<1>22. ASSUME Find PROVE Inv'
  <2>1. TypeOK'
    BY <1>22
    DEF Find, Step, Inv, TypeOK, Objects
  <2>2. Binding'
    BY <1>22
    DEF Find, Step, Inv, TypeOK, Binding, Polling, Objects
  <2>3. Polling'
    BY <1>22
    DEF Find, Step, Inv, TypeOK, Binding, Polling, AtEvent, AtParam, Objects
  <2>4. Hosting'
    BY <1>22
    DEF Find, Step, Inv, TypeOK, Polling, Hosting, Destroying, Objects
  <2>5. Running'
    BY <1>22
    DEF Find, Step, Inv, TypeOK, Binding, Polling, Hosting, Running, Held,
        AtEvent, Objects
  <2> QED
    BY <2>1, <2>2, <2>3, <2>4, <2>5 DEF Inv
<1>23. ASSUME Use PROVE Inv'
  <2>1. TypeOK'
    <3>1. ctx' \in 0..MaxStarts
      BY <1>23 DEF Use, Step, Inv, TypeOK, Polling, AtParam
    <3>2. poll' \in {"erase", "branch"}
      BY <1>23 DEF Use, Step
    <3> QED
      BY <1>23, <3>1, <3>2 DEF Use, Inv, TypeOK
  <2>2. Binding'
    BY <1>23
    DEF Use, Step, autodelete, Inv, TypeOK, Binding, Polling, Objects
  <2>3. Polling'
    BY <1>23
    DEF Use, Step, autodelete, Inv, TypeOK, Binding, Polling, AtEvent,
        AtParam, Objects
  <2>4. Hosting'
    BY <1>23
    DEF Use, Step, autodelete, Inv, TypeOK, Polling, Hosting, Destroying,
        Objects
  <2>5. Running'
    BY <1>23
    DEF Use, Step, autodelete, Inv, TypeOK, Binding, Polling, Hosting,
        Running, Held, AtEvent, Objects
  <2> QED
    BY <2>1, <2>2, <2>3, <2>4, <2>5 DEF Inv
<1>24. ASSUME Erase PROVE Inv'
  <2>1. TypeOK'
    BY <1>24
    DEF Erase, Step, Unbound, Inv, TypeOK, Objects
  <2>2. Binding'
    <3>1. fd \in DOMAIN callbacks /\ callbacks[fd] = param /\ param \in Objects /\ timerfd[param] = fd
      BY <1>24 DEF Erase, Step, Inv, Polling, AtEvent, AtParam
    <3>2. DOMAIN callbacks' = DOMAIN callbacks \ {fd}
          /\ \A f \in DOMAIN callbacks' : callbacks'[f] = callbacks[f]
      BY <1>24 DEF Erase, Unbound
    <3>3. poll = "erase" /\ poll' = "close"
      BY <1>24 DEF Erase, Step
    <3> QED
      BY <1>24, <3>1, <3>2, <3>3 DEF Erase, Inv, Binding
  <2>3. Polling'
    BY <1>24
    DEF Erase, Step, Unbound, Inv, TypeOK, Binding, Polling, AtEvent, AtParam,
        Objects
  <2>4. Hosting'
    BY <1>24
    DEF Erase, Step, Unbound, Inv, TypeOK, Polling, Hosting, Destroying,
        Objects
  <2>5. Running'
    BY <1>24
    DEF Erase, Step, Unbound, Inv, TypeOK, Binding, Polling, Hosting, Running,
        Held, AtEvent, Objects
  <2> QED
    BY <2>1, <2>2, <2>3, <2>4, <2>5 DEF Inv
<1>25. ASSUME CloseFree PROVE Inv'
  <2>1. TypeOK'
    <3>1. param \in Objects /\ timerfd[param] \in FDs
      BY <1>25 DEF CloseFree, Step, Inv, Polling, Binding, AtParam
    <3>2. /\ clock' \in [FDs -> {"closed", "disarmed", "once", "periodic"}]
          /\ ready' \subseteq FDs /\ interest' \subseteq FDs
      BY <1>25, <3>1 DEF CloseFree, Close, SetTime, Inv, TypeOK
    <3>3. memory' \in [Objects -> {"none", "live", "freed"}]
      BY <1>25 DEF CloseFree, Inv, TypeOK
    <3> QED
      BY <1>25, <3>2, <3>3 DEF CloseFree, Step, Inv, TypeOK
  <2>2. Binding'
    <3>1. param \in Jobs /\ timerfd[param] = fd /\ fd \notin DOMAIN callbacks /\ param \in Objects
          /\ fd \in FDs /\ memory[param] = "live"
      BY <1>25 DEF CloseFree, Step, Inv, Polling, Binding, AtParam, Objects
    <3>2. \A o \in Objects : memory'[o] = "live" => o # param /\ memory[o] = "live"
      BY <1>25, <3>1 DEF CloseFree, Inv, TypeOK
    <3>3. \A o \in Objects : memory'[o] = "live" => timerfd[o] # fd
      BY <3>1, <3>2, DistinctDescriptors
    <3>4. \A f \in FDs : clock'[f] = IF f = fd THEN "closed" ELSE clock[f]
      BY <1>25, <3>1 DEF CloseFree, Close, SetTime, Inv, TypeOK
    <3>5. \A f \in DOMAIN callbacks : callbacks[f] # param
      BY <3>1 DEF Inv, Binding
    <3>6. \A f \in DOMAIN callbacks : memory'[callbacks[f]] = "live"
      BY <1>25, <3>1, <3>5 DEF CloseFree, Inv, TypeOK, Binding
    <3>7. poll' = "call"
      BY <1>25 DEF CloseFree, Step
    <3> QED
      BY <1>25, <3>1, <3>2, <3>3, <3>4, <3>6, <3>7 DEF CloseFree, Inv, Binding
  <2>3. Polling'
    BY <1>25
    DEF CloseFree, Step, Close, SetTime, Inv, TypeOK, Binding, Polling,
        AtEvent, AtParam, Objects
  <2>4. Hosting'
    BY <1>25
    DEF CloseFree, Step, Close, SetTime, Inv, TypeOK, Polling, Hosting,
        Destroying, Objects
  <2>5. Running'
    <3>1. param \in Jobs /\ timerfd[param] = fd /\ param \in Objects
          /\ fd \in FDs /\ memory[param] = "live" /\ poll = "close" /\ poll' = "call"
      BY <1>25 DEF CloseFree, Step, Inv, Polling, Binding, AtParam, Objects
    <3>2. Held(fd) /\ credit[param] = 1 /\ param \notin ran /\ job[param] # "add"
      BY <3>1 DEF Held, Inv, Running
    <3>3. \A j \in Jobs : memory[j] = "live" /\ j # param => timerfd[j] # fd /\ timerfd[j] \in FDs
      BY <3>1, DistinctDescriptors DEF Objects, Inv, Binding
    <3>4. \A j \in Jobs : memory'[j] = IF j = param THEN "freed" ELSE memory[j]
      BY <1>25 DEF CloseFree, Inv, TypeOK, Objects
    <3>5. \A f \in FDs \ {fd} : clock'[f] = clock[f] /\ (Held(f)' => Held(f))
                             /\ (f \in ready' => f \in ready)
                             /\ (f \in interest' => f \in interest)
      BY <1>25, <3>1 DEF CloseFree, Close, SetTime, Inv, TypeOK, Held, AtEvent
    <3> QED
      BY <1>25, <3>1, <3>2, <3>3, <3>4, <3>5 DEF CloseFree, Inv, Running
  <2> QED
    BY <2>1, <2>2, <2>3, <2>4, <2>5 DEF Inv
<1>26. ASSUME Branch PROVE Inv'
  <2>1. TypeOK'
    BY <1>26
    DEF Branch, Step, Inv, TypeOK, Objects
  <2>2. Binding'
    BY <1>26
    DEF Branch, Step, Inv, TypeOK, Binding, Polling, Objects
  <2>3. Polling'
    BY <1>26
    DEF Branch, Step, Inv, TypeOK, Binding, Polling, AtEvent, AtParam, Objects
  <2>4. Hosting'
    BY <1>26
    DEF Branch, Step, Inv, TypeOK, Polling, Hosting, Destroying, Objects
  <2>5. Running'
    BY <1>26
    DEF Branch, Step, Inv, TypeOK, Binding, Polling, Hosting, Running, Held,
        AtEvent, Objects
  <2> QED
    BY <2>1, <2>2, <2>3, <2>4, <2>5 DEF Inv
<1>27. ASSUME Delete PROVE Inv'
  <2>1. TypeOK'
    BY <1>27
    DEF Delete, Step, Inv, TypeOK, Objects
  <2>2. Binding'
    BY <1>27
    DEF Delete, Step, Inv, TypeOK, Binding, Polling, Objects
  <2>3. Polling'
    BY <1>27
    DEF Delete, Step, Inv, TypeOK, Binding, Polling, AtEvent, AtParam, Objects
  <2>4. Hosting'
    BY <1>27
    DEF Delete, Step, Inv, TypeOK, Polling, Hosting, Destroying, Objects
  <2>5. Running'
    BY <1>27
    DEF Delete, Step, Inv, TypeOK, Binding, Polling, Hosting, Running, Held,
        AtEvent, Objects
  <2> QED
    BY <2>1, <2>2, <2>3, <2>4, <2>5 DEF Inv
<1>28. ASSUME Clear PROVE Inv'
  <2>1. TypeOK'
    <3>1. inepoll' \in [Objects -> BOOLEAN]
      BY <1>28 DEF Clear, Inv, TypeOK
    <3> QED
      BY <1>28, <3>1 DEF Clear, Step, Inv, TypeOK
  <2>2. Binding'
    BY <1>28
    DEF Clear, Step, Inv, TypeOK, Binding, Polling, Objects
  <2>3. Polling'
    BY <1>28
    DEF Clear, Step, Inv, TypeOK, Binding, Polling, AtEvent, AtParam, Objects
  <2>4. Hosting'
    BY <1>28
    DEF Clear, Step, Inv, TypeOK, Polling, Hosting, Destroying, Objects
  <2>5. Running'
    BY <1>28
    DEF Clear, Step, Inv, TypeOK, Binding, Polling, Hosting, Running, Held,
        AtEvent, Objects
  <2> QED
    BY <2>1, <2>2, <2>3, <2>4, <2>5 DEF Inv
<1>29. ASSUME Call PROVE Inv'
  <2>1. TypeOK'
    BY <1>29
    DEF Call, Step, Inv, TypeOK, Objects
  <2>2. Binding'
    BY <1>29
    DEF Call, Step, Inv, TypeOK, Binding, Polling, Objects
  <2>3. Polling'
    BY <1>29
    DEF Call, Step, Inv, TypeOK, Binding, Polling, AtEvent, AtParam, Objects
  <2>4. Hosting'
    BY <1>29
    DEF Call, Step, Inv, TypeOK, Polling, Hosting, Destroying, Objects
  <2>5. Running'
    BY <1>29
    DEF Call, Step, Inv, TypeOK, Binding, Polling, Hosting, Running, Held,
        AtEvent, Objects
  <2> QED
    BY <2>1, <2>2, <2>3, <2>4, <2>5 DEF Inv
<1>30. ASSUME Back PROVE Inv'
  <2>1. TypeOK'
    BY <1>30
    DEF Back, Step, Inv, TypeOK, Objects
  <2>2. Binding'
    BY <1>30
    DEF Back, Step, Inv, TypeOK, Binding, Polling, Objects
  <2>3. Polling'
    BY <1>30
    DEF Back, Step, Inv, TypeOK, Binding, Polling, AtEvent, AtParam, Objects
  <2>4. Hosting'
    BY <1>30
    DEF Back, Step, Inv, TypeOK, Polling, Hosting, Destroying, Objects
  <2>5. Running'
    BY <1>30
    DEF Back, Step, Inv, TypeOK, Binding, Polling, Hosting, Running, Held,
        AtEvent, Objects
  <2> QED
    BY <2>1, <2>2, <2>3, <2>4, <2>5 DEF Inv
<1>31. ASSUME Interrupt PROVE Inv'
  <2>1. TypeOK'
    BY <1>31
    DEF Interrupt, Step, Inv, TypeOK, Objects
  <2>2. Binding'
    BY <1>31
    DEF Interrupt, Step, Inv, TypeOK, Binding, Polling, Objects
  <2>3. Polling'
    BY <1>31
    DEF Interrupt, Step, Inv, TypeOK, Binding, Polling, AtEvent, AtParam,
        Objects
  <2>4. Hosting'
    BY <1>31
    DEF Interrupt, Step, Inv, TypeOK, Polling, Hosting, Destroying, Objects
  <2>5. Running'
    BY <1>31
    DEF Interrupt, Step, Inv, TypeOK, Binding, Polling, Hosting, Running,
        Held, AtEvent, Objects
  <2> QED
    BY <2>1, <2>2, <2>3, <2>4, <2>5 DEF Inv
<1>32. ASSUME NEW f \in FDs, Expire(f) PROVE Inv'
  <2>1. TypeOK'
    BY <1>32
    DEF Expire, Inv, TypeOK, Objects
  <2>2. Binding'
    BY <1>32
    DEF Expire, Inv, TypeOK, Binding, Polling, Objects
  <2>3. Polling'
    BY <1>32
    DEF Expire, Inv, TypeOK, Binding, Polling, AtEvent, AtParam, Objects
  <2>4. Hosting'
    BY <1>32
    DEF Expire, Inv, TypeOK, Polling, Hosting, Destroying, Objects
  <2>5. Running'
    <3>1. PICK o \in Objects : /\ memory[o] = "live" /\ timerfd[o] = f
                             /\ credit' = [credit EXCEPT ![o] = @ + 1]
      BY <1>32 DEF Expire
    <3>2. \A j \in Jobs : memory[j] = "live" => (timerfd[j] = f <=> j = o) /\ timerfd[j] \in FDs
      BY <3>1, DistinctDescriptors DEF Objects, Inv, Binding
    <3>3. \A g \in FDs \ {f} : clock'[g] = clock[g] /\ (g \in ready' <=> g \in ready)
      BY <1>32 DEF Expire, Inv, TypeOK
    <3>4. o \in Jobs => credit[o] = 0 /\ clock'[f] = "disarmed"
      BY <1>32, <3>1 DEF Expire, Inv, TypeOK, Running
    <3>5. \A j \in Jobs : credit'[j] = IF j = o THEN credit[j] + 1 ELSE credit[j]
      BY <3>1 DEF Inv, TypeOK, Objects
    <3>6. \A g : Held(g)' <=> Held(g)
      BY <1>32 DEF Expire, Held
    <3> QED
      BY <1>32, <3>1, <3>2, <3>3, <3>4, <3>5, <3>6 DEF Expire, Inv, Running
  <2> QED
    BY <2>1, <2>2, <2>3, <2>4, <2>5 DEF Inv
<1>33. CASE UNCHANGED vars
  <2>1. TypeOK'
    BY <1>33 DEF vars, Inv, TypeOK
  <2>2. Binding'
    BY <1>33 DEF vars, Inv, Binding
  <2>3. Polling'
    BY <1>33 DEF vars, Inv, Polling
  <2>4. Hosting'
    BY <1>33 DEF vars, Inv, Hosting, Destroying
  <2>5. Running'
    BY <1>33 DEF vars, Inv, Running, Held
  <2> QED
    BY <2>1, <2>2, <2>3, <2>4, <2>5 DEF Inv
<1> QED
  BY <1>1, <1>2, <1>3, <1>4, <1>5, <1>6, <1>7, <1>8, <1>9, <1>10, <1>11,
     <1>12, <1>13, <1>14, <1>15, <1>16, <1>17, <1>18, <1>19, <1>20, <1>21,
     <1>22, <1>23, <1>24, <1>25, <1>26, <1>27, <1>28, <1>29, <1>30, <1>31,
     <1>32, <1>33
  DEF Next, RunAfter, Client, timer_poll_thread

LEMMA SpecInv == Spec => []Inv
  BY InvInit, InvStep, PTL DEF Spec

(* The fields of the manager, the params and the threads keep their types. *)
THEOREM TimersTypeCorrect == Spec => []TypeOK
<1>1. Inv => TypeOK
  BY DEF Inv
<1> QED
  BY <1>1, SpecInv, PTL

(* What the poll thread uses without the mutex is live. *)
THEOREM PollLive == Spec => []PollUsesLiveParams
<1>1. Inv => PollUsesLiveParams
  BY DEF Inv, Polling, PollUsesLiveParams, AtParam, AtEvent
<1> QED
  BY <1>1, SpecInv, PTL

(* tm_destroy frees every param and closes every descriptor, after the poll *)
(* thread ended.                                                            *)
THEOREM CleanDestruction == Spec => []DestroyedClean
<1>1. Inv => DestroyedClean
  <2> SUFFICES ASSUME Inv, client = "gone"
               PROVE  /\ poll = "exited"
                      /\ \A o \in Objects : memory[o] # "live"
                      /\ \A f \in FDs : clock[f] = "closed"
    BY DEF DestroyedClean
  <2>1. poll = "exited"
    BY DEF Inv, Polling
  <2>2. \A o \in Objects : memory[o] # "live"
    BY DEF Inv, Hosting
  <2>3. \A f \in FDs : clock[f] = "closed"
    BY <2>1, <2>2 DEF Inv, TypeOK, Binding
  <2> QED
    BY <2>1, <2>2, <2>3
<1> QED
  BY <1>1, SpecInv, PTL

-----------------------------------------------------------------------------
(* A timer of a client may expire again, or be started again, while an      *)
(* event of it is handled.  An event that epoll may or did report stands    *)
(* for an expiration not called back; from the read on, the event at hand   *)
(* and the one the timer is ready with are two.                             *)
AtHand(o) ==
    \/ poll \in {"find", "use", "branch", "del", "clear"} /\ fd = timerfd[o]
    \/ poll = "call" /\ param = o

Pending(o) ==
    \/ timerfd[o] \in ready \cup batch
    \/ poll = "read" /\ fd = timerfd[o]
    \/ AtHand(o)

Owed ==
    /\ poll = "call" /\ param \notin Jobs =>
          memory[param] = "live" /\ timerfd[param] \notin batch
    /\ CallbacksDue
    /\ \A o \in Objects \ Jobs : memory[o] = "live" =>
          /\ Pending(o) => credit[o] >= 1
          /\ AtHand(o) /\ timerfd[o] \in ready => credit[o] >= 2

(* A step that calls nobody back and lets no timer expire keeps it, if every *)
(* event that is pending after it was pending before.                       *)
LEMMA OwedKept ==
    ASSUME Owed,
           UNCHANGED credit,
           poll' = "call" /\ param' \notin Jobs =>
               memory'[param'] = "live" /\ timerfd'[param'] \notin batch',
           \A o \in Objects \ Jobs : memory'[o] = "live" =>
               /\ Pending(o)' => memory[o] = "live" /\ Pending(o)
               /\ AtHand(o)' /\ timerfd'[o] \in ready' =>
                     memory[o] = "live" /\ AtHand(o) /\ timerfd[o] \in ready
    PROVE  Owed'
  BY DEF Owed, CallbacksDue

(* What the other threads do sets timers anew and makes jobs.               *)
LEMMA OwedQuiet ==
    ASSUME Inv, Owed,
           UNCHANGED <<credit, poll, batch, fd, param>>,
           ready' \subseteq ready,
           \A o \in Objects \ Jobs : memory'[o] = memory[o] /\ timerfd'[o] = timerfd[o]
    PROVE  Owed'
<1>1. poll = "call" => param \in Objects
  BY DEF Inv, Polling
<1>2. \A o \in Objects \ Jobs : AtHand(o)' <=> AtHand(o)
  BY DEF AtHand
<1>3. \A o \in Objects \ Jobs : Pending(o)' => Pending(o)
  BY <1>2 DEF Pending
<1>4. poll' = "call" /\ param' \notin Jobs =>
         memory'[param'] = "live" /\ timerfd'[param'] \notin batch'
  BY <1>1 DEF Owed
<1> QED
  BY <1>2, <1>3, <1>4, OwedKept

(* A new timer has a descriptor that nobody has an event of.                *)
LEMMA OwedMake ==
    ASSUME Inv, Owed, NEW t \in Objects \ Jobs, NEW f \in FDs, Make(t, f),
           UNCHANGED <<credit, poll, batch, fd, param, ready>>
    PROVE  Owed'
<1>1. f \notin DOMAIN callbacks /\ f \notin ready /\ memory[t] = "none" /\ clock[f] = "closed"
  BY DEF Make, Inv, TypeOK, Binding, Polling
<1>2. f \notin batch /\ (poll \in AtEvent => f # fd)
  BY <1>1 DEF Inv, Polling
<1>3. poll = "call" => param # t
  BY <1>1, TimerAssumption DEF Inv, Polling, Owed
<1>4. \A o \in Objects : /\ memory'[o] = IF o = t THEN "live" ELSE memory[o]
                         /\ timerfd'[o] = IF o = t THEN f ELSE timerfd[o]
  BY DEF Make, Inv, TypeOK
<1>5. ~Pending(t)' /\ ~AtHand(t)'
  BY <1>1, <1>2, <1>3, <1>4 DEF Pending, AtHand, AtEvent
<1>6. \A o \in Objects \ Jobs : o # t => (Pending(o)' => Pending(o)) /\ (AtHand(o)' => AtHand(o))
  BY <1>4 DEF Pending, AtHand
<1>7. poll' = "call" /\ param' \notin Jobs =>
         memory'[param'] = "live" /\ timerfd'[param'] \notin batch'
  <2>1. poll = "call" => param \in Objects
    BY DEF Inv, Polling
  <2> QED
    BY <1>3, <1>4, <2>1 DEF Owed
<1> QED
  BY <1>4, <1>5, <1>6, <1>7, OwedKept

LEMMA OwedStep == Inv /\ Owed /\ [Next]_vars => Owed'
<1> SUFFICES ASSUME Inv, Owed, [Next]_vars PROVE Owed'
  OBVIOUS
<1> USE TimerAssumption DEF manager, kernel, fields, thread, calls, host, history
<1>1. ASSUME \/ \E j \in Jobs, f \in FDs : tm_run_after(j, f)
             \/ \E j \in Jobs : RunAfter(j)
             \/ \E t \in Timers : tm_timer_start(t) \/ tm_timer_stop(t)
             \/ tm_destroy \/ StartSetTime \/ StartPeriodic \/ StartAdd
             \/ StartStore \/ StopClear \/ StopDelete \/ StartDummy \/ Join
             \/ UNCHANGED vars
      PROVE  Owed'
  <2>1. UNCHANGED <<credit, poll, batch, fd, param>> /\ ready' \subseteq ready
    BY <1>1 DEF tm_run_after, RunAfter, RunAfterAdd, RunAfterStore, SetTime,
                tm_timer_start, Found, tm_timer_stop, tm_destroy, StartSetTime,
                StartPeriodic, StartAdd, StartStore, StopClear, StopDelete,
                StartDummy, Join, vars
  <2>2. \A o \in Objects \ Jobs : memory'[o] = memory[o] /\ timerfd'[o] = timerfd[o]
    BY <1>1 DEF tm_run_after, RunAfter, RunAfterAdd, RunAfterStore, Make,
                tm_timer_start, Found, tm_timer_stop, tm_destroy, StartSetTime,
                StartPeriodic, StartAdd, StartStore, StopClear, StopDelete,
                StartDummy, Join, vars, Inv, TypeOK, Objects
  <2> QED
    BY <2>1, <2>2, OwedQuiet
<1>2. ASSUME NEW t \in Timers, NEW f \in FDs, tm_timer_create(t, f) PROVE Owed'
  BY <1>2, OwedMake DEF tm_timer_create, Objects
<1>3. ASSUME CreateDummy PROVE Owed'
  BY <1>3, OwedMake DEF CreateDummy, Objects
<1>4. ASSUME FreeManager PROVE Owed'
  <2>1. poll' # "call" /\ UNCHANGED credit
    BY <1>4 DEF FreeManager, Inv, Polling
  <2>2. \A o \in Objects : memory'[o] # "live"
    BY <1>4, InvStep DEF FreeManager, Inv, Hosting
  <2> QED
    BY <2>1, <2>2, OwedKept
<1>5. ASSUME \/ Test \/ Wait \/ NextEvent \/ Read \/ Find \/ Use \/ Erase
             \/ CloseFree \/ Branch \/ Delete \/ Clear \/ Back \/ Interrupt
      PROVE  Owed'
  <2>1. UNCHANGED <<credit, timerfd>>
    BY <1>5 DEF Test, Wait, NextEvent, Read, Find, Use, Erase, CloseFree,
                Branch, Delete, Clear, Back, Interrupt
  <2>2. \A o \in Objects \ Jobs : memory'[o] = memory[o]
    BY <1>5 DEF Test, Wait, NextEvent, Read, Find, Use, Erase, CloseFree,
                Branch, Delete, Clear, Back, Interrupt, Step, Inv, TypeOK, Polling
  <2>3. ASSUME poll' = "call", param' \notin Jobs
        PROVE  memory'[param'] = "live" /\ timerfd'[param'] \notin batch'
    <3>1. poll \in {"branch", "clear"} /\ param' = param /\ batch' = batch
      BY <1>5, <2>3 DEF Test, Wait, NextEvent, Read, Find, Use, Erase, CloseFree,
                  Branch, Delete, Clear, Back, Interrupt, Step, Inv, Polling
    <3> QED
      BY <2>1, <2>2, <2>3, <3>1 DEF Inv, Polling, AtParam, AtEvent
  <2>4. \A o \in Objects \ Jobs : Pending(o)' => Pending(o)
    BY <1>5, <2>1 DEF Test, Wait, NextEvent, Read, Find, Use, Erase, CloseFree, SetTime, Close,
                Branch, Delete, Clear, Back, Interrupt, Step, Pending, AtHand, Inv, Polling, AtParam
  <2>5. \A o \in Objects \ Jobs : AtHand(o)' /\ timerfd'[o] \in ready' =>
            AtHand(o) /\ timerfd[o] \in ready
    BY <1>5, <2>1 DEF Test, Wait, NextEvent, Read, Find, Use, Erase, CloseFree, SetTime, Close,
                Branch, Delete, Clear, Back, Interrupt, Step, AtHand, Inv, Polling, AtParam
  <2> QED
    BY <2>1, <2>2, <2>3, <2>4, <2>5, OwedKept
<1>6. ASSUME Call PROVE Owed'
  <2>1. CASE param = Dummy
    <3>1. poll' = "next" /\ UNCHANGED <<credit, memory, timerfd, ready, batch, fd>>
      BY <1>6, <2>1 DEF Call, Step
    <3> QED
      BY <3>1, OwedKept DEF Pending, AtHand
  <2>2. CASE param # Dummy
    <3>1. /\ poll = "call" /\ poll' = "back" /\ credit' = [credit EXCEPT ![param] = @ - 1]
          /\ UNCHANGED <<memory, timerfd, ready, batch, fd, param>>
      BY <1>6, <2>2 DEF Call, Step
    <3>2. credit \in [Objects -> Int]
      BY DEF Inv, TypeOK
    <3>3. \A o \in Objects : o # param => credit'[o] = credit[o]
      BY <3>1, <3>2
    <3>4. param \in Objects /\ credit[param] \in Int /\ credit'[param] = credit[param] - 1
      BY <3>1, <3>2 DEF Inv, Polling
    <3>5. param \in Jobs => credit[param] = 1
      BY <3>1 DEF Inv, Running
    <3>6. param \notin Jobs =>
              /\ timerfd[param] \notin batch
              /\ credit[param] >= 1
              /\ timerfd[param] \in ready => credit[param] >= 2
      BY <3>1, <3>4 DEF Owed, Pending, AtHand
    <3>7. CallbacksDue'
      BY <3>3, <3>4, <3>5, <3>6 DEF Owed, CallbacksDue
    <3>8. \A o \in Objects \ Jobs : ~AtHand(o)'
      BY <3>1 DEF AtHand
    <3>9. \A o \in Objects \ Jobs : Pending(o)' => timerfd[o] \in ready \cup batch
      BY <3>1 DEF Pending, AtHand
    <3>10. ASSUME NEW o \in Objects \ Jobs, memory[o] = "live", Pending(o)'
           PROVE  credit'[o] >= 1
      <4>1. CASE o = param
        BY <3>4, <3>6, <3>9, <3>10, <4>1
      <4>2. CASE o # param
        BY <3>3, <3>9, <3>10, <4>2 DEF Owed, Pending
      <4> QED
        BY <4>1, <4>2
    <3> QED
      BY <3>1, <3>7, <3>8, <3>10 DEF Owed
  <2> QED
    BY <2>1, <2>2
<1>7. ASSUME NEW f \in FDs, Expire(f) PROVE Owed'
  <2>1. PICK p \in Objects : /\ memory[p] = "live" /\ timerfd[p] = f
                            /\ credit' = [credit EXCEPT ![p] = @ + 1]
    BY <1>7 DEF Expire
  <2>2. credit \in [Objects -> Int]
    BY DEF Inv, TypeOK
  <2>3. \A o \in Objects : credit'[o] = (IF o = p THEN credit[o] + 1 ELSE credit[o])
    BY <2>1, <2>2
  <2>4. /\ f \notin ready /\ ready' = ready \cup {f}
        /\ UNCHANGED <<memory, timerfd, poll, batch, fd, param>>
    BY <1>7 DEF Expire
  <2>5. \A o \in Objects : memory[o] = "live" /\ o # p => timerfd[o] # f
    BY <2>1, DistinctDescriptors
  <2>6. \A o \in Objects : AtHand(o)' <=> AtHand(o)
    BY <2>4 DEF AtHand
  <2>7. CallbacksDue'
    BY <2>2, <2>3 DEF Owed, CallbacksDue
  <2>8. ASSUME NEW o \in Objects \ Jobs, memory[o] = "live"
        PROVE  /\ Pending(o)' => credit'[o] >= 1
               /\ AtHand(o)' /\ timerfd'[o] \in ready' => credit'[o] >= 2
    <3>1. credit[o] \in Int /\ credit[o] >= 0
      BY <2>2 DEF Owed, CallbacksDue
    <3>2. CASE o = p
      <4>1. AtHand(o) => credit[o] >= 1
        BY <2>1, <3>2 DEF Owed, Pending
      <4> QED
        BY <2>3, <2>6, <3>1, <3>2, <4>1
    <3>3. CASE o # p
      <4>1. timerfd[o] \in ready' => timerfd[o] \in ready
        BY <2>4, <2>5, <2>8, <3>3
      <4>2. Pending(o)' => Pending(o)
        BY <2>4, <2>6, <4>1 DEF Pending
      <4> QED
        BY <2>3, <2>4, <2>6, <2>8, <3>3, <4>1, <4>2 DEF Owed
    <3> QED
      BY <3>2, <3>3
  <2>9. poll = "call" => param \in Objects
    BY DEF Inv, Polling
  <2> QED
    BY <2>4, <2>7, <2>8, <2>9 DEF Owed
<1> QED
  BY <1>1, <1>2, <1>3, <1>4, <1>5, <1>6, <1>7 DEF Next, Client, timer_poll_thread

(* A timer calls back at most once for each of its expirations.             *)
THEOREM CallbacksAreDue == Spec => []CallbacksDue
<1>1. Init => Owed
  BY TimerAssumption DEF Init, Owed, CallbacksDue, Pending, AtHand, Objects
<1>2. Spec => []Owed
  BY <1>1, SpecInv, OwedStep, PTL DEF Spec
<1>3. Owed => CallbacksDue
  BY DEF Owed
<1> QED
  BY <1>2, <1>3, PTL

-----------------------------------------------------------------------------
(* The refinement: what the state of a job is made of, and who changes it. *)

Mapped == [j \in Jobs |-> State(j)]

(* A step that changes nothing State looks at does not change the state. *)
LEMMA SameState ==
    ASSUME NEW j \in Jobs,
           memory'[j] = memory[j],
           j \in ran' <=> j \in ran,
           credit'[j] = credit[j],
           job'[j] = "none" <=> job[j] = "none",
           (poll' = "call" /\ param' = j) <=> (poll = "call" /\ param = j)
    PROVE  State(j)' = State(j)
<1>1. CASE j \in ran
  BY <1>1 DEF State
<1>2. CASE j \notin ran /\ memory[j] = "freed" /\ ~(poll = "call" /\ param = j)
  BY <1>2 DEF State
<1>3. CASE j \notin ran /\ ~(memory[j] = "freed" /\ ~(poll = "call" /\ param = j))
  <2>1. CASE job[j] = "none"
    BY <1>3, <2>1 DEF State
  <2>2. CASE job[j] # "none"
    BY <1>3, <2>2 DEF State
  <2> QED
    BY <2>1, <2>2
<1> QED
  BY <1>1, <1>2, <1>3

(* A step that takes one job from one state to another. *)
LEMMA OneChanges ==
    ASSUME NEW k \in Jobs, NEW v, State(k)' = v,
           \A j \in Jobs \ {k} : State(j)' = State(j)
    PROVE  Mapped' = [Mapped EXCEPT ![k] = v]
  BY DEF Mapped

LEMMA RefinementStep == Inv /\ Inv' /\ [Next]_vars => [Promise!Next]_Mapped
<1> SUFFICES ASSUME Inv, Inv', [Next]_vars
             PROVE  Promise!Next \/ Mapped' = Mapped
  BY DEF Mapped
<1> USE TimerAssumption DEF manager, kernel, fields, thread, calls, host, history
<1>1. ASSUME NEW j \in Jobs, NEW f \in FDs, tm_run_after(j, f)
      PROVE  Promise!Accept(j)
  <2>1. memory[j] = "none" /\ j \notin ran /\ credit[j] = 0 /\ job[j] = "none"
    BY <1>1 DEF tm_run_after, Make, Inv, Running
  <2>2. State(j) = "new"
    BY <2>1 DEF State
  <2>3. memory'[j] = "live" /\ job'[j] = "add" /\ credit'[j] = 0 /\ j \notin ran'
    BY <1>1, <2>1 DEF tm_run_after, Make, Inv, TypeOK, Objects
  <2>4. State(j)' = "waiting"
    BY <2>3 DEF State
  <2>5. \A i \in Jobs \ {j} : memory'[i] = memory[i] /\ job'[i] = job[i]
    BY <1>1 DEF tm_run_after, Make, Inv, TypeOK, Objects
  <2>6. \A i \in Jobs \ {j} : State(i)' = State(i)
    BY <1>1, <2>5 DEF tm_run_after, State
  <2> QED
    BY <2>2, <2>4, <2>6, OneChanges DEF Promise!Accept, Mapped
<1>2. ASSUME NEW f \in FDs, Expire(f)
      PROVE  Mapped' = Mapped \/ \E j \in Jobs : Promise!Elapse(j)
  <2>1. PICK o \in Objects : /\ memory[o] = "live" /\ timerfd[o] = f
                           /\ credit' = [credit EXCEPT ![o] = @ + 1]
    BY <1>2 DEF Expire
  <2>2. \A j \in Jobs : j # o => credit'[j] = credit[j]
    BY <2>1 DEF Inv, TypeOK, Objects
  <2>3. CASE o \in Jobs
    <3>1. /\ memory[o] = "live" /\ o \notin ran /\ credit[o] = 0 /\ job[o] # "none"
          /\ credit'[o] = 1
      BY <1>2, <2>1, <2>3 DEF Expire, Inv, TypeOK, Running
    <3>2. State(o) = "waiting" /\ State(o)' = "due"
      BY <1>2, <3>1 DEF Expire, State
    <3>3. \A j \in Jobs \ {o} : State(j)' = State(j)
      BY <1>2, <2>2 DEF Expire, State
    <3> QED
      BY <2>3, <3>2, <3>3, OneChanges DEF Promise!Elapse, Mapped
  <2>4. CASE o \notin Jobs
    <3>1. UNCHANGED <<memory, ran, job, poll, param>>
      BY <1>2 DEF Expire
    <3>2. \A j \in Jobs : State(j)' = State(j)
      BY <2>2, <2>4, <3>1, SameState
    <3> QED
      BY <3>2 DEF Mapped
  <2> QED
    BY <2>3, <2>4
<1>3. ASSUME Call PROVE Mapped' = Mapped \/ \E j \in Jobs : Promise!Run(j)
  <2>1. CASE param \in Jobs
    <3>1. PICK k \in Jobs : k = param
      BY <2>1
    <3>2. poll = "call" /\ memory[k] = "freed" /\ credit[k] = 1 /\ k \notin ran
      BY <1>3, <3>1 DEF Call, Step, Inv, Running
    <3>3. State(k) = "due"
      BY <3>1, <3>2 DEF State
    <3>4. k # Dummy /\ ran' = ran \cup {k} /\ credit' = [credit EXCEPT ![k] = @ - 1]
      BY <1>3, <3>1 DEF Call
    <3>5. State(k)' = "ran"
      BY <3>4 DEF State
    <3>6. \A j \in Jobs \ {k} : (j \in ran' <=> j \in ran) /\ credit'[j] = credit[j]
      BY <3>4 DEF Inv, TypeOK, Objects
    <3>7. UNCHANGED <<memory, job, param>>
      BY <1>3 DEF Call
    <3>8. \A j \in Jobs \ {k} : State(j)' = State(j)
      BY <3>1, <3>6, <3>7, SameState
    <3>9. Mapped' = [Mapped EXCEPT ![k] = "ran"]
      BY <3>5, <3>8, OneChanges
    <3> QED
      BY <3>3, <3>9 DEF Promise!Run, Mapped
  <2>2. CASE param \notin Jobs
    <3>1. \A j \in Jobs : (j \in ran' <=> j \in ran) /\ credit'[j] = credit[j]
      BY <1>3, <2>2 DEF Call, Inv, TypeOK, Objects
    <3>2. UNCHANGED <<memory, job, param>>
      BY <1>3 DEF Call
    <3>3. \A j \in Jobs : State(j)' = State(j)
      BY <2>2, <3>1, <3>2, SameState
    <3> QED
      BY <3>3 DEF Mapped
  <2> QED
    BY <2>1, <2>2
<1>4. ASSUME FreeManager PROVE Promise!Destroy
  <2>1. poll = "exited" /\ poll' = "exited" /\ client # "gone" /\ client' = "gone"
    BY <1>4 DEF FreeManager, Inv, Polling
  <2>2. ASSUME NEW j \in Jobs
        PROVE  State(j)' = IF State(j) \in {"waiting", "due"} THEN "dropped"
                           ELSE State(j)
    <3>1. memory[j] = "none" => j \notin ran /\ credit[j] = 0 /\ job[j] = "none"
      BY DEF Inv, Running
    <3>2. memory[j] = "freed" => j \in ran
      BY <2>1 DEF Inv, Running
    <3>3. memory[j] = "live" => j \notin ran /\ job[j] # "none"
      BY DEF Inv, Running
    <3>4. memory[j] \in {"none", "live", "freed"} /\ memory'[j] \in {"none", "live", "freed"}
      BY DEF Inv, TypeOK, Objects
    <3>5. memory'[j] # "live" /\ (memory[j] # "live" => memory'[j] = memory[j])
      <4>1. memory'[j] # "live"
        BY <2>1 DEF Inv, Hosting, Objects
      <4>2. \A f \in DOMAIN callbacks : memory[callbacks[f]] = "live"
        BY DEF Inv, Binding
      <4> QED
        BY <1>4, <4>1, <4>2 DEF FreeManager, Objects
    <3>6. memory[j] = "live" => memory'[j] = "freed"
      BY <1>4, <3>4, <3>5 DEF FreeManager, Objects
    <3>7. UNCHANGED <<ran, credit, job>>
      BY <1>4 DEF FreeManager
    <3> QED
      BY <2>1, <3>1, <3>2, <3>3, <3>4, <3>5, <3>6, <3>7 DEF State
  <2> QED
    BY <2>2 DEF Promise!Destroy, Mapped
<1>5. ASSUME NEW j \in Jobs, RunAfter(j) PROVE Mapped' = Mapped
  <2>1. job[j] # "none" /\ job'[j] # "none" /\ \A i \in Jobs \ {j} : job'[i] = job[i]
    BY <1>5 DEF RunAfter, RunAfterAdd, RunAfterStore, Inv, TypeOK
  <2>2. UNCHANGED <<memory, ran, credit, poll, param>>
    BY <1>5 DEF RunAfter, RunAfterAdd, RunAfterStore
  <2>3. \A i \in Jobs : State(i)' = State(i)
    BY <2>1, <2>2, SameState
  <2> QED
    BY <2>3 DEF Mapped
<1>6. ASSUME NEW t \in Timers, NEW f \in FDs, tm_timer_create(t, f) PROVE Mapped' = Mapped
  <2>1. \A j \in Jobs : memory'[j] = memory[j]
    BY <1>6 DEF tm_timer_create, Make, Inv, TypeOK, Objects
  <2>2. UNCHANGED <<ran, credit, job, poll, param>>
    BY <1>6 DEF tm_timer_create
  <2>3. \A j \in Jobs : State(j)' = State(j)
    BY <2>1, <2>2, SameState
  <2> QED
    BY <2>3 DEF Mapped
<1>7. ASSUME CreateDummy PROVE Mapped' = Mapped
  <2>1. \A j \in Jobs : memory'[j] = memory[j]
    BY <1>7 DEF CreateDummy, Make, Inv, TypeOK, Objects
  <2>2. UNCHANGED <<ran, credit, job, poll, param>>
    BY <1>7 DEF CreateDummy
  <2>3. \A j \in Jobs : State(j)' = State(j)
    BY <2>1, <2>2, SameState
  <2> QED
    BY <2>3 DEF Mapped
<1>8. ASSUME CloseFree PROVE Mapped' = Mapped
  <2>1. poll = "close" /\ poll' = "call" /\ param \in Jobs /\ UNCHANGED <<ran, credit, job, param>>
    BY <1>8 DEF CloseFree, Step, Inv, Polling, AtParam
  <2>2. PICK k \in Jobs : k = param
    BY <2>1
  <2>3. memory[k] = "live" /\ credit[k] = 1 /\ k \notin ran
    BY <1>8, <2>1, <2>2 DEF Inv, Polling, AtParam, Running, Held, Objects
  <2>4. memory'[k] = "freed" /\ \A j \in Jobs \ {k} : memory'[j] = memory[j]
    BY <1>8, <2>2 DEF CloseFree, Inv, TypeOK, Objects
  <2>5. State(k) = "due"
    BY <2>3 DEF State
  <2>6. State(k)' = "due"
    BY <2>1, <2>2, <2>3, <2>4 DEF State
  <2>7. \A j \in Jobs \ {k} : State(j)' = State(j)
    BY <2>1, <2>2, <2>4, SameState
  <2> QED
    BY <2>5, <2>6, <2>7 DEF Mapped
<1>9. ASSUME Branch \/ Clear PROVE Mapped' = Mapped
  <2>1. param \notin Jobs
    BY <1>9 DEF Branch, Clear, Step, Inv, Polling
  <2>2. UNCHANGED <<memory, ran, credit, job, param>>
    BY <1>9 DEF Branch, Clear
  <2>3. \A j \in Jobs : State(j)' = State(j)
    BY <2>1, <2>2, SameState
  <2> QED
    BY <2>3 DEF Mapped
<1>10. ASSUME \/ Test \/ Wait \/ NextEvent \/ Read \/ Find \/ Use \/ Erase
              \/ Delete \/ Back \/ Interrupt
       PROVE  Mapped' = Mapped
  <2>1. poll # "call" /\ poll' # "call" /\ UNCHANGED <<memory, ran, credit, job>>
    BY <1>10 DEF Test, Wait, NextEvent, Read, Find, Use, Erase, Delete, Back,
                 Interrupt, Step
  <2>2. \A j \in Jobs : State(j)' = State(j)
    BY <2>1, SameState
  <2> QED
    BY <2>2 DEF Mapped
<1>11. ASSUME \/ \E t \in Timers : tm_timer_start(t) \/ tm_timer_stop(t)
              \/ tm_destroy \/ StartSetTime \/ StartPeriodic \/ StartAdd
              \/ StartStore \/ StopClear \/ StopDelete \/ StartDummy \/ Join
       PROVE  Mapped' = Mapped
  <2>1. UNCHANGED <<memory, ran, credit, job, poll, param>>
    BY <1>11 DEF tm_timer_start, Found, tm_timer_stop, tm_destroy, StartSetTime,
                 StartPeriodic, StartAdd, StartStore, StopClear, StopDelete,
                 StartDummy, Join
  <2>2. \A j \in Jobs : State(j)' = State(j)
    BY <2>1, SameState
  <2> QED
    BY <2>2 DEF Mapped
<1>12. CASE UNCHANGED vars
  <2>1. UNCHANGED <<memory, ran, credit, job, poll, param>>
    BY <1>12 DEF vars
  <2>2. \A j \in Jobs : State(j)' = State(j)
    BY <2>1, SameState
  <2> QED
    BY <2>2 DEF Mapped
<1> QED
  BY <1>1, <1>2, <1>3, <1>4, <1>5, <1>6, <1>7, <1>8, <1>9, <1>10, <1>11, <1>12
  DEF Next, Client, timer_poll_thread, Promise!Next

(* Every job runs once and in its time, or is dropped by tm_destroy. *)
THEOREM TimersImplementAlarms == Spec => ImplementsAlarms
<1>1. Init => Promise!Init
  <2> SUFFICES ASSUME Init PROVE \A j \in Jobs : State(j) = "new"
    BY DEF Promise!Init
  <2> QED
    BY DEF Init, State, Objects
<1>2. Inv /\ Inv' /\ [Next]_vars => [Promise!Next]_([j \in Jobs |-> State(j)])
  BY RefinementStep DEF Mapped
<1> QED
  BY <1>1, <1>2, SpecInv, PTL DEF Spec, ImplementsAlarms, Promise!Spec

=============================================================================
