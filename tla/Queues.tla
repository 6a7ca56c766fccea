-------------------------------- MODULE Queues --------------------------------
(***************************************************************************)
(* The doubly linked lists that deque.h generates, and their users: the    *)
(* client's pendingMessages (mqtt.c) and the two lists of timers of the    *)
(* instance (instance.c).                                                  *)
(*                                                                         *)
(* The operations of a list hold its mutex, so each is a step.  empty,     *)
(* front and the walk along next read without the mutex: each read is a    *)
(* step of its own, between which other callers run.  The operations leave *)
(* some links of the neighbours as they were: the model keeps them.  A     *)
(* freed node may be the next one that malloc returns.  The client and the *)
(* instance share nothing else: a behaviour has one of the two.            *)
(***************************************************************************)
EXTENDS Pointers, Naturals, Sequences, FiniteSets, Functions

CONSTANTS
    Values,          \* the messages that are queued
    Timers,          \* timer descriptors
    Users,           \* the callers of instance_require_timer and instance_release_timer
    Nodes            \* bound: the nodes that are allocated at a time

ASSUME QueuesAssumption ==
    IsFiniteSet(Nodes) /\ NULL \notin Nodes \cup Values \cup Timers

Lists == {"pendingMessages", "activeTimers", "timerPool"}

VARIABLES
    link,            \* prev, next and val0 of the nodes, and who is allocated
    ends,            \* head and tail of each list
    iter,            \* the front that onConnect is about to send and pop
    line,            \* what pendingMessages stands for (not in the code)
    held,            \* timers that were required and not released (not in the code)
    closed,          \* what instance_deinit has closed; NULL: it has not begun
    caller,          \* where each caller is, its iter and the fd it releases
    raced,           \* a caller moved a timer that others had moved (not in the code)
    user             \* whose lists these are

vars == <<link, ends, iter, line, held, closed, caller, raced, user>>
client == <<iter, line>>
instance == <<held, closed, caller, raced>>

TypeOK ==
    /\ link \in [Nodes -> [used : BOOLEAN, prev : Nodes \cup {NULL},
                           next : Nodes \cup {NULL}, val : Values \cup Timers \cup {NULL}]]
    /\ ends \in [Lists -> [head : Nodes \cup {NULL}, tail : Nodes \cup {NULL}]]
    /\ iter \in Nodes \cup {NULL}
    /\ line \in Seq(Values) /\ Len(line) <= Cardinality(Nodes)
    /\ held \subseteq Timers /\ closed \subseteq Timers \cup {NULL}
    /\ caller \in [Users -> [pc : {"idle", "create", "front", "take", "walk", "give"},
                             at : Nodes \cup {NULL}, fd : Timers \cup {NULL}]]
    /\ raced \in BOOLEAN
    /\ user \in {"client", "instance"}

NoCall == [pc |-> "idle", at |-> NULL, fd |-> NULL]
Blank == [used |-> FALSE, prev |-> NULL, next |-> NULL, val |-> NULL]

(* queue_*_init in mqtt_new and instance_init. *)
Init ==
    /\ link = [n \in Nodes |-> Blank]
    /\ ends = [q \in Lists |-> [head |-> NULL, tail |-> NULL]]
    /\ iter = NULL /\ line = <<>> /\ held = {} /\ closed = {NULL}
    /\ caller = [c \in Users |-> NoCall] /\ raced = FALSE
    /\ user \in {"client", "instance"}

-----------------------------------------------------------------------------
(* Operations of a list.  Store(l, n, f, m) is n->f = m.                    *)

Store(l, n, f, m) == IF n = NULL THEN l ELSE [l EXCEPT ![n][f] = m]
Free(n) == [link EXCEPT ![n] = Blank]
Ends(q, h, t) == [ends EXCEPT ![q] = [head |-> h, tail |-> t]]

emplace_back(q, n, v) ==
    LET tail == ends[q].tail IN
    /\ ~link[n].used
    /\ link' = Store([link EXCEPT ![n] = [used |-> TRUE, prev |-> tail, next |-> NULL, val |-> v]],
                     tail, "next", n)
    /\ ends' = Ends(q, IF tail = NULL THEN n ELSE ends[q].head, n)

(* Mutant: the tail stays when the last node goes. *)
pop_front_tail(q) ==
    LET n == ends[q].head IN
    IF n = NULL THEN UNCHANGED <<link, ends>>
    ELSE link' = Free(n) /\ ends' = Ends(q, link[n].next, ends[q].tail)

(* The new head keeps the freed node as its prev. *)
pop_front(q) ==
    LET n == ends[q].head
        next == link[n].next
    IN IF n = NULL THEN UNCHANGED <<link, ends>>
       ELSE /\ link' = Free(n)
            /\ ends' = Ends(q, next, IF next = NULL THEN NULL ELSE ends[q].tail)

(* What the two moves begin with: n leaves q. *)
Unlinked(n) == Store(Store(link, link[n].prev, "next", link[n].next),
                     link[n].next, "prev", link[n].prev)
EndsWithout(q, n) ==
    Ends(q, IF link[n].prev = NULL THEN link[n].next ELSE ends[q].head,
            IF link[n].next = NULL THEN link[n].prev ELSE ends[q].tail)

(* The old head of another keeps its prev. *)
move_to_front(q, n, another) ==
    LET head == ends[another].head
        tail == ends[another].tail
    IN /\ link' = [Unlinked(n) EXCEPT ![n].prev = NULL, ![n].next = head]
       /\ ends' = [EndsWithout(q, n) EXCEPT ![another] =
                      [head |-> n, tail |-> IF tail = NULL THEN n ELSE tail]]

(* Mutant: the list that n leaves keeps its ends. *)
move_to_back_stays(q, n, another) ==
    LET head == ends[another].head
        tail == ends[another].tail
    IN /\ link' = [Unlinked(n) EXCEPT ![n].next = NULL, ![n].prev = tail]
       /\ ends' = Ends(another, IF head = NULL THEN n ELSE head, n)

(* The old tail of another keeps its next. *)
move_to_back(q, n, another) ==
    LET head == ends[another].head
        tail == ends[another].tail
    IN /\ link' = [Unlinked(n) EXCEPT ![n].next = NULL, ![n].prev = tail]
       /\ ends' = [EndsWithout(q, n) EXCEPT ![another] =
                      [head |-> IF head = NULL THEN n ELSE head, tail |-> n]]

(* A walk along next from the head of q that has met w goes on. *)
Onward(q, w) ==
    LET n == IF w = <<>> THEN ends[q].head ELSE link[w[Len(w)]].next
    IN  IF n = NULL THEN w ELSE Append(w, n)

(* What the walk meets, in order. *)
Walk(q) ==
    LET met[k \in 0..Cardinality(Nodes)] ==
            IF k = 0 THEN <<>> ELSE Onward(q, met[k - 1])
    IN  met[Cardinality(Nodes)]

-----------------------------------------------------------------------------
(* pendingMessages: mqtt_publish_ex queues, onConnect sends and pops.       *)

Queue(n, v) ==
    /\ user = "client"
    /\ emplace_back("pendingMessages", n, v) /\ line' = Append(line, v)
    /\ UNCHANGED <<iter, instance, user>>

ReadFront ==
    /\ iter = NULL /\ ends["pendingMessages"].head # NULL
    /\ iter' = ends["pendingMessages"].head
    /\ UNCHANGED <<link, ends, line, instance, user>>

SendFront ==
    /\ iter # NULL
    /\ pop_front("pendingMessages")
    /\ iter' = NULL /\ line' = Tail(line)
    /\ UNCHANGED <<instance, user>>

-----------------------------------------------------------------------------
(* activeTimers and timerPool: instance_require_timer, instance_release_   *)
(* timer and instance_deinit.  A call that moves a timer that another call *)
(* has moved since it was read may tear the lists: the model ends there.   *)

Running == user = "instance" /\ closed = {NULL} /\ ~raced

At(c, pc) == Running /\ caller[c].pc = pc
Go(c, pc, at, fd) == caller' = [caller EXCEPT ![c] = [pc |-> pc, at |-> at, fd |-> fd]]
Returns(c) == caller' = [caller EXCEPT ![c] = NoCall]

(* instance_require_timer: is the pool empty? *)
TestPool(c) ==
    /\ At(c, "idle")
    /\ Go(c, IF ends["timerPool"].head = NULL THEN "create" ELSE "front", NULL, NULL)
    /\ UNCHANGED <<link, ends, client, held, closed, raced, user>>

(* It was: tm_timer_create gives a descriptor that is not in use. *)
CreateTimer(c, n, fd) ==
    /\ At(c, "create")
    /\ fd \notin {link[m].val : m \in {m \in Nodes : link[m].used}}
    /\ emplace_back("activeTimers", n, fd)
    /\ held' = held \cup {fd} /\ Returns(c)
    /\ UNCHANGED <<client, closed, raced, user>>

(* It was not: its front, which is NULL when others have emptied the pool. *)
FrontOfPool(c) ==
    LET head == ends["timerPool"].head IN
    /\ At(c, "front")
    /\ Go(c, "take", head, NULL) /\ raced' = (head = NULL)
    /\ UNCHANGED <<link, ends, client, held, closed, user>>

TakeTimer(c) ==
    LET n == caller[c].at IN
    /\ At(c, "take")
    /\ move_to_back("timerPool", n, "activeTimers")
    /\ raced' = (n # ends["timerPool"].head)
    /\ held' = held \cup {link[n].val} /\ Returns(c)
    /\ UNCHANGED <<client, closed, user>>

(* A caller releases a timer that it holds. *)
instance_release_timer(c, fd) ==
    /\ At(c, "idle") /\ fd \in held
    /\ \A d \in Users : caller[d].fd # fd
    /\ Go(c, "walk", ends["activeTimers"].head, fd)
    /\ UNCHANGED <<link, ends, client, held, closed, raced, user>>

(* A round of its loop, which finds the timer, goes on or ends in vain. *)
FindTimer(c) ==
    LET n == caller[c].at
        fd == caller[c].fd
    IN
    /\ At(c, "walk")
    /\ \/ n = NULL /\ held' = held \ {fd} /\ Returns(c)
       \/ n # NULL /\ link[n].val = fd /\ Go(c, "give", n, fd) /\ UNCHANGED held
       \/ n # NULL /\ link[n].val # fd /\ Go(c, "walk", link[n].next, fd) /\ UNCHANGED held
    /\ UNCHANGED <<link, ends, client, closed, raced, user>>

GiveTimer(c) ==
    LET n == caller[c].at IN
    /\ At(c, "give")
    /\ move_to_front("activeTimers", n, "timerPool")
    /\ raced' = (n \notin Range(Walk("activeTimers")))
    /\ held' = held \ {caller[c].fd} /\ Returns(c)
    /\ UNCHANGED <<client, closed, user>>

(* A round of the first loop of instance_deinit, and of the second one, which *)
(* pops the list that is empty by now: it closes the same descriptor again.   *)
(* The callers have returned by then.                                         *)
Closing == user = "instance" /\ ~raced /\ \A c \in Users : caller[c] = NoCall

CloseActive ==
    LET n == ends["activeTimers"].head IN
    /\ Closing /\ n # NULL
    /\ closed' = (closed \ {NULL}) \cup {link[n].val}
    /\ pop_front("activeTimers") /\ UNCHANGED <<client, held, caller, raced, user>>

ClosePool ==
    LET n == ends["timerPool"].head IN
    /\ Closing /\ ends["activeTimers"].head = NULL /\ n # NULL
    /\ closed' = (closed \ {NULL}) \cup {link[n].val}
    /\ pop_front("activeTimers") /\ UNCHANGED <<client, held, caller, raced, user>>

Next ==
    \/ \E n \in Nodes, v \in Values : Queue(n, v)
    \/ ReadFront \/ SendFront
    \/ \E c \in Users :
          \/ TestPool(c) \/ FrontOfPool(c) \/ TakeTimer(c) \/ FindTimer(c) \/ GiveTimer(c)
          \/ \E n \in Nodes, fd \in Timers : CreateTimer(c, n, fd)
          \/ \E fd \in Timers : instance_release_timer(c, fd)
    \/ CloseActive \/ ClosePool

Spec == Init /\ [][Next]_vars

-----------------------------------------------------------------------------
(* pendingMessages is a queue: although pop_front leaves the prev of the   *)
(* new head on a freed node, which malloc may hand out again, a walk from  *)
(* its head meets the queued messages in the order they were queued, and   *)
(* the front onConnect sends is the one it pops.                           *)
PendingInOrder ==
    /\ [i \in DOMAIN Walk("pendingMessages") |-> link[Walk("pendingMessages")[i]].val] = line
    /\ iter # NULL => iter = ends["pendingMessages"].head
    /\ \A i \in DOMAIN Walk("pendingMessages") : link[Walk("pendingMessages")[i]].used

(* A timer has one user: what instance_require_timer takes from the pool   *)
(* was given back by instance_release_timer, also after the moves have     *)
(* left links of the lists unset and timers out of their reach, and while  *)
(* other callers search, give and take.  The exception: another caller has *)
(* taken the front of the pool between the read of instance.c:234 and the  *)
(* move of line 235, which then moves a timer that is in use.              *)
TimerHasOneUser ==
    [][\A c \in Users :
          TakeTimer(c) => link[caller[c].at].val \notin held
                          \/ caller[c].at # ends["timerPool"].head]_vars

=============================================================================
