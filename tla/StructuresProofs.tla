-------------------------- MODULE StructuresProofs --------------------------
(***************************************************************************)
(* Proofs about the data structures, for any number of nodes, messages,    *)
(* timers and keys.  The queue of messages keeps its order, and a timer    *)
(* has one user; a configuration tree loses no node, and the path of a     *)
(* node leads back to it; and a search tree, of any shape, is searched,    *)
(* walked, rotated and spliced as the set of its keys demands.  The        *)
(* colours of that tree, and its specification, are RBTreeProofs.          *)
(* The walks are recursive: what they meet is shown by an induction over   *)
(* their steps, as sets of numbers, from the natural numbers being         *)
(* well-founded.                                                           *)
(***************************************************************************)
EXTENDS Queues, RBTree, ConfigTree, FiniteSetTheorems, SequenceTheorems,
        WellFoundedInduction, TLAPS

-----------------------------------------------------------------------------
(* Induction over the natural numbers, from their being well-founded.       *)

LEMMA Least ==
    ASSUME NEW T, T \subseteq Nat, T # {}
    PROVE  \E n \in T : \A m \in T : n <= m
<1>1. \E x \in T : \A y \in T : ~(<<y, x>> \in OpToRel(<, Nat))
  BY NatLessThanWellFounded, WFMin
<1>2. \A x, y \in Nat : <<y, x>> \in OpToRel(<, Nat) <=> y < x
  BY DEF OpToRel
<1>3. PICK x \in T : \A y \in T : ~(<<y, x>> \in OpToRel(<, Nat))
  BY <1>1
<1>4. \A y \in T : ~(y < x)
  BY <1>2, <1>3
<1> QED
  BY <1>4

LEMMA Inductive ==
    ASSUME NEW T, T \subseteq Nat, 0 \in T, \A k \in T : k + 1 \in T
    PROVE  T = Nat
<1> SUFFICES ASSUME T # Nat PROVE FALSE
  OBVIOUS
<1> DEFINE R == Nat \ T
<1>1. R \subseteq Nat /\ R # {}
  OBVIOUS
<1>2. PICK n \in R : \A m \in R : n <= m
  <2> HIDE DEF R
  <2> QED
    BY <1>1, Least
<1>3. n \in Nat /\ n # 0
  BY <1>2
<1>4. n - 1 \in Nat /\ ~(n <= n - 1)
  BY <1>3
<1>5. n - 1 \in T
  BY <1>2, <1>4
<1>6. (n - 1) + 1 = n
  BY <1>3
<1> QED
  BY <1>2, <1>5, <1>6

-----------------------------------------------------------------------------
(* Walks.                                                                   *)

Size == Cardinality(Nodes)

LEMMA SizeType == Size \in Nat
  BY QueuesAssumption, FS_CardinalityType DEF Size

(* The recursion of Walk has a solution, and Walk is made of it.            *)
LEMMA WalkMeets ==
    ASSUME NEW q
    PROVE  \E met : /\ Walk(q) = met[Size]
                    /\ met[0] = <<>>
                    /\ \A k \in 1..Size : met[k] = Onward(q, met[k - 1])
<1> DEFINE Turn(f, i) == IF i = 0 THEN <<>> ELSE Onward(q, f[i - 1])
           P(k) == \E f : f = [i \in 0..k |-> Turn(f, i)]
           T == {k \in Nat : P(k)}
<1>1. 0 \in T
  <2>1. [i \in 0..0 |-> <<>>] = [i \in 0..0 |-> Turn([j \in 0..0 |-> <<>>], i)]
    OBVIOUS
  <2>2. P(0)
    BY <2>1
  <2> QED
    BY <2>2
<1>2. ASSUME NEW k \in T PROVE k + 1 \in T
  <2>1. PICK f : f = [i \in 0..k |-> Turn(f, i)]
    OBVIOUS
  <2> DEFINE g == [i \in 0..k + 1 |-> IF i = k + 1 THEN Onward(q, f[k]) ELSE f[i]]
  <2>2. k \in Nat
    OBVIOUS
  <2>3. ASSUME NEW i \in 0..k + 1 PROVE g[i] = Turn(g, i)
    <3>1. CASE i = k + 1
      <4>1. i # 0 /\ i - 1 = k /\ k \in 0..k + 1 /\ k # k + 1
        BY <2>2, <3>1
      <4>2. g[i] = Onward(q, f[k]) /\ g[k] = f[k]
        BY <3>1, <4>1
      <4> QED
        BY <4>1, <4>2
    <3>2. CASE i # k + 1
      <4>1. i \in 0..k /\ (i # 0 => i - 1 \in 0..k + 1 /\ i - 1 # k + 1)
        BY <2>2, <3>2
      <4>2. g[i] = f[i] /\ (i # 0 => g[i - 1] = f[i - 1])
        BY <3>2, <4>1
      <4>3. f[i] = Turn(f, i)
        BY <2>1, <4>1
      <4> QED
        BY <4>2, <4>3
    <3> QED
      BY <3>1, <3>2
  <2>4. g = [i \in 0..k + 1 |-> Turn(g, i)]
    BY <2>3
  <2>5. P(k + 1)
    <3> HIDE DEF g
    <3> QED
      BY <2>4
  <2> HIDE DEF P
  <2> QED
    BY <2>2, <2>5
<1>3. P(Size)
  <2> HIDE DEF P
  <2>1. T = Nat
    BY <1>1, <1>2, Inductive
  <2> QED
    BY <2>1, SizeType
<1> DEFINE met == CHOOSE f : f = [i \in 0..Size |-> Turn(f, i)]
<1>4. met = [i \in 0..Size |-> Turn(met, i)]
  BY <1>3
<1>5. Walk(q) = met[Size]
  BY DEF Walk, Size
<1>6. met[0] = <<>> /\ \A k \in 1..Size : met[k] = Onward(q, met[k - 1])
  <2> HIDE DEF met
  <2>1. 0 \in 0..Size /\ 1..Size \subseteq 0..Size /\ 0 \notin 1..Size
    BY SizeType
  <2> QED
    BY <1>4, <2>1
<1> QED
  BY <1>5, <1>6

(* What a walk from h along the next of l meets when the list is s. *)
Chain(l, h, s) ==
    /\ s \in Seq(Nodes) /\ Len(s) <= Size
    /\ h = IF s = <<>> THEN NULL ELSE s[1]
    /\ \A i \in 1..Len(s) : l[s[i]].next = IF i = Len(s) THEN NULL ELSE s[i + 1]

LEMMA WalkChain ==
    ASSUME NEW q, NEW s, Chain(link, ends[q].head, s)
    PROVE  Walk(q) = s
<1>1. PICK met : /\ Walk(q) = met[Size]
                 /\ met[0] = <<>>
                 /\ \A k \in 1..Size : met[k] = Onward(q, met[k - 1])
  BY WalkMeets
<1> DEFINE Short(k) == IF k <= Len(s) THEN k ELSE Len(s)
           P(k) == k <= Size => /\ met[k] \in Seq(Nodes) /\ Len(met[k]) = Short(k)
                                /\ \A i \in 1..Short(k) : met[k][i] = s[i]
           T == {k \in Nat : P(k)}
<1>2. s \in Seq(Nodes) /\ Len(s) \in Nat /\ Len(s) <= Size /\ Size \in Nat
  BY SizeType DEF Chain
<1>3. 0 \in T
  <2>1. P(0)
    BY <1>1, <1>2
  <2> QED
    BY <2>1
<1>4. ASSUME NEW k \in T PROVE k + 1 \in T
  <2> SUFFICES ASSUME k + 1 <= Size PROVE P(k + 1)
    OBVIOUS
  <2>1. k \in Nat /\ k <= Size /\ k + 1 \in 1..Size /\ (k + 1) - 1 = k
    BY <1>2
  <2>2. /\ met[k] \in Seq(Nodes) /\ Len(met[k]) = Short(k)
        /\ \A i \in 1..Short(k) : met[k][i] = s[i]
    BY <2>1
  <2>3. met[k + 1] = Onward(q, met[k])
    BY <1>1, <2>1
  <2> DEFINE n == IF met[k] = <<>> THEN ends[q].head ELSE link[met[k][Len(met[k])]].next
  <2>4. met[k] = <<>> <=> Short(k) = 0
    BY <2>2, EmptySeq
  <2>5. CASE k < Len(s)
    <3>1. Short(k) = k /\ Short(k + 1) = k + 1 /\ k + 1 \in 1..Len(s)
      BY <1>2, <2>1, <2>5
    <3>2. s # <<>>
      BY <1>2, <2>1, <2>5, EmptySeq
    <3>3. n = s[k + 1]
      <4>1. CASE k = 0
        BY <2>4, <3>1, <3>2, <4>1 DEF Chain
      <4>2. CASE k # 0
        <5>1. k \in 1..Len(s) /\ k # Len(s)
          BY <1>2, <2>1, <2>5, <4>2
        <5>2. met[k] # <<>> /\ Len(met[k]) = k /\ met[k][k] = s[k]
          BY <2>2, <2>4, <3>1, <4>2, <5>1
        <5> QED
          BY <5>1, <5>2 DEF Chain
      <4> QED
        BY <4>1, <4>2
    <3>4. s[k + 1] \in Nodes /\ s[k + 1] # NULL
      BY <1>2, <3>1, ElementOfSeq, QueuesAssumption
    <3>5. met[k + 1] = Append(met[k], s[k + 1])
      BY <2>3, <3>3, <3>4 DEF Onward
    <3>6. /\ met[k + 1] \in Seq(Nodes) /\ Len(met[k + 1]) = k + 1
          /\ \A i \in 1..k : met[k + 1][i] = s[i]
          /\ met[k + 1][k + 1] = s[k + 1]
      BY <2>1, <2>2, <3>1, <3>4, <3>5, AppendProperties
    <3>7. \A i \in 1..k + 1 : i \in 1..k \/ i = k + 1
      BY <2>1
    <3> QED
      BY <3>1, <3>6, <3>7
  <2>6. CASE ~(k < Len(s))
    <3>1. Short(k) = Len(s) /\ Short(k + 1) = Len(s)
      BY <1>2, <2>1, <2>6
    <3>2. n = NULL
      <4>1. CASE Len(s) = 0
        <5>1. s = <<>>
          BY <1>2, <4>1, EmptySeq
        <5> QED
          BY <2>4, <3>1, <4>1, <5>1 DEF Chain
      <4>2. CASE Len(s) # 0
        <5>1. Len(s) \in 1..Len(s)
          BY <1>2, <4>2
        <5>2. met[k] # <<>> /\ met[k][Len(met[k])] = s[Len(s)]
          BY <2>2, <2>4, <3>1, <4>2, <5>1
        <5> QED
          BY <5>1, <5>2 DEF Chain
      <4> QED
        BY <4>1, <4>2
    <3>3. met[k + 1] = met[k]
      BY <2>3, <3>2 DEF Onward
    <3> QED
      BY <2>2, <3>1, <3>3
  <2> QED
    BY <2>5, <2>6
<1>5. P(Size)
  <2> HIDE DEF P
  <2>1. T = Nat
    BY <1>3, <1>4, Inductive
  <2> QED
    BY <1>2, <2>1
<1>6. Short(Size) = Len(s)
  BY <1>2
<1>7. /\ met[Size] \in Seq(Nodes) /\ Len(met[Size]) = Len(s)
      /\ \A i \in 1..Len(s) : met[Size][i] = s[i]
  BY <1>2, <1>5, <1>6
<1> QED
  BY <1>1, <1>2, <1>7, SeqEqual

(* A walk meets nothing but what its head and the nexts lead to. *)
LEMMA WalkWithin ==
    ASSUME NEW q, NEW S \in SUBSET Nodes, ends[q].head \in S \cup {NULL},
           \A n \in S : link[n].next \in S \cup {NULL}
    PROVE  Walk(q) \in Seq(S)
<1>1. PICK met : /\ Walk(q) = met[Size]
                 /\ met[0] = <<>>
                 /\ \A k \in 1..Size : met[k] = Onward(q, met[k - 1])
  BY WalkMeets
<1> DEFINE P(k) == k <= Size => met[k] \in Seq(S)
           T == {k \in Nat : P(k)}
<1>2. 0 \in T
  <2>1. P(0)
    BY <1>1
  <2> QED
    BY <2>1
<1>3. ASSUME NEW k \in T PROVE k + 1 \in T
  <2> SUFFICES ASSUME k + 1 <= Size PROVE met[k + 1] \in Seq(S)
    OBVIOUS
  <2>1. k \in Nat /\ k <= Size /\ k + 1 \in 1..Size /\ (k + 1) - 1 = k
    BY SizeType
  <2>2. met[k] \in Seq(S) /\ met[k + 1] = Onward(q, met[k])
    BY <1>1, <2>1
  <2>3. PICK w \in Seq(S) : w = met[k]
    BY <2>2
  <2> DEFINE n == IF w = <<>> THEN ends[q].head ELSE link[w[Len(w)]].next
  <2>4. n \in S \cup {NULL}
    <3>1. CASE w # <<>>
      <4>1. Len(w) \in 1..Len(w)
        BY <3>1, EmptySeq
      <4>2. w[Len(w)] \in S
        BY <4>1, ElementOfSeq
      <4> QED
        BY <3>1, <4>2
    <3> QED
      BY <3>1
  <2>5. met[k + 1] = IF n = NULL THEN w ELSE Append(w, n)
    BY <2>2, <2>3 DEF Onward
  <2> HIDE DEF n
  <2>6. n \in S => Append(w, n) \in Seq(S)
    BY AppendProperties
  <2> QED
    BY <2>4, <2>5, <2>6
<1>4. P(Size)
  <2> HIDE DEF P
  <2>1. T = Nat
    BY <1>2, <1>3, Inductive
  <2> QED
    BY <2>1, SizeType
<1> QED
  BY <1>1, <1>4, SizeType

-----------------------------------------------------------------------------
(* The invariant.                                                           *)

Pending == ends["pendingMessages"]
Active == ends["activeTimers"]
Pool == ends["timerPool"]

(* s is the list of pendingMessages, and carries line. *)
Ordered(s) ==
    /\ Chain(link, Pending.head, s)
    /\ \A i, j \in 1..Len(s) : s[i] = s[j] => i = j
    /\ Len(s) = Len(line)
    /\ \A i \in 1..Len(s) : link[s[i]].used /\ link[s[i]].val = line[i]
    /\ Pending.tail = IF s = <<>> THEN NULL ELSE s[Len(s)]

(* The list of a client; the instance has none. *)
Client ==
    /\ \E s : Ordered(s)
    /\ iter # NULL => iter = Pending.head
    /\ user = "client" => closed = {NULL} /\ Active.head = NULL /\ Pool.head = NULL
    /\ user = "instance" => line = <<>> /\ iter = NULL

(* What can be reached from the head of activeTimers is linked both ways.  *)
(* The tail may be a timer out of reach.                                    *)
InReach(A) ==
    /\ A \subseteq Nodes
    /\ Active.head \in A \cup {NULL}
    /\ Active.head = NULL <=> Active.tail = NULL
    /\ Active.tail # NULL => link[Active.tail].used /\ link[Active.tail].next = NULL
    /\ \A n \in A :
          /\ link[n].used
          /\ link[n].next \in A \cup {NULL} /\ link[n].prev \in A \cup {NULL}
          /\ link[n].prev = NULL <=> n = Active.head
    /\ \A m, n \in A : link[m].next = n <=> link[n].prev = m

(* The pool is a stack: nothing has a prev, and no two have the same next.  *)
(* Its timers are not held.                                                 *)
Stacked(P) ==
    /\ P \subseteq Nodes
    /\ Pool.head \in P \cup {NULL} /\ Active.tail \notin P
    /\ \A n \in P :
          /\ link[n].used /\ link[n].val \notin held
          /\ link[n].prev = NULL
          /\ link[n].next \in P \cup {NULL} /\ (link[n].next # NULL => link[n].next # Pool.head)
    /\ \A m, n \in P : link[m].next = link[n].next /\ link[n].next # NULL => m = n

Unlike ==
    /\ \A n \in Nodes : link[n].used <=> link[n].val # NULL
    /\ \A m, n \in Nodes :
          link[m].used /\ link[n].used /\ link[m].val = link[n].val => m = n

Sharing ==
    /\ closed # {}
    /\ Running =>
          /\ Unlike
          /\ \E A, P \in SUBSET Nodes : A \cap P = {} /\ InReach(A) /\ Stacked(P)

(* What a caller is about to move is allocated, and what it gives back is   *)
(* the timer that it releases.                                              *)
Moves(c) ==
    /\ caller[c].pc \in {"take", "give"} =>
          caller[c].at \in Nodes /\ link[caller[c].at].used
    /\ caller[c].pc \in {"walk", "give"} => caller[c].fd # NULL
    /\ caller[c].pc = "give" => link[caller[c].at].val = caller[c].fd

Placed == Running => \A c \in Users : Moves(c)

(* The instance queues nothing but timers. *)
Kinds == user = "instance" => \A n \in Nodes : link[n].val \in Timers \cup {NULL}

Inv == TypeOK /\ Kinds /\ Client /\ Sharing /\ Placed

(* The steps of a caller that read the lists. *)
Reads(c) ==
    \/ TestPool(c) \/ FrontOfPool(c) \/ FindTimer(c)
    \/ \E fd \in Timers : instance_release_timer(c, fd)

-----------------------------------------------------------------------------
(* What the operations of a list do to the nodes.                           *)

Cells == [used : BOOLEAN, prev : Nodes \cup {NULL}, next : Nodes \cup {NULL},
          val : Values \cup Timers \cup {NULL}]

LEMMA StoreKeeps ==
    ASSUME NEW l \in [Nodes -> Cells], NEW n \in Nodes \cup {NULL},
           NEW m \in Nodes \cup {NULL}
    PROVE  /\ Store(l, n, "next", m) \in [Nodes -> Cells]
           /\ Store(l, n, "prev", m) \in [Nodes -> Cells]
           /\ \A x \in Nodes :
                 /\ Store(l, n, "next", m)[x].used = l[x].used
                 /\ Store(l, n, "next", m)[x].val = l[x].val
                 /\ Store(l, n, "next", m)[x].prev = l[x].prev
                 /\ Store(l, n, "next", m)[x].next = IF x = n THEN m ELSE l[x].next
                 /\ Store(l, n, "prev", m)[x].used = l[x].used
                 /\ Store(l, n, "prev", m)[x].val = l[x].val
                 /\ Store(l, n, "prev", m)[x].prev = IF x = n THEN m ELSE l[x].prev
                 /\ Store(l, n, "prev", m)[x].next = l[x].next
  BY QueuesAssumption DEF Store, Cells

LEMMA Typed ==
    ASSUME TypeOK
    PROVE  /\ link \in [Nodes -> Cells] /\ NULL \notin Nodes
           /\ Pending \in [head : Nodes \cup {NULL}, tail : Nodes \cup {NULL}]
           /\ Active \in [head : Nodes \cup {NULL}, tail : Nodes \cup {NULL}]
           /\ Pool \in [head : Nodes \cup {NULL}, tail : Nodes \cup {NULL}]
  BY QueuesAssumption DEF TypeOK, Cells, Pending, Active, Pool, Lists

LEMMA Emplaced ==
    ASSUME TypeOK, NEW q \in Lists, NEW n \in Nodes, NEW v \in Values \cup Timers,
           emplace_back(q, n, v), ends[q].tail # n
    PROVE  /\ ~link[n].used /\ link' \in [Nodes -> Cells]
           /\ link'[n] = [used |-> TRUE, prev |-> ends[q].tail, next |-> NULL, val |-> v]
           /\ \A x \in Nodes \ {n} :
                 /\ link'[x].used = link[x].used /\ link'[x].val = link[x].val
                 /\ link'[x].prev = link[x].prev
                 /\ link'[x].next = IF x = ends[q].tail THEN n ELSE link[x].next
           /\ ends' = [ends EXCEPT ![q] =
                 [head |-> IF ends[q].tail = NULL THEN n ELSE ends[q].head, tail |-> n]]
<1> DEFINE l == [link EXCEPT ![n] =
                    [used |-> TRUE, prev |-> ends[q].tail, next |-> NULL, val |-> v]]
<1>1. link \in [Nodes -> Cells] /\ ends[q].tail \in Nodes \cup {NULL}
  BY Typed DEF TypeOK
<1>2. l \in [Nodes -> Cells]
  BY <1>1 DEF Cells
<1>3. /\ ~link[n].used /\ link' = Store(l, ends[q].tail, "next", n)
      /\ ends' = [ends EXCEPT ![q] =
            [head |-> IF ends[q].tail = NULL THEN n ELSE ends[q].head, tail |-> n]]
  BY DEF emplace_back, Ends
<1>4. l[n] = [used |-> TRUE, prev |-> ends[q].tail, next |-> NULL, val |-> v]
      /\ \A x \in Nodes \ {n} : l[x] = link[x]
  BY <1>1
<1> HIDE DEF l
<1>5. link' \in [Nodes -> Cells]
  BY <1>1, <1>2, <1>3, StoreKeeps
<1>6. \A x \in Nodes :
         /\ link'[x].used = l[x].used /\ link'[x].val = l[x].val
         /\ link'[x].prev = l[x].prev
         /\ link'[x].next = IF x = ends[q].tail THEN n ELSE l[x].next
  <2>1. PICK t \in Nodes \cup {NULL} : t = ends[q].tail
    BY <1>1
  <2>2. link' = Store(l, t, "next", n)
    BY <1>3, <2>1
  <2>3. \A x \in Nodes :
           /\ Store(l, t, "next", n)[x].used = l[x].used
           /\ Store(l, t, "next", n)[x].val = l[x].val
           /\ Store(l, t, "next", n)[x].prev = l[x].prev
           /\ Store(l, t, "next", n)[x].next = IF x = t THEN n ELSE l[x].next
    BY <1>2, QueuesAssumption DEF Store, Cells
  <2> QED
    BY <2>1, <2>2, <2>3
<1>7. link'[n] = [used |-> TRUE, prev |-> ends[q].tail, next |-> NULL, val |-> v]
  BY <1>4, <1>5, <1>6 DEF Cells
<1>8. \A x \in Nodes \ {n} :
         /\ link'[x].used = link[x].used /\ link'[x].val = link[x].val
         /\ link'[x].prev = link[x].prev
         /\ link'[x].next = IF x = ends[q].tail THEN n ELSE link[x].next
  BY <1>4, <1>6
<1> QED
  BY <1>3, <1>5, <1>7, <1>8

LEMMA Popped ==
    ASSUME TypeOK, NEW q \in Lists, ends[q].head # NULL, pop_front(q)
    PROVE  /\ link' \in [Nodes -> Cells] /\ ~link'[ends[q].head].used
           /\ \A x \in Nodes \ {ends[q].head} : link'[x] = link[x]
           /\ ends' = [ends EXCEPT ![q] =
                 [head |-> link[ends[q].head].next,
                  tail |-> IF link[ends[q].head].next = NULL THEN NULL ELSE ends[q].tail]]
<1>1. link \in [Nodes -> Cells] /\ ends[q].head \in Nodes /\ NULL \notin Nodes
  BY Typed DEF TypeOK
<1>2. Blank \in Cells /\ ~Blank.used
  BY DEF Blank, Cells
<1> QED
  BY <1>1, <1>2 DEF pop_front, Free, Ends

-----------------------------------------------------------------------------
(* The list of the client.                                                  *)

LEMMA InjectiveLen ==
    ASSUME NEW s \in Seq(Nodes), \A i, j \in 1..Len(s) : s[i] = s[j] => i = j
    PROVE  Len(s) <= Size
<1>1. Len(s) \in Nat /\ s \in [1..Len(s) -> Nodes]
  BY LenProperties
<1>2. s \in Injection(1..Len(s), Nodes)
  BY <1>1 DEF Injection, IsInjective
<1>3. Cardinality(1..Len(s)) <= Size
  BY <1>2, FS_Injection, QueuesAssumption DEF Size
<1>4. Cardinality(1..Len(s)) = Len(s)
  BY <1>1, FS_Interval
<1> QED
  BY <1>3, <1>4

LEMMA ReadsKeep ==
    ASSUME NEW c \in Users, Reads(c)
    PROVE  /\ Running /\ UNCHANGED <<link, ends, iter, line, closed, user>>
           /\ held' \subseteq held
<1> USE DEF At, client
<1>1. CASE TestPool(c) \/ FrontOfPool(c)
  BY <1>1 DEF TestPool, FrontOfPool
<1>2. CASE FindTimer(c)
  BY <1>2 DEF FindTimer
<1>3. CASE \E fd \in Timers : instance_release_timer(c, fd)
  BY <1>3 DEF instance_release_timer
<1> QED
  BY <1>1, <1>2, <1>3 DEF Reads

LEMMA ClientOther ==
    ASSUME Inv, [Next]_vars,
           ~(\E n \in Nodes, v \in Values : Queue(n, v)), ~ReadFront, ~SendFront
    PROVE  Client'
<1> USE DEF client
<1>1. CASE UNCHANGED vars
  BY <1>1 DEF Inv, Client, Ordered, Chain, Pending, Active, Pool, vars
<1>2. CASE ~UNCHANGED vars
  <2>1. \/ \E c \in Users, n \in Nodes, fd \in Timers : CreateTimer(c, n, fd)
        \/ \E c \in Users : Reads(c) \/ TakeTimer(c) \/ GiveTimer(c)
        \/ CloseActive \/ ClosePool
    BY <1>2 DEF Next, Reads
  <2>2. user = "instance" /\ UNCHANGED <<iter, line, user>>
    BY <2>1, ReadsKeep DEF CloseActive, ClosePool, Closing, CreateTimer, TakeTimer, GiveTimer,
                           At, Running
  <2>3. Pending' = Pending
    <3>1. ASSUME NEW c \in Users, NEW n \in Nodes, NEW fd \in Timers, CreateTimer(c, n, fd)
          PROVE  Pending' = Pending
      BY <3>1 DEF CreateTimer, emplace_back, Ends, Pending, Inv, TypeOK, Lists
    <3>2. CASE CloseActive \/ ClosePool
      BY <3>2 DEF CloseActive, ClosePool, pop_front, Ends, Pending, Inv, TypeOK, Lists
    <3>3. ASSUME NEW c \in Users, TakeTimer(c)
          PROVE  Pending' = Pending
      BY <3>3 DEF TakeTimer, move_to_back, EndsWithout, Ends, Pending, Inv, TypeOK, Lists
    <3>4. ASSUME NEW c \in Users, GiveTimer(c)
          PROVE  Pending' = Pending
      BY <3>4 DEF GiveTimer, move_to_front, EndsWithout, Ends, Pending, Inv, TypeOK, Lists
    <3>5. ASSUME NEW c \in Users, Reads(c)
          PROVE  Pending' = Pending
      BY <3>5, ReadsKeep DEF Pending
    <3> QED
      BY <2>1, <3>1, <3>2, <3>3, <3>4, <3>5
  <2>4. PICK s : Ordered(s)
    BY DEF Inv, Client
  <2>5. line = <<>> /\ s = <<>> /\ iter = NULL
    BY <2>2, <2>4, EmptySeq DEF Inv, Client, Ordered, Chain
  <2>6. Ordered(<<>>)'
    BY <2>2, <2>3, <2>4, <2>5 DEF Ordered, Chain
  <2> QED
    BY <2>2, <2>5, <2>6 DEF Client
<1> QED
  BY <1>1, <1>2

LEMMA QueueOrdered ==
    ASSUME Inv, NEW n \in Nodes, NEW v \in Values, Queue(n, v)
    PROVE  Client'
<1>1. PICK s : Ordered(s)
  BY DEF Inv, Client
<1> DEFINE r == Append(s, n)
           k == Len(s)
<1>2. s \in Seq(Nodes) /\ k \in Nat /\ line \in Seq(Values) /\ NULL \notin Nodes /\ Len(line) = k
  BY <1>1, Typed DEF Ordered, Chain, Inv, TypeOK
<1>3. s # <<>> => k \in 1..k /\ s[k] \in Nodes /\ link[s[k]].used
  BY <1>1, <1>2, EmptySeq, ElementOfSeq DEF Ordered
<1>4. Pending.tail = IF s = <<>> THEN NULL ELSE s[k]
  BY <1>1 DEF Ordered
<1>5. ~link[n].used /\ Pending.tail # n
  BY <1>2, <1>3, <1>4 DEF Queue, emplace_back
<1>6. /\ link'[n] = [used |-> TRUE, prev |-> Pending.tail, next |-> NULL, val |-> v]
      /\ \A x \in Nodes \ {n} :
            /\ link'[x].used = link[x].used /\ link'[x].val = link[x].val
            /\ link'[x].next = IF x = Pending.tail THEN n ELSE link[x].next
      /\ ends' = [ends EXCEPT !["pendingMessages"] =
            [head |-> IF Pending.tail = NULL THEN n ELSE Pending.head, tail |-> n]]
  BY <1>5, Emplaced DEF Queue, Inv, Lists, Pending
<1>7. /\ line' = Append(line, v) /\ UNCHANGED <<iter, closed, user>>
      /\ user = "client"
  BY DEF Queue, instance
<1>8. /\ r \in Seq(Nodes) /\ Len(r) = k + 1 /\ r # <<>>
      /\ \A i \in 1..k : r[i] = s[i]
      /\ r[k + 1] = n
  BY <1>2, AppendProperties
<1>9. /\ Len(line') = k + 1 /\ \A i \in 1..k : line'[i] = line[i]
      /\ line'[k + 1] = v
  BY <1>2, <1>7, AppendProperties
<1>10. \A i \in 1..k : s[i] \in Nodes /\ link[s[i]].used /\ s[i] # n /\ link[s[i]].val = line[i]
  BY <1>1, <1>2, <1>5, ElementOfSeq DEF Ordered
<1>11. \A i \in 1..k + 1 : i \in 1..k \/ i = k + 1
  BY <1>2
<1>12. \A i \in 1..k : i # k + 1 /\ i + 1 \in 1..k + 1 /\ (i = k \/ i + 1 \in 1..k)
  BY <1>2
<1> HIDE DEF r
<1>13. \A i, j \in 1..k + 1 : r[i] = r[j] => i = j
  BY <1>1, <1>8, <1>10, <1>11 DEF Ordered
<1>14. \A i \in 1..k + 1 : link'[r[i]].used /\ link'[r[i]].val = line'[i]
  <2> SUFFICES ASSUME NEW i \in 1..k + 1
               PROVE  link'[r[i]].used /\ link'[r[i]].val = line'[i]
    OBVIOUS
  <2>1. CASE i = k + 1
    BY <1>6, <1>8, <1>9, <2>1
  <2>2. CASE i \in 1..k
    BY <1>6, <1>8, <1>9, <1>10, <2>2
  <2> QED
    BY <1>11, <2>1, <2>2
<1>15. \A i \in 1..k + 1 : link'[r[i]].next = IF i = k + 1 THEN NULL ELSE r[i + 1]
  <2> SUFFICES ASSUME NEW i \in 1..k + 1
               PROVE  link'[r[i]].next = IF i = k + 1 THEN NULL ELSE r[i + 1]
    OBVIOUS
  <2>1. CASE i = k + 1
    BY <1>6, <1>8, <2>1
  <2>2. CASE i \in 1..k
    <3>1. link[s[i]].next = IF i = k THEN NULL ELSE s[i + 1]
      BY <1>1, <2>2 DEF Ordered, Chain
    <3>2. s # <<>>
      BY <1>2, <2>2, EmptySeq
    <3>3. s[i] = Pending.tail <=> i = k
      BY <1>1, <1>3, <1>4, <2>2, <3>2 DEF Ordered
    <3>4. r[i] = s[i] /\ s[i] \in Nodes \ {n} /\ i # k + 1
      BY <1>8, <1>10, <1>12, <2>2
    <3>5. CASE i = k
      BY <1>6, <1>8, <3>3, <3>4, <3>5
    <3>6. CASE i # k
      <4>1. r[i + 1] = s[i + 1]
        BY <1>8, <1>12, <2>2, <3>6
      <4> QED
        BY <1>6, <3>1, <3>3, <3>4, <3>6, <4>1
    <3> QED
      BY <3>5, <3>6
  <2> QED
    BY <1>11, <2>1, <2>2
<1>16. /\ Pending'.head = r[1] /\ Pending'.tail = r[k + 1]
       /\ Active' = Active /\ Pool' = Pool
       /\ iter # NULL => Pending'.head = Pending.head
  <2>1. Pending' = [head |-> IF Pending.tail = NULL THEN n ELSE Pending.head, tail |-> n]
        /\ Active' = Active /\ Pool' = Pool
    BY <1>6 DEF Pending, Active, Pool, Inv, TypeOK, Lists
  <2>2. CASE s = <<>>
    <3>1. k = 0
      BY <2>2, EmptySeq
    <3>2. Pending.head = NULL
      BY <1>1, <2>2 DEF Ordered, Chain
    <3> QED
      BY <1>4, <1>8, <2>1, <2>2, <3>1, <3>2 DEF Inv, Client
  <2>3. CASE s # <<>>
    <3>1. 1 \in 1..k
      BY <1>2, <2>3, EmptySeq
    <3>2. Pending.head = s[1] /\ r[1] = s[1] /\ Pending.tail # NULL
      BY <1>1, <1>2, <1>3, <1>4, <1>8, <2>3, <3>1 DEF Ordered, Chain
    <3> QED
      BY <1>8, <2>1, <3>2
  <2> QED
    BY <2>2, <2>3
<1>17. Chain(link, Pending.head, r)'
  BY <1>8, <1>13, <1>15, <1>16, InjectiveLen DEF Chain
<1>18. Ordered(r)'
  BY <1>8, <1>9, <1>13, <1>14, <1>16, <1>17 DEF Ordered
<1> QED
  BY <1>7, <1>16, <1>18 DEF Inv, Client

LEMMA SendOrdered ==
    ASSUME Inv, SendFront
    PROVE  Client' /\ line # <<>>
<1>1. PICK s : Ordered(s)
  BY DEF Inv, Client
<1> DEFINE r == Tail(s)
           k == Len(s)
           n == Pending.head
<1>2. n # NULL /\ UNCHANGED <<closed, user>> /\ line' = Tail(line) /\ iter' = NULL
  BY DEF SendFront, Inv, Client, instance
<1>3. s \in Seq(Nodes) /\ s # <<>> /\ n = s[1]
  BY <1>1, <1>2 DEF Ordered, Chain
<1>4. k \in Nat \ {0} /\ 1 \in 1..k
  BY <1>3, EmptySeq
<1>5. line \in Seq(Values) /\ Len(line) = k /\ line # <<>>
  BY <1>1, <1>4, EmptySeq DEF Ordered, Inv, TypeOK
<1>6. r \in Seq(Nodes) /\ Len(r) = k - 1 /\ \A i \in 1..k - 1 : r[i] = s[i + 1]
  BY <1>3, HeadTailProperties
<1>7. Len(line') = k - 1 /\ \A i \in 1..k - 1 : line'[i] = line[i + 1]
  BY <1>2, <1>5, HeadTailProperties
<1>8. /\ \A x \in Nodes \ {n} : link'[x] = link[x]
      /\ ends' = [ends EXCEPT !["pendingMessages"] =
            [head |-> link[n].next, tail |-> IF link[n].next = NULL THEN NULL ELSE Pending.tail]]
  BY <1>2, Popped DEF SendFront, Inv, Lists, Pending
<1>9. \A i \in 1..k - 1 : i + 1 \in 1..k /\ i + 1 # 1 /\ (i + 1 = k <=> i = k - 1)
  BY <1>4
<1>10. \A i \in 1..k - 1 : r[i] \in Nodes \ {n} /\ r[i] = s[i + 1]
  <2> SUFFICES ASSUME NEW i \in 1..k - 1 PROVE s[i + 1] \in Nodes \ {n}
    BY <1>6
  <2>1. s[i + 1] \in Nodes
    BY <1>3, <1>9, ElementOfSeq
  <2>2. s[i + 1] # s[1]
    BY <1>1, <1>4, <1>9 DEF Ordered
  <2> QED
    BY <1>3, <2>1, <2>2
<1>11. r = <<>> <=> k = 1
  <2>1. r = <<>> => Len(r) = 0
    BY EmptySeq
  <2>2. r # <<>> => Len(r) \in Nat \ {0}
    BY <1>6, EmptySeq
  <2> QED
    BY <1>4, <1>6, <2>1, <2>2
<1>12. link[n].next = IF k = 1 THEN NULL ELSE s[2]
  BY <1>1, <1>3, <1>4 DEF Ordered, Chain
<1>13. k # 1 => 1 \in 1..k - 1 /\ 2 \in 1..k /\ k - 1 \in 1..k - 1 /\ (k - 1) + 1 = k
  <2>1. \A m \in Nat \ {0} : m # 1 =>
           1 \in 1..m - 1 /\ 2 \in 1..m /\ m - 1 \in 1..m - 1 /\ (m - 1) + 1 = m
    OBVIOUS
  <2> QED
    BY <1>4, <2>1
<1>14. k # 1 => r[1] = s[2] /\ s[2] \in Nodes /\ r[k - 1] = s[k]
  <2>1. k # 1 => r[1] = s[1 + 1] /\ r[1] \in Nodes /\ r[k - 1] = s[(k - 1) + 1]
    BY <1>10, <1>13
  <2> QED
    BY <1>13, <2>1
<1>15. Pending.tail = s[k]
  BY <1>1, <1>3 DEF Ordered
<1> HIDE DEF r
<1>16. /\ Pending'.head = IF r = <<>> THEN NULL ELSE r[1]
       /\ Pending'.tail = IF r = <<>> THEN NULL ELSE r[Len(r)]
       /\ Active' = Active /\ Pool' = Pool
  <2>1. /\ Pending' = [head |-> link[n].next,
                       tail |-> IF link[n].next = NULL THEN NULL ELSE Pending.tail]
        /\ Active' = Active /\ Pool' = Pool
    BY <1>8 DEF Pending, Active, Pool, Inv, TypeOK, Lists
  <2>2. NULL \notin Nodes
    BY QueuesAssumption
  <2> QED
    BY <1>6, <1>11, <1>12, <1>14, <1>15, <2>1, <2>2
<1>17. \A i, j \in 1..k - 1 : r[i] = r[j] => i = j
  <2> SUFFICES ASSUME NEW i \in 1..k - 1, NEW j \in 1..k - 1, r[i] = r[j] PROVE i = j
    OBVIOUS
  <2>1. s[i + 1] = s[j + 1] /\ i + 1 \in 1..k /\ j + 1 \in 1..k
    BY <1>9, <1>10
  <2>2. i + 1 = j + 1
    BY <1>1, <2>1 DEF Ordered
  <2> QED
    BY <1>4, <2>2
<1>18. \A i \in 1..k - 1 : link'[r[i]].used /\ link'[r[i]].val = line'[i]
  BY <1>1, <1>7, <1>8, <1>9, <1>10 DEF Ordered
<1>19. \A i \in 1..k - 1 : link'[r[i]].next = IF i = k - 1 THEN NULL ELSE r[i + 1]
  <2> SUFFICES ASSUME NEW i \in 1..k - 1
               PROVE  link'[r[i]].next = IF i = k - 1 THEN NULL ELSE r[i + 1]
    OBVIOUS
  <2>1. link'[r[i]].next = IF i + 1 = k THEN NULL ELSE s[(i + 1) + 1]
    BY <1>1, <1>8, <1>9, <1>10 DEF Ordered, Chain
  <2>2. i # k - 1 => i + 1 \in 1..k - 1
    BY <1>4
  <2> QED
    BY <1>9, <1>10, <2>1, <2>2
<1>20. Chain(link, Pending.head, r)'
  BY <1>6, <1>16, <1>17, <1>19, InjectiveLen DEF Chain
<1>21. Ordered(r)'
  BY <1>6, <1>7, <1>16, <1>17, <1>18, <1>20 DEF Ordered
<1>22. user = "client"
  BY <1>5 DEF Inv, Client, TypeOK
<1> QED
  BY <1>2, <1>5, <1>16, <1>21, <1>22 DEF Inv, Client

LEMMA ClientStep == Inv /\ [Next]_vars => Client'
<1> SUFFICES ASSUME Inv, [Next]_vars PROVE Client'
  OBVIOUS
<1>1. CASE ReadFront
  <2>1. PICK s : Ordered(s)
    BY DEF Inv, Client
  <2>2. /\ UNCHANGED <<link, ends, line, closed, user>> /\ iter' = Pending.head
        /\ Pending.head # NULL
    BY <1>1 DEF ReadFront, instance, Pending
  <2>3. Ordered(s)' /\ Pending' = Pending /\ Active' = Active /\ Pool' = Pool
    BY <2>1, <2>2 DEF Ordered, Chain, Pending, Active, Pool
  <2>4. line # <<>>
    BY <2>1, <2>2, EmptySeq DEF Ordered, Chain
  <2> QED
    BY <2>2, <2>3, <2>4 DEF Inv, Client
<1> QED
  BY <1>1, ClientOther, QueueOrdered, SendOrdered

-----------------------------------------------------------------------------
(* The timers.                                                              *)

LEMMA UnlinkedFacts ==
    ASSUME TypeOK, NEW n \in Nodes
    PROVE  /\ Unlinked(n) \in [Nodes -> Cells]
           /\ \A y \in Nodes :
                 /\ Unlinked(n)[y].used = link[y].used /\ Unlinked(n)[y].val = link[y].val
                 /\ Unlinked(n)[y].next =
                       IF y = link[n].prev THEN link[n].next ELSE link[y].next
                 /\ Unlinked(n)[y].prev =
                       IF y = link[n].next THEN link[n].prev ELSE link[y].prev
<1>1. link \in [Nodes -> Cells]
  BY Typed
<1>2. PICK p \in Nodes \cup {NULL}, x \in Nodes \cup {NULL} : p = link[n].prev /\ x = link[n].next
  BY <1>1 DEF Cells
<1>3. PICK l \in [Nodes -> Cells] : l = Store(link, p, "next", x)
  BY <1>1, StoreKeeps
<1>4. \A y \in Nodes :
         /\ l[y].used = link[y].used /\ l[y].val = link[y].val /\ l[y].prev = link[y].prev
         /\ l[y].next = IF y = p THEN x ELSE link[y].next
  BY <1>1, <1>3, QueuesAssumption DEF Store, Cells
<1>5. Unlinked(n) = Store(l, x, "prev", p)
  BY <1>2, <1>3 DEF Unlinked
<1>6. /\ Store(l, x, "prev", p) \in [Nodes -> Cells]
      /\ \A y \in Nodes :
            /\ Store(l, x, "prev", p)[y].used = l[y].used
            /\ Store(l, x, "prev", p)[y].val = l[y].val
            /\ Store(l, x, "prev", p)[y].prev = IF y = x THEN p ELSE l[y].prev
            /\ Store(l, x, "prev", p)[y].next = l[y].next
  BY QueuesAssumption DEF Store, Cells
<1> QED
  BY <1>2, <1>4, <1>5, <1>6

(* n moves from one end of two lists to the other: its next and prev are    *)
(* set last.                                                                *)
LEMMA MovedToBack ==
    ASSUME TypeOK, NEW n \in Nodes, move_to_back("timerPool", n, "activeTimers")
    PROVE  /\ link' \in [Nodes -> Cells]
           /\ \A y \in Nodes :
                 /\ link'[y].used = link[y].used /\ link'[y].val = link[y].val
                 /\ link'[y].next = IF y = n THEN NULL
                                    ELSE IF y = link[n].prev THEN link[n].next
                                    ELSE link[y].next
                 /\ link'[y].prev = IF y = n THEN Active.tail
                                    ELSE IF y = link[n].next THEN link[n].prev
                                    ELSE link[y].prev
           /\ Pool' = [head |-> IF link[n].prev = NULL THEN link[n].next ELSE Pool.head,
                       tail |-> IF link[n].next = NULL THEN link[n].prev ELSE Pool.tail]
           /\ Active' = [head |-> IF Active.head = NULL THEN n ELSE Active.head, tail |-> n]
           /\ Pending' = Pending
<1>1. PICK l \in [Nodes -> Cells] :
         /\ l = Unlinked(n)
         /\ \A y \in Nodes :
               /\ l[y].used = link[y].used /\ l[y].val = link[y].val
               /\ l[y].next = IF y = link[n].prev THEN link[n].next ELSE link[y].next
               /\ l[y].prev = IF y = link[n].next THEN link[n].prev ELSE link[y].prev
  BY UnlinkedFacts
<1>2. PICK t \in Nodes \cup {NULL} : t = Active.tail
  BY Typed
<1>3. link' = [l EXCEPT ![n].next = NULL, ![n].prev = t]
  BY <1>1, <1>2 DEF move_to_back, Active
<1>4. /\ link' \in [Nodes -> Cells]
      /\ \A y \in Nodes :
            /\ link'[y].used = l[y].used /\ link'[y].val = l[y].val
            /\ link'[y].next = IF y = n THEN NULL ELSE l[y].next
            /\ link'[y].prev = IF y = n THEN t ELSE l[y].prev
  BY <1>3 DEF Cells
<1>5. /\ Pool' = [head |-> IF link[n].prev = NULL THEN link[n].next ELSE Pool.head,
                  tail |-> IF link[n].next = NULL THEN link[n].prev ELSE Pool.tail]
      /\ Active' = [head |-> IF Active.head = NULL THEN n ELSE Active.head, tail |-> n]
      /\ Pending' = Pending
  BY DEF move_to_back, EndsWithout, Ends, Pool, Active, Pending, TypeOK, Lists
<1> QED
  BY <1>1, <1>2, <1>4, <1>5

LEMMA MovedToFront ==
    ASSUME TypeOK, NEW n \in Nodes, move_to_front("activeTimers", n, "timerPool")
    PROVE  /\ link' \in [Nodes -> Cells]
           /\ \A y \in Nodes :
                 /\ link'[y].used = link[y].used /\ link'[y].val = link[y].val
                 /\ link'[y].next = IF y = n THEN Pool.head
                                    ELSE IF y = link[n].prev THEN link[n].next
                                    ELSE link[y].next
                 /\ link'[y].prev = IF y = n THEN NULL
                                    ELSE IF y = link[n].next THEN link[n].prev
                                    ELSE link[y].prev
           /\ Active' = [head |-> IF link[n].prev = NULL THEN link[n].next ELSE Active.head,
                         tail |-> IF link[n].next = NULL THEN link[n].prev ELSE Active.tail]
           /\ Pool' = [head |-> n, tail |-> IF Pool.tail = NULL THEN n ELSE Pool.tail]
           /\ Pending' = Pending
<1>1. PICK l \in [Nodes -> Cells] :
         /\ l = Unlinked(n)
         /\ \A y \in Nodes :
               /\ l[y].used = link[y].used /\ l[y].val = link[y].val
               /\ l[y].next = IF y = link[n].prev THEN link[n].next ELSE link[y].next
               /\ l[y].prev = IF y = link[n].next THEN link[n].prev ELSE link[y].prev
  BY UnlinkedFacts
<1>2. PICK h \in Nodes \cup {NULL} : h = Pool.head
  BY Typed
<1>3. link' = [l EXCEPT ![n].prev = NULL, ![n].next = h]
  BY <1>1, <1>2 DEF move_to_front, Pool
<1>4. /\ link' \in [Nodes -> Cells]
      /\ \A y \in Nodes :
            /\ link'[y].used = l[y].used /\ link'[y].val = l[y].val
            /\ link'[y].next = IF y = n THEN h ELSE l[y].next
            /\ link'[y].prev = IF y = n THEN NULL ELSE l[y].prev
  BY <1>3 DEF Cells
<1>5. /\ Active' = [head |-> IF link[n].prev = NULL THEN link[n].next ELSE Active.head,
                    tail |-> IF link[n].next = NULL THEN link[n].prev ELSE Active.tail]
      /\ Pool' = [head |-> n, tail |-> IF Pool.tail = NULL THEN n ELSE Pool.tail]
      /\ Pending' = Pending
  BY DEF move_to_front, EndsWithout, Ends, Pool, Active, Pending, TypeOK, Lists
<1> QED
  BY <1>1, <1>2, <1>4, <1>5

LEMMA CreateSharing ==
    ASSUME Inv, NEW c \in Users, NEW n \in Nodes, NEW fd \in Timers, CreateTimer(c, n, fd)
    PROVE  Sharing'
<1>1. /\ Running /\ UNCHANGED <<closed, user>>
      /\ fd \notin {link[m].val : m \in {m \in Nodes : link[m].used}}
      /\ held' = held \cup {fd}
  BY DEF CreateTimer, At
<1>2. PICK A \in SUBSET Nodes, P \in SUBSET Nodes :
         A \cap P = {} /\ InReach(A) /\ Stacked(P)
  BY <1>1 DEF Inv, Sharing
<1>3. NULL \notin Nodes /\ Active.tail \in Nodes \cup {NULL} /\ ~link[n].used
  BY Typed DEF Inv, CreateTimer, emplace_back
<1>4. Active.tail # n /\ n \notin A \cup P
  BY <1>2, <1>3 DEF InReach, Stacked
<1>5. /\ link'[n] = [used |-> TRUE, prev |-> Active.tail, next |-> NULL, val |-> fd]
      /\ \A y \in Nodes \ {n} :
            /\ link'[y].used = link[y].used /\ link'[y].val = link[y].val
            /\ link'[y].prev = link[y].prev
            /\ link'[y].next = IF y = Active.tail THEN n ELSE link[y].next
      /\ ends' = [ends EXCEPT !["activeTimers"] =
            [head |-> IF Active.tail = NULL THEN n ELSE Active.head, tail |-> n]]
  BY <1>4, Emplaced DEF CreateTimer, Inv, Lists, Active
<1>6. /\ Active' = [head |-> IF Active.tail = NULL THEN n ELSE Active.head, tail |-> n]
      /\ Pool' = Pool
  BY <1>5 DEF Active, Pool, Inv, TypeOK, Lists
<1>7. Unlike' /\ closed' # {}
  BY <1>1, <1>3, <1>5, QueuesAssumption DEF Inv, Sharing, Unlike
<1>8. Stacked(P)'
  BY <1>1, <1>2, <1>3, <1>4, <1>5, <1>6 DEF Stacked
<1>9. CASE Active.tail = NULL
  <2>1. InReach({n})'
    BY <1>3, <1>5, <1>6, <1>9 DEF InReach
  <2> QED
    BY <1>2, <1>4, <1>7, <1>8, <2>1 DEF Sharing
<1>10. CASE Active.tail \in A
  <2>1. InReach(A \cup {n})'
    BY <1>2, <1>3, <1>4, <1>5, <1>6, <1>10 DEF InReach
  <2> QED
    BY <1>2, <1>4, <1>7, <1>8, <2>1 DEF Sharing
<1>11. CASE Active.tail # NULL /\ Active.tail \notin A
  <2>1. InReach(A)'
    BY <1>2, <1>3, <1>4, <1>5, <1>6, <1>11 DEF InReach
  <2> QED
    BY <1>2, <1>7, <1>8, <2>1 DEF Sharing
<1> QED
  BY <1>9, <1>10, <1>11

LEMMA TakeSharing ==
    ASSUME Inv, NEW c \in Users, TakeTimer(c), caller[c].at = Pool.head
    PROVE  Sharing' /\ link[Pool.head].val \notin held
<1>1. /\ Running /\ Pool.head # NULL /\ UNCHANGED <<closed, user>>
      /\ held' = held \cup {link[Pool.head].val}
      /\ move_to_back("timerPool", Pool.head, "activeTimers")
  BY QueuesAssumption DEF TakeTimer, At, Inv, Placed, Moves
<1>2. PICK A \in SUBSET Nodes, P \in SUBSET Nodes :
         A \cap P = {} /\ InReach(A) /\ Stacked(P)
  BY <1>1 DEF Inv, Sharing
<1>3. PICK n \in P : n = Pool.head
  BY <1>1, <1>2 DEF Stacked
<1>4. NULL \notin Nodes /\ link[n].prev = NULL /\ n \in Nodes
  BY <1>2, <1>3, QueuesAssumption DEF Stacked
<1>5. /\ \A y \in Nodes :
            /\ link'[y].used = link[y].used /\ link'[y].val = link[y].val
            /\ link'[y].next = IF y = n THEN NULL ELSE link[y].next
            /\ link'[y].prev = IF y = n THEN Active.tail
                               ELSE IF y = link[n].next THEN NULL ELSE link[y].prev
      /\ Pool'.head = link[n].next
      /\ Active' = [head |-> IF Active.head = NULL THEN n ELSE Active.head, tail |-> n]
  BY <1>1, <1>3, <1>4, MovedToBack DEF Inv
<1>6. Unlike' /\ closed' # {}
  BY <1>1, <1>5 DEF Inv, Sharing, Unlike
<1> DEFINE Q == P \ {n}
<1>7. Stacked(Q)'
  <2>1. \A m \in P \ {n} : link[m].val # link[n].val
    BY <1>1, <1>2, <1>3 DEF Inv, Sharing, Unlike, Stacked
  <2> QED
    BY <1>1, <1>2, <1>3, <1>4, <1>5, <2>1 DEF Stacked
<1>8. link[Pool.head].val \notin held
  BY <1>2, <1>3 DEF Stacked
<1>9. CASE Active.head = NULL
  <2>1. InReach({n})'
    BY <1>2, <1>3, <1>4, <1>5, <1>9 DEF InReach, Stacked
  <2>2. {n} \cap Q = {} /\ {n} \in SUBSET Nodes /\ Q \in SUBSET Nodes
    BY <1>2, <1>4
  <2> HIDE DEF Q
  <2> QED
    BY <1>6, <1>7, <1>8, <2>1, <2>2 DEF Sharing
<1>10. CASE Active.head # NULL
  <2>1. InReach(A)'
    BY <1>2, <1>3, <1>4, <1>5, <1>10 DEF InReach, Stacked
  <2>2. A \cap Q = {} /\ Q \in SUBSET Nodes
    BY <1>2
  <2> HIDE DEF Q
  <2> QED
    BY <1>6, <1>7, <1>8, <2>1, <2>2 DEF Sharing
<1> QED
  BY <1>9, <1>10

LEMMA GiveSharing ==
    ASSUME Inv, NEW c \in Users, GiveTimer(c), ~raced'
    PROVE  Sharing'
<1>1. Running /\ UNCHANGED <<closed, user>> /\ held' = held \ {caller[c].fd}
  BY DEF GiveTimer, At
<1>2. PICK A \in SUBSET Nodes, P \in SUBSET Nodes :
         A \cap P = {} /\ InReach(A) /\ Stacked(P)
  BY <1>1 DEF Inv, Sharing
<1>3. PICK fd : fd = caller[c].fd /\ fd = link[caller[c].at].val
  BY <1>1 DEF GiveTimer, At, Inv, Placed, Moves
<1>4. held' = held \ {fd}
  BY <1>1, <1>3
<1>5. QED
  <2>1. PICK i \in DOMAIN Walk("activeTimers") :
           /\ Walk("activeTimers")[i] = caller[c].at
           /\ link[Walk("activeTimers")[i]].val = fd
           /\ move_to_front("activeTimers", Walk("activeTimers")[i], "timerPool")
    BY <1>3 DEF GiveTimer, Range
  <2>2. PICK w \in Seq(A) : w = Walk("activeTimers")
    BY <1>2, WalkWithin DEF InReach, Active
  <2>3. PICK n \in A : n = w[i]
    BY <2>1, <2>2, LenProperties, ElementOfSeq
  <2>4. Active.head # NULL
    <3> SUFFICES ASSUME Active.head = NULL PROVE FALSE
      OBVIOUS
    <3>1. w \in Seq({})
      BY <2>2, WalkWithin DEF Active
    <3>2. i \in 1..Len(w)
      BY <2>1, <2>2, LenProperties
    <3> QED
      BY <3>1, <3>2, ElementOfSeq
  <2>5. NULL \notin Nodes /\ n \in Nodes /\ link[n].val = fd
    BY <2>1, <2>2, <2>3, QueuesAssumption
  <2>6. PICK p \in A \cup {NULL}, x \in A \cup {NULL} : p = link[n].prev /\ x = link[n].next
    BY <1>2 DEF InReach
  <2>7. /\ \A y \in Nodes :
              /\ link'[y].used = link[y].used /\ link'[y].val = link[y].val
              /\ link'[y].next = IF y = n THEN Pool.head
                                 ELSE IF y = p THEN x ELSE link[y].next
              /\ link'[y].prev = IF y = n THEN NULL
                                 ELSE IF y = x THEN p ELSE link[y].prev
        /\ Active' = [head |-> IF p = NULL THEN x ELSE Active.head,
                      tail |-> IF x = NULL THEN p ELSE Active.tail]
        /\ Pool'.head = n
    BY <2>1, <2>2, <2>3, <2>5, <2>6, MovedToFront DEF Inv
  <2>8. Unlike' /\ closed' # {}
    BY <1>1, <2>7 DEF Inv, Sharing, Unlike
  <2>9. \A y \in A : /\ link[y].next = n <=> y = p
                     /\ link[y].prev = n <=> y = x
    BY <1>2, <2>6 DEF InReach
  <2>10. /\ x # NULL => Active.tail # n /\ Active.tail # p
         /\ x = n <=> p = n
    <3>1. x = n <=> p = n
      BY <2>5, <2>6, <2>9
    <3>2. ASSUME x # NULL PROVE Active.tail # n /\ Active.tail # p
      <4>1. Active.tail # NULL /\ link[Active.tail].next = NULL
        BY <1>2, <2>4 DEF InReach
      <4>2. link[n].next = x /\ (p # NULL => link[p].next = n)
        BY <2>5, <2>6, <2>9
      <4> QED
        BY <2>5, <3>2, <4>1, <4>2
    <3> QED
      BY <3>1, <3>2
  <2>11. Stacked(P \cup {n})'
    <3>1. Active'.tail \notin P \cup {n}
      BY <1>2, <2>5, <2>6, <2>7, <2>10 DEF Stacked
    <3> QED
      BY <1>2, <1>4, <2>5, <2>6, <2>7, <3>1 DEF Stacked, InReach
  <2>12. InReach(A \ {n})'
    <3>1. /\ A \ {n} \subseteq Nodes
          /\ Active'.head \in (A \ {n}) \cup {NULL}
          /\ Active'.head = NULL <=> Active'.tail = NULL
      BY <1>2, <2>4, <2>5, <2>6, <2>7, <2>9, <2>10 DEF InReach
    <3>2. Active'.tail # NULL => link'[Active'.tail].used /\ link'[Active'.tail].next = NULL
      BY <1>2, <2>4, <2>5, <2>6, <2>7, <2>9, <2>10, Typed DEF InReach, Inv
    <3>3. ASSUME NEW y \in A \ {n}
          PROVE  /\ link'[y].used
                 /\ link'[y].next \in (A \ {n}) \cup {NULL}
                 /\ link'[y].prev \in (A \ {n}) \cup {NULL}
                 /\ link'[y].prev = NULL <=> y = Active'.head
      BY <1>2, <2>5, <2>6, <2>7, <2>9, <2>10 DEF InReach
    <3>4. ASSUME NEW y \in A \ {n}, NEW z \in A \ {n}
          PROVE  link'[y].next = z <=> link'[z].prev = y
      BY <1>2, <2>5, <2>6, <2>7, <2>9, <2>10 DEF InReach
    <3> QED
      BY <3>1, <3>2, <3>3, <3>4 DEF InReach
  <2>13. (A \ {n}) \cap (P \cup {n}) = {} /\ P \cup {n} \in SUBSET Nodes
    BY <1>2, <2>5
  <2> QED
    BY <2>8, <2>11, <2>12, <2>13 DEF Sharing

LEMMA ReadsSharing ==
    ASSUME Inv, NEW c \in Users, Reads(c)
    PROVE  Sharing'
<1>1. Running /\ UNCHANGED <<link, ends, closed, user>> /\ held' \subseteq held
  BY ReadsKeep
<1>2. PICK A \in SUBSET Nodes, P \in SUBSET Nodes :
         A \cap P = {} /\ InReach(A) /\ Stacked(P)
  BY <1>1 DEF Inv, Sharing
<1>3. InReach(A)' /\ Stacked(P)' /\ Unlike' /\ closed' # {}
  BY <1>1, <1>2 DEF InReach, Stacked, Active, Pool, Unlike, Inv, Sharing
<1> QED
  BY <1>2, <1>3 DEF Sharing

LEMMA ClientActs ==
    ASSUME Inv, (\E n \in Nodes, v \in Values : Queue(n, v)) \/ ReadFront \/ SendFront
    PROVE  user = "client" /\ UNCHANGED <<closed, user>>
<1>1. user = "client"
  <2>1. PICK s : Ordered(s)
    BY DEF Inv, Client
  <2>2. Pending.head # NULL => line # <<>>
    BY <2>1, EmptySeq DEF Ordered, Chain
  <2> QED
    BY <2>2 DEF Queue, ReadFront, SendFront, Pending, Inv, Client, TypeOK
<1> QED
  BY <1>1 DEF Queue, ReadFront, SendFront, instance

LEMMA CloseEnds ==
    ASSUME Inv, CloseActive \/ ClosePool
    PROVE  closed' # {} /\ ~Running'
<1>1. PICK n \in Nodes : /\ n = Active.head \/ n = Pool.head
                        /\ closed' = (closed \ {NULL}) \cup {link[n].val}
  BY Typed DEF CloseActive, ClosePool, Active, Pool, Inv
<1>2. CASE Running
  <2>1. link[n].val # NULL
    BY <1>1, <1>2, QueuesAssumption DEF Inv, Sharing, InReach, Stacked, Unlike
  <2> QED
    BY <1>1, <2>1 DEF Running
<1>3. CASE ~Running
  <2>1. \E f \in closed : f # NULL
    BY <1>3 DEF CloseActive, ClosePool, Closing, Running, Inv, Sharing
  <2> QED
    BY <1>1, <2>1 DEF Running
<1> QED
  BY <1>2, <1>3

LEMMA SharingStep == Inv /\ [Next]_vars => Sharing'
<1> SUFFICES ASSUME Inv, [Next]_vars PROVE Sharing'
  OBVIOUS
<1>1. CASE UNCHANGED vars
  BY <1>1 DEF vars, Inv, Sharing, Running, Unlike, InReach, Stacked, Active, Pool
<1>2. CASE (\E n \in Nodes, v \in Values : Queue(n, v)) \/ ReadFront \/ SendFront
  BY <1>2, ClientActs DEF Sharing, Running, Inv
<1>3. CASE CloseActive \/ ClosePool
  BY <1>3, CloseEnds DEF Sharing
<1>4. ASSUME NEW c \in Users, TakeTimer(c) \/ GiveTimer(c)
      PROVE  Sharing'
  <2>1. CASE raced'
    BY <1>4, <2>1 DEF TakeTimer, GiveTimer, Sharing, Running, Inv
  <2>2. CASE ~raced'
    <3>1. TakeTimer(c) => caller[c].at = Pool.head
      BY <2>2 DEF TakeTimer, Pool
    <3> QED
      BY <1>4, <2>2, <3>1, TakeSharing, GiveSharing
  <2> QED
    BY <2>1, <2>2
<1>5. CASE \/ \E c \in Users : Reads(c)
           \/ \E c \in Users, n \in Nodes, fd \in Timers : CreateTimer(c, n, fd)
  BY <1>5, CreateSharing, ReadsSharing
<1> QED
  BY <1>1, <1>2, <1>3, <1>4, <1>5 DEF Next, Reads

-----------------------------------------------------------------------------
(* Types.                                                                   *)

(* The moves of the instance leave the nodes what they carry. *)
LEMMA MovesType ==
    ASSUME Inv, NEW c \in Users, TakeTimer(c) \/ GiveTimer(c)
    PROVE  /\ link' \in [Nodes -> Cells]
           /\ \A y \in Nodes : link'[y].val = link[y].val /\ link'[y].used = link[y].used
           /\ ends' \in [Lists -> [head : Nodes \cup {NULL}, tail : Nodes \cup {NULL}]]
<1>1. PICK n \in Nodes : n = caller[c].at
  BY DEF TakeTimer, GiveTimer, At, Inv, Placed, Moves
<1>2. ASSUME NEW m \in Nodes, NEW q \in Lists, NEW a \in Lists,
             move_to_back(q, m, a) \/ move_to_front(q, m, a)
      PROVE  ends' \in [Lists -> [head : Nodes \cup {NULL}, tail : Nodes \cup {NULL}]]
  <2> DEFINE E == [head : Nodes \cup {NULL}, tail : Nodes \cup {NULL}]
  <2>1. link[m] \in Cells /\ ends \in [Lists -> E]
    BY Typed DEF Inv, TypeOK
  <2>2. EndsWithout(q, m) \in [Lists -> E]
    BY <2>1 DEF EndsWithout, Ends, Cells
  <2>3. PICK x \in E : ends' = [EndsWithout(q, m) EXCEPT ![a] = x]
    BY <1>2, <2>1 DEF move_to_back, move_to_front
  <2> HIDE DEF E
  <2>4. ends' \in [Lists -> E]
    BY <2>2, <2>3
  <2> QED
    BY <2>4 DEF E
<1>3. CASE TakeTimer(c)
  <2>1. move_to_back("timerPool", n, "activeTimers")
    BY <1>1, <1>3 DEF TakeTimer
  <2> QED
    BY <1>2, <2>1, MovedToBack DEF Inv, Lists
<1>4. CASE GiveTimer(c)
  <2>1. move_to_front("activeTimers", n, "timerPool")
    BY <1>1, <1>4 DEF GiveTimer
  <2> QED
    BY <1>2, <2>1, MovedToFront DEF Inv, Lists
<1> QED
  BY <1>3, <1>4

LEMMA EmplacedType ==
    ASSUME TypeOK, NEW q \in Lists, NEW n \in Nodes, NEW v \in Values \cup Timers,
           emplace_back(q, n, v)
    PROVE  /\ link' \in [Nodes -> Cells]
           /\ ends' \in [Lists -> [head : Nodes \cup {NULL}, tail : Nodes \cup {NULL}]]
           /\ \A y \in Nodes : /\ link'[y].val \in {link[y].val, v}
                               /\ link[y].used => link'[y].used /\ link'[y].val = link[y].val
<1>1. PICK t \in Nodes \cup {NULL} : t = ends[q].tail
  BY DEF TypeOK
<1>2. PICK c \in Cells : c = [used |-> TRUE, prev |-> t, next |-> NULL, val |-> v]
  BY DEF Cells
<1>3. PICK l \in [Nodes -> Cells] : l = [link EXCEPT ![n] = c]
  BY <1>2, Typed
<1>4. \A y \in Nodes : /\ l[y].val \in {link[y].val, v}
                       /\ link[y].used => l[y].used /\ l[y].val = link[y].val
  <2>1. ~link[n].used
    BY DEF emplace_back
  <2> QED
    BY <1>2, <1>3, <2>1, Typed
<1>5. link' = Store(l, t, "next", n)
  BY <1>1, <1>2, <1>3 DEF emplace_back
<1>6. /\ link' \in [Nodes -> Cells]
      /\ \A y \in Nodes : link'[y].val = l[y].val /\ link'[y].used = l[y].used
  <2>1. /\ Store(l, t, "next", n) \in [Nodes -> Cells]
        /\ \A y \in Nodes : /\ Store(l, t, "next", n)[y].val = l[y].val
                            /\ Store(l, t, "next", n)[y].used = l[y].used
    BY QueuesAssumption DEF Store, Cells
  <2> QED
    BY <1>5, <2>1
<1>7. ends' \in [Lists -> [head : Nodes \cup {NULL}, tail : Nodes \cup {NULL}]]
  BY DEF emplace_back, Ends, TypeOK
<1> QED
  BY <1>4, <1>6, <1>7

Calls == [Users -> [pc : {"idle", "create", "front", "take", "walk", "give"},
                    at : Nodes \cup {NULL}, fd : Timers \cup {NULL}]]

LEMMA CallsStep == Inv /\ [Next]_vars => caller' \in Calls /\ raced' \in BOOLEAN
<1> SUFFICES ASSUME Inv, [Next]_vars PROVE caller' \in Calls /\ raced' \in BOOLEAN
  OBVIOUS
<1>1. caller \in Calls /\ raced \in BOOLEAN
  BY DEF Inv, TypeOK, Calls
<1>2. CASE UNCHANGED <<caller, raced>>
  BY <1>1, <1>2
<1>3. ASSUME NEW c \in Users, NEW p \in {"idle", "create", "front", "take", "walk", "give"},
             NEW n \in Nodes \cup {NULL}, NEW fd \in Timers \cup {NULL}, Go(c, p, n, fd)
      PROVE  caller' \in Calls
  BY <1>1, <1>3 DEF Go, Calls
<1>4. ASSUME NEW c \in Users, Returns(c)
      PROVE  caller' \in Calls
  BY <1>1, <1>4 DEF Returns, NoCall, Calls
<1>5. /\ \A q \in Lists : ends[q].head \in Nodes \cup {NULL}
      /\ \A n \in Nodes : link[n].next \in Nodes \cup {NULL}
  BY Typed DEF Inv, TypeOK, Cells
<1>6. \A c \in Users : caller[c].at \in Nodes \cup {NULL} /\ caller[c].fd \in Timers \cup {NULL}
  BY <1>1 DEF Calls
<1>7. ASSUME NEW c \in Users, TestPool(c)
      PROVE  caller' \in Calls /\ raced' \in BOOLEAN
  BY <1>1, <1>3, <1>7 DEF TestPool
<1>8. ASSUME NEW c \in Users, FrontOfPool(c)
      PROVE  caller' \in Calls /\ raced' \in BOOLEAN
  BY <1>3, <1>5, <1>8 DEF FrontOfPool, Lists
<1>9. ASSUME NEW c \in Users, FindTimer(c)
      PROVE  caller' \in Calls /\ raced' \in BOOLEAN
  BY <1>1, <1>3, <1>4, <1>5, <1>6, <1>9 DEF FindTimer
<1>10. ASSUME NEW c \in Users, NEW fd \in Timers, instance_release_timer(c, fd)
       PROVE  caller' \in Calls /\ raced' \in BOOLEAN
  BY <1>1, <1>3, <1>5, <1>10 DEF instance_release_timer, Lists
<1>11. ASSUME NEW c \in Users, TakeTimer(c) \/ GiveTimer(c)
       PROVE  caller' \in Calls /\ raced' \in BOOLEAN
  BY <1>4, <1>11 DEF TakeTimer, GiveTimer
<1>12. ASSUME NEW c \in Users, NEW n \in Nodes, NEW fd \in Timers, CreateTimer(c, n, fd)
       PROVE  caller' \in Calls /\ raced' \in BOOLEAN
  BY <1>1, <1>4, <1>12 DEF CreateTimer
<1>13. CASE \/ \E n \in Nodes, v \in Values : Queue(n, v)
            \/ ReadFront \/ SendFront \/ CloseActive \/ ClosePool \/ UNCHANGED vars
  BY <1>2, <1>13 DEF Queue, ReadFront, SendFront, CloseActive, ClosePool, instance, vars
<1> QED
  BY <1>7, <1>8, <1>9, <1>10, <1>11, <1>12, <1>13 DEF Next

LEMMA PlacedStep == Inv /\ [Next]_vars => Placed'
<1> SUFFICES ASSUME Inv, [Next]_vars, Running' PROVE \A c \in Users : Moves(c)'
  BY DEF Placed
<1>1. /\ link \in [Nodes -> Cells] /\ caller \in Calls /\ NULL \notin Nodes \cup Timers
  BY Typed, QueuesAssumption DEF Inv, TypeOK, Calls
<1>2. CASE UNCHANGED vars
  BY <1>2 DEF vars, Inv, Placed, Moves, Running
<1>3. CASE (\E n \in Nodes, v \in Values : Queue(n, v)) \/ ReadFront \/ SendFront
  BY <1>3, ClientActs DEF Running
<1>4. CASE CloseActive \/ ClosePool
  BY <1>4, CloseEnds
<1>5. ASSUME Running, NEW c \in Users,
             \A y \in Nodes : link[y].used => link'[y].used /\ link'[y].val = link[y].val,
             \A d \in Users \ {c} : caller'[d] = caller[d], Moves(c)'
      PROVE  \A d \in Users : Moves(d)'
  <2>1. ASSUME NEW d \in Users \ {c} PROVE Moves(d)'
    BY <1>5, <2>1 DEF Moves, Inv, Placed
  <2> QED
    BY <1>5, <2>1
<1>6. ASSUME NEW c \in Users, Returns(c)
      PROVE  (\A d \in Users \ {c} : caller'[d] = caller[d]) /\ Moves(c)'
  BY <1>1, <1>6 DEF Returns, NoCall, Calls, Moves
<1>7. ASSUME NEW c \in Users, NEW p, NEW n, NEW fd, Go(c, p, n, fd)
      PROVE  /\ \A d \in Users \ {c} : caller'[d] = caller[d]
             /\ caller'[c].pc = p /\ caller'[c].at = n /\ caller'[c].fd = fd
  BY <1>1, <1>7 DEF Go, Calls
<1>8. ASSUME NEW c \in Users, NEW n \in Nodes, NEW fd \in Timers, CreateTimer(c, n, fd)
      PROVE  \A d \in Users : Moves(d)'
  <2>1. Running /\ Returns(c) /\ emplace_back("activeTimers", n, fd)
    BY <1>8 DEF CreateTimer, At
  <2>2. \A y \in Nodes : link[y].used => link'[y].used /\ link'[y].val = link[y].val
    <3>1. PICK v \in Values \cup Timers, q \in Lists : v = fd /\ emplace_back(q, n, v)
      BY <2>1 DEF Lists
    <3> QED
      BY <3>1, EmplacedType DEF Inv
  <2> QED
    BY <1>5, <1>6, <2>1, <2>2
<1>9. ASSUME NEW c \in Users, TakeTimer(c) \/ GiveTimer(c)
      PROVE  \A d \in Users : Moves(d)'
  <2>1. Running /\ Returns(c)
    BY <1>9 DEF TakeTimer, GiveTimer, At
  <2> QED
    BY <1>5, <1>6, <1>9, <2>1, MovesType
<1>10. ASSUME NEW c \in Users, Reads(c)
       PROVE  \A d \in Users : Moves(d)'
  <2>1. Running /\ link' = link
    BY <1>10, ReadsKeep
  <2>2. PICK P \in SUBSET Nodes : Stacked(P) /\ Unlike
    BY <2>1 DEF Inv, Sharing
  <2>3. CASE TestPool(c)
    <3>1. PICK p \in {"create", "front"} : Go(c, p, NULL, NULL)
      BY <2>3 DEF TestPool
    <3>2. Moves(c)'
      BY <1>7, <3>1 DEF Moves
    <3> QED
      BY <1>5, <1>7, <2>1, <3>1, <3>2
  <2>4. CASE FrontOfPool(c)
    <3>1. Go(c, "take", Pool.head, NULL) /\ Pool.head # NULL
      BY <2>4 DEF FrontOfPool, Pool, Running
    <3>2. Pool.head \in Nodes /\ link[Pool.head].used
      BY <2>2, <3>1 DEF Stacked
    <3>3. Moves(c)'
      BY <1>7, <2>1, <3>1, <3>2 DEF Moves
    <3> QED
      BY <1>5, <1>7, <2>1, <3>1, <3>3
  <2>5. ASSUME NEW fd \in Timers, instance_release_timer(c, fd)
        PROVE  \A d \in Users : Moves(d)'
    <3>1. Go(c, "walk", Active.head, fd)
      BY <2>5 DEF instance_release_timer, Active
    <3>2. Moves(c)'
      BY <1>1, <1>7, <3>1 DEF Moves
    <3> QED
      BY <1>5, <1>7, <2>1, <3>1, <3>2
  <2>6. CASE FindTimer(c)
    <3>1. PICK n, fd : n = caller[c].at /\ fd = caller[c].fd
      OBVIOUS
    <3>2. fd # NULL /\ n \in Nodes \cup {NULL}
      BY <1>1, <2>1, <2>6, <3>1 DEF FindTimer, At, Inv, Placed, Moves, Calls
    <3>3. CASE Returns(c)
      BY <1>5, <1>6, <2>1, <3>3
    <3>4. CASE n # NULL /\ link[n].val = fd /\ Go(c, "give", n, fd)
      <4>1. link[n].used
        BY <2>2, <3>2, <3>4 DEF Unlike
      <4>2. Moves(c)'
        BY <1>7, <2>1, <3>2, <3>4, <4>1 DEF Moves
      <4> QED
        BY <1>5, <1>7, <2>1, <3>4, <4>2
    <3>5. CASE Go(c, "walk", link[n].next, fd)
      <4>1. Moves(c)'
        BY <1>7, <3>2, <3>5 DEF Moves
      <4> QED
        BY <1>5, <1>7, <2>1, <3>5, <4>1
    <3> QED
      BY <2>6, <3>1, <3>3, <3>4, <3>5 DEF FindTimer
  <2> QED
    BY <1>10, <2>3, <2>4, <2>5, <2>6 DEF Reads
<1> QED
  BY <1>2, <1>3, <1>4, <1>8, <1>9, <1>10 DEF Next, Reads

LEMMA TypeStep == Inv /\ [Next]_vars /\ Client' => TypeOK' /\ Kinds'
<1> SUFFICES ASSUME Inv, [Next]_vars, Client' PROVE TypeOK' /\ Kinds'
  OBVIOUS
<1> DEFINE E == [head : Nodes \cup {NULL}, tail : Nodes \cup {NULL}]
<1>1. /\ link \in [Nodes -> Cells] /\ ends \in [Lists -> E] /\ iter \in Nodes \cup {NULL}
      /\ line \in Seq(Values) /\ held \subseteq Timers /\ closed \subseteq Timers \cup {NULL}
      /\ user \in {"client", "instance"}
  BY Typed DEF Inv, TypeOK
<1>2. \A n \in Nodes : link[n].val \in Values \cup Timers \cup {NULL}
  BY <1>1 DEF Cells
<1>3. ASSUME line' \in Seq(Values)
      PROVE  Len(line') <= Size
  BY <1>3 DEF Client, Ordered, Chain
<1>4. ASSUME link' \in [Nodes -> Cells], ends' \in [Lists -> E], iter' \in Nodes \cup {NULL},
             line' \in Seq(Values), held' \subseteq Timers, closed' \subseteq Timers \cup {NULL},
             user' = user
      PROVE  TypeOK'
  BY <1>1, <1>3, <1>4, CallsStep DEF TypeOK, Cells, Size, Calls
<1> HIDE DEF E
<1>5. CASE UNCHANGED vars
  BY <1>1, <1>4, <1>5 DEF vars, Kinds, Inv
<1>6. ASSUME NEW n \in Nodes, NEW v \in Values, Queue(n, v)
      PROVE  TypeOK' /\ Kinds'
  <2>1. user = "client" /\ line' = Append(line, v) /\ UNCHANGED <<iter, held, closed, user>>
    BY <1>6 DEF Queue, instance
  <2>2. link' \in [Nodes -> Cells] /\ ends' \in [Lists -> E]
    BY <1>6, EmplacedType DEF Queue, Inv, Lists, E
  <2>3. line' \in Seq(Values)
    BY <1>1, <2>1, AppendProperties
  <2> QED
    BY <1>1, <1>4, <2>1, <2>2, <2>3 DEF Kinds
<1>7. CASE ReadFront
  <2>1. UNCHANGED <<link, ends, line, held, closed, user>> /\ iter' \in Nodes \cup {NULL}
    BY <1>1, <1>7 DEF ReadFront, instance, Lists, E
  <2> QED
    BY <1>1, <1>4, <2>1 DEF Kinds, Inv
<1>8. ASSUME NEW q \in Lists, pop_front(q)
      PROVE  /\ link' \in [Nodes -> Cells] /\ ends' \in [Lists -> E]
             /\ \A y \in Nodes : link'[y].val \in {link[y].val, NULL}
  <2>1. CASE ends[q].head = NULL
    BY <1>1, <1>8, <2>1 DEF pop_front
  <2>2. CASE ends[q].head # NULL
    <3>1. PICK n \in Nodes : n = ends[q].head
      BY <1>1, <2>2 DEF E
    <3>2. link' = [link EXCEPT ![n] = Blank]
      BY <1>8, <2>2, <3>1 DEF pop_front, Free
    <3>3. ends' \in [Lists -> E]
      BY <1>1, <1>8, <2>2, <3>1 DEF pop_front, Ends, Cells, E
    <3>4. Blank \in Cells /\ Blank.val = NULL
      BY DEF Blank, Cells
    <3> QED
      BY <1>1, <3>2, <3>3, <3>4
  <2> QED
    BY <2>1, <2>2
<1>9. CASE SendFront
  <2>1. /\ line' = Tail(line) /\ iter' = NULL /\ UNCHANGED <<held, closed, user>>
        /\ pop_front("pendingMessages") /\ line # <<>>
    BY <1>9, SendOrdered DEF SendFront, instance
  <2>2. line' \in Seq(Values)
    BY <1>1, <2>1, HeadTailProperties
  <2>3. link' \in [Nodes -> Cells] /\ ends' \in [Lists -> E]
    BY <1>8, <2>1 DEF Lists
  <2>4. user = "client"
    BY <1>1, <2>1 DEF Inv, Client
  <2> QED
    BY <1>1, <1>4, <2>1, <2>2, <2>3, <2>4 DEF Kinds
<1>10. ASSUME NEW c \in Users, NEW n \in Nodes, NEW fd \in Timers, CreateTimer(c, n, fd)
       PROVE  TypeOK' /\ Kinds'
  <2>1. user = "instance" /\ held' = held \cup {fd} /\ UNCHANGED <<iter, line, closed, user>>
    BY <1>10 DEF CreateTimer, At, Running, client
  <2>2. /\ link' \in [Nodes -> Cells] /\ ends' \in [Lists -> E]
        /\ \A y \in Nodes : link'[y].val \in {link[y].val, fd}
    <3>1. PICK v \in Values \cup Timers, q \in Lists : v = fd /\ emplace_back(q, n, v)
      BY <1>10 DEF CreateTimer, Lists
    <3> QED
      BY <3>1, EmplacedType DEF Inv, E
  <2> QED
    BY <1>1, <1>4, <2>1, <2>2 DEF Kinds, Inv
<1>11. ASSUME NEW c \in Users, TakeTimer(c) \/ GiveTimer(c)
       PROVE  TypeOK' /\ Kinds'
  <2>1. user = "instance" /\ UNCHANGED <<iter, line, closed, user>>
    BY <1>11 DEF TakeTimer, GiveTimer, At, Running, client
  <2>2. /\ link' \in [Nodes -> Cells] /\ ends' \in [Lists -> E]
        /\ \A y \in Nodes : link'[y].val = link[y].val
    BY <1>11, MovesType DEF E
  <2>3. held' \subseteq Timers
    <3>1. CASE TakeTimer(c)
      <4>1. PICK n \in Nodes : n = caller[c].at /\ link[n].used /\ Unlike
        BY <3>1 DEF TakeTimer, At, Inv, Placed, Moves, Sharing
      <4>2. held' = held \cup {link[n].val} /\ link[n].val \in Timers \cup {NULL}
        BY <2>1, <3>1, <4>1 DEF TakeTimer, Kinds, Inv
      <4>3. link[n].val # NULL
        BY <4>1 DEF Unlike
      <4> QED
        BY <1>1, <4>2, <4>3
    <3>2. CASE GiveTimer(c)
      BY <1>1, <3>2 DEF GiveTimer
    <3> QED
      BY <1>11, <3>1, <3>2
  <2> QED
    BY <1>1, <1>4, <2>1, <2>2, <2>3 DEF Kinds, Inv
<1>13. ASSUME NEW c \in Users, Reads(c)
       PROVE  TypeOK' /\ Kinds'
  <2>1. UNCHANGED <<link, ends, iter, line, closed, user>> /\ held' \subseteq held
    BY <1>13, ReadsKeep
  <2> QED
    BY <1>1, <1>4, <2>1 DEF Kinds, Inv
<1>12. CASE CloseActive \/ ClosePool
  <2>1. PICK n \in Nodes : /\ n = Active.head \/ n = Pool.head
                          /\ closed' = (closed \ {NULL}) \cup {link[n].val}
    BY <1>12, Typed DEF CloseActive, ClosePool, Active, Pool, Inv
  <2>2. user = "instance"
    BY <1>12 DEF CloseActive, ClosePool, Closing
  <2>3. pop_front("activeTimers") /\ UNCHANGED <<iter, line, held, user>>
    BY <1>12 DEF CloseActive, ClosePool, client
  <2>4. closed' \subseteq Timers \cup {NULL}
    BY <1>1, <2>1, <2>2 DEF Kinds, Inv
  <2>5. /\ link' \in [Nodes -> Cells] /\ ends' \in [Lists -> E]
        /\ \A y \in Nodes : link'[y].val \in {link[y].val, NULL}
    BY <1>8, <2>3 DEF Lists
  <2> QED
    BY <1>1, <1>4, <2>2, <2>3, <2>4, <2>5 DEF Kinds, Inv
<1> QED
  BY <1>5, <1>6, <1>7, <1>9, <1>10, <1>11, <1>12, <1>13 DEF Next, Reads

-----------------------------------------------------------------------------
(* The theorems.                                                            *)

LEMMA InvInit == Init => Inv
<1> SUFFICES ASSUME Init PROVE Inv
  OBVIOUS
<1>1. Blank \in Cells /\ Blank.val = NULL /\ ~Blank.used
  BY DEF Blank, Cells
<1>2. /\ link \in [Nodes -> Cells] /\ \A n \in Nodes : link[n].val = NULL /\ ~link[n].used
      /\ Pending = [head |-> NULL, tail |-> NULL]
      /\ Active = [head |-> NULL, tail |-> NULL]
      /\ Pool = [head |-> NULL, tail |-> NULL]
  BY <1>1 DEF Init, Pending, Active, Pool, Lists
<1>3. <<>> \in Seq(Values) /\ <<>> \in Seq(Nodes) /\ Len(<<>>) = 0 /\ Size \in Nat
  BY SizeType
<1>4. TypeOK /\ Kinds
  <2>1. caller \in Calls /\ raced \in BOOLEAN
    BY DEF Init, NoCall, Calls
  <2> QED
    BY <1>2, <1>3, <2>1 DEF Init, TypeOK, Kinds, Cells, Size, Lists, Calls
<1>5. Ordered(<<>>)
  BY <1>2, <1>3 DEF Init, Ordered, Chain
<1>6. Client
  BY <1>2, <1>5 DEF Init, Client
<1>7. InReach({}) /\ Stacked({})
  BY <1>2 DEF InReach, Stacked
<1>8. Unlike /\ closed # {}
  BY <1>2 DEF Init, Unlike
<1>9. Sharing
  <2>1. {} \in SUBSET Nodes /\ {} \cap {} = {}
    OBVIOUS
  <2> QED
    BY <1>7, <1>8, <2>1 DEF Sharing
<1>10. Placed
  BY DEF Init, Placed, Moves, NoCall
<1> QED
  BY <1>4, <1>6, <1>9, <1>10 DEF Inv

LEMMA InvAlways == Spec => []Inv
<1>1. Inv /\ [Next]_vars => Inv'
  BY ClientStep, SharingStep, TypeStep, PlacedStep DEF Inv
<1> QED
  BY InvInit, <1>1, PTL DEF Spec

(* The links, ends and carried values have their types, and pendingMessages *)
(* holds no more messages than there are nodes.                             *)
THEOREM QueuesTypeCorrect == Spec => []TypeOK
<1>1. Inv => TypeOK
  BY DEF Inv
<1> QED
  BY InvAlways, <1>1, PTL

(* pendingMessages is a queue: the walk from its head meets the messages    *)
(* that mqtt_publish_ex queued and onConnect has not sent, in their order,  *)
(* although pop_front leaves the prev of the new head on a freed node, and  *)
(* the front that onConnect sends is the one that it pops.                  *)
THEOREM PendingKeepsOrder == Spec => []PendingInOrder
<1>1. Inv => PendingInOrder
  <2> SUFFICES ASSUME Inv PROVE PendingInOrder
    OBVIOUS
  <2>1. PICK s : Ordered(s)
    BY DEF Inv, Client
  <2>2. Walk("pendingMessages") = s
    BY <2>1, WalkChain DEF Ordered, Pending
  <2>3. s \in Seq(Nodes) /\ DOMAIN s = 1..Len(s)
    BY <2>1, LenProperties DEF Ordered, Chain
  <2>4. line \in Seq(Values) /\ line = [i \in 1..Len(line) |-> line[i]] /\ Len(s) = Len(line)
    BY <2>1, LenProperties DEF Inv, TypeOK, Ordered
  <2>5. [i \in DOMAIN s |-> link[s[i]].val] = line
    BY <2>1, <2>3, <2>4 DEF Ordered
  <2>6. \A i \in DOMAIN s : link[s[i]].used
    BY <2>1, <2>3 DEF Ordered
  <2>7. iter # NULL => iter = ends["pendingMessages"].head
    BY DEF Inv, Client, Pending
  <2> QED
    BY <2>2, <2>5, <2>6, <2>7 DEF PendingInOrder
<1> QED
  BY InvAlways, <1>1, PTL

(* A timer has one user: the timer that instance_require_timer takes from   *)
(* the pool is held by nobody, although the moves leave links of the lists  *)
(* unset and timers out of their reach, and whatever the other callers do   *)
(* between its reads and its move, unless they have taken that very timer.  *)
THEOREM TimersHaveOneUser == Spec => TimerHasOneUser
<1>1. ASSUME Inv, NEW c \in Users, TakeTimer(c), caller[c].at = ends["timerPool"].head
      PROVE  link[caller[c].at].val \notin held
  <2>1. caller[c].at = Pool.head
    BY <1>1 DEF Pool
  <2> QED
    BY <1>1, <2>1, TakeSharing
<1>2. Inv /\ [Next]_vars =>
         [\A c \in Users : TakeTimer(c) => link[caller[c].at].val \notin held
                                          \/ caller[c].at # ends["timerPool"].head]_vars
  BY <1>1
<1> QED
  BY InvAlways, <1>2, PTL DEF Spec, TimerHasOneUser

-----------------------------------------------------------------------------
(* The configuration tree.                                                  *)

Kids(h, n) == Range(h[n].children)

LEMMA KidsAre ==
    ASSUME NEW h \in Heaps, NEW n \in ConfNode
    PROVE  /\ Kids(h, n) \subseteq ConfNode
           /\ \A i \in DOMAIN h[n].children : h[n].children[i] \in Kids(h, n)
           /\ \A m \in Kids(h, n) : \E i \in DOMAIN h[n].children : h[n].children[i] = m
           /\ DOMAIN h[n].children = 1 .. Len(h[n].children) /\ Len(h[n].children) \in Nat
<1>1. h[n].children \in Seq(ConfNode)
  BY DEF Heaps, ConfNodes
<1> QED
  BY <1>1 DEF Kids, Range

(* A set that children do not leave.                                        *)
Stays(h, S) == \A m \in S : Kids(h, m) \subseteq S

LEMMA BelowIs ==
    ASSUME NEW h, NEW n \in ConfNode
    PROVE  /\ Below(h, n) \subseteq ConfNode
           /\ \A S \in SUBSET ConfNode : n \in S /\ Stays(h, S) => Below(h, n) \subseteq S
           /\ n \in Below(h, n)
<1>1. ASSUME NEW S \in SUBSET ConfNode, Stays(h, S), NEW m \in S, NEW i \in DOMAIN h[m].children
      PROVE  h[m].children[i] \in S
  BY <1>1 DEF Stays, Kids, Range
<1> QED
  BY <1>1 DEF Below

LEMMA BelowKept ==
    ASSUME NEW h \in Heaps, NEW n \in ConfNode
    PROVE  Stays(h, Below(h, n))
<1> SUFFICES ASSUME NEW m \in Below(h, n), NEW c \in Kids(h, m)
             PROVE  c \in Below(h, n)
  BY DEF Stays
<1>1. m \in ConfNode /\ c \in ConfNode
  BY BelowIs, KidsAre
<1>2. ASSUME NEW S \in SUBSET ConfNode, n \in S,
             \A x \in S : \A i \in DOMAIN h[x].children : h[x].children[i] \in S
      PROVE  c \in S
  <2>1. m \in S
    BY <1>2 DEF Below
  <2> QED
    BY <1>2, <2>1 DEF Kids, Range
<1> QED
  BY <1>1, <1>2 DEF Below

(* Whatever is below n, other than n, is a child of what is below n.        *)
LEMMA BelowParent ==
    ASSUME NEW h \in Heaps, NEW n \in ConfNode, NEW m \in Below(h, n), m # n
    PROVE  \E p \in Below(h, n) : m \in Kids(h, p)
<1> SUFFICES ASSUME \A p \in Below(h, n) : m \notin Kids(h, p)
             PROVE  FALSE
  OBVIOUS
<1> DEFINE S == Below(h, n) \ {m}
<1>1. n \in S /\ S \in SUBSET ConfNode
  BY BelowIs
<1>2. Stays(h, S)
  BY BelowKept DEF Stays
<1>3. Below(h, n) \subseteq S
  BY <1>1, <1>2, BelowIs
<1> QED
  BY <1>3

-----------------------------------------------------------------------------
(* The children of a node are allocated, name it as their parent and are    *)
(* its children once; what is not allocated is blank.                       *)
Sound(h) ==
    /\ \A n \in ConfNode : ~h[n].used => h[n] = Unallocated
    /\ \A n \in ConfNode : \A m \in Kids(h, n) : h[m].used /\ h[m].parent = n
    /\ \A n \in ConfNode : \A i, j \in DOMAIN h[n].children :
          h[n].children[i] = h[n].children[j] => i = j

(* The trees with these tops T have every allocated node outside L. *)
Good(h, T, L) ==
    /\ h \in Heaps /\ Sound(h)
    /\ T \subseteq ConfNode
    /\ \A t \in T : h[t].used /\ h[t].parent = NULL
    /\ \A n \in ConfNode : h[n].used => n \in L \/ \E t \in T : n \in Below(h, t)

LEMMA BelowUsed ==
    ASSUME NEW h, NEW T, NEW L, Good(h, T, L), NEW t \in T, NEW n \in Below(h, t)
    PROVE  /\ n \in ConfNode /\ h[n].used
           /\ n # t => h[n].parent \in Below(h, t) /\ n \in Kids(h, h[n].parent)
           /\ Kids(h, n) \subseteq Below(h, t)
<1>1. h \in Heaps /\ t \in ConfNode /\ n \in ConfNode
  BY BelowIs DEF Good
<1>2. CASE n = t
  BY <1>1, <1>2, BelowKept DEF Good, Stays
<1>3. CASE n # t
  <2>1. PICK p \in Below(h, t) : n \in Kids(h, p)
    BY <1>1, <1>3, BelowParent
  <2>2. p \in ConfNode
    BY <1>1, BelowIs
  <2> QED
    BY <1>1, <2>1, <2>2, BelowKept DEF Good, Sound, Stays
<1> QED
  BY <1>2, <1>3

LEMMA NewIs ==
    ASSUME NEW p \in ConfNode \cup {NULL}, NEW name \in NodeNames, NEW type \in Types
    PROVE  /\ New(p, name, type) = [used |-> TRUE, parent |-> p, name |-> name,
                                    type |-> type, children |-> <<>>]
           /\ New(p, name, type) \in ConfNodes
<1>1. New(p, name, type) = [used |-> TRUE, parent |-> p, name |-> name,
                            type |-> type, children |-> <<>>]
  BY DEF New
<1>2. <<>> \in Seq(ConfNode)
  OBVIOUS
<1> QED
  BY <1>1, <1>2 DEF ConfNodes

LEMMA BlankIs == Unallocated \in ConfNodes
<1>1. <<>> \in Seq(ConfNode) /\ <<>> \in NodeNames
  BY DEF NodeNames
<1> QED
  BY <1>1 DEF Unallocated, ConfNodes, Types

(* A node that is in no tree yet joins one: last or first of the children   *)
(* of p.                                                                    *)
Join(h, n, p, name, type, s) == [h EXCEPT ![n] = New(p, name, type), ![p].children = s]

LEMMA GoodJoins ==
    ASSUME NEW h, NEW T, NEW L, Good(h, T, L), NEW n \in ConfNode, ~h[n].used,
           NEW t \in T, NEW p \in Below(h, t), NEW name \in NodeNames, NEW type \in Types,
           NEW s \in Seq(ConfNode), Range(s) = Kids(h, p) \cup {n},
           \A i, j \in DOMAIN s : s[i] = s[j] => i = j
    PROVE  LET g == Join(h, n, p, name, type, s)
           IN  Good(g, T, L) /\ n \in Below(g, t) /\ \A u \in T : Below(h, u) \subseteq Below(g, u)
<1> DEFINE g == Join(h, n, p, name, type, s)
<1>1. h \in Heaps /\ p \in ConfNode /\ h[p].used /\ p # n
  BY BelowUsed DEF Good
<1>2. n \notin Kids(h, p) /\ n \notin T
  BY <1>1 DEF Good, Sound
<1>3. g \in Heaps
  <2>1. New(p, name, type) \in ConfNodes
    BY <1>1, NewIs
  <2>2. [h[p] EXCEPT !.children = s] \in ConfNodes
    BY <1>1 DEF Heaps, ConfNodes
  <2> QED
    BY <1>1, <2>1, <2>2 DEF Join, Heaps, ConfNodes
<1>4. \A m \in ConfNode \ {n} :
         /\ g[m].used = h[m].used /\ g[m].parent = h[m].parent
         /\ g[m].name = h[m].name /\ g[m].type = h[m].type
         /\ m # p => g[m] = h[m]
  BY <1>1 DEF Join, Heaps
<1>5. g[n] = New(p, name, type) /\ g[p].children = s
  BY <1>1 DEF Join, Heaps
<1>6. g[n].used /\ g[n].parent = p /\ g[n].children = <<>> /\ g[n].name = name
  BY <1>5 DEF New, Unallocated
<1> HIDE DEF g
<1>7. /\ Kids(g, n) = {} /\ Kids(g, p) = Kids(h, p) \cup {n}
      /\ \A m \in ConfNode \ {n, p} : Kids(g, m) = Kids(h, m)
  <2>1. Range(<<>>) = {}
    BY DEF Range
  <2> QED
    BY <2>1, <1>1, <1>4, <1>5, <1>6 DEF Kids
<1>8. Sound(g)
  <2>1. ASSUME NEW m \in ConfNode, ~g[m].used PROVE g[m] = Unallocated
    BY <2>1, <1>1, <1>4, <1>6 DEF Good, Sound
  <2>2. ASSUME NEW m \in ConfNode, NEW c \in Kids(g, m) PROVE g[c].used /\ g[c].parent = m
    <3>1. c = n \/ c \in Kids(h, m)
      BY <1>7, <2>2
    <3>2. c \in ConfNode
      BY <1>3, <2>2, KidsAre
    <3>3. c = n => m = p
      BY <1>7, <2>2, <1>1 DEF Good, Sound
    <3> QED
      BY <3>1, <3>2, <3>3, <1>4, <1>6 DEF Good, Sound
  <2>3. ASSUME NEW m \in ConfNode, NEW i \in DOMAIN g[m].children, NEW j \in DOMAIN g[m].children,
               g[m].children[i] = g[m].children[j]
        PROVE  i = j
    BY <2>3, <1>4, <1>5, <1>6 DEF Good, Sound
  <2> QED
    BY <2>1, <2>2, <2>3 DEF Sound
<1>9. ASSUME NEW u \in T
      PROVE  Below(h, u) \subseteq Below(g, u) \ {n}
  <2>1. u \in ConfNode /\ u # n
    BY <1>2 DEF Good
  <2>2. Stays(h, Below(g, u) \ {n})
    BY <1>1, <1>3, <1>7, <2>1, BelowKept, BelowIs DEF Stays, Good, Sound
  <2> QED
    BY <2>1, <2>2, BelowIs
<1>10. n \in Below(g, t)
  <2>1. t \in ConfNode /\ p \in Below(g, t)
    BY <1>9 DEF Good
  <2> QED
    BY <2>1, <1>3, <1>7, BelowKept DEF Stays
<1>11. ASSUME NEW m \in ConfNode, g[m].used
       PROVE  m \in L \/ \E u \in T : m \in Below(g, u)
  <2>1. CASE m = n
    BY <2>1, <1>10
  <2>2. CASE m # n
    <3>1. h[m].used
      BY <2>2, <1>4, <1>11
    <3>2. CASE \E u \in T : m \in Below(h, u)
      BY <3>2, <1>9
    <3>3. CASE m \in L /\ m # p
      BY <3>3, <2>2, <1>4
    <3>4. CASE m = p
      BY <3>4, <1>9
    <3> QED
      BY <3>1, <3>2, <3>3, <3>4 DEF Good
  <2> QED
    BY <2>1, <2>2
<1>12. \A u \in T : u \in ConfNode /\ g[u].used /\ g[u].parent = NULL
  BY <1>2, <1>4 DEF Good
<1>13. T \subseteq ConfNode
  BY <1>12
<1>14. Good(g, T, L) /\ \A u \in T : Below(h, u) \subseteq Below(g, u)
  BY <1>3, <1>8, <1>9, <1>11, <1>12, <1>13 DEF Good
<1> QED
  BY <1>10, <1>14 DEF g

(* A node that is allocated outside the trees is lost, or is a tree.        *)
LEMMA GoodApart ==
    ASSUME NEW h, NEW T, NEW L, Good(h, T, L), NEW n \in ConfNode, ~h[n].used,
           NEW p \in ConfNode \cup {NULL}, NEW name \in NodeNames, NEW type \in Types
    PROVE  LET g == [h EXCEPT ![n] = New(p, name, type)]
           IN  /\ Good(g, T, L \cup {n})
               /\ p = NULL => Good(g, T \cup {n}, L)
<1> DEFINE g == [h EXCEPT ![n] = New(p, name, type)]
<1>1. h \in Heaps
  BY DEF Good
<1>2. g \in Heaps
  BY <1>1, NewIs DEF Heaps
<1>3. /\ \A m \in ConfNode \ {n} : g[m] = h[m]
      /\ g[n].used /\ g[n].parent = p /\ g[n].children = <<>> /\ g[n].name = name
  BY <1>1 DEF Heaps, New
<1> HIDE DEF g
<1>4. Kids(g, n) = {} /\ Kids(h, n) = {}
  <2>1. h[n].children = <<>>
    BY DEF Good, Sound, Unallocated
  <2> QED
    BY <2>1, <1>3 DEF Kids, Range
<1>5. \A m \in ConfNode : Kids(g, m) = Kids(h, m)
  BY <1>3, <1>4 DEF Kids
<1>6. \A m \in ConfNode : n \notin Kids(h, m)
  BY DEF Good, Sound
<1>7. Sound(g)
  <2>1. ASSUME NEW m \in ConfNode, NEW c \in Kids(g, m) PROVE g[c].used /\ g[c].parent = m
    BY <2>1, <1>1, <1>3, <1>5, <1>6, KidsAre DEF Good, Sound
  <2>2. ASSUME NEW m \in ConfNode, NEW i \in DOMAIN g[m].children, NEW j \in DOMAIN g[m].children,
               g[m].children[i] = g[m].children[j]
        PROVE  i = j
    BY <2>2, <1>3 DEF Good, Sound
  <2> QED
    BY <2>1, <2>2, <1>3 DEF Sound, Good
<1>8. \A t \in ConfNode : Below(g, t) = Below(h, t)
  <2> SUFFICES ASSUME NEW t \in ConfNode PROVE Below(g, t) = Below(h, t)
    OBVIOUS
  <2>1. g \in Heaps /\ h \in Heaps
    BY <1>1, <1>2
  <2>2. Stays(g, Below(h, t)) /\ Stays(h, Below(g, t))
    BY <1>5, <2>1, BelowKept, BelowIs DEF Stays
  <2> QED
    BY <2>2, BelowIs
<1>9. n \in Below(g, n)
  BY BelowIs
<1>10. n \notin T
  BY DEF Good
<1>11. Good(g, T, L \cup {n})
  BY <1>2, <1>3, <1>7, <1>8, <1>10 DEF Good
<1>12. p = NULL => Good(g, T \cup {n}, L)
  BY <1>2, <1>3, <1>7, <1>8, <1>9, <1>10 DEF Good
<1> QED
  BY <1>11, <1>12 DEF g

(* A sequence without the element at a place.                               *)
LEMMA WithoutPlace ==
    ASSUME NEW S, NEW s \in Seq(S), NEW i \in DOMAIN s,
           \A j, k \in DOMAIN s : s[j] = s[k] => j = k
    PROVE  LET r == RemoveAt(s, i)
           IN  /\ r \in Seq(S) /\ Range(r) = Range(s) \ {s[i]}
               /\ \A j, k \in DOMAIN r : r[j] = r[k] => j = k
<1> DEFINE r == RemoveAt(s, i)
<1>1. i \in 1 .. Len(s) /\ Len(s) \in Nat /\ DOMAIN s = 1 .. Len(s)
  OBVIOUS
<1>2. r \in Seq(S) /\ Len(r) = Len(s) - 1
  BY <1>1 DEF RemoveAt
<1>3. \A j \in 1 .. Len(r) : r[j] = IF j < i THEN s[j] ELSE s[j + 1]
  <2> DEFINE a == SubSeq(s, 1, i - 1)
             b == SubSeq(s, i + 1, Len(s))
  <2>1. a \in Seq(S) /\ Len(a) = i - 1 /\ \A j \in 1 .. i - 1 : a[j] = s[j]
    BY <1>1
  <2>2. b \in Seq(S) /\ Len(b) = Len(s) - i /\ \A j \in 1 .. Len(s) - i : b[j] = s[j + i]
    BY <1>1
  <2>3. r = a \o b
    BY DEF RemoveAt
  <2> HIDE DEF a, b, r
  <2>4. \A j \in 1 .. Len(s) - 1 : r[j] = IF j <= i - 1 THEN a[j] ELSE b[j - (i - 1)]
    <3>1. a \in Seq(S) /\ b \in Seq(S)
      BY <2>1, <2>2
    <3>2. \A j \in 1 .. Len(a) + Len(b) :
             (a \o b)[j] = IF j <= Len(a) THEN a[j] ELSE b[j - Len(a)]
      BY <3>1
    <3>3. Len(a) = i - 1 /\ Len(a) + Len(b) = Len(s) - 1
      BY <1>1, <2>1, <2>2
    <3> QED
      BY <2>3, <3>2, <3>3
  <2>5. ASSUME NEW j \in 1 .. Len(s) - 1, ~(j < i)
        PROVE  j - (i - 1) \in 1 .. Len(s) - i /\ (j - (i - 1)) + i = j + 1
    BY <1>1, <2>5
  <2>6. ASSUME NEW j \in 1 .. Len(s) - 1, ~(j < i) PROVE r[j] = s[j + 1]
    <3>1. r[j] = b[j - (i - 1)]
      BY <1>1, <2>4, <2>6
    <3>2. b[j - (i - 1)] = s[(j - (i - 1)) + i]
      BY <2>2, <2>5, <2>6
    <3> QED
      BY <2>5, <2>6, <3>1, <3>2
  <2>7. ASSUME NEW j \in 1 .. Len(s) - 1, j < i PROVE r[j] = s[j]
    BY <1>1, <2>1, <2>4, <2>7
  <2>8. Len(r) = Len(s) - 1
    BY <1>2 DEF r
  <2> QED
    BY <2>6, <2>7, <2>8
<1>4. DOMAIN r = 1 .. Len(r)
  BY <1>2
<1> HIDE DEF r
<1>5. \A j \in DOMAIN r : r[j] \in Range(s) \ {s[i]}
  <2> SUFFICES ASSUME NEW j \in DOMAIN r PROVE r[j] \in Range(s) \ {s[i]}
    OBVIOUS
  <2> DEFINE k == IF j < i THEN j ELSE j + 1
  <2>1. k \in DOMAIN s /\ k # i /\ r[j] = s[k]
    BY <1>1, <1>2, <1>3, <1>4
  <2> HIDE DEF k
  <2> QED
    BY <2>1 DEF Range
<1>6. \A k \in DOMAIN s \ {i} : \E j \in DOMAIN r : r[j] = s[k]
  <2> SUFFICES ASSUME NEW k \in DOMAIN s \ {i} PROVE \E j \in DOMAIN r : r[j] = s[k]
    OBVIOUS
  <2> DEFINE j == IF k < i THEN k ELSE k - 1
  <2>1. j \in DOMAIN r /\ r[j] = s[k]
    BY <1>1, <1>2, <1>3, <1>4
  <2> HIDE DEF j
  <2> QED
    BY <2>1
<1>7. Range(r) = Range(s) \ {s[i]}
  BY <1>5, <1>6 DEF Range
<1>8. ASSUME NEW j \in DOMAIN r, NEW k \in DOMAIN r, r[j] = r[k] PROVE j = k
  <2> DEFINE Old(x) == IF x < i THEN x ELSE x + 1
  <2>1. r[j] = s[Old(j)] /\ r[k] = s[Old(k)] /\ Old(j) \in DOMAIN s /\ Old(k) \in DOMAIN s
    BY <1>1, <1>2, <1>3, <1>4
  <2>2. Old(j) = Old(k)
    BY <1>8, <2>1
  <2> QED
    BY <1>1, <1>2, <1>4, <2>2
<1> QED
  BY <1>2, <1>7, <1>8 DEF r

LEMMA UnlinkIs ==
    ASSUME NEW h \in Heaps, Sound(h), NEW p \in ConfNode, NEW n \in Kids(h, p)
    PROVE  /\ Unlink(h, n) \in Heaps
           /\ \A m \in ConfNode :
                 /\ Unlink(h, n)[m].used = h[m].used
                 /\ Unlink(h, n)[m].name = h[m].name
                 /\ Unlink(h, n)[m].type = h[m].type
                 /\ m # n => Unlink(h, n)[m].parent = h[m].parent
                 /\ m # p => Unlink(h, n)[m].children = h[m].children
                 /\ m # p => Kids(Unlink(h, n), m) = Kids(h, m)
                 /\ m # n /\ m # p => Unlink(h, n)[m] = h[m]
           /\ Unlink(h, n)[n].parent = NULL
           /\ Kids(Unlink(h, n), p) = Kids(h, p) \ {n}
           /\ \A i, j \in DOMAIN Unlink(h, n)[p].children :
                 Unlink(h, n)[p].children[i] = Unlink(h, n)[p].children[j] => i = j
<1> DEFINE place == CHOOSE i \in DOMAIN h[p].children : h[p].children[i] = n
           s == RemoveAt(h[p].children, place)
           u == [h EXCEPT ![p].children = s, ![n].parent = NULL]
<1>1. n \in ConfNode /\ h[n].parent = p /\ p # NULL
  BY KidsAre, ConfigAssumption DEF Sound
<1>2. Unlink(h, n) = u
  BY <1>1 DEF Unlink
<1>3. place \in DOMAIN h[p].children /\ h[p].children[place] = n
  BY KidsAre
<1>4. h[p].children \in Seq(ConfNode)
  BY DEF Heaps, ConfNodes
<1> HIDE DEF place
<1>5. /\ s \in Seq(ConfNode) /\ Range(s) = Kids(h, p) \ {n}
      /\ \A j, k \in DOMAIN s : s[j] = s[k] => j = k
  BY <1>3, <1>4, WithoutPlace DEF Kids, Sound
<1> HIDE DEF s
<1>6. u \in Heaps
  <2> DEFINE v == [h EXCEPT ![p].children = s]
  <2>1. v \in Heaps
    BY <1>5 DEF Heaps, ConfNodes
  <2>2. u = [v EXCEPT ![n].parent = NULL]
    OBVIOUS
  <2> HIDE DEF u, v
  <2> QED
    BY <1>1, <2>1, <2>2 DEF Heaps, ConfNodes
<1>7. \A m \in ConfNode :
         /\ u[m].used = h[m].used /\ u[m].name = h[m].name /\ u[m].type = h[m].type
         /\ m # n => u[m].parent = h[m].parent
         /\ m # p => u[m].children = h[m].children
         /\ m # n /\ m # p => u[m] = h[m]
  BY <1>1 DEF Heaps, ConfNodes
<1>8. u[n].parent = NULL /\ u[p].children = s
  BY <1>1 DEF Heaps, ConfNodes
<1> HIDE DEF u
<1>9. Kids(u, p) = Kids(h, p) \ {n} /\ \A m \in ConfNode \ {p} : Kids(u, m) = Kids(h, m)
  BY <1>5, <1>7, <1>8 DEF Kids
<1>10. \A i, j \in DOMAIN u[p].children : u[p].children[i] = u[p].children[j] => i = j
  BY <1>5, <1>8
<1> QED
  BY <1>2, <1>6, <1>7, <1>8, <1>9, <1>10

LEMMA GoodUnlink ==
    ASSUME NEW h, NEW T, NEW L, Good(h, T, L), NEW p \in ConfNode, NEW n \in Kids(h, p)
    PROVE  Good(Unlink(h, n), T \cup {n}, L)
<1> DEFINE u == Unlink(h, n)
<1>1. h \in Heaps /\ Sound(h) /\ n \in ConfNode /\ h[n].used
  BY KidsAre DEF Good, Sound
<1>2. /\ u \in Heaps
      /\ \A m \in ConfNode :
            /\ u[m].used = h[m].used /\ u[m].name = h[m].name /\ u[m].type = h[m].type
            /\ m # n => u[m].parent = h[m].parent
            /\ m # p => u[m].children = h[m].children
            /\ m # p => Kids(u, m) = Kids(h, m)
            /\ m # n /\ m # p => u[m] = h[m]
      /\ u[n].parent = NULL /\ Kids(u, p) = Kids(h, p) \ {n}
      /\ \A i, j \in DOMAIN u[p].children : u[p].children[i] = u[p].children[j] => i = j
  BY <1>1, UnlinkIs
<1> HIDE DEF u
<1>3. h[p].used
  <2>1. h[p].children # <<>>
    BY DEF Kids, Range
  <2> QED
    BY <1>1, <2>1 DEF Sound, Unallocated
<1>4. Sound(u)
  <2>1. ASSUME NEW m \in ConfNode, ~u[m].used PROVE u[m] = Unallocated
    <3>1. m # n /\ m # p /\ ~h[m].used
      BY <2>1, <1>1, <1>2, <1>3
    <3>2. h[m] = Unallocated
      BY <3>1, <1>1 DEF Sound
    <3>3. u[m] = h[m]
      BY <1>2, <3>1
    <3> QED
      BY <3>2, <3>3
  <2>2. ASSUME NEW m \in ConfNode, NEW c \in Kids(u, m) PROVE u[c].used /\ u[c].parent = m
    <3>1. c \in Kids(h, m) /\ c \in ConfNode /\ c # n
      BY <1>1, <1>2, <2>2, KidsAre DEF Sound
    <3> QED
      BY <3>1, <1>1, <1>2 DEF Sound
  <2>3. ASSUME NEW m \in ConfNode, NEW i \in DOMAIN u[m].children, NEW j \in DOMAIN u[m].children,
               u[m].children[i] = u[m].children[j]
        PROVE  i = j
    BY <2>3, <1>1, <1>2 DEF Sound
  <2> QED
    BY <2>1, <2>2, <2>3 DEF Sound
<1>5. ASSUME NEW t \in T PROVE Below(h, t) \subseteq Below(u, t) \cup Below(u, n)
  <2>1. t \in ConfNode
    BY DEF Good
  <2>2. Stays(h, Below(u, t) \cup Below(u, n))
    <3>1. Stays(u, Below(u, t)) /\ Stays(u, Below(u, n)) /\ n \in Below(u, n)
      BY <1>1, <1>2, <2>1, BelowKept, BelowIs
    <3>2. Below(u, t) \cup Below(u, n) \subseteq ConfNode
      BY <1>1, <2>1, BelowIs
    <3>3. \A m \in ConfNode : Kids(h, m) \subseteq Kids(u, m) \cup {n}
      BY <1>2
    <3> QED
      BY <3>1, <3>2, <3>3 DEF Stays
  <2> QED
    BY <1>1, <2>1, <2>2, BelowIs
<1>6. \A t \in T : u[t].used /\ u[t].parent = NULL
  BY <1>1, <1>2 DEF Good
<1>7. ASSUME NEW m \in ConfNode, u[m].used
      PROVE  m \in L \/ \E t \in T \cup {n} : m \in Below(u, t)
  <2>1. h[m].used
    BY <1>2, <1>7
  <2>2. CASE \E t \in T : m \in Below(h, t)
    BY <2>2, <1>5
  <2>3. CASE m \in L
    BY <2>3
  <2> QED
    BY <2>1, <2>2, <2>3 DEF Good
<1>8. T \cup {n} \subseteq ConfNode
  BY <1>1 DEF Good
<1>9. Good(u, T \cup {n}, L)
  BY <1>1, <1>2, <1>4, <1>6, <1>7, <1>8 DEF Good
<1> QED
  BY <1>9 DEF u

(* The tree of a top goes, and the others stay.                             *)
LEMMA GoodFreed ==
    ASSUME NEW h, NEW T, NEW L, Good(h, T, L), NEW n \in T
    PROVE  Good([m \in ConfNode |-> IF m \in Below(h, n) THEN Unallocated ELSE h[m]], T \ {n}, L)
<1> DEFINE D == Below(h, n)
           g == [m \in ConfNode |-> IF m \in D THEN Unallocated ELSE h[m]]
<1>1. h \in Heaps /\ Sound(h) /\ n \in ConfNode /\ h[n].parent = NULL /\ D \subseteq ConfNode
  BY BelowIs DEF Good
<1>2. Unallocated \in ConfNodes
  BY BlankIs
<1>3. g \in Heaps
  BY <1>1, <1>2 DEF Heaps
<1>4. /\ \A m \in D : g[m] = Unallocated
      /\ \A m \in ConfNode \ D : g[m] = h[m] /\ Kids(g, m) = Kids(h, m)
  BY <1>1 DEF Kids
<1> HIDE DEF g
<1>5. \A m \in D : Kids(g, m) = {}
  BY <1>4 DEF Kids, Range, Unallocated
<1>6. \A m \in ConfNode \ D : Kids(h, m) \cap D = {}
  <2> SUFFICES ASSUME NEW m \in ConfNode \ D, NEW c \in Kids(h, m), c \in D PROVE FALSE
    OBVIOUS
  <2>1. h[c].parent = m /\ m # NULL
    BY <1>1, ConfigAssumption DEF Sound
  <2>2. c # n
    BY <1>1, <2>1
  <2> QED
    BY <2>1, <2>2, BelowUsed
<1>7. Sound(g)
  <2>1. ASSUME NEW m \in ConfNode, ~g[m].used PROVE g[m] = Unallocated
    BY <2>1, <1>1, <1>4 DEF Sound
  <2>2. ASSUME NEW m \in ConfNode, NEW c \in Kids(g, m) PROVE g[c].used /\ g[c].parent = m
    <3>1. m \notin D /\ c \in Kids(h, m)
      BY <1>4, <1>5, <2>2
    <3>2. c \in ConfNode /\ c \notin D
      BY <3>1, <1>1, <1>6, KidsAre
    <3> QED
      BY <3>1, <3>2, <1>1, <1>4 DEF Sound
  <2>3. ASSUME NEW m \in ConfNode, NEW i \in DOMAIN g[m].children, NEW j \in DOMAIN g[m].children,
               g[m].children[i] = g[m].children[j]
        PROVE  i = j
    BY <2>3, <1>1, <1>4 DEF Sound, Unallocated
  <2> QED
    BY <2>1, <2>2, <2>3 DEF Sound
<1>8. \A t \in T \ {n} : t \notin D
  <2> SUFFICES ASSUME NEW t \in T \ {n}, t \in D PROVE FALSE
    OBVIOUS
  <2>1. h[t].parent \in D /\ h[t].parent = NULL
    BY BelowUsed DEF Good
  <2> QED
    BY <2>1, <1>1, ConfigAssumption
<1>9. ASSUME NEW t \in T \ {n} PROVE Below(h, t) \subseteq Below(g, t) \cup D
  <2>1. t \in ConfNode
    BY DEF Good
  <2>2. Stays(g, Below(g, t)) /\ Stays(h, D) /\ t \in Below(g, t) /\ Below(g, t) \subseteq ConfNode
    BY <1>1, <1>3, <2>1, BelowKept, BelowIs
  <2>3. Stays(h, Below(g, t) \cup D)
    BY <2>2, <1>1, <1>4 DEF Stays
  <2>4. Below(g, t) \cup D \in SUBSET ConfNode /\ t \in Below(g, t) \cup D
    BY <2>2, <1>1
  <2> HIDE DEF D
  <2> QED
    BY <2>1, <2>3, <2>4, BelowIs
<1>10. ASSUME NEW m \in ConfNode, g[m].used
       PROVE  m \in L \/ \E t \in T \ {n} : m \in Below(g, t)
  <2>1. m \notin D /\ g[m] = h[m]
    BY <1>4, <1>10 DEF Unallocated
  <2>2. CASE m \in L
    BY <2>2
  <2>3. CASE \E t \in T : m \in Below(h, t)
    BY <2>1, <2>3, <1>9
  <2> QED
    BY <2>1, <2>2, <2>3, <1>10 DEF Good
<1>11. \A t \in T \ {n} : g[t].used /\ g[t].parent = NULL
  BY <1>1, <1>4, <1>8 DEF Good
<1>12. Good(g, T \ {n}, L)
  BY <1>1, <1>3, <1>7, <1>10, <1>11 DEF Good
<1> QED
  BY <1>12 DEF g

-----------------------------------------------------------------------------
(* The steps.                                                               *)

LEMMA FewKids ==
    ASSUME NEW h \in Heaps, Sound(h), NEW n \in ConfNode
    PROVE  Len(h[n].children) \in 0 .. MaxNodes
<1> DEFINE s == h[n].children
<1>1. s \in Seq(ConfNode) /\ Len(s) \in Nat /\ DOMAIN s = 1 .. Len(s)
  BY DEF Heaps, ConfNodes
<1>2. \A i, j \in 1 .. Len(s) : s[i] = s[j] => i = j
  BY <1>1 DEF Sound
<1> HIDE DEF s
<1>3. s \in Injection(1 .. Len(s), ConfNode)
  BY <1>1, <1>2 DEF Injection, IsInjective
<1>4. IsFiniteSet(ConfNode) /\ Cardinality(ConfNode) = MaxNodes
  BY ConfigAssumption, FS_Interval DEF ConfNode
<1>5. Cardinality(1 .. Len(s)) = Len(s)
  <2>1. \A m \in Nat : Cardinality(1 .. m) = m
    BY FS_Interval
  <2> QED
    BY <1>1, <2>1
<1>6. Cardinality(1 .. Len(s)) <= Cardinality(ConfNode)
  BY <1>3, <1>4, FS_Injection DEF ExistsInjection
<1>7. Len(s) <= MaxNodes
  BY <1>4, <1>5, <1>6
<1>8. Len(s) \in 0 .. MaxNodes
  BY <1>1, <1>7, ConfigAssumption
<1> QED
  BY <1>8 DEF s

LEMMA FreshIs ==
    ASSUME conf \in Heaps, Unused # {}
    PROVE  Fresh \in ConfNode /\ ~conf[Fresh].used
<1>1. Unused \subseteq Nat
  BY ConfigAssumption DEF Unused, ConfNode
<1>2. \E n \in Unused : \A m \in Unused : n <= m
  BY <1>1, Least
<1>3. Fresh \in Unused
  BY <1>2 DEF Fresh, Min
<1> QED
  BY <1>3 DEF Unused

LEMMA LookupIs ==
    ASSUME conf \in Heaps, NEW n \in ConfNode, NEW name
    PROVE  LET c == conf_node_lookup_child(n, name)
           IN  \/ c = NULL /\ \A m \in Kids(conf, n) : conf[m].name # name
               \/ c \in Kids(conf, n) /\ conf[c].name = name
<1> DEFINE s == conf[n].children
           found == {i \in DOMAIN s : conf[s[i]].name = name}
<1>1. DOMAIN s = 1 .. Len(s) /\ Len(s) \in Nat
  BY KidsAre
<1>2. CASE found = {}
  <2>1. conf_node_lookup_child(n, name) = NULL
    BY <1>2 DEF conf_node_lookup_child
  <2>2. \A m \in Kids(conf, n) : conf[m].name # name
    BY <1>2, KidsAre
  <2> QED
    BY <2>1, <2>2
<1>3. CASE found # {}
  <2>1. found \subseteq Nat
    BY <1>1
  <2>2. \E i \in found : \A j \in found : i <= j
    <3> HIDE DEF found
    <3> QED
      BY <1>3, <2>1, Least
  <2>3. Min(found) \in found
    <3> HIDE DEF found
    <3> QED
      BY <2>2 DEF Min
  <2>4. conf_node_lookup_child(n, name) = s[Min(found)]
    BY <1>3 DEF conf_node_lookup_child
  <2> QED
    BY <2>3, <2>4, KidsAre
<1> QED
  BY <1>2, <1>3

(* What the steps keep: the trees of the root and of the removed parts are  *)
(* good, and a parser or a search is inside the tree of the root.           *)
ConfInv ==
    /\ ConfTypeOK
    /\ Good(conf, Tops, dropped) /\ root \notin removed
    /\ call \in {"parse", "set"} => root # NULL /\ at \in Below(conf, root)
    /\ call = "set" => rest.keys # <<>>

LEMMA Joined ==
    ASSUME NEW S, NEW s \in Seq(S), NEW n \in S, NEW r,
           n \notin Range(s), \A i, j \in DOMAIN s : s[i] = s[j] => i = j
    PROVE  r \in {Append(s, n), <<n>> \o s} =>
              /\ r \in Seq(S) /\ Range(r) = Range(s) \cup {n}
              /\ \A i, j \in DOMAIN r : r[i] = r[j] => i = j
<1>1. CASE r = Append(s, n)
  <2>1. r \in Seq(S) /\ Len(r) = Len(s) + 1 /\ Len(s) \in Nat
    BY <1>1
  <2>2. \A i \in 1 .. Len(s) : r[i] = s[i]
    BY <1>1
  <2>3. r[Len(s) + 1] = n /\ DOMAIN r = 1 .. Len(s) + 1 /\ DOMAIN s = 1 .. Len(s)
    BY <1>1, <2>1
  <2>4. Range(r) = Range(s) \cup {n}
    BY <2>1, <2>2, <2>3 DEF Range
  <2>5. \A i \in 1 .. Len(s) : s[i] # n
    BY <2>3 DEF Range
  <2> QED
    BY <2>1, <2>2, <2>3, <2>4, <2>5
<1>2. CASE r = <<n>> \o s
  <2>1. r \in Seq(S) /\ Len(r) = Len(s) + 1 /\ Len(s) \in Nat
    BY <1>2
  <2>2. \A i \in 1 .. Len(s) : r[i + 1] = s[i]
    BY <1>2
  <2>3. r[1] = n /\ DOMAIN r = 1 .. Len(s) + 1 /\ DOMAIN s = 1 .. Len(s)
    BY <1>2, <2>1
  <2>4. \A i \in 2 .. Len(s) + 1 : i - 1 \in 1 .. Len(s) /\ r[i] = s[i - 1]
    <3>1. \A i \in 2 .. Len(s) + 1 : i - 1 \in 1 .. Len(s) /\ (i - 1) + 1 = i
      BY <2>1
    <3> QED
      BY <3>1, <2>2
  <2>5. Range(r) = Range(s) \cup {n}
    <3>1. \A i \in 1 .. Len(s) : i + 1 \in DOMAIN r
      BY <2>1, <2>3
    <3>2. \A i \in DOMAIN r : i = 1 \/ i \in 2 .. Len(s) + 1
      BY <2>1, <2>3
    <3>3. 1 \in DOMAIN r
      BY <2>1, <2>3
    <3>4. \A i \in DOMAIN r : r[i] \in Range(s) \cup {n}
      BY <2>3, <2>4, <3>2 DEF Range
    <3>5. \A x \in Range(s) \cup {n} : \E i \in DOMAIN r : r[i] = x
      BY <2>2, <2>3, <3>1, <3>3 DEF Range
    <3>6. Range(r) = {r[i] : i \in DOMAIN r}
      BY DEF Range
    <3> QED
      BY <3>4, <3>5, <3>6
  <2>6. \A i \in 1 .. Len(s) : s[i] # n
    BY <2>3 DEF Range
  <2>7. \A i \in DOMAIN r : i = 1 \/ i \in 2 .. Len(s) + 1
    BY <2>1, <2>3
  <2>8. ASSUME NEW i \in DOMAIN r, NEW j \in DOMAIN r, r[i] = r[j] PROVE i = j
    <3>1. CASE i = 1 \/ j = 1
      BY <3>1, <2>3, <2>4, <2>6, <2>7, <2>8
    <3>2. CASE i # 1 /\ j # 1
      <4>1. i - 1 = j - 1
        BY <3>2, <2>3, <2>4, <2>7, <2>8
      <4> QED
        BY <4>1, <2>1, <2>3
    <3> QED
      BY <3>1, <3>2
  <2> QED
    BY <2>1, <2>5, <2>8
<1> QED
  BY <1>1, <1>2

LEMMA LinkedIs ==
    ASSUME conf \in Heaps, NEW p \in ConfNode, NEW n \in ConfNode, n # p,
           NEW name \in NodeNames, NEW type \in Types,
           NEW h \in {Linked(n, p, name, type), LinkedFirst(n, p, name, type)}
    PROVE  \E r \in {Append(conf[p].children, n), <<n>> \o conf[p].children} :
              h = Join(conf, n, p, name, type, r)
<1>1. Linked(n, p, name, type) = Join(conf, n, p, name, type, Append(conf[p].children, n))
  BY DEF Linked, Join, Heaps
<1>2. LinkedFirst(n, p, name, type) = Join(conf, n, p, name, type, <<n>> \o conf[p].children)
  BY DEF LinkedFirst, Join, Heaps
<1> QED
  BY <1>1, <1>2

LEMMA LinkedKeeps ==
    ASSUME ConfInv, call \in {"parse", "set"}, NEW n \in ConfNode, ~conf[n].used,
           NEW name \in NodeNames, NEW type \in Types,
           NEW h \in {Linked(n, at, name, type), LinkedFirst(n, at, name, type)}
    PROVE  Good(h, Tops, dropped) /\ n \in Below(h, root) /\ at \in Below(h, root)
<1>1. Good(conf, Tops, dropped) /\ root \in Tops /\ at \in Below(conf, root)
  BY DEF ConfInv, Tops
<1>2. at \in ConfNode /\ conf[at].used /\ conf \in Heaps
  BY <1>1, BelowUsed DEF Good
<1>3. conf[at].children \in Seq(ConfNode) /\ n # at
  BY <1>2 DEF Heaps, ConfNodes
<1> DEFINE s == conf[at].children
<1>4. n \notin Range(s)
  BY <1>1, <1>2 DEF Good, Sound, Kids
<1>5. \A i, j \in DOMAIN s : s[i] = s[j] => i = j
  BY <1>1, <1>2 DEF Good, Sound
<1>6. PICK r \in {Append(s, n), <<n>> \o s} :
          h = Join(conf, n, at, name, type, r)
  BY <1>2, <1>3, LinkedIs
<1> HIDE DEF s
<1>7. s \in Seq(ConfNode)
  BY <1>3 DEF s
<1>8. r \in Seq(ConfNode) /\ Range(r) = Range(s) \cup {n} /\ \A i, j \in DOMAIN r : r[i] = r[j] => i = j
  BY <1>4, <1>5, <1>6, <1>7, Joined
<1>9. Range(r) = Kids(conf, at) \cup {n}
  BY <1>8 DEF Kids, s
<1> DEFINE g == Join(conf, n, at, name, type, r)
<1>10. /\ Good(g, Tops, dropped) /\ n \in Below(g, root)
       /\ \A u \in Tops : Below(conf, u) \subseteq Below(g, u)
  BY <1>1, <1>8, <1>9, GoodJoins
<1> HIDE DEF g
<1>11. at \in Below(g, root)
  BY <1>1, <1>10
<1>12. h = g
  BY <1>6 DEF g
<1> QED
  BY <1>10, <1>11, <1>12

LEMMA IdleIs ==
    ASSUME Idle
    PROVE  /\ call' \in {"idle", "parse", "set", "undefined"} /\ at' \in ConfNode \cup {NULL}
           /\ rest' \in [keys : Seq(Names), dot : BOOLEAN] /\ call' = "idle"
<1>1. <<>> \in Seq(Names)
  OBVIOUS
<1> QED
  BY <1>1 DEF Idle, Nowhere

LEMMA FailKeeps ==
    ASSUME ConfInv, call = "parse", NEW h, Good(h, Tops, dropped'), Fail(h),
           dropped' \subseteq ConfNode
    PROVE  ConfInv'
<1>1. root \in Tops /\ root \in ConfNode /\ root \notin removed
  BY DEF ConfInv, ConfTypeOK, Tops
<1>2. h[root].parent = NULL /\ h \in Heaps
  BY <1>1 DEF Good
<1>3. Without(h, root) = [m \in ConfNode |-> IF m \in Below(h, root) THEN Unallocated ELSE h[m]]
  BY <1>2 DEF Without, Unlink
<1>4. Good(conf', Tops \ {root}, dropped')
  BY <1>1, <1>3, GoodFreed DEF Fail
<1>5. Tops' = Tops \ {root}
  BY <1>1 DEF Tops, Fail
<1>6. conf' \in Heaps /\ root' = NULL /\ removed' = removed
  BY <1>4 DEF Good, Fail
<1>7. NULL \notin removed
  BY ConfigAssumption DEF ConfInv, ConfTypeOK
<1>8. Idle
  BY DEF Fail
<1> QED
  BY <1>4, <1>5, <1>6, <1>7, <1>8, IdleIs DEF ConfInv, ConfTypeOK

LEMMA ConfInitOK == ConfInit => ConfInv
<1> SUFFICES ASSUME ConfInit PROVE ConfInv
  OBVIOUS
<1>1. Unallocated \in ConfNodes
  BY BlankIs
<1>2. conf \in Heaps
  BY <1>1 DEF ConfInit, Heaps
<1>3. Tops = {}
  BY DEF ConfInit, Tops
<1>4. \A n \in ConfNode : conf[n] = Unallocated
  BY DEF ConfInit
<1>5. Unallocated.used = FALSE /\ Unallocated.children = <<>>
  BY DEF Unallocated
<1>6. \A n \in ConfNode : Kids(conf, n) = {}
  BY <1>4, <1>5 DEF Kids, Range
<1>7. Sound(conf)
  BY <1>4, <1>5, <1>6 DEF Sound
<1>8. Good(conf, Tops, dropped)
  BY <1>2, <1>3, <1>4, <1>5, <1>7 DEF Good
<1>9. <<>> \in Seq(Names)
  OBVIOUS
<1> QED
  BY <1>2, <1>8, <1>9 DEF ConfInit, ConfInv, ConfTypeOK, Nowhere

(* Parsing.                                                                 *)
LEMMA DocStep ==
    ASSUME ConfInv, NEW type \in Containers, parse_yaml_doc(type)
    PROVE  ConfInv'
<1>1. Fresh \in ConfNode /\ ~conf[Fresh].used
  BY FreshIs DEF parse_yaml_doc, ConfInv, ConfTypeOK
<1>2. PICK n \in ConfNode : n = Fresh
  BY <1>1
<1>3. type \in Types /\ <<>> \in NodeNames /\ n # NULL
  BY ConfigAssumption DEF Containers, Types, NodeNames
<1>4. conf' = [conf EXCEPT ![n] = New(NULL, <<>>, type)] /\ root' = n /\ at' = n
  BY <1>2 DEF parse_yaml_doc
<1>5. Good(conf', Tops \cup {n}, dropped)
  BY <1>1, <1>2, <1>3, <1>4, GoodApart DEF ConfInv
<1>6. Tops' = Tops \cup {n}
  BY <1>3, <1>4 DEF parse_yaml_doc, Tops
<1>7. n \notin removed
  BY <1>1, <1>2 DEF ConfInv, Good, Tops
<1>8. n \in Below(conf', n)
  BY BelowIs
<1> QED
  BY <1>3, <1>4, <1>5, <1>6, <1>7, <1>8 DEF parse_yaml_doc, ConfInv, ConfTypeOK, Good

LEMMA NameIs ==
    ASSUME ConfInv, call = "parse"
    PROVE  Index[Len(conf[at].children)] \in NodeNames /\ at \in ConfNode
<1>1. at \in ConfNode /\ conf \in Heaps /\ Sound(conf)
  <2>1. root \in Tops /\ at \in Below(conf, root) /\ Good(conf, Tops, dropped)
    BY DEF ConfInv, Tops
  <2> QED
    BY <2>1, BelowUsed DEF Good
<1>2. Len(conf[at].children) \in 0 .. MaxNodes
  BY <1>1, FewKids
<1> QED
  BY <1>1, <1>2 DEF NodeNames, Index, Range

LEMMA JoinStep ==
    ASSUME ConfInv, NEW type \in Containers \cup {"scalar"},
           \/ ParseItem(type)
           \/ \E key \in KeyNames : ParsePair(key, type)
    PROVE  ConfInv'
<1>1. call = "parse" /\ Unused # {}
  BY DEF ParseItem, ParsePair, Parsing
<1>2. Fresh \in ConfNode /\ ~conf[Fresh].used
  BY <1>1, FreshIs DEF ConfInv, ConfTypeOK
<1>3. PICK n \in ConfNode : n = Fresh
  BY <1>2
<1>4. type \in Types
  BY DEF Containers, Types
<1>5. PICK name \in NodeNames : conf' = Linked(n, at, name, type)
  BY <1>1, <1>3, NameIs DEF ParseItem, ParsePair, NodeNames
<1>6. Value(n, type)
  BY <1>3 DEF ParseItem, ParsePair
<1>7. Good(conf', Tops, dropped) /\ n \in Below(conf', root) /\ at \in Below(conf', root)
  BY <1>1, <1>2, <1>3, <1>4, <1>5, LinkedKeeps
<1>8. at' \in {n, at} /\ UNCHANGED <<root, removed, dropped, call, rest>>
  BY <1>6 DEF Value
<1>9. Tops' = Tops
  BY <1>8 DEF Tops
<1> QED
  BY <1>1, <1>7, <1>8, <1>9 DEF ConfInv, ConfTypeOK, Good

LEMMA FailStep ==
    ASSUME ConfInv,
           \/ \E key \in KeyNames \cup {<<>>} : PairFails(key)
           \/ ItemFails \/ ItemUnnamed \/ ParseFails
    PROVE  ConfInv'
<1>1. call = "parse"
  BY DEF PairFails, ItemFails, ItemUnnamed, ParseFails, Parsing
<1>2. CASE ParseFails
  <2>1. dropped' = dropped /\ Fail(conf)
    BY <1>2 DEF ParseFails
  <2> QED
    BY <1>1, <2>1, FailKeeps DEF ConfInv, ConfTypeOK
<1>3. CASE ~ParseFails
  <2>1. Unused # {}
    BY <1>3 DEF PairFails, ItemFails, ItemUnnamed, Parsing
  <2>2. Fresh \in ConfNode /\ ~conf[Fresh].used
    BY <2>1, FreshIs DEF ConfInv, ConfTypeOK
  <2>3. PICK n \in ConfNode : n = Fresh
    BY <2>2
  <2>4. "none" \in Types /\ <<>> \in NodeNames
    BY DEF Types, NodeNames
  <2>5. CASE ItemUnnamed
    <3>1. PICK h : h = [conf EXCEPT ![n] = New(at, <<>>, "none")]
      OBVIOUS
    <3>2. Good(h, Tops, dropped \cup {n})
      BY <2>2, <2>3, <2>4, <3>1, <1>1, NameIs, GoodApart DEF ConfInv
    <3>3. Fail(h) /\ dropped' = dropped \cup {n}
      BY <2>3, <2>5, <3>1 DEF ItemUnnamed
    <3>4. dropped' \subseteq ConfNode
      BY <3>3 DEF ConfInv, ConfTypeOK
    <3> QED
      BY <1>1, <3>2, <3>3, <3>4, FailKeeps
  <2>6. CASE ItemFails \/ \E key \in KeyNames \cup {<<>>} : PairFails(key)
    <3>1. PICK name \in NodeNames : Fail(Linked(n, at, name, "none"))
      BY <1>1, <2>3, <2>6, NameIs DEF ItemFails, PairFails, NodeNames
    <3>2. Good(Linked(n, at, name, "none"), Tops, dropped)
      BY <1>1, <2>2, <2>3, <2>4, LinkedKeeps
    <3>3. dropped' = dropped /\ dropped \subseteq ConfNode
      BY <2>6 DEF ItemFails, PairFails, ConfInv, ConfTypeOK
    <3> QED
      BY <1>1, <3>1, <3>2, <3>3, FailKeeps
  <2> QED
    BY <1>3, <2>5, <2>6
<1> QED
  BY <1>2, <1>3

LEMMA ParsedStep ==
    ASSUME ConfInv, ParsedNode
    PROVE  ConfInv'
<1>1. UNCHANGED <<conf, root, removed, dropped>> /\ Tops' = Tops /\ call = "parse"
  BY DEF ParsedNode, Tops
<1>2. CASE at = root
  BY <1>1, <1>2, IdleIs DEF ParsedNode, ConfInv, ConfTypeOK
<1>3. CASE at # root
  <2>1. root \in Tops /\ at \in Below(conf, root) /\ root \in ConfNode
    BY <1>1 DEF ConfInv, ConfTypeOK, Tops
  <2>2. conf[at].parent \in Below(conf, root) /\ Below(conf, root) \subseteq ConfNode
    BY <1>3, <2>1, BelowUsed, BelowIs DEF ConfInv
  <2>3. at' = conf[at].parent /\ UNCHANGED <<call, rest>>
    BY <1>3 DEF ParsedNode
  <2> QED
    BY <1>1, <2>1, <2>2, <2>3 DEF ConfInv, ConfTypeOK
<1> QED
  BY <1>2, <1>3

(* The other functions.                                                     *)
LEMMA KeptIs ==
    ASSUME ConfInv, NEW n \in Kept
    PROVE  /\ n \in ConfNode /\ conf[n].used
           /\ n \notin Tops => conf[n].parent \in ConfNode /\ n \in Kids(conf, conf[n].parent)
<1>1. PICK t \in Tops : n \in Below(conf, t)
  BY DEF Kept
<1>2. t \in ConfNode
  BY DEF ConfInv, Good
<1> QED
  BY <1>1, <1>2, BelowUsed, BelowIs DEF ConfInv

LEMMA RemoveStep ==
    ASSUME ConfInv, NEW n \in ConfNode, conf_remove_node(n)
    PROVE  ConfInv'
<1>1. n \in Kept /\ n \notin Tops
  BY DEF conf_remove_node
<1>2. PICK p \in ConfNode : n \in Kids(conf, p)
  BY <1>1, KeptIs
<1>3. Good(conf', Tops \cup {n}, dropped)
  BY <1>2, GoodUnlink DEF conf_remove_node, ConfInv
<1>4. Tops' = Tops \cup {n} /\ n # root
  BY <1>1, ConfigAssumption DEF Tops, conf_remove_node
<1> QED
  BY <1>3, <1>4 DEF ConfInv, ConfTypeOK, conf_remove_node, Good

LEMMA FreeStep ==
    ASSUME ConfInv, NEW n \in ConfNode, conf_free_root(n)
    PROVE  ConfInv'
<1>1. n \in Kept /\ conf' = Without(conf, n) /\ conf \in Heaps
  BY DEF conf_free_root, ConfInv, Good
<1>2. Good(conf', Tops \ {n}, dropped)
  <2>1. CASE n \in Tops
    <3>1. conf[n].parent = NULL
      BY <2>1 DEF ConfInv, Good
    <3>2. conf' = [m \in ConfNode |-> IF m \in Below(conf, n) THEN Unallocated ELSE conf[m]]
      BY <1>1, <3>1 DEF Without, Unlink
    <3> QED
      BY <2>1, <3>2, GoodFreed DEF ConfInv
  <2>2. CASE n \notin Tops
    <3>1. PICK p \in ConfNode : n \in Kids(conf, p)
      BY <1>1, <2>2, KeptIs
    <3>2. PICK u : u = Unlink(conf, n)
      OBVIOUS
    <3>3. Good(u, Tops \cup {n}, dropped)
      BY <3>1, <3>2, GoodUnlink DEF ConfInv
    <3>4. conf' = [m \in ConfNode |-> IF m \in Below(u, n) THEN Unallocated ELSE u[m]]
      BY <1>1, <3>2 DEF Without
    <3>5. Good(conf', (Tops \cup {n}) \ {n}, dropped)
      BY <3>3, <3>4, GoodFreed
    <3>6. (Tops \cup {n}) \ {n} = Tops \ {n}
      OBVIOUS
    <3> QED
      BY <3>5, <3>6
  <2> QED
    BY <2>1, <2>2
<1>3. Tops' = Tops \ {n}
  BY ConfigAssumption DEF Tops, conf_free_root, ConfInv
<1>4. call = "idle" /\ root' \in {root, NULL} /\ removed' \subseteq removed /\ UNCHANGED <<dropped, call, at, rest>>
  BY DEF conf_free_root
<1>5. NULL \notin removed
  BY ConfigAssumption DEF ConfInv, ConfTypeOK
<1> QED
  BY <1>2, <1>3, <1>4, <1>5 DEF ConfInv, ConfTypeOK, Good

LEMMA OneKey ==
    ASSUME NEW k \in Names, NEW keys, keys = <<k>>
    PROVE  keys \in Seq(Names) /\ keys # <<>>
<1>1. <<k>> \in Seq(Names)
  OBVIOUS
<1>2. keys \in Seq(Names)
  BY <1>1, Zenon
<1>3. keys = Append(<<>>, k) /\ <<>> \in Seq(Names)
  OBVIOUS
<1>4. \A s \in Seq(Names) : Append(s, k) # <<>>
  OBVIOUS
<1> QED
  BY <1>2, <1>3, <1>4

LEMMA TwoKeys ==
    ASSUME NEW k \in Names, NEW l \in Names, NEW keys, keys = <<k, l>>
    PROVE  keys \in Seq(Names) /\ keys # <<>>
<1>1. <<k, l>> \in Seq(Names)
  OBVIOUS
<1>2. keys \in Seq(Names)
  BY <1>1, Zenon
<1>3. keys = Append(Append(<<>>, k), l) /\ Append(<<>>, k) \in Seq(Names)
  OBVIOUS
<1>4. \A s \in Seq(Names) : Append(s, l) # <<>>
  OBVIOUS
<1> QED
  BY <1>2, <1>3, <1>4

LEMMA SetStep ==
    ASSUME ConfInv,
           NEW keys \in {<<k>> : k \in Names} \cup {<<k, l>> : k, l \in Names}, NEW dot \in BOOLEAN,
           conf_set(keys, dot)
    PROVE  ConfInv'
<1>1. keys \in Seq(Names) /\ keys # <<>>
  <2>1. (\E k \in Names : keys = <<k>>) \/ (\E k, l \in Names : keys = <<k, l>>)
    OBVIOUS
  <2> QED
    BY <2>1, OneKey, TwoKeys
<1>2. root \in ConfNode /\ root \in Below(conf, root)
  BY BelowIs DEF conf_set, ConfInv, ConfTypeOK
<1>3. UNCHANGED <<conf, root, removed, dropped>> /\ Tops' = Tops
  BY DEF conf_set, Tops
<1>4. rest' \in [keys : Seq(Names), dot : BOOLEAN] /\ rest'.keys # <<>>
  BY <1>1 DEF conf_set
<1> QED
  BY <1>2, <1>3, <1>4 DEF conf_set, ConfInv, ConfTypeOK

(* The search has come to a node of the tree.                               *)
LEMMA ReachedKeeps ==
    ASSUME ConfInv, call = "set", NEW n \in ConfNode, Reached(n), UNCHANGED <<root, removed, dropped>>,
           Good(conf', Tops, dropped), n \in Below(conf', root), at \in Below(conf', root)
    PROVE  ConfInv'
<1>1. Tops' = Tops /\ conf' \in Heaps
  BY DEF Tops, Good
<1>2. rest.keys \in Seq(Names) /\ rest \in [keys : Seq(Names), dot : BOOLEAN]
  BY DEF ConfInv, ConfTypeOK
<1>3. CASE Len(rest.keys) > 1
  <2>1. at' = n /\ rest' = [rest EXCEPT !.keys = Tail(@)] /\ UNCHANGED call
    <3>1. \A m \in Nat : m > 1 => ~(m = 1)
      OBVIOUS
    <3>2. Len(rest.keys) \in Nat
      BY <1>2
    <3>3. ~(Len(rest.keys) = 1 /\ rest.dot)
      BY <1>3, <3>1, <3>2
    <3> QED
      BY <1>3, <3>3 DEF Reached
  <2>2. Tail(rest.keys) \in Seq(Names) /\ Tail(rest.keys) # <<>>
    <3>1. ASSUME NEW s \in Seq(Names), Len(s) > 1 PROVE Tail(s) \in Seq(Names) /\ Tail(s) # <<>>
      <4>1. s # <<>> /\ Len(Tail(s)) = Len(s) - 1 /\ Len(s) \in Nat
        BY <3>1
      <4>2. Len(Tail(s)) # 0 /\ Tail(s) \in Seq(Names)
        BY <3>1, <4>1
      <4>3. Len(<<>>) = 0
        OBVIOUS
      <4> QED
        BY <4>2, <4>3, Zenon
    <3> QED
      BY <1>2, <1>3, <3>1
  <2>3. rest' \in [keys : Seq(Names), dot : BOOLEAN] /\ rest'.keys # <<>>
    BY <1>2, <2>1, <2>2
  <2> QED
    BY <1>1, <2>1, <2>3 DEF ConfInv, ConfTypeOK
<1>4. CASE ~(Len(rest.keys) > 1) /\ Len(rest.keys) = 1 /\ rest.dot
  <2>1. Idle
    BY <1>4 DEF Reached
  <2> QED
    BY <1>1, <2>1, IdleIs DEF ConfInv, ConfTypeOK
<1>5. CASE ~(Len(rest.keys) > 1) /\ ~(Len(rest.keys) = 1 /\ rest.dot)
  <2>1. call' = "undefined" /\ UNCHANGED <<at, rest>>
    BY <1>5 DEF Reached
  <2> QED
    BY <1>1, <2>1 DEF ConfInv, ConfTypeOK
<1> QED
  BY <1>3, <1>4, <1>5

LEMMA FollowStep ==
    ASSUME ConfInv, FollowKey
    PROVE  ConfInv'
<1>1. call = "set" /\ NextChild # NULL /\ UNCHANGED <<conf, root, removed, dropped>>
  BY DEF FollowKey
<1>2. at \in Below(conf, root) /\ root \in Tops /\ at \in ConfNode /\ conf \in Heaps
  <2>1. root \in Tops /\ at \in Below(conf, root) /\ Good(conf, Tops, dropped)
    BY <1>1 DEF ConfInv, Tops
  <2> QED
    BY <2>1, BelowUsed DEF Good
<1>3. NextChild \in Kids(conf, at)
  BY <1>1, <1>2, LookupIs DEF NextChild
<1>4. PICK n \in ConfNode : n = NextChild
  BY <1>2, <1>3, KidsAre
<1>5. n \in Below(conf, root)
  BY <1>2, <1>3, <1>4, BelowUsed DEF ConfInv
<1>6. Reached(n)
  BY <1>4 DEF FollowKey
<1>7. Good(conf', Tops, dropped) /\ n \in Below(conf', root) /\ at \in Below(conf', root)
  BY <1>1, <1>2, <1>5 DEF ConfInv
<1> QED
  BY <1>1, <1>6, <1>7, ReachedKeeps

LEMMA CreateStep ==
    ASSUME ConfInv, CreateKey
    PROVE  ConfInv'
<1>1. call = "set" /\ Unused # {} /\ UNCHANGED <<root, removed, dropped>>
  BY DEF CreateKey
<1>2. Fresh \in ConfNode /\ ~conf[Fresh].used
  BY <1>1, FreshIs DEF ConfInv, ConfTypeOK
<1>3. PICK n \in ConfNode : n = Fresh
  BY <1>2
<1>4. Head(rest.keys) \in Names
  BY <1>1 DEF ConfInv, ConfTypeOK
<1>5. <<Head(rest.keys)>> \in NodeNames
  BY <1>4 DEF NodeNames, KeyNames
<1>6. PICK name \in NodeNames, type \in Types : conf' = LinkedFirst(n, at, name, type)
  BY <1>3, <1>5 DEF CreateKey, Types
<1>7. Good(conf', Tops, dropped) /\ n \in Below(conf', root) /\ at \in Below(conf', root)
  BY <1>1, <1>2, <1>3, <1>6, LinkedKeeps
<1>8. Reached(n)
  BY <1>3 DEF CreateKey
<1> QED
  BY <1>1, <1>7, <1>8, ReachedKeeps

LEMMA ConfStep == ConfInv /\ [ConfNext]_confvars => ConfInv'
<1> SUFFICES ASSUME ConfInv, [ConfNext]_confvars PROVE ConfInv'
  OBVIOUS
<1>1. CASE \E type \in Containers : parse_yaml_doc(type)
  BY <1>1, DocStep
<1>2. CASE \E type \in Containers \cup {"scalar"} :
              ParseItem(type) \/ \E key \in KeyNames : ParsePair(key, type)
  BY <1>2, JoinStep
<1>3. CASE (\E key \in KeyNames \cup {<<>>} : PairFails(key)) \/ ItemFails \/ ItemUnnamed \/ ParseFails
  BY <1>3, FailStep
<1>4. CASE ParsedNode
  BY <1>4, ParsedStep
<1>5. CASE \E n \in ConfNode : conf_remove_node(n) \/ conf_free_root(n)
  BY <1>5, RemoveStep, FreeStep
<1>6. CASE \E keys \in {<<k>> : k \in Names} \cup {<<k, l>> : k, l \in Names}, dot \in BOOLEAN :
              conf_set(keys, dot)
  BY <1>6, SetStep
<1>7. CASE FollowKey
  BY <1>7, FollowStep
<1>8. CASE CreateKey
  BY <1>8, CreateStep
<1>9. CASE CreateFails
  <2>1. UNCHANGED <<conf, root, removed, dropped>> /\ Idle /\ Tops' = Tops
    BY <1>9 DEF CreateFails, Tops
  <2> QED
    BY <2>1, IdleIs DEF ConfInv, ConfTypeOK
<1>10. CASE UNCHANGED confvars
  <2>1. UNCHANGED <<conf, root, removed, dropped, call, at, rest>> /\ Tops' = Tops
    BY <1>10 DEF confvars, Tops
  <2> QED
    BY <2>1 DEF ConfInv, ConfTypeOK
<1> QED
  BY <1>1, <1>2, <1>3, <1>4, <1>5, <1>6, <1>7, <1>8, <1>9, <1>10 DEF ConfNext

LEMMA ConfInvariant == ConfSpec => []ConfInv
  BY ConfInitOK, ConfStep, PTL DEF ConfSpec

(* The nodes of config.c and the variables of its loops keep their types,   *)
(* for any number of nodes and names.                                       *)
THEOREM ConfTypeCorrect == ConfSpec => []ConfTypeOK
<1>1. ConfInv => ConfTypeOK
  BY DEF ConfInv
<1> QED
  BY <1>1, ConfInvariant, PTL

(* NothingLost: after any parsing, setting, removing and freeing, wherever  *)
(* it failed, an allocated node is in the tree or in a part that a caller   *)
(* holds, and a child names its parent.  The one exception is the item of   *)
(* config.c:125, whose name could not be allocated.                         *)
THEOREM NothingIsLost == ConfSpec => []NothingLost
<1>1. ConfInv => NothingLost
  <2> SUFFICES ASSUME ConfInv PROVE NothingLost
    OBVIOUS
  <2>1. ASSUME NEW n \in ConfNode, conf[n].used
        PROVE  n \in Kept \/ n \in dropped
    BY <2>1 DEF ConfInv, Good, Kept
  <2>2. ASSUME NEW n \in ConfNode, NEW i \in 1 .. MaxNodes, i \in DOMAIN conf[n].children
        PROVE  conf[conf[n].children[i]].used /\ conf[conf[n].children[i]].parent = n
    BY <2>2, KidsAre DEF ConfInv, Good, Sound
  <2> QED
    BY <2>1, <2>2 DEF NothingLost
<1> QED
  BY <1>1, ConfInvariant, PTL

-----------------------------------------------------------------------------
(* Paths.                                                                   *)

Parts == Names \cup Dotted \cup {ToString(i) : i \in 0 .. MaxNodes} \cup {"[]"}

LEMMA NamesAre == NodeNames \subseteq Seq(Parts)
<1>1. \A k \in Parts : <<k>> \in Seq(Parts) /\ <<k, k>> \in Seq(Parts)
  OBVIOUS
<1>2. KeyNames \subseteq Seq(Parts)
  BY <1>1 DEF KeyNames, Parts
<1>3. \A i \in 0 .. MaxNodes : ToString(i) \in Parts
  BY DEF Parts
<1>4. Range(Index) \subseteq Seq(Parts)
  BY <1>1, <1>3 DEF Range, Index
<1>5. <<>> \in Seq(Parts)
  OBVIOUS
<1> QED
  BY <1>2, <1>4, <1>5 DEF NodeNames

(* The path of m, from the paths f.                                         *)
PathOf(h, f, m) ==
    LET p == h[m].parent IN
    CASE p = NULL -> <<>>
      [] p # NULL /\ h[p].type = "mapping" -> f[p] \o h[m].name
      [] OTHER -> SubSeq(f[p], 1, Len(f[p]) - 1) \o <<"[]">>

LEMMA PathOfType ==
    ASSUME NEW h \in Heaps, NEW m \in ConfNode, NEW f,
           h[m].parent # NULL => f[h[m].parent] \in Seq(Parts)
    PROVE  PathOf(h, f, m) \in Seq(Parts)
<1>1. h[m].name \in Seq(Parts)
  BY NamesAre DEF Heaps, ConfNodes
<1>2. <<"[]">> \in Seq(Parts) /\ <<>> \in Seq(Parts)
  BY DEF Parts
<1>3. \A s \in Seq(Parts) : SubSeq(s, 1, Len(s) - 1) \in Seq(Parts)
  OBVIOUS
<1>4. \A s, t \in Seq(Parts) : s \o t \in Seq(Parts)
  OBVIOUS
<1>5. CASE h[m].parent = NULL
  BY <1>2, <1>5 DEF PathOf
<1>6. CASE h[m].parent # NULL /\ h[h[m].parent].type = "mapping"
  <2>1. PathOf(h, f, m) = f[h[m].parent] \o h[m].name
    BY <1>6 DEF PathOf
  <2> QED
    BY <2>1, <1>1, <1>4, <1>6
<1>7. CASE h[m].parent # NULL /\ h[h[m].parent].type # "mapping"
  <2>1. PathOf(h, f, m) = SubSeq(f[h[m].parent], 1, Len(f[h[m].parent]) - 1) \o <<"[]">>
    BY <1>7 DEF PathOf
  <2> QED
    BY <2>1, <1>2, <1>3, <1>4, <1>7
<1> QED
  BY <1>5, <1>6, <1>7

(* The nodes of the tree of r have depths and paths.                        *)
HasPaths(h, r) ==
    \E depth \in [Below(h, r) -> Nat], f \in [Below(h, r) -> Seq(Parts)] :
       \A m \in Below(h, r) :
          /\ f[m] = PathOf(h, f, m)
          /\ m # r => depth[h[m].parent] < depth[m]

(* They have them still when nodes leave the tree, or X join it.            *)
LEMMA PathsCarry ==
    ASSUME NEW h, NEW g, NEW T, NEW L, NEW U, NEW M, Good(h, T, L), Good(g, U, M),
           NEW r \in T, r \in U, HasPaths(h, r),
           NEW X, X \cap Below(h, r) = {}, Below(g, r) \subseteq Below(h, r) \cup X,
           \A m \in Below(h, r) \cap Below(g, r) :
              g[m].parent = h[m].parent /\ g[m].name = h[m].name /\ g[m].type = h[m].type,
           \A x \in X \cap Below(g, r) : g[x].parent \in Below(h, r)
    PROVE  HasPaths(g, r)
<1> DEFINE B == Below(h, r)
           C == Below(g, r)
<1>1. PICK depth \in [B -> Nat], f \in [B -> Seq(Parts)] :
          \A m \in B : /\ f[m] = PathOf(h, f, m)
                       /\ m # r => depth[h[m].parent] < depth[m]
  BY DEF HasPaths
<1> DEFINE d2 == [m \in C |-> IF m \in X THEN depth[g[m].parent] + 1 ELSE depth[m]]
           f2 == [m \in C |-> IF m \in X THEN PathOf(g, f, m) ELSE f[m]]
<1>2. g \in Heaps /\ h \in Heaps /\ r \in ConfNode /\ B \subseteq ConfNode /\ C \subseteq ConfNode
  BY BelowIs DEF Good
<1>3. \A m \in C : IF m = r THEN g[m].parent = NULL ELSE g[m].parent \in C
  <2>1. ASSUME NEW m \in C, m # r PROVE g[m].parent \in C
    BY <2>1, BelowUsed
  <2> QED
    BY <2>1 DEF Good
<1>4. \A m \in C : g[m].parent # NULL => g[m].parent \in B
  <2> SUFFICES ASSUME NEW m \in C, g[m].parent # NULL PROVE g[m].parent \in B
    OBVIOUS
  <2>1. m # r
    BY <1>3
  <2>2. CASE m \in X
    BY <2>2
  <2>3. CASE m \in B
    <3>1. g[m].parent = h[m].parent
      BY <2>3
    <3> QED
      BY <2>1, <2>3, <3>1, BelowUsed
  <2> QED
    BY <2>2, <2>3
<1>5. r \in B /\ r \notin X
  BY <1>2, BelowIs
<1>6. d2 \in [C -> Nat]
  <2> SUFFICES ASSUME NEW m \in C PROVE d2[m] \in Nat
    OBVIOUS
  <2>1. CASE m \in X
    BY <2>1, <1>1
  <2>2. CASE m \notin X
    BY <2>2, <1>1
  <2> QED
    BY <2>1, <2>2
<1>7. f2 \in [C -> Seq(Parts)]
  <2> SUFFICES ASSUME NEW m \in C PROVE f2[m] \in Seq(Parts)
    OBVIOUS
  <2>1. CASE m \in X
    <3>1. PathOf(g, f, m) \in Seq(Parts)
      BY <1>1, <1>2, <1>4, PathOfType
    <3> QED
      BY <2>1, <3>1
  <2>2. CASE m \notin X
    BY <2>2, <1>1
  <2> QED
    BY <2>1, <2>2
<1>8. ASSUME NEW m \in C PROVE f2[m] = PathOf(g, f2, m)
  <2>1. g[m].parent # NULL => g[m].parent \in B /\ g[m].parent \in C /\ f2[g[m].parent] = f[g[m].parent]
    BY <1>3, <1>4
  <2>2. PathOf(g, f2, m) = PathOf(g, f, m)
    <3> HIDE DEF f2
    <3> QED
      BY <2>1 DEF PathOf
  <2>3. CASE m \in X
    BY <2>2, <2>3
  <2>4. CASE m \notin X
    <3>1. m \in B /\ f2[m] = f[m] /\ f[m] = PathOf(h, f, m)
      BY <2>4, <1>1
    <3>2. g[m].parent = h[m].parent /\ g[m].name = h[m].name
      BY <3>1
    <3>3. g[m].parent # NULL => g[g[m].parent].type = h[h[m].parent].type
      BY <2>1, <3>2
    <3>4. PathOf(g, f, m) = PathOf(h, f, m)
      BY <3>2, <3>3 DEF PathOf
    <3> QED
      BY <2>2, <3>1, <3>4
  <2> QED
    BY <2>3, <2>4
<1>9. ASSUME NEW m \in C, m # r PROVE d2[g[m].parent] < d2[m]
  <2>1. g[m].parent \in C /\ g[m].parent \in B /\ g[m].parent \notin X
    BY <1>2, <1>3, <1>4, <1>9, ConfigAssumption
  <2>2. d2[g[m].parent] = depth[g[m].parent] /\ depth[g[m].parent] \in Nat
    BY <2>1, <1>1
  <2>3. CASE m \in X
    BY <2>2, <2>3
  <2>4. CASE m \notin X
    <3>1. m \in B /\ d2[m] = depth[m] /\ g[m].parent = h[m].parent
      BY <2>4
    <3>2. depth[h[m].parent] < depth[m]
      BY <1>1, <1>9, <3>1
    <3> HIDE DEF d2
    <3> QED
      BY <2>2, <3>1, <3>2
  <2> QED
    BY <2>3, <2>4
<1> HIDE DEF d2, f2
<1>10. \A m \in C : /\ f2[m] = PathOf(g, f2, m)
                    /\ m # r => d2[g[m].parent] < d2[m]
  BY <1>8, <1>9
<1> QED
  BY <1>6, <1>7, <1>10 DEF HasPaths

(* Below a mapping no name occurs twice.                                    *)
Distinct(h, p) ==
    h[p].type = "mapping" =>
       \A m, n \in Kids(h, p) : h[m].name = h[n].name => m = n

PathInv ==
    /\ \A p \in ConfNode : Distinct(conf, p)
    /\ root # NULL => HasPaths(conf, root)

(* What join the children of at, with a name of their own if at is a        *)
(* mapping.                                                                 *)
LEMMA JoinedPaths ==
    ASSUME ConfInv, PathInv, call \in {"parse", "set"}, NEW n \in ConfNode, ~conf[n].used,
           NEW name \in NodeNames, NEW type \in Types,
           NEW h \in {Linked(n, at, name, type), LinkedFirst(n, at, name, type)}
    PROVE  /\ HasPaths(h, root)
           /\ \A p \in ConfNode \ {at} : Distinct(h, p)
           /\ (conf[at].type = "mapping" => \A m \in Kids(conf, at) : conf[m].name # name)
                 => Distinct(h, at)
<1>1. Good(conf, Tops, dropped) /\ root \in Tops /\ at \in Below(conf, root)
  BY DEF ConfInv, Tops
<1>2. at \in ConfNode /\ conf[at].used /\ conf \in Heaps /\ at # n /\ n # root
  BY <1>1, BelowUsed DEF Good
<1>3. Good(h, Tops, dropped) /\ n \in Below(h, root) /\ at \in Below(h, root)
  BY LinkedKeeps
<1>4. PICK r \in {Append(conf[at].children, n), <<n>> \o conf[at].children} :
          h = Join(conf, n, at, name, type, r)
  BY <1>2, LinkedIs
<1>5. /\ h[n].parent = at /\ h[n].name = name /\ h[n].children = <<>>
      /\ \A m \in ConfNode \ {n} :
            h[m].parent = conf[m].parent /\ h[m].name = conf[m].name /\ h[m].type = conf[m].type
      /\ \A m \in ConfNode \ {n, at} : h[m] = conf[m]
      /\ h[at].children = r
  BY <1>2, <1>4 DEF Join, Heaps, ConfNodes, New
<1>6. Kids(h, at) = Kids(conf, at) \cup {n}
  <2> DEFINE s == conf[at].children
  <2>1. s \in Seq(ConfNode) /\ \A i, j \in DOMAIN s : s[i] = s[j] => i = j
    BY <1>1, <1>2 DEF Heaps, ConfNodes, Good, Sound
  <2>2. n \notin Range(s)
    BY <1>1, <1>2 DEF Good, Sound, Kids
  <2>3. r \in {Append(s, n), <<n>> \o s}
    BY <1>4
  <2> HIDE DEF s
  <2>4. Range(r) = Range(s) \cup {n}
    BY <2>1, <2>2, <2>3, Joined
  <2> QED
    BY <1>5, <2>4 DEF Kids, s
<1>7. Kids(h, n) = {} /\ \A m \in ConfNode \ {n, at} : Kids(h, m) = Kids(conf, m)
  BY <1>5 DEF Kids, Range
<1>8. \A m \in ConfNode : n \notin Kids(conf, m)
  BY <1>1 DEF Good, Sound
<1>9. Below(h, root) \subseteq Below(conf, root) \cup {n}
  <2>1. root \in ConfNode /\ Stays(conf, Below(conf, root)) /\ root \in Below(conf, root)
    BY <1>1, <1>2, BelowKept, BelowIs DEF Good
  <2>2. Below(conf, root) \cup {n} \in SUBSET ConfNode
    BY <2>1, BelowIs
  <2>3. Stays(h, Below(conf, root) \cup {n})
    BY <1>6, <1>7, <2>1, <2>2 DEF Stays
  <2> QED
    BY <2>1, <2>2, <2>3, BelowIs
<1>10. n \notin Below(conf, root)
  BY <1>1, BelowUsed
<1>11. HasPaths(h, root)
  <2>1. HasPaths(conf, root)
    BY <1>1, ConfigAssumption DEF PathInv, Good
  <2>2. {n} \cap Below(conf, root) = {} /\ Below(conf, root) \subseteq ConfNode \ {n}
    BY <1>1, <1>10, BelowIs DEF Good
  <2> QED
    BY <1>1, <1>3, <1>5, <1>9, <2>1, <2>2, PathsCarry
<1>12. ASSUME NEW p \in ConfNode \ {at} PROVE Distinct(h, p)
  <2>1. CASE p = n
    BY <1>7, <2>1 DEF Distinct
  <2>2. CASE p # n
    <3>1. Kids(h, p) = Kids(conf, p) /\ h[p].type = conf[p].type
      BY <1>5, <1>7, <2>2
    <3>2. \A m \in Kids(conf, p) : h[m].name = conf[m].name
      BY <1>2, <1>5, <1>8, KidsAre
    <3> QED
      BY <3>1, <3>2 DEF Distinct, PathInv
  <2> QED
    BY <2>1, <2>2
<1>13. ASSUME conf[at].type = "mapping" => \A m \in Kids(conf, at) : conf[m].name # name
       PROVE  Distinct(h, at)
  <2>1. h[at].type = conf[at].type /\ Distinct(conf, at)
    BY <1>2, <1>5 DEF PathInv
  <2>2. \A m \in Kids(conf, at) : h[m].name = conf[m].name
    BY <1>2, <1>5, <1>8, KidsAre
  <2> QED
    BY <1>5, <1>6, <1>13, <2>1, <2>2 DEF Distinct
<1> QED
  BY <1>11, <1>12, <1>13

LEMMA NoneJoin ==
    ASSUME NEW h, NEW g, NEW T, NEW L, NEW U, NEW M, Good(h, T, L), Good(g, U, M),
           NEW r \in T, r \in U, HasPaths(h, r),
           Below(g, r) \subseteq Below(h, r),
           \A m \in Below(h, r) \cap Below(g, r) :
              g[m].parent = h[m].parent /\ g[m].name = h[m].name /\ g[m].type = h[m].type
    PROVE  HasPaths(g, r)
<1>1. PICK X : X = {}
  OBVIOUS
<1>2. X \cap Below(h, r) = {} /\ Below(g, r) \subseteq Below(h, r) \cup X
  BY <1>1
<1>3. \A x \in X \cap Below(g, r) : g[x].parent \in Below(h, r)
  BY <1>1
<1> QED
  BY <1>2, <1>3, PathsCarry

(* The tree of a top goes: the other trees keep their paths.                *)
LEMMA FreedPaths ==
    ASSUME NEW h, NEW T, NEW L, Good(h, T, L), NEW n \in T,
           \A p \in ConfNode \ Below(h, n) : Distinct(h, p), NEW g,
           g = [m \in ConfNode |-> IF m \in Below(h, n) THEN Unallocated ELSE h[m]]
    PROVE  /\ \A p \in ConfNode : Distinct(g, p)
           /\ \A r \in T \ {n} : HasPaths(h, r) => HasPaths(g, r)
<1> DEFINE D == Below(h, n)
<1>1. h \in Heaps /\ n \in ConfNode /\ D \subseteq ConfNode
  BY BelowIs DEF Good
<1>2. Good(g, T \ {n}, L)
  BY GoodFreed
<1>3. /\ \A m \in D : g[m] = Unallocated /\ Kids(g, m) = {}
      /\ \A m \in ConfNode \ D : g[m] = h[m] /\ Kids(g, m) = Kids(h, m)
  <2>1. \A m \in ConfNode : g[m] = IF m \in D THEN Unallocated ELSE h[m]
    OBVIOUS
  <2>2. Range(Unallocated.children) = {}
    BY DEF Range, Unallocated
  <2> QED
    BY <1>1, <2>1, <2>2 DEF Kids
<1>4. ASSUME NEW p \in ConfNode PROVE Distinct(g, p)
  <2>1. CASE p \in D
    BY <1>3, <2>1 DEF Distinct
  <2>2. CASE p \notin D
    <3>1. \A m \in Kids(g, p) : m \in ConfNode /\ g[m].used
      BY <1>2, KidsAre DEF Good, Sound
    <3>2. \A m \in Kids(g, p) : m \notin D /\ g[m] = h[m]
      BY <1>3, <3>1 DEF Unallocated
    <3> QED
      BY <1>3, <2>2, <3>2 DEF Distinct
  <2> QED
    BY <2>1, <2>2
<1>5. ASSUME NEW r \in T \ {n}, HasPaths(h, r) PROVE HasPaths(g, r)
  <2>1. r \in ConfNode /\ r \in T
    BY DEF Good
  <2>2. \A m \in Below(g, r) : m \in ConfNode /\ g[m].used
    BY <1>2, BelowUsed
  <2>3. \A m \in Below(g, r) : g[m] = h[m]
    BY <1>3, <2>2 DEF Unallocated
  <2>4. Stays(g, Below(h, r))
    <3>1. Stays(h, Below(h, r)) /\ Below(h, r) \subseteq ConfNode
      BY <1>1, <2>1, BelowKept, BelowIs
    <3> QED
      BY <1>3, <3>1 DEF Stays
  <2>5. Below(g, r) \subseteq Below(h, r)
    BY <2>1, <2>4, BelowIs
  <2>6. \A m \in Below(h, r) \cap Below(g, r) :
           g[m].parent = h[m].parent /\ g[m].name = h[m].name /\ g[m].type = h[m].type
    BY <2>3
  <2> QED
    BY <1>2, <1>5, <2>1, <2>5, <2>6, NoneJoin
<1> QED
  BY <1>4, <1>5

(* A node leaves its tree.                                                  *)
LEMMA UnlinkedPaths ==
    ASSUME NEW h, NEW T, NEW L, Good(h, T, L), NEW q \in ConfNode, NEW n \in Kids(h, q),
           NEW u, u = Unlink(h, n)
    PROVE  /\ (\A p \in ConfNode : Distinct(h, p)) => \A p \in ConfNode : Distinct(u, p)
           /\ \A r \in T : HasPaths(h, r) => HasPaths(u, r)
<1>1. h \in Heaps /\ Sound(h) /\ n \in ConfNode /\ h[n].parent = q /\ q # NULL
  BY KidsAre, ConfigAssumption DEF Good, Sound
<1>2. /\ \A m \in ConfNode : /\ u[m].name = h[m].name /\ u[m].type = h[m].type
                             /\ m # n => u[m].parent = h[m].parent
                             /\ Kids(u, m) \subseteq Kids(h, m)
      /\ u[n].parent = NULL
  BY <1>1, UnlinkIs
<1>3. Good(u, T \cup {n}, L)
  BY GoodUnlink
<1>4. ASSUME \A p \in ConfNode : Distinct(h, p), NEW p \in ConfNode PROVE Distinct(u, p)
  <2>1. Kids(h, p) \subseteq ConfNode
    BY <1>1, KidsAre
  <2> QED
    BY <1>2, <1>4, <2>1 DEF Distinct
<1>5. ASSUME NEW r \in T, HasPaths(h, r) PROVE HasPaths(u, r)
  <2>1. r \in ConfNode /\ r # n /\ r \in T \cup {n}
    BY <1>1 DEF Good
  <2>2. n \notin Below(u, r)
    <3>1. u[n].parent \notin Below(u, r)
      BY <1>2, <2>1, BelowIs, ConfigAssumption
    <3> QED
      BY <1>3, <2>1, <3>1, BelowUsed
  <2>3. Below(u, r) \subseteq Below(h, r) /\ Below(h, r) \subseteq ConfNode
    <3>1. Stays(h, Below(h, r)) /\ Below(h, r) \subseteq ConfNode /\ r \in Below(h, r)
      BY <1>1, <2>1, BelowKept, BelowIs
    <3>2. Stays(u, Below(h, r))
      BY <1>2, <3>1 DEF Stays
    <3> QED
      BY <2>1, <3>1, <3>2, BelowIs
  <2>4. \A m \in Below(h, r) \cap Below(u, r) :
           u[m].parent = h[m].parent /\ u[m].name = h[m].name /\ u[m].type = h[m].type
    BY <1>2, <2>2, <2>3
  <2> QED
    BY <1>3, <1>5, <2>1, <2>3, <2>4, NoneJoin
<1> QED
  BY <1>4, <1>5

(* A node is allocated that no node has for a child.                        *)
LEMMA ApartDistinct ==
    ASSUME NEW T, NEW L, Good(conf, T, L), \A q \in ConfNode : Distinct(conf, q),
           NEW n \in ConfNode, ~conf[n].used, NEW p, NEW name, NEW type,
           NEW g, g = [conf EXCEPT ![n] = New(p, name, type)]
    PROVE  \A q \in ConfNode : Distinct(g, q)
<1>1. conf \in Heaps /\ \A m \in ConfNode : n \notin Kids(conf, m)
  BY DEF Good, Sound
<1>2. /\ \A m \in ConfNode \ {n} : g[m] = conf[m] /\ Kids(g, m) = Kids(conf, m)
      /\ Kids(g, n) = {}
  BY <1>1 DEF Heaps, Kids, Range, New
<1> SUFFICES ASSUME NEW q \in ConfNode PROVE Distinct(g, q)
  OBVIOUS
<1>3. Kids(conf, q) \subseteq ConfNode \ {n}
  BY <1>1, KidsAre
<1>4. CASE q = n
  BY <1>2, <1>4 DEF Distinct
<1>5. CASE q # n
  <2>1. \A m \in Kids(conf, q) : g[m] = conf[m]
    BY <1>2, <1>3
  <2>2. g[q] = conf[q] /\ Kids(g, q) = Kids(conf, q) /\ Distinct(conf, q)
    BY <1>2, <1>5
  <2> QED
    BY <2>1, <2>2 DEF Distinct
<1> QED
  BY <1>4, <1>5

LEMMA PathInit == ConfInit => PathInv
<1> SUFFICES ASSUME ConfInit PROVE PathInv
  OBVIOUS
<1>1. \A n \in ConfNode : Kids(conf, n) = {}
  BY DEF ConfInit, Kids, Range, Unallocated
<1> QED
  BY <1>1 DEF ConfInit, PathInv, Distinct

LEMMA DocPaths ==
    ASSUME ConfInv, PathInv, ConfInv', NEW type \in Containers, parse_yaml_doc(type)
    PROVE  PathInv'
<1>1. Fresh \in ConfNode /\ ~conf[Fresh].used
  BY FreshIs DEF parse_yaml_doc, ConfInv, ConfTypeOK
<1>2. PICK n \in ConfNode : n = Fresh
  BY <1>1
<1>3. conf' = [conf EXCEPT ![n] = New(NULL, <<>>, type)] /\ root' = n
  BY <1>2 DEF parse_yaml_doc
<1>4. PICK g : g = conf'
  OBVIOUS
<1>5. \A q \in ConfNode : Distinct(g, q)
  BY <1>1, <1>2, <1>3, <1>4, ApartDistinct DEF ConfInv, PathInv
<1>6. g \in Heaps /\ g[n].parent = NULL /\ g[n].children = <<>>
  BY <1>3, <1>4 DEF ConfInv, Good, Heaps, New
<1>7. Below(g, n) = {n}
  <2>1. Kids(g, n) = {}
    BY <1>6 DEF Kids, Range
  <2>2. Stays(g, {n})
    BY <2>1 DEF Stays
  <2> QED
    BY <2>2, BelowIs
<1>8. HasPaths(g, n)
  <2> DEFINE depth == [m \in Below(g, n) |-> 0]
             f == [m \in Below(g, n) |-> <<>>]
  <2>1. <<>> \in Seq(Parts)
    OBVIOUS
  <2>2. depth \in [Below(g, n) -> Nat] /\ f \in [Below(g, n) -> Seq(Parts)]
    BY <2>1
  <2>3. f[n] = <<>> /\ PathOf(g, f, n) = <<>>
    BY <1>6, <1>7 DEF PathOf
  <2> HIDE DEF depth, f
  <2>4. \A m \in Below(g, n) : /\ f[m] = PathOf(g, f, m)
                               /\ m # n => depth[g[m].parent] < depth[m]
    BY <1>7, <2>3
  <2> QED
    BY <2>2, <2>4 DEF HasPaths
<1>9. \A q \in ConfNode : Distinct(conf', q)
  BY <1>4, <1>5
<1>10. HasPaths(conf', root')
  BY <1>3, <1>4, <1>8
<1> QED
  BY <1>9, <1>10 DEF PathInv

LEMMA JoinPaths ==
    ASSUME ConfInv, PathInv,
           \/ \E type \in Containers \cup {"scalar"} :
                 ParseItem(type) \/ \E key \in KeyNames : ParsePair(key, type)
           \/ CreateKey
    PROVE  PathInv'
<1>1. call \in {"parse", "set"} /\ Unused # {}
  BY DEF ParseItem, ParsePair, Parsing, CreateKey
<1>2. Fresh \in ConfNode /\ ~conf[Fresh].used
  BY <1>1, FreshIs DEF ConfInv, ConfTypeOK
<1>3. PICK n \in ConfNode : n = Fresh
  BY <1>2
<1>4. root \in Tops /\ at \in Below(conf, root) /\ Good(conf, Tops, dropped)
  BY <1>1 DEF ConfInv, Tops
<1>5. at \in ConfNode /\ conf \in Heaps
  BY <1>4, BelowUsed DEF Good
<1>6. /\ UNCHANGED root
      /\ \E name \in NodeNames, type \in Types :
            /\ conf' \in {Linked(n, at, name, type), LinkedFirst(n, at, name, type)}
            /\ conf[at].type = "mapping" => \A m \in Kids(conf, at) : conf[m].name # name
  <2>1. CASE \E type \in Containers \cup {"scalar"} : ParseItem(type)
    <3>1. PICK type \in Types : ParseItem(type)
      BY <2>1 DEF Containers, Types
    <3>2. conf[at].type # "mapping" /\ call = "parse"
      BY <3>1 DEF ParseItem, Parsing
    <3>3. conf' = Linked(n, at, Index[Len(conf[at].children)], type)
      BY <1>3, <3>1 DEF ParseItem
    <3>4. UNCHANGED root
      BY <3>1 DEF ParseItem, Value
    <3> QED
      BY <3>2, <3>3, <3>4, NameIs
  <2>2. CASE \E type \in Containers \cup {"scalar"}, key \in KeyNames : ParsePair(key, type)
    <3>1. PICK type \in Types, key \in NodeNames : ParsePair(key, type)
      BY <2>2 DEF Containers, Types, NodeNames
    <3>2. \A m \in Kids(conf, at) : conf[m].name # key
      BY <1>5, <3>1, LookupIs, KidsAre, ConfigAssumption DEF ParsePair
    <3>3. conf' = Linked(n, at, key, type)
      BY <1>3, <3>1 DEF ParsePair
    <3>4. UNCHANGED root
      BY <3>1 DEF ParsePair, Value
    <3> QED
      BY <3>2, <3>3, <3>4
  <2>3. CASE CreateKey
    <3>1. <<Head(rest.keys)>> \in NodeNames
      <4>1. Head(rest.keys) \in Names
        BY <2>3 DEF ConfInv, ConfTypeOK, CreateKey
      <4> QED
        BY <4>1 DEF NodeNames, KeyNames
    <3>2. PICK key \in NodeNames : key = <<Head(rest.keys)>>
      BY <3>1
    <3>3. conf_node_lookup_child(at, key) = NULL
      BY <2>3, <3>2 DEF CreateKey, NextChild
    <3>4. \A m \in Kids(conf, at) : conf[m].name # key
      BY <1>5, <3>3, LookupIs, KidsAre, ConfigAssumption
    <3>5. UNCHANGED root /\ \E type \in Types : conf' = LinkedFirst(n, at, key, type)
      BY <1>3, <2>3, <3>2 DEF CreateKey, Types
    <3> QED
      BY <3>4, <3>5
  <2> QED
    BY <2>1, <2>2, <2>3
<1>7. PICK name \in NodeNames, type \in Types :
         /\ conf' \in {Linked(n, at, name, type), LinkedFirst(n, at, name, type)}
         /\ conf[at].type = "mapping" => \A m \in Kids(conf, at) : conf[m].name # name
  BY <1>6
<1>8. PICK h \in {Linked(n, at, name, type), LinkedFirst(n, at, name, type)} : h = conf'
  BY <1>7
<1>9. HasPaths(h, root) /\ \A p \in ConfNode : Distinct(h, p)
  BY <1>1, <1>2, <1>3, <1>7, JoinedPaths
<1> QED
  BY <1>6, <1>8, <1>9 DEF PathInv

LEMMA FailPaths ==
    ASSUME ConfInv, PathInv,
           \/ \E key \in KeyNames \cup {<<>>} : PairFails(key)
           \/ ItemFails \/ ItemUnnamed \/ ParseFails
    PROVE  PathInv'
<1>1. call = "parse" /\ root' = NULL
  BY DEF PairFails, ItemFails, ItemUnnamed, ParseFails, Parsing, Fail
<1>2. root \in Tops /\ at \in Below(conf, root) /\ Good(conf, Tops, dropped)
  BY <1>1 DEF ConfInv, Tops
<1>3. ASSUME NEW h, NEW L, Good(h, Tops, L), Fail(h),
             \A p \in ConfNode \ Below(h, root) : Distinct(h, p)
      PROVE  PathInv'
  <2>1. h[root].parent = NULL
    BY <1>2, <1>3 DEF Good
  <2>2. PICK g : g = [m \in ConfNode |-> IF m \in Below(h, root) THEN Unallocated ELSE h[m]]
    OBVIOUS
  <2>3. conf' = g
    BY <1>3, <2>1, <2>2 DEF Fail, Without, Unlink
  <2>4. \A p \in ConfNode : Distinct(g, p)
    BY <1>2, <1>3, <2>2, FreedPaths
  <2> QED
    BY <1>1, <2>3, <2>4 DEF PathInv
<1>4. CASE ParseFails
  BY <1>2, <1>3, <1>4 DEF ParseFails, PathInv
<1>5. CASE ~ParseFails
  <2>1. Unused # {}
    BY <1>5 DEF PairFails, ItemFails, ItemUnnamed, Parsing
  <2>2. Fresh \in ConfNode /\ ~conf[Fresh].used
    BY <2>1, FreshIs DEF ConfInv, ConfTypeOK
  <2>3. PICK n \in ConfNode : n = Fresh
    BY <2>2
  <2>4. "none" \in Types /\ <<>> \in NodeNames
    BY DEF Types, NodeNames
  <2>5. CASE ItemUnnamed
    <3>1. PICK h : h = [conf EXCEPT ![n] = New(at, <<>>, "none")]
      OBVIOUS
    <3>2. Good(h, Tops, dropped \cup {n})
      BY <2>2, <2>3, <2>4, <3>1, <1>1, NameIs, GoodApart DEF ConfInv
    <3>3. Fail(h)
      BY <2>3, <2>5, <3>1 DEF ItemUnnamed
    <3>4. \A p \in ConfNode : Distinct(h, p)
      BY <1>2, <2>2, <2>3, <3>1, ApartDistinct DEF PathInv
    <3> QED
      BY <1>3, <3>2, <3>3, <3>4
  <2>6. CASE ItemFails \/ \E key \in KeyNames \cup {<<>>} : PairFails(key)
    <3>1. PICK name \in NodeNames : Fail(Linked(n, at, name, "none"))
      BY <1>1, <2>3, <2>6, NameIs DEF ItemFails, PairFails, NodeNames
    <3>2. PICK h \in {Linked(n, at, name, "none"), LinkedFirst(n, at, name, "none")} :
             h = Linked(n, at, name, "none")
      OBVIOUS
    <3>3. Good(h, Tops, dropped) /\ at \in Below(h, root)
      BY <1>1, <2>2, <2>3, <2>4, LinkedKeeps
    <3>4. \A p \in ConfNode \ {at} : Distinct(h, p)
      BY <1>1, <2>2, <2>3, <2>4, JoinedPaths
    <3> QED
      BY <1>3, <3>1, <3>2, <3>3, <3>4
  <2> QED
    BY <1>5, <2>5, <2>6
<1> QED
  BY <1>4, <1>5

LEMMA RemovePaths ==
    ASSUME ConfInv, PathInv, NEW n \in ConfNode, conf_remove_node(n)
    PROVE  PathInv'
<1>1. n \in Kept /\ n \notin Tops /\ UNCHANGED root
  BY DEF conf_remove_node
<1>2. PICK p \in ConfNode : n \in Kids(conf, p)
  BY <1>1, KeptIs
<1>3. PICK u : u = Unlink(conf, n)
  OBVIOUS
<1>4. conf' = u
  BY <1>3 DEF conf_remove_node
<1>5. (\A q \in ConfNode : Distinct(u, q)) /\ \A r \in Tops : HasPaths(conf, r) => HasPaths(u, r)
  BY <1>2, <1>3, UnlinkedPaths DEF ConfInv, PathInv
<1>6. root # NULL => root \in Tops
  BY DEF Tops
<1> QED
  BY <1>1, <1>4, <1>5, <1>6 DEF PathInv

LEMMA FreePaths ==
    ASSUME ConfInv, PathInv, NEW n \in ConfNode, conf_free_root(n)
    PROVE  PathInv'
<1>1. n \in Kept /\ conf' = Without(conf, n) /\ conf \in Heaps /\ root' = IF n = root THEN NULL ELSE root
  BY DEF conf_free_root, ConfInv, Good
<1>2. root # NULL => root \in Tops
  BY DEF Tops
<1>3. (\A q \in ConfNode : Distinct(conf', q))
      /\ \A r \in Tops \ {n} : HasPaths(conf, r) => HasPaths(conf', r)
  <2>1. CASE n \in Tops
    <3>1. conf[n].parent = NULL
      BY <2>1 DEF ConfInv, Good
    <3>2. conf' = [m \in ConfNode |-> IF m \in Below(conf, n) THEN Unallocated ELSE conf[m]]
      BY <1>1, <3>1 DEF Without, Unlink
    <3> QED
      BY <2>1, <3>2, FreedPaths DEF ConfInv, PathInv
  <2>2. CASE n \notin Tops
    <3>1. PICK p \in ConfNode : n \in Kids(conf, p)
      BY <1>1, <2>2, KeptIs
    <3>2. PICK u : u = Unlink(conf, n)
      OBVIOUS
    <3>3. Good(u, Tops \cup {n}, dropped)
      BY <3>1, <3>2, GoodUnlink DEF ConfInv
    <3>4. conf' = [m \in ConfNode |-> IF m \in Below(u, n) THEN Unallocated ELSE u[m]]
      BY <1>1, <3>2 DEF Without
    <3>5. (\A q \in ConfNode : Distinct(u, q)) /\ \A r \in Tops : HasPaths(conf, r) => HasPaths(u, r)
      BY <3>1, <3>2, UnlinkedPaths DEF ConfInv, PathInv
    <3>6. (\A q \in ConfNode : Distinct(conf', q))
          /\ \A r \in (Tops \cup {n}) \ {n} : HasPaths(u, r) => HasPaths(conf', r)
      BY <3>3, <3>4, <3>5, FreedPaths
    <3> QED
      BY <3>5, <3>6
  <2> QED
    BY <2>1, <2>2
<1> QED
  BY <1>1, <1>2, <1>3 DEF PathInv

LEMMA PathStep == ConfInv /\ PathInv /\ ConfInv' /\ [ConfNext]_confvars => PathInv'
<1> SUFFICES ASSUME ConfInv, PathInv, ConfInv', [ConfNext]_confvars PROVE PathInv'
  OBVIOUS
<1>1. CASE \E type \in Containers : parse_yaml_doc(type)
  BY <1>1, DocPaths
<1>2. CASE \E type \in Containers \cup {"scalar"} :
              ParseItem(type) \/ \E key \in KeyNames : ParsePair(key, type)
  BY <1>2, JoinPaths
<1>3. CASE (\E key \in KeyNames \cup {<<>>} : PairFails(key)) \/ ItemFails \/ ItemUnnamed \/ ParseFails
  BY <1>3, FailPaths
<1>4. CASE \E n \in ConfNode : conf_remove_node(n) \/ conf_free_root(n)
  BY <1>4, RemovePaths, FreePaths
<1>5. CASE CreateKey
  BY <1>5, JoinPaths
<1>6. CASE \/ ParsedNode \/ FollowKey \/ CreateFails \/ UNCHANGED confvars
           \/ \E keys \in {<<k>> : k \in Names} \cup {<<k, l>> : k, l \in Names}, dot \in BOOLEAN :
                 conf_set(keys, dot)
  <2>1. UNCHANGED <<conf, root>>
    BY <1>6 DEF ParsedNode, FollowKey, CreateFails, confvars, conf_set
  <2> QED
    BY <2>1 DEF PathInv
<1> QED
  BY <1>1, <1>2, <1>3, <1>4, <1>5, <1>6 DEF ConfNext

LEMMA PathInvariant == ConfSpec => [](ConfInv /\ PathInv)
<1>1. ConfInv /\ PathInv /\ [ConfNext]_confvars => (ConfInv /\ PathInv)'
  BY ConfStep, PathStep
<1> QED
  BY ConfInitOK, PathInit, <1>1, PTL DEF ConfSpec

(* What conf_get_node walks through, after at most l keys of a name.        *)
IsWalk(n, name, l, w) ==
    w = [i \in 0 .. l |->
           IF i = 0 THEN n
           ELSE IF w[i - 1] = NULL THEN NULL
                ELSE conf_node_lookup_child(w[i - 1], <<name[i]>>)]

LEMMA WalkIs ==
    ASSUME NEW n, NEW name, NEW l \in Nat, NEW w, IsWalk(n, name, l, w)
    PROVE  /\ w[0] = n
           /\ \A i \in 1 .. l : w[i] = IF w[i - 1] = NULL THEN NULL
                                       ELSE conf_node_lookup_child(w[i - 1], <<name[i]>>)
<1>1. \A i \in 0 .. l : w[i] = IF i = 0 THEN n
                               ELSE IF w[i - 1] = NULL THEN NULL
                                    ELSE conf_node_lookup_child(w[i - 1], <<name[i]>>)
  BY DEF IsWalk
<1>2. \A i \in 1 .. l : i \in 0 .. l /\ i # 0
  OBVIOUS
<1>3. 0 \in 0 .. l
  OBVIOUS
<1> QED
  BY <1>1, <1>2, <1>3

LEMMA WalkExists ==
    ASSUME NEW n, NEW name
    PROVE  \A l \in Nat : \E w : IsWalk(n, name, l, w)
<1> DEFINE T == {l \in Nat : \E w : IsWalk(n, name, l, w)}
<1>1. 0 \in T
  <2> DEFINE w == [i \in 0 .. 0 |-> n]
  <2>1. w = [i \in 0 .. 0 |-> IF i = 0 THEN n
                              ELSE IF w[i - 1] = NULL THEN NULL
                                   ELSE conf_node_lookup_child(w[i - 1], <<name[i]>>)]
    OBVIOUS
  <2> HIDE DEF w
  <2>2. IsWalk(n, name, 0, w)
    BY <2>1 DEF IsWalk
  <2> QED
    BY <2>2
<1>2. ASSUME NEW l \in T PROVE l + 1 \in T
  <2>1. PICK w : IsWalk(n, name, l, w)
    OBVIOUS
  <2>2. l \in Nat /\ l + 1 \in Nat /\ (l + 1) - 1 = l /\ ~(l + 1 <= l) /\ l + 1 # 0
    OBVIOUS
  <2> DEFINE next == IF w[l] = NULL THEN NULL ELSE conf_node_lookup_child(w[l], <<name[l + 1]>>)
             v == [i \in 0 .. l + 1 |-> IF i <= l THEN w[i] ELSE next]
  <2>3. v[0] = n /\ \A i \in 1 .. l : v[i] = w[i] /\ v[i - 1] = w[i - 1]
    <3>1. \A i \in 1 .. l : i \in 0 .. l + 1 /\ i <= l /\ i - 1 \in 0 .. l + 1 /\ i - 1 <= l
      BY <2>2
    <3>2. 0 \in 0 .. l + 1 /\ 0 <= l
      BY <2>2
    <3> HIDE DEF next
    <3> QED
      BY <2>1, <2>2, <3>1, <3>2, WalkIs
  <2>4. v[l + 1] = next /\ v[l] = w[l]
    <3>1. l + 1 \in 0 .. l + 1 /\ l \in 0 .. l + 1 /\ l <= l
      BY <2>2
    <3> HIDE DEF next
    <3> QED
      BY <2>2, <3>1
  <2>5. v = [i \in 0 .. l + 1 |-> v[i]]
    OBVIOUS
  <2> HIDE DEF v
  <2>6. ASSUME NEW i \in 0 .. l + 1
        PROVE  v[i] = IF i = 0 THEN n
                      ELSE IF v[i - 1] = NULL THEN NULL
                           ELSE conf_node_lookup_child(v[i - 1], <<name[i]>>)
    <3>1. CASE i = 0
      BY <2>3, <3>1
    <3>2. CASE i \in 1 .. l
      <4>1. w[i] = IF w[i - 1] = NULL THEN NULL ELSE conf_node_lookup_child(w[i - 1], <<name[i]>>)
        BY <2>1, <3>2, WalkIs
      <4>2. i # 0 /\ v[i] = w[i] /\ v[i - 1] = w[i - 1]
        BY <2>3, <3>2
      <4> QED
        BY <4>1, <4>2
    <3>3. CASE i = l + 1
      BY <2>2, <2>4, <3>3
    <3> QED
      BY <2>2, <3>1, <3>2, <3>3
  <2>7. v = [i \in 0 .. l + 1 |->
               IF i = 0 THEN n
               ELSE IF v[i - 1] = NULL THEN NULL
                    ELSE conf_node_lookup_child(v[i - 1], <<name[i]>>)]
    BY <2>5, <2>6
  <2>8. IsWalk(n, name, l + 1, v)
    BY <2>7 DEF IsWalk
  <2> QED
    BY <2>2, <2>8
<1>3. T = Nat
  <2>1. T \subseteq Nat
    OBVIOUS
  <2> HIDE DEF T
  <2> QED
    BY <1>1, <1>2, <2>1, Inductive
<1> QED
  BY <1>3

LEMMA WalksAgree ==
    ASSUME NEW n, NEW name, NEW other, NEW l \in Nat, NEW m \in Nat, l <= m,
           \A i \in 1 .. l : name[i] = other[i],
           NEW w, IsWalk(n, name, l, w), NEW v, IsWalk(n, other, m, v)
    PROVE  w[l] = v[l]
<1> DEFINE T == {i \in Nat : i <= l => w[i] = v[i]}
<1>0. w[0] = n /\ v[0] = n
  BY WalkIs
<1>1. 0 \in T
  BY <1>0
<1>2. ASSUME NEW i \in T PROVE i + 1 \in T
  <2> SUFFICES ASSUME i + 1 <= l PROVE w[i + 1] = v[i + 1]
    OBVIOUS
  <2>1. i \in Nat /\ i <= l /\ i + 1 \in 1 .. l /\ i + 1 \in 1 .. m /\ (i + 1) - 1 = i
    OBVIOUS
  <2>2. w[i] = v[i] /\ name[i + 1] = other[i + 1]
    BY <2>1
  <2>3. PICK j \in 1 .. l : j = i + 1 /\ j \in 1 .. m
    BY <2>1
  <2>4. w[j] = IF w[j - 1] = NULL THEN NULL ELSE conf_node_lookup_child(w[j - 1], <<name[j]>>)
    BY WalkIs
  <2>5. v[j] = IF v[j - 1] = NULL THEN NULL ELSE conf_node_lookup_child(v[j - 1], <<other[j]>>)
    BY <2>3, WalkIs
  <2>6. w[j - 1] = v[j - 1] /\ name[j] = other[j]
    BY <2>1, <2>2, <2>3
  <2>7. w[j] = v[j]
    BY <2>4, <2>5, <2>6
  <2> QED
    BY <2>3, <2>7
<1>3. T = Nat
  <2>1. T \subseteq Nat
    OBVIOUS
  <2> HIDE DEF T
  <2> QED
    BY <1>1, <1>2, <2>1, Inductive
<1> QED
  BY <1>3

(* conf_get_node takes a name key by key.                                   *)
LEMMA GetNode ==
    ASSUME NEW n, NEW name
    PROVE  Len(name) \in Nat => \E w : IsWalk(n, name, Len(name), w) /\ conf_get_node(n, name) = w[Len(name)]
<1> SUFFICES ASSUME Len(name) \in Nat
             PROVE  \E w : IsWalk(n, name, Len(name), w) /\ conf_get_node(n, name) = w[Len(name)]
  OBVIOUS
<1>1. \E w : IsWalk(n, name, Len(name), w)
  BY WalkExists
<1> DEFINE walk == CHOOSE w : IsWalk(n, name, Len(name), w)
<1>2. IsWalk(n, name, Len(name), walk)
  BY <1>1
<1>3. conf_get_node(n, name) = walk[Len(name)]
  BY DEF conf_get_node, IsWalk
<1> HIDE DEF walk
<1> QED
  BY <1>2, <1>3

(* A name with one key more.                                                *)
Longer(name, longer, k) ==
    /\ Len(name) \in Nat /\ Len(longer) = Len(name) + 1 /\ longer[Len(name) + 1] = k
    /\ \A i \in 1 .. Len(name) : name[i] = longer[i]

LEMMA GetLonger ==
    ASSUME NEW n, NEW name, NEW longer, NEW k, Longer(name, longer, k)
    PROVE  conf_get_node(n, longer) = IF conf_get_node(n, name) = NULL THEN NULL
                                      ELSE conf_node_lookup_child(conf_get_node(n, name), <<k>>)
<1> DEFINE l == Len(name)
<1>0. l \in Nat /\ Len(longer) = l + 1 /\ longer[l + 1] = k /\ \A i \in 1 .. l : name[i] = longer[i]
  BY DEF Longer
<1>1. PICK w : IsWalk(n, name, l, w) /\ conf_get_node(n, name) = w[l]
  BY <1>0, GetNode
<1> HIDE DEF l
<1>2. PICK j \in Nat : j = l + 1 /\ l <= j /\ j \in 1 .. j /\ j - 1 = l
  BY <1>0
<1>3. Len(longer) = j /\ longer[j] = k
  BY <1>0, <1>2
<1>4. PICK v : IsWalk(n, longer, j, v) /\ conf_get_node(n, longer) = v[j]
  BY <1>3, GetNode
<1>5. w[l] = v[l]
  BY <1>0, <1>1, <1>2, <1>4, WalksAgree
<1>6. v[j] = IF v[j - 1] = NULL THEN NULL ELSE conf_node_lookup_child(v[j - 1], <<longer[j]>>)
  <2>1. \A i \in 1 .. j : v[i] = IF v[i - 1] = NULL THEN NULL
                                  ELSE conf_node_lookup_child(v[i - 1], <<longer[i]>>)
    BY <1>4, WalkIs
  <2> QED
    BY <1>2, <2>1
<1> QED
  BY <1>1, <1>2, <1>3, <1>4, <1>5, <1>6

LEMMA LongerIs ==
    ASSUME NEW S, NEW name \in Seq(S), NEW k \in S
    PROVE  \A longer : longer = Append(name, k) => Longer(name, longer, k)
  BY DEF Longer

LEMMA GetSelf ==
    ASSUME NEW n \in ConfNode, NEW name, name = <<>>
    PROVE  conf_get_node(n, name) = n
<1>1. Len(name) = 0
  OBVIOUS
<1>2. PICK w : IsWalk(n, name, 0, w) /\ conf_get_node(n, name) = w[0]
  BY <1>1, GetNode
<1> QED
  BY <1>2, WalkIs

(* The paths that fill_path_name makes are those of HasPaths.               *)
LEMMA PathIs ==
    ASSUME NEW T, NEW L, Good(conf, T, L), root \in T, HasPaths(conf, root)
    PROVE  \E depth \in [Below(conf, root) -> Nat] :
              \A m \in Below(conf, root) :
                 /\ fill_path_name(m) \in Seq(Parts)
                 /\ conf[m].parent = NULL => fill_path_name(m) = <<>>
                 /\ m # root => depth[conf[m].parent] < depth[m]
                 /\ m # root /\ conf[conf[m].parent].type = "mapping" =>
                       fill_path_name(m) = fill_path_name(conf[m].parent) \o conf[m].name
<1> DEFINE B == Below(conf, root)
           P(f) == f = [m \in B |->
                          LET p == conf[m].parent IN
                          CASE p = NULL -> <<>>
                            [] p # NULL /\ conf[p].type = "mapping" -> f[p] \o conf[m].name
                            [] OTHER -> SubSeq(f[p], 1, Len(f[p]) - 1) \o <<"[]">>]
           path == CHOOSE f : P(f)
<1>1. \A m \in B : fill_path_name(m) = path[m]
  BY DEF fill_path_name
<1>2. PICK depth \in [B -> Nat], f \in [B -> Seq(Parts)] :
          \A m \in B : /\ f[m] = PathOf(conf, f, m)
                       /\ m # root => depth[conf[m].parent] < depth[m]
  BY DEF HasPaths
<1>3. P(f)
  <2>1. f = [m \in B |-> f[m]]
    OBVIOUS
  <2>2. f = [m \in B |-> PathOf(conf, f, m)]
    BY <1>2, <2>1
  <2> QED
    BY <2>2 DEF PathOf
<1>4. P(path)
  <2> HIDE DEF P
  <2> QED
    BY <1>3
<1> HIDE DEF path
<1>5. path = [m \in B |-> PathOf(conf, path, m)]
  BY <1>4 DEF PathOf
<1> HIDE DEF P
<1>6. \A m \in B : path[m] = PathOf(conf, path, m)
  BY <1>5
<1>7. root \in ConfNode /\ B \subseteq ConfNode /\ conf \in Heaps /\ conf[root].parent = NULL
  BY BelowIs DEF Good
<1>8. ASSUME NEW m \in B, conf[m].parent # NULL => path[conf[m].parent] = f[conf[m].parent]
      PROVE  path[m] = f[m]
  <2>1. PathOf(conf, path, m) = PathOf(conf, f, m)
    BY <1>8 DEF PathOf
  <2> QED
    BY <1>2, <1>6, <2>1
<1> DEFINE S == {m \in B : path[m] = f[m]}
<1>9. root \in S /\ S \in SUBSET ConfNode
  BY <1>7, <1>8, BelowIs
<1>10. Stays(conf, S)
  <2> SUFFICES ASSUME NEW m \in S, NEW c \in Kids(conf, m) PROVE c \in S
    BY DEF Stays
  <2>1. c \in B /\ conf[c].parent = m
    BY <1>7, BelowUsed DEF Good, Sound
  <2> QED
    BY <1>8, <2>1
<1>11. B \subseteq S
  BY <1>7, <1>9, <1>10, BelowIs
<1>12. \A m \in B : fill_path_name(m) = f[m]
  BY <1>1, <1>11
<1>13. ASSUME NEW m \in B
       PROVE  /\ fill_path_name(m) \in Seq(Parts)
              /\ conf[m].parent = NULL => fill_path_name(m) = <<>>
              /\ m # root => depth[conf[m].parent] < depth[m]
              /\ m # root /\ conf[conf[m].parent].type = "mapping" =>
                    fill_path_name(m) = fill_path_name(conf[m].parent) \o conf[m].name
  <2>1. fill_path_name(m) = PathOf(conf, f, m) /\ fill_path_name(m) \in Seq(Parts)
    BY <1>2, <1>12
  <2>2. m # root => conf[m].parent \in B /\ conf[m].parent # NULL
    BY <1>7, BelowUsed, ConfigAssumption
  <2> QED
    BY <1>2, <1>12, <2>1, <2>2 DEF PathOf
<1> QED
  BY <1>13

LEMMA Single ==
    ASSUME NEW S, NEW s \in Seq(S)
    PROVE  Len(s) = 1 => \E k \in S : s = <<k>> /\ \A t \in Seq(S) : t \o s = Append(t, k)
<1> SUFFICES ASSUME Len(s) = 1
             PROVE  \E k \in S : s = <<k>> /\ \A t \in Seq(S) : t \o s = Append(t, k)
  OBVIOUS
<1>1. PICK k \in S : k = s[1]
  <2>1. \A m \in Nat : m = 1 => 1 \in 1 .. m
    OBVIOUS
  <2>2. Len(s) \in Nat /\ \A i \in 1 .. Len(s) : s[i] \in S
    OBVIOUS
  <2>3. 1 \in 1 .. Len(s)
    BY <2>1, <2>2
  <2> QED
    BY <2>2, <2>3
<1>2. PICK r \in Seq(S) : r = <<k>>
  <2>1. <<k>> \in Seq(S)
    OBVIOUS
  <2> QED
    BY <2>1, Zenon
<1>3. Len(r) = 1 /\ r[1] = k
  BY <1>2
<1>4. s = r
  BY <1>1, <1>3, SeqEqual
<1>5. \A t \in Seq(S) : t \o <<k>> = Append(t, k)
  OBVIOUS
<1> QED
  BY <1>2, <1>4, <1>5

(* What is above a child is above its parent, or the child itself.          *)
LEMMA AboveIs ==
    ASSUME NEW n \in ConfNode, NEW c \in ConfNode, conf[c].parent = n
    PROVE  /\ c \in Above(c) /\ Above(n) \subseteq Above(c)
           /\ n \in Above(c)
           /\ \A S \in SUBSET ConfNode :
                 n \in S /\ (\A m \in S : conf[m].parent \in S \cup {NULL}) => Above(n) \subseteq S
<1>1. n # NULL
  BY ConfigAssumption
<1>2. ASSUME NEW S \in SUBSET ConfNode, c \in S, \A m \in S : conf[m].parent \in S \cup {NULL}
      PROVE  n \in S
  BY <1>1, <1>2
<1> QED
  BY <1>2 DEF Above

(* PathsFound: conf_get_node finds a node by the path that conf_fill_path    *)
(* writes for it.                                                           *)
THEOREM PathsAreFound == ConfSpec => []PathsFound
<1>1. ConfInv /\ PathInv => PathsFound
  <2> SUFFICES ASSUME ConfInv, PathInv, root # NULL
               PROVE  \A n \in Below(conf, root) :
                         (\A m \in Above(n) \ {n} : conf[m].type = "mapping")
                         /\ (\A m \in Above(n) \ {root} : Len(conf[m].name) = 1)
                         => conf_get_node(root, fill_path_name(n)) = n
    BY DEF PathsFound
  <2> DEFINE B == Below(conf, root)
             P(n) == (\A m \in Above(n) \ {n} : conf[m].type = "mapping")
                     /\ (\A m \in Above(n) \ {root} : Len(conf[m].name) = 1)
             S == {n \in B : P(n) => conf_get_node(root, fill_path_name(n)) = n}
  <2>1. root \in Tops /\ Good(conf, Tops, dropped) /\ HasPaths(conf, root)
    BY DEF ConfInv, PathInv, Tops
  <2>2. root \in ConfNode /\ B \subseteq ConfNode /\ root \in B /\ conf \in Heaps /\ conf[root].parent = NULL
    BY <2>1, BelowIs DEF Good
  <2>3. PICK depth \in [B -> Nat] :
            \A m \in B :
               /\ fill_path_name(m) \in Seq(Parts)
               /\ conf[m].parent = NULL => fill_path_name(m) = <<>>
               /\ m # root => depth[conf[m].parent] < depth[m]
               /\ m # root /\ conf[conf[m].parent].type = "mapping" =>
                     fill_path_name(m) = fill_path_name(conf[m].parent) \o conf[m].name
    BY <2>1, PathIs
  <2>4. root \in S
    BY <2>2, <2>3, GetSelf
  <2>5. ASSUME NEW n \in S, NEW c \in Kids(conf, n) PROVE c \in S
    <3>1. n \in B /\ c \in B /\ conf[c].parent = n /\ n \in ConfNode /\ c \in ConfNode /\ c # root
      <4>1. n \in B /\ c \in B /\ conf[c].parent = n
        BY <2>1, BelowUsed DEF Good, Sound
      <4> QED
        BY <2>2, <4>1, ConfigAssumption
    <3>2. c \notin Above(n)
      <4> DEFINE U == {m \in B : depth[m] <= depth[n]}
      <4>1. n \in U /\ U \in SUBSET ConfNode
        BY <2>2, <3>1
      <4>2. ASSUME NEW m \in U PROVE conf[m].parent \in U \cup {NULL}
        <5>1. CASE m = root
          BY <2>2, <5>1
        <5>2. CASE m # root
          <6>1. conf[m].parent \in B /\ depth[conf[m].parent] < depth[m] /\ m \in B
            BY <2>1, <2>3, <5>2, BelowUsed
          <6>2. depth[conf[m].parent] \in Nat /\ depth[m] \in Nat /\ depth[n] \in Nat
            BY <3>1, <6>1
          <6> QED
            BY <6>1, <6>2
        <5> QED
          BY <5>1, <5>2
      <4>3. Above(n) \subseteq U
        BY <3>1, <4>1, <4>2, AboveIs
      <4>4. depth[n] < depth[c] /\ depth[n] \in Nat /\ depth[c] \in Nat
        BY <2>3, <3>1
      <4> QED
        BY <4>3, <4>4
    <3>3. c \in Above(c) /\ Above(n) \subseteq Above(c) /\ n \in Above(c)
      BY <3>1, AboveIs
    <3> SUFFICES ASSUME P(c) PROVE conf_get_node(root, fill_path_name(c)) = c
      BY <3>1
    <3>4. P(n)
      BY <3>2, <3>3
    <3>5. conf_get_node(root, fill_path_name(n)) = n
      BY <3>4
    <3>6. n # c /\ conf[n].type = "mapping" /\ Len(conf[c].name) = 1
      BY <2>2, <3>1, <3>2, <3>3, BelowUsed
    <3>7. PICK name \in Seq(Parts) : name = conf[c].name
      BY <2>2, <3>1, NamesAre DEF Heaps, ConfNodes
    <3>8. PICK k \in Parts : name = <<k>> /\ \A t \in Seq(Parts) : t \o name = Append(t, k)
      BY <3>6, <3>7, Single
    <3>9. PICK path \in Seq(Parts) : path = fill_path_name(n)
      BY <2>3, <3>1
    <3>10. PICK longer : longer = Append(path, k)
      OBVIOUS
    <3>11. fill_path_name(c) = longer
      <4>1. fill_path_name(c) = path \o name
        BY <2>3, <3>1, <3>6, <3>7, <3>9
      <4> QED
        BY <3>8, <3>10, <4>1
    <3>12. n # NULL
      BY <3>1, ConfigAssumption
    <3>13. conf_get_node(root, fill_path_name(c)) = conf_node_lookup_child(n, conf[c].name)
      <4>1. conf_get_node(root, path) = n
        BY <3>5, <3>9
      <4>2. conf_get_node(root, longer) = IF conf_get_node(root, path) = NULL THEN NULL
                                          ELSE conf_node_lookup_child(conf_get_node(root, path), <<k>>)
        <5>1. Longer(path, longer, k)
          BY <3>10, LongerIs
        <5> QED
          BY <5>1, GetLonger
      <4>3. <<k>> = conf[c].name
        BY <3>7, <3>8
      <4> QED
        BY <3>11, <3>12, <4>1, <4>2, <4>3
    <3>14. conf_node_lookup_child(n, conf[c].name) \in Kids(conf, n)
           /\ conf[conf_node_lookup_child(n, conf[c].name)].name = conf[c].name
      BY <2>2, <3>1, LookupIs
    <3>15. Distinct(conf, n)
      BY <3>1 DEF PathInv
    <3>16. conf_node_lookup_child(n, conf[c].name) = c
      BY <3>6, <3>14, <3>15 DEF Distinct
    <3> QED
      BY <3>13, <3>16
  <2>6. B \subseteq S
    <3>1. Stays(conf, S) /\ S \in SUBSET ConfNode
      BY <2>2, <2>5 DEF Stays
    <3> HIDE DEF S
    <3> QED
      BY <2>2, <2>4, <3>1, BelowIs
  <2> QED
    BY <2>6
<1> QED
  BY <1>1, PathInvariant, PTL

-----------------------------------------------------------------------------
(* Induction and recursion along a rank.                                    *)

LEMMA RankInduction ==
    ASSUME NEW D, NEW rank \in [D -> Nat], NEW P,
           \A x \in D : (\A y \in D : rank[y] < rank[x] => y \in P) => x \in P
    PROVE  D \subseteq P
<1> SUFFICES ASSUME D \ P # {} PROVE FALSE
  OBVIOUS
<1> DEFINE T == {rank[x] : x \in D \ P}
<1>1. T \subseteq Nat /\ T # {}
  OBVIOUS
<1>2. PICK n \in T : \A m \in T : n <= m
  <2> HIDE DEF T
  <2> QED
    BY <1>1, Least
<1>3. PICK x \in D \ P : n = rank[x]
  BY <1>2
<1>4. ASSUME NEW y \in D, rank[y] < rank[x] PROVE y \in P
  <2> SUFFICES ASSUME y \notin P PROVE FALSE
    OBVIOUS
  <2>1. rank[y] \in T
    OBVIOUS
  <2>2. rank[x] <= rank[y]
    BY <1>2, <1>3, <2>1
  <2>3. rank[x] \in Nat /\ rank[y] \in Nat
    OBVIOUS
  <2> QED
    BY <1>4, <2>2, <2>3
<1> QED
  BY <1>3, <1>4

(* A function that calls itself at lower ranks only exists.                 *)
Recurses(D, V, N, rank, F) ==
    /\ V # {} /\ N \in Nat /\ rank \in [D -> Nat] /\ \A x \in D : rank[x] <= N
    /\ F \in [[D -> V] -> [D -> V]]
    /\ \A f, g \in [D -> V] : \A x \in D :
          (\A y \in D : rank[y] < rank[x] => f[y] = g[y]) => F[f][x] = F[g][x]

LEMMA Recursion ==
    ASSUME NEW D, NEW V, NEW N, NEW rank, NEW F, Recurses(D, V, N, rank, F)
    PROVE  \E g \in [D -> V] : g = F[g]
<1>a. /\ N \in Nat /\ rank \in [D -> Nat] /\ \A x \in D : rank[x] <= N
      /\ F \in [[D -> V] -> [D -> V]]
      /\ \A f, g \in [D -> V] : \A x \in D :
            (\A y \in D : rank[y] < rank[x] => f[y] = g[y]) => F[f][x] = F[g][x]
  BY DEF Recurses
<1>b. PICK v \in V : TRUE
  BY DEF Recurses
<1> DEFINE P(k) == \E g \in [D -> V] : \A x \in D : rank[x] < k => g[x] = F[g][x]
           T == {k \in Nat : P(k)}
<1>1. 0 \in T
  <2>1. \A x \in D : ~(rank[x] < 0)
    BY <1>a
  <2>2. [x \in D |-> v] \in [D -> V]
    OBVIOUS
  <2>3. P(0)
    BY <2>1, <2>2
  <2> HIDE DEF P
  <2> QED
    BY <2>3
<1>2. ASSUME NEW k \in T PROVE k + 1 \in T
  <2>1. PICK g \in [D -> V] : \A x \in D : rank[x] < k => g[x] = F[g][x]
    OBVIOUS
  <2>2. F[g] \in [D -> V]
    BY <1>a
  <2>3. ASSUME NEW x \in D, rank[x] < k + 1 PROVE F[g][x] = F[F[g]][x]
    <3>1. ASSUME NEW y \in D, rank[y] < rank[x] PROVE g[y] = F[g][y]
      <4>1. rank[y] \in Nat /\ rank[x] \in Nat /\ k \in Nat
        BY <1>a
      <4> QED
        BY <2>1, <2>3, <3>1, <4>1
    <3> QED
      BY <2>2, <3>1, <1>a
  <2>4. P(k + 1)
    BY <2>2, <2>3
  <2> HIDE DEF P
  <2>5. k + 1 \in Nat
    OBVIOUS
  <2> QED
    BY <2>4, <2>5
<1>3. P(N + 1)
  <2> HIDE DEF P
  <2>1. T = Nat
    BY <1>1, <1>2, Inductive
  <2> QED
    BY <2>1, <1>a
<1>4. PICK g \in [D -> V] : \A x \in D : rank[x] < N + 1 => g[x] = F[g][x]
  BY <1>3
<1>5. \A x \in D : g[x] = F[g][x]
  BY <1>4, <1>a
<1>6. F[g] \in [D -> V]
  BY <1>a
<1> QED
  BY <1>5, <1>6

-----------------------------------------------------------------------------
(* The order of the keys, and the ends beyond them.  x is before y on a     *)
(* side if it is nearer to the end on that side.                            *)
Before(side, x, y) == IF side = "left" THEN x < y ELSE y < x

LEMMA SidesAre ==
    ASSUME NEW s \in Sides
    PROVE  /\ Opposite(s) \in Sides /\ Opposite(s) # s /\ Opposite(Opposite(s)) = s
           /\ \A r \in Sides : r = s \/ r = Opposite(s)
  BY DEF Sides, Opposite

LEMMA Order ==
    ASSUME NEW s \in Sides, NEW x \in Int, NEW y \in Int
    PROVE  /\ Before(Opposite(s), x, y) <=> Before(s, y, x)
           /\ ~(Before(s, x, y) /\ Before(s, y, x)) /\ ~Before(s, x, x)
           /\ x = y \/ Before(s, x, y) \/ Before(s, y, x)
           /\ \A z \in Int : Before(s, x, y) /\ Before(s, y, z) => Before(s, x, z)
  BY DEF Sides, Opposite, Before

Limits == [s \in Sides |-> CHOOSE i \in Int : \A k \in Keys : Before(s, i, k)]

LEMMA Bounded == \E i, j \in Int : \A k \in Keys : i < k /\ k < j
<1> DEFINE P(n) == \A A \in SUBSET Keys : Cardinality(A) = n =>
                      \E i, j \in Int : \A k \in A : i < k /\ k < j
           T == {n \in Nat : P(n)}
<1>1. \A A \in SUBSET Keys : IsFiniteSet(A) /\ A \subseteq Int
  BY KeysAssumption, FS_Subset
<1>2. 0 \in T
  <2>1. \A A \in SUBSET Keys : Cardinality(A) = 0 => A = {}
    BY <1>1, FS_EmptySet
  <2>2. \A A \in SUBSET Keys : Cardinality(A) = 0 => \A k \in A : 0 < k /\ k < 0
    BY <2>1
  <2>3. P(0)
    BY <2>2
  <2> QED
    BY <2>3
<1>3. ASSUME NEW n \in T PROVE n + 1 \in T
  <2> SUFFICES ASSUME NEW A \in SUBSET Keys, Cardinality(A) = n + 1
               PROVE  \E i, j \in Int : \A k \in A : i < k /\ k < j
    OBVIOUS
  <2>1. PICK a : a \in A
    <3>1. A # {}
      BY <1>1, FS_EmptySet
    <3> QED
      BY <3>1
  <2>2. Cardinality(A \ {a}) = n
    <3>1. Cardinality(A \ {a}) = Cardinality(A) - 1
      BY <1>1, <2>1, FS_RemoveElement
    <3> QED
      BY <3>1
  <2>3. PICK i, j \in Int : \A k \in A \ {a} : i < k /\ k < j
    BY <2>2
  <2>4. a \in Int
    BY <1>1, <2>1
  <2> DEFINE x == IF a <= i THEN a - 1 ELSE i
             y == IF a >= j THEN a + 1 ELSE j
  <2>5. x \in Int /\ y \in Int /\ x <= i /\ j <= y /\ x < a /\ a < y
    BY <2>4
  <2>6. \A k \in A : k \in Int
    BY <1>1
  <2> HIDE DEF x, y
  <2>7. \A k \in A : x < k /\ k < y
    BY <2>3, <2>5, <2>6
  <2> QED
    BY <2>5, <2>7
<1>4. Cardinality(Keys) \in T
  <2>1. Cardinality(Keys) \in Nat
    BY KeysAssumption, FS_CardinalityType
  <2> HIDE DEF P
  <2>2. T = Nat
    BY <1>2, <1>3, Inductive
  <2> QED
    BY <2>1, <2>2
<1> QED
  BY <1>4

LEMMA EndsAre ==
    ASSUME NEW s \in Sides
    PROVE  /\ Limits[s] \in Int /\ \A k \in Keys : Before(s, Limits[s], k)
           /\ Limits[s] \notin Keys
<1>1. \E i \in Int : \A k \in Keys : Before(s, i, k)
  BY Bounded DEF Before
<1>2. Limits[s] \in Int /\ \A k \in Keys : Before(s, Limits[s], k)
  BY <1>1 DEF Limits
<1> QED
  BY <1>2, Order

-----------------------------------------------------------------------------
(* The tree t has the keys S.  The keys below n, and no others, are between *)
(* the bounds b of n, each of which is a key of the tree or an end.         *)
Shape(t, S, b) ==
    /\ t \in Trees /\ S \subseteq Keys /\ b \in [Sides -> [Keys -> Int]]
    /\ t.red \subseteq S
    /\ t.root = NULL <=> S = {}
    /\ t.root # NULL => t.root \in S /\ t.parent[t.root] = NULL
    /\ \A s \in Sides : t.root # NULL => b[s][t.root] = Limits[s]
    /\ \A n \in S, s \in Sides :
          Before(s, b[s][n], n) /\ (b[s][n] \in S \/ b[s][n] = Limits[s])
    /\ \A n \in S, s \in Sides : t.child[s][n] # NULL =>
          /\ t.child[s][n] \in S /\ t.parent[t.child[s][n]] = n
          /\ b[s][t.child[s][n]] = b[s][n]
          /\ b[Opposite(s)][t.child[s][n]] = n
    /\ \A n \in S : n # t.root =>
          t.parent[n] \in S /\ \E s \in Sides : t.child[s][t.parent[n]] = n
    /\ \A n \in Keys \ S : t.parent[n] = NULL /\ \A s \in Sides : t.child[s][n] = NULL

LEMMA KeysAre ==
    /\ Keys \subseteq Int /\ NULL \notin Keys /\ Node = Keys \cup {NULL}
    /\ \A k \in Keys : k \in Int /\ k # NULL /\ k \in Node
  BY KeysAssumption DEF Node

LEMMA TreesAre ==
    ASSUME NEW t \in Trees
    PROVE  /\ t.root \in Node /\ t.red \subseteq Keys
           /\ \A n \in Keys : t.parent[n] \in Node
           /\ \A s \in Sides, n \in Keys : t.child[s][n] \in Node
           /\ t.parent \in [Keys -> Node] /\ t.child \in [Sides -> [Keys -> Node]]
  BY DEF Trees

(* A child and its parent.                                                  *)
LEMMA ChildIs ==
    ASSUME NEW t, NEW S, NEW b, Shape(t, S, b), NEW n \in S, NEW s \in Sides,
           t.child[s][n] # NULL
    PROVE  /\ t.child[s][n] \in S /\ t.child[s][n] # n /\ t.child[s][n] # t.root
           /\ t.child[s][n] # t.child[Opposite(s)][n]
           /\ t.parent[t.child[s][n]] = n
           /\ Before(s, t.child[s][n], n)
           /\ b[s][t.child[s][n]] = b[s][n] /\ b[Opposite(s)][t.child[s][n]] = n
           /\ \A m \in S, r \in Sides : t.child[r][m] = t.child[s][n] => m = n /\ r = s
<1> DEFINE o == Opposite(s)
<1>1. PICK c : c = t.child[s][n]
  OBVIOUS
<1>2. /\ c \in S /\ t.parent[c] = n /\ b[s][c] = b[s][n] /\ b[o][c] = n /\ Before(o, n, c)
      /\ c # NULL /\ c # t.root /\ n \in Int /\ c \in Int
  <2>1. c # NULL /\ c \in S /\ t.parent[c] = n /\ b[s][c] = b[s][n] /\ b[o][c] = n
    BY <1>1 DEF Shape
  <2>2. o \in Sides
    BY SidesAre
  <2>3. S \subseteq Keys /\ t.root # NULL /\ t.parent[t.root] = NULL
    BY DEF Shape
  <2>4. n \in Int /\ c \in Int /\ n # NULL
    BY <2>1, <2>3, KeysAre
  <2>5. \A m \in S, r \in Sides : Before(r, b[r][m], m)
    BY DEF Shape
  <2> HIDE DEF o
  <2>6. Before(o, n, c)
    BY <2>1, <2>2, <2>5
  <2> QED
    BY <2>1, <2>3, <2>4, <2>6
<1>3. c # n /\ Before(s, c, n)
  BY <1>2, Order, SidesAre
<1>4. ASSUME NEW m \in S, NEW r \in Sides, t.child[r][m] = c PROVE m = n /\ r = s
  <2>1. m = n
    BY <1>1, <1>2, <1>4 DEF Shape
  <2>2. ASSUME r = o PROVE FALSE
    <3>1. b[s][c] = n /\ Before(s, b[s][c], c)
      BY <1>2, <1>4, <2>1, <2>2, SidesAre DEF Shape
    <3> QED
      BY <1>2, <1>3, <3>1, Order
  <2> QED
    BY <2>1, <2>2, SidesAre
<1>5. c # t.child[o][n]
  BY <1>4, SidesAre
<1> QED
  BY <1>1, <1>2, <1>3, <1>4, <1>5

KidOf(t, S, b, n, s, c) ==
    /\ c \in S /\ c # n /\ c # t.root /\ t.parent[c] = n
    /\ Before(s, c, n) /\ b[s][c] = b[s][n] /\ \A r \in Sides : r # s => b[r][c] = n
    /\ \A m \in S, r \in Sides : t.child[r][m] = c => m = n /\ r = s

LEMMA KidIs ==
    ASSUME NEW t, NEW S, NEW b, Shape(t, S, b), NEW n \in S, NEW s \in Sides,
           NEW c \in Keys, c = t.child[s][n]
    PROVE  KidOf(t, S, b, n, s, c)
<1>1. \A r \in Sides : r # s => r = Opposite(s)
  BY SidesAre
<1>2. t.child[s][n] # NULL
  BY KeysAre
<1>3. /\ c \in S /\ c # n /\ c # t.root /\ t.parent[c] = n
      /\ Before(s, c, n) /\ b[s][c] = b[s][n] /\ b[Opposite(s)][c] = n
      /\ \A m \in S, r \in Sides : t.child[r][m] = c => m = n /\ r = s
  BY <1>2, ChildIs
<1> QED
  BY <1>1, <1>3 DEF KidOf

LEMMA ParentIs ==
    ASSUME NEW t, NEW S, NEW b, Shape(t, S, b), NEW n \in S
    PROVE  /\ n = t.root <=> t.parent[n] = NULL
           /\ n # t.root => \E s \in Sides :
                /\ t.parent[n] \in S /\ t.child[s][t.parent[n]] = n
                /\ t.parent[n] # n
                /\ \A m \in S, r \in Sides : t.child[r][m] = n => m = t.parent[n] /\ r = s
<1>1. n \in Keys /\ n # NULL /\ \A m \in S : m # NULL
  BY KeysAre DEF Shape
<1>2. n # t.root => t.parent[n] \in S /\ \E s \in Sides : t.child[s][t.parent[n]] = n
  BY DEF Shape
<1>3. n = t.root => t.parent[n] = NULL
  BY <1>1 DEF Shape
<1>4. ASSUME n # t.root
      PROVE  \E s \in Sides :
                /\ t.parent[n] \in S /\ t.child[s][t.parent[n]] = n
                /\ t.parent[n] # n
                /\ \A m \in S, r \in Sides : t.child[r][m] = n => m = t.parent[n] /\ r = s
  BY <1>1, <1>2, <1>4, ChildIs
<1> QED
  BY <1>1, <1>2, <1>3, <1>4

-----------------------------------------------------------------------------
(* A rotation: up takes the place of its parent n, which takes its child on *)
(* that side.                                                               *)
Rotated(t, r, n, side, up) ==
    /\ r \in Trees /\ r.red = t.red
    /\ r.root = IF t.parent[n] = NULL THEN up ELSE t.root
    /\ \A s \in Sides, m \in Keys : r.child[s][m] =
          IF m = n THEN IF s = side THEN t.child[s][n] ELSE t.child[side][up]
          ELSE IF m = up THEN IF s = side THEN n ELSE t.child[s][up]
          ELSE IF t.child[s][m] = n THEN up ELSE t.child[s][m]
    /\ \A m \in Keys : r.parent[m] =
          IF m = n THEN up ELSE IF m = up THEN t.parent[n]
          ELSE IF m = t.child[side][up] THEN n ELSE t.parent[m]

(* The parent of c is set to d in w, if c is a node.                        *)
Parented(w, x, c, d) ==
    /\ x \in Trees /\ x.root = w.root /\ x.red = w.red /\ x.child = w.child
    /\ \A m \in Keys : x.parent[m] = IF m = c /\ c # NULL THEN d ELSE w.parent[m]

LEMMA ParentedIs ==
    ASSUME NEW w \in Trees, NEW c \in Node, NEW d \in Node
    PROVE  Parented(w, SetParent(w, c, d), c, d)
  BY KeysAre DEF Parented, SetParent, Trees

(* new gets the place of n.                                                 *)
Relinked(w, u, n, new) ==
    /\ u \in Trees /\ u.red = w.red /\ u.parent = w.parent
    /\ u.root = IF w.root = n THEN new ELSE w.root
    /\ \A s \in Sides, m \in Keys : u.child[s][m] =
          IF w.child[s][m] = n THEN new ELSE w.child[s][m]

LEMMA RelinkIs ==
    ASSUME NEW t, NEW S, NEW b, Shape(t, S, b), NEW n \in S, NEW new \in Node,
           NEW w \in Trees, w.child = t.child, w.root = t.root
    PROVE  Relinked(w, Relink(w, t.parent[n], n, new), n, new)
<1>1. PICK p : p = t.parent[n]
  OBVIOUS
<1>2. /\ S \subseteq Keys /\ n \in Keys /\ \A m \in S : m # NULL
      /\ \A m \in Keys, s \in Sides : t.child[s][m] = n => m \in S
  BY KeysAre DEF Shape
<1>3. /\ p = NULL <=> n = t.root
      /\ p # NULL => p \in S /\ p # n
                     /\ \E q \in Sides : t.child[q][p] = n
                          /\ \A m \in S, r \in Sides : t.child[r][m] = n => m = p /\ r = q
  BY <1>1, ParentIs
<1> DEFINE u == Relink(w, p, n, new)
<1>4. CASE p = NULL
  <2>1. \A s \in Sides, m \in Keys : t.child[s][m] # n
    <3> SUFFICES ASSUME NEW s \in Sides, NEW m \in Keys, t.child[s][m] = n PROVE FALSE
      OBVIOUS
    <3>1. KidOf(t, S, b, m, s, n)
      BY <1>2, KidIs
    <3> QED
      BY <3>1, <1>3, <1>4 DEF KidOf
  <2>2. u = [w EXCEPT !.root = new]
    BY <1>4 DEF Relink
  <2>3. u \in Trees /\ u.red = w.red /\ u.parent = w.parent /\ u.root = new /\ u.child = w.child
    BY <2>2 DEF Trees
  <2> HIDE DEF u
  <2>4. Relinked(w, u, n, new)
    BY <1>3, <1>4, <2>1, <2>3 DEF Relinked
  <2> QED
    BY <1>1, <2>4 DEF u
<1>5. CASE p # NULL
  <2>1. PICK q \in Sides : /\ t.child[q][p] = n
                           /\ \A m \in S, r \in Sides : t.child[r][m] = n => m = p /\ r = q
    BY <1>3, <1>5
  <2>2. p \in S /\ p \in Keys /\ p # n /\ n # w.root
    BY <1>2, <1>3, <1>5
  <2>3. u = [w EXCEPT !.child[q][p] = new]
    <3>1. (IF w.child["left"][p] = n THEN "left" ELSE "right") = q
      BY <2>1, <2>2 DEF Sides
    <3> QED
      BY <1>5, <3>1 DEF Relink
  <2>4. \A s \in Sides, m \in Keys : t.child[s][m] = n <=> m = p /\ s = q
    BY <2>1, <1>2
  <2>5. \A s \in Sides, m \in Keys : u.child[s][m] = IF m = p /\ s = q THEN new ELSE w.child[s][m]
    BY <2>2, <2>3 DEF Trees
  <2>6. u.red = w.red /\ u.parent = w.parent /\ u.root = w.root
    BY <2>2, <2>3 DEF Trees
  <2>7. u \in Trees
    <3>1. PICK f : f = w.child[q]
      OBVIOUS
    <3>2. f \in [Keys -> Node] /\ [f EXCEPT ![p] = new] \in [Keys -> Node]
      BY <3>1 DEF Trees
    <3>3. PICK g \in [Keys -> Node] : g = [f EXCEPT ![p] = new]
      BY <3>2
    <3>4. u = [w EXCEPT !.child = [w.child EXCEPT ![q] = g]]
      BY <2>3, <3>1, <3>3
    <3>5. [w.child EXCEPT ![q] = g] \in [Sides -> [Keys -> Node]]
      BY DEF Trees
    <3> QED
      BY <3>4, <3>5 DEF Trees
  <2> HIDE DEF u
  <2>8. Relinked(w, u, n, new)
    BY <2>2, <2>4, <2>5, <2>6, <2>7 DEF Relinked
  <2> QED
    BY <1>1, <2>8 DEF u
<1> QED
  BY <1>4, <1>5

LEMMA RotateIs ==
    ASSUME NEW t, NEW S, NEW b, Shape(t, S, b), NEW n \in S, NEW side \in Sides,
           t.child[Opposite(side)][n] # NULL
    PROVE  Rotated(t, Rotate(t, n, side), n, side, t.child[Opposite(side)][n])
<1> DEFINE o == Opposite(side)
<1>1. PICK up : up = t.child[o][n]
  OBVIOUS
<1>2. PICK inner : inner = t.child[side][up]
  OBVIOUS
<1>3. PICK p : p = t.parent[n]
  OBVIOUS
<1>4. o \in Sides /\ o # side /\ Opposite(o) = side /\ \A s \in Sides : s # side => s = o
  BY SidesAre
<1>5. /\ up \in S /\ up # n /\ t.parent[up] = n /\ up # t.root
      /\ t.child[side][n] # up
  BY <1>1, <1>4, ChildIs
<1>6. t \in Trees /\ n \in Keys /\ up \in Keys /\ inner \in Node /\ p \in Node /\ up \in Node /\ n \in Node
      /\ S \subseteq Keys /\ n # NULL /\ up # NULL
  BY <1>2, <1>3, <1>5, TreesAre, KeysAre DEF Shape
<1>7. inner # NULL => inner \in S /\ inner # up /\ t.parent[inner] = up
  BY <1>2, <1>5, <1>4, ChildIs
<1>8. inner # n
  <2> SUFFICES ASSUME inner = n PROVE FALSE
    OBVIOUS
  <2>1. t.child[side][up] = n /\ t.child[side][up] # NULL /\ t.child[o][n] = up
    BY <1>1, <1>2, <1>6
  <2>2. b[o][n] = up
    BY <2>1, <1>4, <1>5 DEF Shape
  <2>3. b[o][up] = b[o][n]
    BY <2>1, <1>4, <1>6 DEF Shape
  <2>4. Before(o, b[o][up], up)
    BY <1>4, <1>5 DEF Shape
  <2> QED
    BY <2>2, <2>3, <2>4, <1>4, <1>6, KeysAre, Order
<1>9. /\ p = NULL <=> n = t.root
      /\ p # NULL => p \in S /\ p # n /\ p # up
                     /\ \E q \in Sides : t.child[q][p] = n
                          /\ \A m \in S, r \in Sides : t.child[r][m] = n => m = p /\ r = q
  <2>1. \A m \in S : m # NULL
    BY <1>6, KeysAre
  <2>2. p = NULL <=> n = t.root
    BY <1>3, ParentIs
  <2>3. ASSUME p # NULL
        PROVE  p \in S /\ p # n
                     /\ \E q \in Sides : t.child[q][p] = n
                          /\ \A m \in S, r \in Sides : t.child[r][m] = n => m = p /\ r = q
    BY <1>3, <2>2, <2>3, ParentIs
  <2>4. p # up
    <3> SUFFICES ASSUME p = up PROVE FALSE
      OBVIOUS
    <3>1. PICK q \in Sides : t.child[q][up] = n
      BY <2>3, <1>6
    <3>2. q = o
      BY <3>1, <1>2, <1>8, <1>4
    <3>3. b[o][n] = b[o][up] /\ b[side][n] = up /\ b[side][up] = n
      BY <3>1, <3>2, <1>1, <1>4, <1>5, <1>6, ChildIs
    <3>4. Before(side, up, n) /\ Before(side, n, up)
      BY <3>3, <1>5 DEF Shape
    <3> QED
      BY <3>4, <1>6, KeysAre, Order
  <2> QED
    BY <2>2, <2>3, <2>4
<1>10. \A m \in Keys, s \in Sides : t.child[s][m] = n => m \in S
  BY <1>6 DEF Shape
<1> DEFINE u == Relink(t, p, n, up)
           v == [u EXCEPT !.child[o][n] = inner, !.child[side][up] = n]
<1>11. /\ u \in Trees /\ u.red = t.red /\ u.parent = t.parent
       /\ u.root = IF p = NULL THEN up ELSE t.root
       /\ \A s \in Sides, m \in Keys : u.child[s][m] =
             IF t.child[s][m] = n THEN up ELSE t.child[s][m]
  <2>1. Relinked(t, u, n, up)
    BY <1>3, <1>6, RelinkIs
  <2> QED
    BY <2>1, <1>9 DEF Relinked
<1>12. /\ v \in Trees /\ v.red = t.red /\ v.parent = t.parent /\ v.root = u.root
       /\ \A s \in Sides, m \in Keys : v.child[s][m] =
             IF m = up /\ s = side THEN n ELSE IF m = n /\ s = o THEN inner ELSE u.child[s][m]
  <2> HIDE DEF u
  <2> QED
    BY <1>11, <1>6, <1>4 DEF Trees
<1>13. ASSUME NEW w \in Trees, NEW c \in Node, NEW d \in Node
       PROVE  Parented(w, SetParent(w, c, d), c, d)
  BY <1>13, ParentedIs
<1> DEFINE r == SetParent(SetParent(SetParent(v, inner, n), up, p), n, up)
<1>14. Rotate(t, n, side) = r
  BY <1>1, <1>2, <1>3 DEF Rotate
<1>15. /\ r \in Trees /\ r.red = t.red /\ r.root = v.root /\ r.child = v.child
       /\ \A m \in Keys : r.parent[m] =
          IF m = n THEN up ELSE IF m = up THEN p
          ELSE IF m = inner THEN n ELSE t.parent[m]
  <2> HIDE DEF v
  <2>1. PICK w : w = SetParent(v, inner, n)
    OBVIOUS
  <2>2. PICK x : x = SetParent(w, up, p)
    OBVIOUS
  <2>3. /\ w \in Trees /\ w.root = v.root /\ w.red = v.red /\ w.child = v.child
        /\ \A m \in Keys : w.parent[m] = IF m = inner THEN n ELSE v.parent[m]
    <3>1. Parented(v, w, inner, n)
      BY <2>1, <1>12, <1>13, <1>6
    <3> QED
      BY <3>1, <1>12, KeysAre DEF Parented
  <2>4. /\ x \in Trees /\ x.root = v.root /\ x.red = v.red /\ x.child = v.child
        /\ \A m \in Keys : x.parent[m] = IF m = up THEN p ELSE IF m = inner THEN n ELSE v.parent[m]
    <3>1. Parented(w, x, up, p)
      BY <2>2, <2>3, <1>13, <1>6
    <3> QED
      BY <3>1, <2>3, <1>6 DEF Parented
  <2>5. r = SetParent(x, n, up)
    BY <2>1, <2>2
  <2>6. Parented(x, r, n, up)
    BY <2>4, <2>5, <1>13, <1>6
  <2> QED
    BY <2>4, <2>6, <1>12, <1>6 DEF Parented
<1>16. \A s \in Sides, m \in Keys : r.child[s][m] =
          IF m = n THEN IF s = side THEN t.child[s][n] ELSE inner
          ELSE IF m = up THEN IF s = side THEN n ELSE t.child[s][up]
          ELSE IF t.child[s][m] = n THEN up ELSE t.child[s][m]
  <2> HIDE DEF r, v, u
  <2>1. \A s \in Sides : t.child[s][n] # n /\ t.child[s][up] # n
    BY <1>2, <1>5, <1>8, <1>9, <1>6, ChildIs
  <2> QED
    BY <1>11, <1>12, <1>15, <1>4, <1>5, <2>1
<1>17. r.root = IF p = NULL THEN up ELSE t.root
  BY <1>11, <1>12, <1>15
<1> HIDE DEF r
<1>18. r \in Trees /\ r.red = t.red
  BY <1>15
<1>19. \A m \in Keys : r.parent[m] =
          IF m = n THEN up ELSE IF m = up THEN p
          ELSE IF m = inner THEN n ELSE t.parent[m]
  BY <1>15
<1> HIDE DEF o, u, v
<1>20. Rotated(t, r, n, side, up)
  BY <1>2, <1>3, <1>16, <1>17, <1>18, <1>19 DEF Rotated
<1> QED
  BY <1>1, <1>14, <1>20 DEF o

LEMMA RotateKeeps ==
    ASSUME NEW t, NEW S, NEW b, Shape(t, S, b), NEW n \in S, NEW side \in Sides,
           NEW up, up = t.child[Opposite(side)][n], up # NULL,
           NEW r, Rotated(t, r, n, side, up)
    PROVE  \E c : Shape(r, S, c)
<1>a. PICK o \in Sides : /\ o # side /\ o = Opposite(side) /\ side = Opposite(o)
                         /\ \A s \in Sides : s # side => s = o
  BY SidesAre
<1> DEFINE c == [s \in Sides |-> [m \in Keys |->
                    IF m = up /\ s = side THEN b[side][n]
                    ELSE IF m = n /\ s = o THEN up ELSE b[s][m]]]
<1>0. ASSUME NEW m \in S, NEW s \in Sides, NEW d \in Keys, d = t.child[s][m]
      PROVE  KidOf(t, S, b, m, s, d)
  BY <1>0, KidIs
<1>1. o # side /\ (\A s \in Sides : s # side => s = o) /\ up = t.child[o][n] /\ up # NULL
  BY <1>a
<1>2. S \subseteq Keys /\ n \in Keys /\ n \in Int /\ NULL \notin S /\ S # {} /\ t.root # NULL
      /\ t \in Trees
  BY KeysAre DEF Shape
<1>3. /\ up \in S /\ up # n /\ up # t.root /\ b[side][up] = n /\ b[o][up] = b[o][n]
      /\ t.parent[up] = n /\ up \in Int /\ up \in Keys /\ Before(side, n, up) /\ Before(o, up, n)
      /\ t.child[side][n] # up
  <2>1. /\ up \in S /\ up # n /\ up # t.root /\ b[side][up] = n /\ b[o][up] = b[o][n]
        /\ t.parent[up] = n /\ Before(o, up, n) /\ up # t.child[side][n]
    BY <1>a, <1>1, ChildIs
  <2> QED
    BY <2>1, <1>a, <1>1, <1>2, KeysAre, Order
<1>4. /\ c \in [Sides -> [Keys -> Int]]
      /\ \A s \in Sides, m \in Keys : c[s][m] =
                    IF m = up /\ s = side THEN b[side][n]
                    ELSE IF m = n /\ s = o THEN up ELSE b[s][m]
  BY <1>1, <1>2, <1>3 DEF Shape
<1> HIDE DEF c
<1>5. r.red \subseteq S /\ r \in Trees
  BY DEF Rotated, Shape
<1>6. /\ r.root \in S /\ r.parent[r.root] = NULL
      /\ \A s \in Sides : c[s][r.root] = Limits[s]
  <2>1. CASE n = t.root
    <3>1. r.root = up /\ r.parent[up] = NULL
      BY <2>1, <1>2, <1>3 DEF Rotated, Shape
    <3>2. \A s \in Sides : b[s][n] = Limits[s]
      BY <2>1, <1>2 DEF Shape
    <3> QED
      BY <3>1, <3>2, <1>1, <1>2, <1>3, <1>4
  <2>2. CASE n # t.root
    <3>1. t.parent[n] # NULL
      BY <2>2, ParentIs
    <3>2. r.root = t.root
      BY <3>1 DEF Rotated
    <3>3. t.root \in S /\ t.parent[t.root] = NULL /\ \A s \in Sides : b[s][t.root] = Limits[s]
      BY <1>2 DEF Shape
    <3>4. t.root # t.child[side][up]
      <4> SUFFICES ASSUME t.root = t.child[side][up] PROVE FALSE
        OBVIOUS
      <4>1. KidOf(t, S, b, up, side, t.root)
        BY <3>3, <1>2, <1>3, <1>0
      <4> QED
        BY <4>1 DEF KidOf
    <3>5. r.parent[t.root] = NULL
      BY <2>2, <3>3, <3>4, <1>2, <1>3 DEF Rotated
    <3>6. \A s \in Sides : c[s][t.root] = b[s][t.root]
      BY <2>2, <3>3, <1>2, <1>3, <1>4
    <3> QED
      BY <3>2, <3>3, <3>5, <3>6
  <2> QED
    BY <2>1, <2>2
<1>7. ASSUME NEW m \in S, NEW s \in Sides
      PROVE  Before(s, c[s][m], m) /\ (c[s][m] \in S \/ c[s][m] = Limits[s])
  <2>1. Before(s, b[s][m], m) /\ (b[s][m] \in S \/ b[s][m] = Limits[s]) /\ m \in Keys /\ m \in Int
    BY <1>2, KeysAre DEF Shape
  <2>2. Before(side, b[side][n], n) /\ (b[side][n] \in S \/ b[side][n] = Limits[side])
    BY DEF Shape
  <2>3. Before(side, b[side][n], up)
    BY <2>2, <1>2, <1>3, Order DEF Shape
  <2> QED
    BY <2>1, <2>2, <2>3, <1>1, <1>3, <1>4
<1>8. ASSUME NEW m \in S, NEW s \in Sides, NEW d \in Keys, d = r.child[s][m]
      PROVE  /\ d \in S /\ r.parent[d] = m
             /\ c[s][d] = c[s][m]
             /\ \A q \in Sides : q # s => c[q][d] = m
  <2>0. m \in Keys /\ m # NULL
    BY <1>2
  <2>1. CASE m = n /\ s = side
    <3>1. d = t.child[side][n]
      BY <1>8, <2>0, <2>1 DEF Rotated
    <3>2. d \in S /\ t.parent[d] = n /\ b[side][d] = b[side][n] /\ b[o][d] = n /\ d # n /\ d # up
      <4>1. KidOf(t, S, b, n, side, d)
        BY <3>1, <1>0
      <4> QED
        BY <4>1, <3>1, <1>1, <1>3 DEF KidOf
    <3>3. d # t.child[side][up]
      <4> SUFFICES ASSUME d = t.child[side][up] PROVE FALSE
        OBVIOUS
      <4>1. KidOf(t, S, b, up, side, d)
        BY <1>3, <1>0
      <4> QED
        BY <4>1, <3>2, <1>3 DEF KidOf
    <3>4. r.parent[d] = n
      BY <3>2, <3>3, <1>2 DEF Rotated
    <3> QED
      BY <2>1, <3>2, <3>4, <1>1, <1>2, <1>3, <1>4
  <2>2. CASE m = n /\ s = o
    <3>1. d = t.child[side][up]
      BY <1>1, <1>8, <2>0, <2>2 DEF Rotated
    <3>2. /\ d \in S /\ t.parent[d] = up /\ b[side][d] = n /\ b[o][d] = up /\ d # up
          /\ Before(side, d, up)
      <4>1. KidOf(t, S, b, up, side, d)
        BY <3>1, <1>3, <1>0
      <4> QED
        BY <4>1, <1>1, <1>3 DEF KidOf
    <3>3. d # n
      <4>1. Before(side, b[side][d], d)
        BY <3>2 DEF Shape
      <4> QED
        BY <4>1, <3>2, <1>2, Order
    <3>4. r.parent[d] = n
      BY <3>1, <3>2, <3>3, <1>2 DEF Rotated
    <3> QED
      BY <2>2, <3>2, <3>3, <3>4, <1>1, <1>2, <1>3, <1>4
  <2>3. CASE m = up /\ s = side
    <3>1. d = n /\ r.parent[n] = up
      BY <1>2, <1>3, <1>8, <2>0, <2>3 DEF Rotated
    <3> QED
      BY <2>3, <3>1, <1>1, <1>2, <1>3, <1>4
  <2>4. CASE m = up /\ s = o
    <3>1. d = t.child[o][up]
      BY <1>1, <1>3, <1>8, <2>0, <2>4 DEF Rotated
    <3>2. d \in S /\ t.parent[d] = up /\ b[o][d] = b[o][up] /\ b[side][d] = up /\ d # up
          /\ d # t.child[side][up] /\ Before(o, d, up)
      <4>1. KidOf(t, S, b, up, o, d)
        BY <3>1, <1>3, <1>0
      <4> QED
        BY <4>1, <1>1, <1>3 DEF KidOf
    <3>3. d # n
      <4>1. Before(o, up, n) /\ up \in Int /\ n \in Int
        BY <1>2, <1>3
      <4>2. ~Before(o, n, up)
        BY <4>1, Order
      <4> QED
        BY <4>2, <3>2
    <3>4. r.parent[d] = up
      BY <3>2, <3>3, <1>2, <1>3 DEF Rotated
    <3> QED
      BY <2>4, <3>2, <3>3, <3>4, <1>1, <1>2, <1>3, <1>4
  <2>5. CASE m \notin {n, up} /\ t.child[s][m] = n
    <3>1. d = up
      BY <1>8, <2>0, <2>5 DEF Rotated
    <3>2. t.parent[n] = m /\ b[s][n] = b[s][m] /\ \A q \in Sides : q # s => b[q][n] = m
      <4>1. KidOf(t, S, b, m, s, n)
        BY <2>5, <1>2, <1>0
      <4> QED
        BY <4>1 DEF KidOf
    <3>3. r.parent[up] = m
      BY <3>2, <1>2, <1>3 DEF Rotated
    <3> QED
      BY <2>0, <2>5, <3>1, <3>2, <3>3, <1>1, <1>2, <1>3, <1>4
  <2>6. CASE m \notin {n, up} /\ t.child[s][m] # n
    <3>1. d = t.child[s][m]
      BY <1>8, <2>0, <2>6 DEF Rotated
    <3>2. d \in S /\ t.parent[d] = m /\ b[s][d] = b[s][m] /\ \A q \in Sides : q # s => b[q][d] = m
      <4>1. KidOf(t, S, b, m, s, d)
        BY <3>1, <1>0
      <4> QED
        BY <4>1 DEF KidOf
    <3>3. d # up /\ d # n
      BY <2>6, <3>1, <3>2, <1>3
    <3>4. d # t.child[side][up]
      <4> SUFFICES ASSUME d = t.child[side][up] PROVE FALSE
        OBVIOUS
      <4>1. KidOf(t, S, b, up, side, d)
        BY <1>3, <1>0
      <4> QED
        BY <4>1, <2>6, <3>2 DEF KidOf
    <3>5. r.parent[d] = m
      BY <3>2, <3>3, <3>4, <1>2 DEF Rotated
    <3> QED
      BY <2>0, <2>6, <3>2, <3>3, <3>5, <1>2, <1>4
  <2> QED
    BY <1>1, <2>1, <2>2, <2>3, <2>4, <2>5, <2>6
<1>9. ASSUME NEW m \in S, m # r.root
      PROVE  r.parent[m] \in S /\ \E s \in Sides : r.child[s][r.parent[m]] = m
  <2>1. CASE m = n
    BY <2>1, <1>2, <1>3 DEF Rotated
  <2>2. CASE m = up
    <3>1. t.parent[n] # NULL /\ n # t.root
      BY <1>9, <2>2, <1>2, ParentIs DEF Rotated
    <3>2. PICK s \in Sides : t.parent[n] \in S /\ t.child[s][t.parent[n]] = n /\ t.parent[n] # n
      BY <3>1, ParentIs
    <3>4. t.parent[n] # up
      <4> SUFFICES ASSUME t.parent[n] = up PROVE FALSE
        OBVIOUS
      <4>1. KidOf(t, S, b, up, s, n) /\ KidOf(t, S, b, n, o, up)
        BY <3>2, <1>1, <1>2, <1>3, <1>0
      <4>2. b[side][n] = up \/ b[side][n] = n
        BY <4>1, <1>1, <1>3 DEF KidOf
      <4>3. Before(side, b[side][n], n)
        BY DEF Shape
      <4> QED
        BY <4>2, <4>3, <1>2, <1>3, Order
    <3>5. r.parent[up] = t.parent[n] /\ r.child[s][t.parent[n]] = up
      BY <3>2, <3>4, <1>2, <1>3 DEF Rotated
    <3> QED
      BY <2>2, <3>2, <3>5
  <2>3. CASE m \notin {n, up} /\ m = t.child[side][up]
    <3>1. r.parent[m] = n
      BY <2>3, <1>2 DEF Rotated
    <3>2. r.child[o][n] = m
      BY <2>3, <1>1, <1>2 DEF Rotated
    <3> QED
      BY <3>1, <3>2, <1>1
  <2>4. CASE m \notin {n, up} /\ m # t.child[side][up]
    <3>1. m # t.root
      BY <1>9, <2>4, <1>2, ParentIs DEF Rotated
    <3>2. PICK s \in Sides : t.parent[m] \in S /\ t.child[s][t.parent[m]] = m
      BY <3>1, ParentIs
    <3>3. r.parent[m] = t.parent[m]
      BY <2>4, <1>2 DEF Rotated
    <3>4. CASE t.parent[m] = n
      <4>1. s = side
        BY <1>1, <2>4, <3>2, <3>4
      <4> QED
        BY <3>2, <3>3, <3>4, <4>1, <1>2 DEF Rotated
    <3>5. CASE t.parent[m] = up
      <4>1. s # side
        BY <2>4, <3>2, <3>5
      <4>2. r.child[s][up] = t.child[s][up]
        BY <4>1, <1>2, <1>3 DEF Rotated
      <4> QED
        BY <3>2, <3>3, <3>5, <4>2
    <3>6. CASE t.parent[m] \notin {n, up}
      <4>1. r.child[s][t.parent[m]] = m
        BY <2>4, <3>2, <3>6, <1>2 DEF Rotated
      <4> QED
        BY <3>2, <3>3, <4>1
    <3> QED
      BY <3>4, <3>5, <3>6
  <2> QED
    BY <2>1, <2>2, <2>3, <2>4
<1>10. ASSUME NEW m \in Keys \ S
       PROVE  r.parent[m] = NULL /\ \A s \in Sides : r.child[s][m] = NULL
  <2>1. m # n /\ m # up /\ t.parent[m] = NULL /\ \A s \in Sides : t.child[s][m] = NULL
    BY <1>3 DEF Shape
  <2>2. m # t.child[side][up]
    <3> SUFFICES ASSUME m = t.child[side][up] PROVE FALSE
      OBVIOUS
    <3>1. KidOf(t, S, b, up, side, m)
      BY <1>3, <1>0
    <3> QED
      BY <3>1 DEF KidOf
  <2> QED
    BY <2>1, <2>2, <1>2 DEF Rotated
<1>11. r.root # NULL /\ S # {} /\ S \subseteq Keys
  BY <1>2, <1>6
<1>12. Shape(r, S, c)
  <2>1. ASSUME NEW m \in S, NEW s \in Sides, r.child[s][m] # NULL PROVE r.child[s][m] \in Keys
    BY <2>1, <1>5, <1>2, TreesAre, KeysAre
  <2>2. \A m \in S, s \in Sides : r.child[s][m] # NULL =>
          /\ r.child[s][m] \in S /\ r.parent[r.child[s][m]] = m
          /\ c[s][r.child[s][m]] = c[s][m]
          /\ c[Opposite(s)][r.child[s][m]] = m
    BY <1>8, <2>1, SidesAre
  <2> QED
    BY <1>4, <1>5, <1>6, <1>7, <2>2, <1>9, <1>10, <1>11 DEF Shape
<1> QED
  BY <1>12

-----------------------------------------------------------------------------
(* Ways down and up end: what is below a child is narrower.                 *)
Width(b, n) == b["right"][n] - b["left"][n]
Span == Limits["right"] - Limits["left"]

LEMMA WidthIs ==
    ASSUME NEW t, NEW S, NEW b, Shape(t, S, b), NEW n \in S
    PROVE  /\ Width(b, n) \in Nat /\ Width(b, n) <= Span /\ Span \in Nat
           /\ \A s \in Sides, c \in Keys : c = t.child[s][n] =>
                 c \in S /\ Width(b, c) < Width(b, n)
<1>1. "left" \in Sides /\ "right" \in Sides /\ "left" # "right"
  BY DEF Sides
<1>2. n \in Keys /\ n \in Int
  BY KeysAre DEF Shape
<1>3. ASSUME NEW m \in S
      PROVE  /\ b["left"][m] \in Int /\ b["right"][m] \in Int /\ m \in Int
             /\ b["left"][m] < m /\ m < b["right"][m]
             /\ Limits["left"] <= b["left"][m] /\ b["right"][m] <= Limits["right"]
  <2>1. m \in Keys /\ m \in Int
    BY KeysAre DEF Shape
  <2>2. b \in [Sides -> [Keys -> Int]]
    BY DEF Shape
  <2>3. ASSUME NEW s \in Sides
        PROVE  Before(s, b[s][m], m) /\ (b[s][m] \in S \/ b[s][m] = Limits[s])
    BY DEF Shape
  <2>4. \A s \in Sides : b[s][m] \in Int /\ Before(s, b[s][m], m)
             /\ (b[s][m] \in S \/ b[s][m] = Limits[s])
    BY <2>1, <2>2, <2>3
  <2>5. \A s \in Sides : b[s][m] = Limits[s] \/ Before(s, Limits[s], b[s][m])
    BY <2>4, EndsAre DEF Shape
  <2>6. \A s \in Sides : Limits[s] \in Int
    BY EndsAre
  <2> QED
    BY <1>1, <2>1, <2>4, <2>5, <2>6 DEF Before
<1>4. Limits["left"] \in Int /\ Limits["right"] \in Int
  BY <1>1, EndsAre
<1>5. ASSUME NEW s \in Sides, NEW c \in Keys, c = t.child[s][n]
      PROVE  c \in S /\ Width(b, c) < Width(b, n)
  <2>1. /\ c \in S /\ b[s][c] = b[s][n] /\ \A r \in Sides : r # s => b[r][c] = n
    BY <1>5, KidIs DEF KidOf
  <2>2. CASE s = "left"
    BY <2>1, <2>2, <1>1, <1>3 DEF Width
  <2>3. CASE s = "right"
    BY <2>1, <2>3, <1>1, <1>3 DEF Width
  <2> QED
    BY <2>2, <2>3, <2>1 DEF Sides
<1> QED
  BY <1>3, <1>4, <1>5 DEF Width, Span

(* Ranks that get lower on the way down, and on the way up.                 *)
Lower(S, b) == [n \in Keys |-> IF n \in S THEN Width(b, n) ELSE 0]
Upper(S, b) == [n \in Keys |-> IF n \in S THEN Span - Width(b, n) ELSE 0]

LEMMA RanksAre ==
    ASSUME NEW t, NEW S, NEW b, Shape(t, S, b)
    PROVE  /\ Lower(S, b) \in [Keys -> Nat] /\ Upper(S, b) \in [Keys -> Nat]
           /\ Keys # {} /\ S # {} => Span \in Nat
           /\ \A n \in Keys : S # {} => Lower(S, b)[n] <= Span /\ Upper(S, b)[n] <= Span
           /\ \A n \in S : t.parent[n] # NULL =>
                 t.parent[n] \in S /\ Upper(S, b)[t.parent[n]] < Upper(S, b)[n]
           /\ \A n \in S, s \in Sides : t.child[s][n] # NULL =>
                 t.child[s][n] \in S /\ Lower(S, b)[t.child[s][n]] < Lower(S, b)[n]
<1>1. S \subseteq Keys /\ t \in Trees
  BY DEF Shape
<1>2. ASSUME NEW n \in S
      PROVE  /\ Width(b, n) \in Nat /\ Width(b, n) <= Span /\ Span \in Nat
             /\ Span - Width(b, n) \in Nat /\ Span - Width(b, n) <= Span
  <2>1. Width(b, n) \in Nat /\ Width(b, n) <= Span /\ Span \in Nat
    BY WidthIs
  <2> QED
    BY <2>1
<1>3. /\ Lower(S, b) \in [Keys -> Nat] /\ Upper(S, b) \in [Keys -> Nat]
      /\ \A n \in S : Lower(S, b)[n] = Width(b, n) /\ Upper(S, b)[n] = Span - Width(b, n)
      /\ \A n \in Keys \ S : Lower(S, b)[n] = 0 /\ Upper(S, b)[n] = 0
  BY <1>1, <1>2 DEF Lower, Upper
<1>4. S # {} => Span \in Nat
  BY <1>2
<1>5. ASSUME NEW n \in Keys, S # {} PROVE Lower(S, b)[n] <= Span /\ Upper(S, b)[n] <= Span
  BY <1>2, <1>3, <1>4, <1>5
<1>6. ASSUME NEW n \in S, NEW s \in Sides, t.child[s][n] # NULL
      PROVE  t.child[s][n] \in S /\ Lower(S, b)[t.child[s][n]] < Lower(S, b)[n]
  <2>1. t.child[s][n] \in Keys
    BY <1>1, <1>6, TreesAre, KeysAre
  <2>2. t.child[s][n] \in S /\ Width(b, t.child[s][n]) < Width(b, n)
    BY <2>1, WidthIs
  <2> QED
    BY <2>2, <1>3
<1>7. ASSUME NEW n \in S, t.parent[n] # NULL
      PROVE  t.parent[n] \in S /\ Upper(S, b)[t.parent[n]] < Upper(S, b)[n]
  <2>1. PICK p \in S, s \in Sides : p = t.parent[n] /\ t.child[s][p] = n
    BY <1>7, ParentIs
  <2>2. Width(b, n) < Width(b, p)
    BY <2>1, <1>1, WidthIs
  <2>3. Span - Width(b, p) < Span - Width(b, n)
    BY <2>2, <1>2
  <2> QED
    BY <2>1, <2>3, <1>3
<1> QED
  BY <1>3, <1>4, <1>5, <1>6, <1>7

LEMMA NoEndlessWay ==
    ASSUME NEW t, NEW S, NEW b, Shape(t, S, b), NEW X \in SUBSET S,
           \A x \in X : x # t.root /\ t.parent[x] \in X
    PROVE  X = {}
<1> DEFINE rank == Upper(S, b)
<1>1. rank \in [Keys -> Nat] /\ S \subseteq Keys
  BY RanksAre DEF Shape
<1>2. ASSUME NEW x \in Keys, \A y \in Keys : rank[y] < rank[x] => y \in Keys \ X
      PROVE  x \in Keys \ X
  <2> SUFFICES ASSUME x \in X PROVE FALSE
    OBVIOUS
  <2>1. t.parent[x] \in X /\ t.parent[x] # NULL /\ t.parent[x] \in Keys
    BY <1>1, KeysAre
  <2>2. rank[t.parent[x]] < rank[x]
    BY <2>1, RanksAre
  <2> QED
    BY <1>2, <2>1, <2>2
<1> HIDE DEF rank
<1>3. PICK P : P = Keys \ X
  OBVIOUS
<1>4. \A x \in Keys : (\A y \in Keys : rank[y] < rank[x] => y \in P) => x \in P
  BY <1>2, <1>3
<1>5. Keys \subseteq P
  BY <1>1, <1>4, RankInduction
<1> QED
  BY <1>1, <1>3, <1>5

-----------------------------------------------------------------------------
(* A new key: at the root of an empty tree, or where p has no child.        *)
LEMMA FirstKeeps ==
    ASSUME NEW t, NEW b, Shape(t, {}, b), NEW k \in Keys, NEW r \in Trees,
           r.red \subseteq {k}, r.root = k, r.parent[k] = NULL,
           \A m \in Keys \ {k} : r.parent[m] = t.parent[m], r.child = t.child
    PROVE  \E c : Shape(r, {k}, c)
<1> DEFINE c == [s \in Sides |-> [m \in Keys |-> Limits[s]]]
<1>1. c \in [Sides -> [Keys -> Int]] /\ \A s \in Sides, m \in Keys : c[s][m] = Limits[s]
  BY EndsAre
<1>2. \A s \in Sides : Before(s, Limits[s], k)
  BY EndsAre
<1> HIDE DEF c
<1>3. k # NULL /\ \A s \in Sides : r.child[s][k] = NULL
  BY KeysAre DEF Shape
<1>4. \A m \in Keys \ {k} : r.parent[m] = NULL /\ \A s \in Sides : r.child[s][m] = NULL
  BY DEF Shape
<1>5. Shape(r, {k}, c)
  BY <1>1, <1>2, <1>3, <1>4 DEF Shape
<1> QED
  BY <1>5

Attached(t, r, k, p, side) ==
    /\ r \in Trees /\ r.root = t.root /\ r.red = t.red \cup {k}
    /\ \A m \in Keys : r.parent[m] = IF m = k THEN p ELSE t.parent[m]
    /\ \A s \in Sides, m \in Keys :
          r.child[s][m] = IF m = p /\ s = side THEN k ELSE t.child[s][m]

LEMMA BelowKeeps ==
    ASSUME NEW t, NEW S, NEW b, Shape(t, S, b), NEW k \in Keys, k \notin S,
           NEW p \in S, NEW side \in Sides, t.child[side][p] = NULL,
           Before(side, k, p), Before(side, b[side][p], k),
           NEW r, Attached(t, r, k, p, side)
    PROVE  \E c : Shape(r, S \cup {k}, c)
<1>0. /\ r \in Trees /\ r.red \subseteq S \cup {k} /\ r.root = t.root
      /\ \A m \in Keys : r.parent[m] = IF m = k THEN p ELSE t.parent[m]
      /\ \A s \in Sides, m \in Keys :
            r.child[s][m] = IF m = p /\ s = side THEN k ELSE t.child[s][m]
  <2>1. t.red \subseteq S
    BY DEF Shape
  <2> QED
    BY <2>1 DEF Attached
<1> USE <1>0
<1> DEFINE c == [s \in Sides |-> [m \in Keys |->
                    IF m = k THEN IF s = side THEN b[s][p] ELSE p ELSE b[s][m]]]
<1>1. S \subseteq Keys /\ p \in Keys /\ p \in Int /\ k \in Int /\ NULL \notin S /\ k # NULL
      /\ t.root # NULL /\ t.root \in S /\ k # p
  BY KeysAre DEF Shape
<1>2. /\ c \in [Sides -> [Keys -> Int]]
      /\ \A s \in Sides, m \in Keys : c[s][m] =
                    IF m = k THEN IF s = side THEN b[s][p] ELSE p ELSE b[s][m]
  BY <1>1 DEF Shape
<1> HIDE DEF c
<1>3. ASSUME NEW m \in S \cup {k}, NEW s \in Sides
      PROVE  Before(s, c[s][m], m) /\ (c[s][m] \in S \cup {k} \/ c[s][m] = Limits[s])
  <2>1. CASE m = k /\ s = side
    <3>1. b[side][p] \in S \/ b[side][p] = Limits[side]
      BY DEF Shape
    <3> QED
      BY <2>1, <3>1, <1>1, <1>2
  <2>2. CASE m = k /\ s # side
    <3>1. s = Opposite(side)
      BY <2>2, SidesAre
    <3>2. Before(s, p, k)
      BY <3>1, <1>1, Order
    <3> QED
      BY <2>2, <3>2, <1>1, <1>2
  <2>3. CASE m # k
    <3>1. m \in Keys /\ Before(s, b[s][m], m) /\ (b[s][m] \in S \/ b[s][m] = Limits[s])
      BY <2>3, <1>1 DEF Shape
    <3> QED
      BY <2>3, <3>1, <1>2
  <2> QED
    BY <2>1, <2>2, <2>3
<1>4. ASSUME NEW m \in S \cup {k}, NEW s \in Sides, NEW d \in Keys, d = r.child[s][m]
      PROVE  /\ d \in S \cup {k} /\ r.parent[d] = m
             /\ c[s][d] = c[s][m]
             /\ \A q \in Sides : q # s => c[q][d] = m
  <2>1. CASE m = p /\ s = side
    BY <2>1, <1>1, <1>2, <1>4
  <2>2. CASE ~(m = p /\ s = side)
    <3>0. m \in Keys
      BY <1>1
    <3>1. d = t.child[s][m]
      BY <2>2, <3>0, <1>4
    <3>2. m # k
      <4>1. t.child[s][k] = NULL
        BY DEF Shape
      <4> QED
        BY <3>1, <4>1, KeysAre
    <3>3. KidOf(t, S, b, m, s, d)
      BY <3>1, <3>2, KidIs
    <3>4. /\ d \in S /\ t.parent[d] = m /\ b[s][d] = b[s][m]
          /\ \A q \in Sides : q # s => b[q][d] = m
      BY <3>3 DEF KidOf
    <3>5. d # k /\ m \in Keys
      BY <3>4, <1>1
    <3> QED
      BY <3>2, <3>4, <3>5, <1>2
  <2> QED
    BY <2>1, <2>2
<1>5. ASSUME NEW m \in S \cup {k}, m # r.root
      PROVE  r.parent[m] \in S \cup {k} /\ \E s \in Sides : r.child[s][r.parent[m]] = m
  <2>1. CASE m = k
    BY <2>1, <1>1
  <2>2. CASE m # k
    <3>1. PICK s \in Sides : t.parent[m] \in S /\ t.child[s][t.parent[m]] = m
      BY <2>2, <1>5, ParentIs
    <3>2. m \in S /\ m # NULL
      BY <2>2, <1>1
    <3>3. r.parent[m] = t.parent[m] /\ r.child[s][t.parent[m]] = m
      BY <2>2, <3>1, <3>2, <1>1
    <3> QED
      BY <3>1, <3>3
  <2> QED
    BY <2>1, <2>2
<1>6. ASSUME NEW m \in Keys \ (S \cup {k})
      PROVE  r.parent[m] = NULL /\ \A s \in Sides : r.child[s][m] = NULL
  BY DEF Shape
<1>7. \A m \in S \cup {k}, s \in Sides : r.child[s][m] # NULL =>
         /\ r.child[s][m] \in S \cup {k} /\ r.parent[r.child[s][m]] = m
         /\ c[s][r.child[s][m]] = c[s][m]
         /\ c[Opposite(s)][r.child[s][m]] = m
  <2>1. ASSUME NEW m \in S \cup {k}, NEW s \in Sides, r.child[s][m] # NULL PROVE r.child[s][m] \in Keys
    BY <2>1, <1>1, TreesAre, KeysAre
  <2> QED
    BY <1>4, <2>1, SidesAre
<1>8. /\ r.root \in S \cup {k} /\ r.root # NULL /\ S \cup {k} # {} /\ r.parent[r.root] = NULL
      /\ \A s \in Sides : c[s][r.root] = Limits[s]
  <2>1. t.parent[t.root] = NULL /\ \A s \in Sides : b[s][t.root] = Limits[s]
    BY <1>1 DEF Shape
  <2>2. t.root # k /\ t.root \in Keys
    BY <1>1
  <2>3. \A s \in Sides : c[s][t.root] = b[s][t.root]
    BY <2>2, <1>2
  <2> QED
    BY <2>1, <2>2, <2>3, <1>1
<1>9. Shape(r, S \cup {k}, c)
  BY <1>1, <1>2, <1>3, <1>5, <1>6, <1>7, <1>8 DEF Shape
<1> QED
  BY <1>9

-----------------------------------------------------------------------------
(* A node with one child at most leaves, and the child takes its place.     *)
Dropped(t, r, n, c) ==
    /\ r \in Trees /\ r.red = t.red \ {n}
    /\ r.root = IF t.root = n THEN c ELSE t.root
    /\ \A s \in Sides, m \in Keys : r.child[s][m] =
          IF m = n THEN NULL ELSE IF t.child[s][m] = n THEN c ELSE t.child[s][m]
    /\ \A m \in Keys : r.parent[m] =
          IF m = n THEN NULL ELSE IF m = c THEN t.parent[n] ELSE t.parent[m]

LEMMA DropKeeps ==
    ASSUME NEW t, NEW S, NEW b, Shape(t, S, b), NEW n \in S, NEW side \in Sides,
           t.child[Opposite(side)][n] = NULL,
           NEW c, c = t.child[side][n], NEW r, Dropped(t, r, n, c)
    PROVE  \E a : Shape(r, S \ {n}, a)
<1> DEFINE a == [s \in Sides |-> [m \in Keys |-> IF b[s][m] = n THEN b[s][n] ELSE b[s][m]]]
<1>1. S \subseteq Keys /\ n \in Keys /\ n \in Int /\ NULL \notin S /\ n # NULL
      /\ t.root # NULL /\ t.root \in S /\ t \in Trees /\ c \in Node /\ r \in Trees
  BY KeysAre, TreesAre DEF Shape, Dropped
<1>2. /\ a \in [Sides -> [Keys -> Int]]
      /\ \A s \in Sides, m \in Keys : a[s][m] = IF b[s][m] = n THEN b[s][n] ELSE b[s][m]
  BY <1>1 DEF Shape
<1> HIDE DEF a
<1>3. \A s \in Sides : Before(s, b[s][n], n) /\ b[s][n] # n /\ Limits[s] # n
                       /\ (b[s][n] \in S \/ b[s][n] = Limits[s]) /\ b[s][n] \in Int
  <2> SUFFICES ASSUME NEW s \in Sides
               PROVE  Before(s, b[s][n], n) /\ b[s][n] # n /\ Limits[s] # n
                       /\ (b[s][n] \in S \/ b[s][n] = Limits[s]) /\ b[s][n] \in Int
    OBVIOUS
  <2>1. Before(s, b[s][n], n) /\ (b[s][n] \in S \/ b[s][n] = Limits[s]) /\ b[s][n] \in Int
    BY <1>1 DEF Shape
  <2>2. Limits[s] # n
    BY <1>1, EndsAre
  <2> QED
    BY <2>1, <2>2, <1>1, Order
<1>4. ASSUME NEW m \in S \ {n}, NEW s \in Sides
      PROVE  Before(s, a[s][m], m) /\ (a[s][m] \in S \ {n} \/ a[s][m] = Limits[s])
  <2>1. Before(s, b[s][m], m) /\ (b[s][m] \in S \/ b[s][m] = Limits[s]) /\ m \in Keys /\ m \in Int
    BY <1>1, KeysAre DEF Shape
  <2>2. CASE b[s][m] = n
    <3>1. Before(s, b[s][n], m)
      BY <2>1, <2>2, <1>1, <1>3, Order
    <3> QED
      BY <2>1, <2>2, <3>1, <1>2, <1>3
  <2>3. CASE b[s][m] # n
    BY <2>1, <2>3, <1>2
  <2> QED
    BY <2>2, <2>3
<1>5. c # NULL => KidOf(t, S, b, n, side, c)
  BY <1>1, KidIs, KeysAre
<1>6. \A m \in S, s \in Sides : t.child[s][m] = n => KidOf(t, S, b, m, s, n)
  BY <1>1, KidIs
<1>7. ASSUME NEW m \in S \ {n}, NEW s \in Sides, NEW d \in Keys, d = r.child[s][m]
      PROVE  /\ d \in S \ {n} /\ r.parent[d] = m
             /\ a[s][d] = a[s][m]
             /\ \A q \in Sides : q # s => a[q][d] = m
  <2>0. m \in Keys /\ d # NULL
    BY <1>1, KeysAre
  <2>1. CASE t.child[s][m] = n
    <3>1. d = c
      BY <2>0, <2>1, <1>7 DEF Dropped
    <3>2. /\ d \in S /\ d # n /\ t.parent[n] = m /\ b[side][d] = b[side][n]
          /\ \A q \in Sides : q # side => b[q][d] = n
      BY <2>0, <2>1, <3>1, <1>5, <1>6 DEF KidOf
    <3>3. b[s][n] = b[s][m] /\ \A q \in Sides : q # s => b[q][n] = m
      BY <2>1, <1>6 DEF KidOf
    <3>4. r.parent[d] = m
      BY <3>1, <3>2 DEF Dropped
    <3>5. \A q \in Sides : a[q][d] = b[q][n]
      BY <3>2, <1>2
    <3>6. a[s][m] = b[s][n]
      BY <3>3, <2>0, <1>2
    <3> QED
      BY <3>2, <3>3, <3>4, <3>5, <3>6
  <2>2. CASE t.child[s][m] # n
    <3>1. d = t.child[s][m] /\ d # n
      BY <2>0, <2>2, <1>7 DEF Dropped
    <3>2. KidOf(t, S, b, m, s, d)
      BY <3>1, KidIs
    <3>3. d # c
      <4> SUFFICES ASSUME d = c PROVE FALSE
        OBVIOUS
      <4> QED
        BY <3>1, <2>0, <1>5 DEF KidOf
    <3>4. r.parent[d] = m
      BY <3>1, <3>2, <3>3 DEF Dropped, KidOf
    <3> QED
      BY <3>1, <3>2, <3>4, <2>0, <1>2 DEF KidOf
  <2> QED
    BY <2>1, <2>2
<1>8. ASSUME NEW m \in S \ {n}, m # r.root
      PROVE  r.parent[m] \in S \ {n} /\ \E s \in Sides : r.child[s][r.parent[m]] = m
  <2>0. m \in S /\ m \in Keys /\ m # NULL /\ m # n
    BY <1>1
  <2>1. CASE m = c
    <3>1. t.root # n
      BY <2>1, <1>8 DEF Dropped
    <3>2. PICK s \in Sides : t.parent[n] \in S /\ t.child[s][t.parent[n]] = n /\ t.parent[n] # n
      BY <3>1, ParentIs
    <3>3. r.parent[m] = t.parent[n] /\ r.child[s][t.parent[n]] = m
      BY <2>0, <2>1, <3>2, <1>1 DEF Dropped
    <3> QED
      BY <3>2, <3>3
  <2>2. CASE m # c
    <3>1. m # t.root
      BY <2>0, <1>8 DEF Dropped
    <3>2. PICK s \in Sides : t.parent[m] \in S /\ t.child[s][t.parent[m]] = m
      BY <2>0, <3>1, ParentIs
    <3>3. t.parent[m] # n
      BY <2>0, <2>2, <3>2, SidesAre
    <3>4. r.parent[m] = t.parent[m] /\ r.child[s][t.parent[m]] = m
      BY <2>0, <2>2, <3>2, <3>3, <1>1 DEF Dropped
    <3> QED
      BY <3>2, <3>3, <3>4
  <2> QED
    BY <2>1, <2>2
<1>9. ASSUME NEW m \in Keys \ (S \ {n})
      PROVE  r.parent[m] = NULL /\ \A s \in Sides : r.child[s][m] = NULL
  <2>1. CASE m = n
    BY <2>1 DEF Dropped
  <2>2. CASE m # n
    <3>1. m \notin S /\ t.parent[m] = NULL /\ \A s \in Sides : t.child[s][m] = NULL
      BY <2>2 DEF Shape
    <3>2. m # c
      BY <3>1, <1>5, KeysAre DEF KidOf
    <3> QED
      BY <2>2, <3>1, <3>2, <1>1 DEF Dropped
  <2> QED
    BY <2>1, <2>2
<1>10. \A m \in S \ {n}, s \in Sides : r.child[s][m] # NULL =>
         /\ r.child[s][m] \in S \ {n} /\ r.parent[r.child[s][m]] = m
         /\ a[s][r.child[s][m]] = a[s][m]
         /\ a[Opposite(s)][r.child[s][m]] = m
  <2>1. ASSUME NEW m \in S \ {n}, NEW s \in Sides, r.child[s][m] # NULL PROVE r.child[s][m] \in Keys
    BY <2>1, <1>1, TreesAre, KeysAre
  <2> QED
    BY <1>7, <2>1, SidesAre
<1>11. /\ r.root = NULL <=> S \ {n} = {}
       /\ r.root # NULL => r.root \in S \ {n} /\ r.parent[r.root] = NULL
                           /\ \A s \in Sides : a[s][r.root] = Limits[s]
  <2>1. CASE t.root = n
    <3>1. r.root = c /\ t.parent[n] = NULL
      BY <2>1, <1>1 DEF Dropped, Shape
    <3>2. \A s \in Sides : b[s][n] = Limits[s]
      BY <2>1, <1>1 DEF Shape
    <3>3. CASE c = NULL
      <4>1. \A s \in Sides : t.child[s][n] = NULL
        BY <3>3, SidesAre
      <4>2. S \ {n} = {}
        <5> SUFFICES ASSUME NEW m \in S \ {n} PROVE FALSE
          OBVIOUS
        <5>1. \A x \in S \ {n} : x # t.root /\ t.parent[x] \in S \ {n}
          BY <2>1, <4>1, <1>1, ParentIs
        <5> QED
          BY <5>1, NoEndlessWay
      <4> QED
        BY <3>1, <3>3, <4>2
    <3>4. CASE c # NULL
      <4>1. c \in S /\ c # n /\ b[side][c] = b[side][n] /\ \A q \in Sides : q # side => b[q][c] = n
        BY <3>4, <1>5 DEF KidOf
      <4>2. \A s \in Sides : a[s][c] = Limits[s]
        BY <4>1, <3>2, <1>1, <1>2
      <4>3. r.parent[c] = NULL
        BY <4>1, <3>1, <1>1 DEF Dropped
      <4> QED
        BY <3>1, <3>4, <4>1, <4>2, <4>3
    <3> QED
      BY <3>3, <3>4
  <2>2. CASE t.root # n
    <3>1. r.root = t.root /\ t.parent[t.root] = NULL /\ \A s \in Sides : b[s][t.root] = Limits[s]
      BY <2>2, <1>1 DEF Dropped, Shape
    <3>2. t.root # c
      BY <1>1, <1>5 DEF KidOf
    <3>3. r.parent[t.root] = NULL
      BY <2>2, <3>1, <3>2, <1>1 DEF Dropped
    <3>4. \A s \in Sides : a[s][t.root] = Limits[s]
      BY <3>1, <1>1, <1>2, <1>3
    <3> QED
      BY <2>2, <3>1, <3>3, <3>4, <1>1
  <2> QED
    BY <2>1, <2>2
<1>12. r.red \subseteq S \ {n} /\ S \ {n} \subseteq Keys
  BY <1>1 DEF Dropped, Shape
<1>13. Shape(r, S \ {n}, a)
  BY <1>1, <1>2, <1>4, <1>8, <1>9, <1>10, <1>11, <1>12 DEF Shape
<1> QED
  BY <1>13

-----------------------------------------------------------------------------
(* A key that no other key of the tree is between takes the place of old.   *)
Ren(x, old, n) == IF x = old THEN n ELSE x

Renamed(t, r, old, n) ==
    /\ r \in Trees
    /\ r.red = IF old \in t.red THEN (t.red \ {old}) \cup {n} ELSE t.red
    /\ r.root = Ren(t.root, old, n)
    /\ \A s \in Sides, m \in Keys : r.child[s][m] =
          IF m = old THEN NULL ELSE Ren(t.child[s][IF m = n THEN old ELSE m], old, n)
    /\ \A m \in Keys : r.parent[m] =
          IF m = old THEN NULL ELSE Ren(t.parent[IF m = n THEN old ELSE m], old, n)

LEMMA RenameKeeps ==
    ASSUME NEW t, NEW S, NEW b, Shape(t, S, b), NEW old \in S, NEW n \in Keys, n \notin S,
           \A x \in S \ {old}, s \in Sides : Before(s, x, old) <=> Before(s, x, n),
           NEW r, Renamed(t, r, old, n)
    PROVE  \E c : Shape(r, (S \ {old}) \cup {n}, c)
<1> DEFINE U == (S \ {old}) \cup {n}
           c == [s \in Sides |-> [m \in Keys |-> Ren(b[s][IF m = n THEN old ELSE m], old, n)]]
           N(x) == Ren(x, old, n)
           O(x) == IF x = n THEN old ELSE x
<1>1. S \subseteq Keys /\ old \in Keys /\ n # NULL /\ old # NULL /\ n # old /\ NULL \notin S
      /\ n \in Int /\ old \in Int /\ t.root # NULL /\ t.root \in S /\ t \in Trees /\ r \in Trees
  BY KeysAre DEF Shape, Renamed
<1>2. /\ \A x \in S : N(x) \in U /\ O(N(x)) = x /\ x \in Keys
      /\ \A x \in U : O(x) \in S /\ N(O(x)) = x /\ x \in Keys /\ x # old
      /\ N(NULL) = NULL /\ U \subseteq Keys
      /\ \A x \in Keys : x # n /\ N(x) \in U => x \in S
  BY <1>1 DEF Ren
<1>3. /\ c \in [Sides -> [Keys -> Int]]
      /\ \A s \in Sides, m \in Keys : c[s][m] = N(b[s][O(m)])
  <2>1. \A s \in Sides, m \in Keys : b[s][O(m)] \in Int
    BY <1>1 DEF Shape
  <2>2. \A s \in Sides, m \in Keys : N(b[s][O(m)]) \in Int
    BY <2>1, <1>1 DEF Ren
  <2> QED
    BY <2>2
<1>4. /\ \A s \in Sides, m \in U : r.child[s][m] = N(t.child[s][O(m)])
      /\ \A m \in U : r.parent[m] = N(t.parent[O(m)])
  BY <1>2 DEF Renamed
<1>5. r.root = N(t.root) /\ r.root \in U
  BY <1>1, <1>2 DEF Renamed
<1>6. r.red \subseteq U
  BY <1>1 DEF Renamed, Shape
<1> HIDE DEF c
<1>7. ASSUME NEW m \in U, NEW s \in Sides
      PROVE  Before(s, c[s][m], m) /\ (c[s][m] \in U \/ c[s][m] = Limits[s])
  <2>1. PICK x \in S : x = O(m) /\ m = N(x) /\ x \in Keys /\ m \in Keys /\ x \in Int /\ m \in Int
    BY <1>2, KeysAre
  <2>2. PICK y \in Int : y = b[s][x] /\ Before(s, y, x) /\ (y \in S \/ y = Limits[s])
    BY <2>1 DEF Shape
  <2>3. c[s][m] = N(y)
    BY <2>1, <2>2, <1>3
  <2>4. Limits[s] # old /\ Before(s, Limits[s], n)
    BY <1>1, EndsAre
  <2>5. N(y) \in U \/ N(y) = Limits[s]
    BY <2>2, <2>4, <1>2 DEF Ren
  <2>6. Before(s, N(y), m)
    <3>1. CASE x = old
      <4>1. y # old
        BY <2>1, <2>2, <3>1, Order
      <4>2. m = n /\ N(y) = y
        BY <2>1, <3>1, <4>1 DEF Ren
      <4>3. y \in S => Before(s, y, n)
        BY <2>2, <3>1, <4>1
      <4> QED
        BY <2>2, <2>4, <4>2, <4>3
    <3>2. CASE x # old /\ y = old
      <4>1. m = x /\ N(y) = n
        BY <2>1, <3>2 DEF Ren
      <4>2. PICK o \in Sides : o = Opposite(s) /\ s = Opposite(o)
        BY SidesAre
      <4>3. Before(o, x, old)
        BY <2>1, <2>2, <3>2, <4>2, Order
      <4>4. Before(o, x, n)
        BY <3>2, <4>3
      <4>5. Before(s, n, x)
        BY <2>1, <4>2, <4>4, <1>1, Order
      <4> QED
        BY <4>1, <4>5
    <3>3. CASE x # old /\ y # old
      BY <2>1, <2>2, <3>3 DEF Ren
    <3> QED
      BY <3>1, <3>2, <3>3
  <2> QED
    BY <2>3, <2>5, <2>6
<1>8. ASSUME NEW m \in U, NEW s \in Sides, NEW d \in Keys, d = r.child[s][m]
      PROVE  /\ d \in U /\ r.parent[d] = m
             /\ c[s][d] = c[s][m]
             /\ \A q \in Sides : q # s => c[q][d] = m
  <2>1. PICK x \in S : x = O(m) /\ m = N(x) /\ x \in Keys /\ m \in Keys
    BY <1>2
  <2>2. PICK e : e = t.child[s][x]
    OBVIOUS
  <2>3. d = N(e)
    BY <2>1, <2>2, <1>4, <1>8
  <2>4. e \in Keys
    <3>1. e \in Node
      BY <2>1, <2>2, <1>1, TreesAre
    <3>2. e # NULL
      BY <2>3, <1>2, KeysAre
    <3> QED
      BY <3>1, <3>2, KeysAre
  <2>5. KidOf(t, S, b, x, s, e)
    BY <2>2, <2>4, KidIs
  <2>6. e \in S /\ t.parent[e] = x /\ b[s][e] = b[s][x] /\ \A q \in Sides : q # s => b[q][e] = x
    BY <2>5 DEF KidOf
  <2>7. d \in U /\ O(d) = e
    BY <2>3, <2>6, <1>2
  <2>8. r.parent[d] = m
    BY <2>1, <2>6, <2>7, <1>4
  <2>9. c[s][d] = N(b[s][e]) /\ c[s][m] = N(b[s][x]) /\ \A q \in Sides : c[q][d] = N(b[q][e])
    BY <2>1, <2>7, <1>3
  <2> QED
    BY <2>1, <2>6, <2>7, <2>8, <2>9
<1>9. ASSUME NEW m \in U, m # r.root
      PROVE  r.parent[m] \in U /\ \E s \in Sides : r.child[s][r.parent[m]] = m
  <2>1. PICK x \in S : x = O(m) /\ m = N(x)
    BY <1>2
  <2>2. x # t.root
    BY <2>1, <1>5, <1>9
  <2>3. PICK s \in Sides : t.parent[x] \in S /\ t.child[s][t.parent[x]] = x
    BY <2>2, ParentIs
  <2>4. r.parent[m] = N(t.parent[x])
    BY <2>1, <1>4
  <2>5. N(t.parent[x]) \in U /\ O(N(t.parent[x])) = t.parent[x]
    BY <2>3, <1>2
  <2>6. r.child[s][N(t.parent[x])] = N(x)
    BY <2>3, <2>5, <1>4
  <2> QED
    BY <2>1, <2>4, <2>5, <2>6
<1>10. ASSUME NEW m \in Keys \ U
       PROVE  r.parent[m] = NULL /\ \A s \in Sides : r.child[s][m] = NULL
  <2>1. CASE m = old
    BY <2>1 DEF Renamed
  <2>2. CASE m # old
    <3>1. m \notin S /\ m # n
      BY <2>2
    <3>2. t.parent[m] = NULL /\ \A s \in Sides : t.child[s][m] = NULL
      BY <3>1 DEF Shape
    <3> QED
      BY <2>2, <3>1, <3>2, <1>1 DEF Renamed, Ren
  <2> QED
    BY <2>1, <2>2
<1>11. \A m \in U, s \in Sides : r.child[s][m] # NULL =>
         /\ r.child[s][m] \in U /\ r.parent[r.child[s][m]] = m
         /\ c[s][r.child[s][m]] = c[s][m]
         /\ c[Opposite(s)][r.child[s][m]] = m
  <2>1. ASSUME NEW m \in U, NEW s \in Sides, r.child[s][m] # NULL PROVE r.child[s][m] \in Keys
    BY <2>1, <1>1, <1>2, TreesAre, KeysAre
  <2> QED
    BY <1>8, <2>1, SidesAre
<1>12. r.parent[r.root] = NULL /\ \A s \in Sides : c[s][r.root] = Limits[s]
  <2>1. t.parent[t.root] = NULL /\ \A s \in Sides : b[s][t.root] = Limits[s]
    BY <1>1 DEF Shape
  <2>2. O(r.root) = t.root /\ r.root \in Keys
    BY <1>1, <1>2, <1>5
  <2>3. r.parent[r.root] = N(NULL) /\ \A s \in Sides : c[s][r.root] = N(Limits[s])
    BY <2>1, <2>2, <1>3, <1>4, <1>5
  <2>4. \A s \in Sides : N(Limits[s]) = Limits[s]
    BY <1>1, EndsAre DEF Ren
  <2> QED
    BY <2>3, <2>4, <1>2
<1>13. r.root # NULL /\ U # {} /\ U \subseteq Keys /\ NULL \notin U
  BY <1>1, <1>2, <1>5, KeysAre
<1>14. Shape(r, U, c)
  <2> HIDE DEF U
  <2> QED
    BY <1>1, <1>3, <1>5, <1>6, <1>7, <1>9, <1>10, <1>11, <1>12, <1>13 DEF Shape
<1> QED
  BY <1>14

-----------------------------------------------------------------------------
(* The ways that the functions of the model follow.                         *)

LEMMA LastExists ==
    ASSUME NEW t, NEW S, NEW b, Shape(t, S, b), S # {}, NEW side \in Sides
    PROVE  \E g \in [Keys -> Keys] : \A m \in Keys :
              g[m] = IF t.child[side][m] = NULL THEN m ELSE g[t.child[side][m]]
<1> DEFINE E(g, m) == IF t.child[side][m] = NULL THEN m ELSE g[t.child[side][m]]
           F == [g \in [Keys -> Keys] |-> [m \in Keys |-> E(g, m)]]
           rank == Lower(S, b)
<1>1. S \subseteq Keys /\ \E v \in Keys : TRUE
  BY DEF Shape
<1>2. \A m \in Keys : t.child[side][m] # NULL =>
         t.child[side][m] \in Keys /\ rank[t.child[side][m]] < rank[m]
  <2>1. \A m \in Keys \ S : t.child[side][m] = NULL
    BY DEF Shape
  <2> QED
    BY <1>1, <2>1, RanksAre
<1>3. \A g \in [Keys -> Keys], m \in Keys : E(g, m) \in Keys
  BY <1>2
<1>4. F \in [[Keys -> Keys] -> [Keys -> Keys]]
  BY <1>3
<1>5. Span \in Nat /\ rank \in [Keys -> Nat] /\ \A m \in Keys : rank[m] <= Span
  BY <1>1, RanksAre
<1>6. \A f, g \in [Keys -> Keys] : \A x \in Keys :
         (\A y \in Keys : rank[y] < rank[x] => f[y] = g[y]) => E(f, x) = E(g, x)
  BY <1>2
<1>7. \A g \in [Keys -> Keys], m \in Keys : F[g][m] = E(g, m)
  OBVIOUS
<1> HIDE DEF F, E, rank
<1>8. \A f, g \in [Keys -> Keys] : \A x \in Keys :
         (\A y \in Keys : rank[y] < rank[x] => f[y] = g[y]) => F[f][x] = F[g][x]
  BY <1>6, <1>7
<1>9. PICK g \in [Keys -> Keys] : g = F[g]
  <2>1. Recurses(Keys, Keys, Span, rank, F)
    BY <1>1, <1>4, <1>5, <1>8 DEF Recurses
  <2> QED
    BY <2>1, Recursion
<1>10. \A m \in Keys : g[m] = E(g, m)
  BY <1>7, <1>9
<1> QED
  BY <1>10 DEF E

LEMMA OutermostIs ==
    ASSUME NEW t, NEW S, NEW b, Shape(t, S, b), NEW n \in S, NEW side \in Sides
    PROVE  LET x == Outermost(t, n, side)
           IN  /\ x \in S /\ t.child[side][x] = NULL /\ b[side][x] = b[side][n]
               /\ x # n => t.parent[x] \in S /\ t.child[side][t.parent[x]] = x
<1> DEFINE E(g, m) == IF t.child[side][m] = NULL THEN m ELSE g[t.child[side][m]]
           last == CHOOSE g : g = [m \in Keys |-> E(g, m)]
           rank == Lower(S, b)
           Fits(m) == /\ last[m] \in S /\ t.child[side][last[m]] = NULL
                      /\ b[side][last[m]] = b[side][m]
                      /\ last[m] # m =>
                            t.parent[last[m]] \in S /\ t.child[side][t.parent[last[m]]] = last[m]
           P == {m \in Keys : m \in S => Fits(m)}
<1>1. S \subseteq Keys
  BY DEF Shape
<1>2. last = [m \in Keys |-> E(last, m)]
  <2>1. PICK g \in [Keys -> Keys] : \A m \in Keys : g[m] = E(g, m)
    BY LastExists
  <2>2. g = [m \in Keys |-> E(g, m)]
    BY <2>1
  <2> HIDE DEF E
  <2> QED
    BY <2>2
<1>3. Outermost(t, n, side) = last[n]
  BY DEF Outermost
<1>4. \A m \in Keys : last[m] = E(last, m)
  <2> HIDE DEF last, E
  <2> QED
    BY <1>2
<1> HIDE DEF last
<1>5. rank \in [Keys -> Nat]
  BY RanksAre
<1>6. ASSUME NEW m \in Keys, \A y \in Keys : rank[y] < rank[m] => y \in P
      PROVE  m \in P
  <2> SUFFICES ASSUME m \in S PROVE Fits(m)
    OBVIOUS
  <2>1. CASE t.child[side][m] = NULL
    BY <1>4, <2>1
  <2>2. CASE t.child[side][m] # NULL
    <3>1. PICK c : c = t.child[side][m]
      OBVIOUS
    <3>2. c \in S /\ c \in Keys /\ rank[c] < rank[m]
      BY <1>1, <2>2, <3>1, RanksAre
    <3>3. last[m] = last[c]
      BY <1>4, <2>2, <3>1
    <3>4. Fits(c)
      BY <1>6, <3>2
    <3>5. KidOf(t, S, b, m, side, c)
      BY <3>1, <3>2, KidIs
    <3>6. b[side][c] = b[side][m] /\ t.parent[c] = m
      BY <3>5 DEF KidOf
    <3> QED
      BY <3>1, <3>3, <3>4, <3>6
  <2> QED
    BY <2>1, <2>2
<1> HIDE DEF P, rank
<1>7. Keys \subseteq P
  BY <1>5, <1>6, RankInduction
<1>8. Fits(n)
  BY <1>1, <1>7 DEF P
<1> QED
  BY <1>3, <1>8

-----------------------------------------------------------------------------
(* What rb_erase does to the links: Splice drops the node, Substitute drops *)
(* its successor, which then takes its place.                               *)

(* x becomes the child of n on side s.                                      *)
ChildSet(w, u, s, n, x) ==
    /\ u \in Trees /\ u.root = w.root /\ u.red = w.red /\ u.parent = w.parent
    /\ \A q \in Sides, m \in Keys : u.child[q][m] = IF m = n /\ q = s THEN x ELSE w.child[q][m]

LEMMA ChildSetIs ==
    ASSUME NEW w \in Trees, NEW s \in Sides, NEW n \in Keys, NEW x \in Node
    PROVE  ChildSet(w, [w EXCEPT !.child[s][n] = x], s, n, x)
<1>1. PICK f : f = w.child[s]
  OBVIOUS
<1>2. f \in [Keys -> Node]
  BY <1>1 DEF Trees
<1>3. PICK g \in [Keys -> Node] : g = [f EXCEPT ![n] = x]
  BY <1>2
<1>4. PICK k : k = [w.child EXCEPT ![s] = g]
  OBVIOUS
<1>5. k \in [Sides -> [Keys -> Node]]
  BY <1>4 DEF Trees
<1>6. PICK u : u = [w EXCEPT !.child = k]
  OBVIOUS
<1>7. u \in Trees /\ u.root = w.root /\ u.red = w.red /\ u.parent = w.parent /\ u.child = k
  BY <1>5, <1>6 DEF Trees
<1>8. \A q \in Sides, m \in Keys : k[q][m] = IF m = n /\ q = s THEN x ELSE w.child[q][m]
  BY <1>1, <1>2, <1>3, <1>4 DEF Trees
<1>9. [w EXCEPT !.child[s][n] = x] = u
  BY <1>1, <1>3, <1>4, <1>6
<1> QED
  BY <1>7, <1>8, <1>9 DEF ChildSet

Released(w, r, n) ==
    /\ r \in Trees /\ r.root = w.root /\ r.red = w.red \ {n}
    /\ \A s \in Sides, m \in Keys : r.child[s][m] = IF m = n THEN NULL ELSE w.child[s][m]
    /\ \A m \in Keys : r.parent[m] = IF m = n THEN NULL ELSE w.parent[m]

LEMMA ReleaseIs ==
    ASSUME NEW w \in Trees, NEW n \in Keys
    PROVE  Released(w, Release(w, n), n)
<1>1. "left" \in Sides /\ "right" \in Sides /\ NULL \in Node
  BY DEF Sides, Node
<1>2. PICK u : u = [w EXCEPT !.child["left"][n] = NULL]
  OBVIOUS
<1>3. ChildSet(w, u, "left", n, NULL)
  BY <1>1, <1>2, ChildSetIs
<1>4. PICK v : v = [u EXCEPT !.child["right"][n] = NULL]
  OBVIOUS
<1>5. ChildSet(u, v, "right", n, NULL)
  BY <1>1, <1>3, <1>4, ChildSetIs DEF ChildSet
<1>6. PICK x : x = [v EXCEPT !.parent[n] = NULL]
  OBVIOUS
<1>7. /\ x \in Trees /\ x.root = v.root /\ x.red = v.red /\ x.child = v.child
      /\ \A m \in Keys : x.parent[m] = IF m = n THEN NULL ELSE v.parent[m]
  BY <1>1, <1>5, <1>6 DEF ChildSet, Trees
<1>8. PICK r : r = [x EXCEPT !.red = @ \ {n}]
  OBVIOUS
<1>9. r \in Trees /\ r.root = x.root /\ r.red = x.red \ {n} /\ r.child = x.child /\ r.parent = x.parent
  BY <1>7, <1>8 DEF Trees
<1>10. Release(w, n) = r
  BY <1>2, <1>4, <1>6, <1>8 DEF Release
<1>11. Released(w, r, n)
  BY <1>3, <1>5, <1>7, <1>9 DEF ChildSet, Released, Sides
<1> QED
  BY <1>10, <1>11

LEMMA SpliceIs ==
    ASSUME NEW t, NEW S, NEW b, Shape(t, S, b), NEW n \in S, ~HasTwo(t, n)
    PROVE  \E side \in Sides :
              /\ t.child[Opposite(side)][n] = NULL
              /\ Dropped(t, Release(Splice(t, n).tree, n), n, t.child[side][n])
              /\ Splice(t, n).child = t.child[side][n]
              /\ Splice(t, n).parent = t.parent[n]
              /\ Splice(t, n).black = (n \notin t.red)
<1>1. PICK side \in Sides : side = IF t.child["left"][n] = NULL THEN "right" ELSE "left"
  BY DEF Sides
<1>2. t.child[Opposite(side)][n] = NULL
  BY <1>1 DEF HasTwo, Opposite, Sides
<1>3. PICK c : c = t.child[side][n]
  OBVIOUS
<1>4. PICK p : p = t.parent[n]
  OBVIOUS
<1>5. /\ t \in Trees /\ n \in Keys /\ c \in Node /\ p \in Node /\ n # NULL
  BY <1>3, <1>4, TreesAre, KeysAre DEF Shape
<1>6. PICK w : w = SetParent(t, c, p)
  OBVIOUS
<1>7. PICK u : u = Relink(w, p, n, c)
  OBVIOUS
<1>8. /\ Splice(t, n).tree = u /\ Splice(t, n).child = c /\ Splice(t, n).parent = p
      /\ Splice(t, n).black = (n \notin t.red)
  BY <1>1, <1>3, <1>4, <1>6, <1>7 DEF Splice
<1>9. Parented(t, w, c, p)
  BY <1>5, <1>6, ParentedIs
<1>10. Relinked(w, u, n, c)
  BY <1>4, <1>5, <1>7, <1>9, RelinkIs DEF Parented
<1>11. PICK r : r = Release(u, n)
  OBVIOUS
<1>12. Released(u, r, n)
  BY <1>5, <1>10, <1>11, ReleaseIs DEF Relinked
<1>13. /\ r.root = (IF t.root = n THEN c ELSE t.root) /\ r.red = t.red \ {n}
       /\ \A s \in Sides, m \in Keys : u.child[s][m] = IF t.child[s][m] = n THEN c ELSE t.child[s][m]
       /\ \A m \in Keys : u.parent[m] = IF m = c /\ c # NULL THEN p ELSE t.parent[m]
  BY <1>9, <1>10, <1>12 DEF Parented, Relinked, Released
<1>14. \A m \in Keys : u.parent[m] = IF m = c THEN p ELSE t.parent[m]
  BY <1>13, KeysAre
<1>15. \A m \in Keys : r.parent[m] = IF m = n THEN NULL ELSE IF m = c THEN p ELSE t.parent[m]
  BY <1>12, <1>14 DEF Released
<1>16. \A s \in Sides, m \in Keys : r.child[s][m] =
          IF m = n THEN NULL ELSE IF t.child[s][m] = n THEN c ELSE t.child[s][m]
  BY <1>12, <1>13 DEF Released
<1>17. Dropped(t, r, n, c)
  BY <1>4, <1>12, <1>13, <1>15, <1>16 DEF Dropped, Released
<1> QED
  BY <1>2, <1>3, <1>4, <1>8, <1>11, <1>17

LEMMA DropExists ==
    ASSUME NEW t \in Trees, NEW n \in Keys, NEW c \in Node
    PROVE  \E g : Dropped(t, g, n, c)
<1>1. NULL \in Node
  BY DEF Node
<1>2. PICK k \in [Sides -> [Keys -> Node]] : k =
         [s \in Sides |-> [m \in Keys |->
            IF m = n THEN NULL ELSE IF t.child[s][m] = n THEN c ELSE t.child[s][m]]]
  BY <1>1, TreesAre
<1>3. PICK h \in [Keys -> Node] : h =
         [m \in Keys |-> IF m = n THEN NULL ELSE IF m = c THEN t.parent[n] ELSE t.parent[m]]
  BY <1>1, TreesAre
<1>4. PICK g : g = [root |-> IF t.root = n THEN c ELSE t.root, child |-> k, parent |-> h,
                    red |-> t.red \ {n}]
  OBVIOUS
<1>5. g \in Trees /\ g.red = t.red \ {n} /\ g.root = (IF t.root = n THEN c ELSE t.root)
      /\ g.child = k /\ g.parent = h
  BY <1>4 DEF Trees
<1> QED
  BY <1>2, <1>3, <1>5 DEF Dropped

-----------------------------------------------------------------------------
(* Every key of the tree between the bounds of n is below n.                *)
Inside(b, n, k) == \A s \in Sides : Before(s, b[s][n], k)

LEMMA SideIs ==
    ASSUME NEW k \in Int, NEW n \in Int, k # n, NEW s \in Sides
    PROVE  SideOf(k, n) \in Sides /\ (Before(s, k, n) <=> SideOf(k, n) = s)
  BY DEF SideOf, Before, Sides

LEMMA InsideUp ==
    ASSUME NEW t, NEW S, NEW b, Shape(t, S, b), NEW n \in S, NEW s \in Sides, NEW c \in Keys,
           c = t.child[s][n], NEW k \in Int, Inside(b, c, k)
    PROVE  Inside(b, n, k) /\ k # n /\ SideOf(k, n) = s
<1>1. KidOf(t, S, b, n, s, c)
  BY KidIs
<1>2. PICK o \in Sides : o = Opposite(s) /\ s = Opposite(o) /\ o # s /\ \A r \in Sides : r = s \/ r = o
  BY SidesAre
<1>3. b[s][c] = b[s][n] /\ b[o][c] = n /\ n \in Int /\ b[o][n] \in Int /\ Before(o, b[o][n], n)
  BY <1>1, <1>2, KeysAre DEF KidOf, Shape
<1>4. Before(s, b[s][n], k) /\ Before(o, n, k)
  BY <1>2, <1>3 DEF Inside
<1>5. Before(o, b[o][n], k)
  BY <1>3, <1>4, Order
<1>6. k # n /\ Before(s, k, n)
  BY <1>2, <1>3, <1>4, Order
<1> QED
  BY <1>2, <1>3, <1>4, <1>5, <1>6, SideIs DEF Inside

(* k and what is above it.                                                  *)
Way(t, S, k) ==
    {a \in S : \A X \in SUBSET S :
        k \in X /\ (\A x \in X : t.parent[x] # NULL => t.parent[x] \in X) => a \in X}

LEMMA AboveKept ==
    ASSUME NEW t, NEW S, NEW b, Shape(t, S, b), NEW k \in S
    PROVE  /\ k \in Way(t, S, k) /\ t.root \in Way(t, S, k) /\ Way(t, S, k) \subseteq S
           /\ \A a \in Way(t, S, k) : a # k =>
                 t.child[SideOf(k, a)][a] \in Way(t, S, k)
<1> DEFINE U == Way(t, S, k)
           Closed(X) == k \in X /\ \A x \in X : t.parent[x] # NULL => t.parent[x] \in X
<1>1. k \in U /\ U \subseteq S
  BY DEF Way
<1>2. ASSUME NEW X \in SUBSET S, Closed(X) PROVE U \subseteq X
  BY <1>2 DEF Way
<1>3. ASSUME NEW a \in U, t.parent[a] # NULL PROVE t.parent[a] \in U
  <2>1. t.parent[a] \in S
    BY <1>1, <1>3, ParentIs
  <2>2. ASSUME NEW X \in SUBSET S, Closed(X) PROVE t.parent[a] \in X
    BY <1>2, <1>3, <2>2
  <2> QED
    BY <2>1, <2>2 DEF Way
<1>4. S \subseteq Keys /\ S \subseteq Int /\ t.root \in S
  BY KeysAre DEF Shape
<1>5. ASSUME NEW X \in SUBSET S, Closed(X) PROVE t.root \in X
  <2> SUFFICES ASSUME t.root \notin X PROVE FALSE
    OBVIOUS
  <2>1. \A x \in X : x # t.root /\ t.parent[x] \in X
    BY <1>5, ParentIs
  <2> QED
    BY <1>5, <2>1, NoEndlessWay
<1>6. t.root \in U
  BY <1>4, <1>5 DEF Way
<1> DEFINE X == {a \in U : Inside(b, a, k)}
           Y == {a \in U : a = k \/ t.child[SideOf(k, a)][a] \in U}
<1>7. ASSUME NEW a \in U, t.parent[a] # NULL
      PROVE  \E s \in Sides : a = t.child[s][t.parent[a]] /\ t.parent[a] \in S
  BY <1>1, <1>7, ParentIs
<1> HIDE DEF U
<1>8. U \subseteq X
  <2>1. k \in X
    BY <1>1 DEF Shape, Inside
  <2>2. ASSUME NEW a \in X, t.parent[a] # NULL PROVE t.parent[a] \in X
    <3>1. PICK s \in Sides : a = t.child[s][t.parent[a]] /\ t.parent[a] \in S
      BY <1>7, <2>2
    <3>2. Inside(b, t.parent[a], k)
      BY <1>1, <1>4, <3>1, InsideUp
    <3> QED
      BY <1>3, <2>2, <3>2
  <2>3. X \in SUBSET S /\ Closed(X)
    BY <1>1, <2>1, <2>2
  <2> HIDE DEF X, Closed
  <2> QED
    BY <1>2, <2>3
<1>9. U \subseteq Y
  <2>1. ASSUME NEW a \in Y, t.parent[a] # NULL PROVE t.parent[a] \in Y
    <3>1. PICK s \in Sides : a = t.child[s][t.parent[a]] /\ t.parent[a] \in S
      BY <1>7, <2>1
    <3>2. Inside(b, a, k)
      BY <1>8
    <3>3. SideOf(k, t.parent[a]) = s
      BY <1>1, <1>4, <3>1, <3>2, InsideUp
    <3> QED
      BY <1>3, <2>1, <3>1, <3>3
  <2>2. Y \in SUBSET S /\ Closed(Y)
    BY <1>1, <2>1
  <2> HIDE DEF Y, Closed
  <2> QED
    BY <1>2, <2>2
<1> QED
  BY <1>1, <1>6, <1>9 DEF U

LEMMA Within ==
    ASSUME NEW t, NEW S, NEW b, Shape(t, S, b), NEW k \in S, NEW n \in S, k # n, Inside(b, n, k)
    PROVE  t.child[SideOf(k, n)][n] \in S
<1> DEFINE U == Way(t, S, k)
           rank == Upper(S, b)
           P == {m \in Keys : m \in S /\ Inside(b, m, k) => m \in U}
<1>1. S \subseteq Keys /\ k \in Int /\ S # {}
  BY KeysAre DEF Shape
<1>2. t.root \in U /\ U \subseteq S /\ \A a \in U : a # k => t.child[SideOf(k, a)][a] \in U
  BY AboveKept
<1>3. rank \in [Keys -> Nat] /\ \A m \in S : t.parent[m] # NULL => rank[t.parent[m]] < rank[m]
  BY RanksAre
<1> HIDE DEF U, rank
<1>4. ASSUME NEW m \in Keys, \A y \in Keys : rank[y] < rank[m] => y \in P
      PROVE  m \in P
  <2> SUFFICES ASSUME m \in S, Inside(b, m, k) PROVE m \in U
    OBVIOUS
  <2>1. CASE m = t.root
    BY <1>2, <2>1
  <2>2. CASE m # t.root
    <3>1. PICK p \in S, s \in Sides : p = t.parent[m] /\ t.child[s][p] = m
      BY <2>2, ParentIs
    <3>2. Inside(b, p, k) /\ k # p /\ SideOf(k, p) = s
      BY <3>1, <1>1, InsideUp
    <3>3. p \in U
      <4>1. rank[p] < rank[m] /\ p \in Keys
        BY <1>1, <1>3, <2>2, <3>1, ParentIs
      <4> QED
        BY <1>4, <3>2, <4>1
    <3> QED
      BY <1>2, <3>1, <3>2, <3>3
  <2> QED
    BY <2>1, <2>2
<1> HIDE DEF P
<1>5. Keys \subseteq P
  BY <1>3, <1>4, RankInduction
<1>6. n \in U
  BY <1>1, <1>5 DEF P
<1> QED
  BY <1>2, <1>6

(* No key of the tree is between n and its bound on a side without child.   *)
LEMMA Gap ==
    ASSUME NEW t, NEW S, NEW b, Shape(t, S, b), NEW n \in S, NEW s \in Sides,
           t.child[s][n] = NULL, NEW k \in S
    PROVE  ~(Before(s, k, n) /\ Before(s, b[s][n], k))
<1> SUFFICES ASSUME Before(s, k, n), Before(s, b[s][n], k) PROVE FALSE
  OBVIOUS
<1>1. k \in Int /\ n \in Int /\ NULL \notin S
  BY KeysAre DEF Shape
<1>2. PICK o \in Sides : o = Opposite(s) /\ s = Opposite(o) /\ \A r \in Sides : r = s \/ r = o
  BY SidesAre
<1>3. Before(o, b[o][n], n) /\ b[o][n] \in Int
  BY <1>2, KeysAre DEF Shape
<1>4. Before(o, n, k)
  BY <1>1, <1>2, Order
<1>5. Before(o, b[o][n], k)
  BY <1>1, <1>3, <1>4, Order
<1>6. Inside(b, n, k) /\ k # n
  BY <1>1, <1>2, <1>5, Order DEF Inside
<1>7. SideOf(k, n) = s
  BY <1>1, <1>6, SideIs
<1> QED
  BY <1>1, <1>6, <1>7, Within

(* The successor of a node with two children.                               *)
LEMMA SuccessorIs ==
    ASSUME NEW t, NEW S, NEW b, Shape(t, S, b), NEW old \in S,
           NEW L \in Keys, L = t.child["left"][old], NEW R \in Keys, R = t.child["right"][old],
           NEW n, n = Outermost(t, R, "left"), NEW c, c = t.child["right"][n],
           NEW p, p = t.parent[n]
    PROVE  /\ n \in S /\ n # old /\ n # L /\ n # t.root /\ L # old /\ R # old
           /\ L \in S /\ R \in S /\ L # R /\ L # c /\ R # c /\ c # old /\ c # n
           /\ t.child["left"][n] = NULL /\ b["left"][n] = old
           /\ p \in S /\ p # n /\ (p = old <=> n = R)
           /\ \A m \in Keys, s \in Sides : t.child[s][m] = n =>
                 m = p /\ IF n = R THEN s = "right" ELSE s = "left"
           /\ n # R => t.child["left"][p] = n
           /\ \A m \in Keys : t.parent[m] = old => m = L \/ m = R
           /\ \A m \in Keys : t.parent[m] = n => m = c
           /\ c # NULL => c \in S /\ t.parent[c] = n
<1>1. "left" \in Sides /\ "right" \in Sides /\ "left" # "right" /\ \A s \in Sides : s = "left" \/ s = "right"
  BY DEF Sides
<1>2. S \subseteq Keys /\ NULL \notin Keys /\ old \in Keys /\ old \in Int /\ NULL \notin S
  BY KeysAre DEF Shape
<1>3. KidOf(t, S, b, old, "left", L) /\ KidOf(t, S, b, old, "right", R)
  BY <1>1, KidIs
<1>4. /\ L \in S /\ L # old /\ t.parent[L] = old /\ b["left"][L] = b["left"][old]
      /\ Before("left", L, old)
  BY <1>3 DEF KidOf
<1>5. /\ R \in S /\ R # old /\ t.parent[R] = old /\ b["left"][R] = old
      /\ \A m \in S, s \in Sides : t.child[s][m] = R => m = old /\ s = "right"
  BY <1>1, <1>3 DEF KidOf
<1>6. /\ n \in S /\ t.child["left"][n] = NULL /\ b["left"][n] = b["left"][R]
      /\ n # R => p \in S /\ t.child["left"][p] = n
  BY <1>1, <1>5, OutermostIs
<1>7. n \in Keys /\ n \in Int /\ Before("left", old, n)
  BY <1>1, <1>2, <1>5, <1>6, KeysAre DEF Shape
<1>8. n # old /\ n # L /\ ~Before("left", n, old)
  BY <1>1, <1>2, <1>4, <1>7, Order
<1>9. L # R
  BY <1>1, <1>3 DEF KidOf
<1>10. p \in S /\ p # n /\ n # t.root
  <2>1. CASE n = R
    BY <2>1, <1>3, <1>5 DEF KidOf
  <2>2. CASE n # R
    <3>1. KidOf(t, S, b, p, "left", n)
      BY <1>1, <1>6, <1>7, <2>2, KidIs
    <3> QED
      BY <2>2, <3>1, <1>6 DEF KidOf
  <2> QED
    BY <2>1, <2>2
<1>11. p = old <=> n = R
  BY <1>5, <1>6, <1>8
<1>12. ASSUME NEW m \in Keys, NEW s \in Sides, t.child[s][m] = n
       PROVE  m = p /\ IF n = R THEN s = "right" ELSE s = "left"
  <2>1. m \in S
    BY <1>7, <1>2, <1>12 DEF Shape
  <2>2. CASE n = R
    BY <1>5, <1>11, <1>12, <2>1, <2>2
  <2>3. CASE n # R
    <3>1. KidOf(t, S, b, p, "left", n)
      BY <1>1, <1>6, <1>7, <2>3, KidIs
    <3> QED
      BY <1>12, <2>1, <2>3, <3>1 DEF KidOf
  <2> QED
    BY <2>2, <2>3
<1>13. ASSUME NEW m \in Keys, NEW x \in S, t.parent[m] = x
       PROVE  \E s \in Sides : m = t.child[s][x]
  <2>1. m \in S /\ m # t.root
    BY <1>2, <1>13 DEF Shape
  <2> QED
    BY <2>1, <1>13, ParentIs
<1>14. \A m \in Keys : t.parent[m] = old => m = L \/ m = R
  BY <1>1, <1>13
<1>15. \A m \in Keys : t.parent[m] = n => m = c
  BY <1>1, <1>2, <1>6, <1>13
<1>16. CASE c = NULL
  BY <1>2, <1>4, <1>5, <1>6, <1>7, <1>8, <1>9, <1>10, <1>11, <1>12, <1>14, <1>15, <1>16
<1>17. CASE c # NULL
  <2>1. c \in Keys
    BY <1>1, <1>7, <1>17, TreesAre, KeysAre DEF Shape
  <2>2. KidOf(t, S, b, n, "right", c)
    BY <1>1, <1>6, <2>1, KidIs
  <2>3. c \in S /\ c # n /\ t.parent[c] = n /\ b["left"][c] = n
    BY <1>1, <2>2 DEF KidOf
  <2>4. c # L /\ c # R
    BY <1>4, <1>5, <1>8, <2>3
  <2>5. Before("left", n, c)
    <3>1. Before("left", b["left"][c], c)
      BY <1>1, <2>3 DEF Shape
    <3> QED
      BY <2>3, <3>1
  <2>6. c # old
    BY <1>8, <2>5
  <2> QED
    BY <1>4, <1>5, <1>6, <1>8, <1>9, <1>10, <1>11, <1>12, <1>14, <1>15, <2>3, <2>4, <2>6
<1> QED
  BY <1>16, <1>17

LEMMA SubstituteIs ==
    ASSUME NEW t, NEW S, NEW b, Shape(t, S, b), NEW old \in S, HasTwo(t, old)
    PROVE  \E n \in S : \E g :
              /\ n # old /\ t.child["left"][n] = NULL /\ b["left"][n] = old
              /\ t.child["right"][n] # old
              /\ Dropped(t, g, n, t.child["right"][n])
              /\ Renamed(g, Release(Substitute(t, old).tree, old), old, n)
              /\ Substitute(t, old).child = t.child["right"][n]
              /\ Substitute(t, old).parent = Ren(t.parent[n], old, n)
              /\ Substitute(t, old).black = (n \notin t.red)
<1>1. "left" \in Sides /\ "right" \in Sides /\ "left" # "right" /\ \A s \in Sides : s = "left" \/ s = "right"
  BY DEF Sides
<1>2. /\ S \subseteq Keys /\ NULL \notin Keys /\ NULL \notin S /\ t \in Trees /\ old \in Keys
      /\ Keys \subseteq Node /\ NULL \in Node
  BY KeysAre DEF Shape
<1>3. PICK L \in Keys : L = t.child["left"][old]
  <2>1. t.child["left"][old] # NULL
    BY <1>1 DEF HasTwo
  <2>2. t.child["left"][old] \in Node
    BY <1>1, <1>2, TreesAre
  <2> QED
    BY <2>1, <2>2, KeysAre
<1>4. PICK R \in Keys : R = t.child["right"][old]
  <2>1. t.child["right"][old] # NULL
    BY <1>1 DEF HasTwo
  <2>2. t.child["right"][old] \in Node
    BY <1>1, <1>2, TreesAre
  <2> QED
    BY <2>1, <2>2, KeysAre
<1>5. PICK n : n = Outermost(t, R, "left")
  OBVIOUS
<1>6. PICK c : c = t.child["right"][n]
  OBVIOUS
<1>7. PICK p : p = t.parent[n]
  OBVIOUS
<1>8. PICK q : q = t.parent[old]
  OBVIOUS
<1>9. /\ n \in S /\ n # old /\ n # L /\ n # t.root /\ L # old /\ R # old
      /\ L \in S /\ R \in S /\ L # R /\ L # c /\ R # c /\ c # old /\ c # n
      /\ t.child["left"][n] = NULL /\ b["left"][n] = old
      /\ p \in S /\ p # n /\ (p = old <=> n = R)
      /\ \A m \in Keys, s \in Sides : t.child[s][m] = n =>
            m = p /\ IF n = R THEN s = "right" ELSE s = "left"
      /\ n # R => t.child["left"][p] = n
      /\ \A m \in Keys : t.parent[m] = old => m = L \/ m = R
      /\ \A m \in Keys : t.parent[m] = n => m = c
      /\ c # NULL => c \in S /\ t.parent[c] = n
  BY <1>3, <1>4, <1>5, <1>6, <1>7, SuccessorIs
<1>10. n \in Keys /\ p \in Keys /\ c \in Node /\ q \in Node /\ L \in Node /\ R \in Node /\ n \in Node /\ p \in Node
  BY <1>1, <1>2, <1>6, <1>8, <1>9, TreesAre
<1>11. PICK placed : placed = Relink(t, q, old, n)
  OBVIOUS
<1>12. Relinked(t, placed, old, n)
  BY <1>2, <1>8, <1>10, <1>11, RelinkIs
<1>13. PICK left : left =
          IF p = old THEN placed
          ELSE LET u == [SetParent(placed, c, p) EXCEPT !.child["left"][p] = c, !.child["right"][n] = R]
               IN SetParent(u, R, n)
  OBVIOUS
<1>14. /\ left \in Trees /\ left.red = t.red /\ left.root = IF t.root = old THEN n ELSE t.root
       /\ \A s \in Sides, m \in Keys : left.child[s][m] =
             IF p # old /\ m = n /\ s = "right" THEN R
             ELSE IF p # old /\ m = p /\ s = "left" THEN c
             ELSE IF t.child[s][m] = old THEN n ELSE t.child[s][m]
       /\ \A m \in Keys : left.parent[m] =
             IF p # old /\ m = R THEN n ELSE IF p # old /\ m = c THEN p ELSE t.parent[m]
  <2>1. CASE p = old
    BY <2>1, <1>12, <1>13 DEF Relinked
  <2>2. CASE p # old
    <3>1. PICK w : w = SetParent(placed, c, p)
      OBVIOUS
    <3>2. Parented(placed, w, c, p)
      BY <1>10, <1>12, <3>1, ParentedIs DEF Relinked
    <3>3. PICK x : x = [w EXCEPT !.child["left"][p] = c]
      OBVIOUS
    <3>4. ChildSet(w, x, "left", p, c)
      BY <1>1, <1>10, <3>2, <3>3, ChildSetIs DEF Parented
    <3>5. PICK y : y = [x EXCEPT !.child["right"][n] = R]
      OBVIOUS
    <3>6. ChildSet(x, y, "right", n, R)
      <4>1. x \in Trees
        BY <3>4 DEF ChildSet
      <4> QED
        BY <1>1, <1>10, <3>5, <4>1, ChildSetIs
    <3>7. left = SetParent(y, R, n)
      BY <1>13, <2>2, <3>1, <3>3, <3>5
    <3>8. Parented(y, left, R, n)
      BY <1>10, <3>6, <3>7, ParentedIs DEF ChildSet
    <3>9. /\ left \in Trees /\ left.red = t.red /\ left.root = IF t.root = old THEN n ELSE t.root
      BY <1>12, <3>2, <3>4, <3>6, <3>8 DEF Relinked, Parented, ChildSet
    <3>10. ASSUME NEW m \in Keys
           PROVE  left.parent[m] = IF m = R THEN n ELSE IF m = c THEN p ELSE t.parent[m]
      <4>1. m # NULL /\ R # NULL
        BY <1>2
      <4>2. left.parent[m] = IF m = R THEN n ELSE y.parent[m]
        BY <3>8, <4>1 DEF Parented
      <4>3. y.parent[m] = w.parent[m]
        BY <3>4, <3>6 DEF ChildSet
      <4>4. w.parent[m] = IF m = c THEN p ELSE t.parent[m]
        BY <3>2, <4>1, <1>12 DEF Parented, Relinked
      <4> QED
        BY <4>2, <4>3, <4>4
    <3>11. ASSUME NEW s \in Sides, NEW m \in Keys
           PROVE  left.child[s][m] =
             IF m = n /\ s = "right" THEN R ELSE IF m = p /\ s = "left" THEN c
             ELSE IF t.child[s][m] = old THEN n ELSE t.child[s][m]
      <4>1. left.child[s][m] = y.child[s][m]
        BY <3>8 DEF Parented
      <4>2. y.child[s][m] = IF m = n /\ s = "right" THEN R ELSE x.child[s][m]
        BY <3>6 DEF ChildSet
      <4>3. x.child[s][m] = IF m = p /\ s = "left" THEN c ELSE placed.child[s][m]
        BY <3>2, <3>4 DEF ChildSet, Parented
      <4>4. placed.child[s][m] = IF t.child[s][m] = old THEN n ELSE t.child[s][m]
        BY <1>12 DEF Relinked
      <4> QED
        BY <4>1, <4>2, <4>3, <4>4
    <3> QED
      BY <2>2, <3>9, <3>10, <3>11
  <2> QED
    BY <2>1, <2>2
<1>15. PICK painted : painted = Paint(left, n, old)
  OBVIOUS
<1>16. /\ painted \in Trees /\ painted.root = left.root /\ painted.child = left.child
       /\ painted.parent = left.parent
       /\ painted.red = IF old \in t.red THEN t.red \cup {n} ELSE t.red \ {n}
  BY <1>10, <1>14, <1>15 DEF Paint, Redden, Blacken, Trees
<1>17. PICK v : v = [painted EXCEPT !.parent[n] = q]
  OBVIOUS
<1>18. /\ v \in Trees /\ v.root = painted.root /\ v.child = painted.child /\ v.red = painted.red
       /\ \A m \in Keys : v.parent[m] = IF m = n THEN q ELSE painted.parent[m]
  BY <1>10, <1>16, <1>17 DEF Trees
<1>19. PICK over : over = [v EXCEPT !.child["left"][n] = L]
  OBVIOUS
<1>20. ChildSet(v, over, "left", n, L)
  BY <1>1, <1>10, <1>18, <1>19, ChildSetIs
<1>21. PICK z : z = SetParent(over, L, n)
  OBVIOUS
<1>22. Parented(over, z, L, n)
  BY <1>10, <1>20, <1>21, ParentedIs DEF ChildSet
<1>23. /\ Substitute(t, old).tree = z /\ Substitute(t, old).child = c
       /\ Substitute(t, old).parent = Ren(p, old, n) /\ Substitute(t, old).black = (n \notin t.red)
  <2>1. over = [painted EXCEPT !.parent[n] = q, !.child["left"][n] = L]
    BY <1>17, <1>19
  <2>2. Substitute(t, old).tree =
          SetParent([Paint(left, n, old) EXCEPT !.parent[n] = q, !.child["left"][n] = L], L, n)
    <3> DEFINE Left(place, x, y, up, right) ==
                 IF up = old THEN place
                 ELSE LET u == [SetParent(place, y, up)
                                  EXCEPT !.child["left"][up] = y, !.child["right"][x] = right]
                      IN SetParent(u, right, x)
               Over(tr, x, up, below) ==
                 SetParent([Paint(tr, x, old) EXCEPT !.parent[x] = up, !.child["left"][x] = below], below, x)
               First == Outermost(t, t.child["right"][old], "left")
    <3>1. Substitute(t, old).tree =
             Over(Left(Relink(t, t.parent[old], old, First), First, t.child["right"][First],
                       t.parent[First], t.child["right"][old]),
                  First, t.parent[old], t.child["left"][old])
      BY DEF Substitute
    <3>2. left = Left(placed, n, c, p, R)
      BY <1>13
    <3>3. First = n
      BY <1>4, <1>5
    <3> HIDE DEF Left, Over, First
    <3>4. Substitute(t, old).tree = Over(left, n, q, L)
      BY <3>1, <3>2, <3>3, <1>3, <1>4, <1>6, <1>7, <1>8, <1>11
    <3> QED
      BY <3>4 DEF Over
  <2>3. Substitute(t, old).child = c
    BY <1>4, <1>5, <1>6 DEF Substitute
  <2>4. Substitute(t, old).parent = Ren(p, old, n)
    BY <1>4, <1>5, <1>7 DEF Substitute, Ren
  <2>5. Substitute(t, old).black = (n \notin t.red)
    BY <1>4, <1>5 DEF Substitute
  <2> QED
    BY <2>1, <2>2, <2>3, <2>4, <2>5, <1>15, <1>21
<1>24. PICK r : r = Release(z, old)
  OBVIOUS
<1>25. Released(z, r, old)
  BY <1>2, <1>22, <1>24, ReleaseIs DEF Parented
<1>26. r \in Trees /\ r.root = (IF t.root = old THEN n ELSE t.root) /\ r.red = (painted.red \ {old})
  BY <1>14, <1>16, <1>18, <1>20, <1>22, <1>25 DEF ChildSet, Parented, Released
<1>27. ASSUME NEW s \in Sides, NEW m \in Keys
       PROVE  r.child[s][m] = IF m = old THEN NULL ELSE IF m = n /\ s = "left" THEN L ELSE left.child[s][m]
  <2>1. r.child[s][m] = IF m = old THEN NULL ELSE z.child[s][m]
    BY <1>25 DEF Released
  <2>2. z.child[s][m] = over.child[s][m]
    BY <1>22 DEF Parented
  <2>3. over.child[s][m] = IF m = n /\ s = "left" THEN L ELSE left.child[s][m]
    BY <1>16, <1>18, <1>20 DEF ChildSet
  <2> QED
    BY <2>1, <2>2, <2>3
<1>28. ASSUME NEW m \in Keys
       PROVE  r.parent[m] = IF m = old THEN NULL ELSE IF m = L THEN n ELSE IF m = n THEN q ELSE left.parent[m]
  <2>1. r.parent[m] = IF m = old THEN NULL ELSE z.parent[m]
    BY <1>25 DEF Released
  <2>2. z.parent[m] = IF m = L THEN n ELSE over.parent[m]
    BY <1>2, <1>22 DEF Parented
  <2>3. over.parent[m] = IF m = n THEN q ELSE left.parent[m]
    BY <1>16, <1>18, <1>20 DEF ChildSet
  <2> QED
    BY <2>1, <2>2, <2>3
<1>29. PICK g : Dropped(t, g, n, c)
  BY <1>2, <1>10, DropExists
<1>30. ASSUME NEW s \in Sides, NEW m \in Keys
       PROVE  r.child[s][m] = IF m = old THEN NULL ELSE Ren(g.child[s][IF m = n THEN old ELSE m], old, n)
  <2>0. /\ \A x \in Keys : g.child[s][x] = IF x = n THEN NULL ELSE IF t.child[s][x] = n THEN c ELSE t.child[s][x]
    BY <1>29 DEF Dropped
  <2>1. left.child[s][m] =
             IF p # old /\ m = n /\ s = "right" THEN R
             ELSE IF p # old /\ m = p /\ s = "left" THEN c
             ELSE IF t.child[s][m] = old THEN n ELSE t.child[s][m]
    BY <1>14
  <2>2. CASE m = old
    BY <1>27, <2>2
  <2>3. CASE m = n /\ s = "left"
    <3>1. r.child[s][m] = L
      BY <1>27, <2>3, <1>9
    <3>2. g.child[s][old] = L
      BY <2>0, <2>3, <1>2, <1>3, <1>9
    <3> QED
      BY <3>1, <3>2, <2>3, <1>9 DEF Ren
  <2>4. CASE m = n /\ s = "right"
    <3>1. r.child[s][m] = IF p # old THEN R ELSE c
      BY <1>27, <2>1, <2>4, <1>1, <1>6, <1>9
    <3>2. g.child[s][old] = IF n = R THEN c ELSE R
      BY <2>0, <2>4, <1>2, <1>4, <1>9
    <3> QED
      BY <3>1, <3>2, <2>4, <1>9 DEF Ren
  <2>5. CASE m # n /\ m # old
    <3>1. r.child[s][m] = IF p # old /\ m = p /\ s = "left" THEN c
                          ELSE IF t.child[s][m] = old THEN n ELSE t.child[s][m]
      BY <1>27, <2>1, <2>5
    <3>2. t.child[s][m] = n <=> p # old /\ m = p /\ s = "left"
      BY <1>9, <2>5
    <3>3. g.child[s][m] = IF t.child[s][m] = n THEN c ELSE t.child[s][m]
      BY <2>0, <2>5
    <3> QED
      BY <3>1, <3>2, <3>3, <2>5, <1>9 DEF Ren
  <2> QED
    BY <2>2, <2>3, <2>4, <2>5, <1>1
<1>31. ASSUME NEW m \in Keys
       PROVE  r.parent[m] = IF m = old THEN NULL ELSE Ren(g.parent[IF m = n THEN old ELSE m], old, n)
  <2>0. /\ \A x \in Keys : g.parent[x] = IF x = n THEN NULL ELSE IF x = c THEN p ELSE t.parent[x]
    BY <1>7, <1>29 DEF Dropped
  <2>1. left.parent[m] =
             IF p # old /\ m = R THEN n ELSE IF p # old /\ m = c THEN p ELSE t.parent[m]
    BY <1>14
  <2>2. t.parent[L] = old /\ t.parent[R] = old /\ q # old
    <3>1. L # NULL /\ R # NULL
      BY <1>2
    <3>2. t.parent[L] = old /\ t.parent[R] = old
      BY <1>1, <1>3, <1>4, <3>1 DEF Shape
    <3>3. q # old
      BY <1>8, <1>2, <1>9
    <3> QED
      BY <3>2, <3>3
  <2>3. CASE m = old
    BY <1>28, <2>3
  <2>4. CASE m = n
    <3>1. r.parent[m] = q
      BY <1>28, <2>4, <1>9
    <3>2. g.parent[old] = q
      BY <2>0, <1>2, <1>8, <1>9
    <3> QED
      BY <3>1, <3>2, <2>2, <2>4, <1>9 DEF Ren
  <2>5. CASE m = L
    <3>1. r.parent[m] = n
      BY <1>28, <2>5, <1>9
    <3>2. g.parent[m] = old
      BY <2>0, <2>2, <2>5, <1>9
    <3> QED
      BY <3>1, <3>2, <2>5, <1>9 DEF Ren
  <2>6. CASE m = R /\ m # n
    <3>1. r.parent[m] = n
      BY <1>28, <2>1, <2>6, <1>9
    <3>2. g.parent[m] = old
      BY <2>0, <2>2, <2>6, <1>9
    <3> QED
      BY <3>1, <3>2, <2>6, <1>9 DEF Ren
  <2>7. CASE m = c
    <3>1. r.parent[m] = IF p # old THEN p ELSE n
      BY <1>2, <1>28, <2>1, <2>7, <1>9
    <3>2. g.parent[m] = p
      BY <2>0, <2>7, <1>9
    <3> QED
      BY <3>1, <3>2, <2>7, <1>9 DEF Ren
  <2>8. CASE m \notin {old, n, L, R, c}
    <3>1. r.parent[m] = t.parent[m]
      BY <1>28, <2>1, <2>8
    <3>2. g.parent[m] = t.parent[m] /\ t.parent[m] # old
      BY <2>0, <2>8, <1>9
    <3> QED
      BY <3>1, <3>2, <2>8 DEF Ren
  <2> QED
    BY <2>3, <2>4, <2>5, <2>6, <2>7, <2>8
<1>32. /\ g.red = t.red \ {n} /\ g.root = t.root
  BY <1>9, <1>29 DEF Dropped
<1>33. /\ r.red = IF old \in g.red THEN (g.red \ {old}) \cup {n} ELSE g.red
       /\ r.root = Ren(g.root, old, n)
  BY <1>9, <1>16, <1>26, <1>32 DEF Ren
<1>34. Renamed(g, r, old, n)
  BY <1>26, <1>30, <1>31, <1>33 DEF Renamed
<1> QED
  BY <1>6, <1>7, <1>9, <1>23, <1>24, <1>29, <1>34

-----------------------------------------------------------------------------
(* The way down of map_find and map_insert.                                 *)
LEMMA SearchIs ==
    ASSUME NEW t, NEW S, NEW b, Shape(t, S, b), NEW k \in Keys
    PROVE  /\ k \in S => Search(t, k).node = k
           /\ k \notin S => Search(t, k).node = NULL
           /\ S = {} => Search(t, k).parent = NULL
           /\ S # {} /\ k \notin S =>
                \E p \in S : /\ Search(t, k).parent = p /\ p # k /\ Inside(b, p, k)
                             /\ t.child[SideOf(k, p)][p] = NULL
<1>1. S \subseteq Keys /\ k \in Int /\ k # NULL /\ t \in Trees /\ \A m \in Keys : m \in Int
  BY KeysAre DEF Shape
<1>2. CASE S = {}
  <2>1. t.root = NULL
    BY <1>2 DEF Shape
  <2> QED
    BY <1>2, <2>1 DEF Search
<1>3. CASE S # {}
  <2> DEFINE V == [node : Node, parent : Node]
             m(n) == t.child[SideOf(k, n)][n]
             E(g, n) == IF n = k THEN [node |-> n, parent |-> t.parent[n]]
                        ELSE IF m(n) = NULL THEN [node |-> NULL, parent |-> n]
                        ELSE g[m(n)]
             F == [g \in [Keys -> V] |-> [n \in Keys |-> E(g, n)]]
             rank == Lower(S, b)
             down == CHOOSE g : g = [n \in Keys |-> E(g, n)]
  <2>1. \A n \in Keys : n # k => SideOf(k, n) \in Sides
    BY <1>1, SideIs DEF Sides
  <2>2. \A n \in Keys : n # k /\ m(n) # NULL => n \in S /\ m(n) \in S /\ rank[m(n)] < rank[n]
    <3>1. \A n \in Keys \ S, s \in Sides : t.child[s][n] = NULL
      BY DEF Shape
    <3> QED
      BY <2>1, <3>1, RanksAre
  <2>3. /\ \A n \in Keys : t.parent[n] \in Node /\ n \in Node /\ NULL \in Node
    BY <1>1, TreesAre, KeysAre
  <2>4. \A g \in [Keys -> V], n \in Keys : E(g, n) \in V
    BY <2>2, <2>3, <1>1
  <2>5. F \in [[Keys -> V] -> [Keys -> V]]
    <3> HIDE DEF E, V
    <3> QED
      BY <2>4
  <2>6. Span \in Nat /\ rank \in [Keys -> Nat] /\ \A n \in Keys : rank[n] <= Span
    BY <1>1, <1>3, RanksAre
  <2>7. \A f, g \in [Keys -> V] : \A x \in Keys :
           (\A y \in Keys : rank[y] < rank[x] => f[y] = g[y]) => E(f, x) = E(g, x)
    BY <1>1, <2>2
  <2>8. \A g \in [Keys -> V], n \in Keys : F[g][n] = E(g, n)
    OBVIOUS
  <2>9. V # {}
    <3>1. [node |-> NULL, parent |-> NULL] \in V
      BY <2>3 DEF Node
    <3> QED
      BY <3>1
  <2>10. \A g : g = [n \in Keys |-> E(g, n)] => \A n \in Keys : g[n] = E(g, n)
    <3> HIDE DEF E
    <3> QED
      OBVIOUS
  <2>11. Search(t, k) = IF t.root = NULL THEN [node |-> NULL, parent |-> NULL] ELSE down[t.root]
    BY DEF Search
  <2> HIDE DEF F, E, rank, V, down
  <2>12. \A f, g \in [Keys -> V] : \A x \in Keys :
           (\A y \in Keys : rank[y] < rank[x] => f[y] = g[y]) => F[f][x] = F[g][x]
    BY <2>7, <2>8
  <2>13. PICK g \in [Keys -> V] : g = F[g]
    <3>1. Recurses(Keys, V, Span, rank, F)
      BY <2>5, <2>6, <2>9, <2>12 DEF Recurses
    <3> QED
      BY <3>1, Recursion
  <2>14. g = [n \in Keys |-> E(g, n)]
    BY <2>8, <2>13
  <2>15. down = [n \in Keys |-> E(down, n)]
    BY <2>14 DEF down
  <2>16. \A n \in Keys : down[n] = E(down, n)
    BY <2>10, <2>15
  <2> DEFINE Ok(n) == /\ k \in S => down[n].node = k
                      /\ k \notin S =>
                           /\ down[n].node = NULL
                           /\ \E p \in S : /\ down[n].parent = p /\ p # k /\ Inside(b, p, k)
                                           /\ t.child[SideOf(k, p)][p] = NULL
             P == {n \in Keys : n \in S /\ Inside(b, n, k) => Ok(n)}
  <2>17. ASSUME NEW n \in Keys, \A y \in Keys : rank[y] < rank[n] => y \in P PROVE n \in P
    <3> SUFFICES ASSUME n \in S, Inside(b, n, k) PROVE Ok(n)
      OBVIOUS
    <3>1. CASE n = k
      <4>1. down[n] = [node |-> n, parent |-> t.parent[n]]
        BY <2>16, <3>1 DEF E
      <4> QED
        BY <3>1, <4>1
    <3>2. CASE n # k /\ m(n) = NULL
      <4>1. down[n] = [node |-> NULL, parent |-> n]
        BY <2>16, <3>2 DEF E
      <4>2. k \notin S
        <5> SUFFICES ASSUME k \in S PROVE FALSE
          OBVIOUS
        <5>1. m(n) \in S
          BY <3>2, Within
        <5> QED
          BY <3>2, <5>1, <1>1, KeysAre
      <4> QED
        BY <3>2, <4>1, <4>2
    <3>3. CASE n # k /\ m(n) # NULL
      <4>1. PICK s \in Sides : s = SideOf(k, n)
        BY <2>1, <3>3
      <4>2. PICK c : c = t.child[s][n]
        OBVIOUS
      <4>3. c \in S /\ c \in Keys /\ rank[c] < rank[n] /\ c # NULL
        BY <1>1, <2>2, <3>3, <4>1, <4>2
      <4>4. down[n] = down[c]
        BY <2>16, <3>3, <4>1, <4>2 DEF E
      <4>5. Inside(b, c, k)
        <5>1. KidOf(t, S, b, n, s, c)
          BY <4>2, <4>3, KidIs
        <5>2. b[s][c] = b[s][n] /\ \A r \in Sides : r # s => b[r][c] = n
          BY <5>1 DEF KidOf
        <5>3. Before(s, k, n)
          BY <1>1, <3>3, <4>1, SideIs
        <5>4. \A r \in Sides : r # s => Before(r, n, k)
          BY <1>1, <5>3, SidesAre, Order
        <5> QED
          BY <5>2, <5>4 DEF Inside
      <4>6. Ok(c)
        BY <2>17, <4>3, <4>5
      <4> QED
        BY <4>4, <4>6
    <3> QED
      BY <3>1, <3>2, <3>3
  <2> HIDE DEF P
  <2>18. Keys \subseteq P
    BY <2>6, <2>17, RankInduction
  <2>19. t.root \in S /\ t.root # NULL /\ Inside(b, t.root, k)
    <3>1. t.root \in S /\ t.root # NULL /\ \A s \in Sides : b[s][t.root] = Limits[s]
      BY <1>3 DEF Shape
    <3> QED
      BY <3>1, EndsAre DEF Inside
  <2>20. Ok(t.root)
    BY <1>1, <2>18, <2>19 DEF P
  <2> QED
    BY <1>3, <2>11, <2>19, <2>20
<1> QED
  BY <1>2, <1>3

LEMMA FindsAre ==
    ASSUME NEW t, NEW S, NEW b, Shape(t, S, b)
    PROVE  /\ \A k \in Keys : map_find(t, k) = IF k \in S THEN k ELSE NULL
           /\ {k \in Keys : map_find(t, k) = k} = S
<1>1. \A k \in Keys : map_find(t, k) = IF k \in S THEN k ELSE NULL
  BY SearchIs DEF map_find
<1>2. S \subseteq Keys /\ \A k \in Keys : k # NULL
  BY KeysAre DEF Shape
<1> QED
  BY <1>1, <1>2

-----------------------------------------------------------------------------
(* The walk along the keys: the neighbour of n on a side is the nearest key *)
(* of the tree on that side, and NULL if there is none.                     *)
LEMMA UpIs ==
    ASSUME NEW t, NEW S, NEW b, Shape(t, S, b), NEW n \in S, NEW side \in Sides,
           t.child[side][n] = NULL
    PROVE  Neighbour(t, n, side) = IF b[side][n] \in S THEN b[side][n] ELSE NULL
<1> DEFINE E(g, m) == LET p == t.parent[m]
                      IN IF p # NULL /\ m = t.child[side][p] THEN g[p] ELSE p
           F == [g \in [Keys -> Node] |-> [m \in Keys |-> E(g, m)]]
           rank == Upper(S, b)
           up == CHOOSE g : g = [m \in Keys |-> E(g, m)]
           Fits(m) == up[m] = IF b[side][m] \in S THEN b[side][m] ELSE NULL
           P == {m \in Keys : m \in S => Fits(m)}
<1>1. S \subseteq Keys /\ S # {} /\ NULL \notin S /\ t \in Trees
  BY KeysAre DEF Shape
<1>2. \A m \in Keys : t.parent[m] # NULL =>
         m \in S /\ t.parent[m] \in S /\ t.parent[m] \in Keys /\ rank[t.parent[m]] < rank[m]
  <2>1. \A m \in Keys \ S : t.parent[m] = NULL
    BY DEF Shape
  <2> QED
    BY <1>1, <2>1, RanksAre
<1>3. \A g \in [Keys -> Node], m \in Keys : E(g, m) \in Node
  BY <1>1, <1>2, TreesAre
<1>4. F \in [[Keys -> Node] -> [Keys -> Node]]
  <2> HIDE DEF E
  <2> QED
    BY <1>3
<1>5. Span \in Nat /\ rank \in [Keys -> Nat] /\ \A m \in Keys : rank[m] <= Span
  BY <1>1, RanksAre
<1>6. \A f, g \in [Keys -> Node] : \A x \in Keys :
         (\A y \in Keys : rank[y] < rank[x] => f[y] = g[y]) => E(f, x) = E(g, x)
  BY <1>2
<1>7. \A g \in [Keys -> Node], m \in Keys : F[g][m] = E(g, m)
  OBVIOUS
<1>8. Node # {}
  BY DEF Node
<1>9. \A g : g = [m \in Keys |-> E(g, m)] => \A m \in Keys : g[m] = E(g, m)
  <2> HIDE DEF E
  <2> QED
    OBVIOUS
<1>10. Neighbour(t, n, side) = up[n]
  <2>1. Neighbour(t, n, side) = IF t.child[side][n] # NULL
          THEN Outermost(t, t.child[side][n], Opposite(side)) ELSE up[n]
    BY DEF Neighbour
  <2> HIDE DEF up
  <2> QED
    BY <2>1
<1> HIDE DEF F, E, rank, up
<1>11. \A f, g \in [Keys -> Node] : \A x \in Keys :
         (\A y \in Keys : rank[y] < rank[x] => f[y] = g[y]) => F[f][x] = F[g][x]
  BY <1>6, <1>7
<1>12. PICK g \in [Keys -> Node] : g = F[g]
  <2>1. Recurses(Keys, Node, Span, rank, F)
    BY <1>4, <1>5, <1>8, <1>11 DEF Recurses
  <2> QED
    BY <2>1, Recursion
<1>13. g = [m \in Keys |-> E(g, m)]
  BY <1>7, <1>12
<1>14. up = [m \in Keys |-> E(up, m)]
  BY <1>13 DEF up
<1>15. \A m \in Keys : up[m] = E(up, m)
  BY <1>9, <1>14
<1>16. ASSUME NEW m \in Keys, \A y \in Keys : rank[y] < rank[m] => y \in P
       PROVE  m \in P
  <2> SUFFICES ASSUME m \in S PROVE Fits(m)
    OBVIOUS
  <2>1. PICK p : p = t.parent[m]
    OBVIOUS
  <2>2. up[m] = IF p # NULL /\ m = t.child[side][p] THEN up[p] ELSE p
    BY <1>15, <2>1 DEF E
  <2>3. CASE p = NULL
    <3>1. m = t.root
      BY <2>1, <2>3, ParentIs
    <3>2. b[side][m] = Limits[side]
      BY <1>1, <3>1 DEF Shape
    <3>3. Limits[side] \notin S
      BY <1>1, EndsAre
    <3> QED
      BY <2>2, <2>3, <3>2, <3>3
  <2>4. CASE p # NULL
    <3>1. PICK s \in Sides : p \in S /\ t.child[s][p] = m
      BY <2>1, <2>4, ParentIs
    <3>2. KidOf(t, S, b, p, s, m)
      BY <3>1, KidIs
    <3>3. /\ b[s][m] = b[s][p] /\ \A r \in Sides : r # s => b[r][m] = p
          /\ \A r \in Sides : t.child[r][p] = m => r = s
      BY <3>1, <3>2 DEF KidOf
    <3>4. CASE s = side
      <4>1. up[m] = up[p]
        BY <2>2, <2>4, <3>1, <3>4
      <4>2. Fits(p)
        BY <1>1, <1>2, <1>16, <2>1, <2>4, <3>1
      <4> QED
        BY <3>3, <3>4, <4>1, <4>2
    <3>5. CASE s # side
      <4>1. up[m] = p
        BY <2>2, <3>3, <3>5
      <4>2. b[side][m] = p
        BY <3>3, <3>5
      <4> QED
        BY <3>1, <4>1, <4>2
    <3> QED
      BY <3>4, <3>5
  <2> QED
    BY <2>3, <2>4
<1> HIDE DEF P
<1>17. Keys \subseteq P
  BY <1>5, <1>16, RankInduction
<1>18. Fits(n)
  BY <1>1, <1>17 DEF P
<1> QED
  BY <1>10, <1>18

LEMMA NeighbourIs ==
    ASSUME NEW t, NEW S, NEW b, Shape(t, S, b), NEW n \in S, NEW side \in Sides,
           NEW x, x = Neighbour(t, n, side)
    PROVE  /\ x = NULL => \A j \in S : ~Before(side, j, n)
           /\ x # NULL => /\ x \in S /\ Before(side, x, n)
                          /\ \A j \in S : Before(side, j, n) => j = x \/ Before(side, j, x)
<1>1. S \subseteq Keys /\ NULL \notin S /\ n \in Int /\ \A j \in S : j \in Int /\ j # NULL /\ j \in Keys
  BY KeysAre DEF Shape
<1>2. PICK o \in Sides : o = Opposite(side) /\ o # side
  BY SidesAre
<1>3. CASE t.child[side][n] # NULL
  <2>1. PICK c : c = t.child[side][n]
    OBVIOUS
  <2>2. c \in S
    BY <1>3, <2>1 DEF Shape
  <2>3. KidOf(t, S, b, n, side, c)
    BY <1>1, <2>1, <2>2, KidIs
  <2>4. b[o][c] = n
    BY <1>2, <2>3 DEF KidOf
  <2>5. x = Outermost(t, c, o)
    BY <1>2, <1>3, <2>1 DEF Neighbour
  <2>6. x \in S /\ t.child[o][x] = NULL /\ b[o][x] = n
    BY <2>2, <2>4, <2>5, OutermostIs
  <2>7. Before(o, n, x)
    <3>1. Before(o, b[o][x], x)
      BY <2>6 DEF Shape
    <3> QED
      BY <2>6, <3>1
  <2>8. Before(side, x, n)
    BY <1>1, <1>2, <2>6, <2>7, Order
  <2>9. ASSUME NEW j \in S, Before(side, j, n) PROVE j = x \/ Before(side, j, x)
    <3>1. ~(Before(o, j, x) /\ Before(o, n, j))
      BY <2>6, Gap
    <3>2. Before(o, n, j)
      BY <1>1, <1>2, <2>9, Order
    <3> QED
      BY <1>1, <1>2, <2>6, <3>1, <3>2, Order
  <2> QED
    BY <1>1, <2>6, <2>8, <2>9
<1>4. CASE t.child[side][n] = NULL
  <2>1. PICK u : u = b[side][n]
    OBVIOUS
  <2>2. x = IF u \in S THEN u ELSE NULL
    BY <1>4, <2>1, UpIs
  <2>3. \A j \in S : ~(Before(side, j, n) /\ Before(side, u, j))
    BY <1>4, <2>1, Gap
  <2>4. Before(side, u, n) /\ (u \in S \/ u = Limits[side])
    BY <2>1 DEF Shape
  <2>5. CASE u \in S
    <3>1. \A j \in S : Before(side, j, n) => j = u \/ Before(side, j, u)
      BY <1>1, <2>3, <2>5, Order
    <3> QED
      BY <1>1, <2>2, <2>4, <2>5, <3>1
  <2>6. CASE u \notin S
    <3>1. \A j \in S : Before(side, u, j)
      BY <1>1, <2>4, <2>6, EndsAre
    <3> QED
      BY <2>2, <2>3, <2>6, <3>1
  <2> QED
    BY <2>5, <2>6
<1> QED
  BY <1>3, <1>4

(* What a user of the map sees of a tree is what the sorted map of its keys *)
(* shows.                                                                   *)
LEMMA ShownIs ==
    ASSUME NEW t, NEW S, NEW b, Shape(t, S, b)
    PROVE  /\ map_first(t) = Abstract!Least(S)
           /\ [k \in S |-> Neighbour(t, k, "right")] = Abstract!Successors(S)
           /\ [k \in S |-> Neighbour(t, k, "left")] = Abstract!Predecessors(S)
<1>1. S \subseteq Keys /\ NULL \notin S /\ \A j \in S : j \in Int /\ j # NULL
  BY KeysAre DEF Shape
<1>2. "left" \in Sides /\ "right" \in Sides
  BY DEF Sides
<1>3. map_first(t) = Abstract!Least(S)
  <2>1. CASE S = {}
    <3>1. t.root = NULL
      BY <2>1 DEF Shape
    <3> QED
      BY <2>1, <3>1 DEF map_first, Abstract!Least
  <2>2. CASE S # {}
    <3>1. t.root \in S /\ t.root # NULL /\ b["left"][t.root] = Limits["left"]
      BY <1>2, <2>2 DEF Shape
    <3>2. PICK x : x = Outermost(t, t.root, "left")
      OBVIOUS
    <3>3. x \in S /\ t.child["left"][x] = NULL /\ b["left"][x] = Limits["left"]
      BY <1>2, <3>1, <3>2, OutermostIs
    <3>4. \A j \in S : ~(Before("left", j, x) /\ Before("left", Limits["left"], j))
      <4>1. \A j \in S : ~(Before("left", j, x) /\ Before("left", b["left"][x], j))
        BY <1>2, <3>3, Gap
      <4> QED
        BY <3>3, <4>1
    <3>5. \A j \in S : x <= j
      <4>1. \A j \in S : ~Before("left", j, x)
        BY <1>1, <1>2, <3>4, EndsAre
      <4> QED
        BY <1>1, <3>3, <4>1 DEF Before
    <3>6. \A y \in S : (\A j \in S : y <= j) => y = x
      BY <1>1, <3>3, <3>5
    <3>7. Abstract!Least(S) = x
      BY <2>2, <3>3, <3>5, <3>6 DEF Abstract!Least
    <3> QED
      BY <3>1, <3>2, <3>7 DEF map_first
  <2> QED
    BY <2>1, <2>2
<1>4. ASSUME NEW k \in S PROVE Neighbour(t, k, "right") = Abstract!Least({j \in S : j > k})
  <2>1. PICK x : x = Neighbour(t, k, "right")
    OBVIOUS
  <2>2. /\ x = NULL => \A j \in S : ~Before("right", j, k)
        /\ x # NULL => /\ x \in S /\ Before("right", x, k)
                       /\ \A j \in S : Before("right", j, k) => j = x \/ Before("right", j, x)
    BY <1>2, <2>1, NeighbourIs
  <2>3. PICK U : U = {j \in S : j > k}
    OBVIOUS
  <2>4. \A j \in S : Before("right", j, k) <=> j \in U
    BY <1>1, <2>3 DEF Before
  <2>5. U \subseteq S
    BY <2>3
  <2>6. CASE x = NULL
    <3>1. U = {}
      BY <2>2, <2>4, <2>5, <2>6
    <3> QED
      BY <2>1, <2>3, <2>6, <3>1 DEF Abstract!Least
  <2>7. CASE x # NULL
    <3>1. x \in U /\ \A j \in U : x <= j
      BY <1>1, <2>2, <2>4, <2>5, <2>7 DEF Before
    <3>2. \A y \in U : (\A j \in U : y <= j) => y = x
      BY <1>1, <2>5, <3>1
    <3>3. Abstract!Least(U) = x
      BY <3>1, <3>2 DEF Abstract!Least
    <3> QED
      BY <2>1, <2>3, <3>3
  <2> QED
    BY <2>6, <2>7
<1>5. ASSUME NEW k \in S PROVE Neighbour(t, k, "left") = Abstract!Greatest({j \in S : j < k})
  <2>1. PICK x : x = Neighbour(t, k, "left")
    OBVIOUS
  <2>2. /\ x = NULL => \A j \in S : ~Before("left", j, k)
        /\ x # NULL => /\ x \in S /\ Before("left", x, k)
                       /\ \A j \in S : Before("left", j, k) => j = x \/ Before("left", j, x)
    BY <1>2, <2>1, NeighbourIs
  <2>3. PICK U : U = {j \in S : j < k}
    OBVIOUS
  <2>4. \A j \in S : Before("left", j, k) <=> j \in U
    BY <1>1, <2>3 DEF Before
  <2>5. U \subseteq S
    BY <2>3
  <2>6. CASE x = NULL
    <3>1. U = {}
      BY <2>2, <2>4, <2>5, <2>6
    <3> QED
      BY <2>1, <2>3, <2>6, <3>1 DEF Abstract!Greatest
  <2>7. CASE x # NULL
    <3>1. x \in U /\ \A j \in U : x >= j
      BY <1>1, <2>2, <2>4, <2>5, <2>7 DEF Before
    <3>2. \A y \in U : (\A j \in U : y >= j) => y = x
      BY <1>1, <2>5, <3>1
    <3>3. Abstract!Greatest(U) = x
      BY <3>1, <3>2 DEF Abstract!Greatest
    <3> QED
      BY <2>1, <2>3, <3>3
  <2> QED
    BY <2>6, <2>7
<1>6. [k \in S |-> Neighbour(t, k, "right")] = Abstract!Successors(S)
  BY <1>4 DEF Abstract!Successors
<1>7. [k \in S |-> Neighbour(t, k, "left")] = Abstract!Predecessors(S)
  BY <1>5 DEF Abstract!Predecessors
<1> QED
  BY <1>3, <1>6, <1>7

=============================================================================
