---------------------------- MODULE RBTreeProofs ----------------------------
(***************************************************************************)
(* Proofs about RBTree, for any finite set of integer keys: the red-black  *)
(* tree that rbtreeEx.c builds is well formed, it keeps its colours after  *)
(* every call, and it implements the sorted map.  The search tree under    *)
(* the colours is StructuresProofs.                                        *)
(***************************************************************************)
EXTENDS StructuresProofs

-----------------------------------------------------------------------------
(* The colours.  h is the number of black nodes on every way down; on side  *)
(* s0 of p one is missing, if p is a node.                                  *)
Black(t, n) == IF n \in t.red THEN 0 ELSE 1

Level(t, h, n, s, d) == h[n] = h[t.child[s][n]] + Black(t, n) + d

Even(t, S, h, p, s0) ==
    /\ h \in [Node -> Nat] /\ h[NULL] = 0
    /\ \A n \in S, s \in Sides : Level(t, h, n, s, IF n = p /\ s = s0 THEN 1 ELSE 0)

(* Red nodes with red children have to do with n only.                      *)
Calm(t, S, n) ==
    /\ \A m \in S, s \in Sides : m \in t.red /\ t.child[s][m] \in t.red =>
          m = n \/ t.child[s][m] = n
    /\ t.root \in t.red => t.root = n

LEMMA LevelIs ==
    ASSUME NEW t, NEW S, NEW b, Shape(t, S, b), NEW h, NEW p, NEW s0, Even(t, S, h, p, s0),
           NEW m \in S, NEW s \in Sides, NEW c, c = t.child[s][m]
    PROVE  /\ c \in Node /\ h[m] \in Nat /\ h[c] \in Nat /\ Black(t, m) \in {0, 1}
           /\ h[m] = h[c] + Black(t, m) + IF m = p /\ s = s0 THEN 1 ELSE 0
<1>1. t \in Trees /\ m \in Keys /\ m \in Node
  BY KeysAre DEF Shape
<1>2. c \in Node
  BY <1>1, TreesAre
<1>3. h \in [Node -> Nat] /\ Level(t, h, m, s, IF m = p /\ s = s0 THEN 1 ELSE 0)
  BY DEF Even
<1>4. h[m] = h[c] + Black(t, m) + IF m = p /\ s = s0 THEN 1 ELSE 0
  BY <1>3 DEF Level
<1> QED
  BY <1>1, <1>2, <1>3, <1>4 DEF Black

(* r is t but for its red nodes.                                            *)
Coloured(t, r, S, b, R) ==
    /\ Shape(r, S, b) /\ r.red = R
    /\ r.root = t.root /\ r.child = t.child /\ r.parent = t.parent

LEMMA ColouredIs ==
    ASSUME NEW t, NEW S, NEW b, Shape(t, S, b), NEW n \in S
    PROVE  /\ Coloured(t, Redden(t, n), S, b, t.red \cup {n})
           /\ Coloured(t, Blacken(t, n), S, b, t.red \ {n})
           /\ \A m \in Keys : Coloured(t, Paint(t, n, m), S, b,
                 IF m \in t.red THEN t.red \cup {n} ELSE t.red \ {n})
<1>1. t \in Trees /\ n \in Keys
  BY DEF Shape
<1>2. ASSUME NEW R \in SUBSET Keys, NEW u, u = [t EXCEPT !.red = R]
      PROVE  /\ u \in Trees /\ u.red = R
             /\ u.root = t.root /\ u.child = t.child /\ u.parent = t.parent
  BY <1>1, <1>2 DEF Trees
<1>3. ASSUME NEW R \in SUBSET S, NEW u, u = [t EXCEPT !.red = R]
      PROVE  Coloured(t, u, S, b, R)
  <2>1. R \in SUBSET Keys
    BY <1>3 DEF Shape
  <2>2. /\ u \in Trees /\ u.red = R
        /\ u.root = t.root /\ u.child = t.child /\ u.parent = t.parent
    BY <1>2, <1>3, <2>1
  <2>3. Shape(u, S, b)
    BY <2>2 DEF Shape
  <2> QED
    BY <2>2, <2>3 DEF Coloured
<1>4. t.red \subseteq S
  BY DEF Shape
<1>5. PICK P \in SUBSET S : P = t.red \cup {n}
  BY <1>4
<1>6. PICK Q \in SUBSET S : Q = t.red \ {n}
  BY <1>4
<1>7. Coloured(t, Redden(t, n), S, b, P)
  <2>1. Redden(t, n) = [t EXCEPT !.red = P]
    BY <1>5 DEF Redden
  <2> QED
    BY <1>3, <2>1
<1>8. Coloured(t, Blacken(t, n), S, b, Q)
  <2>1. Blacken(t, n) = [t EXCEPT !.red = Q]
    BY <1>6 DEF Blacken
  <2> QED
    BY <1>3, <2>1
<1>9. \A m \in Keys : Paint(t, n, m) = IF m \in t.red THEN Redden(t, n) ELSE Blacken(t, n)
  BY DEF Paint
<1> QED
  BY <1>5, <1>6, <1>7, <1>8, <1>9

(* h becomes g in a rotation, which may change the level of outer, the      *)
(* child of up on the other side.                                           *)
Swapped(h, g, n, up, outer) ==
    /\ g[up] = h[n]
    /\ \A x \in Node : x \notin {n, up, outer} \/ x = NULL => g[x] = h[x]

Levelled(t, r, S, h, g, n, side, o, up) ==
    /\ \A m \in S, s \in Sides : m \notin {n, up} => g[r.child[s][m]] = h[t.child[s][m]]
    /\ r.child[side][n] = t.child[side][n] /\ g[r.child[side][n]] = h[t.child[side][n]]
    /\ r.child[o][n] = t.child[side][up] /\ g[r.child[o][n]] = h[t.child[side][up]]
    /\ r.child[side][up] = n /\ r.child[o][up] = t.child[o][up]
    /\ n # up /\ t.child[o][up] \notin {n, up} /\ t.child[side][n] \notin {n, up}
    /\ t.child[side][up] \notin {n, up}

LEMMA RotateLevels ==
    ASSUME NEW t, NEW S, NEW b, Shape(t, S, b), NEW n \in S, NEW side \in Sides,
           NEW o, o = Opposite(side), NEW up \in S, up = t.child[o][n],
           NEW r, Rotated(t, r, n, side, up), NEW h, NEW g, Swapped(h, g, n, up, t.child[o][up])
    PROVE  Levelled(t, r, S, h, g, n, side, o, up)
<1>0. /\ g[up] = h[n]
      /\ \A x \in Node : x \notin {n, up, t.child[o][up]} \/ x = NULL => g[x] = h[x]
  BY DEF Swapped
<1> USE <1>0
<1>1. o \in Sides /\ o # side
  BY SidesAre
<1>2. S \subseteq Keys /\ t \in Trees /\ \A m \in S : m \in Keys /\ m # NULL
  BY KeysAre DEF Shape
<1>3. ASSUME NEW m \in S, NEW s \in Sides, NEW x \in Keys, x = t.child[s][m]
      PROVE  KidOf(t, S, b, m, s, x)
  BY <1>3, KidIs
<1>4. KidOf(t, S, b, n, o, up)
  BY <1>1, <1>2, <1>3
<1>5. up # n /\ Before(o, up, n) /\ \A m \in S, s \in Sides : t.child[s][m] = up => m = n /\ s = o
  BY <1>4 DEF KidOf
<1>6. ASSUME NEW m \in S, NEW s \in Sides, NEW x, x = t.child[s][m]
      PROVE  /\ x = NULL \/ x \in Keys
             /\ x = up => m = n /\ s = o
             /\ x = t.child[o][up] /\ x # NULL => m = up /\ s = o
  <2>1. x = NULL \/ x \in Keys
    BY <1>2, <1>6, TreesAre, KeysAre
  <2>2. x = up => m = n /\ s = o
    BY <1>5, <1>6
  <2>3. ASSUME x = t.child[o][up], x # NULL PROVE m = up /\ s = o
    <3>1. KidOf(t, S, b, up, o, x)
      BY <1>1, <1>3, <2>1, <2>3
    <3> QED
      BY <3>1, <1>6 DEF KidOf
  <2> QED
    BY <2>1, <2>2, <2>3
<1>7. ASSUME NEW s \in Sides PROVE t.child[s][n] # n /\ t.child[s][up] # n /\ t.child[s][up] # up
  <2>1. t.child[s][n] # n
    <3> SUFFICES ASSUME t.child[s][n] = n PROVE FALSE
      OBVIOUS
    <3> QED
      BY <1>2, <1>3 DEF KidOf
  <2>2. t.child[s][up] # up
    BY <1>5, <1>6
  <2>3. t.child[s][up] # n
    <3> SUFFICES ASSUME t.child[s][up] = n PROVE FALSE
      OBVIOUS
    <3>1. KidOf(t, S, b, up, s, n)
      BY <1>2, <1>3
    <3>2. t.parent[n] = up /\ t.parent[up] = n
      BY <1>4, <3>1 DEF KidOf
    <3>3. n # t.root /\ up # t.root
      BY <1>4, <3>1 DEF KidOf
    <3>4. PICK X \in SUBSET S : X = {n, up}
      BY <1>2
    <3>5. X = {}
      BY <3>2, <3>3, <3>4, NoEndlessWay
    <3> QED
      BY <3>4, <3>5
  <2> QED
    BY <2>1, <2>2, <2>3
<1>8. /\ \A s \in Sides, m \in Keys : r.child[s][m] =
          IF m = n THEN IF s = side THEN t.child[s][n] ELSE t.child[side][up]
          ELSE IF m = up THEN IF s = side THEN n ELSE t.child[s][up]
          ELSE IF t.child[s][m] = n THEN up ELSE t.child[s][m]
  BY DEF Rotated
<1>9. ASSUME NEW m \in S, NEW s \in Sides, m \notin {n, up} PROVE g[r.child[s][m]] = h[t.child[s][m]]
  <2>1. PICK x : x = t.child[s][m]
    OBVIOUS
  <2>2. r.child[s][m] = IF x = n THEN up ELSE x
    BY <1>2, <1>8, <1>9, <2>1
  <2>3. x # n => g[x] = h[x]
    <3>1. x \in Node
      BY <1>2, <2>1, TreesAre
    <3>2. x # up
      BY <1>5, <1>9, <2>1
    <3>3. x # t.child[o][up] \/ x = NULL
      BY <1>6, <1>9, <2>1
    <3> QED
      BY <3>1, <3>2, <3>3
  <2> QED
    BY <2>1, <2>2, <2>3
<1>10. r.child[side][n] = t.child[side][n] /\ r.child[o][n] = t.child[side][up]
       /\ r.child[side][up] = n /\ r.child[o][up] = t.child[o][up]
  BY <1>1, <1>2, <1>5, <1>8
<1>11. g[t.child[side][n]] = h[t.child[side][n]]
  <2>1. PICK x : x = t.child[side][n]
    OBVIOUS
  <2>2. x # n /\ x # up /\ (x = t.child[o][up] => x = NULL) /\ x \in Node
    BY <1>1, <1>5, <1>6, <1>7, <2>1 DEF Node
  <2> QED
    BY <2>1, <2>2
<1>12. g[t.child[side][up]] = h[t.child[side][up]]
  <2>1. PICK x : x = t.child[side][up]
    OBVIOUS
  <2>2. x # n /\ x # up /\ (x = t.child[o][up] => x = NULL) /\ x \in Node
    BY <1>1, <1>5, <1>6, <1>7, <2>1 DEF Node
  <2> QED
    BY <2>1, <2>2
<1>13. t.child[side][n] # up
  BY <1>1, <1>5
<1> QED
  BY <1>1, <1>5, <1>7, <1>9, <1>10, <1>11, <1>12, <1>13 DEF Levelled

-----------------------------------------------------------------------------
(* What holds of the tree between calls, and in the rounds of the loops of  *)
(* rb_insert_color and __rb_erase_color with their variables.  While n is   *)
(* inserted it is red, and its father may be red as well; while it is       *)
(* erased, one black node is missing on the ways through n below p.         *)
Settled(t, S) ==
    \E b, h : Shape(t, S, b) /\ Even(t, S, h, NULL, "left") /\ Calm(t, S, NULL)

Inserting(t, S, n) ==
    /\ n \in S /\ n \in t.red /\ \A s \in Sides : t.child[s][n] \notin t.red
    /\ \E b, h : Shape(t, S, b) /\ Even(t, S, h, NULL, "left") /\ Calm(t, S, n)

Erasing(t, S, n, p) ==
    /\ n \in S \cup {NULL} /\ p \in Node
    /\ \E b, h : \E s0 \in Sides :
          /\ Shape(t, S, b) /\ Calm(t, S, n)
          /\ n # t.root => p \in S /\ t.child[s0][p] = n
          /\ Even(t, S, h, IF n = t.root THEN NULL ELSE p, s0)

LEMMA InsertHolds ==
    ASSUME NEW t, NEW S, Settled(t, S), NEW k \in Keys, map_find(t, k) = NULL
    PROVE  LET p == Search(t, k).parent
               u == [t EXCEPT !.parent[k] = p, !.red = @ \cup {k}]
               r == IF p = NULL THEN [u EXCEPT !.root = k] ELSE [u EXCEPT !.child[SideOf(k, p)][p] = k]
           IN  k \notin S /\ Inserting(r, S \cup {k}, k)
<1>a. PICK p : p = Search(t, k).parent
  OBVIOUS
<1>b. PICK u : u = [t EXCEPT !.parent[k] = p, !.red = @ \cup {k}]
  OBVIOUS
<1>c. PICK r : r = IF p = NULL THEN [u EXCEPT !.root = k] ELSE [u EXCEPT !.child[SideOf(k, p)][p] = k]
  OBVIOUS
<1>1. PICK b, h : Shape(t, S, b) /\ Even(t, S, h, NULL, "left") /\ Calm(t, S, NULL)
  BY DEF Settled
<1>2. /\ S \subseteq Keys /\ t \in Trees /\ k \in Int /\ k # NULL /\ NULL \notin S /\ t.red \subseteq S
      /\ \A m \in S : m \in Keys
  BY <1>1, KeysAre DEF Shape
<1>3. k \notin S
  BY <1>1, <1>2, FindsAre
<1>4. /\ S = {} => p = NULL
      /\ S # {} => \E q \in S : /\ p = q /\ q # k /\ Inside(b, q, k)
                                /\ t.child[SideOf(k, q)][q] = NULL
  BY <1>1, <1>3, <1>a, SearchIs
<1>5. p \in Node
  BY <1>2, <1>4 DEF Node
<1>6. /\ u \in Trees /\ u.root = t.root /\ u.child = t.child /\ u.red = t.red \cup {k}
      /\ \A m \in Keys : u.parent[m] = IF m = k THEN p ELSE t.parent[m]
  <2>1. PICK v : v = [t EXCEPT !.parent[k] = p]
    OBVIOUS
  <2>2. /\ v \in Trees /\ v.root = t.root /\ v.child = t.child /\ v.red = t.red
        /\ \A m \in Keys : v.parent[m] = IF m = k THEN p ELSE t.parent[m]
    BY <2>1, <1>2, <1>5 DEF Trees
  <2>3. u = [v EXCEPT !.red = @ \cup {k}]
    BY <2>1, <1>b
  <2>4. v.red \cup {k} \subseteq Keys
    BY <1>2, <2>2
  <2>5. /\ u \in Trees /\ u.root = v.root /\ u.child = v.child /\ u.red = v.red \cup {k}
        /\ u.parent = v.parent
    BY <2>2, <2>3, <2>4 DEF Trees
  <2> QED
    BY <2>2, <2>5
<1>7. PICK g : g = [h EXCEPT ![k] = 0]
  OBVIOUS
<1>8. /\ g \in [Node -> Nat] /\ g[NULL] = 0 /\ g[k] = 0 /\ \A x \in Node : x # k => g[x] = h[x]
  BY <1>1, <1>2, <1>7 DEF Even, Node
<1>9. \A s \in Sides : t.child[s][k] = NULL
  BY <1>1, <1>3 DEF Shape
<1>10. \A m \in S, s \in Sides : t.child[s][m] \in Node /\ t.child[s][m] # k
  <2>1. \A m \in S, s \in Sides : t.child[s][m] \in Node
    BY <1>2, TreesAre
  <2>2. \A m \in S, s \in Sides : t.child[s][m] # NULL => t.child[s][m] \in S
    BY <1>1 DEF Shape
  <2> QED
    BY <1>2, <1>3, <2>1, <2>2
<1>11. ASSUME S = {} PROVE k \notin S /\ Inserting(r, S \cup {k}, k)
  <2>1. p = NULL
    BY <1>4, <1>11
  <2>2. /\ r \in Trees /\ r.root = k /\ r.child = t.child /\ r.red = {k} /\ r.parent[k] = NULL
        /\ \A m \in Keys \ {k} : r.parent[m] = t.parent[m]
    <3>1. r = [u EXCEPT !.root = k] /\ k \in Node /\ t.red = {}
      BY <1>2, <1>11, <2>1, <1>c DEF Node
    <3> QED
      BY <1>6, <2>1, <3>1 DEF Trees
  <2>3. PICK c : Shape(r, {k}, c)
    <3>1. Shape(t, {}, b) /\ r.red \subseteq {k}
      BY <1>1, <1>11, <2>2
    <3> QED
      BY <2>2, <3>1, FirstKeeps
  <2>4. Even(r, {k}, g, NULL, "left")
    BY <1>2, <1>8, <1>9, <2>2 DEF Even, Level, Black
  <2>5. Calm(r, {k}, k)
    BY <2>2 DEF Calm
  <2>6. S \cup {k} = {k}
    BY <1>11
  <2>7. Inserting(r, {k}, k)
    <3>1. \A s \in Sides : r.child[s][k] \notin r.red
      BY <1>2, <1>9, <2>2
    <3> QED
      BY <2>2, <2>3, <2>4, <2>5, <3>1 DEF Inserting
  <2> QED
    BY <1>3, <2>6, <2>7
<1>12. ASSUME S # {} PROVE k \notin S /\ Inserting(r, S \cup {k}, k)
  <2>1. p \in S /\ p # k /\ Inside(b, p, k) /\ t.child[SideOf(k, p)][p] = NULL /\ p # NULL /\ p \in Keys
    BY <1>2, <1>4, <1>12
  <2>2. PICK side \in Sides : side = SideOf(k, p) /\ Before(side, k, p)
    <3>1. p \in Int /\ "left" \in Sides
      BY <2>1, KeysAre DEF Sides
    <3> QED
      BY <1>2, <2>1, <3>1, SideIs
  <2>3. r = [u EXCEPT !.child[side][p] = k]
    BY <1>c, <2>1, <2>2
  <2>4. ChildSet(u, r, side, p, k)
    <3>1. u \in Trees /\ p \in Keys /\ k \in Node
      BY <1>6, <2>1 DEF Node
    <3> QED
      BY <2>3, <3>1, ChildSetIs
  <2>5. /\ r \in Trees /\ r.root = t.root /\ r.red = t.red \cup {k}
        /\ \A m \in Keys : r.parent[m] = IF m = k THEN p ELSE t.parent[m]
        /\ \A s \in Sides, m \in Keys : r.child[s][m] = IF m = p /\ s = side THEN k ELSE t.child[s][m]
    BY <1>6, <2>4 DEF ChildSet
  <2>6. Before(side, b[side][p], k) /\ t.child[side][p] = NULL /\ r.red \subseteq S \cup {k}
    BY <1>2, <2>1, <2>2, <2>5 DEF Inside
  <2>7. PICK c : Shape(r, S \cup {k}, c)
    <3>1. Attached(t, r, k, p, side)
      BY <2>5 DEF Attached
    <3> QED
      BY <1>1, <1>3, <2>1, <2>2, <2>6, <3>1, BelowKeeps
  <2>8. ASSUME NEW m \in S \cup {k}, NEW s \in Sides PROVE Level(r, g, m, s, 0)
    <3>1. CASE m = k
      BY <1>2, <1>8, <1>9, <2>1, <2>5, <3>1 DEF Level, Black
    <3>2. CASE m # k
      <4>1. m \in S /\ m \in Keys
        BY <1>2, <3>2
      <4>2. Level(t, h, m, s, 0)
        BY <1>1, <1>2, <4>1 DEF Even
      <4>3. g[m] = h[m] /\ Black(r, m) = Black(t, m)
        <5>1. m \in Node
          BY <4>1 DEF Node
        <5> QED
          BY <1>8, <2>5, <3>2, <5>1 DEF Black
      <4>4. g[r.child[s][m]] = h[t.child[s][m]]
        <5>1. CASE m = p /\ s = side
          BY <1>1, <1>8, <2>5, <2>6, <4>1, <5>1 DEF Even
        <5>2. CASE ~(m = p /\ s = side)
          BY <1>8, <1>10, <2>5, <4>1, <5>2
        <5> QED
          BY <5>1, <5>2
      <4> QED
        BY <4>2, <4>3, <4>4 DEF Level
    <3> QED
      BY <3>1, <3>2
  <2>9. Even(r, S \cup {k}, g, NULL, "left")
    BY <1>2, <1>8, <2>8 DEF Even
  <2>10. \A s \in Sides : r.child[s][k] \notin r.red
    BY <1>2, <1>9, <2>1, <2>5
  <2>11. Calm(r, S \cup {k}, k)
    <3>1. ASSUME NEW m \in S \cup {k}, NEW s \in Sides, m \in r.red, r.child[s][m] \in r.red
          PROVE  m = k \/ r.child[s][m] = k
      <4> SUFFICES ASSUME m # k, r.child[s][m] # k PROVE FALSE
        OBVIOUS
      <4>1. m \in S /\ m \in Keys /\ m \in t.red /\ t.child[s][m] \in t.red
        BY <1>2, <2>5, <3>1
      <4> QED
        BY <1>1, <1>2, <4>1 DEF Calm
    <3>2. t.root \notin t.red /\ t.root # k
      <4>1. t.root \in S
        BY <1>1, <1>12 DEF Shape
      <4> QED
        BY <1>1, <1>2, <1>3, <4>1 DEF Calm
    <3> QED
      BY <2>5, <3>1, <3>2 DEF Calm
  <2> QED
    BY <1>3, <2>5, <2>7, <2>9, <2>10, <2>11 DEF Inserting
<1>13. k \notin S /\ Inserting(r, S \cup {k}, k)
  BY <1>11, <1>12
<1> QED
  BY <1>13, <1>a, <1>b, <1>c

-----------------------------------------------------------------------------
(* rb_insert_color.                                                         *)
LEMMA InsertEndsHolds ==
    ASSUME NEW t, NEW S, NEW n, Inserting(t, S, n), ~IsRed(t, t.parent[n])
    PROVE  Settled(Blacken(t, t.root), S)
<1>1. PICK b, h : Shape(t, S, b) /\ Even(t, S, h, NULL, "left") /\ Calm(t, S, n)
  BY DEF Inserting
<1>2. /\ S \subseteq Keys /\ t \in Trees /\ NULL \notin S /\ t.red \subseteq S /\ n \in S
      /\ t.root \in S /\ t.root \in Node /\ \A m \in S : m \in Keys /\ m \in Node
  BY <1>1, KeysAre DEF Shape, Inserting
<1>3. PICK r : r = Blacken(t, t.root)
  OBVIOUS
<1>4. Shape(r, S, b) /\ r.root = t.root /\ r.child = t.child /\ r.red = t.red \ {t.root}
  <2>1. Coloured(t, r, S, b, t.red \ {t.root})
    BY <1>1, <1>2, <1>3, ColouredIs
  <2> QED
    BY <2>1 DEF Coloured
<1>5. ASSUME NEW m \in S, NEW s \in Sides, m \in t.red PROVE t.child[s][m] \notin t.red
  <2> SUFFICES ASSUME t.child[s][m] \in t.red PROVE FALSE
    OBVIOUS
  <2>1. m # n
    BY <1>5 DEF Inserting
  <2>2. t.child[s][m] = n
    BY <1>1, <1>5, <2>1 DEF Calm
  <2>3. KidOf(t, S, b, m, s, n)
    BY <1>1, <1>2, <2>2, KidIs
  <2>4. t.parent[n] = m
    BY <2>3 DEF KidOf
  <2> QED
    BY <1>2, <1>5, <2>4 DEF IsRed
<1>6. Calm(r, S, NULL)
  BY <1>4, <1>5 DEF Calm
<1>7. PICK g : g = [h EXCEPT ![t.root] = h[t.root] + Black(r, t.root) - Black(t, t.root)]
  OBVIOUS
<1>8. Black(r, t.root) = 1 /\ Black(t, t.root) \in {0, 1} /\ \A m \in S : m # t.root => Black(r, m) = Black(t, m)
  BY <1>4 DEF Black
<1>9. h \in [Node -> Nat] /\ h[NULL] = 0 /\ \A m \in S, s \in Sides : Level(t, h, m, s, 0)
  BY <1>1, <1>2 DEF Even
<1>10. /\ g \in [Node -> Nat] /\ g[NULL] = 0 /\ g[t.root] = h[t.root] + 1 - Black(t, t.root)
       /\ \A m \in Node : m # t.root => g[m] = h[m]
  BY <1>2, <1>7, <1>8, <1>9, KeysAre
<1>11. ASSUME NEW m \in S, NEW s \in Sides PROVE Level(r, g, m, s, 0)
  <2>1. h[m] = h[t.child[s][m]] + Black(t, m)
    BY <1>1, <1>2, LevelIs
  <2>2. t.child[s][m] \in Node /\ t.child[s][m] # t.root
    <3>1. t.child[s][m] \in Node
      BY <1>2, TreesAre
    <3>2. t.child[s][m] # NULL => t.child[s][m] # t.root
      BY <1>1, ChildIs
    <3> QED
      BY <1>2, <3>1, <3>2
  <2>3. g[t.child[s][m]] = h[t.child[s][m]] /\ g[t.child[s][m]] \in Nat
    BY <1>10, <2>2
  <2>4. CASE m = t.root
    BY <1>4, <1>8, <1>10, <2>1, <2>3, <2>4 DEF Level
  <2>5. CASE m # t.root
    BY <1>2, <1>4, <1>8, <1>10, <2>1, <2>3, <2>5 DEF Level
  <2> QED
    BY <2>4, <2>5
<1>12. Even(r, S, g, NULL, "left")
  BY <1>2, <1>10, <1>11 DEF Even
<1> QED
  BY <1>3, <1>4, <1>6, <1>12 DEF Settled

(* A red parent is not the root, and has a black parent.                    *)
SideFor(t, n, p) == IF n = t.child["left"][p] THEN "left" ELSE "right"

Family(t, S, n, f, g) ==
    /\ f \in S /\ f # n /\ f \in t.red /\ \E s \in Sides : t.child[s][f] = n
    /\ g \in S /\ g \notin t.red /\ g # f /\ g # n
    /\ SideFor(t, f, g) \in Sides /\ t.child[SideFor(t, f, g)][g] = f

LEMMA FamilyIs ==
    ASSUME NEW t, NEW S, NEW n, Inserting(t, S, n), NEW f, f = t.parent[n], IsRed(t, f)
    PROVE  Family(t, S, n, f, t.parent[f])
<1>1. PICK b, h : Shape(t, S, b) /\ Even(t, S, h, NULL, "left") /\ Calm(t, S, n)
  BY DEF Inserting
<1>2. /\ S \subseteq Keys /\ NULL \notin S /\ t.red \subseteq S /\ n \in S /\ n \in t.red
  BY <1>1, KeysAre DEF Shape, Inserting
<1>3. f \in S /\ f # NULL /\ f \in t.red
  BY <1>2 DEF IsRed
<1>4. n # t.root
  BY <1>1, <1>2, <1>3, ParentIs
<1>5. f # n /\ \E s \in Sides : t.child[s][f] = n
  BY <1>1, <1>2, <1>4, ParentIs
<1>6. f # t.root
  BY <1>1, <1>3, <1>5 DEF Calm
<1>7. PICK g : g = t.parent[f]
  OBVIOUS
<1>8. PICK s \in Sides : g \in S /\ t.child[s][g] = f /\ g # f
  BY <1>1, <1>3, <1>6, <1>7, ParentIs
<1>9. g # n
  <2> SUFFICES ASSUME g = n PROVE FALSE
    OBVIOUS
  <2>1. t.child[s][n] \notin t.red
    BY DEF Inserting
  <2> QED
    BY <1>3, <1>8, <2>1
<1>10. g \notin t.red
  BY <1>1, <1>3, <1>5, <1>8, <1>9 DEF Calm
<1>11. s = IF f = t.child["left"][g] THEN "left" ELSE "right"
  <2>1. KidOf(t, S, b, g, s, f)
    BY <1>1, <1>2, <1>3, <1>8, KidIs
  <2>2. \A r \in Sides : t.child[r][g] = f => r = s
    BY <1>8, <2>1 DEF KidOf
  <2> QED
    BY <1>8, <2>2 DEF Sides
<1>12. SideFor(t, f, g) \in Sides /\ t.child[SideFor(t, f, g)][g] = f
  BY <1>8, <1>11 DEF SideFor
<1> QED
  BY <1>3, <1>5, <1>7, <1>8, <1>9, <1>10, <1>12 DEF Family

LEMMA RecolorHolds ==
    ASSUME NEW t, NEW S, NEW n, Inserting(t, S, n), NEW f \in S, NEW g \in S, NEW u,
           NEW side \in Sides, t.child[side][g] = f, u = t.child[Opposite(side)][g],
           f = t.parent[n], f \in t.red, u \in t.red, g \notin t.red, f # n, g # n
    PROVE  Inserting(Redden(Blacken(Blacken(t, u), f), g), S, g)
<1>1. PICK b, h : Shape(t, S, b) /\ Even(t, S, h, NULL, "left") /\ Calm(t, S, n)
  BY DEF Inserting
<1>2. /\ S \subseteq Keys /\ t \in Trees /\ NULL \notin S /\ t.red \subseteq S /\ n \in S /\ n \in t.red
      /\ u \in S /\ \A m \in S : m \in Keys /\ m \in Node
  <2>1. S \subseteq Keys /\ t \in Trees /\ t.red \subseteq S
    BY <1>1 DEF Shape
  <2>2. n \in S /\ n \in t.red
    BY DEF Inserting
  <2> QED
    BY <2>1, <2>2, KeysAre
<1>3. PICK o \in Sides : o = Opposite(side) /\ \A s \in Sides : s = side \/ s = o
  BY SidesAre
<1>4. KidOf(t, S, b, g, side, f) /\ KidOf(t, S, b, g, o, u)
  BY <1>1, <1>2, <1>3, KidIs
<1>5. /\ f # g /\ u # g
      /\ \A m \in S, s \in Sides : t.child[s][m] \in {f, u} => m = g
  BY <1>4 DEF KidOf
<1>6. PICK v : v = Blacken(t, u)
  OBVIOUS
<1>7. PICK w : w = Blacken(v, f)
  OBVIOUS
<1>8. PICK r : r = Redden(w, g)
  OBVIOUS
<1>9. Shape(v, S, b) /\ v.root = t.root /\ v.child = t.child /\ v.red = t.red \ {u}
  <2>1. Coloured(t, v, S, b, t.red \ {u})
    BY <1>1, <1>2, <1>6, ColouredIs
  <2> QED
    BY <1>1, <1>2, <1>6, <2>1 DEF Coloured
<1>10. Shape(w, S, b) /\ w.root = t.root /\ w.child = t.child /\ w.red = (t.red \ {u}) \ {f}
  <2>1. Coloured(v, w, S, b, (t.red \ {u}) \ {f})
    BY <1>7, <1>9, ColouredIs
  <2> QED
    BY <1>7, <1>9, <2>1 DEF Coloured
<1>11. Shape(r, S, b) /\ r.root = t.root /\ r.child = t.child /\ r.red = ((t.red \ {u}) \ {f}) \cup {g}
  <2>1. Coloured(w, r, S, b, ((t.red \ {u}) \ {f}) \cup {g})
    BY <1>8, <1>10, ColouredIs
  <2> QED
    BY <1>8, <1>10, <2>1 DEF Coloured
<1>12. h \in [Node -> Nat] /\ h[NULL] = 0 /\ \A m \in S, s \in Sides : Level(t, h, m, s, 0)
  BY <1>1, <1>2 DEF Even
<1>13. PICK k : k = [x \in Node |-> IF x \in {f, u} THEN h[x] + 1 ELSE h[x]]
  OBVIOUS
<1>14. /\ k \in [Node -> Nat] /\ k[NULL] = 0
       /\ \A x \in Node : x \notin {f, u} => k[x] = h[x]
       /\ \A x \in {f, u} : k[x] = h[x] + 1
  <2>1. f \in Node /\ u \in Node /\ NULL \in Node /\ NULL \notin {f, u}
    BY <1>2 DEF Node
  <2>2. \A x \in Node : h[x] \in Nat /\ h[x] + 1 \in Nat
    BY <1>12
  <2> QED
    BY <1>12, <1>13, <2>1, <2>2
<1>15. ASSUME NEW m \in S, NEW s \in Sides PROVE Level(r, k, m, s, 0)
  <2>1. h[m] = h[t.child[s][m]] + Black(t, m) /\ t.child[s][m] \in Node
    BY <1>1, <1>2, LevelIs
  <2>2. PICK c : c = t.child[s][m]
    OBVIOUS
  <2>3. k[m] \in Nat /\ h[m] \in Nat /\ h[c] \in Nat
    BY <1>2, <1>12, <1>14, <2>1, <2>2
  <2>4. CASE m = g
    <3>1. c \in {f, u}
      BY <1>3, <2>2, <2>4
    <3>2. k[c] = h[c] + 1 /\ k[m] = h[m] /\ Black(t, m) = 1 /\ Black(r, m) = 0
      BY <1>2, <1>5, <1>11, <1>14, <2>4, <3>1 DEF Black
    <3> QED
      BY <1>11, <2>1, <2>2, <2>3, <3>2 DEF Level
  <2>5. CASE m \in {f, u}
    <3>1. c \notin {f, u}
      BY <1>5, <2>2, <2>5
    <3>2. k[c] = h[c] /\ k[m] = h[m] + 1 /\ Black(t, m) = 0 /\ Black(r, m) = 1
      BY <1>5, <1>11, <1>14, <2>1, <2>2, <2>5, <3>1 DEF Black
    <3> QED
      BY <1>11, <2>1, <2>2, <2>3, <3>2 DEF Level
  <2>6. CASE m \notin {f, u, g}
    <3>1. c \notin {f, u}
      BY <1>5, <2>2, <2>6
    <3>2. k[c] = h[c] /\ k[m] = h[m] /\ Black(t, m) = Black(r, m)
      BY <1>2, <1>11, <1>14, <2>1, <2>2, <2>6, <3>1 DEF Black
    <3> QED
      BY <1>11, <2>1, <2>2, <2>3, <3>2 DEF Level
  <2> QED
    BY <2>4, <2>5, <2>6
<1>16. Even(r, S, k, NULL, "left")
  BY <1>2, <1>14, <1>15 DEF Even
<1>17. \A s \in Sides : r.child[s][g] \notin r.red
  <2>1. \A s \in Sides : r.child[s][g] \in {f, u}
    BY <1>3, <1>11
  <2> QED
    BY <1>5, <1>11, <2>1
<1>18. Calm(r, S, g)
  <2>1. ASSUME NEW m \in S, NEW s \in Sides, m \in r.red, r.child[s][m] \in r.red, m # g, r.child[s][m] # g
        PROVE  FALSE
    <3>1. m \in t.red /\ t.child[s][m] \in t.red /\ m # f
      BY <1>11, <2>1, <1>5
    <3>2. m = n \/ t.child[s][m] = n
      BY <1>1, <3>1 DEF Calm
    <3>3. m # n
      BY <3>1 DEF Inserting
    <3>4. KidOf(t, S, b, m, s, n)
      BY <1>1, <1>2, <3>2, <3>3, KidIs
    <3> QED
      BY <3>1, <3>4 DEF KidOf
  <2>2. t.root \in r.red => t.root = g
    <3>1. t.root # n
      BY <1>1, <1>2, ParentIs
    <3> QED
      BY <1>1, <1>11, <3>1 DEF Calm
  <2> QED
    BY <1>11, <2>1, <2>2 DEF Calm
<1> QED
  BY <1>2, <1>6, <1>7, <1>8, <1>11, <1>16, <1>17, <1>18 DEF Inserting

(* A node between its parent and its grandparent changes places with its    *)
(* parent.                                                                  *)
Turned(t, r, S, n, f, g, side, o) ==
    /\ Inserting(r, S, f) /\ r.red = t.red
    /\ r.child[side][g] = n /\ r.child[side][n] = f /\ r.child[o][g] = t.child[o][g]

LEMMA TurnHolds ==
    ASSUME NEW t, NEW S, NEW n, Inserting(t, S, n), NEW f \in S, f = t.parent[n], f \in t.red, f # n,
           NEW g \in S, g \notin t.red, g # n, NEW side \in Sides, t.child[side][g] = f,
           NEW o, o = Opposite(side), t.child[o][f] = n
    PROVE  Turned(t, Rotate(t, f, side), S, n, f, g, side, o)
<1>1. PICK b, h : Shape(t, S, b) /\ Even(t, S, h, NULL, "left") /\ Calm(t, S, n)
  BY DEF Inserting
<1>2. /\ S \subseteq Keys /\ t \in Trees /\ NULL \notin S /\ t.red \subseteq S /\ n \in S /\ n \in t.red
      /\ \A m \in S : m \in Keys /\ m \in Node /\ m # NULL
  BY <1>1, KeysAre DEF Shape, Inserting
<1>3. o \in Sides /\ o # side /\ \A s \in Sides : s = side \/ s = o
  BY SidesAre
<1>4. PICK r : r = Rotate(t, f, side)
  OBVIOUS
<1>5. Rotated(t, r, f, side, n)
  BY <1>1, <1>2, <1>4, RotateIs
<1>6. PICK c : Shape(r, S, c)
  BY <1>1, <1>2, <1>5, RotateKeeps
<1>7. KidOf(t, S, b, g, side, f) /\ KidOf(t, S, b, f, o, n)
  BY <1>1, <1>2, <1>3, KidIs
<1>8. /\ f # g /\ t.parent[f] = g /\ n # t.root
      /\ \A m \in S, s \in Sides : t.child[s][m] = f => m = g /\ s = side
      /\ \A m \in S, s \in Sides : t.child[s][m] = n => m = f /\ s = o
  BY <1>7 DEF KidOf
<1>9. /\ r.red = t.red /\ r.root = t.root
      /\ \A s \in Sides, m \in Keys : r.child[s][m] =
          IF m = f THEN IF s = side THEN t.child[s][f] ELSE t.child[side][n]
          ELSE IF m = n THEN IF s = side THEN f ELSE t.child[s][n]
          ELSE IF t.child[s][m] = f THEN n ELSE t.child[s][m]
  BY <1>2, <1>5, <1>8 DEF Rotated
<1>10. h[f] = h[n] /\ h[f] \in Nat /\ \A s \in Sides : h[f] = h[t.child[s][f]] /\ h[n] = h[t.child[s][n]]
  <2>1. Black(t, f) = 0 /\ Black(t, n) = 0
    BY <1>2 DEF Black
  <2>2. ASSUME NEW s \in Sides PROVE h[f] = h[t.child[s][f]] /\ h[n] = h[t.child[s][n]] /\ h[f] \in Nat
    BY <1>1, <1>2, <2>1, LevelIs
  <2> QED
    BY <1>3, <2>2
<1>11. /\ \A m \in S, s \in Sides : m \notin {f, n} => h[r.child[s][m]] = h[t.child[s][m]]
       /\ r.child[side][f] = t.child[side][f] /\ r.child[o][f] = t.child[side][n]
       /\ r.child[side][n] = f /\ r.child[o][n] = t.child[o][n]
  <2>1. Swapped(h, h, f, n, t.child[o][n])
    BY <1>10 DEF Swapped
  <2>2. Levelled(t, r, S, h, h, f, side, o, n)
    BY <1>1, <1>2, <1>5, <2>1, RotateLevels
  <2> QED
    BY <2>2 DEF Levelled
<1>12. h \in [Node -> Nat] /\ h[NULL] = 0
  BY <1>1 DEF Even
<1>13. ASSUME NEW m \in S, NEW s \in Sides PROVE Level(r, h, m, s, 0)
  <2>1. h[m] = h[t.child[s][m]] + Black(t, m) /\ h[m] \in Nat /\ Black(r, m) = Black(t, m) /\ Black(t, m) \in {0, 1}
    <3>1. h[m] = h[t.child[s][m]] + Black(t, m) /\ h[m] \in Nat
      BY <1>1, <1>2, LevelIs
    <3> QED
      BY <1>9, <3>1 DEF Black
  <2>2. CASE m \in {f, n}
    <3>1. Black(r, m) = 0
      BY <1>2, <1>9, <2>2 DEF Black
    <3>2. h[r.child[s][m]] = h[m]
      BY <1>3, <1>10, <1>11, <2>2
    <3>3. h[m] = h[m] + 0 + 0
      BY <2>1
    <3> QED
      BY <3>1, <3>2, <3>3 DEF Level
  <2>3. CASE m \notin {f, n}
    <3>1. h[r.child[s][m]] = h[t.child[s][m]] /\ h[t.child[s][m]] \in Nat
      BY <1>1, <1>11, <2>3, LevelIs
    <3> QED
      BY <2>1, <3>1 DEF Level
  <2> QED
    BY <2>2, <2>3
<1>14. Even(r, S, h, NULL, "left")
  BY <1>2, <1>12, <1>13 DEF Even
<1>15. \A s \in Sides : t.child[s][n] \notin t.red /\ (s = side => t.child[s][f] \notin t.red)
  BY <1>1, <1>2, <1>3, <1>8 DEF Calm, Inserting
<1>16. \A s \in Sides : r.child[s][f] \notin r.red
  BY <1>3, <1>9, <1>11, <1>15
<1>17. Calm(r, S, f)
  <2>1. ASSUME NEW m \in S, NEW s \in Sides, m \in r.red, r.child[s][m] \in r.red, m # f, r.child[s][m] # f
        PROVE  FALSE
    <3>1. m # n
      BY <1>3, <1>9, <1>11, <1>15, <2>1
    <3>2. m \in t.red /\ r.child[s][m] = IF t.child[s][m] = f THEN n ELSE t.child[s][m]
      BY <1>2, <1>9, <2>1, <3>1
    <3>3. t.child[s][m] # f
      BY <1>8, <3>2
    <3>4. t.child[s][m] \in t.red /\ t.child[s][m] # n
      BY <1>8, <1>9, <2>1, <3>2, <3>3
    <3> QED
      BY <1>1, <3>1, <3>2, <3>4 DEF Calm
  <2>2. r.root \notin r.red
    BY <1>1, <1>8, <1>9 DEF Calm
  <2> QED
    BY <2>1, <2>2 DEF Calm
<1>18. r.child[side][g] = n /\ r.child[o][g] = t.child[o][g]
  <2>1. t.child[o][g] # f
    BY <1>3, <1>8
  <2> QED
    BY <1>2, <1>3, <1>8, <1>9, <2>1
<1>19. Inserting(r, S, f)
  BY <1>6, <1>9, <1>14, <1>16, <1>17 DEF Inserting
<1> QED
  BY <1>4, <1>9, <1>11, <1>18, <1>19 DEF Turned

(* The parent of a node on its own side takes the place of the grandparent. *)
LEMMA LiftHolds ==
    ASSUME NEW t, NEW S, NEW n, Inserting(t, S, n), NEW f \in S, f \in t.red, f # n,
           NEW g \in S, g \notin t.red, g # n, NEW side \in Sides, t.child[side][g] = f,
           NEW o, o = Opposite(side), t.child[side][f] = n, t.child[o][g] \notin t.red
    PROVE  Inserting(Rotate(Redden(Blacken(t, f), g), g, o), S, n)
<1>1. PICK b, h : Shape(t, S, b) /\ Even(t, S, h, NULL, "left") /\ Calm(t, S, n)
  BY DEF Inserting
<1>2. /\ S \subseteq Keys /\ t \in Trees /\ NULL \notin S /\ t.red \subseteq S /\ n \in S /\ n \in t.red
      /\ \A m \in S : m \in Keys /\ m \in Node /\ m # NULL
  BY <1>1, KeysAre DEF Shape, Inserting
<1>3. o \in Sides /\ o # side /\ side = Opposite(o) /\ \A s \in Sides : s = side \/ s = o
  BY SidesAre
<1>4. KidOf(t, S, b, g, side, f) /\ KidOf(t, S, b, f, side, n)
  BY <1>1, <1>2, <1>3, KidIs
<1>5. /\ f # g /\ n # t.root /\ f # t.root /\ t.parent[f] = g
      /\ \A m \in S, s \in Sides : t.child[s][m] = f => m = g /\ s = side
      /\ \A m \in S, s \in Sides : t.child[s][m] = n => m = f /\ s = side
  BY <1>4 DEF KidOf
<1>6. PICK v : v = Blacken(t, f)
  OBVIOUS
<1>7. PICK w : w = Redden(v, g)
  OBVIOUS
<1>8. Coloured(t, v, S, b, t.red \ {f})
  BY <1>1, <1>6, ColouredIs
<1>9. Coloured(v, w, S, b, v.red \cup {g})
  <2>1. Shape(v, S, b)
    BY <1>8 DEF Coloured
  <2> QED
    BY <1>7, <2>1, ColouredIs
<1>10. /\ Shape(w, S, b) /\ w.red = (t.red \ {f}) \cup {g}
       /\ w.root = t.root /\ w.child = t.child /\ w.parent = t.parent
  BY <1>8, <1>9 DEF Coloured
<1>11. PICK r : r = Rotate(w, g, o)
  OBVIOUS
<1>12. Rotated(w, r, g, o, f)
  <2>1. w.child[Opposite(o)][g] = f /\ f # NULL
    BY <1>2, <1>3, <1>10
  <2>2. Shape(w, S, b)
    BY <1>10
  <2>3. Rotated(w, Rotate(w, g, o), g, o, w.child[Opposite(o)][g])
    BY <1>3, <2>1, <2>2, RotateIs
  <2> QED
    BY <1>11, <2>1, <2>3
<1>13. PICK c : Shape(r, S, c)
  BY <1>2, <1>3, <1>10, <1>12, RotateKeeps
<1>14. /\ r.red = (t.red \ {f}) \cup {g}
       /\ r.root = IF t.parent[g] = NULL THEN f ELSE t.root
       /\ \A s \in Sides, m \in Keys : r.child[s][m] =
          IF m = g THEN IF s = o THEN t.child[s][g] ELSE t.child[o][f]
          ELSE IF m = f THEN IF s = o THEN g ELSE t.child[s][f]
          ELSE IF t.child[s][m] = g THEN f ELSE t.child[s][m]
  BY <1>10, <1>12 DEF Rotated
<1>15. /\ h[g] = h[f] + 1 /\ h[f] \in Nat /\ h[g] \in Nat
       /\ \A s \in Sides : h[t.child[s][g]] = h[f] /\ h[f] = h[t.child[s][f]]
  <2>1. Black(t, f) = 0 /\ Black(t, g) = 1
    BY DEF Black
  <2>2. ASSUME NEW s \in Sides
        PROVE  /\ h[g] = h[t.child[s][g]] + 1 /\ h[f] = h[t.child[s][f]]
               /\ h[f] \in Nat /\ h[g] \in Nat /\ h[t.child[s][g]] \in Nat
    <3>1. h[g] = h[t.child[s][g]] + Black(t, g) /\ h[t.child[s][g]] \in Nat /\ h[g] \in Nat
      BY <1>1, <1>2, LevelIs
    <3>2. h[f] = h[t.child[s][f]] + Black(t, f) /\ h[t.child[s][f]] \in Nat /\ h[f] \in Nat
      BY <1>1, <1>2, LevelIs
    <3> QED
      BY <2>1, <3>1, <3>2
  <2> QED
    BY <1>3, <2>2
<1>16. h \in [Node -> Nat] /\ h[NULL] = 0
  BY <1>1 DEF Even
<1>17. PICK k : k = [x \in Node |-> IF x = f THEN h[g] ELSE IF x = g THEN h[f] ELSE h[x]]
  OBVIOUS
<1>18. /\ k \in [Node -> Nat] /\ k[NULL] = 0 /\ k[f] = h[g] /\ k[g] = h[f]
       /\ \A x \in Node : x \notin {f, g} => k[x] = h[x]
  BY <1>2, <1>5, <1>15, <1>16, <1>17, KeysAre
<1>19. /\ \A m \in S, s \in Sides : m \notin {g, f} => k[r.child[s][m]] = h[w.child[s][m]]
       /\ r.child[o][g] = w.child[o][g] /\ k[r.child[o][g]] = h[w.child[o][g]]
       /\ r.child[side][g] = w.child[o][f] /\ k[r.child[side][g]] = h[w.child[o][f]]
       /\ r.child[o][f] = g /\ r.child[side][f] = w.child[side][f]
       /\ w.child[o][g] # g /\ w.child[o][f] # g
  <2>1. Swapped(h, k, g, f, w.child[side][f])
    BY <1>2, <1>18 DEF Swapped
  <2>2. f = w.child[side][g]
    BY <1>10
  <2>3. Levelled(w, r, S, h, k, g, o, side, f)
    BY <1>3, <1>10, <1>12, <2>1, <2>2, RotateLevels
  <2> QED
    BY <2>3 DEF Levelled
<1>20. k[n] = h[n]
  BY <1>2, <1>18
<1>21. ASSUME NEW m \in S, NEW s \in Sides PROVE Level(r, k, m, s, 0)
  <2>1. CASE m = g
    <3>1. Black(r, m) = 0
      BY <1>14, <2>1 DEF Black
    <3>2. k[r.child[s][m]] = h[f]
      <4>1. k[r.child[o][g]] = h[t.child[o][g]] /\ k[r.child[side][g]] = h[t.child[o][f]]
        BY <1>10, <1>19
      <4>2. h[t.child[o][g]] = h[f] /\ h[t.child[o][f]] = h[f]
        BY <1>3, <1>15
      <4> QED
        BY <1>3, <2>1, <4>1, <4>2
    <3> QED
      BY <1>15, <1>18, <2>1, <3>1, <3>2 DEF Level
  <2>2. CASE m = f
    <3>1. Black(r, m) = 1
      BY <1>5, <1>14, <2>2 DEF Black
    <3>2. k[r.child[s][m]] = h[f]
      <4>1. h[n] = h[f] /\ r.child[side][f] = n
        BY <1>10, <1>15, <1>19
      <4> QED
        BY <1>3, <1>18, <1>19, <1>20, <2>2, <4>1
    <3> QED
      BY <1>15, <1>18, <2>2, <3>1, <3>2 DEF Level
  <2>3. CASE m \notin {f, g}
    <3>1. h[m] = h[t.child[s][m]] + Black(t, m) /\ h[m] \in Nat /\ Black(t, m) \in {0, 1} /\ h[t.child[s][m]] \in Nat
      BY <1>1, <1>2, LevelIs
    <3>2. k[r.child[s][m]] = h[t.child[s][m]] /\ k[m] = h[m] /\ Black(r, m) = Black(t, m)
      BY <1>2, <1>10, <1>14, <1>18, <1>19, <2>3 DEF Black
    <3> QED
      BY <3>1, <3>2 DEF Level
  <2> QED
    BY <2>1, <2>2, <2>3
<1>22. Even(r, S, k, NULL, "left")
  BY <1>2, <1>18, <1>21 DEF Even
<1>23. t.child[o][f] \notin t.red /\ t.child[o][f] # f
  <2>1. t.child[o][f] # n
    BY <1>3, <1>5
  <2>2. t.child[o][f] # f
    BY <1>3, <1>5
  <2> QED
    BY <1>1, <1>3, <2>1, <2>2 DEF Calm
<1>24. \A s \in Sides : r.child[s][n] \notin r.red
  <2>1. ASSUME NEW s \in Sides PROVE t.child[s][n] \notin t.red /\ t.child[s][n] # g
    <3>1. t.child[s][n] \notin t.red
      BY DEF Inserting
    <3>2. ASSUME t.child[s][n] = g PROVE FALSE
      <4>1. KidOf(t, S, b, n, s, g)
        BY <1>1, <1>2, <3>2, KidIs
      <4>2. t.parent[g] = n /\ t.parent[f] = g /\ t.parent[n] = f /\ g # t.root
        BY <1>4, <4>1 DEF KidOf
      <4>3. PICK X \in SUBSET S : X = {n, f, g}
        BY <1>2
      <4>4. X = {}
        BY <1>1, <1>5, <4>2, <4>3, NoEndlessWay
      <4> QED
        BY <4>3, <4>4
    <3> QED
      BY <3>1, <3>2
  <2>2. n # f /\ n # g /\ n \in Keys
    BY <1>2
  <2> QED
    BY <1>14, <2>1, <2>2
<1>25. Calm(r, S, n)
  <2>1. ASSUME NEW m \in S, NEW s \in Sides, m \in r.red, r.child[s][m] \in r.red, m # n, r.child[s][m] # n
        PROVE  FALSE
    <3>1. m # f /\ m \in Keys
      BY <1>2, <1>5, <1>14, <2>1
    <3>2. CASE m = g
      <4>1. r.child[s][m] \in {t.child[o][g], t.child[o][f]}
        BY <1>3, <1>14, <2>1, <3>1, <3>2
      <4>2. t.child[o][g] # g /\ t.child[o][f] # g
        BY <1>10, <1>19
      <4> QED
        BY <1>14, <1>23, <2>1, <4>1, <4>2
    <3>3. CASE m # g
      <4>1. m \in t.red /\ r.child[s][m] = IF t.child[s][m] = g THEN f ELSE t.child[s][m]
        BY <1>14, <2>1, <3>1, <3>3
      <4>2. t.child[s][m] # g
        BY <1>5, <1>14, <2>1, <4>1
      <4>3. t.child[s][m] \in t.red /\ t.child[s][m] # n
        BY <1>14, <2>1, <4>1, <4>2
      <4> QED
        BY <1>1, <2>1, <4>1, <4>3 DEF Calm
    <3> QED
      BY <3>2, <3>3
  <2>2. r.root \notin r.red
    <3>1. t.root \notin t.red
      BY <1>1, <1>5 DEF Calm
    <3>2. g = t.root <=> t.parent[g] = NULL
      BY <1>1, ParentIs
    <3> QED
      BY <1>5, <1>14, <3>1, <3>2
  <2> QED
    BY <2>1, <2>2 DEF Calm
<1>26. n \in r.red
  BY <1>2, <1>14
<1>27. Inserting(r, S, n)
  BY <1>2, <1>13, <1>22, <1>24, <1>25, <1>26 DEF Inserting
<1> QED
  BY <1>6, <1>7, <1>11, <1>27

-----------------------------------------------------------------------------
(* rb_erase.                                                                *)
LEMMA DropHolds ==
    ASSUME NEW t, NEW S, Settled(t, S), NEW n \in S, NEW side \in Sides,
           t.child[Opposite(side)][n] = NULL,
           NEW c, c = t.child[side][n], NEW p, p = t.parent[n], NEW r, Dropped(t, r, n, c)
    PROVE  /\ n \in t.red => Settled(r, S \ {n})
           /\ n \notin t.red => Erasing(r, S \ {n}, c, p)
<1>1. PICK b, h : Shape(t, S, b) /\ Even(t, S, h, NULL, "left") /\ Calm(t, S, NULL)
  BY DEF Settled
<1>2. /\ S \subseteq Keys /\ t \in Trees /\ NULL \notin S /\ t.red \subseteq S /\ t.root \in S
      /\ \A m \in S : m \in Keys /\ m \in Node /\ m # NULL
  BY <1>1, KeysAre DEF Shape
<1>3. /\ r.red = t.red \ {n} /\ r.root = (IF t.root = n THEN c ELSE t.root)
      /\ \A s \in Sides, m \in Keys : r.child[s][m] =
          IF m = n THEN NULL ELSE IF t.child[s][m] = n THEN c ELSE t.child[s][m]
  BY DEF Dropped
<1>4. PICK a : Shape(r, S \ {n}, a)
  BY <1>1, DropKeeps
<1>5. /\ p \in Node
      /\ p = NULL <=> n = t.root
      /\ n # t.root => p \in S /\ p # n
  BY <1>1, <1>2, ParentIs, TreesAre
<1>6. PICK s0 \in Sides : n # t.root => t.child[s0][p] = n
  BY <1>1, <1>2, ParentIs
<1>7. ASSUME NEW m \in S, NEW s \in Sides, t.child[s][m] = n PROVE n # t.root /\ m = p /\ s = s0
  <2>1. KidOf(t, S, b, m, s, n)
    BY <1>1, <1>2, <1>7, KidIs
  <2>2. n # t.root /\ m = p
    BY <2>1 DEF KidOf
  <2>3. KidOf(t, S, b, p, s0, n)
    BY <1>1, <1>2, <1>5, <1>6, <2>2, KidIs
  <2> QED
    BY <1>7, <2>2, <2>3 DEF KidOf
<1>8. c \in Node /\ h[n] = h[c] + Black(t, n) /\ h[n] \in Nat /\ h[c] \in Nat /\ Black(t, n) \in {0, 1}
  BY <1>1, <1>2, LevelIs
<1>9. /\ c # NULL => c \in S \ {n} /\ c # t.root
      /\ c \notin S => c = NULL
  <2>1. c # NULL => KidOf(t, S, b, n, side, c)
    BY <1>1, <1>8, KidIs DEF Node
  <2> QED
    BY <1>2, <2>1 DEF KidOf
<1>10. h \in [Node -> Nat] /\ h[NULL] = 0
  BY <1>1 DEF Even
<1>11. ASSUME NEW m \in S \ {n}, NEW s \in Sides
       PROVE  Level(r, h, m, s, IF m = p /\ s = s0 /\ n # t.root THEN Black(t, n) ELSE 0)
  <2>1. PICK x : x = t.child[s][m]
    OBVIOUS
  <2>2. h[m] = h[x] + Black(t, m) /\ h[m] \in Nat /\ Black(t, m) \in {0, 1} /\ h[x] \in Nat
    BY <1>1, <1>2, <2>1, LevelIs
  <2>3. Black(r, m) = Black(t, m)
    BY <1>3 DEF Black
  <2>4. r.child[s][m] = IF x = n THEN c ELSE x
    BY <1>2, <1>3, <2>1
  <2>5. CASE x = n
    <3>1. m = p /\ s = s0 /\ n # t.root
      BY <1>7, <2>1, <2>5
    <3>2. h[m] = h[c] + Black(t, m) + Black(t, n)
      BY <1>8, <2>2, <2>5
    <3> QED
      BY <2>3, <2>4, <2>5, <3>1, <3>2 DEF Level
  <2>6. CASE x # n
    <3>1. ~(m = p /\ s = s0 /\ n # t.root)
      BY <1>6, <2>1, <2>6
    <3>2. h[m] = h[x] + Black(t, m) + 0
      BY <2>2
    <3> QED
      BY <2>3, <2>4, <2>6, <3>1, <3>2 DEF Level
  <2> QED
    BY <2>5, <2>6
<1>12. ASSUME NEW m \in S \ {n}, NEW s \in Sides, m \in r.red, r.child[s][m] \in r.red
       PROVE  r.child[s][m] = c /\ n \notin t.red /\ c \in t.red
  <2>1. m \in t.red /\ r.child[s][m] = IF t.child[s][m] = n THEN c ELSE t.child[s][m]
    BY <1>2, <1>3, <1>12
  <2>2. \A q \in Sides : t.child[q][m] \notin t.red
    BY <1>1, <1>2, <2>1 DEF Calm
  <2>3. t.child[s][m] = n
    BY <1>3, <1>12, <2>1, <2>2
  <2> QED
    BY <1>3, <1>12, <2>1, <2>2, <2>3
<1>13. t.root \notin t.red
  BY <1>1, <1>2 DEF Calm
<1>14. ASSUME n \in t.red PROVE Settled(r, S \ {n})
  <2>1. Black(t, n) = 0 /\ n # t.root
    BY <1>13, <1>14 DEF Black
  <2>2. \A m \in S \ {n}, s \in Sides : Level(r, h, m, s, 0)
    BY <1>11, <2>1
  <2>3. Even(r, S \ {n}, h, NULL, "left")
    BY <1>2, <1>10, <2>2 DEF Even
  <2>4. Calm(r, S \ {n}, NULL)
    BY <1>3, <1>12, <1>13, <1>14, <2>1 DEF Calm
  <2> QED
    BY <1>4, <2>3, <2>4 DEF Settled
<1>15. ASSUME n \notin t.red PROVE Erasing(r, S \ {n}, c, p)
  <2>1. Black(t, n) = 1
    BY <1>15 DEF Black
  <2>2. c = r.root <=> n = t.root
    BY <1>2, <1>3, <1>9
  <2>3. c # r.root => p \in S \ {n} /\ r.child[s0][p] = c
    BY <1>2, <1>3, <1>5, <1>6, <2>2
  <2>4. PICK q : q = IF c = r.root THEN NULL ELSE p
    OBVIOUS
  <2>5. \A m \in S \ {n}, s \in Sides : Level(r, h, m, s, IF m = q /\ s = s0 THEN 1 ELSE 0)
    <3>1. ASSUME NEW m \in S \ {n}, NEW s \in Sides
          PROVE  (IF m = q /\ s = s0 THEN 1 ELSE 0)
                    = IF m = p /\ s = s0 /\ n # t.root THEN Black(t, n) ELSE 0
      BY <1>2, <2>1, <2>2, <2>4
    <3> QED
      BY <1>11, <3>1
  <2>6. Even(r, S \ {n}, h, q, s0)
    BY <1>10, <2>5 DEF Even
  <2>7. Calm(r, S \ {n}, c)
    BY <1>3, <1>12, <1>13 DEF Calm
  <2>8. c \in (S \ {n}) \cup {NULL}
    BY <1>9
  <2> QED
    BY <1>4, <1>5, <2>3, <2>4, <2>6, <2>7, <2>8 DEF Erasing
<1> QED
  BY <1>14, <1>15

LEMMA RenameLevels ==
    ASSUME NEW t, NEW S, NEW b, Shape(t, S, b), NEW old \in S, NEW n \in Keys, n \notin S,
           NEW r, Renamed(t, r, old, n),
           NEW h, NEW q \in S \cup {NULL}, NEW s0 \in Sides, Even(t, S, h, q, s0),
           NEW c \in S \cup {NULL}, Calm(t, S, c)
    PROVE  /\ \E g : Even(r, (S \ {old}) \cup {n}, g, Ren(q, old, n), s0)
           /\ Calm(r, (S \ {old}) \cup {n}, Ren(c, old, n))
<1> DEFINE U == (S \ {old}) \cup {n}
           N(x) == Ren(x, old, n)
           O(x) == IF x = n THEN old ELSE x
<1>1. S \subseteq Keys /\ NULL \notin S /\ t.red \subseteq S /\ n # old /\ n # NULL /\ t \in Trees
      /\ \A m \in S : m \in Keys /\ m \in Node /\ m # NULL
  BY KeysAre DEF Shape
<1>2. /\ \A x \in S \cup {NULL} : N(x) \in U \cup {NULL} /\ O(N(x)) = x /\ N(x) # old /\ (N(x) = NULL <=> x = NULL)
      /\ \A x \in U : O(x) \in S /\ N(O(x)) = x /\ x \in Keys
  BY <1>1 DEF Ren
<1>3. /\ \A s \in Sides, m \in U : r.child[s][m] = N(t.child[s][O(m)])
      /\ r.root = N(t.root)
      /\ r.red = IF old \in t.red THEN (t.red \ {old}) \cup {n} ELSE t.red
  <2>1. \A m \in U : m \in Keys /\ m # old
    BY <1>1
  <2> QED
    BY <2>1 DEF Renamed
<1>4. \A s \in Sides, m \in S : t.child[s][m] \in S \cup {NULL}
  BY DEF Shape
<1>5. \A m \in U : m \in r.red <=> O(m) \in t.red
  BY <1>1, <1>3
<1>6. \A x \in S \cup {NULL} : N(x) \in r.red <=> x \in t.red
  BY <1>1, <1>3 DEF Ren
<1>7. h \in [Node -> Nat] /\ h[NULL] = 0 /\
      \A m \in S, s \in Sides : Level(t, h, m, s, IF m = q /\ s = s0 THEN 1 ELSE 0)
  BY DEF Even
<1>8. PICK g : g = [x \in Node |-> h[O(x)]]
  OBVIOUS
<1>9. /\ g \in [Node -> Nat] /\ g[NULL] = 0 /\ \A x \in Node : g[x] = h[O(x)]
  <2>1. \A x \in Node : O(x) \in Node
    BY <1>1
  <2>2. NULL \in Node /\ O(NULL) = NULL
    BY <1>1 DEF Node
  <2> HIDE DEF O
  <2> QED
    BY <1>7, <1>8, <2>1, <2>2
<1>10. \A x \in S \cup {NULL} : g[N(x)] = h[x]
  <2>1. \A x \in S \cup {NULL} : N(x) \in Node
    BY <1>1 DEF Ren, Node
  <2> HIDE DEF O, N
  <2> QED
    BY <1>2, <1>9, <2>1
<1>11. \A m \in U : m = N(q) <=> O(m) = q
  BY <1>1 DEF Ren
<1>12. t.root \in S
  BY DEF Shape
<1> HIDE DEF O, N, U
<1>13. ASSUME NEW m \in U, NEW s \in Sides PROVE Level(r, g, m, s, IF m = N(q) /\ s = s0 THEN 1 ELSE 0)
  <2>1. PICK k \in S : k = O(m)
    BY <1>2
  <2>2. PICK x \in S \cup {NULL} : x = t.child[s][k]
    BY <1>4
  <2>3. r.child[s][m] = N(x)
    BY <1>3, <2>1, <2>2
  <2>4. h[k] = h[x] + Black(t, k) + (IF k = q /\ s = s0 THEN 1 ELSE 0)
    BY <1>7, <2>2 DEF Level
  <2>5. g[m] = h[k]
    <3>1. m \in Node
      BY <1>2 DEF Node
    <3> QED
      BY <1>9, <2>1, <3>1
  <2>6. Black(r, m) = Black(t, k)
    BY <1>5, <2>1 DEF Black
  <2>7. m = N(q) <=> k = q
    BY <1>11, <2>1
  <2> QED
    BY <1>10, <2>3, <2>4, <2>5, <2>6, <2>7 DEF Level
<1>14. Even(r, U, g, N(q), s0)
  BY <1>9, <1>13 DEF Even
<1>15. ASSUME NEW m \in U, NEW s \in Sides, m \in r.red, r.child[s][m] \in r.red
       PROVE  m = N(c) \/ r.child[s][m] = N(c)
  <2>1. PICK k \in S : k = O(m) /\ m = N(k)
    BY <1>2
  <2>2. PICK x \in S \cup {NULL} : x = t.child[s][k]
    BY <1>4
  <2>3. r.child[s][m] = N(x)
    BY <1>3, <2>1, <2>2
  <2>4. k \in t.red /\ x \in t.red
    BY <1>5, <1>6, <1>15, <2>1, <2>3
  <2>5. k = c \/ x = c
    BY <2>2, <2>4 DEF Calm
  <2> QED
    BY <2>1, <2>3, <2>5
<1>16. r.root \in r.red => r.root = N(c)
  <2>1. r.root \in r.red => t.root \in t.red
    BY <1>3, <1>6, <1>12
  <2>2. t.root \in t.red => t.root = c
    BY DEF Calm
  <2> QED
    BY <1>3, <2>1, <2>2
<1>17. Calm(r, U, N(c))
  BY <1>15, <1>16 DEF Calm
<1> QED
  BY <1>14, <1>17 DEF N, U

LEMMA RenameHolds ==
    ASSUME NEW t, NEW S, NEW old \in S, NEW n \in Keys, n \notin S,
           \A x \in S \ {old}, s \in Sides : Before(s, x, old) <=> Before(s, x, n),
           NEW r, Renamed(t, r, old, n), NEW U, U = (S \ {old}) \cup {n}
    PROVE  /\ Settled(t, S) => Settled(r, U)
           /\ \A c, p : Erasing(t, S, c, p) /\ c # old => Erasing(r, U, c, Ren(p, old, n))
<1>1. ASSUME Settled(t, S) PROVE Settled(r, U)
  <2>1. PICK b, h : Shape(t, S, b) /\ Even(t, S, h, NULL, "left") /\ Calm(t, S, NULL)
    BY <1>1 DEF Settled
  <2>2. PICK a : Shape(r, U, a)
    BY <2>1, RenameKeeps
  <2>3. "left" \in Sides /\ NULL \in S \cup {NULL} /\ Ren(NULL, old, n) = NULL
    BY <2>1, KeysAre DEF Sides, Ren, Shape
  <2>4. /\ \E g : Even(r, U, g, Ren(NULL, old, n), "left")
        /\ Calm(r, U, Ren(NULL, old, n))
    BY <2>1, <2>3, RenameLevels
  <2> QED
    BY <2>2, <2>3, <2>4 DEF Settled
<1>2. ASSUME NEW c, NEW p, Erasing(t, S, c, p), c # old PROVE Erasing(r, U, c, Ren(p, old, n))
  <2>1. PICK b, h : \E s0 \in Sides :
          /\ Shape(t, S, b) /\ Calm(t, S, c)
          /\ c # t.root => p \in S /\ t.child[s0][p] = c
          /\ Even(t, S, h, IF c = t.root THEN NULL ELSE p, s0)
    BY <1>2 DEF Erasing
  <2>2. PICK s0 \in Sides :
          /\ Shape(t, S, b) /\ Calm(t, S, c)
          /\ c # t.root => p \in S /\ t.child[s0][p] = c
          /\ Even(t, S, h, IF c = t.root THEN NULL ELSE p, s0)
    BY <2>1
  <2>3. PICK q \in S \cup {NULL} : q = IF c = t.root THEN NULL ELSE p
    BY <2>2
  <2>4. c \in S \cup {NULL} /\ p \in Node
    BY <1>2 DEF Erasing
  <2>5. PICK a : Shape(r, U, a)
    BY <2>2, RenameKeeps
  <2>6. PICK g : Even(r, U, g, Ren(q, old, n), s0)
    BY <2>2, <2>3, <2>4, RenameLevels
  <2>7. Calm(r, U, Ren(c, old, n))
    BY <2>2, <2>3, <2>4, RenameLevels
  <2>8. /\ S \subseteq Keys /\ NULL \notin S /\ n # old /\ n # NULL /\ old # NULL /\ t.root \in S
    BY <2>2, KeysAre DEF Shape
  <2>9. Ren(c, old, n) = c /\ c \in U \cup {NULL} /\ Ren(p, old, n) \in Node
    BY <1>2, <2>4, <2>8, KeysAre DEF Ren
  <2>10. r.root = Ren(t.root, old, n) /\ (c = r.root <=> c = t.root)
    BY <1>2, <2>4, <2>8 DEF Renamed, Ren
  <2>11. c # t.root => Ren(p, old, n) \in U /\ r.child[s0][Ren(p, old, n)] = c
    <3> SUFFICES ASSUME c # t.root PROVE Ren(p, old, n) \in U /\ r.child[s0][Ren(p, old, n)] = c
      OBVIOUS
    <3>1. p \in S /\ t.child[s0][p] = c
      BY <2>2
    <3>2. PICK m : m = Ren(p, old, n)
      OBVIOUS
    <3>3. m \in U /\ m \in Keys /\ m # old /\ p = IF m = n THEN old ELSE m
      BY <2>8, <3>1, <3>2 DEF Ren
    <3>4. r.child[s0][m] = Ren(t.child[s0][p], old, n)
      BY <3>3 DEF Renamed
    <3> QED
      BY <2>9, <3>1, <3>2, <3>3, <3>4
  <2>12. (IF c = r.root THEN NULL ELSE Ren(p, old, n)) = Ren(q, old, n)
    BY <2>3, <2>8, <2>10 DEF Ren
  <2> QED
    BY <2>5, <2>6, <2>7, <2>9, <2>10, <2>11, <2>12 DEF Erasing
<1> QED
  BY <1>1, <1>2

LEMMA EraseHolds ==
    ASSUME NEW t, NEW S, Settled(t, S), NEW k \in S
    PROVE  LET x == IF HasTwo(t, k) THEN Substitute(t, k) ELSE Splice(t, k)
           IN  IF x.black THEN Erasing(Release(x.tree, k), S \ {k}, x.child, x.parent)
               ELSE Settled(Release(x.tree, k), S \ {k})
<1>1. PICK b, h : Shape(t, S, b) /\ Even(t, S, h, NULL, "left") /\ Calm(t, S, NULL)
  BY DEF Settled
<1>2. S \subseteq Keys /\ k \in Keys /\ \A m \in S : m \in Int /\ m \in Keys
  BY <1>1, KeysAre DEF Shape
<1>3. ASSUME ~HasTwo(t, k), NEW x, x = Splice(t, k)
      PROVE  IF x.black THEN Erasing(Release(x.tree, k), S \ {k}, x.child, x.parent)
             ELSE Settled(Release(x.tree, k), S \ {k})
  <2>1. PICK side \in Sides :
              /\ t.child[Opposite(side)][k] = NULL
              /\ Dropped(t, Release(x.tree, k), k, t.child[side][k])
              /\ x.child = t.child[side][k]
              /\ x.parent = t.parent[k]
              /\ x.black = (k \notin t.red)
    BY <1>1, <1>3, SpliceIs
  <2>2. PICK r : r = Release(x.tree, k)
    OBVIOUS
  <2>3. /\ k \in t.red => Settled(r, S \ {k})
        /\ k \notin t.red => Erasing(r, S \ {k}, x.child, x.parent)
    BY <2>1, <2>2, DropHolds
  <2> QED
    BY <2>1, <2>2, <2>3
<1>4. ASSUME HasTwo(t, k), NEW x, x = Substitute(t, k)
      PROVE  IF x.black THEN Erasing(Release(x.tree, k), S \ {k}, x.child, x.parent)
             ELSE Settled(Release(x.tree, k), S \ {k})
  <2>0. PICK n \in S : \E g :
              /\ n # k /\ t.child["left"][n] = NULL /\ b["left"][n] = k
              /\ t.child["right"][n] # k
              /\ Dropped(t, g, n, t.child["right"][n])
              /\ Renamed(g, Release(x.tree, k), k, n)
              /\ x.child = t.child["right"][n]
              /\ x.parent = Ren(t.parent[n], k, n)
              /\ x.black = (n \notin t.red)
    BY <1>1, <1>4, SubstituteIs
  <2>1. PICK g :
              /\ n # k /\ t.child["left"][n] = NULL /\ b["left"][n] = k
              /\ t.child["right"][n] # k
              /\ Dropped(t, g, n, t.child["right"][n])
              /\ Renamed(g, Release(x.tree, k), k, n)
              /\ x.child = t.child["right"][n]
              /\ x.parent = Ren(t.parent[n], k, n)
              /\ x.black = (n \notin t.red)
    BY <2>0
  <2>2. "left" \in Sides /\ "right" \in Sides /\ "left" = Opposite("right")
    BY DEF Sides, Opposite
  <2>3. PICK r : r = Release(x.tree, k)
    OBVIOUS
  <2>4. PICK T : T = S \ {n}
    OBVIOUS
  <2>5. PICK c : c = t.child["right"][n]
    OBVIOUS
  <2>6. /\ n \in t.red => Settled(g, T)
        /\ n \notin t.red => Erasing(g, T, c, t.parent[n])
    BY <2>1, <2>2, <2>4, <2>5, DropHolds
  <2>7. Before("left", k, n)
    <3>1. Before("left", b["left"][n], n)
      BY <1>1, <2>2 DEF Shape
    <3> QED
      BY <2>1, <3>1
  <2>8. \A y \in T \ {k}, s \in Sides : Before(s, y, k) <=> Before(s, y, n)
    <3> SUFFICES ASSUME NEW y \in T \ {k}, NEW s \in Sides PROVE Before(s, y, k) <=> Before(s, y, n)
      OBVIOUS
    <3>1. ~(Before("left", y, n) /\ Before("left", k, y))
      BY <1>1, <2>1, <2>2, <2>4, Gap
    <3> QED
      BY <1>2, <2>1, <2>4, <2>7, <3>1 DEF Before, Sides
  <2>9. k \in T /\ n \in Keys /\ n \notin T
    BY <1>2, <2>1, <2>4
  <2>10. S \ {k} = (T \ {k}) \cup {n}
    BY <2>1, <2>4
  <2>11. PICK U : U = S \ {k}
    OBVIOUS
  <2>12. /\ Settled(g, T) => Settled(r, U)
         /\ \A d, p : Erasing(g, T, d, p) /\ d # k => Erasing(r, U, d, Ren(p, k, n))
    BY <2>1, <2>3, <2>8, <2>9, <2>10, <2>11, RenameHolds
  <2> QED
    BY <2>1, <2>3, <2>5, <2>6, <2>11, <2>12
<1> QED
  BY <1>3, <1>4

-----------------------------------------------------------------------------
(* __rb_erase_color.                                                        *)
LEMMA EraseEndsHolds ==
    ASSUME NEW t, NEW S, NEW n, NEW p, Erasing(t, S, n, p), IsRed(t, n) \/ n = t.root
    PROVE  Settled(IF n = NULL THEN t ELSE Blacken(t, n), S)
<1>1. PICK b, h : \E s0 \in Sides :
          /\ Shape(t, S, b) /\ Calm(t, S, n)
          /\ n # t.root => p \in S /\ t.child[s0][p] = n
          /\ Even(t, S, h, IF n = t.root THEN NULL ELSE p, s0)
  BY DEF Erasing
<1>2. PICK s0 \in Sides :
          /\ Shape(t, S, b) /\ Calm(t, S, n)
          /\ n # t.root => p \in S /\ t.child[s0][p] = n
          /\ Even(t, S, h, IF n = t.root THEN NULL ELSE p, s0)
  BY <1>1
<1>3. PICK q : q = IF n = t.root THEN NULL ELSE p
  OBVIOUS
<1>4. /\ S \subseteq Keys /\ t \in Trees /\ NULL \notin S /\ t.red \subseteq S
      /\ \A m \in S : m \in Keys /\ m \in Node /\ m # NULL
      /\ n \in S \cup {NULL} /\ \A s \in Sides, m \in S : t.child[s][m] \in S \cup {NULL}
  BY <1>2, KeysAre DEF Shape, Erasing
<1>5. h \in [Node -> Nat] /\ h[NULL] = 0 /\ Even(t, S, h, q, s0)
  BY <1>2, <1>3 DEF Even
<1>6. CASE n = NULL
  <2>1. t.root = NULL /\ S = {}
    BY <1>2, <1>6 DEF IsRed, Shape
  <2>2. Even(t, S, h, NULL, "left")
    BY <1>5, <2>1 DEF Even
  <2>3. Calm(t, S, NULL)
    BY <1>2, <1>6
  <2> QED
    BY <1>2, <1>6, <2>2, <2>3 DEF Settled
<1>7. CASE n # NULL
  <2>1. PICK r : r = Blacken(t, n)
    OBVIOUS
  <2>2. Coloured(t, r, S, b, t.red \ {n})
    BY <1>2, <1>4, <1>7, <2>1, ColouredIs
  <2>3. Shape(r, S, b) /\ r.red = t.red \ {n} /\ r.root = t.root /\ r.child = t.child
    BY <2>2 DEF Coloured
  <2>4. Calm(r, S, NULL)
    BY <1>2, <2>3 DEF Calm
  <2>5. n \in S /\ Black(t, n) \in {0, 1} /\ (n # t.root => Black(t, n) = 0)
    BY <1>4, <1>7 DEF Black, IsRed
  <2>6. PICK k : k = [x \in Node |-> IF x = n THEN h[x] + 1 - Black(t, n) ELSE h[x]]
    OBVIOUS
  <2>7. k \in [Node -> Nat] /\ k[NULL] = 0 /\ k[n] = h[n] + 1 - Black(t, n)
        /\ \A x \in Node : x # n => k[x] = h[x]
    <3>1. \A x \in Node : h[x] \in Nat /\ h[x] + 1 - Black(t, n) \in Nat
      BY <1>5, <2>5
    <3> QED
      BY <1>4, <1>5, <1>7, <2>5, <2>6, <3>1, KeysAre
  <2>8. ASSUME NEW m \in S, NEW s \in Sides PROVE Level(r, k, m, s, 0)
    <3>1. PICK x : x = t.child[s][m]
      OBVIOUS
    <3>2. /\ x \in Node /\ h[m] \in Nat /\ h[x] \in Nat /\ Black(t, m) \in {0, 1}
          /\ h[m] = h[x] + Black(t, m) + IF m = q /\ s = s0 THEN 1 ELSE 0
      BY <1>2, <1>5, <3>1, LevelIs
    <3>3. r.child[s][m] = x
      BY <2>3, <3>1
    <3>4. x = n <=> m = q /\ s = s0
      <4>1. ASSUME x = n PROVE m = q /\ s = s0
        <5>1. KidOf(t, S, b, m, s, n)
          BY <1>2, <1>4, <2>5, <3>1, <4>1, KidIs
        <5>2. n # t.root
          BY <5>1 DEF KidOf
        <5>3. p \in S /\ t.child[s0][p] = n
          BY <1>2, <5>2
        <5> QED
          BY <1>3, <5>1, <5>2, <5>3 DEF KidOf
      <4>2. ASSUME m = q, s = s0 PROVE x = n
        BY <1>2, <1>3, <1>4, <3>1, <4>2
      <4> QED
        BY <4>1, <4>2
    <3>5. CASE m = n
      <4>1. x # n
        <5> SUFFICES ASSUME x = n PROVE FALSE
          OBVIOUS
        <5>1. KidOf(t, S, b, n, s, n)
          BY <1>2, <1>4, <2>5, <3>1, <3>5, KidIs
        <5> QED
          BY <5>1 DEF KidOf
      <4>2. Black(r, m) = 1 /\ k[x] = h[x] /\ k[m] = h[m] + 1 - Black(t, m)
        BY <2>3, <2>7, <3>2, <3>5, <4>1 DEF Black
      <4>3. k[m] = h[x] + 1
        BY <3>2, <3>4, <4>1, <4>2
      <4> QED
        BY <3>2, <3>3, <4>2, <4>3 DEF Level
    <3>6. CASE m # n
      <4>1. Black(r, m) = Black(t, m) /\ k[m] = h[m]
        BY <1>4, <2>3, <2>7, <3>6 DEF Black
      <4>2. CASE x = n
        <5>1. n # t.root
          BY <1>3, <1>4, <3>4, <4>2
        <5>2. k[x] = h[x] + 1
          BY <2>5, <2>7, <3>2, <4>2, <5>1
        <5> QED
          BY <3>2, <3>3, <3>4, <4>1, <4>2, <5>2 DEF Level
      <4>3. CASE x # n
        <5>1. k[x] = h[x]
          BY <2>7, <3>2, <4>3
        <5> QED
          BY <3>2, <3>3, <3>4, <4>1, <4>3, <5>1 DEF Level
      <4> QED
        BY <4>2, <4>3
    <3> QED
      BY <3>5, <3>6
  <2>9. Even(r, S, k, NULL, "left")
    BY <1>4, <2>7, <2>8 DEF Even
  <2> QED
    BY <1>7, <2>1, <2>3, <2>4, <2>9 DEF Settled
<1> QED
  BY <1>6, <1>7

(* On side s0 of p, where n is, a black node is missing.                    *)
Lacking(t, S, n, p, s0) ==
    /\ p \in S /\ s0 \in Sides /\ t.child[s0][p] = n /\ n \notin t.red
    /\ \E b, h : Shape(t, S, b) /\ Calm(t, S, NULL) /\ Even(t, S, h, p, s0)

LEMMA MissingIs ==
    ASSUME NEW t, NEW S, NEW n, NEW p, Erasing(t, S, n, p), ~IsRed(t, n), n # t.root
    PROVE  \E s0 \in Sides :
              s0 = (IF t.child["left"][p] = n THEN "left" ELSE "right") /\ Lacking(t, S, n, p, s0)
<1>1. PICK b, h : \E s0 \in Sides :
          /\ Shape(t, S, b) /\ Calm(t, S, n)
          /\ n # t.root => p \in S /\ t.child[s0][p] = n
          /\ Even(t, S, h, IF n = t.root THEN NULL ELSE p, s0)
  BY DEF Erasing
<1>2. PICK s0 \in Sides :
          /\ Shape(t, S, b) /\ Calm(t, S, n)
          /\ p \in S /\ t.child[s0][p] = n
          /\ Even(t, S, h, p, s0)
  BY <1>1
<1>3. /\ NULL \notin S /\ t.red \subseteq S /\ n \notin t.red /\ n \in S \cup {NULL} /\ S \subseteq Keys
  BY <1>2, KeysAre DEF Shape, Erasing, IsRed
<1>4. Calm(t, S, NULL)
  BY <1>2, <1>3 DEF Calm
<1>5. Lacking(t, S, n, p, s0)
  BY <1>2, <1>3, <1>4 DEF Lacking
<1>6. PICK o \in Sides : o = Opposite(s0) /\ o # s0 /\ \A s \in Sides : s = s0 \/ s = o
  BY SidesAre
<1>7. t.child[o][p] # n
  <2>1. PICK x : x = t.child[o][p]
    OBVIOUS
  <2>2. CASE n = NULL
    <3>1. h[p] = h[n] + Black(t, p) + 1 /\ h[n] = 0 /\ Black(t, p) \in {0, 1}
      <4>1. h[n] = 0
        BY <1>2, <2>2 DEF Even
      <4> QED
        BY <1>2, <4>1, LevelIs
    <3>2. h[p] = h[x] + Black(t, p) /\ h[x] \in Nat
      BY <1>2, <1>6, <2>1, LevelIs
    <3>3. h[x] # h[n]
      BY <3>1, <3>2
    <3> QED
      BY <2>1, <3>3
  <2>3. CASE n # NULL
    <3>1. KidOf(t, S, b, p, s0, n)
      BY <1>2, <1>3, <2>3, KidIs
    <3> QED
      BY <1>2, <1>6, <3>1 DEF KidOf
  <2> QED
    BY <2>2, <2>3
<1>8. s0 = IF t.child["left"][p] = n THEN "left" ELSE "right"
  BY <1>2, <1>6, <1>7 DEF Sides
<1> QED
  BY <1>5, <1>8

LEMMA LackingIs ==
    ASSUME NEW t, NEW S, NEW n, NEW p, NEW s0, Lacking(t, S, n, p, s0),
           NEW o, o = Opposite(s0), NEW x, x = t.child[o][p]
    PROVE  /\ o \in Sides /\ o # s0 /\ s0 = Opposite(o) /\ \A s \in Sides : s = s0 \/ s = o
           /\ p \in S /\ n \notin t.red /\ t.child[s0][p] = n
           /\ x \in S /\ x # NULL /\ x # n /\ x # p /\ n # p /\ x # t.root /\ t.parent[x] = p
           /\ \A m \in S, s \in Sides : t.child[s][m] = x => m = p /\ s = o
           /\ S \subseteq Keys /\ t \in Trees /\ NULL \notin S /\ t.red \subseteq S
           /\ \A m \in S : m \in Keys /\ m \in Node /\ m # NULL
           /\ t.root \notin t.red /\ t.root \in S
           /\ \A m \in S, s \in Sides : m \in t.red => t.child[s][m] \notin t.red
<1>1. PICK b, h : Shape(t, S, b) /\ Calm(t, S, NULL) /\ Even(t, S, h, p, s0)
  BY DEF Lacking
<1>2. p \in S /\ n \notin t.red /\ t.child[s0][p] = n /\ s0 \in Sides
  BY DEF Lacking
<1>3. o \in Sides /\ o # s0 /\ s0 = Opposite(o) /\ \A s \in Sides : s = s0 \/ s = o
  BY <1>2, SidesAre
<1>4. /\ S \subseteq Keys /\ t \in Trees /\ NULL \notin S /\ t.red \subseteq S /\ t.root \in S
      /\ \A m \in S : m \in Keys /\ m \in Node /\ m # NULL
  BY <1>1, <1>2, KeysAre DEF Shape
<1>5. t.root \notin t.red /\ \A m \in S, s \in Sides : m \in t.red => t.child[s][m] \notin t.red
  BY <1>1, <1>4 DEF Calm
<1>6. h[p] = h[n] + Black(t, p) + 1 /\ Black(t, p) \in {0, 1} /\ h[n] \in Nat
  BY <1>1, <1>2, LevelIs
<1>7. h[p] = h[x] + Black(t, p) /\ h[x] \in Nat /\ x \in Node
  BY <1>1, <1>2, <1>3, LevelIs
<1>8. h[x] # 0
  BY <1>6, <1>7
<1>9. x # NULL /\ x \in Keys
  BY <1>1, <1>7, <1>8 DEF Even, Node
<1>10. KidOf(t, S, b, p, o, x)
  BY <1>1, <1>2, <1>3, <1>9, KidIs
<1>11. n # p
  <2> SUFFICES ASSUME n = p PROVE FALSE
    OBVIOUS
  <2>1. KidOf(t, S, b, p, s0, p)
    BY <1>1, <1>2, <1>4, KidIs
  <2> QED
    BY <2>1 DEF KidOf
<1>12. x # n
  BY <1>2, <1>3, <1>10 DEF KidOf
<1> QED
  BY <1>2, <1>3, <1>4, <1>5, <1>9, <1>10, <1>11, <1>12 DEF KidOf

(* A red sibling is rotated away: then the sibling is black.                *)
LEMMA PrepareHolds ==
    ASSUME NEW t, NEW S, NEW n, NEW p, NEW s0, Lacking(t, S, n, p, s0),
           NEW o, o = Opposite(s0), NEW x, x = t.child[o][p]
    PROVE  LET r == IF IsRed(t, x) THEN Rotate(Redden(Blacken(t, x), p), p, s0) ELSE t
           IN  Lacking(r, S, n, p, s0) /\ r.child[o][p] \notin r.red
<1>1. PICK b, h : Shape(t, S, b) /\ Calm(t, S, NULL) /\ Even(t, S, h, p, s0)
  BY DEF Lacking
<1>2. /\ o \in Sides /\ o # s0 /\ s0 = Opposite(o) /\ \A s \in Sides : s = s0 \/ s = o
      /\ p \in S /\ n \notin t.red /\ t.child[s0][p] = n
      /\ x \in S /\ x # NULL /\ x # n /\ x # p /\ n # p /\ x # t.root
      /\ \A m \in S, s \in Sides : t.child[s][m] = x => m = p /\ s = o
      /\ S \subseteq Keys /\ t \in Trees /\ NULL \notin S /\ t.red \subseteq S
      /\ \A m \in S : m \in Keys /\ m \in Node /\ m # NULL
      /\ t.root \notin t.red /\ t.root \in S
      /\ \A m \in S, s \in Sides : m \in t.red => t.child[s][m] \notin t.red
  BY LackingIs
<1>3. s0 \in Sides
  BY DEF Lacking
<1>6. /\ t.child[s0][p] = n /\ x # n /\ x # p /\ n # p /\ o # s0 /\ p \in Node /\ x \in Node
      /\ \A s \in Sides : s = s0 \/ s = o
  BY <1>2
<1>4. CASE ~IsRed(t, x)
  BY <1>2, <1>4 DEF IsRed
<1>5. CASE IsRed(t, x)
  <2>1. x \in t.red /\ p \notin t.red
    BY <1>2, <1>5 DEF IsRed
  <2>2. PICK v : v = Blacken(t, x)
    OBVIOUS
  <2>3. PICK w : w = Redden(v, p)
    OBVIOUS
  <2>4. Coloured(t, v, S, b, t.red \ {x})
    BY <1>1, <1>2, <2>2, ColouredIs
  <2>5. Coloured(v, w, S, b, v.red \cup {p})
    <3>1. Shape(v, S, b)
      BY <2>4 DEF Coloured
    <3> QED
      BY <1>2, <2>3, <3>1, ColouredIs
  <2>6. /\ Shape(w, S, b) /\ w.red = (t.red \ {x}) \cup {p}
        /\ w.root = t.root /\ w.child = t.child /\ w.parent = t.parent
    BY <2>4, <2>5 DEF Coloured
  <2>7. PICK r : r = Rotate(w, p, s0)
    OBVIOUS
  <2>8. Rotated(w, r, p, s0, x)
    <3>1. w.child[Opposite(s0)][p] = x
      BY <2>6
    <3>2. Shape(w, S, b) /\ x # NULL
      BY <1>2, <2>6
    <3>3. Rotated(w, Rotate(w, p, s0), p, s0, w.child[Opposite(s0)][p])
      BY <1>2, <1>3, <3>1, <3>2, RotateIs
    <3> QED
      BY <2>7, <3>1, <3>3
  <2>9. PICK c : Shape(r, S, c)
    <3>1. x = w.child[Opposite(s0)][p]
      BY <2>6
    <3> QED
      BY <1>2, <1>3, <2>6, <2>8, <3>1, RotateKeeps
  <2>10. r.red = (t.red \ {x}) \cup {p} /\ r.root = IF t.parent[p] = NULL THEN x ELSE t.root
    BY <2>6, <2>8 DEF Rotated
  <2>11. h \in [Node -> Nat] /\ h[NULL] = 0
    BY <1>1 DEF Even
  <2>12. Black(t, p) = 1 /\ Black(t, x) = 0
    BY <2>1 DEF Black
  <2>13. h[p] = h[n] + 2 /\ h[p] = h[x] + 1 /\ h[p] \in Nat /\ h[x] \in Nat /\ h[n] \in Nat
    <3>1. h[p] = h[n] + 1 + 1 /\ h[n] \in Nat /\ h[p] \in Nat
      BY <1>1, <1>2, <1>3, <2>12, LevelIs
    <3>2. h[p] = h[x] + 1 + 0 /\ h[x] \in Nat
      BY <1>1, <1>2, <2>12, LevelIs
    <3> QED
      BY <3>1, <3>2
  <2>14. ASSUME NEW s \in Sides PROVE h[t.child[s][x]] = h[x]
    <3>1. h[x] = h[t.child[s][x]] + 0 + 0 /\ h[t.child[s][x]] \in Nat
      BY <1>1, <1>2, <2>12, LevelIs
    <3> QED
      BY <3>1
  <2>15. PICK k : k = [y \in Node |-> IF y = x THEN h[p] ELSE IF y = p THEN h[x] ELSE h[y]]
    OBVIOUS
  <2>16. /\ k \in [Node -> Nat] /\ k[NULL] = 0 /\ k[x] = h[p] /\ k[p] = h[x]
         /\ \A y \in Node : y \notin {x, p} => k[y] = h[y]
    BY <1>2, <2>11, <2>13, <2>15, KeysAre
  <2>17. Levelled(w, r, S, h, k, p, s0, o, x)
    <3>1. Swapped(h, k, p, x, w.child[o][x])
      BY <1>2, <2>16 DEF Swapped
    <3>2. x = w.child[o][p]
      BY <2>6
    <3> QED
      BY <1>2, <1>3, <2>6, <2>8, <3>1, <3>2, RotateLevels
  <2>a. PICK inner : inner = t.child[s0][x]
    OBVIOUS
  <2>b. PICK outer : outer = t.child[o][x]
    OBVIOUS
  <2>c. inner \in Node /\ outer \in Node /\ h[inner] = h[x] /\ h[outer] = h[x]
    <3>1. inner \in Node /\ outer \in Node
      BY <1>2, <1>3, <2>a, <2>b, TreesAre
    <3> QED
      BY <1>2, <1>3, <2>14, <2>a, <2>b, <3>1
  <2>d. \A m \in S, s \in Sides : m \notin {p, x} => k[r.child[s][m]] = h[t.child[s][m]]
    <3>1. \A m \in S, s \in Sides : m \notin {p, x} => k[r.child[s][m]] = h[w.child[s][m]]
      BY <2>17 DEF Levelled
    <3>2. w.child = t.child
      BY <2>6
    <3> QED
      BY <3>1, <3>2
  <2>18. /\ r.child[s0][p] = n /\ r.child[o][p] = inner
         /\ r.child[s0][x] = p /\ r.child[o][x] = outer
         /\ inner \notin {p, x} /\ outer \notin {p, x}
    BY <1>6, <2>6, <2>17, <2>a, <2>b DEF Levelled
  <2>19. k[inner] = h[x] /\ k[outer] = h[x] /\ k[n] = h[n]
    <3>1. n \in Node
      BY <1>2, <1>3, TreesAre
    <3> QED
      BY <1>6, <2>16, <2>18, <2>c, <3>1
  <2>20. ASSUME NEW m \in S, NEW s \in Sides PROVE Level(r, k, m, s, IF m = p /\ s = s0 THEN 1 ELSE 0)
    <3>1. CASE m = p
      <4>1. Black(r, m) = 0
        BY <2>10, <3>1 DEF Black
      <4>2. CASE s = s0
        <5>1. k[m] = k[r.child[s][m]] + 0 + 1
          BY <2>13, <2>16, <2>18, <2>19, <3>1, <4>2
        <5> QED
          BY <3>1, <4>1, <4>2, <5>1 DEF Level
      <4>3. CASE s = o
        <5>1. k[m] = k[r.child[s][m]] + 0 + 0
          BY <2>13, <2>16, <2>18, <2>19, <3>1, <4>3
        <5> QED
          BY <1>2, <3>1, <4>1, <4>3, <5>1 DEF Level
      <4> QED
        BY <1>2, <4>2, <4>3
    <3>2. CASE m = x
      <4>1. Black(r, m) = 1
        BY <1>2, <2>10, <3>2 DEF Black
      <4>2. k[r.child[s][m]] = h[x]
        BY <1>6, <2>16, <2>18, <2>19, <3>2
      <4>3. k[m] = k[r.child[s][m]] + 1 + 0
        BY <2>13, <2>16, <3>2, <4>2
      <4> QED
        BY <1>2, <3>2, <4>1, <4>3 DEF Level
    <3>3. CASE m \notin {p, x}
      <4>1. h[m] = h[t.child[s][m]] + Black(t, m) + 0
        BY <1>1, <1>2, <3>3, LevelIs
      <4>2. k[r.child[s][m]] = h[t.child[s][m]] /\ k[m] = h[m] /\ Black(r, m) = Black(t, m)
        BY <1>2, <2>10, <2>16, <2>d, <3>3 DEF Black
      <4> QED
        BY <3>3, <4>1, <4>2 DEF Level
    <3> QED
      BY <3>1, <3>2, <3>3
  <2>21. Even(r, S, k, p, s0)
    BY <2>16, <2>20 DEF Even
  <2>22. r.child[o][p] \notin r.red /\ n \notin r.red
    <3>1. inner \notin t.red /\ n \notin t.red
      BY <1>2, <1>3, <2>1, <2>a
    <3> QED
      BY <1>6, <2>10, <2>18, <3>1
  <2>23. r.root \notin r.red
    <3>1. p = t.root <=> t.parent[p] = NULL
      BY <1>1, <1>2, ParentIs
    <3> QED
      BY <1>2, <2>10, <3>1
  <2>24. ASSUME NEW m \in S, NEW s \in Sides, m \in r.red, r.child[s][m] \in r.red PROVE FALSE
    <3>1. m # p
      BY <1>6, <2>18, <2>22, <2>24
    <3>2. m # x /\ m \in t.red
      BY <1>2, <2>10, <2>24, <3>1
    <3>3. r.child[s][m] = IF t.child[s][m] = p THEN x ELSE t.child[s][m]
      BY <1>2, <2>6, <2>8, <3>1, <3>2 DEF Rotated
    <3>4. t.child[s][m] # p
      BY <1>2, <2>10, <2>24, <3>3
    <3> QED
      BY <1>2, <2>10, <2>24, <3>2, <3>3, <3>4
  <2>25. Calm(r, S, NULL)
    BY <2>23, <2>24 DEF Calm
  <2>26. Lacking(r, S, n, p, s0)
    BY <1>2, <1>3, <2>9, <2>18, <2>21, <2>22, <2>25 DEF Lacking
  <2>27. r = IF IsRed(t, x) THEN Rotate(Redden(Blacken(t, x), p), p, s0) ELSE t
    BY <1>5, <2>2, <2>3, <2>7
  <2> QED
    BY <2>22, <2>26, <2>27
<1> QED
  BY <1>4, <1>5

(* A sibling with black children turns red.                                 *)
LEMMA UpHolds ==
    ASSUME NEW t, NEW S, NEW n, NEW p, NEW s0, Lacking(t, S, n, p, s0),
           NEW o, o = Opposite(s0), NEW x, x = t.child[o][p], x \notin t.red,
           \A s \in Sides : t.child[s][x] \notin t.red
    PROVE  Erasing(Redden(t, x), S, p, t.parent[p])
<1>1. PICK b, h : Shape(t, S, b) /\ Calm(t, S, NULL) /\ Even(t, S, h, p, s0)
  BY DEF Lacking
<1>2. /\ o \in Sides /\ o # s0 /\ \A s \in Sides : s = s0 \/ s = o
      /\ p \in S /\ n \notin t.red /\ t.child[s0][p] = n
      /\ x \in S /\ x # NULL /\ x # n /\ x # p /\ n # p /\ x # t.root
      /\ \A m \in S, s \in Sides : t.child[s][m] = x => m = p /\ s = o
      /\ S \subseteq Keys /\ t \in Trees /\ NULL \notin S
      /\ \A m \in S : m \in Keys /\ m \in Node /\ m # NULL
      /\ t.root \notin t.red
      /\ \A m \in S, s \in Sides : m \in t.red => t.child[s][m] \notin t.red
  BY LackingIs
<1>3. s0 \in Sides
  BY DEF Lacking
<1>4. PICK r : r = Redden(t, x)
  OBVIOUS
<1>5. Coloured(t, r, S, b, t.red \cup {x})
  BY <1>1, <1>2, <1>4, ColouredIs
<1>6. Shape(r, S, b) /\ r.red = t.red \cup {x} /\ r.root = t.root /\ r.child = t.child
  BY <1>5 DEF Coloured
<1>7. PICK q : q = t.parent[p]
  OBVIOUS
<1>8. /\ q \in Node /\ (q = NULL <=> p = t.root)
      /\ p # t.root => q \in S /\ q # p
  BY <1>1, <1>2, <1>7, ParentIs, TreesAre
<1>9. PICK s1 \in Sides : p # t.root => t.child[s1][q] = p
  BY <1>1, <1>2, <1>3, <1>7, ParentIs
<1>10. ASSUME NEW m \in S, NEW s \in Sides PROVE t.child[s][m] = p <=> p # t.root /\ m = q /\ s = s1
  <2>1. ASSUME t.child[s][m] = p PROVE p # t.root /\ m = q /\ s = s1
    <3>1. KidOf(t, S, b, m, s, p)
      BY <1>1, <1>2, <2>1, KidIs
    <3>2. p # t.root /\ m = q
      BY <1>7, <3>1 DEF KidOf
    <3>3. KidOf(t, S, b, q, s1, p)
      BY <1>1, <1>2, <1>8, <1>9, <3>2, KidIs
    <3> QED
      BY <2>1, <3>2, <3>3 DEF KidOf
  <2> QED
    BY <1>9, <2>1
<1>11. h \in [Node -> Nat] /\ h[NULL] = 0
  BY <1>1 DEF Even
<1>12. Black(t, x) = 1 /\ Black(t, p) \in {0, 1}
  BY DEF Black
<1>13. /\ h[p] = h[n] + Black(t, p) + 1 /\ h[p] = h[x] + Black(t, p)
       /\ h[p] \in Nat /\ h[x] \in Nat /\ h[n] \in Nat
  <2>1. h[p] = h[n] + Black(t, p) + 1 /\ h[n] \in Nat /\ h[p] \in Nat
    BY <1>1, <1>2, <1>3, LevelIs
  <2>2. h[p] = h[x] + Black(t, p) + 0 /\ h[x] \in Nat
    BY <1>1, <1>2, LevelIs
  <2> QED
    BY <1>12, <2>1, <2>2
<1>14. PICK k : k = [y \in Node |-> IF y \in {x, p} THEN h[y] - 1 ELSE h[y]]
  OBVIOUS
<1>15. /\ k \in [Node -> Nat] /\ k[NULL] = 0 /\ k[x] = h[x] - 1 /\ k[p] = h[p] - 1
       /\ \A y \in Node : y \notin {x, p} => k[y] = h[y]
  <2>1. x \in Node /\ p \in Node /\ x # NULL /\ p # NULL
    BY <1>2
  <2>2. h[x] - 1 \in Nat /\ h[p] - 1 \in Nat
    BY <1>12, <1>13
  <2> QED
    BY <1>11, <1>14, <2>1, <2>2, KeysAre
<1>16. PICK d : d = IF p = r.root THEN NULL ELSE q
  OBVIOUS
<1>17. /\ d = NULL \/ d = q
       /\ \A m \in S : m = d <=> p # t.root /\ m = q
  BY <1>2, <1>6, <1>8, <1>16
<1>18. ASSUME NEW m \in S, NEW s \in Sides PROVE Level(r, k, m, s, IF m = d /\ s = s1 THEN 1 ELSE 0)
  <2>1. PICK y : y = t.child[s][m]
    OBVIOUS
  <2>2. /\ y \in Node /\ h[m] \in Nat /\ h[y] \in Nat /\ Black(t, m) \in {0, 1}
        /\ h[m] = h[y] + Black(t, m) + IF m = p /\ s = s0 THEN 1 ELSE 0
    BY <1>1, <2>1, LevelIs
  <2>3. r.child[s][m] = y
    BY <1>6, <2>1
  <2>4. y = p <=> m = d /\ s = s1
    BY <1>10, <1>17, <2>1
  <2>5. CASE m = p
    <3>1. y # p /\ m # x
      BY <1>2, <1>8, <1>10, <2>1, <2>5
    <3>2. Black(r, m) = Black(t, m) /\ k[m] = h[m] - 1
      BY <1>6, <1>15, <2>5, <3>1 DEF Black
    <3>3. CASE s = s0
      <4>1. y = n
        BY <1>2, <2>1, <2>5, <3>3
      <4>2. k[y] = h[y]
        BY <1>2, <1>15, <2>2, <4>1
      <4>3. k[m] = k[y] + Black(t, m) + 0
        BY <2>2, <2>5, <3>2, <3>3, <4>2
      <4> QED
        BY <2>3, <2>4, <3>1, <3>2, <4>3 DEF Level
    <3>4. CASE s = o
      <4>1. y = x
        BY <2>1, <2>5, <3>4
      <4>2. k[y] = h[y] - 1
        BY <1>15, <4>1
      <4>3. k[m] = k[y] + Black(t, m) + 0
        BY <1>2, <2>2, <2>5, <3>2, <3>4, <4>2
      <4> QED
        BY <2>3, <2>4, <3>1, <3>2, <4>3 DEF Level
    <3> QED
      BY <1>2, <3>3, <3>4
  <2>6. CASE m = x
    <3>1. y # p /\ y # x
      <4>1. y # x
        BY <1>2, <2>1, <2>6
      <4>2. y # p
        <5> SUFFICES ASSUME y = p PROVE FALSE
          OBVIOUS
        <5>1. x = q /\ p # t.root
          BY <1>10, <2>1, <2>6
        <5>2. KidOf(t, S, b, p, o, x)
          BY <1>1, <1>2, KidIs
        <5>3. t.parent[x] = p /\ t.parent[p] = x
          BY <1>7, <5>1, <5>2 DEF KidOf
        <5>4. PICK X \in SUBSET S : X = {x, p}
          BY <1>2
        <5>5. X = {}
          BY <1>1, <1>2, <5>1, <5>3, <5>4, NoEndlessWay
        <5> QED
          BY <5>4, <5>5
      <4> QED
        BY <4>1, <4>2
    <3>2. Black(r, m) = 0 /\ k[m] = h[m] - 1 /\ k[y] = h[y] /\ Black(t, m) = 1
      BY <1>6, <1>12, <1>15, <2>2, <2>6, <3>1 DEF Black
    <3>3. k[m] = k[y] + 0 + 0
      BY <1>2, <2>2, <2>6, <3>2
    <3> QED
      BY <2>3, <2>4, <3>1, <3>2, <3>3 DEF Level
  <2>7. CASE m \notin {p, x}
    <3>1. Black(r, m) = Black(t, m) /\ k[m] = h[m] /\ y # x
      BY <1>2, <1>6, <1>15, <2>1, <2>7 DEF Black
    <3>2. h[m] = h[y] + Black(t, m)
      BY <2>2, <2>7
    <3>3. CASE y = p
      <4>1. k[m] = k[y] + Black(t, m) + 1
        BY <1>15, <2>2, <3>1, <3>2, <3>3
      <4> QED
        BY <2>3, <2>4, <3>1, <3>3, <4>1 DEF Level
    <3>4. CASE y # p
      <4>1. k[m] = k[y] + Black(t, m) + 0
        BY <1>15, <2>2, <3>1, <3>2, <3>4
      <4> QED
        BY <2>3, <2>4, <3>1, <3>4, <4>1 DEF Level
    <3> QED
      BY <3>3, <3>4
  <2> QED
    BY <2>5, <2>6, <2>7
<1>19. Even(r, S, k, d, s1)
  BY <1>15, <1>18 DEF Even
<1>20. ASSUME NEW m \in S, NEW s \in Sides, m \in r.red, r.child[s][m] \in r.red
       PROVE  m = p
  <2>1. PICK y : y = t.child[s][m]
    OBVIOUS
  <2>2. y \in t.red \cup {x} /\ m \in t.red \cup {x}
    BY <1>6, <1>20, <2>1
  <2>3. m # x
    <3> SUFFICES ASSUME m = x PROVE FALSE
      OBVIOUS
    <3>1. y \notin t.red
      BY <2>1
    <3>2. y # x
      BY <1>2, <2>1
    <3> QED
      BY <2>2, <3>1, <3>2
  <2>4. y \notin t.red
    BY <1>2, <2>1, <2>2, <2>3
  <2> QED
    BY <1>2, <2>1, <2>2, <2>4
<1>21. Calm(r, S, p)
  <2>1. r.root \notin r.red
    BY <1>2, <1>6
  <2> QED
    BY <1>20, <2>1 DEF Calm
<1>22. p # r.root => q \in S /\ r.child[s1][q] = p
  BY <1>6, <1>8, <1>9
<1>23. Erasing(r, S, p, q)
  BY <1>2, <1>6, <1>8, <1>16, <1>19, <1>21, <1>22 DEF Erasing
<1> QED
  BY <1>4, <1>7, <1>23

(* A black sibling whose inner child is red is rotated away, and then it is *)
(* the outer child of the new sibling.                                      *)
Straight(r, S, n, p, s0, o) ==
    /\ Lacking(r, S, n, p, s0) /\ r.child[o][p] \notin r.red
    /\ r.child[o][r.child[o][p]] \in r.red

LEMMA StraightenHolds ==
    ASSUME NEW t, NEW S, NEW n, NEW p, NEW s0, Lacking(t, S, n, p, s0),
           NEW o, o = Opposite(s0), NEW x, x = t.child[o][p], x \notin t.red,
           NEW y, y = t.child[s0][x], y \in t.red, t.child[o][x] \notin t.red
    PROVE  Straight(Rotate(Redden(Blacken(t, y), x), x, o), S, n, p, s0, o)
<1>1. PICK b, h : Shape(t, S, b) /\ Calm(t, S, NULL) /\ Even(t, S, h, p, s0)
  BY DEF Lacking
<1>2. /\ o \in Sides /\ o # s0 /\ s0 = Opposite(o) /\ \A s \in Sides : s = s0 \/ s = o
      /\ p \in S /\ n \notin t.red /\ t.child[s0][p] = n
      /\ x \in S /\ x # NULL /\ x # n /\ x # p /\ n # p /\ x # t.root /\ t.parent[x] = p
      /\ \A m \in S, s \in Sides : t.child[s][m] = x => m = p /\ s = o
      /\ S \subseteq Keys /\ t \in Trees /\ NULL \notin S /\ t.red \subseteq S
      /\ \A m \in S : m \in Keys /\ m \in Node /\ m # NULL
      /\ t.root \notin t.red /\ t.root \in S
      /\ \A m \in S, s \in Sides : m \in t.red => t.child[s][m] \notin t.red
  BY LackingIs
<1>3. s0 \in Sides
  BY DEF Lacking
<1>4. y \in S /\ y # NULL /\ y # x /\ x \in Keys /\ y \in Keys /\ x \in Node /\ y \in Node /\ p \in Keys
  BY <1>2
<1>d. /\ t.child[s0][p] = n /\ t.child[o][p] = x /\ x # n /\ x # p /\ n # p /\ o # s0 /\ y # x
      /\ o \in Sides /\ x \in S /\ \A s \in Sides : s = s0 \/ s = o
  BY <1>2, <1>4
<1>5. PICK v : v = Blacken(t, y)
  OBVIOUS
<1>6. PICK w : w = Redden(v, x)
  OBVIOUS
<1>7. Coloured(t, v, S, b, t.red \ {y})
  BY <1>1, <1>4, <1>5, ColouredIs
<1>8. Coloured(v, w, S, b, v.red \cup {x})
  <2>1. Shape(v, S, b)
    BY <1>7 DEF Coloured
  <2> QED
    BY <1>2, <1>6, <2>1, ColouredIs
<1>9. /\ Shape(w, S, b) /\ w.red = (t.red \ {y}) \cup {x}
      /\ w.root = t.root /\ w.child = t.child /\ w.parent = t.parent
  BY <1>7, <1>8 DEF Coloured
<1>10. PICK r : r = Rotate(w, x, o)
  OBVIOUS
<1>11. Rotated(w, r, x, o, y)
  <2>1. w.child[Opposite(o)][x] = y
    BY <1>2, <1>9
  <2>2. Shape(w, S, b) /\ y # NULL
    BY <1>4, <1>9
  <2>3. Rotated(w, Rotate(w, x, o), x, o, w.child[Opposite(o)][x])
    BY <1>2, <2>1, <2>2, RotateIs
  <2> QED
    BY <1>10, <2>1, <2>3
<1>12. PICK c : Shape(r, S, c)
  <2>1. y = w.child[Opposite(o)][x]
    BY <1>2, <1>9
  <2> QED
    BY <1>2, <1>4, <1>9, <1>11, <2>1, RotateKeeps
<1>13. r.red = (t.red \ {y}) \cup {x} /\ r.root = t.root
  <2>1. r.red = w.red /\ r.root = IF w.parent[x] = NULL THEN y ELSE w.root
    BY <1>11 DEF Rotated
  <2>2. t.parent[x] # NULL
    BY <1>2
  <2> QED
    BY <1>9, <2>1, <2>2
<1>14. h \in [Node -> Nat] /\ h[NULL] = 0
  BY <1>1 DEF Even
<1>15. Black(t, x) = 1 /\ Black(t, y) = 0 /\ Black(t, p) \in {0, 1}
  BY DEF Black
<1>a. PICK inner : inner = t.child[o][y]
  OBVIOUS
<1>b. PICK far : far = t.child[s0][y]
  OBVIOUS
<1>c. PICK outer : outer = t.child[o][x]
  OBVIOUS
<1>f. ASSUME NEW m \in S, NEW s \in Sides, NEW z, z = t.child[s][m]
      PROVE  /\ z \in Node /\ h[z] \in Nat
             /\ h[m] = h[z] + Black(t, m) + IF m = p /\ s = s0 THEN 1 ELSE 0
  BY <1>1, <1>f, LevelIs
<1>e. ASSUME NEW s \in Sides, NEW z, z = t.child[s][y]
      PROVE  /\ z \in Node /\ h[z] \in Nat
             /\ h[y] = h[z] + Black(t, y) + IF y = p /\ s = s0 THEN 1 ELSE 0
  <2>1. PICK m \in S : m = y
    BY <1>4
  <2>2. z = t.child[s][m]
    BY <1>e, <2>1
  <2>3. PICK d : d = IF m = p /\ s = s0 THEN 1 ELSE 0
    OBVIOUS
  <2>4. z \in Node /\ h[z] \in Nat /\ h[m] = h[z] + Black(t, m) + d
    BY <1>f, <2>2, <2>3
  <2> QED
    BY <2>1, <2>3, <2>4
<1>16. /\ h[x] = h[y] + 1 /\ h[x] = h[outer] + 1 /\ h[y] = h[inner] /\ h[y] = h[far]
       /\ h[x] \in Nat /\ h[y] \in Nat /\ h[outer] \in Nat /\ inner \in Node /\ outer \in Node /\ far \in Node
  <2>1. h[x] = h[y] + 1 + 0 /\ h[x] \in Nat /\ h[y] \in Nat
    BY <1>1, <1>2, <1>3, <1>15, LevelIs
  <2>2. h[x] = h[outer] + 1 + 0 /\ h[outer] \in Nat /\ outer \in Node
    <3>1. /\ outer \in Node /\ h[outer] \in Nat
          /\ h[x] = h[outer] + Black(t, x) + IF x = p /\ o = s0 THEN 1 ELSE 0
      BY <1>1, <1>d, <1>c, LevelIs
    <3> QED
      BY <1>15, <1>d, <3>1
  <2>3. y # p
    <3>1. h[p] = h[x] + Black(t, p) /\ h[p] \in Nat
      BY <1>1, <1>2, LevelIs
    <3> QED
      BY <1>15, <2>1, <3>1
  <2>4. h[y] = h[inner] + 0 + 0 /\ h[inner] \in Nat /\ inner \in Node
    <3>1. /\ inner \in Node /\ h[inner] \in Nat
          /\ h[y] = h[inner] + Black(t, y) + IF y = p /\ o = s0 THEN 1 ELSE 0
      BY <1>a, <1>d, <1>e
    <3> QED
      BY <1>15, <1>d, <3>1
  <2>5. h[y] = h[far] + 0 + 0 /\ h[far] \in Nat /\ far \in Node
    <3>1. /\ far \in Node /\ h[far] \in Nat
          /\ h[y] = h[far] + Black(t, y) + IF y = p THEN 1 ELSE 0
      BY <1>3, <1>b, <1>e
    <3> QED
      BY <1>15, <2>3, <3>1
  <2> QED
    BY <2>1, <2>2, <2>4, <2>5
<1>17. y # p
  <2>1. h[p] = h[x] + Black(t, p) /\ h[p] \in Nat
    BY <1>1, <1>2, LevelIs
  <2> QED
    BY <1>15, <1>16, <2>1
<1>18. PICK k : k = [z \in Node |-> IF z = y THEN h[x] ELSE IF z = x THEN h[y] ELSE h[z]]
  OBVIOUS
<1>19. /\ k \in [Node -> Nat] /\ k[NULL] = 0 /\ k[y] = h[x] /\ k[x] = h[y]
       /\ \A z \in Node : z \notin {x, y} => k[z] = h[z]
  BY <1>2, <1>4, <1>14, <1>16, <1>18, KeysAre
<1>20. Levelled(w, r, S, h, k, x, o, s0, y)
  <2>1. Swapped(h, k, x, y, w.child[s0][y])
    BY <1>14, <1>19 DEF Swapped
  <2>2. y = w.child[s0][x]
    BY <1>9
  <2> QED
    BY <1>2, <1>4, <1>9, <1>11, <2>1, <2>2, RotateLevels
<1>21. \A m \in S, s \in Sides : m \notin {x, y} => k[r.child[s][m]] = h[t.child[s][m]]
  <2>1. \A m \in S, s \in Sides : m \notin {x, y} => k[r.child[s][m]] = h[w.child[s][m]]
    BY <1>20 DEF Levelled
  <2>2. w.child = t.child
    BY <1>9
  <2> QED
    BY <2>1, <2>2
<1>22. /\ r.child[o][x] = outer /\ r.child[s0][x] = inner
       /\ r.child[o][y] = x /\ r.child[s0][y] = far
       /\ inner \notin {x, y} /\ outer \notin {x, y} /\ far \notin {x, y}
  <2>1. w.child = t.child
    BY <1>9
  <2>2. /\ r.child[o][x] = w.child[o][x] /\ r.child[s0][x] = w.child[o][y]
        /\ r.child[o][y] = x /\ r.child[s0][y] = w.child[s0][y]
        /\ w.child[o][y] \notin {x, y} /\ w.child[o][x] \notin {x, y} /\ w.child[s0][y] \notin {x, y}
    BY <1>20 DEF Levelled
  <2> QED
    BY <1>a, <1>b, <1>c, <2>1, <2>2
<1>23. k[inner] = h[y] /\ k[outer] = h[y] /\ k[far] = h[y]
  <2>1. inner \notin {x, y} /\ outer \notin {x, y} /\ far \notin {x, y}
    BY <1>22
  <2>2. \A z \in Node : z \notin {x, y} => k[z] = h[z]
    BY <1>19
  <2>3. k[inner] = h[inner] /\ k[outer] = h[outer] /\ k[far] = h[far]
    BY <1>16, <2>1, <2>2
  <2>4. h[inner] = h[y] /\ h[far] = h[y]
    BY <1>16
  <2>5. h[outer] = h[y]
    BY <1>16
  <2> QED
    BY <2>3, <2>4, <2>5
<1>24. ASSUME NEW m \in S, NEW s \in Sides PROVE Level(r, k, m, s, IF m = p /\ s = s0 THEN 1 ELSE 0)
  <2>1. CASE m = x
    <3>1. Black(r, m) = 0
      BY <1>13, <2>1 DEF Black
    <3>2. k[r.child[s][m]] = h[y] /\ k[m] = h[y] /\ h[y] \in Nat
      BY <1>2, <1>16, <1>19, <1>22, <1>23, <2>1
    <3>3. k[m] = k[r.child[s][m]] + 0 + 0
      BY <3>2
    <3> QED
      BY <1>2, <2>1, <3>1, <3>3 DEF Level
  <2>2. CASE m = y
    <3>1. Black(r, m) = 1
      BY <1>4, <1>13, <2>2 DEF Black
    <3>2. k[r.child[s][m]] = h[y] /\ k[m] = h[x] /\ h[x] = h[y] + 1 /\ h[y] \in Nat
      <4>1. r.child[s][m] = x \/ r.child[s][m] = far
        BY <1>d, <1>22, <2>2
      <4>2. k[x] = h[y] /\ k[far] = h[y] /\ k[y] = h[x]
        BY <1>19, <1>23
      <4> QED
        BY <1>16, <2>2, <4>1, <4>2
    <3>3. k[m] = k[r.child[s][m]] + 1 + 0
      BY <3>2
    <3> QED
      BY <1>17, <2>2, <3>1, <3>3 DEF Level
  <2>3. CASE m \notin {x, y}
    <3>1. h[m] = h[t.child[s][m]] + Black(t, m) + IF m = p /\ s = s0 THEN 1 ELSE 0
      BY <1>1, LevelIs
    <3>2. k[r.child[s][m]] = h[t.child[s][m]] /\ k[m] = h[m] /\ Black(r, m) = Black(t, m)
      <4>1. m \in Node
        BY <1>2
      <4>2. k[m] = h[m]
        BY <1>19, <2>3, <4>1
      <4>3. m \in r.red <=> m \in t.red
        BY <1>13, <2>3
      <4> QED
        BY <1>21, <2>3, <4>2, <4>3 DEF Black
    <3> QED
      BY <3>1, <3>2 DEF Level
  <2> QED
    BY <2>1, <2>2, <2>3
<1>25. Even(r, S, k, p, s0)
  BY <1>19, <1>24 DEF Even
<1>26. y \notin r.red /\ x \in r.red /\ n \notin r.red
  BY <1>2, <1>4, <1>13
<1>27. \A s \in Sides, m \in Keys : r.child[s][m] =
          IF m = x THEN IF s = o THEN t.child[s][x] ELSE t.child[o][y]
          ELSE IF m = y THEN IF s = o THEN x ELSE t.child[s][y]
          ELSE IF t.child[s][m] = x THEN y ELSE t.child[s][m]
  <2>1. w.child = t.child
    BY <1>9
  <2>2. \A s \in Sides, m \in Keys : r.child[s][m] =
          IF m = x THEN IF s = o THEN w.child[s][x] ELSE w.child[o][y]
          ELSE IF m = y THEN IF s = o THEN x ELSE w.child[s][y]
          ELSE IF w.child[s][m] = x THEN y ELSE w.child[s][m]
    BY <1>11 DEF Rotated
  <2>3. ASSUME NEW s \in Sides, NEW m \in Keys
        PROVE  r.child[s][m] =
          IF m = x THEN IF s = o THEN t.child[s][x] ELSE t.child[o][y]
          ELSE IF m = y THEN IF s = o THEN x ELSE t.child[s][y]
          ELSE IF t.child[s][m] = x THEN y ELSE t.child[s][m]
    <3>1. r.child[s][m] =
          IF m = x THEN IF s = o THEN w.child[s][x] ELSE w.child[o][y]
          ELSE IF m = y THEN IF s = o THEN x ELSE w.child[s][y]
          ELSE IF w.child[s][m] = x THEN y ELSE w.child[s][m]
      BY <2>2
    <3> QED
      BY <2>1, <3>1
  <2> QED
    BY <2>3
<1>28. r.child[s0][p] = n /\ r.child[o][p] = y
  <2>1. o \in Sides /\ p \in Keys
    BY <1>2
  <2>2. ASSUME NEW s \in Sides
        PROVE  r.child[s][p] = IF t.child[s][p] = x THEN y ELSE t.child[s][p]
    BY <1>17, <1>27, <1>d, <2>1
  <2> QED
    BY <1>3, <1>d, <2>1, <2>2
<1>29. ASSUME NEW m \in S, NEW s \in Sides, m \in r.red, r.child[s][m] \in r.red PROVE FALSE
  <2>1. CASE m = x
    <3>1. inner \notin t.red /\ outer \notin t.red
      BY <1>2, <1>4, <1>a, <1>c
    <3>2. inner \notin r.red /\ outer \notin r.red
      BY <1>13, <1>22, <3>1
    <3> QED
      BY <1>2, <1>22, <1>29, <2>1, <3>2
  <2>2. CASE m # x
    <3>1. m \in t.red /\ m # y
      BY <1>13, <1>26, <1>29, <2>2
    <3>2. r.child[s][m] = IF t.child[s][m] = x THEN y ELSE t.child[s][m]
      <4>1. m \in Keys
        BY <1>2
      <4> QED
        BY <1>27, <2>2, <3>1, <4>1
    <3>3. t.child[s][m] # x
      BY <1>26, <1>29, <3>2
    <3> QED
      BY <1>2, <1>13, <1>29, <3>1, <3>2, <3>3
  <2> QED
    BY <2>1, <2>2
<1>30. Calm(r, S, NULL)
  <2>1. r.root \notin r.red
    BY <1>2, <1>13
  <2> QED
    BY <1>29, <2>1 DEF Calm
<1>31. Lacking(r, S, n, p, s0)
  BY <1>2, <1>3, <1>12, <1>25, <1>26, <1>28, <1>30 DEF Lacking
<1> QED
  <2>1. r.child[o][p] = y /\ y \notin r.red /\ x \in r.red
    BY <1>26, <1>28
  <2>2. r.child[o][y] = x
    BY <1>22
  <2>3. r = Rotate(Redden(Blacken(t, y), x), x, o)
    BY <1>5, <1>6, <1>10
  <2>4. Straight(r, S, n, p, s0, o)
    BY <1>31, <2>1, <2>2 DEF Straight
  <2> QED
    BY <2>3, <2>4

(* The last rotation makes up for the missing black node.                   *)
LEMMA LastHolds ==
    ASSUME NEW t, NEW S, NEW n, NEW p, NEW s0, Lacking(t, S, n, p, s0),
           NEW o, o = Opposite(s0), NEW y, y = t.child[o][p], y \notin t.red,
           NEW z, z = t.child[o][y], z \in t.red, NEW q \in Node
    PROVE  LET r == Rotate(Blacken(Blacken(Paint(t, y, p), p), z), p, s0)
           IN  r.root \in S /\ Erasing(r, S, r.root, q)
<1>1. PICK b, h : Shape(t, S, b) /\ Calm(t, S, NULL) /\ Even(t, S, h, p, s0)
  BY DEF Lacking
<1>2. /\ o \in Sides /\ o # s0 /\ s0 = Opposite(o) /\ \A s \in Sides : s = s0 \/ s = o
      /\ p \in S /\ n \notin t.red /\ t.child[s0][p] = n
      /\ y \in S /\ y # NULL /\ y # n /\ y # p /\ n # p /\ y # t.root /\ t.parent[y] = p
      /\ \A m \in S, s \in Sides : t.child[s][m] = y => m = p /\ s = o
      /\ S \subseteq Keys /\ t \in Trees /\ NULL \notin S /\ t.red \subseteq S
      /\ \A m \in S : m \in Keys /\ m \in Node /\ m # NULL
      /\ t.root \notin t.red /\ t.root \in S
      /\ \A m \in S, s \in Sides : m \in t.red => t.child[s][m] \notin t.red
  BY LackingIs
<1>3. s0 \in Sides
  BY DEF Lacking
<1>4. /\ p \in S /\ y \in S /\ z \in S /\ p \in Keys /\ y \in Keys /\ z \in Keys
      /\ p \in Node /\ y \in Node /\ z \in Node /\ n \in Node
      /\ z # NULL /\ y # NULL /\ p # NULL
  BY <1>2, <1>3, TreesAre
<1>5. /\ t.child[s0][p] = n /\ t.child[o][p] = y /\ t.child[o][y] = z
      /\ y # n /\ y # p /\ n # p /\ o # s0 /\ y # z /\ n # z
      /\ o \in Sides /\ \A s \in Sides : s = s0 \/ s = o
  BY <1>2
<1>6. PICK u : u = Paint(t, y, p)
  OBVIOUS
<1>7. PICK v : v = Blacken(u, p)
  OBVIOUS
<1>8. PICK w : w = Blacken(v, z)
  OBVIOUS
<1>9. Coloured(t, u, S, b, IF p \in t.red THEN t.red \cup {y} ELSE t.red \ {y})
  BY <1>1, <1>4, <1>6, ColouredIs
<1>10. Coloured(u, v, S, b, u.red \ {p})
  <2>1. Shape(u, S, b)
    BY <1>9 DEF Coloured
  <2> QED
    BY <1>4, <1>7, <2>1, ColouredIs
<1>11. Coloured(v, w, S, b, v.red \ {z})
  <2>1. Shape(v, S, b)
    BY <1>10 DEF Coloured
  <2> QED
    BY <1>4, <1>8, <2>1, ColouredIs
<1>12. /\ Shape(w, S, b)
       /\ w.red = ((IF p \in t.red THEN t.red \cup {y} ELSE t.red \ {y}) \ {p}) \ {z}
       /\ w.root = t.root /\ w.child = t.child /\ w.parent = t.parent
  BY <1>9, <1>10, <1>11 DEF Coloured
<1>13. PICK r : r = Rotate(w, p, s0)
  OBVIOUS
<1>14. Rotated(w, r, p, s0, y)
  <2>1. w.child[Opposite(s0)][p] = y
    BY <1>5, <1>12
  <2>2. Shape(w, S, b) /\ y # NULL
    BY <1>4, <1>12
  <2>3. Rotated(w, Rotate(w, p, s0), p, s0, w.child[Opposite(s0)][p])
    BY <1>3, <1>4, <2>1, <2>2, RotateIs
  <2> QED
    BY <1>13, <2>1, <2>3
<1>15. PICK c : Shape(r, S, c)
  <2>1. y = w.child[Opposite(s0)][p]
    BY <1>5, <1>12
  <2> QED
    BY <1>3, <1>4, <1>12, <1>14, <2>1, RotateKeeps
<1>16. /\ p \notin r.red /\ z \notin r.red /\ (y \in r.red <=> p \in t.red)
       /\ \A m : m \notin {p, y, z} => (m \in r.red <=> m \in t.red)
       /\ r.root = IF t.parent[p] = NULL THEN y ELSE t.root
  <2>1. r.red = w.red /\ r.root = IF t.parent[p] = NULL THEN y ELSE t.root
    BY <1>12, <1>14 DEF Rotated
  <2>2. y # p /\ y # z
    BY <1>5
  <2> QED
    BY <1>12, <2>1, <2>2
<1>17. h \in [Node -> Nat] /\ h[NULL] = 0
  BY <1>1 DEF Even
<1>18. Black(t, y) = 1 /\ Black(t, z) = 0 /\ Black(t, p) \in {0, 1}
  BY DEF Black
<1>a. PICK inner : inner = t.child[s0][y]
  OBVIOUS
<1>f. ASSUME NEW m \in S, NEW s \in Sides, NEW x, x = t.child[s][m]
      PROVE  /\ x \in Node /\ h[x] \in Nat /\ h[m] \in Nat
             /\ h[m] = h[x] + Black(t, m) + IF m = p /\ s = s0 THEN 1 ELSE 0
  BY <1>1, <1>f, LevelIs
<1>19. /\ inner \in Node /\ h[inner] \in Nat /\ h[y] \in Nat /\ h[p] \in Nat /\ h[n] \in Nat
       /\ h[z] \in Nat /\ h[inner] = h[n] /\ h[z] = h[n] /\ h[y] = h[n] + 1
       /\ h[p] = h[n] + 1 + Black(t, p)
  <2>1. h[p] = h[n] + Black(t, p) + 1 /\ h[n] \in Nat /\ h[p] \in Nat
    BY <1>3, <1>4, <1>5, <1>f
  <2>2. h[p] = h[y] + Black(t, p) + 0 /\ h[y] \in Nat
    BY <1>4, <1>5, <1>f
  <2>3. PICK m \in S : m = y
    BY <1>4
  <2>4. m # p /\ inner = t.child[s0][m] /\ z = t.child[o][m]
    BY <1>5, <1>a, <2>3
  <2>5. h[m] = h[inner] + Black(t, m) + 0 /\ h[inner] \in Nat /\ inner \in Node
    BY <1>3, <1>f, <2>4
  <2>6. h[m] = h[z] + Black(t, m) + 0 /\ h[z] \in Nat
    BY <1>5, <1>f, <2>4
  <2>7. h[y] = h[inner] + 1 + 0 /\ h[y] = h[z] + 1 + 0
    BY <1>18, <2>3, <2>5, <2>6
  <2> QED
    BY <1>18, <2>1, <2>2, <2>5, <2>6, <2>7
<1>20. PICK k : k = [x \in Node |-> IF x = y THEN h[p]
                                    ELSE IF x \in {p, z} THEN h[n] + 1 ELSE h[x]]
  OBVIOUS
<1>21. z # p
  BY <1>18, <1>19
<1>22. /\ k \in [Node -> Nat] /\ k[NULL] = 0 /\ k[y] = h[p] /\ k[p] = h[n] + 1 /\ k[z] = h[n] + 1
       /\ \A x \in Node : x \notin {p, y, z} => k[x] = h[x]
  <2>1. h[p] \in Nat /\ h[n] + 1 \in Nat
    BY <1>19
  <2> QED
    BY <1>4, <1>5, <1>17, <1>20, <2>1, KeysAre
<1>23. Levelled(w, r, S, h, k, p, s0, o, y)
  <2>1. Swapped(h, k, p, y, z)
    BY <1>17, <1>22 DEF Swapped
  <2>2. y = w.child[o][p] /\ z = w.child[o][y]
    BY <1>5, <1>12
  <2>3. Swapped(h, k, p, y, w.child[o][y])
    BY <2>1, <2>2
  <2> QED
    BY <1>3, <1>4, <1>12, <1>14, <2>2, <2>3, RotateLevels
<1>24. \A m \in S, s \in Sides : m \notin {p, y} => k[r.child[s][m]] = h[t.child[s][m]]
  <2>1. \A m \in S, s \in Sides : m \notin {p, y} => k[r.child[s][m]] = h[w.child[s][m]]
    BY <1>23 DEF Levelled
  <2>2. w.child = t.child
    BY <1>12
  <2> QED
    BY <2>1, <2>2
<1>25. /\ r.child[s0][p] = n /\ k[n] = h[n]
       /\ r.child[o][p] = inner /\ k[inner] = h[inner]
       /\ r.child[s0][y] = p /\ r.child[o][y] = z
  <2>1. w.child = t.child
    BY <1>12
  <2>2. /\ r.child[s0][p] = w.child[s0][p] /\ k[r.child[s0][p]] = h[w.child[s0][p]]
        /\ r.child[o][p] = w.child[s0][y] /\ k[r.child[o][p]] = h[w.child[s0][y]]
        /\ r.child[s0][y] = p /\ r.child[o][y] = w.child[o][y]
    BY <1>23 DEF Levelled
  <2> QED
    BY <1>5, <1>a, <2>1, <2>2
<1>26. ASSUME NEW m \in S, NEW s \in Sides, NEW d \in {0} PROVE Level(r, k, m, s, d)
  <2>1. CASE m = p
    <3>1. Black(r, m) = 1
      BY <1>16, <2>1 DEF Black
    <3>2. r.child[s][m] = n \/ r.child[s][m] = inner
      BY <1>5, <1>25, <2>1
    <3>3. k[r.child[s][m]] = h[n] /\ k[m] = h[n] + 1 /\ h[n] \in Nat
      <4>1. k[n] = h[n] /\ k[inner] = h[n]
        BY <1>19, <1>25
      <4>2. k[p] = h[n] + 1
        BY <1>22
      <4> QED
        BY <1>19, <2>1, <3>2, <4>1, <4>2
    <3>4. k[m] = k[r.child[s][m]] + 1 + 0
      BY <3>3
    <3> QED
      BY <3>1, <3>4 DEF Level
  <2>2. CASE m = y
    <3>1. Black(r, m) = Black(t, p)
      BY <1>16, <2>2 DEF Black
    <3>2. r.child[s][m] = p \/ r.child[s][m] = z
      BY <1>5, <1>25, <2>2
    <3>3. k[r.child[s][m]] = h[n] + 1 /\ k[m] = h[p]
      <4>1. k[p] = h[n] + 1 /\ k[z] = h[n] + 1 /\ k[y] = h[p]
        BY <1>22
      <4> QED
        BY <2>2, <3>2, <4>1
    <3>4. k[m] = k[r.child[s][m]] + Black(t, p) + 0
      <4>1. h[p] = h[n] + 1 + Black(t, p) /\ h[n] \in Nat /\ Black(t, p) \in {0, 1}
        BY <1>18, <1>19
      <4> QED
        BY <3>3, <4>1
    <3> QED
      BY <3>1, <3>4 DEF Level
  <2>3. CASE m \notin {p, y}
    <3>1. PICK x : x = t.child[s][m]
      OBVIOUS
    <3>2. h[m] = h[x] + Black(t, m) + 0 /\ h[x] \in Nat /\ h[m] \in Nat
      BY <1>f, <2>3, <3>1
    <3>3. k[r.child[s][m]] = h[x]
      BY <1>24, <2>3, <3>1
    <3>4. CASE m = z
      <4>1. Black(r, m) = 1 /\ Black(t, m) = 0 /\ k[m] = h[n] + 1 /\ h[m] = h[n]
        BY <1>16, <1>18, <1>19, <1>22, <3>4 DEF Black
      <4>2. k[m] = k[r.child[s][m]] + 1 + 0
        BY <3>2, <3>3, <4>1
      <4> QED
        BY <4>1, <4>2 DEF Level
    <3>5. CASE m # z
      <4>1. m \in r.red <=> m \in t.red
        BY <1>16, <2>3, <3>5
      <4>2. m \in Node
        BY <1>2
      <4>3. k[m] = h[m]
        BY <1>22, <2>3, <3>5, <4>2
      <4>4. Black(r, m) = Black(t, m)
        BY <4>1 DEF Black
      <4> QED
        BY <3>2, <3>3, <4>3, <4>4 DEF Level
    <3> QED
      BY <3>4, <3>5
  <2> QED
    BY <2>1, <2>2, <2>3
<1>27. Even(r, S, k, NULL, s0)
  <2>1. NULL \notin S
    BY <1>2
  <2>2. ASSUME NEW m \in S, NEW s \in Sides
        PROVE  Level(r, k, m, s, IF m = NULL /\ s = s0 THEN 1 ELSE 0)
    <3>1. Level(r, k, m, s, 0)
      BY <1>26
    <3>2. m # NULL
      BY <2>1
    <3> QED
      BY <3>1, <3>2
  <2> QED
    BY <1>22, <2>2 DEF Even
<1>28. r.root \in S /\ r.root \notin r.red
  <2>1. p = t.root <=> t.parent[p] = NULL
    BY <1>1, <1>4, ParentIs
  <2>2. t.root \notin t.red /\ t.root \in S /\ t.root # y
    BY <1>2
  <2>3. z # t.root
    BY <2>2
  <2> QED
    BY <1>4, <1>16, <2>1, <2>2, <2>3
<1>29. ASSUME NEW m \in S, NEW s \in Sides, m \in r.red, r.child[s][m] \in r.red PROVE FALSE
  <2>1. m # p /\ m # z
    BY <1>16, <1>29
  <2>2. CASE m = y
    <3>1. r.child[s][m] = p \/ r.child[s][m] = z
      BY <1>5, <1>25, <2>2
    <3> QED
      BY <1>16, <1>29, <3>1
  <2>3. CASE m # y
    <3>1. m \in t.red
      BY <1>16, <1>29, <2>1, <2>3
    <3>2. PICK x : x = t.child[s][m]
      OBVIOUS
    <3>3. r.child[s][m] = IF x = p THEN y ELSE x
      <4>1. m \in Keys /\ w.child[s][m] = x
        BY <1>2, <1>12, <3>2
      <4> QED
        BY <1>14, <2>1, <2>3, <4>1 DEF Rotated
    <3>4. x \notin t.red
      BY <1>2, <3>1, <3>2
    <3>5. x # p
      <4> SUFFICES ASSUME x = p PROVE FALSE
        OBVIOUS
      <4>1. y \in r.red
        BY <1>29, <3>3
      <4> QED
        BY <1>16, <3>4, <4>1
    <3>6. x \in r.red
      BY <1>29, <3>3, <3>5
    <3>7. x = y
      BY <1>16, <3>4, <3>5, <3>6
    <3> QED
      BY <1>2, <2>1, <3>2, <3>7
  <2> QED
    BY <2>2, <2>3
<1>30. Calm(r, S, r.root)
  BY <1>28, <1>29 DEF Calm
<1>31. PICK g : g = r.root
  OBVIOUS
<1>32. Erasing(r, S, g, q)
  <2>1. g \in S \cup {NULL} /\ g = r.root /\ Calm(r, S, g)
    BY <1>28, <1>30, <1>31
  <2>2. \E s \in Sides :
          /\ Shape(r, S, c) /\ Calm(r, S, g)
          /\ g # r.root => q \in S /\ r.child[s][q] = g
          /\ Even(r, S, k, IF g = r.root THEN NULL ELSE q, s)
    BY <1>3, <1>15, <1>27, <2>1
  <2> QED
    BY <2>1, <2>2 DEF Erasing
<1> QED
  BY <1>6, <1>7, <1>8, <1>13, <1>28, <1>31, <1>32

-----------------------------------------------------------------------------
(* What the tree is when no loop is under way.                              *)

(* Functions that go down from a node to both its children exist.           *)
Downward(t, e, G, g) ==
    \A m \in Node :
       g[m] = IF m = NULL THEN e ELSE G[m][g[t.child["left"][m]]][g[t.child["right"][m]]]

LEMMA DownExists ==
    ASSUME NEW t, NEW S, NEW b, Shape(t, S, b), NEW V, NEW e \in V,
           NEW G \in [Keys -> [V -> [V -> V]]]
    PROVE  \E g \in [Node -> V] : Downward(t, e, G, g)
<1> DEFINE E(g, m) == IF m = NULL THEN e ELSE G[m][g[t.child["left"][m]]][g[t.child["right"][m]]]
           F == [g \in [Node -> V] |-> [m \in Node |-> E(g, m)]]
           low == Lower(S, b)
           rank == [m \in Node |-> IF m = NULL THEN 0 ELSE low[m] + 1]
<1>1. S \subseteq Keys /\ t \in Trees /\ "left" \in Sides /\ "right" \in Sides
  BY DEF Shape, Sides
<1>2. \A m \in Node : m # NULL => m \in Keys
  BY DEF Node
<1>3. low \in [Keys -> Nat]
  BY RanksAre
<1>4. \E N \in Nat : \A m \in Keys : low[m] < N
  <2>1. CASE S = {}
    <3>1. \A m \in Keys : low[m] = 0
      BY <2>1 DEF Lower
    <3> HIDE DEF low
    <3>2. \A m \in Keys : low[m] < 1
      BY <3>1
    <3>3. 1 \in Nat
      OBVIOUS
    <3> QED
      BY <3>2, <3>3
  <2>2. CASE S # {}
    <3>1. Span \in Nat /\ \A m \in Keys : low[m] <= Span
      BY <1>1, <2>2, RanksAre
    <3> HIDE DEF low
    <3>2. \A m \in Keys : low[m] < Span + 1
      BY <1>3, <3>1
    <3>3. PICK N : N = Span + 1
      OBVIOUS
    <3>4. N \in Nat /\ \A m \in Keys : low[m] < N
      BY <3>1, <3>2, <3>3
    <3> QED
      BY <3>4
  <2> QED
    BY <2>1, <2>2
<1>5. PICK N \in Nat : \A m \in Keys : low[m] < N
  BY <1>4
<1>6. ASSUME NEW m \in Keys, NEW s \in Sides
      PROVE  t.child[s][m] \in Node /\ (t.child[s][m] # NULL => low[t.child[s][m]] < low[m])
  <2>1. \A n \in Keys \ S : t.child[s][n] = NULL
    BY DEF Shape
  <2> QED
    BY <1>1, <2>1, RanksAre, TreesAre
<1> HIDE DEF low
<1>7. /\ rank \in [Node -> Nat] /\ rank[NULL] = 0 /\ NULL \in Node
      /\ \A m \in Keys : rank[m] = low[m] + 1 /\ m \in Node
  <2>1. NULL \in Node /\ \A m \in Keys : m \in Node /\ m # NULL
    BY KeysAre DEF Node
  <2>2. \A m \in Keys : low[m] + 1 \in Nat
    BY <1>3
  <2> QED
    BY <1>2, <2>1, <2>2
<1> HIDE DEF rank
<1>8. \A m \in Node : rank[m] <= N
  BY <1>2, <1>3, <1>5, <1>7
<1>9. ASSUME NEW m \in Keys, NEW s \in Sides
      PROVE  t.child[s][m] \in Node /\ rank[t.child[s][m]] < rank[m]
  <2>1. PICK c : c = t.child[s][m]
    OBVIOUS
  <2>2. c \in Node /\ (c # NULL => low[c] < low[m])
    BY <1>6, <2>1
  <2>3. CASE c = NULL
    BY <1>3, <1>7, <2>1, <2>3
  <2>4. CASE c # NULL
    BY <1>2, <1>3, <1>7, <2>1, <2>2, <2>4
  <2> QED
    BY <2>3, <2>4
<1>10. \A g \in [Node -> V], m \in Node : E(g, m) \in V
  BY <1>1, <1>2, <1>9
<1>11. F \in [[Node -> V] -> [Node -> V]]
  BY <1>10
<1>12. ASSUME NEW f \in [Node -> V], NEW g \in [Node -> V], NEW x \in Node,
              \A y \in Node : rank[y] < rank[x] => f[y] = g[y]
       PROVE  E(f, x) = E(g, x)
  <2>1. CASE x = NULL
    BY <2>1
  <2>2. CASE x # NULL
    <3>1. f[t.child["left"][x]] = g[t.child["left"][x]] /\ f[t.child["right"][x]] = g[t.child["right"][x]]
      BY <1>1, <1>2, <1>9, <1>12, <2>2
    <3> QED
      BY <3>1
  <2> QED
    BY <2>1, <2>2
<1>13. \A g \in [Node -> V], m \in Node : F[g][m] = E(g, m)
  OBVIOUS
<1> HIDE DEF F, E
<1>14. \A f, g \in [Node -> V] : \A x \in Node :
         (\A y \in Node : rank[y] < rank[x] => f[y] = g[y]) => F[f][x] = F[g][x]
  <2> SUFFICES ASSUME NEW f \in [Node -> V], NEW g \in [Node -> V], NEW x \in Node,
                      \A y \in Node : rank[y] < rank[x] => f[y] = g[y]
               PROVE  F[f][x] = F[g][x]
    OBVIOUS
  <2>1. E(f, x) = E(g, x)
    BY <1>12
  <2>2. F[f][x] = E(f, x) /\ F[g][x] = E(g, x)
    BY <1>13
  <2> QED
    BY <2>1, <2>2
<1>15. PICK g \in [Node -> V] : g = F[g]
  <2>1. Recurses(Node, V, N, rank, F)
    BY <1>7, <1>8, <1>11, <1>14 DEF Recurses
  <2> QED
    BY <2>1, Recursion
<1>16. \A m \in Node : g[m] = E(g, m)
  BY <1>13, <1>15
<1> QED
  BY <1>16 DEF E, Downward

(* A set of nodes that has what both children of a node have.               *)
LEMMA DownInduction ==
    ASSUME NEW t, NEW S, NEW b, Shape(t, S, b), NEW P,
           NULL \in P,
           \A m \in S : (\A s \in Sides : t.child[s][m] \in P) => m \in P
    PROVE  S \subseteq P
<1> DEFINE rank == Lower(S, b)
           Q == {m \in Keys : m \in S => m \in P}
<1>1. rank \in [Keys -> Nat] /\ S \subseteq Keys /\ t \in Trees
  BY RanksAre DEF Shape
<1>2. ASSUME NEW m \in Keys, \A y \in Keys : rank[y] < rank[m] => y \in Q
      PROVE  m \in Q
  <2> SUFFICES ASSUME m \in S PROVE m \in P
    OBVIOUS
  <2>1. ASSUME NEW s \in Sides PROVE t.child[s][m] \in P
    <3>1. PICK c : c = t.child[s][m]
      OBVIOUS
    <3>2. CASE c # NULL
      <4>1. c \in S /\ c \in Keys /\ rank[c] < rank[m]
        BY <1>1, <3>1, <3>2, RanksAre
      <4> QED
        BY <1>2, <3>1, <4>1
    <3> QED
      BY <3>1, <3>2
  <2> QED
    BY <2>1
<1> HIDE DEF Q, rank
<1>3. Keys \subseteq Q
  BY <1>1, <1>2, RankInduction
<1> QED
  BY <1>1, <1>3 DEF Q

LEMMA HangingIs ==
    ASSUME NEW t, NEW S, NEW b, Shape(t, S, b)
    PROVE  Hanging(t) \subseteq S
<1> DEFINE E(g, m) == IF m = NULL THEN {}
                      ELSE {m} \cup g[t.child["left"][m]] \cup g[t.child["right"][m]]
           below == CHOOSE g : g = [m \in Node |-> E(g, m)]
           V == SUBSET Keys
           G == [m \in Keys |-> [x \in V |-> [y \in V |-> {m} \cup x \cup y]]]
           P == {m \in Node : below[m] \subseteq S}
<1>1. S \subseteq Keys /\ t \in Trees /\ t.root \in S \cup {NULL} /\ "left" \in Sides /\ "right" \in Sides
  BY DEF Shape, Sides, Trees, Node
<1>2. below = [m \in Node |-> E(below, m)]
  <2>1. G \in [Keys -> [V -> [V -> V]]] /\ {} \in V
    OBVIOUS
  <2>2. \A m \in Keys, x, y \in V : G[m][x][y] = {m} \cup x \cup y
    OBVIOUS
  <2>3. PICK g \in [Node -> V] : \A m \in Node :
              g[m] = IF m = NULL THEN {} ELSE G[m][g[t.child["left"][m]]][g[t.child["right"][m]]]
    <3>1. PICK H, e : H = G /\ e = {}
      OBVIOUS
    <3>2. H \in [Keys -> [V -> [V -> V]]] /\ e \in V
      BY <2>1, <3>1
    <3> HIDE DEF G, V
    <3>3. PICK g \in [Node -> V] : Downward(t, e, H, g)
      BY <3>2, DownExists
    <3> QED
      BY <3>1, <3>3 DEF Downward
  <2>4. \A m \in Node : g[m] = E(g, m)
    <3> SUFFICES ASSUME NEW m \in Node, m # NULL PROVE g[m] = E(g, m)
      BY <2>3
    <3>1. m \in Keys /\ t.child["left"][m] \in Node /\ t.child["right"][m] \in Node
      BY <1>1, TreesAre DEF Node
    <3>2. g[t.child["left"][m]] \in V /\ g[t.child["right"][m]] \in V
      BY <3>1
    <3>3. g[m] = G[m][g[t.child["left"][m]]][g[t.child["right"][m]]]
      BY <2>3
    <3>4. PICK x \in V, y \in V : x = g[t.child["left"][m]] /\ y = g[t.child["right"][m]]
      BY <3>2
    <3>5. g[m] = G[m][x][y]
      BY <3>3, <3>4
    <3>6. G[m][x][y] = {m} \cup x \cup y
      BY <2>2, <3>1
    <3> HIDE DEF G, V
    <3> QED
      BY <3>4, <3>5, <3>6
  <2>5. g = [m \in Node |-> E(g, m)]
    BY <2>4
  <2> HIDE DEF E
  <2> QED
    BY <2>5
<1>3. Hanging(t) = below[t.root]
  BY DEF Hanging
<1>4. \A m \in Node : below[m] = E(below, m)
  <2> HIDE DEF below, E
  <2> QED
    BY <1>2
<1> HIDE DEF below
<1>5. NULL \in P
  BY <1>4 DEF Node
<1>6. ASSUME NEW m \in S, \A s \in Sides : t.child[s][m] \in P PROVE m \in P
  <2>1. m \in Node /\ m # NULL
    BY <1>1, KeysAre
  <2>2. below[m] = {m} \cup below[t.child["left"][m]] \cup below[t.child["right"][m]]
    BY <1>4, <2>1
  <2>3. below[t.child["left"][m]] \subseteq S /\ below[t.child["right"][m]] \subseteq S
    BY <1>1, <1>6
  <2> QED
    BY <2>1, <2>2, <2>3
<1> HIDE DEF P
<1>7. S \subseteq P
  BY <1>5, <1>6, DownInduction
<1> QED
  BY <1>1, <1>3, <1>5, <1>7 DEF P

(* Between calls the tree is balanced.                                      *)
LEMMA BalanceHolds ==
    ASSUME NEW t, NEW S, Settled(t, S)
    PROVE  Balanced(t)
<1>0. PICK b, h : Shape(t, S, b) /\ Even(t, S, h, NULL, "left") /\ Calm(t, S, NULL)
  BY DEF Settled
<1> DEFINE Sum(m, x) == {c + (IF m \in t.red THEN 0 ELSE 1) : c \in x}
           E(g, m) == IF m = NULL THEN {0}
                      ELSE {c + (IF m \in t.red THEN 0 ELSE 1) :
                              c \in g[t.child["left"][m]] \cup g[t.child["right"][m]]}
           blacks == CHOOSE g : g = [m \in Node |-> E(g, m)]
           V == SUBSET Nat
           G == [m \in Keys |-> [x \in V |-> [y \in V |-> Sum(m, x \cup y)]]]
           P == {m \in Node : blacks[m] = {h[m]}}
<1>1. /\ S \subseteq Keys /\ t \in Trees /\ t.root \in S \cup {NULL} /\ NULL \notin S
      /\ "left" \in Sides /\ "right" \in Sides /\ \A s \in Sides : s = "left" \/ s = "right"
  BY <1>0, KeysAre DEF Shape, Sides, Trees, Node
<1>2. blacks = [m \in Node |-> E(blacks, m)]
  <2>1. \A m \in Keys, x \in V, y \in V : Sum(m, x \cup y) \in V
    OBVIOUS
  <2>2. G \in [Keys -> [V -> [V -> V]]] /\ {0} \in V
    <3>1. {0} \in V
      OBVIOUS
    <3> HIDE DEF Sum, V
    <3> QED
      BY <2>1, <3>1
  <2>3. \A m \in Keys, x, y \in V : G[m][x][y] = Sum(m, x \cup y)
    <3> HIDE DEF Sum, V
    <3> QED
      OBVIOUS
  <2>4. PICK H, e : H = G /\ e = {0}
    OBVIOUS
  <2>5. H \in [Keys -> [V -> [V -> V]]] /\ e \in V
    BY <2>2, <2>4
  <2>6. PICK g \in [Node -> V] : Downward(t, e, H, g)
    <3> HIDE DEF G, V
    <3> QED
      BY <1>0, <2>5, DownExists
  <2>7. ASSUME NEW m \in Node PROVE g[m] = E(g, m)
    <3>1. g[m] = IF m = NULL THEN {0} ELSE G[m][g[t.child["left"][m]]][g[t.child["right"][m]]]
      <4> HIDE DEF G, V
      <4> QED
        BY <2>4, <2>6 DEF Downward
    <3>2. CASE m = NULL
      BY <3>1, <3>2
    <3>3. CASE m # NULL
      <4>1. m \in Keys /\ t.child["left"][m] \in Node /\ t.child["right"][m] \in Node
        BY <1>1, <3>3, TreesAre DEF Node
      <4>2. PICK x \in V, y \in V : x = g[t.child["left"][m]] /\ y = g[t.child["right"][m]]
        BY <4>1
      <4>3. g[m] = G[m][x][y]
        <5> HIDE DEF G, V
        <5> QED
          BY <3>1, <3>3, <4>2
      <4>4. G[m][x][y] = Sum(m, x \cup y)
        <5> HIDE DEF G, V, Sum
        <5> QED
          BY <2>3, <4>1
      <4>5. g[m] = Sum(m, x \cup y)
        BY <4>3, <4>4
      <4>6. E(g, m) = Sum(m, x \cup y)
        BY <3>3, <4>2
      <4> QED
        BY <4>5, <4>6
    <3> QED
      BY <3>2, <3>3
  <2>8. g = [m \in Node |-> E(g, m)]
    <3> HIDE DEF E, V
    <3> QED
      BY <2>7
  <2> HIDE DEF E
  <2> QED
    BY <2>8
<1>3. \A m \in Node : blacks[m] = E(blacks, m)
  <2> HIDE DEF blacks, E
  <2> QED
    BY <1>2
<1>4. Balanced(t) <=>
        /\ ~IsRed(t, t.root)
        /\ t.root # NULL => t.parent[t.root] = NULL
        /\ \A n \in Hanging(t), s \in Sides : t.child[s][n] # NULL =>
              /\ t.parent[t.child[s][n]] = n
              /\ ~(n \in t.red /\ t.child[s][n] \in t.red)
        /\ Cardinality(blacks[t.root]) = 1
  BY DEF Balanced
<1> HIDE DEF blacks
<1>5. h \in [Node -> Nat] /\ h[NULL] = 0
  BY <1>0 DEF Even
<1>6. NULL \in P
  BY <1>3, <1>5, KeysAre
<1>7. ASSUME NEW m \in S, \A s \in Sides : t.child[s][m] \in P PROVE m \in P
  <2>1. m \in Node /\ m # NULL
    BY <1>1, KeysAre
  <2>2. PICK x, y : x = t.child["left"][m] /\ y = t.child["right"][m]
    OBVIOUS
  <2>3. blacks[x] = {h[x]} /\ blacks[y] = {h[y]}
    BY <1>1, <1>7, <2>2
  <2>4. h[m] = h[x] + Black(t, m) + 0 /\ h[x] \in Nat
    BY <1>0, <1>1, <2>1, <2>2, LevelIs
  <2>5. h[m] = h[y] + Black(t, m) + 0 /\ h[y] \in Nat
    BY <1>0, <1>1, <2>1, <2>2, LevelIs
  <2>6. blacks[m] = {c + (IF m \in t.red THEN 0 ELSE 1) : c \in blacks[x] \cup blacks[y]}
    BY <1>3, <2>1, <2>2
  <2>7. blacks[m] = {h[x] + (IF m \in t.red THEN 0 ELSE 1), h[y] + (IF m \in t.red THEN 0 ELSE 1)}
    BY <2>3, <2>6
  <2>8. blacks[m] = {h[m]}
    BY <2>4, <2>5, <2>7 DEF Black
  <2> QED
    BY <2>1, <2>8
<1> HIDE DEF P
<1>8. S \subseteq P
  BY <1>0, <1>6, <1>7, DownInduction
<1>9. Cardinality(blacks[t.root]) = 1
  <2>1. blacks[t.root] = {h[t.root]}
    BY <1>1, <1>6, <1>8 DEF P
  <2> QED
    BY <2>1, FS_Singleton
<1>10. ~IsRed(t, t.root)
  BY <1>0 DEF Calm, IsRed
<1>11. t.root # NULL => t.parent[t.root] = NULL
  BY <1>0 DEF Shape
<1>12. ASSUME NEW n \in Hanging(t), NEW s \in Sides, t.child[s][n] # NULL
       PROVE  t.parent[t.child[s][n]] = n /\ ~(n \in t.red /\ t.child[s][n] \in t.red)
  <2>1. n \in S
    BY <1>0, HangingIs
  <2>2. PICK c : c = t.child[s][n]
    OBVIOUS
  <2>3. t.parent[c] = n
    BY <1>0, <1>12, <2>1, <2>2, ChildIs
  <2>4. ~(n \in t.red /\ c \in t.red)
    BY <1>0, <1>1, <1>12, <2>1, <2>2 DEF Calm
  <2> QED
    BY <2>2, <2>3, <2>4
<1> QED
  BY <1>4, <1>9, <1>10, <1>11, <1>12

-----------------------------------------------------------------------------
(* The steps of the loops, each as a whole.                                 *)
LEMMA RestructureHolds ==
    ASSUME NEW t, NEW S, NEW n, Inserting(t, S, n), NEW f, f = t.parent[n], IsRed(t, f),
           NEW g, g = t.parent[f],
           NEW side, side = SideFor(t, f, g),
           NEW o, o = Opposite(side), ~IsRed(t, t.child[o][g])
    PROVE  /\ t.child[o][f] = n =>
                 Inserting(Rotate(Redden(Blacken(Rotate(t, f, side), n), g), g, o), S, f)
           /\ t.child[o][f] # n =>
                 Inserting(Rotate(Redden(Blacken(t, f), g), g, o), S, n)
<1>0. Family(t, S, n, f, g)
  BY FamilyIs
<1>1. /\ f \in S /\ f # n /\ f \in t.red /\ g \in S /\ g \notin t.red /\ g # f /\ g # n
      /\ side \in Sides /\ t.child[side][g] = f
  BY <1>0 DEF Family
<1>2. PICK s \in Sides : t.child[s][f] = n
  BY <1>0 DEF Family
<1>3. PICK b, h : Shape(t, S, b) /\ Even(t, S, h, NULL, "left") /\ Calm(t, S, n)
  BY DEF Inserting
<1>4. n \in S /\ n \in t.red /\ NULL \notin t.red
  BY <1>3, KeysAre DEF Inserting, Shape
<1>5. t.child[o][g] \notin t.red
  BY <1>4 DEF IsRed
<1>6. s = side \/ s = o
  BY <1>1, <1>2, SidesAre
<1>7. ASSUME t.child[o][f] = n
      PROVE  Inserting(Rotate(Redden(Blacken(Rotate(t, f, side), n), g), g, o), S, f)
  <2>1. PICK u : u = Rotate(t, f, side)
    OBVIOUS
  <2>2. /\ Inserting(u, S, f) /\ u.red = t.red
        /\ u.child[side][g] = n /\ u.child[side][n] = f /\ u.child[o][g] = t.child[o][g]
    <3>1. f = t.parent[n] /\ g # n /\ o = Opposite(side)
      BY <1>1
    <3>2. Turned(t, Rotate(t, f, side), S, n, f, g, side, o)
      BY <1>1, <1>7, <3>1, TurnHolds
    <3> QED
      BY <2>1, <3>2 DEF Turned
  <2>3. u.child[o][g] \notin u.red /\ n \in u.red /\ g \notin u.red
    BY <1>1, <1>4, <1>5, <2>2
  <2>4. Inserting(Rotate(Redden(Blacken(u, n), g), g, o), S, f)
    BY <1>1, <1>4, <2>2, <2>3, LiftHolds
  <2> QED
    BY <2>1, <2>4
<1>8. ASSUME t.child[o][f] # n
      PROVE  Inserting(Rotate(Redden(Blacken(t, f), g), g, o), S, n)
  <2>1. t.child[side][f] = n
    BY <1>2, <1>6, <1>8
  <2> QED
    BY <1>1, <1>5, <2>1, LiftHolds
<1> QED
  BY <1>7, <1>8

(* The steps of a round of __rb_erase_color.                                *)
Lowered(t, p, s0, e) == IF IsRed(t, e) THEN Rotate(Redden(Blacken(t, e), p), p, s0) ELSE t

Straightened(r, x, o, inner, outer) ==
    IF IsRed(r, outer) THEN r ELSE Rotate(Redden(Blacken(r, inner), x), x, o)

Lifted(v, y, p, z, s0) == Rotate(Blacken(Blacken(Paint(v, y, p), p), z), p, s0)

LEMMA LoweredHolds ==
    ASSUME NEW t, NEW S, NEW n, NEW p, Erasing(t, S, n, p), ~IsRed(t, n), n # t.root,
           NEW s0, s0 = SideFor(t, n, p), NEW o, o = Opposite(s0), NEW e, e = t.child[o][p]
    PROVE  /\ Lacking(Lowered(t, p, s0, e), S, n, p, s0)
           /\ Lowered(t, p, s0, e).child[o][p] \notin Lowered(t, p, s0, e).red
<1>1. PICK s \in Sides :
         s = (IF t.child["left"][p] = n THEN "left" ELSE "right") /\ Lacking(t, S, n, p, s)
  BY MissingIs
<1>2. s0 = s
  BY <1>1 DEF SideFor
<1>3. Lacking(t, S, n, p, s0)
  BY <1>1, <1>2
<1>4. LET r == IF IsRed(t, e) THEN Rotate(Redden(Blacken(t, e), p), p, s0) ELSE t
      IN  Lacking(r, S, n, p, s0) /\ r.child[o][p] \notin r.red
  BY <1>3, PrepareHolds
<1> QED
  BY <1>4 DEF Lowered

LEMMA StraightenedHolds ==
    ASSUME NEW t, NEW S, NEW n, NEW p, NEW s0, Lacking(t, S, n, p, s0),
           NEW o, o = Opposite(s0), NEW x, x = t.child[o][p], x \notin t.red,
           NEW s1 \in Sides, t.child[s1][x] \in t.red,
           NEW inner, inner = t.child[s0][x], NEW outer, outer = t.child[o][x],
           NEW v, v = Straightened(t, x, o, inner, outer)
    PROVE  Straight(v, S, n, p, s0, o)
<1>1. PICK b, h : Shape(t, S, b) /\ Calm(t, S, NULL) /\ Even(t, S, h, p, s0)
  BY DEF Lacking
<1>2. IsRed(t, outer) <=> outer \in t.red
  BY <1>1, KeysAre DEF Shape, IsRed
<1>3. CASE outer \in t.red
  <2>1. v = t
    BY <1>2, <1>3 DEF Straightened
  <2> QED
    BY <1>3, <2>1 DEF Straight
<1>4. CASE outer \notin t.red
  <2>1. v = Rotate(Redden(Blacken(t, inner), x), x, o)
    BY <1>2, <1>4 DEF Straightened
  <2>2. inner \in t.red
    <3>1. s0 \in Sides
      BY DEF Lacking
    <3>2. s1 = s0 \/ s1 = o
      BY <3>1, SidesAre
    <3> QED
      BY <1>4, <3>2
  <2>3. Straight(Rotate(Redden(Blacken(t, inner), x), x, o), S, n, p, s0, o)
    <3>1. t.child[o][x] \notin t.red
      BY <1>4
    <3> QED
      BY <2>2, <3>1, StraightenHolds
  <2> QED
    BY <2>1, <2>3
<1> QED
  BY <1>3, <1>4

LEMMA LiftedHolds ==
    ASSUME NEW t, NEW S, NEW n, NEW p, NEW s0, Lacking(t, S, n, p, s0),
           NEW o, o = Opposite(s0), NEW y, y = t.child[o][p], y \notin t.red,
           NEW z, z = t.child[o][y], z \in t.red, NEW q \in Node,
           NEW w, w = Lifted(t, y, p, z, s0)
    PROVE  w.root \in S /\ Erasing(w, S, w.root, q)
<1>1. LET r == Rotate(Blacken(Blacken(Paint(t, y, p), p), z), p, s0)
      IN  r.root \in S /\ Erasing(r, S, r.root, q)
  BY LastHolds
<1> QED
  BY <1>1 DEF Lifted

-----------------------------------------------------------------------------
(* The inductive invariant: there is a set of keys that the tree holds, in  *)
(* the way the loop that is under way leaves it between its rounds.         *)
Held(t, S, c, n, p) ==
    /\ c \in {"idle", "insert_color", "erase_color"} /\ n \in Node /\ p \in Node
    /\ c = "idle" => Settled(t, S)
    /\ c = "insert_color" => Inserting(t, S, n)
    /\ c = "erase_color" => Erasing(t, S, n, p)

TreeHolds == \E S : Held(tree, S, pc, node, parent)

Holds(S) == Held(tree, S, pc, node, parent)

LEMMA HeldHasShape ==
    ASSUME NEW t, NEW S, NEW c, NEW n, NEW p, Held(t, S, c, n, p)
    PROVE  \E b : Shape(t, S, b)
  BY DEF Held, Settled, Inserting, Erasing

LEMMA EmptyIsSettled ==
    ASSUME NEW t,
           t = [root |-> NULL, child |-> [s \in Sides |-> [k \in Keys |-> NULL]],
                parent |-> [k \in Keys |-> NULL], red |-> {}]
    PROVE  Settled(t, {})
<1>1. t \in Trees /\ t.root = NULL /\ t.red = {}
  BY DEF Trees, Node
<1>2. \A k \in Keys : t.parent[k] = NULL /\ \A s \in Sides : t.child[s][k] = NULL
  OBVIOUS
<1>3. PICK b : b = [s \in Sides |-> [k \in Keys |-> 0]]
  OBVIOUS
<1>4. b \in [Sides -> [Keys -> Int]]
  BY <1>3
<1>5. Shape(t, {}, b)
  BY <1>1, <1>2, <1>4 DEF Shape
<1>6. PICK h : h = [m \in Node |-> 0]
  OBVIOUS
<1>7. Even(t, {}, h, NULL, "left")
  BY <1>6 DEF Even, Node
<1>8. Calm(t, {}, NULL)
  BY <1>1 DEF Calm
<1> QED
  BY <1>5, <1>7, <1>8 DEF Settled

LEMMA InsertStep ==
    ASSUME NEW S, Holds(S), NEW k \in Keys, map_insert(k)
    PROVE  k \notin S /\ Holds(S \cup {k})'
<1>1. PICK t, n, p : t = tree /\ n = node /\ p = parent
  OBVIOUS
<1>2. Settled(t, S) /\ map_find(t, k) = NULL /\ p \in Node
  BY <1>1 DEF Holds, Held, map_insert
<1>3. PICK q : q = Search(t, k).parent
  OBVIOUS
<1>4. PICK u : u = [t EXCEPT !.parent[k] = q, !.red = @ \cup {k}]
  OBVIOUS
<1>5. PICK r : r = IF q = NULL THEN [u EXCEPT !.root = k]
                   ELSE [u EXCEPT !.child[SideOf(k, q)][q] = k]
  OBVIOUS
<1>6. LET q_1 == Search(t, k).parent
          u_1 == [t EXCEPT !.parent[k] = q_1, !.red = @ \cup {k}]
          r_1 == IF q_1 = NULL THEN [u_1 EXCEPT !.root = k]
                 ELSE [u_1 EXCEPT !.child[SideOf(k, q_1)][q_1] = k]
      IN  k \notin S /\ Inserting(r_1, S \cup {k}, k)
  BY <1>2, InsertHolds
<1>7. k \notin S /\ Inserting(r, S \cup {k}, k)
  BY <1>3, <1>4, <1>5, <1>6
<1>8. tree' = r
  BY <1>1, <1>3, <1>4, <1>5 DEF map_insert
<1>9. pc' = "insert_color" /\ node' = k /\ parent' = p
  BY <1>1 DEF map_insert
<1>10. k \in Node
  BY KeysAre
<1>11. Held(r, S \cup {k}, "insert_color", k, p)
  BY <1>2, <1>7, <1>10 DEF Held
<1> QED
  BY <1>7, <1>8, <1>9, <1>11 DEF Holds

LEMMA EraseStep ==
    ASSUME NEW S, Holds(S), NEW k \in Keys, map_erase(k)
    PROVE  k \in S /\ Holds(S \ {k})'
<1>1. PICK t, n, p : t = tree /\ n = node /\ p = parent
  OBVIOUS
<1>2. Settled(t, S) /\ map_find(t, k) = k /\ p \in Node /\ n \in Node
  BY <1>1 DEF Holds, Held, map_erase
<1>3. PICK b : Shape(t, S, b)
  BY <1>2 DEF Settled
<1>4. k \in S
  BY <1>2, <1>3, FindsAre
<1>5. PICK x : x = IF HasTwo(t, k) THEN Substitute(t, k) ELSE Splice(t, k)
  OBVIOUS
<1>6. PICK r : r = Release(x.tree, k)
  OBVIOUS
<1>7. IF x.black THEN Erasing(r, S \ {k}, x.child, x.parent) ELSE Settled(r, S \ {k})
  <2>1. LET y == IF HasTwo(t, k) THEN Substitute(t, k) ELSE Splice(t, k)
        IN  IF y.black THEN Erasing(Release(y.tree, k), S \ {k}, y.child, y.parent)
            ELSE Settled(Release(y.tree, k), S \ {k})
    BY <1>2, <1>4, EraseHolds
  <2> QED
    BY <1>5, <1>6, <2>1
<1>8. tree' = r
  BY <1>1, <1>5, <1>6 DEF map_erase
<1>9. CASE x.black
  <2>1. pc' = "erase_color" /\ node' = x.child /\ parent' = x.parent
    BY <1>1, <1>5, <1>9 DEF map_erase
  <2>2. Erasing(r, S \ {k}, x.child, x.parent)
    BY <1>7, <1>9
  <2>3. x.child \in Node /\ x.parent \in Node
    BY <1>3, <2>2, KeysAre DEF Erasing, Shape
  <2>4. Held(r, S \ {k}, "erase_color", x.child, x.parent)
    BY <2>2, <2>3 DEF Held
  <2> QED
    BY <1>4, <1>8, <2>1, <2>4 DEF Holds
<1>10. CASE ~x.black
  <2>1. pc' = pc /\ pc = "idle" /\ node' = n /\ parent' = p
    BY <1>1, <1>5, <1>10 DEF map_erase
  <2>2. Settled(r, S \ {k})
    BY <1>7, <1>10
  <2>3. Held(r, S \ {k}, "idle", n, p)
    BY <1>2, <2>2 DEF Held
  <2> QED
    BY <1>4, <1>8, <2>1, <2>3 DEF Holds
<1> QED
  BY <1>9, <1>10

LEMMA EndSteps ==
    ASSUME NEW S, Holds(S), InsertEnds \/ EraseEnds
    PROVE  Holds(S)'
<1>1. PICK t, n, p : t = tree /\ n = node /\ p = parent
  OBVIOUS
<1>2. ASSUME NEW r, Settled(r, S), r = tree', Return PROVE Holds(S)'
  <2>1. pc' = "idle" /\ node' = NULL /\ parent' = NULL
    BY <1>2 DEF Return
  <2>2. Held(r, S, "idle", NULL, NULL)
    BY <1>2 DEF Held, Node
  <2> QED
    BY <1>2, <2>1, <2>2 DEF Holds
<1>3. CASE InsertEnds
  <2>1. Inserting(t, S, n) /\ ~IsRed(t, t.parent[n])
    BY <1>1, <1>3 DEF Holds, Held, InsertEnds, Father
  <2>2. PICK r : r = Blacken(t, t.root)
    OBVIOUS
  <2>3. Settled(r, S)
    BY <2>1, <2>2, InsertEndsHolds
  <2>4. r = tree' /\ Return
    BY <1>1, <1>3, <2>2 DEF InsertEnds
  <2> QED
    BY <1>2, <2>3, <2>4
<1>4. CASE EraseEnds
  <2>1. Erasing(t, S, n, p) /\ (IsRed(t, n) \/ n = t.root)
    BY <1>1, <1>4 DEF Holds, Held, EraseEnds, Missing
  <2>2. PICK r : r = IF n = NULL THEN t ELSE Blacken(t, n)
    OBVIOUS
  <2>3. Settled(r, S)
    BY <2>1, <2>2, EraseEndsHolds
  <2>4. r = tree' /\ Return
    BY <1>1, <1>4, <2>2 DEF EraseEnds
  <2> QED
    BY <1>2, <2>3, <2>4
<1> QED
  BY <1>3, <1>4

LEMMA RecolorStep ==
    ASSUME NEW S, Holds(S), Recolor
    PROVE  Holds(S)'
<1>1. PICK t, n, p : t = tree /\ n = node /\ p = parent
  OBVIOUS
<1>2. PICK f : f = t.parent[n]
  OBVIOUS
<1>3. PICK g : g = t.parent[f]
  OBVIOUS
<1>4. PICK side : side = SideFor(t, f, g)
  OBVIOUS
<1>5. PICK u : u = t.child[Opposite(side)][g]
  OBVIOUS
<1>6. Inserting(t, S, n) /\ IsRed(t, f) /\ IsRed(t, u) /\ p \in Node
  BY <1>1, <1>2, <1>3, <1>4, <1>5
     DEF Holds, Held, Recolor, Father, Grandfather, FatherSide, Uncle, SideFor
<1>7. Family(t, S, n, f, g)
  BY <1>2, <1>3, <1>6, FamilyIs
<1>8. PICK r : r = Redden(Blacken(Blacken(t, u), f), g)
  OBVIOUS
<1>9. Inserting(r, S, g)
  <2>1. /\ f \in S /\ g \in S /\ side \in Sides /\ t.child[side][g] = f
        /\ f \in t.red /\ u \in t.red /\ g \notin t.red /\ f # n /\ g # n
    BY <1>4, <1>6, <1>7 DEF Family, IsRed
  <2> QED
    BY <1>2, <1>5, <1>6, <1>8, <2>1, RecolorHolds
<1>10. tree' = r /\ node' = g /\ pc' = pc /\ pc = "insert_color" /\ parent' = p
  BY <1>1, <1>2, <1>3, <1>4, <1>5, <1>8
     DEF Recolor, Father, Grandfather, FatherSide, Uncle, SideFor
<1>11. g \in Node
  BY <1>9, KeysAre DEF Inserting, Shape
<1>12. Held(r, S, "insert_color", g, p)
  BY <1>6, <1>9, <1>11 DEF Held
<1> QED
  BY <1>10, <1>12 DEF Holds

LEMMA RestructureStep ==
    ASSUME NEW S, Holds(S), Restructure
    PROVE  Holds(S)'
<1>1. PICK t, n, p : t = tree /\ n = node /\ p = parent
  OBVIOUS
<1>2. PICK f : f = t.parent[n]
  OBVIOUS
<1>3. PICK g : g = t.parent[f]
  OBVIOUS
<1>4. PICK side : side = SideFor(t, f, g)
  OBVIOUS
<1>5. PICK o : o = Opposite(side)
  OBVIOUS
<1>6. Inserting(t, S, n) /\ IsRed(t, f) /\ ~IsRed(t, t.child[o][g]) /\ p \in Node
  BY <1>1, <1>2, <1>3, <1>4, <1>5
     DEF Holds, Held, Restructure, Father, Grandfather, FatherSide, Uncle, SideFor
<1>7. /\ t.child[o][f] = n =>
            Inserting(Rotate(Redden(Blacken(Rotate(t, f, side), n), g), g, o), S, f)
      /\ t.child[o][f] # n =>
            Inserting(Rotate(Redden(Blacken(t, f), g), g, o), S, n)
  BY <1>2, <1>3, <1>4, <1>5, <1>6, RestructureHolds
<1>8. Father = f /\ Grandfather = g /\ FatherSide = side
  BY <1>1, <1>2, <1>3, <1>4 DEF Father, Grandfather, FatherSide, SideFor
<1>9. /\ tree' = Rotate(Redden(Blacken(IF t.child[o][f] = n THEN Rotate(t, f, side) ELSE t,
                                       IF t.child[o][f] = n THEN n ELSE f), g), g, o)
      /\ node' = (IF t.child[o][f] = n THEN f ELSE n)
      /\ pc' = pc /\ pc = "insert_color" /\ parent' = p
  BY <1>1, <1>5, <1>8 DEF Restructure
<1>10. PICK r, m : r = tree' /\ m = node'
  OBVIOUS
<1>11. Inserting(r, S, m)
  <2>1. CASE t.child[o][f] = n
    BY <1>7, <1>9, <1>10, <2>1
  <2>2. CASE t.child[o][f] # n
    BY <1>7, <1>9, <1>10, <2>2
  <2> QED
    BY <2>1, <2>2
<1>12. m \in Node
  BY <1>11, KeysAre DEF Inserting, Shape
<1>13. Held(r, S, "insert_color", m, p)
  BY <1>6, <1>11, <1>12 DEF Held
<1> QED
  BY <1>9, <1>10, <1>13 DEF Holds

(* A round of __rb_erase_color: what the names of the model stand for.      *)
Round(S, n, p, s0, o, r, x) ==
    /\ ThisSide = s0 /\ OtherSide = o /\ Prepared = r /\ Sibling = x
    /\ p \in S /\ p \in Node /\ s0 \in Sides /\ Lacking(r, S, n, p, s0) /\ x \notin r.red
    /\ BlackChildren <=> \A s \in Sides : r.child[s][x] \notin r.red

LEMMA RoundIs ==
    ASSUME NEW S, Holds(S), pc = "erase_color", Missing,
           NEW t, NEW n, NEW p, t = tree, n = node, p = parent,
           NEW s0, s0 = SideFor(t, n, p), NEW o, o = Opposite(s0), NEW e, e = t.child[o][p],
           NEW r, r = Lowered(t, p, s0, e), NEW x, x = r.child[o][p]
    PROVE  Round(S, n, p, s0, o, r, x)
<1>1. ThisSide = s0 /\ OtherSide = o /\ Other = e
  BY DEF ThisSide, OtherSide, Other, SideFor
<1>2. Prepared = r
  BY <1>1 DEF Prepared, Lowered
<1>3. Sibling = x
  BY <1>1, <1>2 DEF Sibling
<1>4. Erasing(t, S, n, p) /\ ~IsRed(t, n) /\ n # t.root
  BY DEF Holds, Held, Missing
<1>5. Lacking(r, S, n, p, s0) /\ x \notin r.red
  BY <1>4, LoweredHolds
<1>6. p \in S /\ s0 \in Sides
  BY <1>5 DEF Lacking
<1>7. NULL \notin r.red /\ p \in Node
  BY <1>5, <1>6, KeysAre DEF Lacking, Shape
<1>8. BlackChildren <=> \A s \in Sides : r.child[s][x] \notin r.red
  <2>1. BlackChildren <=> \A s \in Sides : ~IsRed(r, r.child[s][x])
    BY <1>2, <1>3 DEF BlackChildren
  <2>2. \A m : IsRed(r, m) <=> m \in r.red
    BY <1>7 DEF IsRed
  <2> QED
    BY <2>1, <2>2
<1> QED
  BY <1>1, <1>2, <1>3, <1>5, <1>6, <1>7, <1>8 DEF Round

LEMMA EraseUpStep ==
    ASSUME NEW S, Holds(S), EraseUp
    PROVE  Holds(S)'
<1>1. PICK t, n, p : t = tree /\ n = node /\ p = parent
  OBVIOUS
<1>2. PICK s0 : s0 = SideFor(t, n, p)
  OBVIOUS
<1>3. PICK o : o = Opposite(s0)
  OBVIOUS
<1>4. PICK e : e = t.child[o][p]
  OBVIOUS
<1>5. PICK r : r = Lowered(t, p, s0, e)
  OBVIOUS
<1>6. PICK x : x = r.child[o][p]
  OBVIOUS
<1>7. pc = "erase_color" /\ Missing /\ BlackChildren
  BY DEF EraseUp
<1>8. /\ Prepared = r /\ Sibling = x
      /\ p \in S /\ p \in Node /\ Lacking(r, S, n, p, s0) /\ x \notin r.red
      /\ BlackChildren <=> \A s \in Sides : r.child[s][x] \notin r.red
  <2>1. Round(S, n, p, s0, o, r, x)
    BY <1>1, <1>2, <1>3, <1>4, <1>5, <1>6, <1>7, RoundIs
  <2> QED
    BY <2>1 DEF Round
<1>9. Erasing(Redden(r, x), S, p, r.parent[p])
  BY <1>3, <1>6, <1>7, <1>8, UpHolds
<1>10. PICK u, q : u = Redden(r, x) /\ q = r.parent[p]
  OBVIOUS
<1>11. tree' = u /\ node' = p /\ parent' = q /\ pc' = "erase_color"
  BY <1>1, <1>8, <1>10 DEF EraseUp
<1>12. Erasing(u, S, p, q) /\ q \in Node
  BY <1>9, <1>10 DEF Erasing
<1>13. Held(u, S, "erase_color", p, q)
  BY <1>8, <1>12 DEF Held
<1> QED
  BY <1>11, <1>13 DEF Holds

LEMMA EraseRotateStep ==
    ASSUME NEW S, Holds(S), EraseRotate
    PROVE  Holds(S)'
<1>1. PICK t, n, p : t = tree /\ n = node /\ p = parent
  OBVIOUS
<1>2. PICK s0 : s0 = SideFor(t, n, p)
  OBVIOUS
<1>3. PICK o : o = Opposite(s0)
  OBVIOUS
<1>4. PICK e : e = t.child[o][p]
  OBVIOUS
<1>5. PICK r : r = Lowered(t, p, s0, e)
  OBVIOUS
<1>6. PICK x : x = r.child[o][p]
  OBVIOUS
<1>7. pc = "erase_color" /\ Missing /\ ~BlackChildren
  BY DEF EraseRotate
<1>8. /\ ThisSide = s0 /\ OtherSide = o /\ Prepared = r /\ Sibling = x
      /\ p \in S /\ p \in Node /\ Lacking(r, S, n, p, s0) /\ x \notin r.red
      /\ BlackChildren <=> \A s \in Sides : r.child[s][x] \notin r.red
  <2>1. Round(S, n, p, s0, o, r, x)
    BY <1>1, <1>2, <1>3, <1>4, <1>5, <1>6, <1>7, RoundIs
  <2> QED
    BY <2>1 DEF Round
<1>9. PICK s1 \in Sides : r.child[s1][x] \in r.red
  BY <1>7, <1>8
<1>10. PICK outer, inner : outer = r.child[o][x] /\ inner = r.child[s0][x]
  OBVIOUS
<1>11. PICK v : v = Straightened(r, x, o, inner, outer)
  OBVIOUS
<1>12. Straight(v, S, n, p, s0, o)
  BY <1>3, <1>6, <1>8, <1>9, <1>10, <1>11, StraightenedHolds
<1>13. PICK y : y = v.child[o][p]
  OBVIOUS
<1>14. PICK z : z = v.child[o][y]
  OBVIOUS
<1>15. PICK w : w = Lifted(v, y, p, z, s0)
  OBVIOUS
<1>16. w.root \in S /\ Erasing(w, S, w.root, p)
  <2>1. Lacking(v, S, n, p, s0) /\ y \notin v.red /\ z \in v.red
    BY <1>12, <1>13, <1>14 DEF Straight
  <2> QED
    BY <1>3, <1>8, <1>13, <1>14, <1>15, <2>1, LiftedHolds
<1>17. tree' = w /\ node' = w.root /\ pc' = "erase_color" /\ parent' = p
  BY <1>1, <1>7, <1>8, <1>10, <1>11, <1>13, <1>14, <1>15 DEF EraseRotate, Straightened, Lifted
<1>18. PICK m : m = w.root
  OBVIOUS
<1>19. m \in Node /\ Erasing(w, S, m, p)
  BY <1>16, <1>18, KeysAre DEF Erasing, Shape
<1>20. Held(w, S, "erase_color", m, p)
  BY <1>8, <1>19 DEF Held
<1> QED
  BY <1>17, <1>18, <1>20 DEF Holds

LEMMA TreeStep ==
    ASSUME NEW S, Holds(S), [TreeNext]_treevars
    PROVE  \E T : /\ Holds(T)'
                  /\ T = S \/ \E k \in Keys : \/ k \notin S /\ T = S \cup {k}
                                              \/ k \in S /\ T = S \ {k}
<1>1. ASSUME NEW k \in Keys, map_insert(k) PROVE k \notin S /\ Holds(S \cup {k})'
  BY <1>1, InsertStep
<1>2. ASSUME NEW k \in Keys, map_erase(k) PROVE k \in S /\ Holds(S \ {k})'
  BY <1>2, EraseStep
<1>3. CASE InsertEnds \/ EraseEnds
  BY <1>3, EndSteps
<1>4. CASE Recolor
  BY <1>4, RecolorStep
<1>5. CASE Restructure
  BY <1>5, RestructureStep
<1>6. CASE EraseUp
  BY <1>6, EraseUpStep
<1>7. CASE EraseRotate
  BY <1>7, EraseRotateStep
<1>8. CASE UNCHANGED treevars
  <2>1. tree' = tree /\ pc' = pc /\ node' = node /\ parent' = parent
    BY <1>8 DEF treevars
  <2>2. Holds(S)'
    BY <2>1 DEF Holds
  <2> QED
    BY <2>2
<1>9. CASE \E k \in Keys : map_insert(k) \/ map_erase(k)
  <2>1. PICK k \in Keys : map_insert(k) \/ map_erase(k)
    BY <1>9
  <2>2. CASE map_insert(k)
    BY <1>1, <2>2
  <2>3. CASE map_erase(k)
    BY <1>2, <2>3
  <2> QED
    BY <2>1, <2>2, <2>3
<1> QED
  BY <1>3, <1>4, <1>5, <1>6, <1>7, <1>8, <1>9 DEF TreeNext

LEMMA TreeStarts == TreeInit => Holds({})
<1> SUFFICES ASSUME TreeInit PROVE Holds({})
  OBVIOUS
<1>1. PICK t : t = tree
  OBVIOUS
<1>2. Settled(t, {})
  BY <1>1, EmptyIsSettled DEF TreeInit
<1>3. Held(t, {}, "idle", NULL, NULL)
  BY <1>2 DEF Held, Node
<1> QED
  BY <1>1, <1>3 DEF Holds, TreeInit

LEMMA TreeAlwaysHolds == TreeSpec => []TreeHolds
<1>1. TreeInit => TreeHolds
  BY TreeStarts DEF TreeHolds, Holds
<1>2. TreeHolds /\ [TreeNext]_treevars => TreeHolds'
  <2> SUFFICES ASSUME TreeHolds, [TreeNext]_treevars PROVE TreeHolds'
    OBVIOUS
  <2>1. PICK S : Holds(S)
    BY DEF TreeHolds, Holds
  <2>2. PICK T : Holds(T)'
    BY <2>1, TreeStep
  <2> QED
    BY <2>2 DEF TreeHolds, Holds
<1> QED
  BY <1>1, <1>2, PTL DEF TreeSpec

(* The root, the links, the colours and the variables of the loops have     *)
(* their types: no step of rbtree.c goes beyond the nodes of the map.       *)
THEOREM TreeTypeCorrect == TreeSpec => []TreeTypeOK
<1>1. TreeHolds => TreeTypeOK
  <2> SUFFICES ASSUME TreeHolds PROVE TreeTypeOK
    OBVIOUS
  <2>1. PICK S : Held(tree, S, pc, node, parent)
    BY DEF TreeHolds
  <2>2. PICK t : t = tree
    OBVIOUS
  <2>3. t \in Trees
    BY <2>1, <2>2, HeldHasShape DEF Shape
  <2> QED
    BY <2>1, <2>2, <2>3 DEF TreeTypeOK, Held
<1> QED
  BY <1>1, TreeAlwaysHolds, PTL

(* Between the calls of the map the tree is a red-black tree.               *)
THEOREM RedBlackHolds == TreeSpec => []RedBlack
<1>1. TreeHolds => RedBlack
  <2> SUFFICES ASSUME TreeHolds, pc = "idle" PROVE Balanced(tree)
    BY DEF RedBlack
  <2>1. PICK S : Held(tree, S, pc, node, parent)
    BY DEF TreeHolds
  <2>2. PICK t : t = tree
    OBVIOUS
  <2>3. Settled(t, S)
    BY <2>1, <2>2 DEF Held
  <2>4. Balanced(t)
    BY <2>3, BalanceHolds
  <2> QED
    BY <2>2, <2>4
<1> QED
  BY <1>1, TreeAlwaysHolds, PTL

(* What a user of the map sees of a tree that holds S.                      *)
Shows(S, found, first, next, prev) ==
    /\ found = S /\ first = Abstract!Least(S)
    /\ next = Abstract!Successors(S) /\ prev = Abstract!Predecessors(S)

LEMMA ShownAre ==
    ASSUME NEW t, NEW S, NEW c, NEW n, NEW p, Held(t, S, c, n, p), NEW F,
           F = {k \in Keys : map_find(t, k) = k}
    PROVE  Shows(S, F, map_first(t), [k \in F |-> Neighbour(t, k, "right")],
                 [k \in F |-> Neighbour(t, k, "left")])
<1>1. PICK b : Shape(t, S, b)
  BY HeldHasShape
<1>2. F = S
  BY <1>1, FindsAre
<1>3. /\ map_first(t) = Abstract!Least(S)
      /\ [k \in S |-> Neighbour(t, k, "right")] = Abstract!Successors(S)
      /\ [k \in S |-> Neighbour(t, k, "left")] = Abstract!Predecessors(S)
  BY <1>1, ShownIs
<1> QED
  BY <1>2, <1>3 DEF Shows

LEMMA ShowsNow ==
    ASSUME NEW S, Holds(S)
    PROVE  Shows(S, Found, map_first(tree), [k \in Found |-> Neighbour(tree, k, "right")],
                 [k \in Found |-> Neighbour(tree, k, "left")])
<1>1. PICK t, F : t = tree /\ F = {k \in Keys : map_find(t, k) = k}
  OBVIOUS
<1>2. Held(t, S, pc, node, parent)
  BY <1>1 DEF Holds
<1>3. Shows(S, F, map_first(t), [k \in F |-> Neighbour(t, k, "right")],
                 [k \in F |-> Neighbour(t, k, "left")])
  <2>1. PICK c, n, p : c = pc /\ n = node /\ p = parent
    OBVIOUS
  <2>2. Held(t, S, c, n, p)
    BY <1>2, <2>1
  <2> QED
    BY <1>1, <2>2, ShownAre
<1>4. Found = F
  BY <1>1 DEF Found
<1> QED
  BY <1>1, <1>3, <1>4

LEMMA ShowsNext ==
    ASSUME NEW S, Holds(S)'
    PROVE  Shows(S, Found', map_first(tree'), [k \in Found' |-> Neighbour(tree', k, "right")],
                 [k \in Found' |-> Neighbour(tree', k, "left")])
<1>1. PICK t, F : t = tree' /\ F = {k \in Keys : map_find(t, k) = k}
  OBVIOUS
<1>2. PICK c, n, p : c = pc' /\ n = node' /\ p = parent'
  OBVIOUS
<1>3. Held(t, S, c, n, p)
  BY <1>1, <1>2 DEF Holds
<1>4. Shows(S, F, map_first(t), [k \in F |-> Neighbour(t, k, "right")],
                 [k \in F |-> Neighbour(t, k, "left")])
  BY <1>1, <1>3, ShownAre
<1>5. Found' = F
  BY <1>1 DEF Found
<1> QED
  BY <1>1, <1>4, <1>5

(* The maps are sorted maps: in every round of every rebalancing, a look-up *)
(* finds the keys inserted and not erased, and a walk meets them in order.  *)
THEOREM MapIsImplemented == TreeSpec => ImplementsMap
<1>1. TreeInit => Abstract!MapInit
  <2> SUFFICES ASSUME TreeInit PROVE Abstract!MapInit
    OBVIOUS
  <2>1. Shows({}, Found, map_first(tree), [k \in Found |-> Neighbour(tree, k, "right")],
                 [k \in Found |-> Neighbour(tree, k, "left")])
    BY TreeStarts, ShowsNow
  <2>2. Abstract!Least({}) = NULL
    BY DEF Abstract!Least
  <2> QED
    BY <2>1, <2>2 DEF Shows, Abstract!MapInit
<1>2. TreeHolds /\ [TreeNext]_treevars => [Abstract!MapNext]_(Abstract!shown)
  <2> SUFFICES ASSUME TreeHolds, [TreeNext]_treevars PROVE [Abstract!MapNext]_(Abstract!shown)
    OBVIOUS
  <2>1. PICK S : Holds(S)
    BY DEF TreeHolds, Holds
  <2>2. PICK T : /\ Holds(T)'
                 /\ T = S \/ \E k \in Keys : \/ k \notin S /\ T = S \cup {k}
                                             \/ k \in S /\ T = S \ {k}
    BY <2>1, TreeStep
  <2>3. Shows(S, Found, map_first(tree), [k \in Found |-> Neighbour(tree, k, "right")],
                 [k \in Found |-> Neighbour(tree, k, "left")])
    BY <2>1, ShowsNow
  <2>4. Shows(T, Found', map_first(tree'), [k \in Found' |-> Neighbour(tree', k, "right")],
                 [k \in Found' |-> Neighbour(tree', k, "left")])
    BY <2>2, ShowsNext
  <2>5. CASE T = S
    BY <2>3, <2>4, <2>5 DEF Shows, Abstract!shown
  <2>6. Abstract!Becomes(T)
    BY <2>4 DEF Shows, Abstract!Becomes
  <2>7. Found = S /\ Found' = T
    BY <2>3, <2>4 DEF Shows
  <2>8. ASSUME NEW k \in Keys, k \notin S, T = S \cup {k} PROVE Abstract!MapNext
    <3>1. Abstract!Insert(k)
      BY <2>6, <2>7, <2>8 DEF Abstract!Insert
    <3> QED
      BY <2>7, <2>8, <3>1 DEF Abstract!MapNext
  <2>9. ASSUME NEW k \in Keys, k \in S, T = S \ {k} PROVE Abstract!MapNext
    <3>1. Abstract!Erase(k)
      BY <2>6, <2>7, <2>9 DEF Abstract!Erase
    <3> QED
      BY <2>7, <2>9, <3>1 DEF Abstract!MapNext
  <2> QED
    BY <2>2, <2>5, <2>8, <2>9
<1> QED
  BY <1>1, <1>2, TreeAlwaysHolds, PTL DEF TreeSpec, ImplementsMap, Abstract!MapSpec

=============================================================================
