-------------------------------- MODULE RBTree --------------------------------
(***************************************************************************)
(* The red-black tree of src/src/rbtree.c and the maps that map.h and      *)
(* map.c generate over it: devices, requests, callbacks and the maps of    *)
(* any.c.  A round of a loop is a step.                                    *)
(*                                                                         *)
(* A key has one node at most, so nodes go by their keys; values are left  *)
(* out.  The branches of rbtree.c come in pairs that mirror each other:    *)
(* here they are one, with the side as a parameter.  The calls of a map    *)
(* follow each other.  That does not hold of every map: rex_notify looks   *)
(* up requests and devices, and rex_stop erases devices (main.c:79, 110,   *)
(* 62), without a lock, maybe between two writes of another thread's       *)
(* rotation.  What such a look-up misses is in Requests.                   *)
(***************************************************************************)
EXTENDS Pointers, Integers, FiniteSets

CONSTANT Keys        \* integers

ASSUME KeysAssumption == Keys \subseteq Int /\ IsFiniteSet(Keys) /\ NULL \notin Keys

Sides == {"left", "right"}
Opposite(side) == IF side = "left" THEN "right" ELSE "left"

VARIABLES
    tree,            \* root; child and parent of each node; the red nodes
    pc,              \* the loop that is under way
    node, parent     \* its variables of these names

treevars == <<tree, pc, node, parent>>

Node == Keys \cup {NULL}

Trees == [root : Node, child : [Sides -> [Keys -> Node]],
          parent : [Keys -> Node], red : SUBSET Keys]

TreeTypeOK ==
    /\ tree \in Trees
    /\ pc \in {"idle", "insert_color", "erase_color"}
    /\ node \in Node /\ parent \in Node

(* create. *)
TreeInit ==
    /\ tree = [root |-> NULL, child |-> [s \in Sides |-> [k \in Keys |-> NULL]],
               parent |-> [k \in Keys |-> NULL], red |-> {}]
    /\ pc = "idle" /\ node = NULL /\ parent = NULL

Return == pc' = "idle" /\ node' = NULL /\ parent' = NULL

-----------------------------------------------------------------------------
(* Trees.                                                                   *)

IsRed(t, n) == n # NULL /\ n \in t.red

Blacken(t, n) == [t EXCEPT !.red = @ \ {n}]
Redden(t, n) == [t EXCEPT !.red = @ \cup {n}]
Paint(t, n, m) == IF m \in t.red THEN Redden(t, n) ELSE Blacken(t, n)

(* rb_set_parent, for a child that may be NULL. *)
SetParent(t, n, p) == IF n = NULL THEN t ELSE [t EXCEPT !.parent[n] = p]

(* Put new where old is: under p, or at the root. *)
Relink(t, p, old, new) ==
    IF p = NULL THEN [t EXCEPT !.root = new]
    ELSE [t EXCEPT !.child[IF t.child["left"][p] = old THEN "left" ELSE "right"][p] = new]

(* Mutant: the child that changes sides keeps its parent. *)
Rotate_orphan(t, n, side) ==
    LET up == t.child[Opposite(side)][n]
        inner == t.child[side][up]
        linked == [Relink(t, t.parent[n], n, up)
                      EXCEPT !.child[Opposite(side)][n] = inner, !.child[side][up] = n]
    IN SetParent(SetParent(linked, up, t.parent[n]), n, up)

(* __rb_rotate_left and __rb_rotate_right: node n goes down on that side. *)
Rotate(t, n, side) ==
    LET up == t.child[Opposite(side)][n]
        inner == t.child[side][up]
        linked == [Relink(t, t.parent[n], n, up)
                      EXCEPT !.child[Opposite(side)][n] = inner, !.child[side][up] = n]
    IN SetParent(SetParent(SetParent(linked, inner, n), up, t.parent[n]), n, up)

(* The last node on one side below n: rb_first, and the loops in rb_next,   *)
(* rb_prev and rb_erase.                                                    *)
Outermost(t, n, side) ==
    LET last[m \in Keys] ==
          IF t.child[side][m] = NULL THEN m ELSE last[t.child[side][m]]
    IN last[n]

(* rb_next for the right side, rb_prev for the left. *)
Neighbour(t, n, side) ==
    LET up[m \in Keys] ==
          LET p == t.parent[m]
          IN IF p # NULL /\ m = t.child[side][p] THEN up[p] ELSE p
    IN IF t.child[side][n] # NULL
       THEN Outermost(t, t.child[side][n], Opposite(side))
       ELSE up[n]

(* The nodes that hang from the root. *)
Hanging(t) ==
    LET below[n \in Node] ==
          IF n = NULL THEN {}
          ELSE {n} \cup below[t.child["left"][n]] \cup below[t.child["right"][n]]
    IN below[t.root]

SideOf(k, n) == IF k < n THEN "left" ELSE "right"

(* The way down of map_find and map_insert: the node of the key, or NULL,   *)
(* and the last node before it.                                             *)
Search(t, k) ==
    LET down[n \in Keys] ==
          LET m == t.child[SideOf(k, n)][n]
          IN IF n = k THEN [node |-> n, parent |-> t.parent[n]]
             ELSE IF m = NULL THEN [node |-> NULL, parent |-> n]
             ELSE down[m]
    IN IF t.root = NULL THEN [node |-> NULL, parent |-> NULL] ELSE down[t.root]

map_find(t, k) == Search(t, k).node

map_first(t) == IF t.root = NULL THEN NULL ELSE Outermost(t, t.root, "left")

-----------------------------------------------------------------------------
(* map_insert: rb_link_node, if the key is not there.  (If it is, its node  *)
(* gets the new value.)                                                     *)
map_insert(k) ==
    /\ pc = "idle" /\ map_find(tree, k) = NULL
    /\ LET p == Search(tree, k).parent
           t == [tree EXCEPT !.parent[k] = p, !.red = @ \cup {k}]
       IN tree' = IF p = NULL THEN [t EXCEPT !.root = k]
                  ELSE [t EXCEPT !.child[SideOf(k, p)][p] = k]
    /\ pc' = "insert_color" /\ node' = k
    /\ UNCHANGED parent

-----------------------------------------------------------------------------
(* rb_insert_color.                                                         *)

Father == tree.parent[node]
Grandfather == tree.parent[Father]
FatherSide == IF Father = tree.child["left"][Grandfather] THEN "left" ELSE "right"
Uncle == tree.child[Opposite(FatherSide)][Grandfather]

(* The parent is absent or black: the loop ends, and the root is blackened. *)
InsertEnds ==
    /\ pc = "insert_color" /\ ~IsRed(tree, Father)
    /\ tree' = Blacken(tree, tree.root)
    /\ Return

(* A red uncle: the conflict moves two levels up. *)
Recolor ==
    /\ pc = "insert_color" /\ IsRed(tree, Father) /\ IsRed(tree, Uncle)
    /\ tree' = Redden(Blacken(Blacken(tree, Uncle), Father), Grandfather)
    /\ node' = Grandfather
    /\ UNCHANGED <<pc, parent>>

(* A black uncle: one rotation, after another if node is between the two.   *)
Restructure ==
    /\ pc = "insert_color" /\ IsRed(tree, Father) /\ ~IsRed(tree, Uncle)
    /\ LET between == tree.child[Opposite(FatherSide)][Father] = node
           top == IF between THEN node ELSE Father
           t == IF between THEN Rotate(tree, Father, FatherSide) ELSE tree
       IN /\ tree' = Rotate(Redden(Blacken(t, top), Grandfather), Grandfather,
                            Opposite(FatherSide))
          /\ node' = IF between THEN Father ELSE node
    /\ UNCHANGED <<pc, parent>>

-----------------------------------------------------------------------------
(* map_erase: rb_erase of the node of an iterator, which free then releases. *)

Release(t, n) ==
    [t EXCEPT !.child["left"][n] = NULL, !.child["right"][n] = NULL,
              !.parent[n] = NULL, !.red = @ \ {n}]

(* rb_erase of a node with one child at most. *)
Splice(t, n) ==
    LET child == t.child[IF t.child["left"][n] = NULL THEN "right" ELSE "left"][n]
    IN [tree |-> Relink(SetParent(t, child, t.parent[n]), t.parent[n], n, child),
        child |-> child, parent |-> t.parent[n], black |-> n \notin t.red]

(* rb_erase of a node with two: its successor leaves its own place and      *)
(* takes that of the node, with its colour.                                 *)
Substitute(t, old) ==
    LET n == Outermost(t, t.child["right"][old], "left")
        child == t.child["right"][n]
        near == t.parent[n] = old
        placed == Relink(t, t.parent[old], old, n)
        left == IF near THEN placed
                ELSE LET p == t.parent[n]
                         u == [SetParent(placed, child, p)
                                  EXCEPT !.child["left"][p] = child,
                                         !.child["right"][n] = t.child["right"][old]]
                     IN SetParent(u, t.child["right"][old], n)
        over == [Paint(left, n, old) EXCEPT !.parent[n] = t.parent[old],
                                            !.child["left"][n] = t.child["left"][old]]
    IN [tree |-> SetParent(over, t.child["left"][old], n),
        child |-> child, parent |-> IF near THEN n ELSE t.parent[n],
        black |-> n \notin t.red]

HasTwo(t, n) == \A s \in Sides : t.child[s][n] # NULL

map_erase(k) ==
    /\ pc = "idle" /\ map_find(tree, k) = k
    /\ LET r == IF HasTwo(tree, k) THEN Substitute(tree, k) ELSE Splice(tree, k)
       IN /\ tree' = Release(r.tree, k)
          /\ IF r.black
             THEN /\ pc' = "erase_color"
                  /\ node' = r.child /\ parent' = r.parent
             ELSE UNCHANGED <<pc, node, parent>>

(* __rb_erase_color.                                                        *)
Missing == ~IsRed(tree, node) /\ node # tree.root

EraseEnds ==
    /\ pc = "erase_color" /\ ~Missing
    /\ tree' = IF node = NULL THEN tree ELSE Blacken(tree, node)
    /\ Return

ThisSide == IF tree.child["left"][parent] = node THEN "left" ELSE "right"
OtherSide == Opposite(ThisSide)
Other == tree.child[OtherSide][parent]

(* What begins each round: a red sibling is rotated away. *)
Prepared ==
    IF IsRed(tree, Other)
    THEN Rotate(Redden(Blacken(tree, Other), parent), parent, ThisSide)
    ELSE tree

Sibling == Prepared.child[OtherSide][parent]

BlackChildren == \A s \in Sides : ~IsRed(Prepared, Prepared.child[s][Sibling])

(* Mutant: a child of the sibling turns red in its stead. *)
EraseUp_child ==
    /\ pc = "erase_color" /\ Missing /\ BlackChildren
    /\ tree' = Redden(Prepared, Prepared.child[OtherSide][Sibling])
    /\ node' = parent /\ parent' = Prepared.parent[parent]
    /\ UNCHANGED pc

(* A sibling with black children turns red, and the search for a place to   *)
(* make up for the missing black goes up.                                   *)
EraseUp ==
    /\ pc = "erase_color" /\ Missing /\ BlackChildren
    /\ tree' = Redden(Prepared, Sibling)
    /\ node' = parent /\ parent' = Prepared.parent[parent]
    /\ UNCHANGED pc

(* Mutant: the outer child of the sibling keeps its colour. *)
EraseRotate_outer ==
    /\ pc = "erase_color" /\ Missing /\ ~BlackChildren
    /\ LET outer == Prepared.child[OtherSide][Sibling]
           inner == Prepared.child[ThisSide][Sibling]
           t == IF IsRed(Prepared, outer) THEN Prepared
                ELSE Rotate(Redden(Blacken(Prepared, inner), Sibling), Sibling, OtherSide)
           o == t.child[OtherSide][parent]
           u == Rotate(Blacken(Paint(t, o, parent), parent), parent, ThisSide)
       IN tree' = u /\ node' = u.root
    /\ UNCHANGED <<pc, parent>>

(* A sibling with a red child: a rotation makes up for the missing black,   *)
(* after another if the red child is the inner one, and the loop ends.      *)
EraseRotate ==
    /\ pc = "erase_color" /\ Missing /\ ~BlackChildren
    /\ LET outer == Prepared.child[OtherSide][Sibling]
           inner == Prepared.child[ThisSide][Sibling]
           t == IF IsRed(Prepared, outer) THEN Prepared
                ELSE Rotate(Redden(Blacken(Prepared, inner), Sibling), Sibling, OtherSide)
           o == t.child[OtherSide][parent]
           p == Blacken(Blacken(Paint(t, o, parent), parent), t.child[OtherSide][o])
           u == Rotate(p, parent, ThisSide)
       IN tree' = u /\ node' = u.root
    /\ UNCHANGED <<pc, parent>>

-----------------------------------------------------------------------------
TreeNext ==
    \/ \E k \in Keys : map_insert(k) \/ map_erase(k)
    \/ InsertEnds \/ Recolor \/ Restructure
    \/ EraseEnds \/ EraseUp \/ EraseRotate

TreeSpec == TreeInit /\ [][TreeNext]_treevars

-----------------------------------------------------------------------------
(* Between calls the tree is balanced, whatever was inserted and erased: its *)
(* root is black, no red node has a red child, every way down from the root *)
(* meets the same number of black nodes, and each child knows its parent.   *)
Balanced(t) ==
    LET blacks[n \in Node] ==
          IF n = NULL THEN {0}
          ELSE {b + (IF n \in t.red THEN 0 ELSE 1) :
                  b \in blacks[t.child["left"][n]] \cup blacks[t.child["right"][n]]}
    IN /\ ~IsRed(t, t.root)
       /\ t.root # NULL => t.parent[t.root] = NULL
       /\ \A n \in Hanging(t), s \in Sides : t.child[s][n] # NULL =>
             /\ t.parent[t.child[s][n]] = n
             /\ ~(n \in t.red /\ t.child[s][n] \in t.red)
       /\ Cardinality(blacks[t.root]) = 1

RedBlack == pc = "idle" => Balanced(tree)

(* The map is a sorted map, in every round of every rebalancing: a look-up  *)
(* finds exactly the keys inserted and not erased, and a walk in either     *)
(* direction meets them in order; for calls that follow each other.         *)
Found == {k \in Keys : map_find(tree, k) = k}

Abstract == INSTANCE SortedMap WITH
    None <- NULL, found <- Found, first <- map_first(tree),
    next <- [k \in Found |-> Neighbour(tree, k, "right")],
    prev <- [k \in Found |-> Neighbour(tree, k, "left")]

ImplementsMap == Abstract!MapSpec

=============================================================================
