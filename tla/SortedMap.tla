------------------------------- MODULE SortedMap -------------------------------
(***************************************************************************)
(* What a user of the maps of src/src/map.h can see: the keys a look-up     *)
(* finds, and the order in which a walk meets them, forwards and backwards. *)
(* Calls insert and erase one key at a time.  An iterator is known by its   *)
(* key; values are left out.                                                *)
(***************************************************************************)
EXTENDS Integers

CONSTANTS Keys, None

VARIABLES
    found,        \* the keys that map_find finds
    first,        \* what map_first returns
    next, prev    \* what map_next and map_prev return, for each iterator

(* The least and the greatest of a set of keys, None if it is empty. *)
Least(S) == IF S = {} THEN None ELSE CHOOSE k \in S : \A j \in S : k <= j
Greatest(S) == IF S = {} THEN None ELSE CHOOSE k \in S : \A j \in S : k >= j

Successors(S) == [k \in S |-> Least({j \in S : j > k})]
Predecessors(S) == [k \in S |-> Greatest({j \in S : j < k})]

MapInit ==
    found = {} /\ first = None /\ next = Successors({}) /\ prev = Predecessors({})

Becomes(S) ==
    /\ found' = S /\ first' = Least(S)
    /\ next' = Successors(S) /\ prev' = Predecessors(S)

Insert(k) == k \notin found /\ Becomes(found \cup {k})
Erase(k) == k \in found /\ Becomes(found \ {k})

MapNext ==
    /\ found' # found
    /\ \E k \in Keys : Insert(k) \/ Erase(k)

shown == <<found, first, next, prev>>

MapSpec == MapInit /\ [][MapNext]_shown

=============================================================================
