-------------------------------- MODULE AnyValue --------------------------------
(***************************************************************************)
(* The variants of any.c, as memory: which value owns which block, through *)
(* any sequence of the calls of any.h.  A value that is put into a         *)
(* container has moved: its owner does not use it again.                   *)
(*                                                                         *)
(* Of a text the model keeps whether it is empty, of the numbers and truth *)
(* values that they are in u (integer) or not (null).  Allocations         *)
(* succeed.  Reading YAML builds its values with these calls, and with     *)
(* map_any_insert.                                                         *)
(***************************************************************************)
EXTENDS Naturals, Sequences, SequencesExt, FiniteSets, FiniteSetsExt

CONSTANTS
    Slots,           \* variables of type any_t
    MaxBlocks,       \* bound: the blocks allocated at a time
    Keys,            \* keys of maps
    MaxLength,       \* bound on the items of a sequence
    NULL, Other      \* what else u may hold: a number, a constant text, what was freed

Block == 1 .. MaxBlocks

Plain == {"unknown", "null", "integer"}
TextLengths == 0 .. 1
Owners == {"string", "sequence", "map"}

VARIABLES
    heap,            \* the blocks: texts, arrays of items, maps
    slot,            \* the values of the variables
    lost,            \* blocks that map_any_insert has dropped
    undefined        \* has any_free freed what was not its own?

vars == <<heap, slot, lost, undefined>>

Val == [type : Plain \cup Owners \cup {"const"}, at : Block \cup {NULL, Other},
        len : 0 .. MaxLength]

TypeOK ==
    /\ DOMAIN heap = Block
    /\ \A b \in Block : /\ heap[b].kind \in {"free", "text", "array", "map"}
                        /\ DOMAIN heap[b].items \subseteq Keys \cup 1 .. MaxLength
                        /\ \A i \in DOMAIN heap[b].items : heap[b].items[i] \in Val
    /\ slot \in [Slots -> Val]
    /\ lost \subseteq Block /\ undefined \in BOOLEAN

V(type, at, len) == [type |-> type, at |-> at, len |-> len]
B(kind, items) == [kind |-> kind, items |-> items]
Nothing == V("unknown", NULL, 0)

Init ==
    /\ heap = [b \in Block |-> B("free", <<>>)]
    /\ slot = [s \in Slots |-> Nothing]
    /\ lost = {} /\ undefined = FALSE

Unused(h) == {b \in Block : h[b].kind = "free"}
Fresh(h) == Min(Unused(h))

(* The items of an array or a map that a value owns. *)
Items(h, v) ==
    IF v.type \in {"sequence", "map"} /\ v.at \in Block THEN Range(h[v.at].items) ELSE {}

(* The blocks a value owns, and those its items own. *)
Own(v) == IF v.type \in Owners /\ v.at \in Block THEN {v.at} ELSE {}

RECURSIVE Below(_, _)
Below(h, v) == Own(v) \cup UNION {Below(h, i) : i \in Items(h, v)}

(* Does a value, or one of its items, take what is not a block for its own? *)
RECURSIVE Stale(_, _)
Stale(h, v) ==
    \/ v.type = "string" /\ v.at = Other
    \/ \E i \in Items(h, v) : Stale(h, i)

-----------------------------------------------------------------------------
(* any_free and the calls that begin with it.                               *)

FreeBelow(h, v) == [b \in Block |-> IF b \in Below(h, v) THEN B("free", <<>>) ELSE h[b]]

(* u keeps what it held. *)
Left(v) == IF v.at = NULL THEN NULL ELSE Other

(* Slot s is freed, and then it has the value v and the heap is h. *)
Assign(s, h, v) ==
    IF Stale(heap, slot[s])
    THEN undefined' = TRUE /\ UNCHANGED <<heap, slot, lost>>
    ELSE heap' = h /\ slot' = [slot EXCEPT ![s] = v] /\ UNCHANGED <<lost, undefined>>

FreedOf(s) == FreeBelow(heap, slot[s])

any_free(s) == Assign(s, FreedOf(s), V("unknown", Left(slot[s]), 0))

(* any_set_integer, and any_from_int and the like. *)
any_set_integer(s) == Assign(s, FreedOf(s), V("integer", Other, 0))

(* any_set_string, any_set_string_n, any_from_string. *)
any_set_string(s, len) ==
    LET h == FreedOf(s) IN
    /\ Unused(h) # {}
    /\ Assign(s, [h EXCEPT ![Fresh(h)] = B("text", <<>>)], V("string", Fresh(h), len))

(* The same of NULL: u is not set. *)
SetNoString(s) == Assign(s, FreedOf(s), V("string", Left(slot[s]), 0))

any_set_const_string(s) == Assign(s, FreedOf(s), V("const", Other, 1))

(* any_create_null, any_create_sequence and any_create_map, after any_free. *)
any_create(s, type) == Assign(s, FreedOf(s), V(type, NULL, 0))

-----------------------------------------------------------------------------
(* Containers.  The value of slot t moves into that of slot s.              *)

(* A bound: an item has something in u, and is no number. *)
Item(v) == v.type \in Owners \cup {"const"} /\ v.at # NULL

Move(s, t, h, v) ==
    /\ s # t /\ Item(slot[t])
    /\ heap' = h
    /\ slot' = [slot EXCEPT ![s] = v, ![t] = Nothing]
    /\ UNCHANGED undefined

any_append(s, t) ==
    LET c == slot[s]
        v == slot[t]
    IN /\ CASE c.type = "sequence" /\ c.at # NULL ->
                  /\ c.len < MaxLength
                  /\ Move(s, t, [heap EXCEPT ![c.at].items = Append(@, v)],
                          [c EXCEPT !.len = @ + 1])
            [] c.type = "sequence" /\ c.at = NULL ->
                  /\ Unused(heap) # {}
                  /\ Move(s, t, [heap EXCEPT ![Fresh(heap)] = B("array", <<v>>)],
                          V("sequence", Fresh(heap), c.len + 1))
            [] c.type = "null" -> Move(s, t, heap, v)
            [] OTHER ->
                  /\ Unused(heap) # {}
                  /\ Move(s, t, [heap EXCEPT ![Fresh(heap)] = B("array", <<c, v>>)],
                          V("sequence", Fresh(heap), 2))
       /\ UNCHANGED lost

(* The block of a map, which the first entry makes. *)
MapOf(c) == IF c.at = NULL THEN Fresh(heap) ELSE c.at
With(b, k, v) ==
    B("map", [i \in DOMAIN heap[b].items \cup {k} |-> IF i = k THEN v ELSE heap[b].items[i]])

Replaced(b, k) == {heap[b].items[i] : i \in DOMAIN heap[b].items \cap {k}}

Addable(s, t) ==
    /\ slot[s].type = "map"
    /\ slot[s].at = NULL => Unused(heap) # {}

(* Mutant: the value that was under the key is not freed. *)
any_map_add_replaces(s, k, t) ==
    LET b == MapOf(slot[s]) IN
    /\ Addable(s, t)
    /\ Move(s, t, [heap EXCEPT ![b] = With(b, k, slot[t])], V("map", b, 0))
    /\ UNCHANGED lost

(* any_map_add, map_any_insert_ex: what was under the key is freed. *)
any_map_add(s, k, t) ==
    LET b == MapOf(slot[s])
        freed == UNION {Below(heap, v) : v \in Replaced(b, k)}
        h == [heap EXCEPT ![b] = With(b, k, slot[t])]
    IN /\ Addable(s, t)
       /\ IF \E v \in Replaced(b, k) : Stale(heap, v)
          THEN undefined' = TRUE /\ UNCHANGED <<heap, slot>>
          ELSE Move(s, t, [c \in Block |-> IF c \in freed THEN B("free", <<>>) ELSE h[c]],
                    V("map", b, 0))
       /\ UNCHANGED lost

(* map_any_insert, as any_from_yaml_node calls it for a pair of a mapping:  *)
(* what was under the key is overwritten.                                   *)
map_any_insert(s, k, t) ==
    LET b == MapOf(slot[s]) IN
    /\ Addable(s, t)
    /\ lost' = lost \cup UNION {Below(heap, v) : v \in Replaced(b, k)}
    /\ Move(s, t, [heap EXCEPT ![b] = With(b, k, slot[t])], V("map", b, 0))

-----------------------------------------------------------------------------
(* any_duplicate: a constant text is copied as well; a text of no length    *)
(* becomes NULL.                                                            *)

(* How many blocks the copy may need. *)
RECURSIVE Size(_, _)
Size(h, v) ==
    LET S == IF v.type \in {"sequence", "map"} /\ v.at \in Block THEN h[v.at].items ELSE <<>>
    IN 1 + FoldLeft(LAMBDA n, i : n + Size(h, S[i]), 0,
                                  SetToSortSeq(DOMAIN S, <))

Put(h, kind) == [h EXCEPT ![Fresh(h)] = B(kind, <<>>)]

RECURSIVE Copy(_, _)
Copy(h, v) ==
    LET b == Fresh(h)
        Add(c, i) == LET d == Copy(c.heap, h[v.at].items[i]) IN
            [heap |-> [d.heap EXCEPT ![b].items =
                          [j \in DOMAIN @ \cup {i} |-> IF j = i THEN d.val ELSE @[j]]],
             val |-> c.val]
    IN CASE v.type \in {"string", "const"} /\ v.len > 0 ->
              [heap |-> Put(h, "text"), val |-> V("string", b, v.len)]
         [] v.type \in {"string", "const"} /\ v.len = 0 ->
              [heap |-> h, val |-> V("string", NULL, 0)]
         [] v.type \in {"sequence", "map"} /\ v.at # NULL ->
              FoldLeft(Add, [heap |-> Put(h, h[v.at].kind), val |-> [v EXCEPT !.at = b]],
                       SetToSortSeq(DOMAIN h[v.at].items, <))
         [] OTHER -> [heap |-> h, val |-> v]

any_duplicate(s, t) ==
    /\ slot[t] = Nothing /\ Size(heap, slot[s]) <= Cardinality(Unused(heap))
    /\ LET c == Copy(heap, slot[s])
       IN heap' = c.heap /\ slot' = [slot EXCEPT ![t] = c.val]
    /\ UNCHANGED <<lost, undefined>>

(* A behaviour is followed until something undefined is done; a bound: or   *)
(* until a block is lost.                                                   *)
Next ==
    /\ ~undefined /\ lost = {}
    /\ \E s \in Slots :
          \/ any_free(s) \/ any_set_integer(s) \/ SetNoString(s) \/ any_set_const_string(s)
          \/ \E len \in TextLengths : any_set_string(s, len)
          \/ \E type \in {"null", "sequence", "map"} : any_create(s, type)
          \/ \E t \in Slots :
                \/ any_append(s, t) \/ any_duplicate(s, t)
                \/ \E k \in Keys : any_map_add(s, k, t) \/ map_any_insert(s, k, t)

Spec == Init /\ [][Next]_vars

-----------------------------------------------------------------------------
(* A block is owned once: by one variable, or by one item of a container    *)
(* that is owned itself, after any calls of any.h; and what owns a block    *)
(* has not lost it to a call that freed it.  Only map_any_insert drops      *)
(* blocks, and only a text set to NULL keeps what is not its own: freeing   *)
(* that is undefined.                                                       *)
OwnedOnce ==
    LET live == Block \ Unused(heap)
        held == live \ lost
        places == {<<0, s>> : s \in Slots} \cup UNION {{<<b, i>> : i \in DOMAIN heap[b].items} : b \in held}
        value[p \in places] == IF p[1] = 0 THEN slot[p[2]] ELSE heap[p[1]].items[p[2]]
    IN /\ \A b \in held : Cardinality({p \in places : b \in Own(value[p])}) = 1
       /\ \A p \in places : Own(value[p]) \subseteq held
       /\ held \subseteq UNION {Below(heap, slot[s]) : s \in Slots}

=============================================================================
