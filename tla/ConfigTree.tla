------------------------------- MODULE ConfigTree -------------------------------
(***************************************************************************)
(* The configuration tree of config.c: how a YAML document becomes a tree, *)
(* and what the functions of config.h do with it.  The document is revealed *)
(* while it is parsed, an item or a pair in a step, and an allocation may  *)
(* fail.  conf_set goes down a name one key in a step.                     *)
(*                                                                         *)
(* Children are kept in the order of their list.  A name is the sequence   *)
(* of the keys its dots separate.  The texts of scalars are left out, and  *)
(* so are the buffers a name has to fit in.                                *)
(***************************************************************************)
EXTENDS Pointers, Naturals, FiniteSets, Sequences, SequencesExt, FiniteSetsExt

CONSTANTS
    Names, Dotted,    \* what names are made of; the keys that a key with a dot repeats
    MaxNodes,        \* bound: the nodes allocated at a time
    MaxDepth,        \* bound: how deep a tree of a document is
    MaxHeld          \* bound: the parts a caller holds at a time

ConfNode == 1 .. MaxNodes
ASSUME ConfigAssumption == MaxNodes \in Nat /\ NULL \notin ConfNode

Index == [i \in 0 .. MaxNodes |-> <<ToString(i)>>]

(* A key of a document may have a dot in it. *)
KeyNames == {<<k>> : k \in Names} \cup {<<k, k>> : k \in Dotted}

VARIABLES
    conf,            \* struct dp_conf_node of each node, and whether it is allocated
    root,            \* what conf_parse_file has returned, or is working on
    removed,         \* nodes that a caller has removed and holds
    dropped,         \* items that were not linked when parsing failed (not in the code)
    call,            \* the call that is under way
    at,              \* the container being parsed, or where conf_set has come
    rest             \* the keys conf_set has yet to follow, and whether a dot ends them

confvars == <<conf, root, removed, dropped, call, at, rest>>

Types == {"none", "scalar", "sequence", "mapping"}
Containers == {"sequence", "mapping"}

NodeNames == KeyNames \cup Range(Index) \cup {<<>>}

ConfNodes == [used : BOOLEAN, parent : ConfNode \cup {NULL}, name : NodeNames,
              type : Types, children : Seq(ConfNode)]

Heaps == [ConfNode -> ConfNodes]

ConfTypeOK ==
    /\ conf \in Heaps
    /\ root \in ConfNode \cup {NULL} /\ removed \subseteq ConfNode
    /\ dropped \subseteq ConfNode
    /\ call \in {"idle", "parse", "set", "undefined"}
    /\ at \in ConfNode \cup {NULL}
    /\ rest \in [keys : Seq(Names), dot : BOOLEAN]

Unallocated == [used |-> FALSE, parent |-> NULL, name |-> <<>>, type |-> "none", children |-> <<>>]
Nowhere == [keys |-> <<>>, dot |-> FALSE]

ConfInit ==
    /\ conf = [n \in ConfNode |-> Unallocated]
    /\ root = NULL /\ removed = {} /\ dropped = {}
    /\ call = "idle" /\ at = NULL /\ rest = Nowhere

Idle == call' = "idle" /\ at' = NULL /\ rest' = Nowhere

-----------------------------------------------------------------------------
(* Nodes and names.                                                         *)

Unused == {n \in ConfNode : ~conf[n].used}

(* new_conf_node: nodes have no order, so any unused one stands for all. *)
Fresh == Min(Unused)

(* A new node with that parent: last of its children, or first. *)
New(p, name, type) ==
    [used |-> TRUE, parent |-> p, name |-> name, type |-> type, children |-> <<>>]
Linked(n, p, name, type) ==
    [conf EXCEPT ![n] = New(p, name, type), ![p].children = Append(@, n)]
LinkedFirst(n, p, name, type) ==
    [conf EXCEPT ![n] = New(p, name, type), ![p].children = <<n>> \o @]

(* The nodes of the tree of n: what any set has that has n and, with a node, *)
(* its children.                                                            *)
Below(h, n) ==
    LET closed == {S \in SUBSET ConfNode :
                      n \in S /\ \A m \in S : \A i \in DOMAIN h[m].children : h[m].children[i] \in S}
    IN {m \in ConfNode : \A S \in closed : m \in S}

(* The nodes on the way to n from the top of its tree. *)
Above(n) ==
    LET closed == {S \in SUBSET ConfNode :
                      n \in S /\ \A m \in S : conf[m].parent \in S \cup {NULL}}
    IN {m \in ConfNode : \A S \in closed : m \in S}

(* The first child of that name. *)
conf_node_lookup_child(n, name) ==
    LET children == conf[n].children
        found == {i \in DOMAIN children : conf[children[i]].name = name}
    IN IF found = {} THEN NULL ELSE children[Min(found)]

(* The name is taken apart at its dots. *)
conf_get_node(n, name) ==
    LET walk[i \in 0 .. Len(name)] ==
          IF i = 0 THEN n
          ELSE IF walk[i - 1] = NULL THEN NULL
               ELSE conf_node_lookup_child(walk[i - 1], <<name[i]>>)
    IN walk[Len(name)]

(* The path of a node of the tree.  An item of a sequence adds its index,   *)
(* in brackets, to the last key: no key is like that.                       *)
fill_path_name(n) ==
    LET path[m \in Below(conf, root)] ==
          LET p == conf[m].parent IN
          CASE p = NULL -> <<>>
            [] p # NULL /\ conf[p].type = "mapping" -> path[p] \o conf[m].name
            [] OTHER -> SubSeq(path[p], 1, Len(path[p]) - 1) \o <<"[]">>
    IN path[n]

(* conf_remove_node. *)
Unlink(h, n) ==
    LET p == h[n].parent
        place == CHOOSE i \in DOMAIN h[p].children : h[p].children[i] = n
    IN IF p = NULL THEN h
       ELSE [h EXCEPT ![p].children = RemoveAt(@, place), ![n].parent = NULL]

(* conf_free_root: n leaves its tree, and it and what is below it are freed. *)
Without(h, n) ==
    LET u == Unlink(h, n)
    IN [m \in ConfNode |-> IF m \in Below(u, n) THEN Unallocated ELSE u[m]]

-----------------------------------------------------------------------------
(* conf_parse_file.                                                         *)

(* The root of a document is a container; the empty one, a scalar and no    *)
(* memory leave no tree.                                                    *)
parse_yaml_doc(type) ==
    /\ call = "idle" /\ root = NULL /\ Unused # {}
    /\ conf' = [conf EXCEPT ![Fresh] = New(NULL, <<>>, type)]
    /\ root' = Fresh /\ at' = Fresh /\ call' = "parse"
    /\ UNCHANGED <<removed, dropped, rest>>

Parsing(type) == call = "parse" /\ conf[at].type = type /\ Unused # {}

(* The value of the new node n is a text that is copied, or a container     *)
(* whose items are next.                                                    *)
Value(n, type) ==
    /\ type \in Containers => Cardinality(Above(at)) <= MaxDepth
    /\ at' = IF type \in Containers THEN n ELSE at
    /\ UNCHANGED <<root, removed, dropped, call, rest>>

(* parse_yaml_node returns -1, and so do those that have called it.         *)
Fail(h) == conf' = Without(h, root) /\ root' = NULL /\ Idle /\ UNCHANGED removed

ParseItem(type) ==
    /\ Parsing("sequence")
    /\ conf' = Linked(Fresh, at, Index[Len(conf[at].children)], type)
    /\ Value(Fresh, type)

(* The text of the item is empty, or there is no memory for it. *)
ItemFails ==
    /\ Parsing("sequence")
    /\ Fail(Linked(Fresh, at, Index[Len(conf[at].children)], "none"))
    /\ UNCHANGED dropped

(* There is no memory for the name of the item, which is not linked yet and *)
(* is lost.                                                                 *)
ItemUnnamed ==
    /\ Parsing("sequence")
    /\ Fail([conf EXCEPT ![Fresh] = New(at, <<>>, "none")])
    /\ dropped' = dropped \cup {Fresh}

(* Mutant: a key that is there already is not noticed. *)
ParsePair_conflict(key, type) ==
    /\ Parsing("mapping")
    /\ conf' = Linked(Fresh, at, key, type)
    /\ Value(Fresh, type)

ParsePair(key, type) ==
    /\ Parsing("mapping") /\ conf_node_lookup_child(at, key) = NULL
    /\ conf' = Linked(Fresh, at, key, type)
    /\ Value(Fresh, type)

(* Mutant: a key that is there already fails before the node is linked. *)
PairFails_unlinked(key) ==
    /\ Parsing("mapping")
    /\ Fail([conf EXCEPT ![Fresh] = New(at, key, "none")])
    /\ UNCHANGED dropped

(* The key is there already, or is empty (<<>>), or the value fails as that *)
(* of an item does: the node is linked, to be freed with the others.        *)
PairFails(key) ==
    /\ Parsing("mapping")
    /\ Fail(Linked(Fresh, at, key, "none"))
    /\ UNCHANGED dropped

(* Anything else: a key that is no scalar, an alias of nothing, no memory. *)
ParseFails == call = "parse" /\ Fail(conf) /\ UNCHANGED dropped

(* parse_yaml_node returns 0. *)
ParsedNode ==
    /\ call = "parse"
    /\ IF at = root THEN Idle
       ELSE at' = conf[at].parent /\ UNCHANGED <<call, rest>>
    /\ UNCHANGED <<conf, root, removed, dropped>>

-----------------------------------------------------------------------------
(* The other functions of config.h.                                         *)

Tops == removed \cup ({root} \ {NULL})
Kept == UNION {Below(conf, t) : t \in Tops}

conf_remove_node(n) ==
    /\ call = "idle" /\ Cardinality(removed) < MaxHeld
    /\ n \in Kept \ Tops
    /\ conf' = Unlink(conf, n)
    /\ removed' = removed \cup {n}
    /\ UNCHANGED <<root, dropped, call, at, rest>>

conf_free_root(n) ==
    /\ call = "idle" /\ n \in Kept
    /\ conf' = Without(conf, n)
    /\ root' = IF n = root THEN NULL ELSE root
    /\ removed' = removed \ {n}
    /\ UNCHANGED <<dropped, call, at, rest>>

(* conf_set(root, keys, a dot after the last or not). *)
conf_set(keys, dot) ==
    /\ call = "idle" /\ root # NULL
    /\ call' = "set" /\ at' = root /\ rest' = [keys |-> keys, dot |-> dot]
    /\ UNCHANGED <<conf, root, removed, dropped>>

(* A round of conf_get_node_or_create has come to child: another key is     *)
(* next, or the dot that ends the name; the loop reads *next of NULL if     *)
(* there is none.  Then conf_set gives child its value if it is a scalar.   *)
Reached(child) ==
    CASE Len(rest.keys) > 1 ->
            at' = child /\ rest' = [rest EXCEPT !.keys = Tail(@)] /\ UNCHANGED call
      [] Len(rest.keys) = 1 /\ rest.dot -> Idle
      [] OTHER -> call' = "undefined" /\ UNCHANGED <<at, rest>>

NextChild == conf_node_lookup_child(at, <<Head(rest.keys)>>)

FollowKey ==
    /\ call = "set" /\ NextChild # NULL
    /\ Reached(NextChild)
    /\ UNCHANGED <<conf, root, removed, dropped>>

CreateKey ==
    /\ call = "set" /\ NextChild = NULL
    /\ conf[at].type = "mapping" /\ Unused # {}
    /\ conf' = LinkedFirst(Fresh, at, <<Head(rest.keys)>>,
                           IF Len(rest.keys) > 1 \/ rest.dot THEN "mapping" ELSE "none")
    /\ Reached(Fresh)
    /\ UNCHANGED <<root, removed, dropped>>

(* The parent is no mapping, or there is no memory. *)
CreateFails ==
    /\ call = "set" /\ NextChild = NULL
    /\ Idle
    /\ UNCHANGED <<conf, root, removed, dropped>>

ConfNext ==
    \/ \E type \in Containers : parse_yaml_doc(type)
    \/ \E type \in Containers \cup {"scalar"} :
          \/ ParseItem(type)
          \/ \E key \in KeyNames : ParsePair(key, type)
    \/ \E key \in KeyNames \cup {<<>>} : PairFails(key)
    \/ ItemFails \/ ItemUnnamed \/ ParseFails \/ ParsedNode
    \/ \E n \in ConfNode : conf_remove_node(n) \/ conf_free_root(n)
    \/ \E keys \in {<<k>> : k \in Names} \cup {<<k, l>> : k, l \in Names}, dot \in BOOLEAN :
          conf_set(keys, dot)
    \/ FollowKey \/ CreateKey \/ CreateFails

ConfSpec == ConfInit /\ [][ConfNext]_confvars

-----------------------------------------------------------------------------
(* No node is lost: each is in the tree or in a part a caller has removed, *)
(* also when parsing failed anywhere ("linked, to be freed with the rest", *)
(* config.c:172), and its children name it as their parent.  The one       *)
(* exception is the item of a sequence whose name could not be allocated   *)
(* (config.c:125).                                                         *)
NothingLost ==
    /\ LET kept == Kept IN \A n \in ConfNode : conf[n].used => n \in kept \cup dropped
    /\ \A n \in ConfNode, i \in 1 .. MaxNodes : i \in DOMAIN conf[n].children =>
          conf[conf[n].children[i]].used /\ conf[conf[n].children[i]].parent = n

(* A path leads back to its node: what conf_fill_path writes for a node,    *)
(* conf_get_node finds, after any parsing, setting and removing, where only *)
(* mappings are above it and no name on the way has a dot.                  *)
PathsFound ==
    root # NULL /\ call \in {"idle", "set"} =>
        \A n \in Below(conf, root) :
            LET above == Above(n) IN
            (\A m \in above \ {n} : conf[m].type = "mapping")
            /\ (\A m \in above \ {root} : Len(conf[m].name) = 1)
            => conf_get_node(root, fill_path_name(n)) = n

=============================================================================
