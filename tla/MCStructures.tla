----------------------------- MODULE MCStructures -----------------------------
(* The data structures under one configuration.  They share no state: a     *)
(* behaviour is one of one structure, and the others stay as they began.    *)
EXTENDS Queues, RBTree, ConfigTree, TLC

CONSTANTS
    Freed,
    Slots, MaxBlocks, MaxLength,            \* of AnyValue
    MaxTexts, MaxItems                      \* of Cson

VARIABLES
    structure,
    block, slot, lost, undefined,
    mem, live, frames, use, step

values == <<block, slot, lost, undefined>>
json == <<mem, live, frames, use, step>>

A == INSTANCE AnyValue WITH Keys <- {1}, Other <- Freed, heap <- block
J == INSTANCE Cson WITH MaxBlocks <- MaxTexts, pc <- step

InitAll == TreeInit /\ Init /\ ConfInit /\ A!Init /\ J!Init

StructuresInit ==
    /\ structure \in {"map", "queues", "config", "any", "cson"}
    /\ InitAll
    /\ structure # "queues" => user = "client"
    /\ structure # "cson" => use.read = "stop_join"

StructuresNext ==
    \/ structure = "map" /\ TreeNext /\ UNCHANGED <<structure, vars, confvars, values, json>>
    \/ structure = "queues" /\ Next /\ UNCHANGED <<structure, treevars, confvars, values, json>>
    \/ structure = "config" /\ ConfNext /\ UNCHANGED <<structure, treevars, vars, values, json>>
    \/ structure = "any" /\ A!Next /\ UNCHANGED <<structure, treevars, vars, confvars, json>>
    \/ structure = "cson" /\ J!Next /\ UNCHANGED <<structure, treevars, vars, confvars, values>>

StructuresSpec ==
    StructuresInit /\ [][StructuresNext]_<<structure, treevars, vars, confvars, values, json>>

(* The variables of AnyValue stand for each other, as do the callers and the *)
(* timers of Queues.                                                          *)
Symmetry == Permutations(Slots) \cup Permutations(Users) \cup Permutations(Timers)

-----------------------------------------------------------------------------
(* The fields of every structure keep their types. *)
EachTypeOK ==
    CASE structure = "map" -> TreeTypeOK
      [] structure = "queues" -> TypeOK
      [] structure = "config" -> ConfTypeOK
      [] structure = "any" -> A!TypeOK
      [] structure = "cson" -> J!TypeOK

(* See the modules for what these state of the code.  (RedBlack and          *)
(* ImplementsMap are those of RBTree, NothingLost and PathsFound those of     *)
(* ConfigTree, PendingInOrder and TimerHasOneUser those of Queues.)           *)
OwnedOnce == structure = "any" => A!OwnedOnce
FreedOnce == structure = "cson" => J!FreedOnce

=============================================================================
