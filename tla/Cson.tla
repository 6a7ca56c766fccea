--------------------------------- MODULE Cson ---------------------------------
(***************************************************************************)
(* How cson.c reads a JSON text into a structure along a table of its      *)
(* fields and frees what it allocated, with the tables of protocol.h that  *)
(* are read: a field of the structure in a step.  The text is revealed     *)
(* while it is read.                                                       *)
(*                                                                         *)
(* Memory is in words of eight bytes: a pointer or a number is a word.     *)
(* Neighbouring fields of type string are one or two, what the texts say   *)
(* is left out, and so are the fields of other types in the tables that    *)
(* nothing reads.                                                          *)
(***************************************************************************)
EXTENDS Naturals, Sequences, SequencesExt, FiniteSets, FiniteSetsExt

CONSTANTS
    MaxBlocks,       \* bound: the blocks allocated at a time
    MaxItems         \* bound on the items of an array

-----------------------------------------------------------------------------
(* The tables.  A field is at a word of the structure.                      *)

Field(type, at, of, width, count) ==
    [type |-> type, at |-> at, of |-> of, width |-> width, count |-> count]
Str(at) == Field("string", at, "", 1, 0)
Num(at) == Field("integer", at, "", 1, 0)
Obj(at, of) == Field("object", at, of, 1, 0)
Arr(at, of, width, count) == Field("array", at, of, width, count)

(* The value of start_join_data and scan_join_data is a pointer; their      *)
(* tables describe it as a structure that is part of the item.              *)
Table == [start_join          |-> <<Str(0), Arr(2, "start_join_data", 3, 1)>>,
          start_join_data     |-> <<Str(0), Str(1), Obj(2, "start_join_value")>>,
          start_join_value    |-> <<Str(0), Str(1)>>,
          stop_join           |-> <<Str(0), Arr(2, "stop_join_data", 2, 1)>>,
          stop_join_data      |-> <<Str(0), Str(1)>>,
          scan_join           |-> <<Str(0), Arr(2, "scan_join_data", 3, 1)>>,
          scan_join_data      |-> <<Str(0), Str(1), Obj(2, "scan_join_value")>>,
          scan_join_value     |-> <<Str(0)>>,
          device_reg_response |-> <<Num(0), Str(1), Str(2)>>,
          device_reg_request  |-> <<Str(0), Str(1)>>,
          reg_response_data   |-> <<Str(0), Str(1)>>]

(* Which table is read and which one is freed, and the words of the         *)
(* structure, in handle_common_message and register_gateway.                *)
Use(read, freed, words) == [read |-> read, freed |-> freed, words |-> words]
Uses == {Use("start_join", "start_join", 3), Use("stop_join", "stop_join", 3),
         Use("scan_join", "scan_join", 3),
         Use("device_reg_response", "device_reg_request", 3),
         Use("reg_response_data", "reg_response_data", 2)}

-----------------------------------------------------------------------------
VARIABLES
    mem,             \* the words of each block; block 0 is the structure
    live,            \* the blocks malloc has given and free has not taken
    frames,          \* the calls of csonJsonObj2Struct, the last one first
    use,             \* the tables in use
    pc

vars == <<mem, live, frames, use, pc>>

Block == 1 .. MaxBlocks
W(is, n) == [is |-> is, n |-> n]
Zero == W("number", 0)
Word == {W("number", n) : n \in 0 .. MaxItems} \cup {W("block", b) : b \in Block}

(* A call reads a table, or the items of an array, into a block from base:  *)
(* it is at a field, and so many items are left.                            *)
Frame(table, block, base, items) ==
    [table |-> table, field |-> 1, block |-> block, base |-> base, items |-> items]

TypeOK ==
    /\ DOMAIN mem = {0} \cup Block /\ \A b \in DOMAIN mem : mem[b] \in Seq(Word)
    /\ live \subseteq Block
    /\ use \in Uses /\ pc \in {"idle", "read", "beyond", "foreign"}
    /\ \A i \in DOMAIN frames :
          /\ frames[i].field \in 1 .. Len(Table[frames[i].table]) + 1
          /\ frames[i].block \in DOMAIN mem /\ frames[i].items \in 0 .. MaxItems

Init ==
    /\ mem = [b \in {0} \cup Block |-> <<>>] /\ live = {}
    /\ frames = <<>> /\ use \in Uses /\ pc = "idle"

Unused == Block \ live
Fresh == Min(Unused)

-----------------------------------------------------------------------------
(* csonJsonStr2Struct of a structure that memset has cleared.               *)

csonJsonStr2Struct(u) ==
    /\ pc = "idle" /\ live = {}
    /\ mem' = [mem EXCEPT ![0] = [i \in 1 .. u.words |-> Zero]]
    /\ frames' = <<Frame(u.read, 0, 0, 1)>>
    /\ use' = u /\ pc' = "read" /\ UNCHANGED live

Top == Head(frames)
AtField(types) ==
    pc = "read" /\ frames # <<>> /\ Top.field \in DOMAIN Table[Top.table]
    /\ Table[Top.table][Top.field].type \in types
F == Table[Top.table][Top.field]

Past(stack) == <<[Head(stack) EXCEPT !.field = @ + 1]>> \o Tail(stack)

(* csonSetPropertyFast: the word may be beyond the block.                   *)
Inside(f, at) == f.base + at + 1 \in DOMAIN mem[f.block]
Set(m, f, at, w) == [m EXCEPT ![f.block][f.base + at + 1] = w]

(* Of what is stored first and what next, in frame f. *)
StoreAll(m, f, words) ==
    IF \A i \in DOMAIN words : Inside(f, words[i][1])
    THEN mem' = FoldLeft(LAMBDA n, x : Set(n, f, x[1], x[2]), m, words) /\ UNCHANGED pc
    ELSE pc' = "beyond" /\ UNCHANGED mem

parseJsonString ==
    /\ AtField({"string"}) /\ Unused # {}
    /\ StoreAll([mem EXCEPT ![Fresh] = <<>>], Top, <<<<F.at, W("block", Fresh)>>>>)
    /\ live' = live \cup {Fresh} /\ frames' = Past(frames) /\ UNCHANGED use

parseJsonInteger ==
    /\ AtField({"integer"})
    /\ StoreAll(mem, Top, <<<<F.at, W("number", 1)>>>>)
    /\ frames' = Past(frames) /\ UNCHANGED <<live, use>>

parseJsonObject ==
    /\ AtField({"object"})
    /\ frames' = <<Frame(F.of, Top.block, Top.base + F.at, 1)>> \o frames
    /\ UNCHANGED <<mem, live, use, pc>>

(* What is missing, of another type or cannot be allocated gets its default. *)
(* That of an object clears where its first field would be in the structure *)
(* around it.                                                               *)
Default ==
    /\ AtField({"string", "integer", "object", "array"})
    /\ StoreAll(mem, Top, <<<<IF F.type = "object" THEN Table[F.of][1].at ELSE F.at, Zero>>>>)
    /\ frames' = Past(frames) /\ UNCHANGED <<live, use>>

(* Only the count is set. *)
EmptyArray ==
    /\ AtField({"array"})
    /\ StoreAll(mem, Top, <<<<F.count, Zero>>>>)
    /\ frames' = Past(frames) /\ UNCHANGED <<live, use>>

(* The structure gets the array when it has been read. *)
parseJsonArray(items) ==
    /\ AtField({"array"}) /\ Unused # {}
    /\ mem' = [mem EXCEPT ![Fresh] = [i \in 1 .. items * F.width |-> Zero]]
    /\ live' = live \cup {Fresh}
    /\ frames' = <<Frame(F.of, Fresh, 0, items)>> \o frames
    /\ UNCHANGED <<use, pc>>

Ended == pc = "read" /\ frames # <<>> /\ Top.field = Len(Table[Top.table]) + 1

(* Every field may be missing, so each item is a success. *)
NextItem ==
    /\ Ended /\ Top.items > 1
    /\ LET width == Table[frames[2].table][frames[2].field].width IN
       frames' = <<Frame(Top.table, Top.block, Top.base + width, Top.items - 1)>> \o Tail(frames)
    /\ UNCHANGED <<mem, live, use, pc>>

(* Mutant: the array is stored without its count. *)
Return_uncounted ==
    /\ Ended /\ Top.items = 1
    /\ LET up == frames[2]
           g == Table[up.table][up.field]
       IN IF Len(frames) > 1 /\ g.type = "array"
          THEN StoreAll(mem, up, <<<<g.at, W("block", Top.block)>>>>)
          ELSE UNCHANGED <<mem, pc>>
    /\ frames' = IF Len(frames) > 1 THEN Past(Tail(frames)) ELSE <<>>
    /\ UNCHANGED <<live, use>>

(* Back in the call that has read an object or an array, if there is one. *)
Return ==
    /\ Ended /\ Top.items = 1
    /\ LET up == frames[2]
           g == Table[up.table][up.field]
           read == Len(mem[Top.block]) \div g.width
       IN IF Len(frames) > 1 /\ g.type = "array"
          THEN StoreAll(mem, up, <<<<g.count, W("number", read)>>, <<g.at, W("block", Top.block)>>>>)
          ELSE UNCHANGED <<mem, pc>>
    /\ frames' = IF Len(frames) > 1 THEN Past(Tail(frames)) ELSE <<>>
    /\ UNCHANGED <<live, use>>

-----------------------------------------------------------------------------
(* csonFreePointer.  The state it works on: the words, the live blocks, and *)
(* what pc will be, "idle" as long as all is well.                          *)

Heap(m, l, then) == [mem |-> m, live |-> l, then |-> then]

WordAt(h, f, at) == h.mem[f.block][f.base + at + 1]
IsLive(h, w) == w.is = "block" /\ w.n \in h.live

(* freePointerSub. *)
FreeWord(h, f, at) ==
    CASE ~Inside(f, at) -> [h EXCEPT !.then = "beyond"]
      [] Inside(f, at) /\ IsLive(h, WordAt(h, f, at)) ->
            Heap(Set(h.mem, f, at, Zero), h.live \ {WordAt(h, f, at).n}, "idle")
      [] Inside(f, at) /\ WordAt(h, f, at) = Zero -> h
      [] OTHER -> [h EXCEPT !.then = "foreign"]

RECURSIVE csonLoopProperty(_, _)

(* The items of an array, and then its pointer. *)
LoopArray(h, f, field) ==
    LET n == WordAt(h, f, field.count).n
        w == WordAt(h, f, field.at)
        Item(g, i) == csonLoopProperty(g, Frame(field.of, w.n, (i - 1) * field.width, 1))
        items == FoldLeft(Item, h, [i \in 1 .. n |-> i])
    IN CASE n > 0 /\ ~IsLive(h, w) -> [h EXCEPT !.then = "foreign"]
         [] n > 0 /\ IsLive(h, w) /\ items.then # "idle" -> items
         [] OTHER -> FreeWord(IF n > 0 THEN items ELSE h, f, field.at)

csonLoopProperty(h, f) ==
    FoldLeft(LAMBDA g, field :
                CASE g.then # "idle" -> g
                  [] g.then = "idle" /\ field.type = "string" -> FreeWord(g, f, field.at)
                  [] g.then = "idle" /\ field.type = "array" -> LoopArray(g, f, field)
                  [] g.then = "idle" /\ field.type = "object" ->
                        csonLoopProperty(g, Frame(field.of, f.block, f.base + field.at, 1))
                  [] OTHER -> g,
             h, Table[f.table])

csonFreePointer ==
    /\ pc = "read" /\ frames = <<>>
    /\ LET h == csonLoopProperty(Heap(mem, live, "idle"), Frame(use.freed, 0, 0, 1)) IN
       /\ mem' = [b \in DOMAIN mem |-> IF b \in h.live THEN h.mem[b] ELSE <<>>]
       /\ live' = h.live
       /\ pc' = h.then
    /\ UNCHANGED <<frames, use>>

Next ==
    \/ \E u \in Uses : csonJsonStr2Struct(u)
    \/ parseJsonString \/ parseJsonInteger \/ parseJsonObject \/ Default
    \/ EmptyArray \/ \E items \in 1 .. MaxItems : parseJsonArray(items)
    \/ NextItem \/ Return \/ csonFreePointer

Spec == Init /\ [][Next]_vars

-----------------------------------------------------------------------------
(* What was read is freed, all of it and once, whatever the text lacks or   *)
(* has of another type, where the structure is freed with the table it was  *)
(* read with and its items have no objects.  Only the reply to a            *)
(* registration is freed with another table, and only an object of more     *)
(* words than the pointer it stands for is read beyond its item; an item    *)
(* without the object of its table loses the text that is first.            *)
Parts(table, type) == {f \in Range(Table[table]) : f.type = type}
Objects(u) == UNION {Parts(f.of, "object") : f \in Parts(u.read, "array")}

FreedOnce ==
    /\ pc = "idle" /\ live # {} => use.freed # use.read \/ Objects(use) # {}
    /\ pc = "foreign" => use.freed # use.read
    /\ pc = "beyond" => \E f \in Objects(use) : Len(Table[f.of]) > f.width

=============================================================================
