------------------------------ MODULE WordCount ------------------------------
(***************************************************************************)
(* The managed half of example/count, a client program of the kind gccpp is*)
(* for: it reads a text into a HashMap, walks the map with an iterator and *)
(* fills a Vector with the pairs it finds.                                 *)
(*                                                                         *)
(* A step ends where a Handle is made, since its slot may move the stack,  *)
(* and where an allocation returns, since it may have collected.  pc is the*)
(* place the program has reached.  The text is a sequence of words.        *)
(***************************************************************************)
EXTENDS Containers

CONSTANTS
    Words,
    MaxText,                \* bound: the length of a text
    Hashes,                 \* what std::hash<String> makes of a word
    ARRAY_SIZE,             \* of a new HashMap, 1024 in the code
    VECTOR_SIZE             \* of a new Vector, 16 in the code

ASSUME CountAssumption ==
    ARRAY_SIZE \in Nat \ {0} /\ VECTOR_SIZE \in Nat \ {0} /\ Hashes \subseteq Nat

VARIABLES
    text, hash,             \* the input
    pos,                    \* how many words of the text have been read
    words_count,
    pc

inputVars == <<text, hash>>
countVars == <<pos, words_count>>
vars == <<stackVars, heapVars, inputVars, countVars, pc>>

(* The Handle variables; map is the hashMap of parse_file. *)
Handles == {"tab", "map", "str", "h_key", "h_value", "h_table", "hashMap", "iter",
            "array", "vector", "curr", "first", "second", "h_self", "h_elem",
            "hm_self"}

Init ==
    /\ InitStack(Handles)
    /\ InitHeap
    /\ text \in UNION {[1 .. n -> Words] : n \in 0 .. MaxText}
    /\ hash \in [Words -> Hashes]
    /\ pos = 0
    /\ words_count = 0
    /\ pc = "count"

(* The Handles that the step at l dereferences. *)
Derefs(l) ==
    CASE l = "make_map" -> {"tab"}
      [] l = "put" -> {"map", "str"}
      [] l = "make_node" -> {"h_key", "h_value"}
      [] l = "link" -> {"h_table"}
      [] l = "iterator" -> {"hashMap"}
      [] l = "make_vector" -> {"array"}
      [] l \in {"add_count", "make_first"} -> {"curr"}
      [] l = "init_pair" -> {"first", "second"}
      [] l \in {"push_back", "print"} -> {"vector"}
      [] l = "is_full" -> {"h_self"}
      [] l = "store" -> {"h_self", "h_elem"}
      [] l \in {"make_larger", "copy_to"} -> {"hm_self"}
      [] l \in {"read_word", "update_value"} -> {"map"}
      [] l = "has_next" -> {"iter"}
      [] OTHER -> {}

(* The places from which the program allocates. *)
Allocations == {"make_table", "make_map", "make_node", "make_iter", "make_array",
                "make_vector", "make_pair", "make_larger", "make_size", "read_word"}

(* The program comes to l and its Handles lead to slots. *)
At(l) == pc = l /\ \A h \in Derefs(l) : Valid(h)

Goto(l) == pc' = l /\ UNCHANGED inputVars

(* At l the program makes Handle h of p. *)
MakeHandle(l, h, p, next) ==
    /\ At(l)
    /\ Push(h, p)
    /\ Goto(next)

(* At l the program allocates what will be obj. *)
New(l, obj, next) ==
    /\ At(l)
    /\ Alloc(obj)
    /\ UNCHANGED countVars
    /\ Goto(next)

-----------------------------------------------------------------------------
(* HashMap.                                                                *)

HashMapMake ==
    \/ /\ New("make_table", Array(ARRAY_SIZE), "own_table")
       /\ Mark
       /\ UNCHANGED <<base, capacity, slots, handle>>
    \/ /\ MakeHandle("own_table", "tab", oop, "make_map")
       /\ UNCHANGED <<marks, heapVars, countVars>>
    \/ /\ New("make_map", HashMap(Read("tab")), "own_map")
       /\ Leave

(* `this' is used until h_table is made. *)
Put ==
    \/ /\ MakeHandle("put", "h_key", Read("str"), "put_value")
       /\ Mark
       /\ raw' = Read("map")
       /\ UNCHANGED <<moving, object, oop, countVars>>
    \/ /\ MakeHandle("put_value", "h_value", oop, "put_table")
       /\ UNCHANGED <<marks, heapVars, countVars>>
    \/ /\ MakeHandle("put_table", "h_table", object[raw].ref.table, "make_node")
       /\ raw # Stale
       /\ object' = [object EXCEPT ![raw].val = @ + 1]
       /\ UNCHANGED <<marks, moving, oop, raw, countVars>>
    \/ /\ New("make_node",
              Node(Read("h_key"), Read("h_value"), hash[object[Read("h_key")].val]),
              "link")
       /\ UNCHANGED stackVars
    \/ /\ At("link")
       /\ Link(Read("h_table"), oop)
       /\ Leave
       /\ UNCHANGED <<moving, oop, raw, countVars>>
       /\ Goto("put_done")

(* HashMap::iterator, whose Oop of itself is an argument of the allocation;*)
(* then the constructor of HashMapIterator.                                *)
MakeIterator ==
    \/ /\ At("iterator")
       /\ raw' = Read("hashMap")
       /\ UNCHANGED <<stackVars, moving, object, oop, countVars>>
       /\ Goto("make_iter")
    \/ /\ New("make_iter", HashMapIterator(Null), "init_iter")
       /\ UNCHANGED stackVars
    \/ /\ At("init_iter") /\ raw # Stale
       /\ object' = [object EXCEPT ![oop] = Advance(HashMapIterator(raw))]
       /\ UNCHANGED <<stackVars, moving, oop, raw, countVars>>
       /\ Goto("own_iter")

-----------------------------------------------------------------------------
(* Vector and Pair.                                                        *)

VectorMake ==
    \/ /\ New("make_array", Array(VECTOR_SIZE), "own_array")
       /\ Mark
       /\ UNCHANGED <<base, capacity, slots, handle>>
    \/ /\ MakeHandle("own_array", "array", oop, "make_vector")
       /\ UNCHANGED <<marks, heapVars, countVars>>
    \/ /\ New("make_vector", Vector(Read("array")), "own_vector")
       /\ Leave

(* first is a temporary Handle of the caller, second one that alloc() makes*)
(* of its Oop argument for the constructor, after the allocation.          *)
PairMake ==
    \/ /\ MakeHandle("make_first", "first", object[Read("curr")].ref.key, "make_pair")
       /\ raw' = object[Read("curr")].ref.value
       /\ UNCHANGED <<marks, moving, object, oop, countVars>>
    \/ /\ New("make_pair", Pair(Null, Null), "make_second")
       /\ UNCHANGED stackVars
    \/ /\ MakeHandle("make_second", "second", raw, "init_pair")
       /\ UNCHANGED <<marks, heapVars, countVars>>
    \/ /\ At("init_pair")
       /\ object' = [object EXCEPT ![oop] = Pair(Read("first"), Read("second"))]
       /\ UNCHANGED <<stackVars, moving, oop, raw, countVars>>
       /\ Goto("push_back")

PushBack ==
    \/ /\ MakeHandle("push_back", "h_self", Read("vector"), "own_elem")
       /\ Mark
       /\ raw' = Read("vector")
       /\ UNCHANGED <<moving, object, oop, countVars>>
    \/ /\ MakeHandle("own_elem", "h_elem", oop, "is_full")
       /\ UNCHANGED <<marks, heapVars, countVars>>
    \/ /\ At("is_full")
       /\ UNCHANGED <<stackVars, heapVars, countVars>>
       /\ Goto(IF IsFull(Read("h_self")) THEN "resize" ELSE "store")
    \/ /\ At("store")
       /\ Store(Read("h_self"), Read("h_elem"))
       /\ Leave
       /\ UNCHANGED <<moving, oop, raw, countVars>>
       /\ Goto("next_word")

(* Vector::resize; copy_to fails only if the array has become shorter. *)
ResizeVector ==
    LET data == object[Read("hm_self")].ref.data
    IN  \/ /\ MakeHandle("resize", "hm_self", raw, "make_larger")
           /\ UNCHANGED <<marks, heapVars, countVars>>
        \/ /\ New("make_larger", Array(2 * object[data].val), "copy_to")
           /\ UNCHANGED stackVars
        \/ /\ At("copy_to")
           /\ object' = [object EXCEPT ![oop] = CopyTo(object[data], @),
                                       ![Read("hm_self")].ref.data = oop]
           /\ UNCHANGED <<stackVars, moving, oop, raw, countVars>>
           /\ Goto("store")

-----------------------------------------------------------------------------
(* The functions of count.cpp.                                             *)

(* Faulty form, for mutation: the Handle str is made after SizeT::make. *)
UpdateValueLate ==
    LET value == Get(Read("map"), object[oop].val, hash[object[oop].val])
    IN  \/ /\ At("update_value")
           /\ object' = IF value = Null THEN object
                        ELSE [object EXCEPT ![value].val = @ + 1]
           /\ raw' = oop
           /\ IF value = Null THEN Mark ELSE UNCHANGED marks
           /\ UNCHANGED <<base, capacity, slots, handle, moving, oop, countVars>>
           /\ Goto(IF value = Null THEN "make_size" ELSE "read_word")
        \/ /\ New("make_size", SizeT(1), "put")
           /\ Push("str", raw')
           /\ UNCHANGED marks
        \/ /\ At("put_done")
           /\ Leave
           /\ UNCHANGED <<heapVars, countVars>>
           /\ Goto("read_word")

UpdateValue ==
    LET value == Get(Read("map"), object[oop].val, hash[object[oop].val])
    IN  \/ /\ At("update_value")
           /\ value # Null
           /\ object' = [object EXCEPT ![value].val = @ + 1]
           /\ UNCHANGED <<stackVars, moving, oop, raw, countVars>>
           /\ Goto("read_word")
        \/ /\ MakeHandle("update_value", "str", oop, "make_size")
           /\ value = Null
           /\ Mark
           /\ UNCHANGED <<heapVars, countVars>>
        \/ /\ New("make_size", SizeT(1), "put")
           /\ UNCHANGED stackVars
        \/ /\ At("put_done")
           /\ Leave
           /\ UNCHANGED <<heapVars, countVars>>
           /\ Goto("read_word")

ParseFile ==
    \/ /\ At("parse_file")
       /\ Mark
       /\ UNCHANGED <<base, capacity, slots, handle, heapVars, countVars>>
       /\ Goto("make_table")
    \/ /\ MakeHandle("own_map", "map", oop, "read_word")
       /\ UNCHANGED <<marks, heapVars, countVars>>
    \/ /\ At("read_word") /\ pos < Len(text)
       /\ pos' = pos + 1
       /\ Alloc(String(text[pos']))
       /\ UNCHANGED <<stackVars, words_count>>
       /\ Goto("update_value")
    \/ /\ At("read_word") /\ pos = Len(text)
       /\ oop' = Read("map")
       /\ Leave
       /\ UNCHANGED <<moving, object, raw, countVars>>
       /\ Goto("own_result")

Count ==
    \/ /\ At("count")
       /\ Mark
       /\ UNCHANGED <<base, capacity, slots, handle, heapVars, countVars>>
       /\ Goto("parse_file")
    \/ /\ MakeHandle("own_result", "hashMap", oop, "iterator")
       /\ UNCHANGED <<marks, heapVars, countVars>>
    \/ /\ MakeHandle("own_iter", "iter", oop, "make_array")
       /\ UNCHANGED <<marks, heapVars, countVars>>
    \/ /\ MakeHandle("own_vector", "vector", oop, "has_next")
       /\ UNCHANGED <<marks, heapVars, countVars>>
    \/ /\ At("has_next")
       /\ object[Read("iter")].ref.next # Null
       /\ Mark
       /\ NextNode(Read("iter"))
       /\ UNCHANGED <<base, capacity, slots, handle, moving, raw, countVars>>
       /\ Goto("own_node")
    \/ /\ MakeHandle("own_node", "curr", oop, "add_count")
       /\ UNCHANGED <<marks, heapVars, countVars>>
    \/ /\ At("add_count")
       /\ words_count' = words_count + object[object[Read("curr")].ref.value].val
       /\ UNCHANGED <<stackVars, heapVars, pos>>
       /\ Goto("make_first")
    \/ /\ At("next_word")
       /\ Leave
       /\ UNCHANGED <<heapVars, countVars>>
       /\ Goto("has_next")
    \/ /\ At("has_next")
       /\ object[Read("iter")].ref.next = Null
       /\ UNCHANGED <<stackVars, heapVars, countVars>>
       /\ Goto("print")
    \/ /\ At("print")
       /\ Stale \notin Reachable
       /\ Leave
       /\ UNCHANGED <<heapVars, countVars>>
       /\ Goto("done")

(* The program follows an address where its object or slot is no more, or  *)
(* the collector does, in the allocation that comes next: anything may     *)
(* happen then.  C++ leaves open in which order the arguments of Pair::make*)
(* are evaluated: curr may be read after first has moved the Buffer.       *)
LoseTrack ==
    /\ \/ \E h \in Derefs(pc) : ~Valid(h)
       \/ pc = "make_pair" /\ ~Valid("curr")
       \/ pc \in {"put_table", "init_iter"} /\ raw = Stale
       \/ pc \in Allocations \cup {"print"} /\ Stale \in Reachable
    /\ UNCHANGED <<stackVars, heapVars, countVars>>
    /\ Goto("undefined")

Stopped == pc \in {"done", "undefined"} /\ UNCHANGED vars

Next == HashMapMake \/ Put \/ MakeIterator \/ VectorMake \/ PairMake \/ PushBack
        \/ ResizeVector \/ UpdateValue \/ ParseFile \/ Count \/ LoseTrack \/ Stopped

Spec == Init /\ [][Next]_vars

=============================================================================
