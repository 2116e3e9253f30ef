------------------------- MODULE WordCountProperties -------------------------
(***************************************************************************)
(* Correctness of the word count and of the containers it uses, with       *)
(* collections wherever one may happen.                                    *)
(***************************************************************************)
EXTENDS WordCount

Places == Allocations \cup
    {"count", "parse_file", "own_table", "own_map", "put", "put_value", "put_table",
     "link", "put_done", "update_value", "own_result", "iterator", "init_iter",
     "own_iter", "own_array", "own_vector", "has_next", "own_node", "add_count",
     "make_first", "make_second", "init_pair", "push_back", "own_elem", "is_full",
     "resize", "copy_to", "store", "next_word", "print", "done", "undefined"}

Oops == Refs \cup {Null, Stale}

(* Every variable keeps its type, and no more slots are used than there are.*)
TypeOK ==
    /\ pc \in Places
    /\ Len(slots) <= capacity /\ Range(slots) \subseteq Oops \ {Null}
    /\ \A i \in DOMAIN marks : marks[i] \in 0 .. Len(slots)
    /\ \A h \in Handles : handle[h] = None \/ handle[h] \in (1 .. base) \X DOMAIN slots
    /\ oop \in Oops \ {Stale} /\ raw \in Oops
    /\ \A r \in Refs : Trace(r) \subseteq Oops

-----------------------------------------------------------------------------

Occurrences(word, n) == Cardinality({i \in 1 .. n : text[i] = word})

(* The map has each word read so far once, however the hashes collide and  *)
(* whatever was collected, with the number of times it was read; and what  *)
(* is printed is the vector with just these pairs.                         *)
CountsAreExact ==
    /\ pc = "read_word" /\ Valid("map") =>
          /\ object[Read("map")].val = Cardinality({text[i] : i \in 1 .. pos})
          /\ \A word \in Words :
                LET value == Get(Read("map"), word, hash[word])
                IN  IF Occurrences(word, pos) = 0 THEN value = Null
                    ELSE /\ value \in InUse
                         /\ object[value] = SizeT(Occurrences(word, pos))
    /\ At("print") /\ Stale \notin Reachable =>
          LET pairs == Elements(Read("vector"))
              shown == [i \in DOMAIN pairs |->
                           <<object[object[pairs[i]].ref.first].val,
                             object[object[pairs[i]].ref.second].val>>]
          IN  /\ IsInjective(shown)
              /\ Range(shown) = {<<word, Occurrences(word, Len(text))>> :
                                    word \in Range(text)}
              /\ words_count = Len(text)

(* An Oop goes stale only as an argument of alloc() (Environment.h:68), and*)
(* only when the collector moves objects; what else the containers need    *)
(* across an allocation is in Handles, so that they reach nothing that is  *)
(* gone.  The program comes to no harm but by such an Oop or by a Buffer   *)
(* that has moved under its Handles.                                       *)
StaleOnlyFromArguments ==
    /\ Reachable \subseteq InUse \cup {Stale}
    /\ raw = Stale => moving
    /\ \A i \in DOMAIN slots : slots[i] = Stale => moving /\ handle["second"][2] = i
    /\ \A r \in InUse :
          Stale \in Trace(r) =>
             moving /\ object[r].class = "Pair" /\ object[r].ref.first # Stale
    /\ pc = "undefined" => moving \/ base # 1

(* HandleMarks keep the stack from growing with the text: every word finds *)
(* it as the word before did, and the deepest call makes nine Handles, so  *)
(* that a Buffer of INITIAL_SIZE = 4096 never grows.                       *)
HandlesDoNotPileUp ==
    /\ Len(slots) <= 9
    /\ pc = "read_word" => Len(slots) = 1
    /\ pc = "has_next" => Len(slots) = 3
    /\ pc = "done" => slots = <<>> /\ marks = <<>>

(* What sort() makes of pairs: each of them once, in the order of their    *)
(* counts, and those that are equal in the order they had.                 *)
SortOrders(pairs) ==
    LET Val(p)   == object[object[p].ref.second].val
        Index(p) == CHOOSE i \in DOMAIN pairs : pairs[i] = p
        sorted   == Sort(pairs, [pq \in Range(pairs) \X Range(pairs) |->
                                    Val(pq[1]) > Val(pq[2])])
    IN  /\ Range(sorted) = Range(pairs)
        /\ \A i, j \in DOMAIN sorted :
              i < j => \/ Val(sorted[i]) < Val(sorted[j])
                       \/ /\ Val(sorted[i]) = Val(sorted[j])
                          /\ Index(sorted[i]) < Index(sorted[j])

(* sort() leaves the elements in order and those that are equal as they    *)
(* were.  It stays inside the vector unless there is nothing to sort: then *)
(* length - 1 is the largest std::size_t.                                  *)
SortSorts ==
    At("print") /\ Stale \notin Reachable =>
        LET pairs == Elements(Read("vector"))
        IN  IF pairs = <<>> THEN SortSteps(0) # <<>>
            ELSE /\ \A j \in Range(SortSteps(Len(pairs))) : j + 1 < Len(pairs)
                 /\ SortOrders(pairs)

=============================================================================
