------------------------------ MODULE Containers ------------------------------
(***************************************************************************)
(* The classes of src/struct and the HashMap of the word count example: how*)
(* their objects look, and what their methods do between two allocations.  *)
(*                                                                         *)
(* A constructor's parameters are what the object is made of.  Indices are *)
(* the code's, from 0.  The lengths of a hash table are powers of two, so  *)
(* that `hash & (length - 1)' is a remainder.                              *)
(***************************************************************************)
EXTENDS ClientHeap

CONSTANT WordBits           \* the bits of std::size_t

ASSUME WordBitsAssumption == WordBits \in Nat \ {0}

String(word) == Object("String", <<>>, word)

SizeT(data) == Object("SizeT", <<>>, data)

Array(len) == Object("Array", [i \in 0 .. len - 1 |-> Null], len)

Vector(data) == Object("Vector", [data |-> data], 0)

Pair(first, second) == Object("Pair", [first |-> first, second |-> second], 0)

HashMap(table) == Object("HashMap", [table |-> table], 0)

Node(key, value, hash) ==
    Object("Node", [key |-> key, value |-> value, next |-> Null], hash)

HashMapIterator(hashMap) ==
    Object("HashMapIterator",
           [current |-> Null, next |-> Null, hashMap |-> hashMap], 0)

-----------------------------------------------------------------------------
(* HashMap.                                                                *)

Nodes == {r \in Refs : object[r].class = "Node"}

(* The nodes from n on, as `node = node->next' visits them. *)
Chain[n \in Nodes \cup {Null}] ==
    IF n = Null THEN <<>> ELSE <<n>> \o Chain[object[n].ref.next]

(* The bucket of a hash code. *)
Bucket(table, hash) == hash % object[table].val

(* HashMap::get: the value of the first node that has the key, or Null.    *)
(* The word is that of a String, so the key of the code is no null.        *)
Get(hashMap, word, hash) ==
    LET table == object[hashMap].ref.table
        chain == Chain[object[table].ref[Bucket(table, hash)]]
        found == {i \in DOMAIN chain :
                     /\ object[chain[i]].val = hash
                     /\ object[object[chain[i]].ref.key].val = word}
    IN  IF found = {} THEN Null ELSE object[chain[Min(found)]].ref.value

(* Faulty form, for mutation: the walk to the end of the chain stops at its*)
(* first node.                                                             *)
LinkSecond(table, node) ==
    LET bucket == Bucket(table, object[node].val)
        chain  == Chain[object[table].ref[bucket]]
    IN  object' = IF chain = <<>>
                  THEN [object EXCEPT ![table].ref[bucket] = node]
                  ELSE [object EXCEPT ![Head(chain)].ref.next = node]

(* HashMap::put after the allocation: the node goes to the chain's end. *)
Link(table, node) ==
    LET bucket == Bucket(table, object[node].val)
        chain  == Chain[object[table].ref[bucket]]
    IN  object' = IF chain = <<>>
                  THEN [object EXCEPT ![table].ref[bucket] = node]
                  ELSE [object EXCEPT ![Last(chain)].ref.next = node]

(* HashMapIterator::advance, of iterator object iter. *)
Advance(iter) ==
    LET hashMap == object[iter.ref.hashMap]
        table   == object[hashMap.ref.table]
        later   == {i \in iter.val .. table.val - 1 : table.ref[i] # Null}
    IN  CASE hashMap.val = 0 -> iter
          [] hashMap.val # 0 /\ later # {} ->
                [iter EXCEPT !.ref.next = table.ref[Min(later)],
                             !.val = Min(later) + 1]
          [] OTHER -> [iter EXCEPT !.val = table.val]

(* HashMapIterator::nextNode, which returns its former next. *)
NextNode(iter) ==
    LET e    == object[iter].ref.next
        step == [object[iter] EXCEPT !.ref.next = object[e].ref.next]
    IN  /\ oop' = e
        /\ object' = [object EXCEPT ![iter] =
                         IF step.ref.next = Null THEN Advance(step) ELSE step]

-----------------------------------------------------------------------------
(* Vector and Array.                                                       *)

IsFull(vector) == object[vector].val = object[object[vector].ref.data].val

(* Array::copy_to, of array objects. *)
CopyTo(from, to) ==
    [to EXCEPT !.ref = [i \in DOMAIN @ |-> IF i \in DOMAIN from.ref THEN from.ref[i]
                                          ELSE @[i]]]

(* Vector::push_back when there is room. *)
Store(vector, elem) ==
    LET count == object[vector].val
    IN  object' = [object EXCEPT ![object[vector].ref.data].ref[count] = elem,
                                 ![vector].val = count + 1]

Elements(vector) ==
    [i \in 1 .. object[vector].val |-> object[object[vector].ref.data].ref[i - 1]]

(* Subtraction of std::size_t. *)
Minus(a, b) == (a - b) % 2^WordBits

(* Faulty form, for mutation: j < length - i. *)
SortStepsFar(length) ==
    FlattenSeq([i \in 1 .. Minus(length, 1) |->
                   [j \in 1 .. Minus(length, i - 1) |-> j - 1]])

(* The values of j in the two loops of Vector::sort. *)
SortSteps(length) ==
    FlattenSeq([i \in 1 .. Minus(length, 1) |->
                   [j \in 1 .. Minus(Minus(length, i - 1), 1) |-> j - 1]])

(* Vector::sort of a sequence of elements, comp a function to BOOLEAN. *)
Sort(elements, comp) ==
    LET Step(v, j) == IF comp[v[j + 1], v[j + 2]]
                      THEN [v EXCEPT ![j + 1] = v[j + 2], ![j + 2] = v[j + 1]]
                      ELSE v
    IN  FoldLeft(Step, elements, SortSteps(Len(elements)))

=============================================================================
