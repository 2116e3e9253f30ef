------------------------- MODULE WordCountExactProofs -------------------------
(***************************************************************************)
(* The word count counts: for every text, hash function and size of the    *)
(* heap, the map has each word once with the number of times it was read,  *)
(* the iterator comes to each node once, and the vector has one pair for   *)
(* each word, whatever the collections in between moved or freed.  The     *)
(* invariants say place by place what the map (ParseInv), the iterator     *)
(* (IterInv), and the vector with words_count (VectorInv) hold; each rests *)
(* on those before it and on the shapes that WordCountProofs proves.  Last *)
(* comes sort(): the vector is in order, and pairs with equal counts stay  *)
(* in the order they had.                                                  *)
(***************************************************************************)
EXTENDS WordCountProofs

-----------------------------------------------------------------------------
(* The map, place by place.                                                *)

(* The nodes from n on. *)
From(n) == Range(Chain[n])

(* The nodes of the buckets of table t from bucket b on. *)
Rest(t, b) == UNION {From(object[t].ref[i]) : i \in b .. object[t].val - 1}

NodesIn(t) == Rest(t, 0)

Key(n) == object[object[n].ref.key].val

ValueOf(n) == object[n].ref.value

WordsRead(n) == {text[i] : i \in 1 .. n}

(* Table t has each of the first n words of the text in one node, in the   *)
(* bucket of its hash, with the number of times it is among them.          *)
Counts(t, n) ==
    /\ \A i \in 0 .. object[t].val - 1 :
          \A k \in From(object[t].ref[i]) : Bucket(t, object[k].val) = i
    /\ \A k \in NodesIn(t) :
          /\ object[k].val = hash[Key(k)]
          /\ object[ValueOf(k)] = SizeT(Occurrences(Key(k), n))
    /\ \A k, l \in NodesIn(t) : Key(k) = Key(l) \/ ValueOf(k) = ValueOf(l) => k = l
    /\ {Key(k) : k \in NodesIn(t)} = WordsRead(n)

MapHolds(m, n, more) ==
    /\ Counts(object[m].ref.table, n)
    /\ object[m].val = Cardinality(WordsRead(n)) + more

(* The places where a word has been read and is not yet in the map. *)
Making  == {"make_size", "put", "put_value", "put_table", "make_node", "link"}
Pending == {"update_value"} \cup Making
Parsing == {"read_word", "put_done"} \cup Pending
Early   == {"count", "parse_file", "make_table", "own_table", "make_map", "own_map"}

(* The places from the iteration of the map on. *)
Filling == {"make_array", "own_array", "make_vector", "own_vector"}
Pairing == {"make_pair", "make_second", "init_pair"}
Pushing == {"own_elem", "is_full", "resize", "make_larger", "copy_to", "store"}
Visiting == {"own_node", "add_count", "make_first", "push_back"} \cup Pairing \cup Pushing
Looping == {"has_next", "next_word", "print"} \cup Visiting
Counting == {"iterator", "make_iter", "init_iter", "own_iter"} \cup Filling \cup Looping

(* No object but those in S refers to p. *)
OnlyIn(p, S) == \A r \in InUse \ S : p \notin Trace(r)

(* What is known of the word that has been read. *)
WordAt(l) ==
    /\ l \in Pending => pos >= 1
    /\ l = "update_value" => object[oop].val = text[pos]
    /\ l \in Making =>
          object[slots[2]].val = text[pos] /\ text[pos] \notin WordsRead(pos - 1)
    /\ l \in {"put_value", "put_table", "make_node", "link"} => slots[3] = slots[2]
    /\ l \in {"put", "put_value"} => object[oop] = SizeT(1) /\ OnlyIn(oop, {})
    /\ l \in {"put_table", "make_node", "link"} => object[slots[4]] = SizeT(1)
    /\ l \in {"put_table", "make_node"} => OnlyIn(slots[4], {})
    /\ l = "link" => /\ OnlyIn(slots[4], {oop})
                     /\ object[oop] = Node(slots[2], slots[4], hash[text[pos]])

(* What the map holds at l, and how far the text has been read. *)
MapAt(l) ==
    /\ l \in Early => pos = 0
    /\ l = "own_map" => MapHolds(oop, 0, 0)
    /\ l \in {"read_word", "put_done"} => MapHolds(slots[1], pos, 0)
    /\ l \in Pending \ {"make_node", "link"} => MapHolds(slots[1], pos - 1, 0)
    /\ l \in {"make_node", "link"} => MapHolds(slots[1], pos - 1, 1)
    /\ l \notin Early \cup Parsing => pos = Len(text)
    /\ l = "own_result" => MapHolds(oop, pos, 0)
    /\ l \in Counting => MapHolds(slots[1], pos, 0)

ParseInv == pc # "undefined" => WordAt(pc) /\ MapAt(pc)

-----------------------------------------------------------------------------
(* The nodes that iterator i has before it. *)
Ahead(i) == From(object[i].ref.next)
            \cup Rest(object[object[i].ref.hashMap].ref.table, object[i].val)

(* The words that it has behind it. *)
Behind(i) == Range(text) \ {Key(k) : k \in Ahead(i)}

(* After node x the nodes from bucket w of table t on are next. *)
Follows(x, w, t) ==
    /\ From(x) \subseteq NodesIn(t)
    /\ \A k \in From(x) : Bucket(t, object[k].val) < w
    /\ x = Null => Rest(t, w) = {}

Iterates(i, m) ==
    /\ object[i].ref.hashMap = m
    /\ Follows(object[i].ref.next, object[i].val, object[m].ref.table)

(* The node at which the loop is. *)
Current(l) == IF l = "own_node" THEN oop ELSE slots[4]

IterAt(l) ==
    /\ l = "own_iter" => Iterates(oop, slots[1]) /\ Behind(oop) = {}
    /\ l \in Filling \cup Looping => Iterates(slots[2], slots[1])
    /\ l \in Filling => Behind(slots[2]) = {}
    /\ l \in Visiting => Current(l) \in NodesIn(object[slots[1]].ref.table) \ Ahead(slots[2])
    /\ l = "print" => Ahead(slots[2]) = {}

IterInv == pc # "undefined" => IterAt(pc)

-----------------------------------------------------------------------------
Word(p) == object[object[p].ref.first].val

(* Pair p is of word and, unless the collector has made it stale, of the   *)
(* number of times it occurs. *)
Shows(p, word) ==
    /\ Of(p, "Pair") /\ Of(object[p].ref.first, "String") /\ Word(p) = word
    /\ \/ Lost(object[p].ref.second)
       \/ /\ object[p].ref.second \in InUse
          /\ object[object[p].ref.second] = SizeT(Occurrences(word, Len(text)))

(* The first n entries of f are one pair for each word of W. *)
Pairs(f, n, W) ==
    /\ \A i \in 0 .. n - 1 : Shows(f[i], Word(f[i]))
    /\ \A i, j \in 0 .. n - 1 : Word(f[i]) = Word(f[j]) => i = j
    /\ {Word(f[i]) : i \in 0 .. n - 1} = W

(* Vector v has them. *)
Lists(v, W) ==
    LET data == object[object[v].ref.data]
    IN  /\ object[v].val \in 0 .. data.val /\ data.val # 0
        /\ DOMAIN data.ref = 0 .. data.val - 1
        /\ Pairs(data.ref, object[v].val, W)

(* How much of the text is of the words in W. *)
Share(W) == Cardinality({i \in DOMAIN text : text[i] \in W})

(* The words that are in the vector at l. *)
Listed(l) == IF l \in Visiting THEN Behind(slots[2]) \ {Key(Current(l))}
             ELSE Behind(slots[2])

VectorAt(l) ==
    /\ l = "own_array" => object[oop] = Array(VECTOR_SIZE)
    /\ l = "make_vector" => object[slots[3]] = Array(VECTOR_SIZE)
    /\ l = "own_vector" => Lists(oop, {})
    /\ l \in Looping => Lists(slots[3], Listed(l))
    /\ l = "store" => object[slots[3]].val < object[object[slots[3]].ref.data].val
    /\ l \in {"make_larger", "copy_to"} => slots[9] = slots[3]
    /\ l = "copy_to" => LET data == object[slots[3]].ref.data
                        IN  oop # data /\ object[oop] = Array(2 * object[data].val)

PairAt(l) ==
    /\ l \in Pairing => slots[5] = object[slots[4]].ref.key
    /\ l \in {"make_second", "init_pair"} => object[oop].ref.first = Null
    /\ l = "make_second" => raw = ValueOf(slots[4]) \/ Lost(raw)
    /\ l = "init_pair" => slots[6] = ValueOf(slots[4]) \/ Lost(slots[6])
    /\ l \in {"push_back", "own_elem"} => Shows(oop, Key(slots[4]))
    /\ l \in Pushing => slots[7] = slots[3]
    /\ l \in Pushing \ {"own_elem"} => Shows(slots[8], Key(slots[4]))

TotalAt(l) ==
    words_count = IF l \notin Looping THEN (IF l = "done" THEN words_count ELSE 0)
                  ELSE IF l \in {"own_node", "add_count"} THEN Share(Listed(l))
                  ELSE Share(Behind(slots[2]))

VectorInv == pc # "undefined" => VectorAt(pc) /\ PairAt(pc) /\ TotalAt(pc)

-----------------------------------------------------------------------------
(* Chains as sets of nodes.                                                *)

ChainFacts ==
    /\ From(Null) = {}
    /\ \A n \in Nodes :
          /\ n \in InUse /\ NextOf(n) \in Nodes \cup {Null}
          /\ From(n) = {n} \cup From(NextOf(n)) /\ n \notin From(NextOf(n))
          /\ From(n) \subseteq Nodes

LEMMA NodesLeadToNodes ==
    ASSUME HeapInv
    PROVE  /\ \A m \in Nodes : /\ m \in InUse /\ object[m].class = "Node" /\ Formed(m)
                               /\ NextOf(m) \in Nodes \cup {Null}
           /\ Null \notin Nodes
<1>1. ASSUME NEW m \in Nodes
      PROVE  m \in InUse /\ object[m].class = "Node" /\ Formed(m)
             /\ NextOf(m) \in Nodes \cup {Null}
  <2>1. m \in InUse /\ object[m].class = "Node"
    BY DEF Nodes, InUse, Free, Object
  <2>2. Formed(m)
    BY <2>1 DEF HeapInv
  <2>3. OrNull(object[m].ref.next, "Node")
    BY <2>1, <2>2 DEF Formed
  <2>4. QED
    BY <2>1, <2>2, <2>3 DEF OrNull, Of, Nodes, NextOf, InUse
<1>2. QED
  BY <1>1, RefsAssumption DEF Nodes

(* The elements of a chain are its first node and those of the rest. *)
LEMMA ChainsAre == HeapInv => ChainFacts
<1> SUFFICES ASSUME HeapInv PROVE ChainFacts
  OBVIOUS
<1>1. Acyclic
  BY DEF HeapInv
<1>2. /\ \A m \in Nodes : m \in InUse /\ NextOf(m) \in Nodes \cup {Null}
      /\ Null \notin Nodes
  BY NodesLeadToNodes
<1>3. From(Null) = {}
  <2>1. Chain[Null] = <<>>
    BY <1>1, <1>2, ChainHasEnd
  <2>2. \A s : s = <<>> => Range(s) = {}
    BY DEF Range
  <2>3. QED
    BY <2>1, <2>2 DEF From
<1>4. ASSUME NEW n \in Nodes
      PROVE  From(n) = {n} \cup From(NextOf(n)) /\ From(n) \subseteq Nodes
  <2>1. ASSUME NEW s \in Seq(Nodes)
        PROVE  Range(<<n>> \o s) = {n} \cup Range(s) /\ Range(s) \subseteq Nodes
    <3>1. PICK t : t = <<n>> \o s
      OBVIOUS
    <3>2. /\ DOMAIN s = 1 .. Len(s) /\ Len(s) \in Nat
          /\ t \in Seq(Nodes) /\ DOMAIN t = 1 .. Len(s) + 1
          /\ t[1] = n /\ \A i \in 1 .. Len(s) : t[i + 1] = s[i]
      BY <3>1
    <3>3. \A i \in 1 .. Len(s) + 1 : i = 1 \/ i - 1 \in 1 .. Len(s)
      BY <3>2
    <3>4. ASSUME NEW i \in 1 .. Len(s) + 1
          PROVE  t[i] = n \/ \E j \in DOMAIN s : t[i] = s[j]
      <4>1. CASE i = 1
        BY <3>2, <4>1
      <4>2. CASE i # 1
        <5>1. PICK j \in 1 .. Len(s) : i = j + 1
          BY <3>2, <3>3, <4>2
        <5>2. QED
          BY <3>2, <5>1
      <4>3. QED
        BY <4>1, <4>2
    <3>5. \A j \in DOMAIN s : j + 1 \in DOMAIN t /\ t[j + 1] = s[j]
      BY <3>2
    <3>6. 1 \in DOMAIN t /\ t[1] = n
      BY <3>2
    <3>7. Range(t) = {n} \cup Range(s)
      <4>1. DOMAIN t = 1 .. Len(s) + 1
        BY <3>2
      <4>2. Range(t) \subseteq {n} \cup Range(s)
        BY ONLY <3>4, <4>1 DEF Range
      <4>3. {n} \cup Range(s) \subseteq Range(t)
        BY ONLY <3>5, <3>6 DEF Range
      <4>4. QED
        BY ONLY <4>2, <4>3
    <3>8. \A j \in DOMAIN s : s[j] \in Nodes
      OBVIOUS
    <3>9. Range(s) \subseteq Nodes
      BY <3>8 DEF Range
    <3>10. QED
      BY <3>1, <3>7, <3>9
  <2>2. NextOf(n) \in Nodes \cup {Null} /\ n # Null
    BY <1>2
  <2>3. Chain[NextOf(n)] \in Seq(Nodes) /\ Chain[n] \in Seq(Nodes)
        /\ Chain[n] = <<n>> \o Chain[NextOf(n)]
    BY <1>1, <1>2, <2>2, ChainHasEnd
  <2>4. QED
    BY <2>1, <2>3 DEF From
<1>5. ASSUME NEW n \in Nodes PROVE n \notin From(NextOf(n))
  <2>1. SUFFICES ASSUME n \in From(NextOf(n)) PROVE FALSE
    OBVIOUS
  <2> DEFINE S == {k \in Nodes : n \in From(k)}
  <2>2. NextOf(n) \in S
    BY <1>2, <1>3, <1>4, <2>1
  <2>3. \A k \in S : NextOf(k) \in S
    <3>1. SUFFICES ASSUME NEW k \in S, k # n PROVE NextOf(k) \in S
      BY <2>2
    <3>2. n \in From(NextOf(k))
      BY <1>4, <3>1
    <3>3. QED
      BY <1>2, <1>3, <3>2
  <2> HIDE DEF S
  <2>4. S \in SUBSET Nodes
    BY DEF S
  <2>5. QED
    BY <1>1, <2>2, <2>3, <2>4 DEF Acyclic, NextOf
<1>6. QED
  BY <1>2, <1>3, <1>4, <1>5 DEF ChainFacts

LEMMA ChainsAreAfter == HeapInv' => ChainFacts'
BY ChainsAre, PTL

(* The last node of a chain, behind which a new one goes. *)
LEMMA LastIsIn ==
    ASSUME HeapInv, NEW n \in Nodes
    PROVE  /\ Chain[n] # <<>> /\ Last(Chain[n]) \in From(n)
           /\ NextOf(Last(Chain[n])) = Null
<1>1. /\ Chain[n] \in Seq(Nodes) /\ Chain[n] # <<>> /\ NextOf(Last(Chain[n])) = Null
  <2>1. n # Null
    BY NodesLeadToNodes
  <2>2. QED
    BY <2>1, NodesLeadToNodes, ChainHasEnd DEF HeapInv
<1>2. \A s \in Seq(Nodes) : s # <<>> => Last(s) \in Range(s)
  <2>1. ASSUME NEW s \in Seq(Nodes), s # <<>> PROVE Last(s) \in Range(s)
    <3>1. Len(s) \in DOMAIN s
      BY <2>1
    <3>2. QED
      BY <3>1 DEF Last, Range
  <2>2. QED
    BY <2>1
<1>3. QED
  BY <1>1, <1>2 DEF From

(* Chains whose nodes have the same successors are the same. *)
LEMMA ChainsStay ==
    ASSUME HeapInv, HeapInv', NEW K \in SUBSET Nodes, K \subseteq Nodes',
           \A n \in K : NextOf(n) \in K \cup {Null} /\ NextOf(n)' = NextOf(n)
    PROVE  \A n \in K \cup {Null} : From(n)' = From(n) /\ From(n) \subseteq K
<1>1. ChainFacts /\ ChainFacts'
  BY ChainsAre, ChainsAreAfter
<1>2. From(Null)' = {} /\ From(Null) = {}
  BY <1>1 DEF ChainFacts
<1> DEFINE S == {n \in K : ~(From(n)' = From(n) /\ From(n) \subseteq K)}
<1>3. S = {}
  <2>1. SUFFICES ASSUME S # {} PROVE FALSE
    OBVIOUS
  <2>2. PICK n \in S : NextOf(n) \notin S
    <3>1. S \in SUBSET Nodes
      OBVIOUS
    <3> HIDE DEF S
    <3>2. QED
      BY <2>1, <3>1 DEF HeapInv, Acyclic, NextOf
  <2>3. n \in K /\ ~(From(n)' = From(n) /\ From(n) \subseteq K)
    BY <2>2
  <2>4. From(NextOf(n))' = From(NextOf(n)) /\ From(NextOf(n)) \subseteq K
    BY <1>2, <2>2, <2>3
  <2>5. From(n) = {n} \cup From(NextOf(n)) /\ From(n)' = {n} \cup From(NextOf(n))'
    BY <1>1, <2>3 DEF ChainFacts
  <2>6. QED
    BY <2>3, <2>4, <2>5
<1>4. QED
  BY <1>2, <1>3

(* A new node behind the last of a chain. *)
LEMMA ChainGrows ==
    ASSUME HeapInv, HeapInv', Nodes' = Nodes, NEW l \in Nodes, NEW n \in Nodes, n # l,
           NextOf(l) = Null, NextOf(n) = Null, NextOf(l)' = n,
           \A k \in Nodes \ {l} : NextOf(k)' = NextOf(k)
    PROVE  \A k \in Nodes \cup {Null} :
              From(k)' = From(k) \cup (IF l \in From(k) THEN {n} ELSE {})
<1>1. ChainFacts /\ ChainFacts'
  BY ChainsAre, ChainsAreAfter
<1>2. /\ From(Null)' = {} /\ From(Null) = {} /\ Null \notin Nodes
      /\ \A k \in Nodes :
            /\ From(k) = {k} \cup From(NextOf(k)) /\ NextOf(k) \in Nodes \cup {Null}
            /\ From(k)' = {k} \cup From(NextOf(k))'
  BY <1>1, NodesLeadToNodes DEF ChainFacts
<1>3. From(l) = {l} /\ From(n) = {n} /\ From(n)' = {n}
  <2>1. NextOf(n)' = Null
    OBVIOUS
  <2>2. From(NextOf(n))' = From(Null)'
    BY <2>1
  <2>3. QED
    BY <1>2, <2>2
<1>4. From(l)' = {l, n}
  <2>1. From(NextOf(l))' = From(n)'
    OBVIOUS
  <2>2. QED
    BY <1>2, <1>3, <2>1
<1> DEFINE Good(k) == From(k)' = From(k) \cup (IF l \in From(k) THEN {n} ELSE {})
           S == {k \in Nodes : ~Good(k)}
<1>5. S = {}
  <2>1. SUFFICES ASSUME S # {} PROVE FALSE
    OBVIOUS
  <2>2. PICK k \in S : NextOf(k) \notin S
    <3>1. S \in SUBSET Nodes
      OBVIOUS
    <3> HIDE DEF S
    <3>2. QED
      BY <2>1, <3>1 DEF HeapInv, Acyclic, NextOf
  <2>3. k \in Nodes /\ ~Good(k)
    BY <2>2
  <2>4. k # l
    BY <1>3, <1>4, <2>3
  <2>5. PICK j \in Nodes \cup {Null} : j = NextOf(k)
    BY <1>2, <2>3
  <2>6. Good(j)
    BY <1>2, <2>2, <2>5
  <2>7. From(NextOf(k))' = From(j)'
    BY <2>3, <2>4, <2>5
  <2>8. From(k) = {k} \cup From(j) /\ From(k)' = {k} \cup From(j)'
    BY <1>2, <2>3, <2>5, <2>7
  <2>9. QED
    BY <2>3, <2>4, <2>6, <2>8
<1>6. Good(Null)
  BY <1>2
<1>7. QED
  BY <1>5, <1>6

RestFact == \A t, b, x : x \in Rest(t, b) <=>
               \E i \in b .. object[t].val - 1 : x \in From(object[t].ref[i])

LEMMA RestIs == RestFact
<1>1. ASSUME NEW t, NEW b, NEW x
      PROVE  x \in Rest(t, b) <=>
                \E i \in b .. object[t].val - 1 : x \in From(object[t].ref[i])
  BY Zenon DEF Rest
<1>2. QED
  BY <1>1 DEF RestFact

LEMMA RestIsAfter == RestFact'
BY RestIs, PTL

(* The objects in K are carried over a step: what they lead to is among    *)
(* them, and no table, node or word changes.                               *)
Carried(K) ==
    /\ K \subseteq InUse /\ K \subseteq InUse'
    /\ UNCHANGED inputVars
    /\ \A r \in K : /\ Trace(r) \cap InUse \subseteq K
                    /\ object'[r].class = object[r].class
                    /\ object[r].class \in {"Node", "String"} \/ r \in Tables
                          => object'[r] = object[r]

(* And the numbers do not change. *)
Fixed(K) == Carried(K) /\ \A r \in K : object[r].class = "SizeT" => object'[r] = object[r]

LEMMA NodesCarried ==
    ASSUME HeapInv, HeapInv', NEW K, Carried(K)
    PROVE  /\ \A n \in K \cap Nodes :
                 /\ object'[n] = object[n] /\ n \in Nodes'
                 /\ Key(n)' = Key(n) /\ ValueOf(n)' = ValueOf(n) /\ NextOf(n)' = NextOf(n)
                 /\ ValueOf(n) \in K /\ object[ValueOf(n)].class = "SizeT"
                 /\ object[n].ref.key \in K
           /\ \A n \in (K \cap Nodes) \cup {Null} :
                 From(n)' = From(n) /\ From(n) \subseteq K \cap Nodes
<1>1. ASSUME NEW n \in K \cap Nodes
      PROVE  /\ object'[n] = object[n] /\ n \in Nodes'
             /\ Key(n)' = Key(n) /\ ValueOf(n)' = ValueOf(n) /\ NextOf(n)' = NextOf(n)
             /\ ValueOf(n) \in K /\ object[ValueOf(n)].class = "SizeT"
             /\ object[n].ref.key \in K
             /\ NextOf(n) \in (K \cap Nodes) \cup {Null}
  <2>1. n \in InUse /\ object[n].class = "Node" /\ Formed(n)
        /\ NextOf(n) \in Nodes \cup {Null}
    BY NodesLeadToNodes
  <2>2. {object[n].ref.key, object[n].ref.value, object[n].ref.next} \subseteq Trace(n)
        /\ Of(object[n].ref.key, "String") /\ Of(object[n].ref.value, "SizeT")
        /\ OrNull(object[n].ref.next, "Node")
    BY <2>1, TraceOfFormed DEF Formed
  <2>3. /\ object[n].ref.key \in K /\ object[n].ref.value \in K
        /\ object[n].ref.next \in K \cup {Null}
    BY <2>2 DEF Carried, Of, OrNull
  <2>4. /\ object'[n] = object[n]
        /\ object'[object[n].ref.key] = object[object[n].ref.key]
        /\ object[object[n].ref.value].class = "SizeT"
    BY <2>1, <2>2, <2>3 DEF Carried, Of
  <2>5. n \in Nodes'
    BY <2>1, <2>4 DEF Nodes
  <2>6. QED
    BY <2>1, <2>3, <2>4, <2>5 DEF Key, ValueOf, NextOf
<1>2. \A n \in (K \cap Nodes) \cup {Null} :
         From(n)' = From(n) /\ From(n) \subseteq K \cap Nodes
  <2>1. PICK J \in SUBSET Nodes : J = K \cap Nodes
    OBVIOUS
  <2>2. \A n \in J : /\ n \in Nodes' /\ NextOf(n)' = NextOf(n)
                     /\ NextOf(n) \in J \cup {Null}
    BY <1>1, <2>1
  <2>3. \A n \in J \cup {Null} : From(n)' = From(n) /\ From(n) \subseteq J
    BY <2>2, ChainsStay
  <2>4. QED
    BY <2>1, <2>3
<1>3. QED
  BY <1>1, <1>2

(* The table of a map. *)
LEMMA TableIs ==
    ASSUME HeapInv, NEW t \in Tables
    PROVE  /\ t \in InUse /\ object[t].class = "Array" /\ object[t].val \in Nat \ {0}
           /\ DOMAIN object[t].ref = 0 .. object[t].val - 1
           /\ \A i \in 0 .. object[t].val - 1 :
                 /\ object[t].ref[i] \in Nodes \cup {Null}
                 /\ object[t].ref[i] \in Trace(t)
           /\ \A b \in Nat : Rest(t, b) \subseteq Nodes
<1>1. IsTable(t) /\ Of(t, "Array") /\ Formed(t)
  BY DEF HeapInv, IsTable, Of
<1>2. /\ t \in InUse /\ object[t].class = "Array" /\ object[t].val \in Nat \ {0}
      /\ DOMAIN object[t].ref = 0 .. object[t].val - 1
  BY <1>1 DEF IsTable, Of, Formed
<1>3. ASSUME NEW i \in 0 .. object[t].val - 1
      PROVE  object[t].ref[i] \in Nodes \cup {Null} /\ object[t].ref[i] \in Trace(t)
  <2>1. OrNull(object[t].ref[i], "Node") /\ object[t].ref[i] \in Trace(t)
    BY <1>1, <1>2, TraceOfFormed DEF IsTable
  <2>2. QED
    BY <2>1 DEF OrNull, Of, Nodes, InUse
<1>4. ASSUME NEW b \in Nat, NEW x \in Rest(t, b) PROVE x \in Nodes
  <2>1. PICK i \in b .. object[t].val - 1 : x \in From(object[t].ref[i])
    BY RestIs DEF RestFact
  <2>2. i \in 0 .. object[t].val - 1
    BY <1>2
  <2>3. QED
    BY <1>3, <2>1, <2>2, ChainsAre DEF ChainFacts
<1>5. QED
  BY <1>2, <1>3, <1>4

LEMMA TableCarried ==
    ASSUME HeapInv, HeapInv', NEW K, Carried(K), NEW t \in Tables, t \in K
    PROVE  /\ object'[t] = object[t]
           /\ \A b \in Nat : Rest(t, b)' = Rest(t, b) /\ Rest(t, b) \subseteq K \cap Nodes
<1>1. object'[t] = object[t]
  BY DEF Carried
<1>2. ASSUME NEW i \in 0 .. object[t].val - 1
      PROVE  object[t].ref[i] \in (K \cap Nodes) \cup {Null}
  <2>1. object[t].ref[i] \in Nodes \cup {Null} /\ object[t].ref[i] \in Trace(t)
        /\ \A n \in Nodes : n \in InUse
    BY TableIs, NodesLeadToNodes
  <2>2. QED
    BY <2>1 DEF Carried
<1>3. PICK ref, len : ref = object[t].ref /\ len = object[t].val
  OBVIOUS
<1>4. ASSUME NEW i \in 0 .. len - 1
      PROVE  From(ref[i])' = From(ref[i]) /\ From(ref[i]) \subseteq K \cap Nodes
  <2>1. PICK n \in (K \cap Nodes) \cup {Null} : n = ref[i]
    BY <1>2, <1>3
  <2>2. From(n)' = From(n) /\ From(n) \subseteq K \cap Nodes
    BY NodesCarried
  <2>3. QED
    BY <2>1, <2>2
<1>5. ASSUME NEW b \in Nat, NEW x
      PROVE  /\ x \in Rest(t, b)' <=> x \in Rest(t, b)
             /\ x \in Rest(t, b) => x \in K \cap Nodes
  <2>1. \A i \in b .. len - 1 : i \in 0 .. len - 1
    BY <1>3, TableIs
  <2>2. x \in Rest(t, b) <=> \E i \in b .. len - 1 : x \in From(ref[i])
    BY <1>3, RestIs DEF RestFact
  <2>3. x \in Rest(t, b)' <=> \E i \in b .. len - 1 : x \in From(ref[i])'
    <3>1. x \in Rest(t, b)' <=>
            \E i \in b .. object'[t].val - 1 : x \in From(object[t].ref[i])'
      BY RestIsAfter DEF RestFact
    <3>2. \A i : From(object[t].ref[i])' = From(ref[i])'
      BY <1>1, <1>3
    <3>3. QED
      BY <1>1, <1>3, <3>1, <3>2
  <2>4. QED
    BY <1>4, <2>1, <2>2, <2>3
<1>6. QED
  BY <1>1, <1>5

(* What a map holds is carried over with it. *)
LEMMA CountsCarried ==
    ASSUME HeapInv, HeapInv', NEW K, Fixed(K), NEW t \in Tables, t \in K, NEW n,
           Counts(t, n)
    PROVE  Counts(t, n)'
<1>0. Carried(K)
  BY DEF Fixed
<1>1. PICK ref, len : ref = object[t].ref /\ len = object[t].val
  OBVIOUS
<1>2. /\ object'[t] = object[t] /\ object'[t].ref = ref /\ object'[t].val = len
      /\ NodesIn(t)' = NodesIn(t) /\ NodesIn(t) \subseteq K \cap Nodes
  BY <1>0, <1>1, TableCarried DEF NodesIn
<1>3. \A k \in NodesIn(t) :
         /\ object'[k] = object[k] /\ Key(k)' = Key(k) /\ ValueOf(k)' = ValueOf(k)
         /\ object'[ValueOf(k)] = object[ValueOf(k)]
  BY <1>0, <1>2, NodesCarried DEF Fixed
<1>4. \A i \in 0 .. len - 1 : From(ref[i])' = From(ref[i]) /\ From(ref[i]) \subseteq NodesIn(t)
  <2>1. SUFFICES ASSUME NEW i \in 0 .. len - 1
                 PROVE  From(ref[i])' = From(ref[i]) /\ From(ref[i]) \subseteq NodesIn(t)
    OBVIOUS
  <2>2. PICK k : k = ref[i]
    OBVIOUS
  <2>3. k \in (K \cap Nodes) \cup {Null}
    <3>1. k \in Nodes \cup {Null} /\ k \in Trace(t) /\ \A j \in Nodes : j \in InUse
      BY <1>1, <2>2, TableIs, NodesLeadToNodes
    <3>2. QED
      BY <1>0, <3>1 DEF Carried
  <2>4. From(k)' = From(k)
    BY <1>0, <2>3, NodesCarried
  <2>5. From(k) \subseteq NodesIn(t)
    BY <1>1, <2>2, RestIs DEF RestFact, NodesIn
  <2>6. QED
    BY <2>2, <2>4, <2>5
<1>5. \A w : Occurrences(w, n)' = Occurrences(w, n)
  BY <1>0 DEF Carried, inputVars, Occurrences
<1>6. WordsRead(n)' = WordsRead(n) /\ hash' = hash
  BY <1>0 DEF Carried, inputVars, WordsRead
<1>7. ASSUME NEW i \in 0 .. len - 1, NEW k \in From(ref[i])' PROVE Bucket(t, object[k].val)' = i
  <2>1. k \in From(ref[i]) /\ k \in NodesIn(t)
    BY <1>4
  <2>2. Bucket(t, object[k].val) = i
    BY <1>1, <2>1 DEF Counts
  <2>3. QED
    BY <1>2, <1>3, <2>1, <2>2 DEF Bucket
<1>8. \A i \in 0 .. object'[t].val - 1 :
         \A k \in From(object[t].ref[i])' : Bucket(t, object[k].val)' = i
  <2>1. \A i : From(object[t].ref[i])' = From(ref[i])'
    BY <1>2
  <2>2. QED
    BY <1>2, <1>7, <2>1
<1>9. ASSUME NEW k \in NodesIn(t)
      PROVE  /\ object'[k].val = hash'[Key(k)']
             /\ object'[ValueOf(k)'] = SizeT(Occurrences(Key(k), n))'
  <2>1. object[k].val = hash[Key(k)] /\ object[ValueOf(k)] = SizeT(Occurrences(Key(k), n))
    BY DEF Counts
  <2>2. Occurrences(Key(k), n)' = Occurrences(Key(k), n)
    <3>1. PICK w : w = Key(k)
      OBVIOUS
    <3>2. Key(k)' = w /\ text' = text
      BY <1>0, <1>3, <3>1 DEF Carried, inputVars
    <3>3. QED
      BY <3>1, <3>2 DEF Occurrences
  <2>3. QED
    BY <1>3, <1>6, <2>1, <2>2 DEF SizeT
<1>10. \A k, l \in NodesIn(t) : Key(k)' = Key(l)' \/ ValueOf(k)' = ValueOf(l)' => k = l
  BY <1>3 DEF Counts
<1>11. {Key(k) : k \in NodesIn(t)}' = WordsRead(n)'
  <2>1. {Key(k) : k \in NodesIn(t)}' = {Key(k) : k \in NodesIn(t)}
    BY <1>2, <1>3
  <2>2. QED
    BY <1>6, <2>1 DEF Counts
<1>12. QED
  BY <1>2, <1>8, <1>9, <1>10, <1>11 DEF Counts

(* The table of a map goes where the map goes. *)
LEMMA TableOf ==
    ASSUME HeapInv, NEW m, Of(m, "HashMap")
    PROVE  object[m].ref.table \in Tables /\ object[m].ref.table \in Trace(m)
<1>1. m \in InUse /\ object[m].class = "HashMap" /\ Formed(m)
  BY DEF Of, HeapInv
<1>2. QED
  BY <1>1, TraceOfFormed DEF Tables

LEMMA MapCarried ==
    ASSUME HeapInv, HeapInv', NEW K, Fixed(K), NEW m \in K, Of(m, "HashMap"),
           object'[m] = object[m], NEW n, NEW more, MapHolds(m, n, more)
    PROVE  MapHolds(m, n, more)'
<1>0. Carried(K)
  BY DEF Fixed
<1>1. PICK t : t = object[m].ref.table
  OBVIOUS
<1>2. t \in Tables /\ t \in K
  BY <1>0, <1>1, TableOf, TableIs DEF Carried
<1>3. Counts(t, n)'
  BY <1>1, <1>2, CountsCarried DEF MapHolds
<1>4. Counts(object[m].ref.table, n)'
  BY <1>1, <1>3
<1>5. WordsRead(n)' = WordsRead(n)
  BY <1>0 DEF Carried, inputVars, WordsRead
<1>6. QED
  BY <1>4, <1>5 DEF MapHolds

LEMMA WordsAreFinite ==
    ASSUME NEW n \in Nat
    PROVE  IsFiniteSet(WordsRead(n)) /\ Cardinality(WordsRead(n)) \in Nat
<1>1. PICK T, f : T = WordsRead(n) /\ f = [i \in 1 .. n |-> text[i]]
  OBVIOUS
<1>2. f \in [1 .. n -> T] /\ \A w \in T : \E i \in 1 .. n : f[i] = w
  BY <1>1 DEF WordsRead
<1>3. f \in Surjection(1 .. n, T)
  BY <1>2 DEF Surjection
<1>4. ExistsSurjection(1 .. n, T)
  BY <1>3 DEF ExistsSurjection
<1>5. IsFiniteSet(T)
  BY <1>4, FS_NatSurjection
<1>6. QED
  BY <1>1, <1>5, FS_CardinalityType

(* The words of one word more. *)
LEMMA OneWordMore ==
    ASSUME text \in Seq(Words), NEW n \in Nat, n + 1 <= Len(text)
    PROVE  /\ WordsRead(n + 1) = WordsRead(n) \cup {text[n + 1]}
           /\ IsFiniteSet(WordsRead(n)) /\ WordsRead(0) = {}
           /\ Cardinality(WordsRead(n)) \in Nat
           /\ Cardinality(WordsRead(n + 1)) =
                 Cardinality(WordsRead(n)) + (IF text[n + 1] \in WordsRead(n) THEN 0 ELSE 1)
           /\ \A w : /\ Occurrences(w, n) \in Nat
                     /\ w \notin WordsRead(n) => Occurrences(w, n) = 0
                     /\ Occurrences(w, n + 1) =
                           Occurrences(w, n) + (IF w = text[n + 1] THEN 1 ELSE 0)
<1>1. 1 .. n + 1 = (1 .. n) \cup {n + 1} /\ 1 .. 0 = {}
  OBVIOUS
<1>2. WordsRead(n + 1) = WordsRead(n) \cup {text[n + 1]} /\ WordsRead(0) = {}
  BY <1>1 DEF WordsRead
<1>3. IsFiniteSet(WordsRead(n)) /\ Cardinality(WordsRead(n)) \in Nat
  BY WordsAreFinite
<1>4. Cardinality(WordsRead(n + 1)) =
         Cardinality(WordsRead(n)) + (IF text[n + 1] \in WordsRead(n) THEN 0 ELSE 1)
  BY <1>2, <1>3, FS_AddElement
<1>5. ASSUME NEW w
      PROVE  /\ Occurrences(w, n) \in Nat
             /\ w \notin WordsRead(n) => Occurrences(w, n) = 0
             /\ Occurrences(w, n + 1) =
                   Occurrences(w, n) + (IF w = text[n + 1] THEN 1 ELSE 0)
  <2>1. PICK S : S = {i \in 1 .. n : text[i] = w}
    OBVIOUS
  <2>2. IsFiniteSet(S)
    <3>1. IsFiniteSet(1 .. n) /\ S \subseteq 1 .. n
      BY <2>1, FS_Interval
    <3>2. QED
      BY <3>1, FS_Subset
  <2>3. Occurrences(w, n) = Cardinality(S)
    BY <2>1 DEF Occurrences
  <2>4. w \notin WordsRead(n) => S = {}
    BY <2>1 DEF WordsRead
  <2>5. n + 1 \notin S
    BY <2>1
  <2>6. Occurrences(w, n + 1) =
           Cardinality(IF w = text[n + 1] THEN S \cup {n + 1} ELSE S)
    <3>1. {i \in 1 .. n + 1 : text[i] = w} = IF w = text[n + 1] THEN S \cup {n + 1} ELSE S
      BY <1>1, <2>1
    <3>2. QED
      BY <3>1 DEF Occurrences
  <2>7. Cardinality(S) \in Nat /\ Cardinality(S \cup {n + 1}) = Cardinality(S) + 1
    BY <2>2, <2>5, FS_CardinalityType, FS_AddElement
  <2>8. w \notin WordsRead(n) => Occurrences(w, n) = 0
    BY <2>3, <2>4, FS_EmptySet
  <2>9. QED
    BY <2>3, <2>6, <2>7, <2>8
<1>6. QED
  BY <1>2, <1>3, <1>4, <1>5

(* The nodes of a table, by their buckets. *)
LEMMA NodesAre ==
    ASSUME HeapInv, NEW t \in Tables
    PROVE  /\ NodesIn(t) \subseteq Nodes
           /\ \A k : k \in NodesIn(t) <=>
                 \E i \in 0 .. object[t].val - 1 : k \in From(object[t].ref[i])
BY TableIs, RestIs DEF NodesIn, RestFact

(* update_value() of a word that is in the map. *)
LEMMA CountsOneMore ==
    ASSUME HeapInv, HeapInv', Carried(InUse), NEW t \in Tables, NEW n \in Nat,
           text \in Seq(Words), n + 1 <= Len(text), Counts(t, n),
           NEW k \in NodesIn(t), Key(k) = text[n + 1],
           object'[ValueOf(k)] = SizeT(object[ValueOf(k)].val + 1),
           \A r \in Refs \ {ValueOf(k)} : object'[r] = object[r]
    PROVE  Counts(t, n + 1)'
<1>1. /\ text' = text /\ hash' = hash /\ t \in InUse
  BY TableIs DEF Carried, inputVars
<1>2. PICK ref, len : ref = object[t].ref /\ len = object[t].val
  OBVIOUS
<1>3. /\ object'[t] = object[t] /\ object'[t].ref = ref /\ object'[t].val = len
      /\ NodesIn(t)' = NodesIn(t) /\ NodesIn(t) \subseteq Nodes \cap InUse
  BY <1>1, <1>2, TableCarried DEF NodesIn
<1>4. \A l \in NodesIn(t) :
         /\ object'[l] = object[l] /\ Key(l)' = Key(l) /\ ValueOf(l)' = ValueOf(l)
         /\ ValueOf(l) \in InUse
  BY <1>3, NodesCarried
<1>5. \A i \in 0 .. len - 1 : From(ref[i])' = From(ref[i]) /\ From(ref[i]) \subseteq NodesIn(t)
  <2>1. SUFFICES ASSUME NEW i \in 0 .. len - 1
                 PROVE  From(ref[i])' = From(ref[i]) /\ From(ref[i]) \subseteq NodesIn(t)
    OBVIOUS
  <2>2. PICK l : l = ref[i]
    OBVIOUS
  <2>3. l \in (InUse \cap Nodes) \cup {Null}
    BY <1>2, <2>2, TableIs, NodesLeadToNodes
  <2>4. From(l)' = From(l)
    BY <2>3, NodesCarried
  <2>5. From(l) \subseteq NodesIn(t)
    BY <1>2, <2>2, NodesAre
  <2>6. QED
    BY <2>2, <2>4, <2>5
<1>6. ASSUME NEW i \in 0 .. len - 1, NEW l \in From(ref[i])' PROVE Bucket(t, object[l].val)' = i
  <2>1. l \in From(ref[i]) /\ l \in NodesIn(t)
    BY <1>5
  <2>2. Bucket(t, object[l].val) = i
    BY <1>2, <2>1 DEF Counts
  <2>3. QED
    BY <1>3, <1>4, <2>1, <2>2 DEF Bucket
<1>7. \A i \in 0 .. object'[t].val - 1 :
         \A l \in From(object[t].ref[i])' : Bucket(t, object[l].val)' = i
  <2>1. \A i : From(object[t].ref[i])' = From(ref[i])'
    BY <1>3
  <2>2. QED
    BY <1>3, <1>6, <2>1
<1>8. ASSUME NEW l \in NodesIn(t)
      PROVE  /\ object'[l].val = hash'[Key(l)']
             /\ object'[ValueOf(l)'] = SizeT(Occurrences(Key(l), n + 1))'
  <2>1. PICK w : w = Key(l)
    OBVIOUS
  <2>2. object[l].val = hash[w] /\ object[ValueOf(l)] = SizeT(Occurrences(w, n))
        /\ object[ValueOf(k)] = SizeT(Occurrences(Key(k), n))
    BY <2>1 DEF Counts
  <2>3. Occurrences(w, n) \in Nat
        /\ Occurrences(w, n + 1) = Occurrences(w, n) + (IF w = text[n + 1] THEN 1 ELSE 0)
    BY OneWordMore
  <2>4. object'[ValueOf(l)] = SizeT(Occurrences(w, n + 1))
    <3>1. CASE l = k
      <4>1. object[ValueOf(k)].val = Occurrences(w, n) /\ w = text[n + 1]
        BY <2>1, <2>2, <3>1 DEF SizeT, Object
      <4>2. QED
        BY <2>3, <3>1, <4>1
    <3>2. CASE l # k
      <4>1. Key(l) # Key(k) /\ ValueOf(l) # ValueOf(k)
        BY <3>2 DEF Counts
      <4>2. ValueOf(l) \in Refs
        BY <1>4 DEF InUse
      <4>3. QED
        BY <2>1, <2>2, <2>3, <4>1, <4>2
    <3>3. QED
      BY <3>1, <3>2
  <2>5. Occurrences(Key(l), n + 1)' = Occurrences(w, n + 1)
    BY <1>1, <1>4, <2>1 DEF Occurrences
  <2>6. QED
    BY <1>1, <1>4, <2>1, <2>2, <2>4, <2>5 DEF SizeT
<1>9. \A j, l \in NodesIn(t) : Key(j)' = Key(l)' \/ ValueOf(j)' = ValueOf(l)' => j = l
  BY <1>4 DEF Counts
<1>10. {Key(l) : l \in NodesIn(t)}' = WordsRead(n + 1)'
  <2>1. {Key(l) : l \in NodesIn(t)}' = {Key(l) : l \in NodesIn(t)}
    BY <1>3, <1>4
  <2>2. WordsRead(n + 1)' = WordsRead(n + 1) /\ WordsRead(n + 1) = WordsRead(n) \cup {text[n + 1]}
    BY <1>1, OneWordMore DEF WordsRead
  <2>3. {Key(l) : l \in NodesIn(t)} = WordsRead(n)
    BY DEF Counts
  <2>4. text[n + 1] \in WordsRead(n)
    BY <2>3
  <2>5. WordsRead(n + 1) = WordsRead(n)
    BY <2>2, <2>4
  <2>6. QED
    BY <2>1, <2>2, <2>3, <2>5
<1>11. QED
  BY <1>3, <1>7, <1>8, <1>9, <1>10 DEF Counts

(* A node that no object refers to is in no chain. *)
LEMMA NotInChains ==
    ASSUME HeapInv, NEW n \in Nodes, OnlyIn(n, {n}), NEW t \in Tables
    PROVE  n \notin NodesIn(t)
<1>1. \A k \in Nodes : /\ k \in InUse /\ NextOf(k) \in Nodes \cup {Null}
                       /\ NextOf(k) \in Trace(k)
                       /\ From(k) = {k} \cup From(NextOf(k))
  BY NodesLeadToNodes, TraceOfFormed, ChainsAre DEF ChainFacts, NextOf
<1>2. From(Null) = {}
  BY ChainsAre DEF ChainFacts
<1> DEFINE S == {k \in Nodes \ {n} : n \in From(k)}
<1>3. S = {}
  <2>1. SUFFICES ASSUME S # {} PROVE FALSE
    OBVIOUS
  <2>2. PICK k \in S : NextOf(k) \notin S
    <3>1. S \in SUBSET Nodes
      OBVIOUS
    <3> HIDE DEF S
    <3>2. QED
      BY <2>1, <3>1 DEF HeapInv, Acyclic, NextOf
  <2>3. k \in Nodes /\ k # n /\ n \in From(NextOf(k))
    BY <1>1, <2>2
  <2>4. NextOf(k) # n /\ NextOf(k) # Null
    BY <1>1, <1>2, <2>3 DEF OnlyIn
  <2>5. NextOf(k) \in Nodes \ {n}
    BY <1>1, <2>3, <2>4
  <2>6. QED
    BY <2>2, <2>3, <2>5
<1>4. ASSUME NEW i \in 0 .. object[t].val - 1 PROVE n \notin From(object[t].ref[i])
  <2>1. object[t].ref[i] \in Nodes \cup {Null} /\ object[t].ref[i] \in Trace(t)
        /\ t \in InUse /\ object[t].class = "Array"
    BY TableIs
  <2>2. object[t].ref[i] # n
    <3>1. t # n
      BY <2>1 DEF Nodes
    <3>2. QED
      BY <2>1, <3>1 DEF OnlyIn
  <2>3. QED
    BY <1>2, <1>3, <2>1, <2>2
<1>5. QED
  BY <1>4, NodesAre

(* What Link() does to the chains: node n is the last of bucket b. *)
LinksAt(t, n, b) ==
    /\ b \in 0 .. object[t].val - 1 /\ object'[t].val = object[t].val
    /\ \A i \in 0 .. object[t].val - 1 :
          From(object[t].ref[i])' =
             From(object[t].ref[i]) \cup (IF i = b THEN {n} ELSE {})
    /\ \A k \in Nodes : /\ object'[k].val = object[k].val
                        /\ object'[k].ref.key = object[k].ref.key
                        /\ object'[k].ref.value = object[k].ref.value
    /\ \A r \in Refs \ (Nodes \cup {t}) : object'[r] = object[r]
    /\ object'[n] = object[n]
    /\ \A r \in Refs : object'[r].class = object[r].class

LEMMA LinkedChains ==
    ASSUME HeapInv, HeapInv', NEW t \in Tables, NEW n \in Nodes, NextOf(n) = Null,
           OnlyIn(n, {n}), Link(t, n), NEW b, b = Bucket(t, object[n].val),
           \A i \in 0 .. object[t].val - 1 :
              \A k \in From(object[t].ref[i]) : Bucket(t, object[k].val) = i
    PROVE  LinksAt(t, n, b)
<1>1. /\ t \in InUse /\ object[t].class = "Array" /\ object[t].val \in Nat \ {0}
      /\ DOMAIN object[t].ref = 0 .. object[t].val - 1
      /\ \A i \in 0 .. object[t].val - 1 : object[t].ref[i] \in Nodes \cup {Null}
  BY TableIs
<1>2. PICK o, ref, len : o = object[t] /\ ref = object[t].ref /\ len = object[t].val
  OBVIOUS
<1>3. /\ n \in InUse /\ n \in Refs /\ object[n].class = "Node" /\ Formed(n) /\ n # t
      /\ Null \notin Nodes /\ DOMAIN object = Refs /\ Nodes \subseteq Refs /\ t \in Refs
      /\ t \notin Nodes
  BY <1>1, NodesLeadToNodes DEF Nodes, InUse, HeapInv
<1>4. object[n].val \in Nat
  BY <1>3 DEF Formed
<1>5. b \in 0 .. len - 1
  <2>1. PICK h \in Nat : h = object[n].val
    BY <1>4
  <2>2. Bucket(t, h) \in DOMAIN object[t].ref
    BY BucketHolds
  <2>3. QED
    BY <1>1, <1>2, <2>1, <2>2
<1>6. object' = IF Chain[ref[b]] = <<>> THEN [object EXCEPT ![t].ref[b] = n]
                ELSE [object EXCEPT ![Last(Chain[ref[b]])].ref.next = n]
  <2>1. Link(t, n)
    OBVIOUS
  <2>2. object' = IF Chain[object[t].ref[Bucket(t, object[n].val)]] = <<>>
                  THEN [object EXCEPT ![t].ref[Bucket(t, object[n].val)] = n]
                  ELSE [object EXCEPT ![Last(Chain[object[t].ref[Bucket(t, object[n].val)]])].ref.next = n]
    BY ONLY <2>1, Zenon DEF Link
  <2>3. QED
    BY <1>2, <2>2
<1>7. CASE ref[b] = Null
  <2>1. Chain[ref[b]] = <<>>
    BY <1>3, <1>7, NodesLeadToNodes, ChainHasEnd DEF HeapInv
  <2>2. object' = [object EXCEPT ![t].ref[b] = n]
    BY <1>6, <2>1
  <2>3. PICK f : f = [ref EXCEPT ![b] = n]
    OBVIOUS
  <2>4. /\ \A r \in Refs \ {t} : object'[r] = object[r]
        /\ object'[t] = [object[t] EXCEPT !.ref = f]
    BY <1>2, <1>3, <2>2, <2>3
  <2>5. o = Object("Array", ref, len)
    <3>1. Formed(t)
      BY <1>1 DEF HeapInv
    <3>2. QED
      BY <1>1, <1>2, <3>1 DEF Formed
  <2>6. object'[t] = Object("Array", f, len)
    BY <1>2, <2>4, <2>5 DEF Object
  <2>7. object'[t].ref = f /\ object'[t].val = len /\ object'[t].class = "Array"
    BY <2>6 DEF Object
  <2>8. \A k \in Nodes : object'[k] = object[k] /\ k \in Nodes' /\ NextOf(k)' = NextOf(k)
                         /\ NextOf(k) \in Nodes \cup {Null}
    BY <1>3, <2>4, NodesLeadToNodes DEF Nodes, NextOf
  <2>9. \A k \in Nodes \cup {Null} : From(k)' = From(k)
    BY <2>8, ChainsStay
  <2>10. From(n) = {n} /\ From(Null) = {}
    BY ChainsAre DEF ChainFacts
  <2>11. ASSUME NEW i \in 0 .. len - 1
         PROVE  From(object[t].ref[i])' = From(ref[i]) \cup (IF i = b THEN {n} ELSE {})
    <3>1. f[i] = IF i = b THEN n ELSE ref[i]
      BY <1>1, <1>2, <2>3
    <3>2. PICK k \in Nodes \cup {Null} : k = f[i]
      BY <1>1, <1>2, <3>1
    <3>3. From(object[t].ref[i])' = From(k)'
      BY <2>7, <3>2
    <3>4. From(k)' = From(k)
      BY <2>9
    <3>5. CASE i = b
      BY <1>7, <2>10, <3>1, <3>2, <3>3, <3>4, <3>5
    <3>6. CASE i # b
      BY <3>1, <3>2, <3>3, <3>4, <3>6
    <3>7. QED
      BY <3>5, <3>6
  <2>12. QED
    BY <1>1, <1>2, <1>3, <1>5, <2>4, <2>7, <2>8, <2>11 DEF LinksAt
<1>8. CASE ref[b] # Null
  <2>1. ref[b] \in Nodes
    BY <1>1, <1>2, <1>5, <1>8
  <2>2. PICK l : l = Last(Chain[ref[b]])
    OBVIOUS
  <2>3. Chain[ref[b]] # <<>> /\ l \in From(ref[b]) /\ NextOf(l) = Null
    BY <2>1, <2>2, LastIsIn
  <2>4. l \in Nodes /\ l \in NodesIn(t)
    BY <1>2, <1>5, <2>1, <2>3, ChainsAre, NodesAre DEF ChainFacts
  <2>5. object' = [object EXCEPT ![l].ref.next = n]
    BY <1>6, <2>2, <2>3
  <2>6. l # n
    BY <2>4, NotInChains
  <2>7. l \in InUse /\ l \in Refs /\ object[l].class = "Node" /\ Formed(l) /\ l # t
    BY <1>3, <2>4, NodesLeadToNodes
  <2>8. PICK key, value, val :
           object[l] = Object("Node", [key |-> key, value |-> value, next |-> Null], val)
    <3>1. object[l].ref.next = Null
      BY <2>3 DEF NextOf
    <3>2. /\ object[l] = Object(object[l].class, object[l].ref, object[l].val)
          /\ object[l].ref = [key |-> object[l].ref.key, value |-> object[l].ref.value,
                              next |-> object[l].ref.next]
      BY <2>7 DEF Formed
    <3>3. QED
      BY <2>7, <3>1, <3>2
  <2>9. /\ \A r \in Refs \ {l} : object'[r] = object[r]
        /\ object'[l] = Object("Node", [key |-> key, value |-> value, next |-> n], val)
    BY <1>3, <2>5, <2>7, <2>8 DEF Object
  <2>10. /\ object'[l].class = "Node" /\ NextOf(l)' = n
         /\ object'[l].val = object[l].val
         /\ object'[l].ref.key = object[l].ref.key
         /\ object'[l].ref.value = object[l].ref.value
    BY <2>8, <2>9 DEF Object, NextOf
  <2>11. \A r \in Refs : object'[r].class = object[r].class
    BY <2>7, <2>9, <2>10
  <2>12. Nodes' = Nodes
    BY <2>11 DEF Nodes
  <2>13. \A k \in Nodes \ {l} : NextOf(k)' = NextOf(k)
    BY <1>3, <2>9 DEF NextOf
  <2>14. \A k \in Nodes \cup {Null} :
            From(k)' = From(k) \cup (IF l \in From(k) THEN {n} ELSE {})
    BY <2>3, <2>4, <2>6, <2>10, <2>12, <2>13, ChainGrows
  <2>15. ASSUME NEW i \in 0 .. len - 1
         PROVE  From(object[t].ref[i])' = From(ref[i]) \cup (IF i = b THEN {n} ELSE {})
    <3>1. object'[t] = object[t]
      BY <1>3, <2>7, <2>9
    <3>2. PICK k \in Nodes \cup {Null} : k = ref[i]
      BY <1>1, <1>2
    <3>3. From(object[t].ref[i])' = From(k)'
      BY <1>2, <3>1, <3>2
    <3>4. l \in From(k) <=> i = b
      <4>1. i = b => l \in From(k)
        BY <2>3, <3>2
      <4>2. l \in From(k) => Bucket(t, object[l].val) = i
        BY <1>2, <3>2
      <4>3. Bucket(t, object[l].val) = b
        BY <1>2, <1>5, <2>3
      <4>4. QED
        BY <4>1, <4>2, <4>3
    <3>5. QED
      BY <2>14, <3>2, <3>3, <3>4
  <2>16. \A k \in Nodes : /\ object'[k].val = object[k].val
                          /\ object'[k].ref.key = object[k].ref.key
                          /\ object'[k].ref.value = object[k].ref.value
    BY <1>3, <2>9, <2>10
  <2>17. QED
    BY <1>2, <1>3, <1>5, <2>4, <2>6, <2>7, <2>9, <2>11, <2>15, <2>16 DEF LinksAt
<1>9. QED
  BY <1>7, <1>8

(* put() of a word that is not in the map. *)
LEMMA CountsNew ==
    ASSUME HeapInv, HeapInv', UNCHANGED inputVars, NEW t \in Tables, NEW m \in Nat,
           text \in Seq(Words), m + 1 <= Len(text), Counts(t, m),
           NEW n \in Nodes, NextOf(n) = Null, OnlyIn(n, {n}), Link(t, n),
           Key(n) = text[m + 1], text[m + 1] \notin WordsRead(m),
           object[n].val = hash[Key(n)],
           object[ValueOf(n)] = SizeT(1), OnlyIn(ValueOf(n), {n})
    PROVE  Counts(t, m + 1)'
<1>1. text' = text /\ hash' = hash
  BY DEF inputVars
<1>2. PICK ref, len, b : ref = object[t].ref /\ len = object[t].val
                         /\ b = Bucket(t, object[n].val)
  OBVIOUS
<1>3. \A i \in 0 .. object[t].val - 1 :
         \A k \in From(object[t].ref[i]) : Bucket(t, object[k].val) = i
  BY DEF Counts
<1>4. /\ b \in 0 .. len - 1 /\ object'[t].val = len
      /\ \A i \in 0 .. len - 1 :
            From(object[t].ref[i])' = From(ref[i]) \cup (IF i = b THEN {n} ELSE {})
      /\ \A k \in Nodes : /\ object'[k].val = object[k].val
                          /\ object'[k].ref.key = object[k].ref.key
                          /\ object'[k].ref.value = object[k].ref.value
      /\ \A r \in Refs \ (Nodes \cup {t}) : object'[r] = object[r]
  <2>1. b = Bucket(t, object[n].val)
    BY <1>2
  <2>2. LinksAt(t, n, b)
    BY <1>3, <2>1, LinkedChains
  <2>3. QED
    BY <1>2, <2>2 DEF LinksAt
<1>5. \A k : k \in NodesIn(t)' <=> k \in NodesIn(t) \/ k = n
  <2>1. \A k : k \in NodesIn(t) <=> \E i \in 0 .. len - 1 : k \in From(ref[i])
    BY <1>2, NodesAre
  <2>2. \A k : k \in NodesIn(t)' <=>
                  \E i \in 0 .. object'[t].val - 1 : k \in From(object[t].ref[i])'
    BY RestIsAfter DEF RestFact, NodesIn
  <2>3. \A k : k \in NodesIn(t)' <=> \E i \in 0 .. len - 1 : k \in From(object[t].ref[i])'
    BY <1>4, <2>2
  <2>4. ASSUME NEW k, NEW i \in 0 .. len - 1
        PROVE  k \in From(object[t].ref[i])' <=> k \in From(ref[i]) \/ (k = n /\ i = b)
    BY <1>4
  <2>5. b \in 0 .. len - 1
    BY <1>4
  <2>6. QED
    BY <2>1, <2>3, <2>4, <2>5
<1>6. NodesIn(t) \subseteq Nodes
  BY NodesAre
<1>7. \A k \in NodesIn(t) \cup {n} :
         /\ k \in InUse /\ ValueOf(k) \in InUse /\ ValueOf(k) \in Trace(k)
         /\ object[ValueOf(k)].class = "SizeT"
         /\ Of(object[k].ref.key, "String")
         /\ object'[ValueOf(k)] = object[ValueOf(k)]
         /\ Key(k)' = Key(k) /\ ValueOf(k)' = ValueOf(k)
         /\ object'[k].val = object[k].val
  <2>1. SUFFICES ASSUME NEW k \in Nodes
        PROVE  /\ k \in InUse /\ ValueOf(k) \in InUse /\ ValueOf(k) \in Trace(k)
               /\ object[ValueOf(k)].class = "SizeT"
               /\ Of(object[k].ref.key, "String")
               /\ object'[ValueOf(k)] = object[ValueOf(k)]
               /\ Key(k)' = Key(k) /\ ValueOf(k)' = ValueOf(k)
               /\ object'[k].val = object[k].val
    BY <1>6
  <2>2. k \in InUse /\ object[k].class = "Node" /\ Formed(k)
    BY NodesLeadToNodes
  <2>3. /\ Of(object[k].ref.key, "String") /\ Of(object[k].ref.value, "SizeT")
        /\ object[k].ref.value \in Trace(k)
    BY <2>2, TraceOfFormed DEF Formed
  <2>4. /\ object[k].ref.key \in Refs \ (Nodes \cup {t})
        /\ object[k].ref.value \in Refs \ (Nodes \cup {t})
    BY <2>3, TableIs DEF Of, InUse, Nodes
  <2>5. object'[object[k].ref.key] = object[object[k].ref.key]
        /\ object'[object[k].ref.value] = object[object[k].ref.value]
    BY <1>4, <2>4
  <2>6. QED
    BY <1>4, <2>2, <2>3, <2>5 DEF Key, ValueOf, Of
<1>8. n \notin NodesIn(t)
  BY NotInChains
<1>9. ASSUME NEW i \in 0 .. len - 1, NEW k \in From(object[t].ref[i])'
      PROVE  Bucket(t, object[k].val)' = i
  <2>1. \A l : Bucket(t, object[l].val)' = object'[l].val % len
    BY <1>4 DEF Bucket
  <2>2. \A l : Bucket(t, object[l].val) = object[l].val % len
    BY <1>2 DEF Bucket
  <2>3. CASE k \in From(ref[i])
    <3>1. k \in NodesIn(t)
      BY <1>2, <2>3, NodesAre
    <3>2. Bucket(t, object[k].val) = i
      BY <1>2, <1>3, <2>3
    <3>3. QED
      BY <1>7, <2>1, <2>2, <3>1, <3>2
  <2>4. CASE k = n /\ i = b
    <3>1. Bucket(t, object[n].val) = b
      BY <1>2
    <3>2. QED
      BY <1>7, <2>1, <2>2, <2>4, <3>1
  <2>5. QED
    BY <1>4, <1>9, <2>3, <2>4
<1>10. \A i \in 0 .. object'[t].val - 1 :
         \A k \in From(object[t].ref[i])' : Bucket(t, object[k].val)' = i
  BY <1>4, <1>9
<1>11. \A w : /\ Occurrences(w, m) \in Nat
              /\ w \notin WordsRead(m) => Occurrences(w, m) = 0
              /\ Occurrences(w, m + 1)' =
                    Occurrences(w, m) + (IF w = text[m + 1] THEN 1 ELSE 0)
  <2>1. \A w : Occurrences(w, m + 1)' = Occurrences(w, m + 1)
    BY <1>1 DEF Occurrences
  <2>2. QED
    BY <2>1, OneWordMore
<1>12. {Key(k) : k \in NodesIn(t)} = WordsRead(m)
  BY DEF Counts
<1>13. ASSUME NEW k \in NodesIn(t)'
       PROVE  /\ object'[k].val = hash'[Key(k)']
              /\ object'[ValueOf(k)'] = SizeT(Occurrences(Key(k), m + 1))'
  <2>1. PICK w : w = Key(k)
    OBVIOUS
  <2>2. CASE k \in NodesIn(t)
    <3>1. object[k].val = hash[w] /\ object[ValueOf(k)] = SizeT(Occurrences(w, m))
      BY <2>1, <2>2 DEF Counts
    <3>2. w \in WordsRead(m)
      BY <1>12, <2>1, <2>2
    <3>3. Occurrences(w, m + 1)' = Occurrences(w, m)
      BY <1>11, <3>2
    <3>4. Occurrences(Key(k), m + 1)' = Occurrences(w, m)
      <4>1. Key(k)' = w
        BY <1>7, <2>1, <2>2
      <4>2. QED
        BY <3>3, <4>1 DEF Occurrences
    <3>5. QED
      BY <1>1, <1>7, <2>1, <2>2, <3>1, <3>4 DEF SizeT
  <2>3. CASE k = n
    <3>1. Occurrences(w, m + 1)' = 1
      BY <1>11, <2>1, <2>3
    <3>2. Occurrences(Key(k), m + 1)' = 1
      <4>1. Key(k)' = w
        BY <1>7, <2>1, <2>3
      <4>2. QED
        BY <3>1, <4>1 DEF Occurrences
    <3>3. QED
      BY <1>1, <1>7, <2>1, <2>3, <3>2 DEF SizeT
  <2>4. QED
    BY <1>5, <2>2, <2>3
<1>14. ASSUME NEW k \in NodesIn(t)', NEW l \in NodesIn(t)',
              Key(k)' = Key(l)' \/ ValueOf(k)' = ValueOf(l)'
       PROVE  k = l
  <2>1. \A j \in NodesIn(t) : Key(j) # Key(n) /\ ValueOf(j) # ValueOf(n)
    <3>1. \A j \in NodesIn(t) : Key(j) \in WordsRead(m)
      BY <1>12
    <3>2. \A j \in NodesIn(t) : ValueOf(j) # ValueOf(n)
      BY <1>7, <1>8 DEF OnlyIn
    <3>3. QED
      BY <3>1, <3>2
  <2>2. \A i, j \in NodesIn(t) : Key(i) = Key(j) \/ ValueOf(i) = ValueOf(j) => i = j
    BY DEF Counts
  <2>3. k \in NodesIn(t) \cup {n} /\ l \in NodesIn(t) \cup {n}
    BY <1>5
  <2>4. Key(k) = Key(l) \/ ValueOf(k) = ValueOf(l)
    BY <1>7, <1>14, <2>3
  <2>5. QED
    BY <2>1, <2>2, <2>3, <2>4
<1>15. {Key(k) : k \in NodesIn(t)}' = WordsRead(m + 1)'
  <2>1. WordsRead(m + 1)' = WordsRead(m) \cup {text[m + 1]}
    <3>1. WordsRead(m + 1)' = WordsRead(m + 1)
      BY <1>1 DEF WordsRead
    <3>2. QED
      BY <3>1, OneWordMore
  <2>2. \A k \in NodesIn(t) \cup {n} : Key(k)' = Key(k)
    BY <1>7
  <2>3. PICK S, T : S = NodesIn(t) /\ T = NodesIn(t)'
    OBVIOUS
  <2>4. T = S \cup {n}
    BY <1>5, <2>3
  <2>5. {Key(k)' : k \in T} = {Key(k) : k \in S} \cup {Key(n)}
    BY <2>2, <2>3, <2>4
  <2>6. QED
    BY <1>12, <2>1, <2>3, <2>5
<1>16. QED
  BY <1>10, <1>13, <1>14, <1>15 DEF Counts

(* A new map has no words. *)
EmptyFact ==
    \A m : /\ Of(m, "HashMap") /\ object[m].val = 0
           /\ object[object[m].ref.table] = Array(ARRAY_SIZE)
           => MapHolds(m, 0, 0)

LEMMA EmptyMap == HeapInv => EmptyFact
<1> SUFFICES ASSUME HeapInv, NEW m, Of(m, "HashMap"), object[m].val = 0,
                    object[object[m].ref.table] = Array(ARRAY_SIZE)
             PROVE  MapHolds(m, 0, 0)
  BY DEF EmptyFact
<1>1. PICK t : t = object[m].ref.table
  OBVIOUS
<1>2. t \in Tables
  BY <1>1, TableOf
<1>3. /\ object[t].val = ARRAY_SIZE
      /\ \A i \in 0 .. object[t].val - 1 : object[t].ref[i] = Null
  <2>1. PICK f : f = [i \in 0 .. ARRAY_SIZE - 1 |-> Null]
    OBVIOUS
  <2>2. object[t] = Object("Array", f, ARRAY_SIZE)
    BY <1>1, <2>1 DEF Array
  <2>3. object[t].val = ARRAY_SIZE /\ object[t].ref = f
    BY <2>2 DEF Object
  <2>4. QED
    BY <2>1, <2>3
<1>4. From(Null) = {}
  BY ChainsAre DEF ChainFacts
<1>5. \A i \in 0 .. object[t].val - 1 : From(object[t].ref[i]) = {}
  BY <1>3, <1>4
<1>6. NodesIn(t) = {}
  BY <1>2, <1>5, NodesAre
<1>7. WordsRead(0) = {}
  <2>1. 1 .. 0 = {}
    OBVIOUS
  <2>2. QED
    BY <2>1 DEF WordsRead
<1>8. Counts(t, 0)
  BY <1>5, <1>6, <1>7 DEF Counts
<1>9. Cardinality(WordsRead(0)) = 0
  BY <1>7, FS_EmptySet
<1>10. QED
  BY <1>1, <1>8, <1>9 DEF MapHolds

LEMMA EmptyMapAfter == HeapInv' => EmptyFact'
BY EmptyMap, PTL

(* HashMap::get() finds the node of a word. *)
LEMMA GetFinds ==
    ASSUME HeapInv, hash \in [Words -> Hashes], NEW m, Of(m, "HashMap"), NEW n,
           NEW t, t = object[m].ref.table, Counts(t, n),
           NEW w \in Words
    PROVE  /\ w \notin WordsRead(n) => Get(m, w, hash[w]) = Null
           /\ w \in WordsRead(n) =>
                 \E k \in NodesIn(t) : Key(k) = w /\ Get(m, w, hash[w]) = ValueOf(k)
<1>0. PICK h \in Nat : h = hash[w]
  BY CountAssumption
<1>1. t \in Tables
  BY TableOf
<1> DEFINE head == object[t].ref[Bucket(t, h)]
           chain == Chain[head]
           found == {i \in DOMAIN chain :
                        /\ object[chain[i]].val = h
                        /\ object[object[chain[i]].ref.key].val = w}
<1>2. Get(m, w, h) = IF found = {} THEN Null ELSE object[chain[Min(found)]].ref.value
  BY Zenon DEF Get
<1>3. /\ Bucket(t, h) \in 0 .. object[t].val - 1 /\ head \in Nodes \cup {Null}
      /\ \A k \in Nodes : k \in InUse /\ NextOf(k) \in Nodes \cup {Null}
  <2>1. /\ Bucket(t, h) \in DOMAIN object[t].ref /\ head \in Nodes \cup {Null}
        /\ \A k \in Nodes : k \in InUse /\ NextOf(k) \in Nodes \cup {Null}
    BY <1>1, BucketHolds
  <2>2. DOMAIN object[t].ref = 0 .. object[t].val - 1
    BY <1>1, TableIs
  <2>3. QED
    BY <2>1, <2>2
<1>4. \A k : k \in From(head) <=> \E i \in DOMAIN chain : k = chain[i]
  BY Zenon DEF From, Range
<1>5. chain \in Seq(Nodes)
  BY <1>3, ChainHasEnd DEF HeapInv
<1>6. From(head) \subseteq NodesIn(t)
  BY <1>1, <1>3, NodesAre
<1>7. ASSUME NEW k \in NodesIn(t), Key(k) = w PROVE k \in From(head)
  <2>1. object[k].val = h
    BY <1>0, <1>7 DEF Counts
  <2>2. PICK i \in 0 .. object[t].val - 1 : k \in From(object[t].ref[i])
    BY <1>1, NodesAre
  <2>3. Bucket(t, object[k].val) = i
    BY <2>2 DEF Counts
  <2>4. QED
    BY <2>1, <2>2, <2>3
<1>8. \A k \in NodesIn(t) : object[k].val = hash[Key(k)]
  BY DEF Counts
<1>9. {Key(k) : k \in NodesIn(t)} = WordsRead(n)
  BY DEF Counts
<1>10. found \in SUBSET Nat /\ found \subseteq DOMAIN chain
  <2>1. DOMAIN chain \subseteq Nat
    <3> HIDE DEF chain
    <3>1. QED
      BY <1>5
  <2>2. found \subseteq DOMAIN chain
    BY Zenon
  <2> HIDE DEF found
  <2>3. QED
    BY <2>1, <2>2
<1>11. \A i : i \in found <=> /\ i \in DOMAIN chain
                              /\ object[chain[i]].val = h /\ Key(chain[i]) = w
  BY Zenon DEF Key
<1> HIDE DEF chain, head, found
<1>12. CASE found = {}
  <2>1. w \notin WordsRead(n)
    <3>1. SUFFICES ASSUME w \in WordsRead(n) PROVE FALSE
      OBVIOUS
    <3>2. PICK k \in NodesIn(t) : Key(k) = w
      BY <1>9, <3>1
    <3>3. PICK i \in DOMAIN chain : k = chain[i]
      BY <1>4, <1>7, <3>2
    <3>4. i \in found
      BY <1>0, <1>8, <1>11, <3>2, <3>3
    <3>5. QED
      BY <1>12, <3>4
  <2>2. QED
    BY <1>0, <1>2, <1>12, <2>1
<1>13. CASE found # {}
  <2>1. Min(found) \in found
    BY <1>10, <1>13, MinIsLeast
  <2>2. PICK k : k = chain[Min(found)]
    OBVIOUS
  <2>3. k \in NodesIn(t) /\ Key(k) = w
    BY <1>4, <1>6, <1>11, <2>1, <2>2
  <2>4. w \in WordsRead(n)
    BY <1>9, <2>3
  <2>5. Get(m, w, hash[w]) = ValueOf(k)
    BY <1>0, <1>2, <1>13, <2>2 DEF ValueOf
  <2>6. QED
    BY <2>3, <2>4, <2>5
<1>14. QED
  BY <1>12, <1>13

-----------------------------------------------------------------------------
(* What the steps leave as it was.                                         *)

Same(K) == Fixed(K) /\ \A r \in K : object'[r] = object[r]

(* What the Handles lead to is in K. *)
Holds(K) == \A i \in DOMAIN slots : slots[i] \in InUse => slots[i] \in K

LEMMA QuietSame ==
    ASSUME UNCHANGED <<object, inputVars>>
    PROVE  Same(InUse) /\ Holds(InUse) /\ InUse' = InUse
<1>1. InUse' = InUse
  BY DEF InUse
<1>2. QED
  BY <1>1 DEF Same, Fixed, Carried, Holds

(* Objects of other classes may change without a trace in the map. *)
LEMMA OthersMayChange ==
    ASSUME UNCHANGED inputVars, InUse' = InUse, NEW X, X \subseteq InUse,
           \A r \in Refs \ X : object'[r] = object[r],
           \A r \in X : /\ object'[r].class = object[r].class
                        /\ object[r].class \notin {"Node", "String", "SizeT"}
                        /\ r \notin Tables
    PROVE  Fixed(InUse)
<1>1. \A r \in InUse : r \in Refs
  BY DEF InUse
<1>2. \A r \in InUse : /\ object'[r].class = object[r].class
                       /\ object[r].class \in {"Node", "String", "SizeT"} \/ r \in Tables
                             => object'[r] = object[r]
  BY <1>1
<1>3. QED
  BY <1>2 DEF Fixed, Carried

LEMMA RootedAtAlloc ==
    ASSUME StackInv, ObjectsInv, pc \in Allocations
    PROVE  Rooted(raw)
<1>1. pc # "undefined" /\ (raw \in RawFrom(pc) \/ Lost(raw)) /\ HeapInv /\ SlotsInv
  BY DEF Allocations, ObjectsInv, PlaceInv
<1>2. raw \in Reachable \cup {Null} => Rooted(raw)
  BY DEF Rooted
<1>3. Lost(raw) => Rooted(raw)
  BY DEF Rooted
<1>4. \A i \in DOMAIN slots : slots[i] \in Reachable
  BY <1>1, WhatIsReached
<1>5. CASE pc \in {"make_table", "make_map"}
  BY <1>1, <1>2, <1>3, <1>5 DEF RawFrom
<1>6. CASE pc \in {"make_size", "read_word", "make_node", "make_iter", "make_array",
                   "make_vector"}
  <2>1. {"map", "hashMap"} \cap Frame(pc).names # {}
    BY <1>6 DEF Frame, FrameOf, InParse
  <2>2. 1 \in DOMAIN slots
    BY <1>1, <2>1, NamesHaveSlots DEF Slot
  <2>3. RawFrom(pc) \subseteq {Null, slots[1]}
    BY <1>6 DEF RawFrom
  <2>4. QED
    BY <1>1, <1>2, <1>3, <1>4, <2>2, <2>3
<1>7. CASE pc = "make_larger"
  <2>1. "vector" \in Frame(pc).names
    BY <1>7 DEF Frame, FrameOf, InPush, InLoop, InCount
  <2>2. 3 \in DOMAIN slots
    BY <1>1, <2>1, NamesHaveSlots DEF Slot
  <2>3. RawFrom(pc) = {slots[3]}
    BY <1>7 DEF RawFrom
  <2>4. QED
    BY <1>1, <1>2, <1>3, <1>4, <2>2, <2>3
<1>8. CASE pc = "make_pair"
  <2>1. "curr" \in Frame(pc).names
    BY <1>8 DEF Frame, FrameOf, InCount
  <2>2. 4 \in DOMAIN slots /\ IsA(slots[4], "Node")
    BY <1>1, <2>1, NamesHaveSlots, ReadsAre DEF Slot, ClassOf
  <2>3. PICK c : c = slots[4]
    OBVIOUS
  <2>4. c \in InUse /\ object[c].class = "Node" /\ Formed(c)
    BY <1>1, <2>2, <2>3 DEF IsA, Of, HeapInv
  <2>5. object[c].ref.value \in Trace(c) /\ object[c].ref.value \in InUse
    BY <2>4, TraceOfFormed DEF Formed, Of
  <2>6. c \in Reachable \ {Stale} /\ Null \notin InUse
    BY <1>4, <2>2, <2>3, <2>4, RefsAssumption DEF InUse
  <2>7. object[c].ref.value \in Reachable
    BY <1>1, <2>5, <2>6, WhatIsReached
  <2>8. RawFrom(pc) = {object[c].ref.value}
    BY <1>8, <2>3 DEF RawFrom
  <2>9. QED
    BY <1>1, <1>2, <1>3, <2>7, <2>8
<1>9. QED
  BY <1>5, <1>6, <1>7, <1>8 DEF Allocations

(* An allocation keeps what the Handles lead to. *)
LEMMA AllocSame ==
    ASSUME StackInv, ObjectsInv, pc \in Allocations, NEW obj, obj.class # "Free", Alloc(obj),
           UNCHANGED inputVars
    PROVE  /\ object'[oop'] = obj /\ oop' \in InUse' /\ OnlyIn(oop, {oop})'
           /\ raw' = raw \/ Lost(raw)'
           /\ \E K : /\ Same(K) /\ Holds(K) /\ InUse' = K \cup {oop'} /\ oop' \notin K
                     /\ Reachable \ {Stale} \subseteq K
<1>1. HeapInv /\ SlotsInv /\ Rooted(raw)
  BY RootedAtAlloc DEF ObjectsInv
<1>2. obj # Free
  BY DEF Free, Object
<1>3. PICK K : /\ Keeps(K) /\ Reachable \ {Stale} \subseteq K
               /\ InUse' = K \cup {oop'} /\ oop' \in Refs \ K
  BY <1>1, <1>2, AllocKeeps
<1>4. object'[oop'] = obj /\ oop' \in InUse' /\ (raw' = raw \/ Lost(raw)')
  BY <1>1, <1>2, AfterAlloc
<1>5. OnlyIn(oop, {oop})'
  <2>1. \A r \in InUse' \ {oop'} : oop' \notin Trace(r)'
    BY <1>1, <1>2, AfterAlloc
  <2>2. QED
    BY <2>1 DEF OnlyIn
<1>6. Same(K)
  BY <1>3 DEF Same, Fixed, Carried, Keeps
<1>7. Holds(K)
  BY <1>1, <1>3, WhatIsReached, RefsAssumption DEF Holds, InUse
<1>8. QED
  BY <1>3, <1>4, <1>5, <1>6, <1>7

Ends(saved) == saved # <<>> => Len(saved) \in DOMAIN saved

LEMMA SavedEnd ==
    /\ Ends(<<>>) /\ Ends(<<0>>) /\ Ends(<<0, 0>>) /\ Ends(<<0, 0, 0>>)
    /\ Ends(<<0, 0, 1>>) /\ Ends(<<0, 0, 1, 2>>) /\ Ends(<<0, 2>>)
    /\ Ends(<<0, 3>>) /\ Ends(<<0, 3, 6>>)
BY DEF Ends

LEMMA FramesEnd ==
    ASSUME NEW l \in Places \ {"undefined"} PROVE Ends(Frame(l).saved)
BY SavedEnd DEF Places, Allocations, Frame, FrameOf

LEMMA MarksInScope ==
    ASSUME NEW l \in Places \ {"undefined", "count", "done"} PROVE Frame(l).saved # <<>>
BY DEF Places, Allocations, Frame, FrameOf

(* The Handles that are there before and after a step are the same. *)
LEMMA SlotsBelow ==
    ASSUME StackInv, pc \notin {"undefined", "count", "done"},
           slots' = slots \/ (\E h, p : Push(h, p)) \/ Leave
    PROVE  \A i \in DOMAIN slots : i <= Len(slots') => slots'[i] = slots[i]
<1>1. /\ Len(slots) \in Frame(pc).used /\ marks = Frame(pc).saved
      /\ Len(slots) \in Nat /\ DOMAIN slots = 1 .. Len(slots)
  BY DepthIs
<1>2. CASE \E h, p : Push(h, p)
  BY <1>1, <1>2, SlotsKept
<1>3. CASE Leave
  <2>1. Fit(marks, Len(slots))
    BY <1>1, FramesFit DEF StackInv
  <2>2. PICK k : k = Last(marks)
    OBVIOUS
  <2>3. k \in 0 .. Len(slots)
    <3>1. Ends(marks)
      BY <1>1, FramesEnd DEF StackInv
    <3>2. QED
      BY <1>1, <2>1, <2>2, <3>1, MarksInScope DEF Fit, Last, Ends, StackInv
  <2>4. slots' = SubSeq(slots, 1, k) /\ slots \in Seq(Range(slots))
    BY <1>3, <2>2 DEF Leave, StackInv, StackTypeOK
  <2>5. ASSUME NEW i \in DOMAIN slots, i <= Len(slots') PROVE slots'[i] = slots[i]
    <3>1. \A s \in Seq(Range(slots)) :
             k <= Len(s) => /\ Len(SubSeq(s, 1, k)) = k
                            /\ \A j \in 1 .. k : SubSeq(s, 1, k)[j] = s[j]
      BY <2>3
    <3>2. Len(slots') = k /\ \A j \in 1 .. k : slots'[j] = slots[j]
      BY <2>3, <2>4, <3>1
    <3>3. i \in 1 .. k
      BY <1>1, <2>3, <2>5, <3>2
    <3>4. QED
      BY <3>2, <3>3
  <2>6. QED
    BY <2>5
<1>4. QED
  BY <1>2, <1>3

(* What a step may do to the heap and to the stack. *)
Updates == {"put_table", "link", "update_value", "init_iter", "init_pair", "store",
            "copy_to", "has_next"}

StepFact ==
    /\ UNCHANGED inputVars /\ (pos' = pos \/ pc = "read_word")
    /\ slots' = slots \/ (\E h, p : Push(h, p)) \/ Leave
    /\ \/ UNCHANGED object
       \/ pc \in Allocations /\ \E obj : obj.class # "Free" /\ Alloc(obj)
       \/ pc \in Updates

LEMMA StepKinds ==
    ASSUME Next, pc \notin {"done", "undefined"}, pc' # "undefined"
    PROVE  StepFact
<1>1. /\ \A n : Array(n).class # "Free" /\ SizeT(n).class # "Free" /\ String(n).class # "Free"
      /\ \A p : /\ HashMap(p).class # "Free" /\ Vector(p).class # "Free"
               /\ HashMapIterator(p).class # "Free"
      /\ \A p, q, h : Node(p, q, h).class # "Free"
      /\ \A p, q : Pair(p, q).class # "Free"
  BY DEF Array, SizeT, String, HashMap, Vector, HashMapIterator, Node, Pair, Object
<1>2. \A l, h, p, next : MakeHandle(l, h, p, next) =>
         (\E g, q : Push(g, q)) /\ UNCHANGED inputVars
  BY DEF MakeHandle, Goto
<1>3. \A l, obj, next : New(l, obj, next) =>
         pc = l /\ Alloc(obj) /\ UNCHANGED inputVars /\ pos' = pos
  BY DEF New, At, Goto, countVars
<1> USE DEF Goto, At, stackVars, heapVars, countVars
<1>4. CASE HashMapMake
  BY <1>1, <1>2, <1>3, <1>4 DEF HashMapMake, StepFact, Allocations, Updates
<1>5. CASE Put
  <2>1. PICK node : node = Node(Read("h_key"), Read("h_value"), hash[object[Read("h_key")].val])
    OBVIOUS
  <2>2. node.class # "Free"
    BY <1>1, <2>1
  <2>3. \/ \E l, h, p, next : MakeHandle(l, h, p, next) /\ UNCHANGED object /\ pos' = pos
        \/ \E h, p, next : MakeHandle("put_table", h, p, next) /\ pos' = pos
        \/ New("make_node", node, "link") /\ UNCHANGED stackVars
        \/ At("link") /\ Leave /\ UNCHANGED countVars /\ Goto("put_done")
    BY <1>5, <2>1, Zenon DEF Put
  <2>4. CASE \E l, h, p, next : MakeHandle(l, h, p, next) /\ UNCHANGED object /\ pos' = pos
    BY <1>2, <2>4 DEF StepFact
  <2>5. CASE \E h, p, next : MakeHandle("put_table", h, p, next) /\ pos' = pos
    BY <1>2, <2>5 DEF StepFact, Updates, MakeHandle
  <2>6. CASE New("make_node", node, "link") /\ UNCHANGED stackVars
    BY <1>3, <2>2, <2>6 DEF StepFact, Allocations
  <2>7. CASE At("link") /\ Leave /\ UNCHANGED countVars /\ Goto("put_done")
    BY <2>7 DEF StepFact, Updates
  <2>8. QED
    BY <2>3, <2>4, <2>5, <2>6, <2>7
<1>6. CASE MakeIterator
  BY <1>1, <1>2, <1>3, <1>6 DEF MakeIterator, StepFact, Allocations, Updates
<1>7. CASE VectorMake
  BY <1>1, <1>2, <1>3, <1>7 DEF VectorMake, StepFact, Allocations, Updates
<1>8. CASE PairMake
  BY <1>1, <1>2, <1>3, <1>8 DEF PairMake, StepFact, Allocations, Updates
<1>9. CASE PushBack
  BY <1>1, <1>2, <1>3, <1>9 DEF PushBack, StepFact, Allocations, Updates
<1>10. CASE ResizeVector
  BY <1>1, <1>2, <1>3, <1>10 DEF ResizeVector, StepFact, Allocations, Updates
<1>11. CASE UpdateValue
  BY <1>1, <1>2, <1>3, <1>11 DEF UpdateValue, StepFact, Allocations, Updates
<1>12. CASE ParseFile
  BY <1>1, <1>2, <1>3, <1>12 DEF ParseFile, StepFact, Allocations, Updates
<1>13. CASE Count
  BY <1>1, <1>2, <1>3, <1>13 DEF Count, StepFact, Allocations, Updates
<1>14. CASE LoseTrack
  BY <1>14 DEF LoseTrack
<1>15. CASE Stopped
  BY <1>15 DEF Stopped
<1>16. QED
  BY <1>4, <1>5, <1>6, <1>7, <1>8, <1>9, <1>10, <1>11, <1>12, <1>13, <1>14, <1>15 DEF Next

-----------------------------------------------------------------------------
(* The map has just the words that have been read.                         *)

LEMMA NotPending == \A l : l \notin Pending => WordAt(l)
BY DEF WordAt, Pending, Making

(* A map that a step carries over holds what it held. *)
LEMMA MapGoesOn ==
    ASSUME ObjectsInv, ObjectsInv', NEW K, Fixed(K), NEW m \in K, Of(m, "HashMap"),
           object'[m] = object[m]
    PROVE  \A n, more : MapHolds(m, n, more) => MapHolds(m, n, more)'
<1>1. SUFFICES ASSUME NEW n, NEW more, MapHolds(m, n, more) PROVE MapHolds(m, n, more)'
  OBVIOUS
<1>2. HeapInv /\ HeapInv'
  BY DEF ObjectsInv
<1>3. QED
  BY <1>1, <1>2, MapCarried

(* Before it is made. *)
LEMMA HashMapMakeParse ==
    ASSUME StackInv, StackInv', ObjectsInv, ObjectsInv', ParseInv, HashMapMake PROVE ParseInv'
<1> USE NotPending DEF Pending, Making, Early, Parsing, Counting, Filling, Looping,
                       Visiting, Pairing, Pushing
<1>1. CASE /\ pc \in {"make_table", "own_table"} /\ pc' \in {"own_table", "make_map"}
           /\ UNCHANGED <<inputVars, pos>>
  <2>1. pos' = 0
    BY <1>1 DEF ParseInv, MapAt
  <2>2. WordAt(pc)'
    BY <1>1 DEF WordAt
  <2>3. QED
    BY <1>1, <2>1, <2>2 DEF ParseInv, MapAt
<1>2. CASE /\ pc = "make_map" /\ pc' = "own_map" /\ Alloc(HashMap(Read("tab")))
           /\ UNCHANGED <<inputVars, pos>>
  <2>1. pos' = 0
    BY <1>2 DEF ParseInv, MapAt
  <2>2. Read("tab") = slots[1] /\ object[slots[1]] = Array(ARRAY_SIZE) /\ slots[1] \in InUse
        /\ 1 \in DOMAIN slots
    <3>1. "tab" \in Frame(pc).names
      BY <1>2 DEF Frame, FrameOf
    <3>2. Read("tab") = slots[1] /\ slots[1] \in InUse /\ 1 \in DOMAIN slots
      BY <1>2, <3>1, ReadsAre DEF Slot, ClassOf, IsA, Of
    <3>3. QED
      BY <1>2, <3>2 DEF ObjectsInv, PlaceInv, SlotsAt
  <2>3. PICK p, obj : p = slots[1] /\ obj = HashMap(p)
    OBVIOUS
  <2>4. obj.class = "HashMap" /\ obj.val = 0 /\ obj.ref.table = p
    BY <2>3 DEF HashMap, Object
  <2>5. /\ object'[oop'] = obj /\ oop' \in InUse'
        /\ \E K : Same(K) /\ Holds(K)
    BY <1>2, <2>2, <2>3, <2>4, AllocSame DEF Allocations
  <2>6. object'[p] = Array(ARRAY_SIZE)
    BY <2>2, <2>3, <2>5 DEF Same, Holds
  <2>7. MapHolds(oop, 0, 0)'
    <3>1. PICK q : q = oop'
      OBVIOUS
    <3>2. Of(q, "HashMap")'
      BY <2>4, <2>5, <3>1 DEF Of
    <3>3. object'[q].val = 0 /\ object'[object'[q].ref.table] = Array(ARRAY_SIZE)
      BY <2>4, <2>5, <2>6, <3>1
    <3>4. Array(ARRAY_SIZE)' = Array(ARRAY_SIZE)
      BY DEF Array, Object
    <3>5. MapHolds(q, 0, 0)'
      BY <3>2, <3>3, <3>4, EmptyMapAfter DEF EmptyFact, ObjectsInv
    <3>6. QED
      BY <3>1, <3>5
  <2>8. WordAt(pc)'
    BY <1>2 DEF WordAt
  <2>9. QED
    BY <1>2, <2>1, <2>7, <2>8 DEF ParseInv, MapAt
<1>3. QED
  BY <1>1, <1>2 DEF HashMapMake, New, MakeHandle, At, Goto, countVars

(* put(), as far as link() *)
LEMMA PutParse ==
    ASSUME StackInv, StackInv', ObjectsInv, ObjectsInv', ParseInv, Put PROVE ParseInv'
<1> USE DEF Pending, Making, Early, Parsing, Counting, Filling, Looping,
            Visiting, Pairing, Pushing
<1>1. CASE /\ pc = "put" /\ pc' = "put_value" /\ Push("h_key", Read("str"))
           /\ UNCHANGED <<inputVars, pos, object, oop>>
  <2>1. /\ Len(slots) = 2 /\ Read("str") = slots[2]
        /\ slots'[1] = slots[1] /\ slots'[2] = slots[2] /\ slots'[3] = slots[2]
        /\ IsA(slots[1], "HashMap")
    BY <1>1, DepthIs, ReadsAre, SlotsKept DEF Frame, FrameOf, InParse, Slot, ClassOf
  <2>2. Same(InUse) /\ InUse' = InUse
    BY <1>1, QuietSame
  <2>3. MapHolds(slots[1], pos - 1, 0)
    BY <1>1 DEF ParseInv, MapAt
  <2>4. MapHolds(slots[1], pos - 1, 0)'
    <3>1. PICK m : m = slots[1]
      OBVIOUS
    <3>2. MapHolds(m, pos - 1, 0)'
      BY <1>1, <2>1, <2>2, <2>3, <3>1, MapGoesOn DEF Same, IsA, Of
    <3>3. QED
      BY <1>1, <2>1, <3>1, <3>2
  <2>5. /\ pos >= 1 /\ object[slots[2]].val = text[pos] /\ text[pos] \notin WordsRead(pos - 1)
        /\ object[oop] = SizeT(1) /\ OnlyIn(oop, {})
    BY <1>1 DEF ParseInv, WordAt
  <2>6. OnlyIn(oop, {})'
    BY <1>1, <2>2, <2>5 DEF OnlyIn, Trace
  <2>7. WordAt(pc)'
    BY <1>1, <2>1, <2>5, <2>6 DEF WordAt, inputVars, WordsRead, SizeT, Object
  <2>8. QED
    BY <1>1, <2>4, <2>7 DEF ParseInv, MapAt
<1>2. CASE /\ pc = "put_value" /\ pc' = "put_table" /\ Push("h_value", oop)
           /\ UNCHANGED <<inputVars, pos, object, oop>>
  <2>1. /\ Len(slots) = 3 /\ slots'[4] = oop
        /\ slots'[1] = slots[1] /\ slots'[2] = slots[2] /\ slots'[3] = slots[3]
        /\ IsA(slots[1], "HashMap")
    BY <1>2, DepthIs, ReadsAre, SlotsKept DEF Frame, FrameOf, InParse, Slot, ClassOf
  <2>2. Same(InUse) /\ InUse' = InUse
    BY <1>2, QuietSame
  <2>3. MapHolds(slots[1], pos - 1, 0)
    BY <1>2 DEF ParseInv, MapAt
  <2>4. MapHolds(slots[1], pos - 1, 0)'
    <3>1. PICK m : m = slots[1]
      OBVIOUS
    <3>2. MapHolds(m, pos - 1, 0)'
      BY <1>2, <2>1, <2>2, <2>3, <3>1, MapGoesOn DEF Same, IsA, Of
    <3>3. QED
      BY <1>2, <2>1, <3>1, <3>2
  <2>5. /\ pos >= 1 /\ object[slots[2]].val = text[pos] /\ text[pos] \notin WordsRead(pos - 1)
        /\ object[oop] = SizeT(1) /\ OnlyIn(oop, {}) /\ slots[3] = slots[2]
    BY <1>2 DEF ParseInv, WordAt
  <2>6. OnlyIn(slots[4], {})'
    BY <1>2, <2>1, <2>2, <2>5 DEF OnlyIn, Trace
  <2>7. WordAt(pc)'
    BY <1>2, <2>1, <2>5, <2>6 DEF WordAt, inputVars, WordsRead, SizeT, Object
  <2>8. QED
    BY <1>2, <2>4, <2>7 DEF ParseInv, MapAt
<1>3. CASE /\ pc = "put_table" /\ pc' = "make_node" /\ Push("h_table", object[raw].ref.table)
           /\ raw # Stale /\ object' = [object EXCEPT ![raw].val = @ + 1]
           /\ UNCHANGED <<inputVars, pos, oop>>
  <2>1. /\ Len(slots) = 4 /\ DOMAIN slots = 1 .. 4
        /\ \A i \in 1 .. 4 : slots'[i] = slots[i]
        /\ IsA(slots[1], "HashMap") /\ IsA(slots[2], "String") /\ IsA(slots[4], "SizeT")
    <3>1. Frame(pc) = FrameOf(<<0, 0, 1, 2>>, {4}, InParse \cup {"h_key", "h_value"})
      BY <1>3 DEF Frame
    <3>2. Len(slots) = 4 /\ DOMAIN slots = 1 .. 4
      BY <1>3, <3>1, DepthIs DEF FrameOf
    <3>3. \A i \in 1 .. 4 : slots'[i] = slots[i]
      BY <1>3, <3>2, SlotsKept
    <3>4. IsA(slots[1], "HashMap") /\ IsA(slots[2], "String") /\ IsA(slots[4], "SizeT")
      BY <1>3, <3>1, ReadsAre DEF FrameOf, InParse, Slot, ClassOf
    <3>5. QED
      BY <3>2, <3>3, <3>4
  <2>2. raw = slots[1]
    BY <1>3 DEF ObjectsInv, PlaceInv, RawFrom, Lost
  <2>3. PICK m, t : m = slots[1] /\ t = object[m].ref.table
    OBVIOUS
  <2>4. /\ m \in InUse /\ m \in Refs /\ object[m].class = "HashMap"
        /\ object[m] = Object("HashMap", [table |-> t], object[m].val)
        /\ DOMAIN object = Refs /\ t \in Tables /\ t \in InUse /\ object[t].class = "Array"
    <3>1. m \in InUse /\ object[m].class = "HashMap" /\ Of(m, "HashMap") /\ HeapInv
      BY <2>1, <2>3 DEF IsA, Of, ObjectsInv
    <3>2. Formed(m) /\ t \in Tables
      BY <2>3, <3>1, TableOf DEF HeapInv
    <3>3. object[m].ref = [table |-> t]
      BY <2>3, <3>1, <3>2 DEF Formed
    <3>4. object[m] = Object(object[m].class, object[m].ref, object[m].val)
      BY <3>2 DEF Formed
    <3>5. QED
      BY <3>1, <3>2, <3>3, <3>4, TableIs DEF HeapInv, InUse
  <2>5. /\ \A r \in Refs \ {m} : object'[r] = object[r]
        /\ object'[m] = Object("HashMap", [table |-> t], object[m].val + 1)
    BY <1>3, <2>2, <2>3, <2>4 DEF Object
  <2>6. /\ object'[m].class = "HashMap" /\ object'[m].val = object[m].val + 1
        /\ object'[m].ref = object[m].ref /\ object'[m].ref.table = t /\ object'[m] # Free
    BY <2>4, <2>5 DEF Object, Free
  <2>7. InUse' = InUse
    BY <2>4, <2>5, <2>6 DEF InUse
  <2>8. \A r \in Tables : object[r].class = "Array"
    BY TableIs DEF ObjectsInv
  <2>9. Fixed(InUse)
    <3>1. PICK X : X = {m}
      OBVIOUS
    <3>2. \A r \in X : /\ object'[r].class = object[r].class
                       /\ object[r].class \notin {"Node", "String", "SizeT"} /\ r \notin Tables
      BY <2>4, <2>6, <2>8, <3>1
    <3>3. QED
      BY <1>3, <2>4, <2>5, <2>7, <3>1, <3>2, OthersMayChange
  <2>10. MapHolds(m, pos - 1, 0)
    BY <1>3, <2>3 DEF ParseInv, MapAt
  <2>11. Counts(t, pos - 1)'
    <3>1. PICK n : n = pos - 1
      OBVIOUS
    <3>2. Counts(t, n)
      BY <2>3, <2>10, <3>1 DEF MapHolds
    <3>3. Counts(t, n)'
      BY <2>4, <2>9, <3>2, CountsCarried DEF ObjectsInv
    <3>4. pos' - 1 = n
      BY <1>3, <3>1
    <3>5. QED
      BY <3>3, <3>4
  <2>12. /\ pos >= 1 /\ object[slots[2]].val = text[pos] /\ text[pos] \notin WordsRead(pos - 1)
         /\ object[slots[4]] = SizeT(1) /\ OnlyIn(slots[4], {}) /\ slots[3] = slots[2]
    BY <1>3 DEF ParseInv, WordAt
  <2>13. WordsRead(pos - 1)' = WordsRead(pos - 1)
    BY <1>3 DEF inputVars, WordsRead
  <2>14. Cardinality(WordsRead(pos - 1)) \in Nat
    <3>1. text \in Seq(Words) /\ pos \in 0 .. Len(text)
      BY DEF ObjectsInv, InputInv
    <3>2. PICK n \in Nat : n = pos - 1 /\ n + 1 <= Len(text)
      BY <2>12, <3>1
    <3>3. QED
      BY <3>1, <3>2, OneWordMore
  <2>15. MapHolds(m, pos - 1, 1)'
    <3>1. object[m].val = Cardinality(WordsRead(pos - 1))
      BY <2>10, <2>14 DEF MapHolds
    <3>2. object'[m].val = Cardinality(WordsRead(pos - 1))' + 1
      BY <2>6, <2>13, <3>1
    <3>3. Counts(object[m].ref.table, pos - 1)'
      BY <2>6, <2>11
    <3>4. QED
      BY <3>2, <3>3 DEF MapHolds
  <2>16. MapHolds(slots[1], pos - 1, 1)'
    BY <2>1, <2>3, <2>15
  <2>17. OnlyIn(slots[4], {})'
    <3>1. \A r \in InUse : Trace(r)' = Trace(r)
      BY <2>5, <2>6 DEF Trace, InUse
    <3>2. PICK p : p = slots[4]
      OBVIOUS
    <3>3. OnlyIn(p, {})'
      BY <2>7, <2>12, <3>1, <3>2 DEF OnlyIn
    <3>4. QED
      BY <2>1, <3>2, <3>3
  <2>18. object'[slots[2]] = object[slots[2]] /\ object'[slots[4]] = object[slots[4]]
    BY <2>1, <2>3, <2>4, <2>5 DEF IsA, Of, InUse
  <2>19. WordAt(pc)'
    <3>1. /\ pos' >= 1 /\ object'[slots'[2]].val = text'[pos']
          /\ text'[pos'] \notin WordsRead(pos - 1)' /\ slots'[3] = slots'[2]
      <4>1. text' = text /\ pos' = pos
        BY <1>3 DEF inputVars
      <4>2. slots'[2] = slots[2] /\ slots'[3] = slots[3]
        BY <2>1
      <4>3. object'[slots'[2]].val = text'[pos']
        BY <2>12, <2>18, <4>1, <4>2
      <4>4. text'[pos'] \notin WordsRead(pos - 1)'
        BY <2>12, <2>13, <4>1
      <4>5. QED
        BY <2>12, <4>1, <4>2, <4>3, <4>4
    <3>2. object'[slots'[4]] = SizeT(1)'
      BY <2>1, <2>12, <2>18 DEF SizeT, Object
    <3>3. QED
      BY <1>3, <2>17, <3>1, <3>2 DEF WordAt
  <2>20. QED
    BY <1>3, <2>16, <2>19 DEF ParseInv, MapAt
<1>4. CASE /\ pc = "make_node" /\ pc' = "link"
           /\ Alloc(Node(Read("h_key"), Read("h_value"), hash[object[Read("h_key")].val]))
           /\ UNCHANGED <<inputVars, pos, slots>>
  <2>1. /\ Len(slots) = 5 /\ DOMAIN slots = 1 .. 5
        /\ Read("h_key") = slots[3] /\ Read("h_value") = slots[4]
        /\ IsA(slots[1], "HashMap") /\ IsA(slots[2], "String") /\ IsA(slots[4], "SizeT")
    BY <1>4, DepthIs, ReadsAre DEF Frame, FrameOf, InParse, Slot, ClassOf
  <2>2. /\ pos >= 1 /\ object[slots[2]].val = text[pos] /\ text[pos] \notin WordsRead(pos - 1)
        /\ object[slots[4]] = SizeT(1) /\ OnlyIn(slots[4], {}) /\ slots[3] = slots[2]
    BY <1>4 DEF ParseInv, WordAt
  <2>3. PICK key, value, obj : key = slots[2] /\ value = slots[4]
                               /\ obj = Node(key, value, hash[text[pos]])
    OBVIOUS
  <2>4. obj.class = "Node" /\ Alloc(obj)
    <3>1. Alloc(obj)
      BY <1>4, <2>1, <2>2, <2>3
    <3>2. QED
      BY <2>3, <3>1 DEF Node, Object
  <2>5. object'[oop'] = obj /\ oop' \in InUse' /\ OnlyIn(oop, {oop})'
        /\ \E K : Same(K) /\ Holds(K) /\ InUse' = K \cup {oop'} /\ oop' \notin K
    BY <1>4, <2>4, AllocSame DEF Allocations
  <2>6. PICK K : Same(K) /\ Holds(K) /\ InUse' = K \cup {oop'} /\ oop' \notin K
    BY <2>5
  <2>7. /\ slots[1] \in K /\ key \in K /\ value \in K
        /\ \A r \in K : r \in InUse /\ object'[r] = object[r]
    BY <2>1, <2>3, <2>6 DEF Holds, Same, Fixed, Carried, IsA, Of
  <2>8. MapHolds(slots[1], pos - 1, 1)
    BY <1>4 DEF ParseInv, MapAt
  <2>9. MapHolds(slots[1], pos - 1, 1)'
    <3>1. PICK m : m = slots[1]
      OBVIOUS
    <3>2. MapHolds(m, pos - 1, 1)'
      BY <1>4, <2>1, <2>6, <2>7, <2>8, <3>1, MapGoesOn DEF Same, IsA
    <3>3. QED
      BY <1>4, <3>1, <3>2
  <2>10. OnlyIn(value, {oop})'
    BY <2>2, <2>3, <2>6, <2>7 DEF OnlyIn, Trace
  <2>11. OnlyIn(slots[4], {oop})'
    BY <1>4, <2>3, <2>10
  <2>12. object'[oop'] = Node(slots[2], slots[4], hash[text[pos]])'
    BY <1>4, <2>3, <2>5 DEF Node, Object, inputVars
  <2>13. WordAt(pc)'
    BY <1>4, <2>2, <2>3, <2>7, <2>11, <2>12 DEF WordAt, inputVars, WordsRead, SizeT, Object
  <2>14. QED
    BY <1>4, <2>9, <2>13 DEF ParseInv, MapAt
<1>5. CASE pc = "link" /\ pc' = "put_done" /\ Link(Read("h_table"), oop) /\ Leave
           /\ UNCHANGED <<inputVars, pos, oop>>
  <2>1. /\ Len(slots) = 5 /\ DOMAIN slots = 1 .. 5 /\ Read("h_table") = slots[5]
        /\ IsA(slots[1], "HashMap") /\ IsA(slots[2], "String") /\ IsA(slots[4], "SizeT")
        /\ Last(marks) = 2
    <3>1. Frame(pc) = FrameOf(<<0, 0, 1, 2>>, {5}, InParse \cup {"h_key", "h_value", "h_table"})
      BY <1>5 DEF Frame
    <3>2. Len(slots) = 5 /\ DOMAIN slots = 1 .. 5 /\ Last(marks) = 2
      <4>1. Last(<<0, 0, 1, 2>>) = 2
        BY SavedDepths DEF Extends
      <4>2. QED
        BY <1>5, <3>1, <4>1, DepthIs DEF FrameOf
    <3>3. IsA(slots[1], "HashMap") /\ IsA(slots[2], "String") /\ IsA(slots[4], "SizeT")
          /\ Read("h_table") = slots[5]
      BY <1>5, <3>1, ReadsAre DEF FrameOf, InParse, Slot, ClassOf
    <3>4. QED
      BY <3>2, <3>3
  <2>2. slots'[1] = slots[1]
    BY <1>5, <2>1, SlotsKept
  <2>3. PICK m, t, n : m = slots[1] /\ t = object[m].ref.table /\ n = oop
    OBVIOUS
  <2>4. /\ m \in InUse /\ m \in Refs /\ object[m].class = "HashMap" /\ t \in Tables
        /\ Of(n, "Node") /\ NextOf(n) = Null /\ OnlyIn(n, {n}) /\ slots[5] = t
    <3>1. Of(m, "HashMap") /\ HeapInv
      BY <2>1, <2>3 DEF IsA, ObjectsInv
    <3>2. t \in Tables
      BY <2>3, <3>1, TableOf
    <3>3. OopAt(pc) /\ SlotsAt(pc)
      BY <1>5 DEF ObjectsInv, PlaceInv
    <3>4. /\ Of(n, "Node") /\ NextOf(n) = Null /\ slots[5] = t
          /\ \A r \in InUse \ {n} : n \notin Trace(r)
      BY <1>5, <2>3, <3>3 DEF OopAt, SlotsAt, NextOf
    <3>5. QED
      BY <3>1, <3>2, <3>4 DEF Of, OnlyIn, InUse
  <2>5. /\ n \in Nodes /\ Link(t, n)
    BY <1>5, <2>1, <2>3, <2>4 DEF Of, Nodes, InUse
  <2>6. /\ text \in Seq(Words) /\ pos \in 0 .. Len(text) /\ hash \in [Words -> Hashes]
        /\ HeapInv /\ HeapInv'
    BY DEF ObjectsInv, InputInv
  <2>7. /\ pos >= 1 /\ object[slots[2]].val = text[pos] /\ text[pos] \notin WordsRead(pos - 1)
        /\ object[slots[4]] = SizeT(1) /\ OnlyIn(slots[4], {oop})
        /\ object[oop] = Node(slots[2], slots[4], hash[text[pos]])
    BY <1>5 DEF ParseInv, WordAt
  <2>8. PICK k \in Nat : k = pos - 1 /\ k + 1 = pos /\ k + 1 <= Len(text)
    BY <2>6, <2>7
  <2>9. /\ object[n].ref.key = slots[2] /\ object[n].ref.value = slots[4]
        /\ object[n].val = hash[text[pos]]
    BY <2>3, <2>7 DEF Node, Object
  <2>10. /\ Key(n) = text[k + 1] /\ object[n].val = hash[Key(n)]
         /\ object[ValueOf(n)] = SizeT(1) /\ OnlyIn(ValueOf(n), {n})
    BY <2>3, <2>7, <2>8, <2>9 DEF Key, ValueOf
  <2>11. MapHolds(m, k, 1)
    BY <1>5, <2>3, <2>8 DEF ParseInv, MapAt
  <2>12. Counts(t, k) /\ object[m].val = Cardinality(WordsRead(k)) + 1
    BY <2>3, <2>11 DEF MapHolds
  <2>13. Counts(t, k + 1)'
    BY <1>5, <2>4, <2>5, <2>6, <2>7, <2>8, <2>10, <2>12, CountsNew
  <2>14. object'[m] = object[m]
    <3>1. \A i \in 0 .. object[t].val - 1 :
             \A l \in From(object[t].ref[i]) : Bucket(t, object[l].val) = i
      BY <2>12 DEF Counts
    <3>2. PICK b : b = Bucket(t, object[n].val)
      OBVIOUS
    <3>3. LinksAt(t, n, b)
      BY <2>4, <2>5, <2>6, <3>1, <3>2, LinkedChains
    <3>4. m \notin Nodes /\ m # t
      <4>1. object[t].class = "Array"
        BY <2>4, <2>6, TableIs
      <4>2. QED
        BY <2>4, <4>1 DEF Nodes
    <3>5. QED
      BY <2>4, <3>3, <3>4 DEF LinksAt
  <2>15. Cardinality(WordsRead(k + 1))' = Cardinality(WordsRead(k)) + 1
    <3>1. WordsRead(k + 1)' = WordsRead(k + 1)
      BY <1>5 DEF inputVars, WordsRead
    <3>2. text[k + 1] \notin WordsRead(k)
      BY <2>7, <2>8
    <3>3. QED
      BY <2>6, <2>8, <3>1, <3>2, OneWordMore
  <2>16. MapHolds(m, k + 1, 0)'
    <3>1. Counts(object[m].ref.table, k + 1)'
      BY <2>3, <2>13, <2>14
    <3>2. object'[m].val = Cardinality(WordsRead(k + 1))' + 0
      <4>1. Cardinality(WordsRead(k)) \in Nat
        BY <2>6, <2>8, OneWordMore
      <4>2. QED
        BY <2>12, <2>14, <2>15, <4>1
    <3>3. QED
      BY <3>1, <3>2 DEF MapHolds
  <2>17. MapHolds(slots[1], pos, 0)'
    BY <1>5, <2>2, <2>3, <2>8, <2>16
  <2>18. WordAt(pc)'
    BY <1>5 DEF WordAt
  <2>19. QED
    BY <1>5, <2>17, <2>18 DEF ParseInv, MapAt
<1>6. QED
  BY <1>1, <1>2, <1>3, <1>4, <1>5
     DEF Put, New, MakeHandle, At, Goto, heapVars, countVars, stackVars

(* What update_value() finds in map m with table t, k words having been put there. *)
Finds(m, t, k, value) ==
    /\ m = slots[1] /\ Of(m, "HashMap") /\ Len(slots) = 1
    /\ t = object[m].ref.table /\ t \in Tables
    /\ k + 1 = pos /\ k + 1 <= Len(text) /\ MapHolds(m, k, 0)
    /\ object[oop].val = text[pos]
    /\ text[pos] \notin WordsRead(k) => value = Null
    /\ text[pos] \in WordsRead(k) =>
          \E n \in NodesIn(t) : Key(n) = text[pos] /\ value = ValueOf(n)

LEMMA UpdateValueParse ==
    ASSUME StackInv, StackInv', ObjectsInv, ObjectsInv', ParseInv, UpdateValue PROVE ParseInv'
<1> USE DEF Pending, Making, Early, Parsing, Counting, Filling, Looping,
            Visiting, Pairing, Pushing
<1> DEFINE value == Get(Read("map"), object[oop].val, hash[object[oop].val])
<1>0. /\ text \in Seq(Words) /\ pos \in 0 .. Len(text) /\ hash \in [Words -> Hashes]
      /\ HeapInv /\ HeapInv'
  BY DEF ObjectsInv, InputInv
<1>1. ASSUME pc = "update_value"
      PROVE  \E m, t, k : k \in Nat /\ Finds(m, t, k, value)
  <2>1. /\ Len(slots) = 1 /\ Read("map") = slots[1] /\ IsA(slots[1], "HashMap")
    <3>1. Frame(pc) = FrameOf(<<0, 0>>, {1}, {"map"})
      BY <1>1 DEF Frame
    <3>2. QED
      BY <1>1, <3>1, DepthIs, ReadsAre DEF FrameOf, Slot, ClassOf
  <2>2. PICK m, t : m = slots[1] /\ t = object[m].ref.table
    OBVIOUS
  <2>3. Of(m, "HashMap") /\ t \in Tables
    BY <1>0, <2>1, <2>2, TableOf DEF IsA
  <2>4. pos >= 1 /\ object[oop].val = text[pos] /\ MapHolds(m, pos - 1, 0)
    BY <1>1, <2>2 DEF ParseInv, WordAt, MapAt
  <2>5. PICK k \in Nat : k = pos - 1 /\ k + 1 = pos /\ k + 1 <= Len(text)
    BY <1>0, <2>4
  <2>6. Counts(t, k)
    BY <2>2, <2>4, <2>5 DEF MapHolds
  <2>7. PICK w \in Words : w = text[pos]
    BY <1>0, <2>5
  <2>8. value = Get(m, w, hash[w])
    BY <2>1, <2>2, <2>4, <2>7
  <2> HIDE DEF value
  <2>10. /\ w \notin WordsRead(k) => value = Null
         /\ w \in WordsRead(k) => \E n \in NodesIn(t) : Key(n) = w /\ value = ValueOf(n)
    BY <1>0, <2>2, <2>3, <2>6, <2>8, GetFinds
  <2>11. MapHolds(m, k, 0)
    BY <2>4, <2>5
  <2>12. Finds(m, t, k, value)
    BY <2>1, <2>2, <2>3, <2>4, <2>5, <2>7, <2>10, <2>11 DEF Finds
  <2>13. QED
    BY <2>12
<1>2. CASE /\ pc = "update_value" /\ pc' = "read_word" /\ value # Null
           /\ object' = [object EXCEPT ![value].val = @ + 1]
           /\ UNCHANGED <<inputVars, pos, slots>>
  <2> HIDE DEF value
  <2>1. PICK m, t, k : k \in Nat /\ Finds(m, t, k, value)
    BY <1>1, <1>2
  <2> USE <2>1 DEF Finds
  <2>2. text[pos] \in WordsRead(k)
    BY <1>2, <2>1
  <2>3. PICK n \in NodesIn(t) : Key(n) = text[k + 1] /\ value = ValueOf(n)
    BY <2>1, <2>2
  <2>4. PICK v : v = ValueOf(n)
    OBVIOUS
  <2>5. /\ v \in InUse /\ v \in Refs /\ object[v].class = "SizeT" /\ DOMAIN object = Refs
        /\ object[v] = Object("SizeT", <<>>, object[v].val)
    <3>1. n \in Nodes /\ n \in InUse /\ object[n].class = "Node" /\ Formed(n)
      BY <1>0, <2>1, <2>3, NodesAre, NodesLeadToNodes
    <3>2. v \in InUse /\ object[v].class = "SizeT"
      BY <2>4, <3>1 DEF Formed, Of, ValueOf
    <3>3. Formed(v)
      BY <1>0, <3>2 DEF HeapInv
    <3>4. QED
      BY <1>0, <3>2, <3>3 DEF Formed, HeapInv, InUse
  <2>6. /\ \A r \in Refs \ {v} : object'[r] = object[r]
        /\ object'[v] = Object("SizeT", <<>>, object[v].val + 1)
    BY <1>2, <2>3, <2>4, <2>5 DEF Object
  <2>7. object'[v].class = "SizeT" /\ object'[v] # Free
    BY <2>6 DEF Object, Free
  <2>8. InUse' = InUse
    BY <2>5, <2>6, <2>7 DEF InUse
  <2>9. Carried(InUse)
    <3>1. \A r \in Tables : object[r].class = "Array"
      BY <1>0, TableIs
    <3>2. \A r \in InUse : object'[r].class = object[r].class
      BY <2>5, <2>6, <2>7 DEF InUse
    <3>3. \A r \in InUse : r # v => object'[r] = object[r]
      BY <2>6 DEF InUse
    <3>4. v \notin Tables /\ object[v].class \notin {"Node", "String"}
      BY <2>5, <3>1
    <3>5. QED
      BY <1>2, <2>8, <3>2, <3>3, <3>4 DEF Carried
  <2>10. Counts(t, k)
    BY <2>1 DEF MapHolds
  <2>11. object'[ValueOf(n)] = SizeT(object[ValueOf(n)].val + 1)
    BY <2>4, <2>6 DEF SizeT
  <2>12. Counts(t, k + 1)'
    BY <1>0, <2>1, <2>3, <2>4, <2>6, <2>9, <2>10, <2>11, CountsOneMore
  <2>13. object'[m] = object[m]
    BY <2>1, <2>5, <2>6 DEF Of, InUse
  <2>14. Cardinality(WordsRead(k + 1))' = Cardinality(WordsRead(k))
    <3>1. WordsRead(k + 1)' = WordsRead(k + 1)
      BY <1>2 DEF inputVars, WordsRead
    <3>2. Cardinality(WordsRead(k + 1)) = Cardinality(WordsRead(k))
      <4>1. /\ Cardinality(WordsRead(k)) \in Nat
            /\ Cardinality(WordsRead(k + 1)) =
                  Cardinality(WordsRead(k)) + (IF text[k + 1] \in WordsRead(k) THEN 0 ELSE 1)
        BY <1>0, <2>1, OneWordMore
      <4>2. text[k + 1] \in WordsRead(k)
        BY <2>1, <2>2
      <4>3. QED
        BY <4>1, <4>2
    <3>3. QED
      BY <3>1, <3>2
  <2>15. MapHolds(m, k + 1, 0)'
    <3>1. Counts(object[m].ref.table, k + 1)'
      BY <2>1, <2>12, <2>13
    <3>2. object'[m].val = Cardinality(WordsRead(k + 1))' + 0
      BY <2>1, <2>13, <2>14 DEF MapHolds
    <3>3. QED
      BY <3>1, <3>2 DEF MapHolds
  <2>16. MapHolds(slots[1], pos, 0)'
    BY <1>2, <2>1, <2>15
  <2>17. WordAt(pc)'
    BY <1>2 DEF WordAt
  <2>18. QED
    BY <1>2, <2>16, <2>17 DEF ParseInv, MapAt
<1>3. CASE /\ pc = "update_value" /\ pc' = "make_size" /\ Push("str", oop) /\ value = Null
           /\ UNCHANGED <<inputVars, pos, object>>
  <2> HIDE DEF value
  <2>1. PICK m, t, k : k \in Nat /\ Finds(m, t, k, value)
    BY <1>1, <1>3
  <2> USE <2>1 DEF Finds
  <2>2. text[pos] \notin WordsRead(k)
    <3>1. SUFFICES ASSUME text[pos] \in WordsRead(k) PROVE FALSE
      OBVIOUS
    <3>2. PICK n \in NodesIn(t) : value = ValueOf(n)
      BY <2>1, <3>1
    <3>3. n \in Nodes /\ n \in InUse /\ object[n].class = "Node" /\ Formed(n)
      BY <1>0, <2>1, <3>2, NodesAre, NodesLeadToNodes
    <3>4. ValueOf(n) \in InUse
      BY <3>3 DEF Formed, Of, ValueOf
    <3>5. QED
      BY <1>3, <3>2, <3>4, RefsAssumption DEF InUse
  <2>3. slots'[1] = slots[1] /\ slots'[2] = oop
    BY <1>3, <2>1, SlotsKept
  <2>4. Same(InUse)
    BY <1>3, QuietSame
  <2>5. MapHolds(m, k, 0)'
    BY <2>1, <2>4, MapGoesOn DEF Same, Of
  <2>6. MapHolds(slots[1], pos - 1, 0)'
    <3>1. pos' - 1 = k
      BY <1>3, <2>1
    <3>2. QED
      BY <2>1, <2>3, <2>5, <3>1
  <2>7. WordAt(pc)'
    <3>1. pos' >= 1 /\ pos' = pos /\ text' = text /\ pos - 1 = k
      BY <1>3, <2>1 DEF inputVars
    <3>2. WordsRead(pos - 1)' = WordsRead(k)
      BY <3>1 DEF WordsRead
    <3>3. text'[pos'] \notin WordsRead(pos - 1)'
      BY <2>2, <3>1, <3>2
    <3>4. object'[slots'[2]].val = text'[pos']
      BY <1>3, <2>1, <2>3, <3>1
    <3>5. QED
      BY <1>3, <3>1, <3>3, <3>4 DEF WordAt
  <2>8. QED
    BY <1>3, <2>6, <2>7 DEF ParseInv, MapAt
<1> HIDE DEF value
<1>4. CASE /\ pc = "make_size" /\ pc' = "put" /\ Alloc(SizeT(1))
           /\ UNCHANGED <<inputVars, pos, slots>>
  <2>1. IsA(slots[1], "HashMap") /\ IsA(slots[2], "String") /\ DOMAIN slots = 1 .. 2
    <3>1. Frame(pc) = FrameOf(<<0, 0, 1>>, {2}, InParse)
      BY <1>4 DEF Frame
    <3>2. QED
      BY <1>4, <3>1, ReadsAre, DepthIs DEF FrameOf, InParse, Slot, ClassOf
  <2>2. SizeT(1).class # "Free"
    BY DEF SizeT, Object
  <2>3. object'[oop'] = SizeT(1) /\ oop' \in InUse' /\ OnlyIn(oop, {oop})'
        /\ \E K : Same(K) /\ Holds(K) /\ InUse' = K \cup {oop'} /\ oop' \notin K
    BY <1>4, <2>2, AllocSame DEF Allocations
  <2>4. PICK K : Same(K) /\ Holds(K) /\ InUse' = K \cup {oop'} /\ oop' \notin K
    BY <2>3
  <2>5. PICK m, p : m = slots[1] /\ p = slots[2]
    OBVIOUS
  <2>6. m \in K /\ p \in K /\ object'[m] = object[m] /\ object'[p] = object[p]
    BY <2>1, <2>4, <2>5 DEF Holds, Same, IsA, Of
  <2>7. MapHolds(m, pos - 1, 0)
    BY <1>4, <2>5 DEF ParseInv, MapAt
  <2>8. MapHolds(m, pos - 1, 0)'
    BY <1>4, <2>1, <2>4, <2>5, <2>6, <2>7, MapGoesOn DEF Same, IsA
  <2>9. MapHolds(slots[1], pos - 1, 0)'
    BY <1>4, <2>5, <2>8
  <2>10. OnlyIn(oop, {})'
    <3>1. object'[oop'].ref = <<>>
      BY <2>3 DEF SizeT, Object
    <3>2. oop' \notin Trace(oop)'
      BY <3>1 DEF Trace, Range
    <3>3. QED
      BY <2>3, <3>2 DEF OnlyIn
  <2>11. /\ pos >= 1 /\ object[p].val = text[pos] /\ text[pos] \notin WordsRead(pos - 1)
    BY <1>4, <2>5 DEF ParseInv, WordAt
  <2>12. WordAt(pc)'
    <3>1. pos' = pos /\ text' = text
      BY <1>4 DEF inputVars
    <3>2. WordsRead(pos - 1)' = WordsRead(pos - 1)
      BY <3>1 DEF WordsRead
    <3>3. object'[oop'] = SizeT(1)'
      BY <2>3 DEF SizeT, Object
    <3>4. object'[slots'[2]].val = text'[pos']
      BY <1>4, <2>5, <2>6, <2>11, <3>1
    <3>5. text'[pos'] \notin WordsRead(pos - 1)' /\ pos' >= 1
      BY <2>11, <3>1, <3>2
    <3>6. QED
      BY <1>4, <2>10, <3>3, <3>4, <3>5 DEF WordAt
  <2>13. QED
    BY <1>4, <2>9, <2>12 DEF ParseInv, MapAt
<1>5. CASE /\ pc = "put_done" /\ pc' = "read_word" /\ Leave
           /\ UNCHANGED <<inputVars, pos, object>>
  <2>1. IsA(slots[1], "HashMap") /\ slots'[1] = slots[1]
    <3>1. Frame(pc) = FrameOf(<<0, 0, 1>>, {2}, InParse)
      BY <1>5 DEF Frame
    <3>2. Last(<<0, 0, 1>>) = 1
      BY SavedDepths DEF Extends
    <3>3. Len(slots) = 2 /\ Last(marks) = 1 /\ IsA(slots[1], "HashMap")
      BY <1>5, <3>1, <3>2, ReadsAre, DepthIs DEF FrameOf, InParse, Slot, ClassOf
    <3>4. QED
      BY <1>5, <3>3, SlotsKept
  <2>2. PICK m : m = slots[1]
    OBVIOUS
  <2>3. MapHolds(m, pos, 0)
    BY <1>5, <2>2 DEF ParseInv, MapAt
  <2>4. Same(InUse)
    BY <1>5, QuietSame
  <2>5. MapHolds(m, pos, 0)'
    BY <1>5, <2>1, <2>2, <2>3, <2>4, MapGoesOn DEF Same, Of, IsA
  <2>6. MapHolds(slots[1], pos, 0)'
    BY <2>1, <2>2, <2>5
  <2>7. WordAt(pc)'
    BY <1>5 DEF WordAt
  <2>8. QED
    BY <1>5, <2>6, <2>7 DEF ParseInv, MapAt
<1>6. QED
  BY <1>2, <1>3, <1>4, <1>5
     DEF UpdateValue, New, MakeHandle, At, Goto, stackVars, heapVars, countVars, value

(* parse_file(), apart from the map itself. *)
LEMMA ParseFileParse ==
    ASSUME StackInv, StackInv', ObjectsInv, ObjectsInv', ParseInv, ParseFile PROVE ParseInv'
<1> USE DEF Pending, Making, Early, Parsing, Counting, Filling, Looping,
            Visiting, Pairing, Pushing
<1>0. text \in Seq(Words) /\ pos \in 0 .. Len(text)
  BY DEF ObjectsInv, InputInv
<1>1. CASE pc = "parse_file" /\ pc' = "make_table" /\ UNCHANGED pos
  <2>1. WordAt(pc)'
    BY <1>1 DEF WordAt
  <2>2. QED
    BY <1>1, <2>1 DEF ParseInv, MapAt
<1>2. CASE /\ pc = "own_map" /\ pc' = "read_word" /\ Push("map", oop)
           /\ UNCHANGED <<inputVars, pos, object>>
  <2>1. Len(slots) = 0 /\ Of(oop, "HashMap")
    <3>1. Frame(pc) = FrameOf(<<0, 0>>, {0}, {})
      BY <1>2 DEF Frame
    <3>2. QED
      BY <1>2, <3>1, DepthIs DEF FrameOf, ObjectsInv, PlaceInv, OopAt
  <2>2. slots'[1] = oop
    BY <1>2, <2>1, SlotsKept
  <2>3. PICK m : m = oop
    OBVIOUS
  <2>4. MapHolds(m, 0, 0) /\ pos' = 0
    BY <1>2, <2>3 DEF ParseInv, MapAt
  <2>5. Same(InUse)
    BY <1>2, QuietSame
  <2>6. MapHolds(m, 0, 0)'
    BY <1>2, <2>1, <2>3, <2>4, <2>5, MapGoesOn DEF Same, Of
  <2>7. MapHolds(slots[1], pos, 0)'
    BY <2>2, <2>3, <2>4, <2>6
  <2>8. WordAt(pc)'
    BY <1>2 DEF WordAt
  <2>9. QED
    BY <1>2, <2>7, <2>8 DEF ParseInv, MapAt
<1>3. CASE /\ pc = "read_word" /\ pc' = "update_value" /\ pos < Len(text) /\ pos' = pos + 1
           /\ Alloc(String(text[pos'])) /\ UNCHANGED <<inputVars, slots>>
  <2>1. IsA(slots[1], "HashMap") /\ DOMAIN slots = 1 .. 1
    <3>1. Frame(pc) = FrameOf(<<0, 0>>, {1}, {"map"})
      BY <1>3 DEF Frame
    <3>2. QED
      BY <1>3, <3>1, ReadsAre, DepthIs DEF FrameOf, Slot, ClassOf
  <2>2. PICK obj : obj = String(text[pos'])
    OBVIOUS
  <2>3. obj.class = "String" /\ obj.val = text[pos']
    BY <2>2 DEF String, Object
  <2>4. object'[oop'] = obj /\ \E K : Same(K) /\ Holds(K)
    BY <1>3, <2>2, <2>3, AllocSame DEF Allocations
  <2>5. PICK m, K : m = slots[1] /\ Same(K) /\ Holds(K)
    BY <2>4
  <2>6. m \in K /\ object'[m] = object[m]
    BY <2>1, <2>5 DEF Holds, Same, IsA, Of
  <2>7. PICK k \in Nat : k = pos /\ k = pos' - 1
    BY <1>0, <1>3
  <2>8. MapHolds(m, k, 0)
    BY <1>3, <2>5, <2>7 DEF ParseInv, MapAt
  <2>9. MapHolds(m, k, 0)'
    BY <1>3, <2>1, <2>5, <2>6, <2>8, MapGoesOn DEF Same, IsA
  <2>10. MapHolds(slots[1], pos - 1, 0)'
    BY <1>3, <2>5, <2>7, <2>9
  <2>11. object'[oop'].val = text'[pos'] /\ pos' >= 1
    BY <1>0, <1>3, <2>3, <2>4 DEF inputVars
  <2>12. WordAt(pc)'
    BY <1>3, <2>11 DEF WordAt
  <2>13. QED
    BY <1>3, <2>10, <2>12 DEF ParseInv, MapAt
<1>4. CASE /\ pc = "read_word" /\ pc' = "own_result" /\ pos = Len(text)
           /\ oop' = Read("map") /\ UNCHANGED <<inputVars, pos, object>>
  <2>1. IsA(slots[1], "HashMap") /\ Read("map") = slots[1]
    <3>1. Frame(pc) = FrameOf(<<0, 0>>, {1}, {"map"})
      BY <1>4 DEF Frame
    <3>2. QED
      BY <1>4, <3>1, ReadsAre DEF FrameOf, Slot, ClassOf
  <2>2. PICK m : m = slots[1]
    OBVIOUS
  <2>3. MapHolds(m, pos, 0)
    BY <1>4, <2>2 DEF ParseInv, MapAt
  <2>4. Same(InUse)
    BY <1>4, QuietSame
  <2>5. MapHolds(m, pos, 0)'
    BY <1>4, <2>1, <2>2, <2>3, <2>4, MapGoesOn DEF Same, IsA, Of
  <2>6. MapHolds(oop, pos, 0)'
    BY <1>4, <2>1, <2>2, <2>5
  <2>7. WordAt(pc)'
    BY <1>4 DEF WordAt
  <2>8. pos' = Len(text')
    BY <1>4 DEF inputVars
  <2>9. QED
    BY <1>4, <2>6, <2>7, <2>8 DEF ParseInv, MapAt
<1>5. QED
  BY <1>1, <1>2, <1>3, <1>4
     DEF ParseFile, MakeHandle, At, Goto, stackVars, heapVars, countVars

-----------------------------------------------------------------------------
(* The steps that change an object which is in no map.                     *)

Only(X) ==
    /\ X \subseteq InUse /\ InUse' = InUse /\ UNCHANGED inputVars
    /\ \A r \in Refs \ X : object'[r] = object[r]
    /\ \A r \in X : /\ object'[r].class = object[r].class
                    /\ object[r].class \notin {"Node", "String", "SizeT"}
                    /\ r \notin Tables

LEMMA OnlyFixes ==
    ASSUME NEW X, Only(X)
    PROVE  Fixed(InUse) /\ InUse' = InUse /\ \A r \in InUse \ X : object'[r] = object[r]
<1>1. Fixed(InUse)
  BY OthersMayChange DEF Only
<1>2. QED
  BY <1>1 DEF Only, InUse

LEMMA TablesAreArrays == HeapInv => \A t \in Tables : object[t].class = "Array"
BY DEF HeapInv, IsTable, Of

(* HashMapIterator's constructor. *)
LEMMA InitIterShape ==
    ASSUME StackInv, ObjectsInv, ObjectsInv', MakeIterator, pc = "init_iter"
    PROVE  /\ pc' = "own_iter" /\ slots' = slots /\ oop' = oop /\ Only({oop})
           /\ Of(oop, "HashMapIterator") /\ Of(slots[1], "HashMap")
           /\ object'[oop] = Advance(IteratorOf(Null, slots[1], 0))
           /\ UNCHANGED countVars
<1>1. /\ pc' = "own_iter" /\ raw # Stale
      /\ object' = [object EXCEPT ![oop] = Advance(HashMapIterator(raw))]
      /\ UNCHANGED <<slots, oop, raw, inputVars, countVars>>
  BY DEF MakeIterator, At, Goto, New, stackVars
<1>2. PICK m, i : m = raw /\ i = oop
  OBVIOUS
<1>3. m = slots[1] /\ Of(m, "HashMap") /\ Of(i, "HashMapIterator")
  <2>0. Frame(pc) = FrameOf(<<0>>, {1}, {"hashMap"})
    BY DEF Frame
  <2>1. Of(slots[1], "HashMap")
    BY <2>0, ReadsAre DEF FrameOf, Slot, ClassOf, IsA
  <2>2. Of(i, "HashMapIterator") /\ (m = slots[1] \/ Lost(m))
    BY <1>2 DEF ObjectsInv, PlaceInv, OopAt, RawFrom, Lost
  <2>3. QED
    BY <1>1, <1>2, <2>1, <2>2 DEF Lost
<1>4. HashMapIterator(raw) = IteratorOf(Null, m, 0)
  BY <1>2 DEF HashMapIterator, IteratorOf
<1>5. i \in Refs /\ DOMAIN object = Refs /\ HeapInv
  BY <1>3 DEF Of, InUse, ObjectsInv, HeapInv
<1>6. PICK new : new = Advance(IteratorOf(Null, m, 0))
  OBVIOUS
<1>7. /\ object'[i] = new /\ \A r \in Refs \ {i} : object'[r] = object[r]
      /\ DOMAIN object' = Refs
  BY <1>1, <1>2, <1>4, <1>5, <1>6
<1>8. new.class = "HashMapIterator"
  <2>1. OrNull(Null, "Node") /\ 0 \in Nat
    BY DEF OrNull
  <2>2. PICK x, v : new = IteratorOf(x, m, v)
    BY <1>3, <1>5, <1>6, <2>1, AdvanceForms
  <2>3. QED
    BY <2>2 DEF IteratorOf, Object
<1>9. Only({i})
  <2>1. InUse' = InUse
    BY <1>3, <1>7, <1>8 DEF InUse, Of, Free, Object
  <2>2. i \notin Tables
    BY <1>3, <1>5, TablesAreArrays DEF Of
  <2>3. QED
    BY <1>1, <1>3, <1>7, <1>8, <2>1, <2>2 DEF Only, Of
<1>10. QED
  BY <1>1, <1>2, <1>3, <1>6, <1>7, <1>9

(* HashMapIterator::nextNode. *)
LEMMA HasNextShape ==
    ASSUME StackInv, ObjectsInv, ObjectsInv', Count, pc = "has_next", pc' # "print"
    PROVE  /\ pc' = "own_node" /\ slots' = slots /\ Only({slots[2]})
           /\ UNCHANGED countVars
           /\ \E e, m, val, k : GoesOn(slots[2], e, m, val, k)
<1>1. /\ pc' = "own_node" /\ object[Read("iter")].ref.next # Null /\ NextNode(Read("iter"))
      /\ UNCHANGED <<slots, moving, inputVars, countVars>>
  BY DEF Count, At, Goto, MakeHandle
<1>2. Read("iter") = slots[2] /\ IsA(slots[2], "HashMapIterator")
  <2>0. Frame(pc) = FrameOf(<<0>>, {3}, InCount)
    BY DEF Frame
  <2>1. QED
    BY <2>0, ReadsAre DEF FrameOf, InCount, Slot, ClassOf
<1>3. PICK i : i = slots[2]
  OBVIOUS
<1>4. HeapInv /\ NextNode(i) /\ object[i].ref.next # Null /\ IsA(i, "HashMapIterator")
  BY <1>1, <1>2, <1>3 DEF ObjectsInv
<1>5. InUse' = InUse /\ \E e, m, val, k : GoesOn(i, e, m, val, k)
  BY <1>1, <1>4, NextNodeIs
<1>6. PICK e, m, val, k : GoesOn(i, e, m, val, k)
  BY <1>5
<1>7. object'[i].class = "HashMapIterator"
  <2>1. CASE k = Null
    <3>1. PICK x, v : object'[i] = IteratorOf(x, m, v)
      BY <1>4, <1>6, <2>1, AdvanceForms DEF GoesOn
    <3>2. QED
      BY <3>1 DEF IteratorOf, Object
  <2>2. CASE k # Null
    BY <1>6, <2>2 DEF GoesOn, IteratorOf, Object
  <2>3. QED
    BY <2>1, <2>2
<1>8. Only({i})
  BY <1>1, <1>4, <1>5, <1>6, <1>7, TablesAreArrays DEF Only, GoesOn, IsA, Of
<1>9. QED
  BY <1>1, <1>3, <1>5, <1>8

(* Pair's constructor. *)
LEMMA InitPairShape ==
    ASSUME StackInv, ObjectsInv, ObjectsInv', PairMake, pc = "init_pair"
    PROVE  /\ pc' = "push_back" /\ slots' = slots /\ oop' = oop /\ Only({oop})
           /\ Of(oop, "Pair") /\ Of(slots[5], "String")
           /\ object'[oop] = Pair(slots[5], slots[6])
           /\ UNCHANGED countVars
<1>1. /\ pc' = "push_back"
      /\ object' = [object EXCEPT ![oop] = Pair(Read("first"), Read("second"))]
      /\ UNCHANGED <<slots, oop, inputVars, countVars>>
  BY DEF PairMake, At, Goto, New, MakeHandle, stackVars
<1>2. Read("first") = slots[5] /\ Read("second") = slots[6] /\ Of(slots[5], "String")
  <2>0. Frame(pc) = FrameOf(<<0, 3>>, {6}, InLoop)
    BY DEF Frame
  <2>1. QED
    BY <2>0, ReadsAre DEF FrameOf, InLoop, Slot, ClassOf, IsA
<1>3. PICK i : i = oop
  OBVIOUS
<1>4. Of(i, "Pair") /\ i \in Refs /\ DOMAIN object = Refs /\ HeapInv
  BY <1>3 DEF ObjectsInv, PlaceInv, OopAt, Of, InUse, HeapInv
<1>5. /\ object'[i] = Pair(slots[5], slots[6])
      /\ \A r \in Refs \ {i} : object'[r] = object[r]
  BY <1>1, <1>2, <1>3, <1>4
<1>6. object'[i].class = "Pair" /\ object'[i] # Free
  BY <1>5 DEF Pair, Object, Free
<1>7. InUse' = InUse
  BY <1>4, <1>5, <1>6 DEF InUse, Of
<1>8. Only({i})
  BY <1>1, <1>4, <1>5, <1>6, <1>7, TablesAreArrays DEF Only, Of
<1>9. QED
  BY <1>1, <1>2, <1>3, <1>4, <1>5, <1>8

LEMMA StoreShape ==
    ASSUME StackInv, ObjectsInv, ObjectsInv', PushBack, pc = "store"
    PROVE  /\ pc' = "next_word" /\ Leave /\ UNCHANGED countVars
           /\ \E d, val, f, n : /\ Extended(slots[7], slots[8], d, val, f, n)
                                /\ Only({slots[7], d})
<1>1. /\ pc' = "next_word" /\ Leave /\ Store(Read("h_self"), Read("h_elem"))
      /\ UNCHANGED <<moving, inputVars, countVars>>
  BY DEF PushBack, At, Goto, MakeHandle
<1>2. /\ Read("h_self") = slots[7] /\ Read("h_elem") = slots[8]
      /\ Of(slots[7], "Vector") /\ slots[8] \in InUse
  <2>0. Frame(pc) = FrameOf(<<0, 3, 6>>, {8, 9}, InPush)
    BY DEF Frame
  <2>1. QED
    BY <2>0, ReadsAre DEF FrameOf, InPush, Slot, ClassOf, IsA, Of
<1>3. PICK v, e : v = slots[7] /\ e = slots[8]
  OBVIOUS
<1>4. HeapInv /\ Of(v, "Vector") /\ e \in InUse /\ Store(v, e)
  BY <1>1, <1>2, <1>3 DEF ObjectsInv
<1>5. InUse' = InUse /\ \E d, val, f, n : Extended(v, e, d, val, f, n)
  BY <1>1, <1>4, Stored
<1>6. PICK d, val, f, n : Extended(v, e, d, val, f, n)
  BY <1>5
<1>7. /\ object'[v].class = "Vector" /\ object'[d].class = "Array"
      /\ object[v].class = "Vector" /\ object[d].class = "Array"
  BY <1>6 DEF Extended, VectorOf, Object
<1>8. Only({v, d})
  BY <1>1, <1>4, <1>5, <1>6, <1>7, TablesAreArrays DEF Only, Extended, VectorOf, Of
<1>9. QED
  BY <1>1, <1>3, <1>6, <1>8

LEMMA CopyShape ==
    ASSUME StackInv, ObjectsInv, ObjectsInv', ResizeVector, pc = "copy_to"
    PROVE  /\ pc' = "store" /\ slots' = slots /\ UNCHANGED countVars
           /\ \E d, val, f, n : /\ Enlarged(slots[9], oop, d, val, f, n)
                                /\ Only({slots[9], oop})
<1> DEFINE Data == object[Read("hm_self")].ref.data
<1>1. /\ pc' = "store"
      /\ object' = [object EXCEPT ![oop] = CopyTo(object[Data], @),
                                  ![Read("hm_self")].ref.data = oop]
      /\ UNCHANGED <<slots, moving, inputVars, countVars>>
  BY DEF ResizeVector, New, MakeHandle, At, Goto, stackVars
<1>2. Read("hm_self") = slots[9] /\ Of(slots[9], "Vector")
  <2>0. Frame(pc) = FrameOf(<<0, 3, 6>>, {9}, InPush \cup {"hm_self"})
    BY DEF Frame
  <2>1. QED
    BY <2>0, ReadsAre DEF FrameOf, Slot, ClassOf, IsA
<1>3. PICK v, a : v = Read("hm_self") /\ a = oop
  OBVIOUS
<1>4. HeapInv /\ UNCHANGED moving /\ Of(v, "Vector") /\ Of(a, "Array") /\ a \notin Tables
  BY <1>1, <1>2, <1>3 DEF ObjectsInv, PlaceInv, OopAt
<1>5. object' = [object EXCEPT ![a] = CopyTo(object[object[v].ref.data], @),
                               ![v].ref.data = a]
  BY <1>1, <1>3
<1>6. InUse' = InUse /\ \E d, val, f, n : Enlarged(v, a, d, val, f, n)
  BY ONLY <1>4, <1>5, Copied
<1> HIDE DEF Data
<1>7. PICK d, val, f, n : Enlarged(v, a, d, val, f, n)
  BY <1>6
<1>8. /\ object'[v].class = "Vector" /\ object[v].class = "Vector"
      /\ object'[a].class = "Array" /\ object[a].class = "Array"
  BY <1>4, <1>7 DEF Enlarged, VectorOf, Object, Of
<1>9. PICK X : X = {v, a}
  OBVIOUS
<1>10. Only(X)
  <2>1. inputVars' = inputVars
    BY <1>1
  <2>2. \A r \in Refs \ {v, a} : object'[r] = object[r]
    BY <1>7 DEF Enlarged
  <2>3. v \in InUse /\ a \in InUse /\ v \notin Tables
    BY <1>4, <1>8, TablesAreArrays DEF Of
  <2>4. QED
    BY <1>4, <1>6, <1>8, <1>9, <2>1, <2>2, <2>3 DEF Only
<1>11. QED
  BY <1>1, <1>2, <1>3, <1>7, <1>9, <1>10

(* Which action it is that changes such an object. *)
LEMMA ActionAt ==
    ASSUME Next, pc' # "undefined"
    PROVE  /\ pc = "init_iter" => MakeIterator
           /\ pc \in {"has_next", "own_result", "own_iter", "own_vector", "own_node",
                     "add_count", "next_word", "count", "print"} => Count
           /\ pc \in {"make_first", "make_pair", "make_second", "init_pair"} => PairMake
           /\ pc \in {"push_back", "own_elem", "is_full", "store"} => PushBack
           /\ pc \in {"resize", "make_larger", "copy_to"} => ResizeVector
           /\ pc \in {"make_array", "own_array", "make_vector"} => VectorMake
<1>1. ~LoseTrack
  BY DEF LoseTrack, Goto
<1> USE DEF MakeHandle, New, At
<1>2. /\ HashMapMake => pc \in {"make_table", "own_table", "make_map"}
      /\ Put => pc \in {"put", "put_value", "put_table", "make_node", "link"}
      /\ MakeIterator => pc \in {"iterator", "make_iter", "init_iter"}
  BY DEF HashMapMake, Put, MakeIterator
<1>3. /\ VectorMake => pc \in {"make_array", "own_array", "make_vector"}
      /\ PairMake => pc \in {"make_first", "make_pair", "make_second", "init_pair"}
      /\ PushBack => pc \in {"push_back", "own_elem", "is_full", "store"}
  BY DEF VectorMake, PairMake, PushBack
<1>4. /\ ResizeVector => pc \in {"resize", "make_larger", "copy_to"}
      /\ UpdateValue => pc \in {"update_value", "make_size", "put_done"}
      /\ ParseFile => pc \in {"parse_file", "own_map", "read_word"}
  BY DEF ResizeVector, UpdateValue, ParseFile
<1>5. /\ Count => pc \in {"count", "own_result", "own_iter", "own_vector", "has_next",
                         "own_node", "add_count", "next_word", "print"}
      /\ Stopped => pc \in {"done", "undefined"}
  BY DEF Count, Stopped
<1>6. QED
  BY <1>1, <1>2, <1>3, <1>4, <1>5 DEF Next

(* Whatever is done while the words are counted, the map stays, and so does*)
(* the iterator that is not asked for a node. *)
Goes(K) ==
    /\ Fixed(K) /\ Holds(K)
    /\ \A r \in K :
          \/ object[r].class = "HashMap"
          \/ /\ object[r].class = "HashMapIterator" /\ pc # "init_iter"
             /\ pc = "has_next" => pc' = "print"
          => object'[r] = object[r]

LEMMA CountingHeap ==
    ASSUME StackInv, ObjectsInv, ObjectsInv', Next, pc \in Counting, pc' # "undefined"
    PROVE  \E K : Goes(K)
<1> USE DEF Counting, Filling, Looping, Visiting, Pairing, Pushing
<1>1. StepFact /\ pc \notin {"done", "undefined"}
  BY StepKinds
<1>2. ASSUME NEW K, Same(K), Holds(K) PROVE Goes(K)
  BY <1>2 DEF Same, Goes
<1>3. ASSUME NEW X, Only(X), \A r \in X : object[r].class # "HashMap",
             \/ pc = "init_iter"
             \/ pc = "has_next" /\ pc' # "print"
             \/ \A r \in X : object[r].class # "HashMapIterator"
      PROVE  Goes(InUse)
  <2>1. Fixed(InUse) /\ \A r \in InUse \ X : object'[r] = object[r]
    BY <1>3, OnlyFixes
  <2>2. QED
    BY <1>3, <2>1 DEF Goes, Holds
<1>4. CASE UNCHANGED object
  <2>1. Same(InUse) /\ Holds(InUse)
    BY <1>1, <1>4, QuietSame DEF StepFact
  <2>2. QED
    BY <1>2, <2>1
<1>5. CASE pc \in Allocations /\ \E obj : obj.class # "Free" /\ Alloc(obj)
  <2>1. PICK obj : obj.class # "Free" /\ Alloc(obj)
    BY <1>5
  <2>2. PICK K : Same(K) /\ Holds(K)
    BY <1>1, <1>5, <2>1, AllocSame DEF StepFact
  <2>3. QED
    BY <1>2, <2>2
<1>6. CASE pc = "init_iter"
  <2>1. Only({oop}) /\ Of(oop, "HashMapIterator")
    BY <1>6, ActionAt, InitIterShape
  <2>2. QED
    BY <1>3, <1>6, <2>1 DEF Of
<1>7. CASE pc = "has_next"
  <2>1. Of(slots[2], "HashMapIterator")
    BY <1>1, <1>7, ReadsAre DEF Frame, FrameOf, InCount, Slot, ClassOf, IsA
  <2>2. CASE pc' = "print"
    <3>1. UNCHANGED object
      BY <1>7, <2>2, ActionAt DEF Count, At, Goto, MakeHandle, heapVars
    <3>2. QED
      BY <1>4, <3>1
  <2>3. CASE pc' # "print"
    <3>1. Only({slots[2]})
      BY <1>7, <2>3, ActionAt, HasNextShape
    <3>2. QED
      BY <1>3, <1>7, <2>1, <2>3, <3>1 DEF Of
  <2>4. QED
    BY <2>2, <2>3
<1>8. CASE pc = "init_pair"
  <2>1. Only({oop}) /\ Of(oop, "Pair")
    BY <1>8, ActionAt, InitPairShape
  <2>2. QED
    BY <1>3, <2>1 DEF Of
<1>9. CASE pc = "store"
  <2>1. PICK d, val, f, n : Extended(slots[7], slots[8], d, val, f, n) /\ Only({slots[7], d})
    BY <1>9, ActionAt, StoreShape
  <2>2. object[slots[7]].class = "Vector" /\ object[d].class = "Array"
    BY <2>1 DEF Extended, VectorOf, Object
  <2>3. QED
    BY <1>3, <2>1, <2>2
<1>10. CASE pc = "copy_to"
  <2>1. PICK d, val, f, n : Enlarged(slots[9], oop, d, val, f, n) /\ Only({slots[9], oop})
    BY <1>10, ActionAt, CopyShape
  <2>2. object[slots[9]].class = "Vector" /\ object[oop].class = "Array"
    BY <1>10, <2>1 DEF Enlarged, VectorOf, Object, ObjectsInv, PlaceInv, OopAt, Of
  <2>3. QED
    BY <1>3, <2>1, <2>2
<1>11. QED
  BY <1>1, <1>4, <1>5, <1>6, <1>7, <1>8, <1>9, <1>10 DEF StepFact, Updates

(* Where the map is. *)
LEMMA CountedMap ==
    ASSUME StackInv, ObjectsInv, pc \in Counting
    PROVE  1 \in DOMAIN slots /\ Of(slots[1], "HashMap")
<1>1. "hashMap" \in Frame(pc).names /\ pc # "undefined"
  BY DEF Counting, Filling, Looping, Visiting, Pairing, Pushing, Frame, FrameOf,
         InPush, InLoop, InCount
<1>2. QED
  BY <1>1, ReadsAre DEF Slot, ClassOf, IsA

SlotsThere == StackInv /\ pc # "undefined" => \A h \in Frame(pc).names : Slot[h] \in DOMAIN slots

LEMMA SlotsAreThere == SlotsThere
BY NamesHaveSlots DEF SlotsThere

LEMMA SlotsAreThereAfter == SlotsThere'
BY SlotsAreThere, PTL

LEMMA CountingParse ==
    ASSUME StackInv, StackInv', ObjectsInv, ObjectsInv', ParseInv, Next, pc \in Counting,
           pc' \in Counting
    PROVE  ParseInv'
<1>0. /\ pc \notin {"undefined", "count", "done"} /\ pc' # "undefined"
      /\ pc' \notin Early \cup Parsing /\ pc' \notin {"own_map", "own_result"}
      /\ pc \notin Early \cup Parsing
  BY DEF Counting, Filling, Looping, Visiting, Pairing, Pushing, Early, Parsing, Pending,
         Making
<1>1. StepFact
  BY <1>0, StepKinds
<1>2. PICK m, K : /\ m = slots[1] /\ 1 \in DOMAIN slots /\ Of(m, "HashMap")
                  /\ Fixed(K) /\ m \in K /\ object'[m] = object[m]
  <2>1. PICK K : Goes(K)
    BY <1>0, CountingHeap
  <2>2. PICK m : m = slots[1] /\ 1 \in DOMAIN slots /\ Of(m, "HashMap")
    BY CountedMap
  <2>3. m \in K /\ object[m].class = "HashMap"
    BY <2>1, <2>2 DEF Goes, Holds, Of
  <2>4. Fixed(K) /\ object'[m] = object[m]
    BY <2>1, <2>3 DEF Goes
  <2>5. QED
    BY <2>2, <2>3, <2>4
<1>3. slots'[1] = m
  <2>1. 1 <= Len(slots')
    <3>1. "hashMap" \in Frame(pc).names /\ "hashMap" \in Frame(pc').names
      BY DEF Counting, Filling, Looping, Visiting, Pairing, Pushing, Frame, FrameOf,
             InPush, InLoop, InCount
    <3>2. 1 \in DOMAIN slots'
      BY <1>0, <3>1, SlotsAreThereAfter DEF SlotsThere, Slot
    <3>3. QED
      BY <3>2
  <2>2. QED
    BY <1>0, <1>1, <1>2, <2>1, SlotsBelow DEF StepFact
<1>4. MapHolds(m, pos, 0) /\ pos = Len(text) /\ pos' = pos
  BY <1>0, <1>1, <1>2
     DEF ParseInv, MapAt, StepFact, Counting, Filling, Looping, Visiting, Pairing, Pushing
<1>5. MapHolds(m, pos, 0)'
  BY <1>2, <1>4, MapGoesOn
<1>6. MapHolds(slots[1], pos, 0)'
  BY <1>3, <1>5
<1>7. pos' = Len(text')
  BY <1>1, <1>4 DEF StepFact, inputVars
<1>8. WordAt(pc)'
  BY <1>0, NotPending DEF WordAt, Parsing, Pending, Making
<1>9. MapAt(pc)'
  BY <1>0, <1>6, <1>7 DEF MapAt, Parsing, Pending, Making
<1>10. QED
  BY <1>8, <1>9 DEF ParseInv

(* The steps that no object changes in and that start or end the counting. *)
LEMMA TurnParse ==
    ASSUME StackInv, StackInv', ObjectsInv, ObjectsInv', ParseInv, Count,
           pc \in {"count", "own_result", "print"}
    PROVE  ParseInv'
<1> USE NotPending DEF Pending, Making, Early, Parsing, Counting, Filling, Looping,
                       Visiting, Pairing, Pushing
<1>1. CASE pc = "count"
  <2>1. pc' = "parse_file" /\ pos' = pos
    BY <1>1 DEF Count, At, Goto, MakeHandle, countVars
  <2>2. WordAt(pc)'
    BY <2>1 DEF WordAt
  <2>3. QED
    BY <1>1, <2>1, <2>2 DEF ParseInv, MapAt
<1>2. CASE pc = "own_result"
  <2>1. /\ pc' = "iterator" /\ Push("hashMap", oop)
        /\ UNCHANGED <<inputVars, pos, object>>
    BY <1>2 DEF Count, At, Goto, MakeHandle, countVars, heapVars
  <2>2. Len(slots) = 0 /\ Of(oop, "HashMap")
    <3>1. Frame(pc) = FrameOf(<<0>>, {0}, {})
      BY <1>2 DEF Frame
    <3>2. QED
      BY <1>2, <3>1, DepthIs DEF FrameOf, ObjectsInv, PlaceInv, OopAt
  <2>3. slots'[1] = oop
    BY <1>2, <2>1, <2>2, SlotsKept
  <2>4. PICK m : m = oop
    OBVIOUS
  <2>5. MapHolds(m, pos, 0) /\ pos = Len(text)
    BY <1>2, <2>4 DEF ParseInv, MapAt
  <2>6. Same(InUse)
    BY <2>1, QuietSame
  <2>7. MapHolds(m, pos, 0)'
    BY <2>1, <2>2, <2>4, <2>5, <2>6, MapGoesOn DEF Same, Of
  <2>8. MapHolds(slots[1], pos, 0)'
    BY <2>3, <2>4, <2>7
  <2>9. pos' = Len(text')
    BY <2>1, <2>5 DEF inputVars
  <2>10. WordAt(pc)'
    BY <2>1 DEF WordAt
  <2>11. QED
    BY <2>1, <2>8, <2>9, <2>10 DEF ParseInv, MapAt
<1>3. CASE pc = "print"
  <2>1. pc' = "done" /\ UNCHANGED <<inputVars, pos>>
    BY <1>3 DEF Count, At, Goto, MakeHandle, countVars, heapVars
  <2>2. pos' = Len(text')
    BY <1>3, <2>1 DEF ParseInv, MapAt, inputVars
  <2>3. WordAt(pc)'
    BY <2>1 DEF WordAt
  <2>4. QED
    BY <2>1, <2>2, <2>3 DEF ParseInv, MapAt
<1>4. QED
  BY <1>1, <1>2, <1>3

LEMMA StutterParse ==
    ASSUME StackInv, ObjectsInv, ObjectsInv', ParseInv, UNCHANGED vars
    PROVE  ParseInv'
<1>0. /\ UNCHANGED <<object, inputVars, text, hash, pos, slots, oop, pc>>
  BY DEF vars, stackVars, heapVars, countVars, inputVars
<1>1. CASE pc = "undefined"
  BY <1>0, <1>1 DEF ParseInv
<1>2. CASE pc # "undefined"
  <2>1. Same(InUse) /\ InUse' = InUse
    BY <1>0, QuietSame
  <2>2. WordAt(pc)'
    <3>1. WordAt(pc)
      BY <1>2 DEF ParseInv
    <3>2. \A p, S : OnlyIn(p, S)' <=> OnlyIn(p, S)
      BY <1>0, <2>1 DEF OnlyIn, Trace
    <3>3. OnlyIn(oop, {})' <=> OnlyIn(oop, {})
      BY <1>0, <2>1 DEF OnlyIn, Trace
    <3>4. OnlyIn(slots[4], {})' <=> OnlyIn(slots[4], {})
      BY <1>0, <2>1 DEF OnlyIn, Trace
    <3>5. OnlyIn(slots[4], {oop})' <=> OnlyIn(slots[4], {oop})
      BY <1>0, <2>1 DEF OnlyIn, Trace
    <3>6. SizeT(1)' = SizeT(1) /\ WordsRead(pos - 1)' = WordsRead(pos - 1)
          /\ Node(slots[2], slots[4], hash[text[pos]])' = Node(slots[2], slots[4], hash[text[pos]])
      BY <1>0 DEF SizeT, WordsRead, Node, Object
    <3>7. QED
      BY <1>0, <3>1, <3>3, <3>4, <3>5, <3>6 DEF WordAt
  <2>3. ASSUME NEW m, Of(m, "HashMap")
        PROVE  \A n, more : MapHolds(m, n, more) => MapHolds(m, n, more)'
    BY <1>0, <2>1, <2>3, MapGoesOn DEF Same, Of
  <2>4. pc \in {"own_map", "own_result"} => Of(oop, "HashMap")
    BY DEF ObjectsInv, PlaceInv, OopAt
  <2>5. pc \in Parsing \cup Counting => Of(slots[1], "HashMap")
    <3>1. ASSUME pc \in Parsing \cup Counting
          PROVE  {"map", "hashMap"} \cap Frame(pc).names # {}
      BY <3>1 DEF Parsing, Pending, Making, Counting, Filling, Looping, Visiting, Pairing,
                  Pushing, Frame, FrameOf, InParse, InPush, InLoop, InCount
    <3>2. QED
      BY <1>2, <3>1, ReadsAre DEF Slot, ClassOf, IsA
  <2>6. PICK m, q, n : m = slots[1] /\ q = oop /\ n = pos
    OBVIOUS
  <2>7. MapAt(pc)
    BY <1>2 DEF ParseInv
  <2>8. /\ pc = "own_map" => MapHolds(oop, 0, 0)'
        /\ pc \in {"read_word", "put_done"} => MapHolds(slots[1], pos, 0)'
        /\ pc \in Pending \ {"make_node", "link"} => MapHolds(slots[1], pos - 1, 0)'
        /\ pc \in {"make_node", "link"} => MapHolds(slots[1], pos - 1, 1)'
        /\ pc = "own_result" => MapHolds(oop, pos, 0)'
        /\ pc \in Counting => MapHolds(slots[1], pos, 0)'
    <3>1. pc \in {"read_word", "put_done"} \cup Pending => pc \in Parsing
      BY DEF Parsing
    <3>2. pc \in {"make_node", "link"} => pc \in Parsing
      BY DEF Parsing, Pending, Making
    <3>3. pc \in {"own_map", "own_result"} => Of(q, "HashMap")
      BY <2>4, <2>6
    <3>4. pc \in Parsing \cup Counting => Of(m, "HashMap")
      BY <2>5, <2>6
    <3>5. pc \in {"own_map", "own_result"} =>
             \A j, more : MapHolds(q, j, more) => MapHolds(q, j, more)'
      BY <2>3, <3>3
    <3>6. pc \in Parsing \cup Counting =>
             \A j, more : MapHolds(m, j, more) => MapHolds(m, j, more)'
      BY <2>3, <3>4
    <3>7. /\ pc = "own_map" => MapHolds(q, 0, 0)
          /\ pc \in {"read_word", "put_done"} => MapHolds(m, n, 0)
          /\ pc \in Pending \ {"make_node", "link"} => MapHolds(m, n - 1, 0)
          /\ pc \in {"make_node", "link"} => MapHolds(m, n - 1, 1)
          /\ pc = "own_result" => MapHolds(q, n, 0)
          /\ pc \in Counting => MapHolds(m, n, 0)
      BY <2>6, <2>7 DEF MapAt
    <3>8. /\ pc = "own_map" => MapHolds(q, 0, 0)'
          /\ pc \in {"read_word", "put_done"} => MapHolds(m, n, 0)'
          /\ pc \in Pending \ {"make_node", "link"} => MapHolds(m, n - 1, 0)'
          /\ pc \in {"make_node", "link"} => MapHolds(m, n - 1, 1)'
          /\ pc = "own_result" => MapHolds(q, n, 0)'
          /\ pc \in Counting => MapHolds(m, n, 0)'
      BY <3>1, <3>2, <3>5, <3>6, <3>7
    <3>9. slots'[1] = m /\ oop' = q /\ pos' = n
      BY <1>0, <2>6
    <3>10. QED
      BY <3>8, <3>9
  <2>9. MapAt(pc)'
    BY <1>0, <2>7, <2>8 DEF MapAt
  <2>10. QED
    BY <2>2, <2>9 DEF ParseInv
<1>3. QED
  BY <1>1, <1>2

LEMMA InitParse == Init => ParseInv
BY DEF Init, ParseInv, WordAt, MapAt, Pending, Making, Early, Parsing, Counting, Filling,
       Looping, Visiting, Pairing, Pushing

(* From place to place while the words are counted. *)
LEMMA StaysCounting ==
    /\ MakeIterator => pc \in Counting /\ pc' \in Counting
    /\ VectorMake => pc \in Counting /\ pc' \in Counting
    /\ PairMake => pc \in Counting /\ pc' \in Counting
    /\ PushBack => pc \in Counting /\ pc' \in Counting
    /\ ResizeVector => pc \in Counting /\ pc' \in Counting
    /\ Count => \/ pc \in Counting /\ pc' \in Counting
                \/ pc \in {"count", "own_result", "print"}
<1> USE DEF MakeHandle, New, At, Goto
<1> DEFINE C == {"iterator", "make_iter", "init_iter", "own_iter", "make_array", "own_array",
                 "make_vector", "own_vector", "has_next", "next_word", "print", "own_node",
                 "add_count", "make_first", "push_back", "make_pair", "make_second",
                 "init_pair", "own_elem", "is_full", "resize", "make_larger", "copy_to",
                 "store"}
<1>1. Counting = C
  BY DEF Counting, Filling, Looping, Visiting, Pairing, Pushing
<1>2. MakeIterator => pc \in C /\ pc' \in C
  BY DEF MakeIterator
<1>3. VectorMake => pc \in C /\ pc' \in C
  BY DEF VectorMake
<1>4. PairMake => pc \in C /\ pc' \in C
  BY DEF PairMake
<1>5. PushBack => pc \in C /\ pc' \in C
  BY DEF PushBack
<1>6. ResizeVector => pc \in C /\ pc' \in C
  BY DEF ResizeVector
<1>7. Count => (pc \in C /\ pc' \in C) \/ pc \in {"count", "own_result", "print"}
  BY DEF Count
<1>8. QED
  BY <1>1, <1>2, <1>3, <1>4, <1>5, <1>6, <1>7

LEMMA NextParse ==
    StackInv /\ StackInv' /\ ObjectsInv /\ ObjectsInv' /\ ParseInv /\ [Next]_vars => ParseInv'
<1> SUFFICES ASSUME StackInv, StackInv', ObjectsInv, ObjectsInv', ParseInv, [Next]_vars
             PROVE  ParseInv'
  OBVIOUS
<1>1. CASE HashMapMake
  BY <1>1, HashMapMakeParse
<1>2. CASE Put
  BY <1>2, PutParse
<1>3. CASE UpdateValue
  BY <1>3, UpdateValueParse
<1>4. CASE ParseFile
  BY <1>4, ParseFileParse
<1>5. CASE LoseTrack
  BY <1>5 DEF LoseTrack, Goto, ParseInv
<1>6. CASE Stopped \/ UNCHANGED vars
  BY <1>6, StutterParse DEF Stopped
<1>7. CASE Count /\ pc \in {"count", "own_result", "print"}
  BY <1>7, TurnParse
<1>8. CASE Next /\ pc \in Counting /\ pc' \in Counting
  BY <1>8, CountingParse
<1>9. QED
  BY <1>1, <1>2, <1>3, <1>4, <1>5, <1>6, <1>7, <1>8, StaysCounting DEF Next

(* The map has each word that was read in one node, in the bucket of its   *)
(* hash, with its count; while a new word is on its way into the map, what *)
(* is made for it is not in the map yet.                                   *)
THEOREM MapInvariance == Spec => []ParseInv
<1> USE InitParse, NextParse, StackInvariance, ObjectsInvariance
<1>1. QED
  BY PTL DEF Spec

-----------------------------------------------------------------------------
(* The iterator.                                                           *)

(* new is an iterator of map m that has the nodes in S before it. *)
Leaves(new, m, t, S) ==
    \E x, w : /\ w \in Nat /\ x \in Nodes \cup {Null}
              /\ new = IteratorOf(x, m, w) /\ Follows(x, w, t)
              /\ From(x) \cup Rest(t, w) = S

(* HashMapIterator::advance leaves out empty buckets only. *)
LEMMA Advanced ==
    ASSUME HeapInv, NEW m, Of(m, "HashMap"), NEW t, t = object[m].ref.table,
           NEW n, Counts(t, n), object[m].val = 0 => NodesIn(t) = {},
           NEW v \in Nat, NEW iter, iter = IteratorOf(Null, m, v)
    PROVE  Leaves(Advance(iter), m, t, Rest(t, v))
<1> DEFINE hashMap == object[iter.ref.hashMap]
           table   == object[hashMap.ref.table]
           later   == {i \in iter.val .. table.val - 1 : table.ref[i] # Null}
<1>1. /\ iter.ref = [current |-> Null, next |-> Null, hashMap |-> m] /\ iter.val = v
      /\ iter.ref.hashMap = m
  BY DEF IteratorOf, Object
<1>2. Advance(iter) =
         CASE hashMap.val = 0 -> iter
           [] hashMap.val # 0 /\ later # {} ->
                 [iter EXCEPT !.ref.next = table.ref[Min(later)], !.val = Min(later) + 1]
           [] OTHER -> [iter EXCEPT !.val = table.val]
  BY Zenon DEF Advance
<1>3. hashMap = object[m] /\ table = object[t]
  BY <1>1
<1>4. t \in Tables
  BY TableOf
<1>5. PICK ref, len : ref = object[t].ref /\ len = object[t].val
  OBVIOUS
<1>6. /\ len \in Nat /\ \A i \in 0 .. len - 1 : ref[i] \in Nodes \cup {Null}
  BY <1>4, <1>5, TableIs
<1>7. /\ From(Null) = {} /\ Null \notin Nodes
      /\ \A b, x : x \in Rest(t, b) <=> \E i \in b .. len - 1 : x \in From(ref[i])
  BY <1>5, ChainsAre, NodesLeadToNodes, RestIs DEF ChainFacts, RestFact
<1>8. \A i \in 0 .. len - 1 : \A k \in From(ref[i]) : Bucket(t, object[k].val) = i
  BY <1>5 DEF Counts
<1>9. \A x : x \in NodesIn(t) <=> \E i \in 0 .. len - 1 : x \in From(ref[i])
  BY <1>7 DEF NodesIn
<1>10. \A S : S \subseteq v .. len - 1 => S \in SUBSET Nat
  BY <1>6
<1>11. later \subseteq v .. len - 1 /\ \A i \in v .. len - 1 : i \in later <=> ref[i] # Null
  BY <1>1, <1>3, <1>5
<1> HIDE DEF hashMap, table, later
<1>12. CASE hashMap.val = 0
  <2>1. Advance(iter) = IteratorOf(Null, m, v)
    BY <1>2, <1>12
  <2>2. NodesIn(t) = {}
    BY <1>3, <1>12
  <2>3. \A x : x \notin Rest(t, v)
    <3>1. \A i \in v .. len - 1 : i \in 0 .. len - 1
      BY <1>6
    <3>2. QED
      BY <1>7, <1>9, <2>2, <3>1
  <2>4. Follows(Null, v, t) /\ From(Null) \cup Rest(t, v) = Rest(t, v)
    BY <1>7, <2>3 DEF Follows
  <2>5. QED
    BY <2>1, <2>4 DEF Leaves
<1>13. CASE hashMap.val # 0 /\ later # {}
  <2>1. PICK b : b = Min(later)
    OBVIOUS
  <2>2. b \in later /\ \A i \in later : b <= i
    BY <1>10, <1>11, <1>13, <2>1, MinIsLeast
  <2>3. b \in v .. len - 1 /\ b \in Nat /\ b \in 0 .. len - 1
    BY <1>6, <1>11, <2>2
  <2>4. PICK x : x = ref[b]
    OBVIOUS
  <2>5. x # Null
    BY <1>11, <2>2, <2>3, <2>4
  <2>6. Advance(iter) = IteratorOf(x, m, b + 1)
    <3>1. table.ref[Min(later)] = x
      BY <1>3, <1>5, <2>1, <2>4
    <3>2. Advance(iter) = [iter EXCEPT !.ref.next = x, !.val = b + 1]
      BY <1>2, <1>13, <2>1, <3>1
    <3>3. QED
      BY <3>2 DEF IteratorOf, Object
  <2>7. Follows(x, b + 1, t)
    <3>1. From(x) \subseteq NodesIn(t)
      BY <1>9, <2>3, <2>4
    <3>2. \A k \in From(x) : Bucket(t, object[k].val) < b + 1
      BY <1>8, <2>3, <2>4
    <3>3. QED
      BY <2>5, <3>1, <3>2 DEF Follows
  <2>8. ASSUME NEW y PROVE y \in From(x) \cup Rest(t, b + 1) <=> y \in Rest(t, v)
    <3>1. \A i \in v .. len - 1 : i = b \/ i \in b + 1 .. len - 1 \/ ref[i] = Null
      <4>1. \A i \in v .. len - 1 : i < b => i \notin later
        BY <2>2, <2>3
      <4>2. QED
        BY <1>6, <1>11, <2>3, <4>1
    <3>2. \A i \in b + 1 .. len - 1 : i \in v .. len - 1
      BY <1>6, <2>3
    <3>3. QED
      BY <1>7, <2>3, <2>4, <3>1, <3>2
  <2>9. QED
    BY <1>6, <2>3, <2>4, <2>6, <2>7, <2>8 DEF Leaves
<1>14. CASE hashMap.val # 0 /\ later = {}
  <2>1. Advance(iter) = IteratorOf(Null, m, len)
    <3>1. Advance(iter) = [iter EXCEPT !.val = len]
      BY <1>2, <1>3, <1>5, <1>14
    <3>2. QED
      BY <3>1 DEF IteratorOf, Object
  <2>2. \A y : y \notin Rest(t, v) /\ y \notin Rest(t, len)
    <3>1. \A i \in v .. len - 1 : ref[i] = Null
      BY <1>11, <1>14
    <3>2. \A i : i \notin len .. len - 1
      BY <1>6
    <3>3. QED
      BY <1>7, <3>1, <3>2
  <2>3. Follows(Null, len, t) /\ From(Null) \cup Rest(t, len) = Rest(t, v)
    BY <1>7, <2>2 DEF Follows
  <2>4. QED
    BY <1>6, <2>1, <2>3 DEF Leaves
<1>15. QED
  BY <1>12, <1>13, <1>14

(* HashMapIterator::nextNode leaves out no node. *)
LEMMA NextNodeAhead ==
    ASSUME HeapInv, NEW m, Of(m, "HashMap"), NEW t, t = object[m].ref.table,
           NEW n, Counts(t, n), NEW e \in Nodes, NEW val \in Nat, Follows(e, val, t),
           NEW k, k = NextOf(e), object[m].val = 0 => NodesIn(t) = {},
           NEW new, new = IF k = Null THEN Advance(IteratorOf(k, m, val))
                          ELSE IteratorOf(k, m, val)
    PROVE  /\ e \in NodesIn(t)
           /\ Leaves(new, m, t, (From(e) \cup Rest(t, val)) \ {e})
<1>1. /\ From(Null) = {} /\ Null \notin Nodes
      /\ k \in Nodes \cup {Null} /\ From(e) = {e} \cup From(k) /\ e \notin From(k)
  BY ChainsAre, NodesLeadToNodes DEF ChainFacts
<1>2. t \in Tables
  BY TableOf
<1>3. /\ e \in NodesIn(t) /\ From(k) \subseteq NodesIn(t)
      /\ \A j \in From(e) : Bucket(t, object[j].val) < val
  BY <1>1 DEF Follows
<1>4. e \notin Rest(t, val)
  <2>1. PICK ref, len : ref = object[t].ref /\ len = object[t].val
    OBVIOUS
  <2>2. len \in Nat
    BY <1>2, <2>1, TableIs
  <2>3. SUFFICES ASSUME NEW i \in val .. len - 1, e \in From(ref[i]) PROVE FALSE
    BY <2>1, RestIs DEF RestFact
  <2>4. i \in 0 .. len - 1
    BY <2>2
  <2>5. Bucket(t, object[e].val) = i
    BY <2>1, <2>3, <2>4 DEF Counts
  <2>6. Bucket(t, object[e].val) < val
    BY <1>1, <1>3
  <2>7. QED
    BY <2>2, <2>5, <2>6
<1>5. CASE k = Null
  <2>0. PICK iter : iter = IteratorOf(Null, m, val) /\ new = Advance(iter)
    BY <1>5
  <2>1. Leaves(new, m, t, Rest(t, val))
    BY <2>0, Advanced
  <2>2. (From(e) \cup Rest(t, val)) \ {e} = Rest(t, val)
    BY <1>1, <1>4, <1>5
  <2>3. QED
    BY <1>3, <2>1, <2>2
<1>6. CASE k # Null
  <2>1. Follows(k, val, t)
    BY <1>1, <1>3, <1>6 DEF Follows
  <2>2. (From(e) \cup Rest(t, val)) \ {e} = From(k) \cup Rest(t, val)
    BY <1>1, <1>4
  <2>3. QED
    BY <1>1, <1>3, <1>6, <2>1, <2>2 DEF Leaves
<1>7. QED
  BY <1>5, <1>6

(* The map that is iterated has all the words of the text. *)
Whole(m, t) ==
    /\ m = slots[1] /\ Of(m, "HashMap") /\ t = object[m].ref.table /\ t \in Tables
    /\ Counts(t, Len(text)) /\ {Key(k) : k \in NodesIn(t)} = Range(text)
    /\ object[m].val = 0 => NodesIn(t) = {}

LEMMA MapIsWhole ==
    ASSUME StackInv, ObjectsInv, ParseInv, pc \in Counting
    PROVE  \E m, t : Whole(m, t)
<1>1. PICK m, t : m = slots[1] /\ t = object[m].ref.table
  OBVIOUS
<1>2. Of(m, "HashMap") /\ t \in Tables
  BY <1>1, CountedMap, TableOf DEF ObjectsInv
<1>3. pc # "undefined" /\ pc \notin Early \cup Parsing
  BY DEF Counting, Filling, Looping, Visiting, Pairing, Pushing, Early, Parsing, Pending,
         Making
<1>4. MapHolds(m, Len(text), 0)
  BY <1>1, <1>3 DEF ParseInv, MapAt
<1>5. /\ Counts(t, Len(text))
      /\ object[m].val = Cardinality(WordsRead(Len(text))) + 0
  BY <1>1, <1>4 DEF MapHolds
<1>6. {Key(k) : k \in NodesIn(t)} = WordsRead(Len(text))
  BY <1>5 DEF Counts
<1>7. text \in Seq(Words)
  BY DEF ObjectsInv, InputInv
<1>8. WordsRead(Len(text)) = Range(text)
  <2>1. DOMAIN text = 1 .. Len(text)
    BY <1>7
  <2>2. QED
    BY <2>1 DEF WordsRead, Range
<1>9. ASSUME object[m].val = 0 PROVE NodesIn(t) = {}
  <2>1. PICK W : W = WordsRead(Len(text))
    OBVIOUS
  <2>2. Len(text) \in Nat
    BY <1>7
  <2>3. IsFiniteSet(W)
    BY <2>1, <2>2, WordsAreFinite
  <2>4. Cardinality(W) = 0
    BY <1>5, <1>9, <2>1, <2>3, FS_CardinalityType
  <2>5. W = {}
    BY <2>3, <2>4, FS_EmptySet
  <2>6. QED
    BY <1>6, <2>1, <2>5
<1>10. QED
  BY <1>1, <1>2, <1>5, <1>6, <1>8, <1>9 DEF Whole

(* What is ahead of an iterator and what is in its map stay. *)
LEMMA IterGoesOn ==
    ASSUME HeapInv, HeapInv', NEW K, Fixed(K), NEW i \in K, Of(i, "HashMapIterator"),
           object'[i] = object[i], NEW m \in K, Of(m, "HashMap"), object'[m] = object[m],
           Iterates(i, m)
    PROVE  /\ Iterates(i, m)' /\ Ahead(i)' = Ahead(i) /\ Behind(i)' = Behind(i)
           /\ NodesIn(object[m].ref.table)' = NodesIn(object[m].ref.table)
           /\ Ahead(i) \subseteq NodesIn(object[m].ref.table)
           /\ \A k \in NodesIn(object[m].ref.table) : Key(k)' = Key(k) /\ k \in K
<1>0. Carried(K)
  BY DEF Fixed
<1>1. PICK t, x, w : t = object[m].ref.table /\ x = object[i].ref.next /\ w = object[i].val
  OBVIOUS
<1>2. /\ object'[m].ref.table = t /\ object'[i].ref.next = x /\ object'[i].val = w
      /\ object[i].ref.hashMap = m /\ object'[i].ref.hashMap = m
  BY <1>1 DEF Iterates
<1>3. t \in Tables /\ t \in K
  BY <1>0, <1>1, TableOf, TableIs DEF Carried
<1>4. /\ object'[t] = object[t] /\ NodesIn(t)' = NodesIn(t) /\ NodesIn(t) \subseteq K \cap Nodes
      /\ \A b \in Nat : Rest(t, b)' = Rest(t, b) /\ Rest(t, b) \subseteq K \cap Nodes
  BY <1>0, <1>3, TableCarried DEF NodesIn
<1>5. x \in (K \cap Nodes) \cup {Null} /\ w \in Nat
  <2>1. Formed(i) /\ i \in InUse /\ object[i].class = "HashMapIterator"
    BY DEF Of, HeapInv
  <2>2. OrNull(x, "Node") /\ x \in Trace(i) /\ w \in Nat
    BY <1>1, <2>1, TraceOfFormed DEF Formed
  <2>3. x \in Nodes \cup {Null} /\ (x # Null => x \in InUse)
    BY <2>2 DEF OrNull, Of, Nodes, InUse
  <2>4. QED
    BY <1>0, <2>2, <2>3 DEF Carried
<1>6. From(x)' = From(x) /\ From(x) \subseteq K \cap Nodes
  BY <1>0, <1>5, NodesCarried
<1>7. \A k \in K \cap Nodes : Key(k)' = Key(k) /\ object'[k] = object[k]
  BY <1>0, NodesCarried
<1>8. Follows(x, w, t)
  BY <1>1 DEF Iterates
<1>9. Follows(x, w, t)'
  <2>1. \A k \in From(x) : Bucket(t, object[k].val)' = Bucket(t, object[k].val)
    BY <1>4, <1>6, <1>7 DEF Bucket
  <2>2. Rest(t, w)' = Rest(t, w)
    BY <1>4, <1>5
  <2>3. QED
    BY <1>4, <1>6, <1>8, <2>1, <2>2 DEF Follows
<1>10. Ahead(i) = From(x) \cup Rest(t, w)
  BY <1>1, <1>2 DEF Ahead
<1>11. Ahead(i)' = From(x)' \cup Rest(t, w)'
  BY <1>2 DEF Ahead
<1>12. Ahead(i)' = Ahead(i) /\ Ahead(i) \subseteq K \cap Nodes
  BY <1>4, <1>5, <1>6, <1>10, <1>11
<1>13. Behind(i)' = Behind(i)
  <2>1. text' = text
    BY <1>0 DEF Carried, inputVars
  <2>2. {Key(k) : k \in Ahead(i)}' = {Key(k) : k \in Ahead(i)}
    BY <1>7, <1>12
  <2>3. QED
    BY <2>1, <2>2 DEF Behind
<1>14. Iterates(i, m)'
  BY <1>2, <1>9 DEF Iterates
<1>15. Ahead(i) \subseteq NodesIn(t)
  <2>1. Rest(t, w) \subseteq NodesIn(t)
    <3>1. \A j \in w .. object[t].val - 1 : j \in 0 .. object[t].val - 1
      BY <1>3, <1>5, TableIs
    <3>2. QED
      BY <3>1, RestIs DEF RestFact, NodesIn
  <2>2. QED
    BY <1>8, <1>10, <2>1 DEF Follows
<1>16. NodesIn(object[m].ref.table)' = NodesIn(object[m].ref.table)
  BY <1>1, <1>2, <1>4
<1>17. QED
  BY <1>1, <1>4, <1>7, <1>12, <1>13, <1>14, <1>15, <1>16

(* The order of the places of the loop. *)
LEMMA LoopOrder ==
    ASSUME Next, pc \in Filling \cup Looping, pc' # "undefined"
    PROVE  \/ pc \in Filling /\ pc' \in Filling \cup {"has_next"}
           \/ pc \in Visiting /\ pc' \in (Visiting \ {"own_node"}) \cup {"next_word"}
           \/ pc = "next_word" /\ pc' = "has_next"
           \/ pc = "has_next" /\ pc' \in {"own_node", "print"}
           \/ pc = "print" /\ pc' = "done"
<1>1. ~LoseTrack
  BY DEF LoseTrack, Goto
<1> USE DEF MakeHandle, New, At, Goto
<1>2. /\ ~Stopped
      /\ ~HashMapMake
      /\ ~Put
  BY DEF Stopped, HashMapMake, Put, Filling, Looping, Visiting, Pairing, Pushing
<1>3. ~UpdateValue /\ ~ParseFile /\ ~MakeIterator
  BY DEF UpdateValue, ParseFile, MakeIterator, Filling, Looping, Visiting, Pairing, Pushing
<1>4. VectorMake => pc \in Filling /\ pc' \in Filling
  BY DEF VectorMake, Filling
<1>5. PairMake => pc \in Visiting /\ pc' \in Visiting \ {"own_node"}
  BY DEF PairMake, Visiting, Pairing
<1>6. PushBack => pc \in Visiting /\ pc' \in (Visiting \ {"own_node"}) \cup {"next_word"}
  BY DEF PushBack, Visiting, Pushing
<1>7. ResizeVector => pc \in Visiting /\ pc' \in Visiting \ {"own_node"}
  BY DEF ResizeVector, Visiting, Pushing
<1>8. Count => \/ pc \in Filling /\ pc' \in Filling \cup {"has_next"}
               \/ pc \in Visiting /\ pc' \in (Visiting \ {"own_node"}) \cup {"next_word"}
               \/ pc = "next_word" /\ pc' = "has_next"
               \/ pc = "has_next" /\ pc' \in {"own_node", "print"}
               \/ pc = "print" /\ pc' = "done"
  BY DEF Count, Filling, Looping, Visiting, Pairing, Pushing
<1>9. QED
  BY <1>1, <1>2, <1>3, <1>4, <1>5, <1>6, <1>7, <1>8 DEF Next

LEMMA LoopFrames ==
    ASSUME NEW l \in Filling \cup Looping
    PROVE  "hashMap" \in Frame(l).names /\ "iter" \in Frame(l).names
<1>1. "hashMap" \in Frame(l).names
  BY DEF Filling, Looping, Visiting, Pairing, Pushing, Frame, FrameOf, InPush, InLoop,
         InCount
<1>2. "iter" \in Frame(l).names
  BY DEF Filling, Looping, Visiting, Pairing, Pushing, Frame, FrameOf, InPush, InLoop,
         InCount
<1>3. QED
  BY <1>1, <1>2

(* Where the iterator is. *)
LEMMA TheIterator ==
    ASSUME StackInv, ObjectsInv, pc \in Filling \cup Looping
    PROVE  /\ 1 \in DOMAIN slots /\ Of(slots[1], "HashMap")
           /\ 2 \in DOMAIN slots /\ Of(slots[2], "HashMapIterator")
<1>1. "hashMap" \in Frame(pc).names /\ "iter" \in Frame(pc).names /\ pc # "undefined"
  BY LoopFrames DEF Filling, Looping, Visiting, Pairing, Pushing
<1>2. QED
  BY <1>1, ReadsAre DEF Slot, ClassOf, IsA

(* Map and iterator after a step that does not ask it for a node. *)
IterKept(i, m, t) ==
    /\ i = slots[2] /\ slots'[2] = i /\ m = slots[1] /\ slots'[1] = m
    /\ Iterates(i, m)' /\ Ahead(i)' = Ahead(i) /\ Behind(i)' = Behind(i)
    /\ t = object[m].ref.table /\ t = object'[m].ref.table
    /\ NodesIn(t)' = NodesIn(t) /\ Ahead(i) \subseteq NodesIn(t)
    /\ \A k \in NodesIn(t) : Key(k)' = Key(k)

LEMMA IterStays ==
    ASSUME StackInv, StackInv', ObjectsInv, ObjectsInv', Next,
           pc \in Filling \cup Looping, pc' \in Filling \cup Looping, pc' # "own_node",
           Iterates(slots[2], slots[1])
    PROVE  \E i, m, t : IterKept(i, m, t)
<1>0. /\ pc \notin {"undefined", "count", "done", "init_iter"} /\ pc' # "undefined"
      /\ pc \in Counting
      /\ HeapInv /\ HeapInv'
  BY DEF Counting, Filling, Looping, Visiting, Pairing, Pushing, ObjectsInv
<1>1. PICK i, m, t : i = slots[2] /\ m = slots[1] /\ t = object[m].ref.table
  OBVIOUS
<1>2. /\ 1 \in DOMAIN slots /\ Of(m, "HashMap")
      /\ 2 \in DOMAIN slots /\ Of(i, "HashMapIterator")
  BY <1>1, TheIterator
<1>3. PICK K : Goes(K)
  BY <1>0, CountingHeap
<1>4. m \in K /\ i \in K
  BY <1>1, <1>2, <1>3 DEF Goes, Holds, Of
<1>5. pc = "has_next" => pc' = "print"
  <2>1. "has_next" \notin Filling \cup Visiting
    BY DEF Filling, Visiting, Pairing, Pushing
  <2>2. QED
    BY <1>0, <2>1, LoopOrder
<1>6. object'[m] = object[m] /\ object'[i] = object[i] /\ Fixed(K)
  BY <1>0, <1>2, <1>3, <1>4, <1>5 DEF Goes, Of
<1>7. slots'[2] = i /\ slots'[1] = m
  <2>1. 1 <= Len(slots') /\ 2 <= Len(slots')
    <3>1. "hashMap" \in Frame(pc').names /\ "iter" \in Frame(pc').names
      BY LoopFrames
    <3>2. 1 \in DOMAIN slots' /\ 2 \in DOMAIN slots'
      BY <1>0, <3>1, SlotsAreThereAfter DEF SlotsThere, Slot
    <3>3. QED
      BY <3>2
  <2>2. slots' = slots \/ (\E h, p : Push(h, p)) \/ Leave
    BY <1>0, StepKinds DEF StepFact
  <2>3. QED
    BY <1>0, <1>1, <1>2, <2>1, <2>2, SlotsBelow
<1>8. Iterates(i, m)
  BY <1>1
<1>9. /\ Iterates(i, m)' /\ Ahead(i)' = Ahead(i) /\ Behind(i)' = Behind(i)
      /\ NodesIn(object[m].ref.table)' = NodesIn(object[m].ref.table)
      /\ Ahead(i) \subseteq NodesIn(object[m].ref.table)
      /\ \A k \in NodesIn(object[m].ref.table) : Key(k)' = Key(k)
  BY <1>0, <1>2, <1>4, <1>6, <1>8, IterGoesOn
<1>10. NodesIn(t)' = NodesIn(t)
  BY <1>1, <1>6, <1>9
<1>11. QED
  BY <1>1, <1>6, <1>7, <1>9, <1>10 DEF IterKept

(* What the iterator has before it when it has been advanced. *)
LEMMA LeavesAfter ==
    ASSUME HeapInv, HeapInv', Fixed(InUse), NEW m, Of(m, "HashMap"), object'[m] = object[m],
           NEW t, t = object[m].ref.table, NEW i, NEW S, Leaves(object'[i], m, t, S)
    PROVE  /\ Iterates(i, m)' /\ Ahead(i)' = S
           /\ Behind(i)' = Range(text) \ {Key(k) : k \in S}
           /\ NodesIn(t)' = NodesIn(t) /\ t = object'[m].ref.table
           /\ \A k \in Nodes : Key(k)' = Key(k)
<1>0. Carried(InUse)
  BY DEF Fixed
<1>1. PICK x, w : /\ w \in Nat /\ x \in Nodes \cup {Null}
                  /\ object'[i] = IteratorOf(x, m, w) /\ Follows(x, w, t)
                  /\ From(x) \cup Rest(t, w) = S
  BY DEF Leaves
<1>2. object'[i].ref.next = x /\ object'[i].val = w /\ object'[i].ref.hashMap = m
      /\ object'[m].ref.table = t
  BY <1>1 DEF IteratorOf, Object
<1>3. t \in Tables /\ t \in InUse
  BY TableOf, TableIs
<1>4. \A k \in Nodes : k \in InUse
  BY NodesLeadToNodes
<1>5. /\ object'[t] = object[t] /\ NodesIn(t)' = NodesIn(t) /\ NodesIn(t) \subseteq Nodes
      /\ \A b \in Nat : Rest(t, b)' = Rest(t, b) /\ Rest(t, b) \subseteq Nodes
  BY <1>0, <1>3, TableCarried DEF NodesIn
<1>6. /\ From(x)' = From(x) /\ From(x) \subseteq Nodes
      /\ \A k \in Nodes : Key(k)' = Key(k) /\ object'[k] = object[k]
  BY <1>0, <1>1, <1>4, NodesCarried
<1>7. Follows(x, w, t)'
  <2>1. \A k \in From(x) : Bucket(t, object[k].val)' = Bucket(t, object[k].val)
    BY <1>5, <1>6 DEF Bucket
  <2>2. Rest(t, w)' = Rest(t, w)
    BY <1>1, <1>5
  <2>3. QED
    BY <1>1, <1>5, <1>6, <2>1, <2>2 DEF Follows
<1>8. Iterates(i, m)'
  BY <1>2, <1>7 DEF Iterates
<1>9. Ahead(i)' = From(x)' \cup Rest(t, w)'
  BY <1>2 DEF Ahead
<1>10. Ahead(i)' = S /\ S \subseteq Nodes
  BY <1>1, <1>5, <1>6, <1>9
<1>11. Behind(i)' = Range(text) \ {Key(k) : k \in S}
  <2>1. text' = text
    BY <1>0 DEF Carried, inputVars
  <2>2. {Key(k) : k \in Ahead(i)}' = {Key(k) : k \in S}
    BY <1>6, <1>10
  <2>3. QED
    BY <2>1, <2>2 DEF Behind
<1>12. QED
  BY <1>2, <1>5, <1>6, <1>8, <1>10, <1>11

LEMMA InitIterInv ==
    ASSUME StackInv, ObjectsInv, ObjectsInv', ParseInv, MakeIterator, pc = "init_iter"
    PROVE  IterInv'
<1>1. /\ pc' = "own_iter" /\ slots' = slots /\ oop' = oop /\ Only({oop})
      /\ Of(oop, "HashMapIterator") /\ Of(slots[1], "HashMap")
      /\ object'[oop] = Advance(IteratorOf(Null, slots[1], 0))
  BY InitIterShape
<1>2. PICK m, t : Whole(m, t)
  BY MapIsWhole DEF Counting
<1>3. PICK i, iter : i = oop /\ iter = IteratorOf(Null, m, 0)
  OBVIOUS
<1>4. /\ Of(m, "HashMap") /\ t = object[m].ref.table /\ Counts(t, Len(text))
      /\ (object[m].val = 0 => NodesIn(t) = {}) /\ m = slots[1]
      /\ HeapInv /\ HeapInv'
  BY <1>2 DEF Whole, ObjectsInv
<1>5. Leaves(Advance(iter), m, t, Rest(t, 0))
  BY <1>3, <1>4, Advanced
<1>6. object'[i] = Advance(iter)
  BY <1>1, <1>3, <1>4
<1>7. Leaves(object'[i], m, t, NodesIn(t))
  BY <1>5, <1>6 DEF NodesIn
<1>8. Fixed(InUse) /\ object'[m] = object[m]
  BY <1>1, <1>4, OnlyFixes DEF Of
<1>9. Iterates(i, m)' /\ Behind(i)' = Range(text) \ {Key(k) : k \in NodesIn(t)}
  BY <1>4, <1>7, <1>8, LeavesAfter
<1>10. Behind(i)' = {}
  BY <1>2, <1>9 DEF Whole
<1>11. Iterates(oop, slots[1])' /\ Behind(oop)' = {}
  BY <1>1, <1>3, <1>4, <1>9, <1>10
<1>12. QED
  BY <1>1, <1>11 DEF IterInv, IterAt, Filling, Looping, Visiting, Pairing, Pushing

(* The loop takes the next node. *)
Takes(i, m, t, e) ==
    /\ i = slots[2] /\ slots' = slots /\ m = slots[1] /\ oop' = e
    /\ t = object[m].ref.table /\ t = object'[m].ref.table
    /\ Iterates(i, m)' /\ NodesIn(t)' = NodesIn(t)
    /\ e \in NodesIn(t) /\ e \in Ahead(i) /\ Ahead(i)' = Ahead(i) \ {e}
    /\ Behind(i)' = Range(text) \ {Key(k) : k \in Ahead(i) \ {e}}
    /\ Ahead(i) \subseteq NodesIn(t)
    /\ \A k \in Nodes : Key(k)' = Key(k)

LEMMA LoopTakes ==
    ASSUME StackInv, ObjectsInv, ObjectsInv', ParseInv, IterInv, Count, pc = "has_next",
           pc' # "print"
    PROVE  \E i, m, t, e : Takes(i, m, t, e)
<1>1. /\ pc' = "own_node" /\ slots' = slots /\ Only({slots[2]})
      /\ \E e, m, val, k : GoesOn(slots[2], e, m, val, k)
  BY HasNextShape
<1>2. PICK i, e, m, val, k : i = slots[2] /\ GoesOn(i, e, m, val, k)
  BY <1>1
<1>3. /\ Of(i, "HashMapIterator") /\ Of(slots[1], "HashMap") /\ Iterates(i, slots[1])
      /\ HeapInv /\ HeapInv'
  BY <1>2, TheIterator DEF Looping, IterInv, IterAt, ObjectsInv
<1>4. object[i].ref.next = e /\ object[i].ref.hashMap = m /\ object[i].val = val
  BY <1>2 DEF GoesOn, IteratorOf, Object
<1>5. PICK t : Whole(m, t) /\ m = slots[1]
  BY <1>3, <1>4, MapIsWhole DEF Counting, Looping, Iterates, Whole
<1>6. /\ Of(m, "HashMap") /\ t = object[m].ref.table /\ Counts(t, Len(text))
      /\ (object[m].val = 0 => NodesIn(t) = {})
  BY <1>5 DEF Whole
<1>7. Follows(e, val, t)
  BY <1>3, <1>4, <1>5, <1>6 DEF Iterates
<1>8. e \in Nodes /\ val \in Nat /\ k = NextOf(e)
  BY <1>2 DEF GoesOn, Of, Nodes, InUse
<1>9. object'[i] = IF k = Null THEN Advance(IteratorOf(k, m, val)) ELSE IteratorOf(k, m, val)
  BY <1>2 DEF GoesOn
<1>10. e \in NodesIn(t) /\ Leaves(object'[i], m, t, (From(e) \cup Rest(t, val)) \ {e})
  BY <1>3, <1>6, <1>7, <1>8, <1>9, NextNodeAhead
<1>11. Ahead(i) = From(e) \cup Rest(t, val) /\ e \in Ahead(i)
  <2>1. Ahead(i) = From(e) \cup Rest(t, val)
    BY <1>4, <1>6 DEF Ahead
  <2>2. e \in From(e)
    BY <1>3, <1>8, ChainsAre DEF ChainFacts
  <2>3. QED
    BY <2>1, <2>2
<1>12. Leaves(object'[i], m, t, Ahead(i) \ {e})
  BY <1>10, <1>11
<1>13. Fixed(InUse) /\ object'[m] = object[m]
  <2>1. m # i /\ m \in InUse
    BY <1>3, <1>6 DEF Of
  <2>2. QED
    BY <1>1, <1>2, <2>1, OnlyFixes
<1>14. /\ Iterates(i, m)' /\ Ahead(i)' = Ahead(i) \ {e}
       /\ Behind(i)' = Range(text) \ {Key(j) : j \in Ahead(i) \ {e}}
       /\ NodesIn(t)' = NodesIn(t) /\ t = object'[m].ref.table
       /\ \A j \in Nodes : Key(j)' = Key(j)
  BY <1>3, <1>6, <1>12, <1>13, LeavesAfter
<1>15. Ahead(i) \subseteq NodesIn(t)
  <2>1. Rest(t, val) \subseteq NodesIn(t)
    <3>1. t \in Tables /\ val \in Nat
      BY <1>5, <1>8 DEF Whole
    <3>2. \A j \in val .. object[t].val - 1 : j \in 0 .. object[t].val - 1
      BY <1>3, <3>1, TableIs
    <3>3. QED
      BY <3>2, RestIs DEF RestFact, NodesIn
  <2>2. QED
    BY <1>7, <1>11, <2>1 DEF Follows
<1>16. oop' = e
  BY <1>2 DEF GoesOn
<1>17. Takes(i, m, t, e)
  BY <1>1, <1>2, <1>5, <1>6, <1>10, <1>11, <1>14, <1>15, <1>16 DEF Takes
<1>18. QED
  BY <1>17

LEMMA TakesIter ==
    ASSUME StackInv, ObjectsInv, ObjectsInv', ParseInv, IterInv, Count, pc = "has_next",
           pc' # "print"
    PROVE  IterInv'
<1>1. PICK i, m, t, e : Takes(i, m, t, e)
  BY LoopTakes
<1>2. pc' = "own_node"
  BY HasNextShape
<1>3. Iterates(slots[2], slots[1])'
  BY <1>1 DEF Takes
<1>4. oop' \in NodesIn(object[slots[1]].ref.table)' \ Ahead(slots[2])'
  <2>1. Ahead(slots[2])' = Ahead(i)' /\ NodesIn(object[slots[1]].ref.table)' = NodesIn(t)'
    BY <1>1 DEF Takes
  <2>2. QED
    BY <1>1, <2>1 DEF Takes
<1>5. QED
  BY <1>2, <1>3, <1>4
     DEF IterInv, IterAt, Current, Filling, Looping, Visiting, Pairing, Pushing

(* own_iter: the iterator has its Handle. *)
LEMMA OwnIter ==
    ASSUME StackInv, StackInv', ObjectsInv, ObjectsInv', IterInv, Count, pc = "own_iter"
    PROVE  IterInv'
<1>1. /\ pc' = "make_array" /\ Push("iter", oop) /\ UNCHANGED <<object, inputVars>>
  BY DEF Count, MakeHandle, At, Goto, heapVars
<1>2. Len(slots) = 1 /\ Of(slots[1], "HashMap") /\ Of(oop, "HashMapIterator")
  <2>1. Frame(pc) = FrameOf(<<0>>, {1}, {"hashMap"})
    BY DEF Frame
  <2>2. QED
    BY <2>1, DepthIs, ReadsAre
       DEF FrameOf, Slot, ClassOf, IsA, ObjectsInv, PlaceInv, OopAt
<1>3. slots'[1] = slots[1] /\ slots'[2] = oop
  BY <1>1, <1>2, SlotsKept
<1>4. PICK i, m : i = oop /\ m = slots[1]
  OBVIOUS
<1>5. Iterates(i, m) /\ Behind(i) = {}
  BY <1>4 DEF IterInv, IterAt
<1>6. Fixed(InUse) /\ i \in InUse /\ m \in InUse
  BY <1>1, <1>2, <1>4, QuietSame DEF Same, Of
<1>7. Iterates(i, m)' /\ Behind(i)' = Behind(i)
  BY <1>1, <1>2, <1>4, <1>5, <1>6, IterGoesOn DEF ObjectsInv
<1>8. Iterates(slots[2], slots[1])' /\ Behind(slots[2])' = {}
  BY <1>3, <1>4, <1>5, <1>7
<1>9. QED
  BY <1>1, <1>8 DEF IterInv, IterAt, Filling, Looping, Visiting, Pairing, Pushing

(* The Handle curr stays while the loop is at its node. *)
LEMMA CurrentStays ==
    ASSUME StackInv, StackInv', ObjectsInv, Next, pc \in Visiting,
           pc' \in (Visiting \ {"own_node"}) \cup {"next_word"}
    PROVE  slots'[4] = Current(pc)
<1>1. CASE pc = "own_node"
  <2>1. Len(slots) = 3 /\ Push("curr", oop)
    <3>1. Frame(pc) = FrameOf(<<0, 3>>, {3}, InCount)
      BY <1>1 DEF Frame
    <3>2. pc' # "undefined"
      BY DEF Visiting, Pairing, Pushing
    <3>3. Count
      BY <1>1, <3>2, ActionAt
    <3>4. QED
      BY <1>1, <3>1, <3>3, DepthIs DEF FrameOf, Count, MakeHandle, At
  <2>2. QED
    BY <1>1, <2>1, SlotsKept DEF Current
<1>2. CASE pc # "own_node"
  <2>1. /\ pc \notin {"undefined", "count", "done"} /\ pc' # "undefined"
    BY DEF Visiting, Pairing, Pushing
  <2>2. "curr" \in Frame(pc).names
    BY <1>2 DEF Visiting, Pairing, Pushing, Frame, FrameOf, InPush, InLoop, InCount
  <2>3. "curr" \in Frame(pc').names
    BY DEF Visiting, Pairing, Pushing, Frame, FrameOf, InPush, InLoop, InCount
  <2>4. 4 \in DOMAIN slots
    BY <2>1, <2>2, NamesHaveSlots DEF Slot
  <2>5. 4 \in DOMAIN slots'
    BY <2>1, <2>3, SlotsAreThereAfter DEF SlotsThere, Slot
  <2>6. 4 <= Len(slots')
    BY <2>5
  <2>7. slots' = slots \/ (\E h, p : Push(h, p)) \/ Leave
    BY <2>1, StepKinds DEF StepFact
  <2>8. QED
    BY <1>2, <2>1, <2>4, <2>6, <2>7, SlotsBelow DEF Current
<1>3. QED
  BY <1>1, <1>2

LEMMA LoopIter ==
    ASSUME StackInv, StackInv', ObjectsInv, ObjectsInv', IterInv, Next,
           pc \in Filling \cup Looping, pc' \in Filling \cup Looping, pc' # "own_node"
    PROVE  IterInv'
<1>0. pc # "undefined" /\ pc' # "undefined"
  BY DEF Filling, Looping, Visiting, Pairing, Pushing
<1>1. IterAt(pc)
  BY <1>0 DEF IterInv
<1>2. PICK i, m, t : IterKept(i, m, t)
  BY <1>1, IterStays DEF IterAt
<1>3. /\ Iterates(slots[2], slots[1])'
      /\ Behind(slots[2])' = Behind(i) /\ Ahead(slots[2])' = Ahead(i)
      /\ NodesIn(object[slots[1]].ref.table)' = NodesIn(t)
      /\ i = slots[2] /\ t = object[slots[1]].ref.table
  BY <1>2 DEF IterKept
<1>4. \/ pc \in Filling /\ pc' \in Filling \cup {"has_next"}
      \/ pc \in Visiting /\ pc' \in (Visiting \ {"own_node"}) \cup {"next_word"}
      \/ pc = "next_word" /\ pc' = "has_next"
      \/ pc = "has_next" /\ pc' = "print"
  <2>1. pc' # "done"
    BY DEF Filling, Looping, Visiting, Pairing, Pushing
  <2>2. QED
    BY <1>0, <2>1, LoopOrder
<1>5. pc' \in Filling => Behind(slots[2])' = {}
  <2>1. pc' \in Filling => pc \in Filling
    BY <1>4 DEF Filling, Visiting, Pairing, Pushing
  <2>2. QED
    BY <1>1, <1>3, <2>1 DEF IterAt
<1>6. pc' \in Visiting =>
         slots'[4] \in NodesIn(object[slots[1]].ref.table)' \ Ahead(slots[2])'
  <2>1. SUFFICES ASSUME pc' \in Visiting
                 PROVE  slots'[4] \in NodesIn(t) \ Ahead(i)
    BY <1>3
  <2>2. pc \in Visiting /\ pc' \in (Visiting \ {"own_node"}) \cup {"next_word"}
    BY <1>4, <2>1 DEF Filling, Visiting, Pairing, Pushing
  <2>3. slots'[4] = Current(pc)
    BY <2>2, CurrentStays
  <2>4. Current(pc) \in NodesIn(t) \ Ahead(i)
    BY <1>1, <1>3, <2>2 DEF IterAt
  <2>5. QED
    BY <2>3, <2>4
<1>7. pc' = "print" => Ahead(slots[2])' = {}
  <2>1. SUFFICES ASSUME pc' = "print" PROVE Ahead(i) = {}
    BY <1>3
  <2>2. pc = "has_next"
    BY <1>4, <2>1 DEF Filling, Visiting, Pairing, Pushing
  <2>3. object[slots[2]].ref.next = Null
    <3>1. Count
      BY <1>0, <2>2, ActionAt
    <3>2. object[Read("iter")].ref.next = Null
      BY <2>1, <2>2, <3>1 DEF Count, At, Goto, MakeHandle
    <3>3. Read("iter") = slots[2]
      BY <2>2, ReadsAre DEF Frame, FrameOf, InCount, Slot
    <3>4. QED
      BY <3>2, <3>3
  <2>4. Iterates(slots[2], slots[1])
    BY <1>1, <2>2 DEF IterAt, Looping
  <2>5. Ahead(slots[2]) = From(Null) \cup {}
    BY <2>3, <2>4 DEF Iterates, Follows, Ahead
  <2>6. From(Null) = {}
    BY ChainsAre DEF ChainFacts, ObjectsInv
  <2>7. QED
    BY <1>3, <2>5, <2>6
<1>8. Current(pc)' = slots'[4]
  BY DEF Current
<1>9. pc' # "own_iter"
  BY DEF Filling, Looping, Visiting, Pairing, Pushing
<1>10. QED
  BY <1>3, <1>5, <1>6, <1>7, <1>8, <1>9 DEF IterInv, IterAt

(* Where the iteration comes from. *)
LEMMA LoopEntry ==
    ASSUME Next, pc' # "undefined", pc # "done"
    PROVE  /\ pc' = "own_iter" => pc = "init_iter"
           /\ pc' \in Filling \cup Looping => pc \in {"own_iter"} \cup Filling \cup Looping
           /\ pc' = "own_node" => pc = "has_next"
<1> USE DEF MakeHandle, New, At, Goto, Filling, Looping, Visiting, Pairing, Pushing
<1> DEFINE Fact == /\ pc' = "own_iter" => pc = "init_iter"
                   /\ pc' \in Filling \cup Looping => pc \in {"own_iter"} \cup Filling \cup Looping
                   /\ pc' = "own_node" => pc = "has_next"
<1>1. HashMapMake \/ Put => Fact
  BY DEF HashMapMake, Put
<1>2. MakeIterator \/ VectorMake \/ PairMake => Fact
  BY DEF MakeIterator, VectorMake, PairMake
<1>3. PushBack \/ ResizeVector => Fact
  BY DEF PushBack, ResizeVector
<1>4. UpdateValue \/ ParseFile => Fact
  BY DEF UpdateValue, ParseFile
<1>5. Count => Fact
  BY DEF Count
<1>6. LoseTrack \/ Stopped => Fact
  BY DEF LoseTrack, Stopped, vars
<1>7. QED
  BY <1>1, <1>2, <1>3, <1>4, <1>5, <1>6 DEF Next

LEMMA StutterIter ==
    ASSUME StackInv, ObjectsInv, ObjectsInv', IterInv, UNCHANGED vars PROVE IterInv'
<1>0. UNCHANGED <<object, slots, oop, pc>> /\ UNCHANGED inputVars
  BY DEF vars, stackVars, heapVars, countVars
<1>1. CASE pc \in Filling \cup Looping
  <2>1. PICK i, m : i = slots[2] /\ m = slots[1]
    OBVIOUS
  <2>2. Of(m, "HashMap") /\ Of(i, "HashMapIterator") /\ Iterates(i, m)
    BY <1>1, <2>1, TheIterator DEF IterInv, IterAt, Filling, Looping, Visiting, Pairing, Pushing
  <2>3. Fixed(InUse) /\ i \in InUse /\ m \in InUse
    BY <1>0, <2>2, QuietSame DEF Same, Of
  <2>4. /\ Iterates(i, m)' /\ Ahead(i)' = Ahead(i) /\ Behind(i)' = Behind(i)
        /\ NodesIn(object[m].ref.table)' = NodesIn(object[m].ref.table)
    BY <1>0, <2>2, <2>3, IterGoesOn DEF ObjectsInv
  <2>5. slots'[2] = i /\ slots'[1] = m
    BY <1>0, <2>1
  <2>6. Current(pc)' = Current(pc)
    BY <1>0 DEF Current
  <2>7. /\ Iterates(slots[2], slots[1])' /\ Ahead(slots[2])' = Ahead(i)
        /\ Behind(slots[2])' = Behind(i)
        /\ NodesIn(object[slots[1]].ref.table)' = NodesIn(object[m].ref.table)
    BY <2>4, <2>5
  <2>8. IterAt(pc)
    BY <1>1 DEF IterInv, Filling, Looping, Visiting, Pairing, Pushing
  <2>9. pc \in Filling => Behind(slots[2])' = {}
    BY <2>1, <2>7, <2>8 DEF IterAt
  <2>10. pc = "print" => Ahead(slots[2])' = {}
    BY <2>1, <2>7, <2>8 DEF IterAt
  <2>11. pc \in Visiting =>
           Current(pc)' \in NodesIn(object[slots[1]].ref.table)' \ Ahead(slots[2])'
    BY <2>1, <2>6, <2>7, <2>8 DEF IterAt
  <2>12. pc # "own_iter"
    BY <1>1 DEF Filling, Looping, Visiting, Pairing, Pushing
  <2>13. IterAt(pc)'
    BY <1>0, <2>7, <2>9, <2>10, <2>11, <2>12 DEF IterAt
  <2>14. QED
    BY <2>13 DEF IterInv
<1>2. CASE pc = "own_iter"
  <2>1. PICK i, m : i = oop /\ m = slots[1]
    OBVIOUS
  <2>2. Of(m, "HashMap")
    BY <1>2, <2>1, CountedMap DEF Counting
  <2>3. Of(i, "HashMapIterator") /\ Iterates(i, m) /\ Behind(i) = {}
    <3>1. Of(oop, "HashMapIterator")
      BY <1>2 DEF ObjectsInv, PlaceInv, OopAt, IsA
    <3>2. IterAt(pc)
      BY <1>2 DEF IterInv
    <3>3. QED
      BY <1>2, <2>1, <3>1, <3>2 DEF IterAt
  <2>4. Fixed(InUse) /\ i \in InUse /\ m \in InUse
    BY <1>0, <2>2, <2>3, QuietSame DEF Same, Of
  <2>5. Iterates(i, m)' /\ Behind(i)' = Behind(i)
    BY <1>0, <2>2, <2>3, <2>4, IterGoesOn DEF ObjectsInv
  <2>6. Iterates(oop, slots[1])' /\ Behind(oop)' = {}
    BY <1>0, <2>1, <2>3, <2>5
  <2>7. QED
    BY <1>0, <1>2, <2>6 DEF IterInv, IterAt, Filling, Looping, Visiting, Pairing, Pushing
<1>3. CASE pc \notin {"own_iter"} \cup Filling \cup Looping
  BY <1>0, <1>3 DEF IterInv, IterAt, Looping
<1>4. QED
  BY <1>1, <1>2, <1>3

LEMMA InitIter == Init => IterInv
BY DEF Init, IterInv, IterAt, Filling, Looping, Visiting, Pairing, Pushing

LEMMA NextIter ==
    StackInv /\ StackInv' /\ ObjectsInv /\ ObjectsInv' /\ ParseInv /\ IterInv /\ [Next]_vars
      => IterInv'
<1> SUFFICES ASSUME StackInv, StackInv', ObjectsInv, ObjectsInv', ParseInv, IterInv,
                    [Next]_vars
             PROVE  IterInv'
  OBVIOUS
<1>1. CASE UNCHANGED vars
  BY <1>1, StutterIter
<1>2. CASE Next /\ pc \in {"done", "undefined"} /\ pc' # "undefined"
  <2>1. ~LoseTrack
    BY <1>2 DEF LoseTrack, Goto
  <2>2. ~(HashMapMake \/ Put \/ MakeIterator \/ VectorMake \/ PairMake \/ PushBack
          \/ ResizeVector \/ UpdateValue \/ ParseFile \/ Count)
    BY <1>2 DEF HashMapMake, Put, MakeIterator, VectorMake, PairMake, PushBack,
                ResizeVector, UpdateValue, ParseFile, Count, MakeHandle, New, At
  <2>3. Stopped
    BY <1>2, <2>1, <2>2 DEF Next
  <2>4. QED
    BY <1>1, <2>3 DEF Stopped
<1>3. CASE Next /\ pc' # "undefined" /\ pc \notin {"done", "undefined"}
  <2>1. CASE pc' = "own_iter"
    BY <1>3, <2>1, LoopEntry, ActionAt, InitIterInv
  <2>2. CASE pc' = "own_node"
    BY <1>3, <2>2, LoopEntry, ActionAt, TakesIter
  <2>3. CASE pc' \in Filling \cup Looping /\ pc' # "own_node"
    BY <1>3, <2>3, LoopEntry, ActionAt, OwnIter, LoopIter
  <2>4. CASE pc' \notin {"own_iter"} \cup Filling \cup Looping
    BY <2>4 DEF IterInv, IterAt, Looping
  <2>5. QED
    BY <2>1, <2>2, <2>3, <2>4 DEF Looping, Visiting
<1>4. CASE pc' = "undefined"
  BY <1>4 DEF IterInv
<1>5. QED
  BY <1>1, <1>2, <1>3, <1>4

(* Until the iterator has had every node of the map, the ones it has had   *)
(* and the ones it has before it are apart, and none of them is lost.      *)
THEOREM IteratorInvariance == Spec => []IterInv
<1> USE InitIter, NextIter, StackInvariance, ObjectsInvariance, MapInvariance
<1>1. QED
  BY PTL DEF Spec

-----------------------------------------------------------------------------
(* The vector has just the words that the iterator has behind it.          *)

(* A pair that a step carries over shows what it showed. *)
LEMMA ShowsGoesOn ==
    ASSUME HeapInv, NEW K, Fixed(K), moving' = moving, NEW p \in K, object'[p] = object[p],
           NEW w, Shows(p, w)
    PROVE  Shows(p, w)' /\ Word(p)' = Word(p)
<1>1. PICK q, r : q = object[p].ref.first /\ r = object[p].ref.second
  OBVIOUS
<1>2. /\ p \in InUse /\ object[p].class = "Pair" /\ Of(q, "String") /\ object[q].val = w
      /\ Lost(r) \/ (r \in InUse /\ object[r] = SizeT(Occurrences(w, Len(text))))
  BY <1>1 DEF Shows, Of, Word
<1>3. q \in Trace(p) /\ r \in Trace(p)
  BY <1>1, <1>2, TraceOfFormed DEF HeapInv
<1>4. q \in K /\ (r \in InUse => r \in K)
  BY <1>2, <1>3 DEF Of, Fixed, Carried
<1>5. object'[q] = object[q] /\ q \in InUse' /\ p \in InUse'
  BY <1>2, <1>4 DEF Of, Fixed, Carried
<1>6. object'[p].ref.first = q /\ object'[p].ref.second = r
  BY <1>1
<1>7. SizeT(Occurrences(w, Len(text)))' = SizeT(Occurrences(w, Len(text)))
  BY DEF Fixed, Carried, inputVars, SizeT, Occurrences, Object
<1>8. /\ Of(p, "Pair")' /\ Of(q, "String")' /\ Word(p)' = w
      /\ Lost(r)' \/ (r \in InUse' /\ object'[r] = SizeT(Occurrences(w, Len(text))))
  <2>1. Of(p, "Pair")' /\ Of(q, "String")' /\ Word(p)' = w
    BY <1>2, <1>5, <1>6 DEF Of, Word
  <2>2. CASE Lost(r)
    BY <2>1, <2>2 DEF Lost
  <2>3. CASE r \in InUse /\ object[r] = SizeT(Occurrences(w, Len(text)))
    <3>1. object[r].class = "SizeT" /\ r \in K
      BY <1>4, <2>3 DEF SizeT, Object
    <3>2. object'[r] = object[r] /\ r \in InUse'
      BY <3>1 DEF Fixed, Carried
    <3>3. QED
      BY <2>1, <2>3, <3>2
  <2>4. QED
    BY <1>2, <2>2, <2>3
<1>9. Word(p) = w
  BY DEF Shows
<1>10. QED
  BY <1>6, <1>7, <1>8, <1>9 DEF Shows

LEMMA PairsGoOn ==
    ASSUME HeapInv, NEW K, Fixed(K), moving' = moving, NEW f, NEW n, NEW W,
           \A i \in 0 .. n - 1 : f[i] \in K /\ object'[f[i]] = object[f[i]], Pairs(f, n, W)
    PROVE  Pairs(f, n, W)'
<1>1. \A i \in 0 .. n - 1 : Shows(f[i], Word(f[i]))
  BY DEF Pairs
<1>2. ASSUME NEW i \in 0 .. n - 1
      PROVE  Shows(f[i], Word(f[i]))' /\ Word(f[i])' = Word(f[i])
  <2>1. PICK p, w : p = f[i] /\ w = Word(p)
    OBVIOUS
  <2>2. Shows(p, w) /\ p \in K /\ object'[p] = object[p]
    BY <1>1, <2>1
  <2>3. Shows(p, w)' /\ Word(p)' = w
    BY <2>1, <2>2, ShowsGoesOn
  <2>4. QED
    BY <2>1, <2>3
<1>3. {Word(f[i])' : i \in 0 .. n - 1} = {Word(f[i]) : i \in 0 .. n - 1}
  BY <1>2
<1>4. (\A i, j \in 0 .. n - 1 : Word(f[i]) = Word(f[j]) => i = j)'
  <2>1. \A i, j \in 0 .. n - 1 : Word(f[i]) = Word(f[j]) => i = j
    BY DEF Pairs
  <2>2. QED
    BY <1>2, <2>1
<1>5. {Word(f[i]) : i \in 0 .. n - 1} = W
  BY DEF Pairs
<1>6. QED
  BY <1>2, <1>3, <1>4, <1>5 DEF Pairs

(* What changes of K is an iterator, or a Pair that has just been made. *)
Kept(K) ==
    /\ Fixed(K) /\ Holds(K) /\ moving' = moving
    /\ \A r \in K : \/ object'[r] = object[r]
                    \/ object[r].class = "HashMapIterator"
                    \/ object[r].class = "Pair" /\ object[r].ref.first = Null

LEMMA ListsGoOn ==
    ASSUME HeapInv, NEW K, Kept(K), NEW v \in K, Of(v, "Vector"), NEW W, Lists(v, W)
    PROVE  /\ Lists(v, W)' /\ object'[v] = object[v]
           /\ object[v].ref.data \in K
           /\ object'[object[v].ref.data] = object[object[v].ref.data]
<1>1. PICK d, val, f, n : d = object[v].ref.data /\ val = object[v].val /\ f = object[d].ref
                          /\ n = object[d].val
  OBVIOUS
<1>2. /\ v \in InUse /\ d \in InUse /\ object[v].class = "Vector" /\ object[d].class = "Array"
      /\ d \in Trace(v)
  <2>1. v \in InUse /\ object[v].class = "Vector" /\ Formed(v)
    BY DEF Of, HeapInv
  <2>2. Of(d, "Array") /\ d \in Trace(v)
    BY <1>1, <2>1, TraceOfFormed DEF Formed
  <2>3. QED
    BY <2>1, <2>2 DEF Of
<1>3. Fixed(K) /\ moving' = moving /\ d \in K
  BY <1>2 DEF Kept, Fixed, Carried
<1>4. object'[v] = object[v] /\ object'[d] = object[d]
  BY <1>2, <1>3 DEF Kept
<1>5. /\ val \in 0 .. n /\ n # 0 /\ DOMAIN f = 0 .. n - 1 /\ Pairs(f, val, W)
  BY <1>1 DEF Lists
<1>6. ASSUME NEW i \in 0 .. val - 1
      PROVE  f[i] \in K /\ object'[f[i]] = object[f[i]]
  <2>1. PICK p : p = f[i]
    OBVIOUS
  <2>2. /\ p \in InUse /\ object[p].class = "Pair"
        /\ object[p].ref.first \in InUse
    BY <1>5, <1>6, <2>1 DEF Pairs, Shows, Of
  <2>3. p \in Trace(d)
    <3>1. n \in Nat
      BY <1>1, <1>2 DEF HeapInv, Formed
    <3>2. i \in DOMAIN f
      BY <1>5, <3>1
    <3>3. QED
      BY <1>1, <2>1, <3>2 DEF Trace, Range
  <2>4. p \in K
    BY <1>3, <2>2, <2>3 DEF Fixed, Carried
  <2>5. object[p].ref.first # Null
    BY <2>2, RefsAssumption DEF InUse
  <2>6. QED
    BY <2>1, <2>2, <2>4, <2>5 DEF Kept
<1>7. Pairs(f, val, W)'
  BY <1>3, <1>5, <1>6, PairsGoOn
<1>8. Lists(v, W)'
  BY <1>1, <1>4, <1>5, <1>7 DEF Lists
<1>9. QED
  BY <1>1, <1>3, <1>4, <1>8

LEMMA MovingStays == Next => moving' = moving
<1>1. \A obj : Alloc(obj) => moving' = moving
  BY DEF Alloc, Place
<1> USE <1>1 DEF New, heapVars
<1>2. HashMapMake \/ Put \/ MakeIterator => moving' = moving
  BY DEF HashMapMake, Put, MakeIterator
<1>3. VectorMake \/ PairMake \/ PushBack \/ ResizeVector => moving' = moving
  BY DEF VectorMake, PairMake, PushBack, ResizeVector
<1>4. UpdateValue => moving' = moving
  BY DEF UpdateValue
<1>5. ParseFile => moving' = moving
  BY DEF ParseFile
<1>6. Count \/ LoseTrack \/ Stopped => moving' = moving
  BY DEF Count, LoseTrack, Stopped, vars
<1>7. QED
  BY <1>2, <1>3, <1>4, <1>5, <1>6 DEF Next

(* What the steps from the iteration on, but those that change the vector, *)
(* leave as it was.                                                        *)
LEMMA VectorHeap ==
    ASSUME StackInv, ObjectsInv, ObjectsInv', VectorInv, Next, pc \in Filling \cup Looping,
           pc' # "undefined", pc \notin {"store", "copy_to"}
    PROVE  \E K : Kept(K)
<1> USE DEF Filling, Looping, Visiting, Pairing, Pushing
<1>1. StepFact /\ pc \notin {"done", "undefined"} /\ moving' = moving
  BY StepKinds, MovingStays
<1>2. ASSUME NEW K, Same(K), Holds(K) PROVE Kept(K)
  BY <1>1, <1>2 DEF Same, Kept
<1>3. ASSUME NEW x, Only({x}),
             \/ object[x].class = "HashMapIterator"
             \/ object[x].class = "Pair" /\ object[x].ref.first = Null
      PROVE  Kept(InUse)
  <2>1. Fixed(InUse) /\ \A r \in InUse \ {x} : object'[r] = object[r]
    BY <1>3, OnlyFixes
  <2>2. QED
    BY <1>1, <1>3, <2>1 DEF Kept, Holds
<1>4. CASE UNCHANGED object
  <2>1. Same(InUse) /\ Holds(InUse)
    BY <1>1, <1>4, QuietSame DEF StepFact
  <2>2. QED
    BY <1>2, <2>1
<1>5. CASE pc \in Allocations /\ \E obj : obj.class # "Free" /\ Alloc(obj)
  <2>1. PICK obj : obj.class # "Free" /\ Alloc(obj)
    BY <1>5
  <2>2. PICK K : Same(K) /\ Holds(K)
    BY <1>1, <1>5, <2>1, AllocSame DEF StepFact
  <2>3. QED
    BY <1>2, <2>2
<1>6. CASE pc = "has_next"
  <2>1. Of(slots[2], "HashMapIterator")
    BY <1>6, TheIterator
  <2>2. CASE pc' = "print"
    <3>1. UNCHANGED object
      BY <1>6, <2>2, ActionAt DEF Count, At, Goto, MakeHandle, heapVars
    <3>2. QED
      BY <1>4, <3>1
  <2>3. CASE pc' # "print"
    <3>1. Only({slots[2]})
      BY <1>6, <2>3, ActionAt, HasNextShape
    <3>2. PICK x : x = slots[2]
      OBVIOUS
    <3>3. QED
      BY <1>3, <2>1, <3>1, <3>2 DEF Of
  <2>4. QED
    BY <2>2, <2>3
<1>7. CASE pc = "init_pair"
  <2>1. Only({oop}) /\ Of(oop, "Pair")
    BY <1>7, ActionAt, InitPairShape
  <2>2. object[oop].ref.first = Null
    BY <1>7 DEF VectorInv, PairAt
  <2>3. QED
    BY <1>3, <2>1, <2>2 DEF Of
<1>8. QED
  BY <1>1, <1>4, <1>5, <1>6, <1>7 DEF StepFact, Updates

(* The Handle vector. *)
LEMMA TheVector ==
    ASSUME StackInv, ObjectsInv, pc \in Looping
    PROVE  3 \in DOMAIN slots /\ Of(slots[3], "Vector")
<1>1. "vector" \in Frame(pc).names /\ pc # "undefined"
  BY DEF Looping, Visiting, Pairing, Pushing, Frame, FrameOf, InPush, InLoop, InCount
<1>2. QED
  BY <1>1, ReadsAre DEF Slot, ClassOf, IsA

LEMMA AheadIsInMap ==
    ASSUME HeapInv, NEW i, Of(i, "HashMapIterator"), NEW m, Of(m, "HashMap"), Iterates(i, m)
    PROVE  Ahead(i) \subseteq NodesIn(object[m].ref.table)
<1>1. PICK t, x, w : t = object[m].ref.table /\ x = object[i].ref.next /\ w = object[i].val
  OBVIOUS
<1>2. object[i].ref.hashMap = m /\ Follows(x, w, t)
  BY <1>1 DEF Iterates
<1>3. t \in Tables
  BY <1>1, TableOf
<1>4. w \in Nat
  BY <1>1 DEF Of, HeapInv, Formed
<1>5. Ahead(i) = From(x) \cup Rest(t, w)
  BY <1>1, <1>2 DEF Ahead
<1>6. Rest(t, w) \subseteq NodesIn(t)
  <2>1. \A j \in w .. object[t].val - 1 : j \in 0 .. object[t].val - 1
    BY <1>3, <1>4, TableIs
  <2>2. QED
    BY <2>1, RestIs DEF RestFact, NodesIn
<1>7. QED
  BY <1>1, <1>2, <1>5, <1>6 DEF Follows

(* The words that are in the vector. *)
LEMMA CurrentIsBehind ==
    ASSUME StackInv, ObjectsInv, ParseInv, IterInv, pc \in Visiting, NEW c, c = Current(pc)
    PROVE  /\ c \in Nodes /\ Key(c) \in Behind(slots[2])
           /\ ValueOf(c) \in InUse /\ Of(object[c].ref.key, "String")
           /\ object[ValueOf(c)] = SizeT(Occurrences(Key(c), Len(text)))
<1>0. pc \in Counting /\ pc \in Looping /\ pc # "undefined"
  BY DEF Counting, Looping, Visiting, Pairing, Pushing
<1>1. PICK m, t : Whole(m, t)
  BY <1>0, MapIsWhole
<1>2. /\ m = slots[1] /\ t = object[m].ref.table /\ t \in Tables
      /\ Counts(t, Len(text)) /\ {Key(k) : k \in NodesIn(t)} = Range(text)
      /\ Of(m, "HashMap")
  BY <1>1 DEF Whole
<1>3. HeapInv
  BY DEF ObjectsInv
<1>4. PICK i : i = slots[2]
  OBVIOUS
<1>5. c \in NodesIn(t) /\ c \notin Ahead(i) /\ Iterates(i, m)
  BY <1>0, <1>2, <1>4 DEF IterInv, IterAt
<1>6. c \in Nodes
  BY <1>2, <1>3, <1>5, NodesAre
<1>7. ValueOf(c) \in InUse /\ Of(object[c].ref.key, "String")
  BY <1>3, <1>6, NodesLeadToNodes DEF Formed, ValueOf, Of
<1>8. object[ValueOf(c)] = SizeT(Occurrences(Key(c), Len(text)))
  BY <1>2, <1>5 DEF Counts
<1>9. \A k \in NodesIn(t) : Key(k) = Key(c) => k = c
  BY <1>2, <1>5 DEF Counts
<1>10. Ahead(i) \subseteq NodesIn(t)
  <2>1. Of(i, "HashMapIterator")
    BY <1>0, <1>4, TheIterator
  <2>2. QED
    BY <1>2, <1>3, <1>5, <2>1, AheadIsInMap
<1>11. Key(c) \in Behind(i)
  BY <1>2, <1>5, <1>9, <1>10 DEF Behind
<1>12. QED
  BY <1>4, <1>6, <1>7, <1>8, <1>11

LEMMA NextWordFrom == Next /\ pc' = "next_word" => pc = "store"
<1> USE DEF MakeHandle, New, At, Goto
<1>1. HashMapMake \/ Put \/ MakeIterator \/ VectorMake => pc' # "next_word"
  BY DEF HashMapMake, Put, MakeIterator, VectorMake
<1>2. PairMake \/ ResizeVector \/ UpdateValue \/ ParseFile => pc' # "next_word"
  BY DEF PairMake, ResizeVector, UpdateValue, ParseFile
<1>3. PushBack /\ pc' = "next_word" => pc = "store"
  BY DEF PushBack
<1>4. Count => pc' # "next_word"
  BY DEF Count
<1>5. LoseTrack \/ (Stopped /\ pc' = "next_word") => pc' # "next_word"
  BY DEF LoseTrack, Stopped, vars
<1>6. QED
  BY <1>1, <1>2, <1>3, <1>4, <1>5 DEF Next

LEMMA ListedStays ==
    ASSUME StackInv, StackInv', ObjectsInv, ObjectsInv', ParseInv, IterInv, Next,
           pc \in Looping, pc' \in Looping
    PROVE  /\ pc # "store" => Listed(pc)' = Listed(pc)
           /\ pc' # "own_node" => Behind(slots[2])' = Behind(slots[2])
           /\ pc \in Visiting => /\ Key(Current(pc))' = Key(Current(pc))
                                 /\ slots'[4] = Current(pc)
           /\ pc = "store" => Listed(pc)' = Listed(pc) \cup {Key(slots[4])}
<1> USE DEF Looping
<1>0. pc # "undefined" /\ pc' # "undefined"
  BY DEF Visiting, Pairing, Pushing
<1>1. CASE pc' = "own_node"
  <2>1. pc = "has_next" /\ pc # "done"
    BY <1>0, <1>1, LoopEntry DEF Visiting, Pairing, Pushing
  <2>2. Count
    BY <1>0, <2>1, ActionAt
  <2>3. PICK i, m, t, e : Takes(i, m, t, e)
    BY <1>1, <2>1, <2>2, LoopTakes
  <2>4. /\ Behind(i)' = Range(text) \ {Key(k) : k \in Ahead(i) \ {e}}
        /\ e \in Ahead(i) /\ i = slots[2] /\ slots'[2] = i /\ oop' = e
        /\ e \in NodesIn(t)
    BY <2>3 DEF Takes
  <2>5. Key(e)' = Key(e)
    <3>1. PICK mm, tt : Whole(mm, tt)
      BY <2>1, MapIsWhole DEF Counting
    <3>2. tt = t /\ t \in Tables
      BY <2>3, <3>1 DEF Whole, Takes
    <3>3. e \in Nodes
      BY <2>4, <3>2, NodesAre DEF ObjectsInv
    <3>4. QED
      BY <2>3, <3>3 DEF Takes
  <2>6. Current(pc)' = e
    BY <1>1, <2>4 DEF Current
  <2>7. Key(Current(pc))' = Key(e)
    BY <2>5, <2>6
  <2>8. Listed(pc)' = Behind(i)' \ {Key(e)}
    BY <1>1, <2>4, <2>7 DEF Listed, Visiting
  <2>9. Listed(pc) = Range(text) \ {Key(k) : k \in Ahead(i)}
    BY <2>1, <2>4 DEF Listed, Visiting, Pairing, Pushing, Behind
  <2>10. Listed(pc)' = Listed(pc)
    BY <2>4, <2>8, <2>9
  <2>11. QED
    BY <1>1, <2>1, <2>10 DEF Visiting, Pairing, Pushing
<1>2. CASE pc' # "own_node"
  <2>1. Iterates(slots[2], slots[1])
    BY <1>0 DEF IterInv, IterAt
  <2>2. PICK i, m, t : IterKept(i, m, t)
    BY <1>2, <2>1, IterStays
  <2>3. /\ i = slots[2] /\ slots'[2] = i /\ m = slots[1] /\ t = object[m].ref.table
        /\ Behind(i)' = Behind(i)
        /\ \A k \in NodesIn(t) : Key(k)' = Key(k)
    BY <2>2 DEF IterKept
  <2>4. Behind(slots[2])' = Behind(slots[2])
    BY <2>3
  <2>5. CASE pc \in Visiting
    <3>1. pc' \in (Visiting \ {"own_node"}) \cup {"next_word"}
      BY <1>0, <2>5, LoopOrder DEF Filling, Visiting, Pairing, Pushing
    <3>2. PICK c : c = Current(pc)
      OBVIOUS
    <3>3. slots'[4] = c
      BY <2>5, <3>1, <3>2, CurrentStays
    <3>4. Current(pc)' = c
      BY <1>2, <3>3 DEF Current
    <3>5. c \in NodesIn(t)
      BY <1>0, <2>3, <2>5, <3>2 DEF IterInv, IterAt
    <3>6. Key(c)' = Key(c)
      BY <2>3, <3>5
    <3>7. Key(Current(pc))' = Key(c)
      BY <3>4, <3>6
    <3>8. Listed(pc) = Behind(i) \ {Key(c)}
      BY <2>3, <2>5, <3>2 DEF Listed
    <3>9. CASE pc = "store"
      <4>1. pc' = "next_word"
        BY <1>0, <3>9, ActionAt, StoreShape
      <4>2. Listed(pc)' = Behind(slots[2])'
        BY <4>1 DEF Listed, Visiting, Pairing, Pushing
      <4>3. Key(c) \in Behind(i)
        BY <2>3, <2>5, <3>2, CurrentIsBehind
      <4>4. c = slots[4]
        BY <3>2, <3>9 DEF Current
      <4>5. QED
        BY <2>3, <2>4, <3>2, <3>3, <3>7, <3>8, <3>9, <4>2, <4>3, <4>4
    <3>10. CASE pc # "store"
      <4>1. pc' \in Visiting
        BY <3>1, <3>10, NextWordFrom
      <4>2. Listed(pc)' = Behind(slots[2])' \ {Key(Current(pc))'}
        BY <4>1 DEF Listed
      <4>3. QED
        BY <2>3, <2>4, <3>2, <3>3, <3>7, <3>8, <3>10, <4>2
    <3>11. QED
      BY <3>9, <3>10
  <2>6. CASE pc \notin Visiting
    <3>1. pc' \notin Visiting /\ pc # "store"
      BY <1>0, <1>2, <2>6, LoopOrder DEF Filling, Visiting, Pairing, Pushing
    <3>2. Listed(pc) = Behind(slots[2]) /\ Listed(pc)' = Behind(slots[2])'
      BY <2>6, <3>1 DEF Listed
    <3>3. QED
      BY <2>4, <2>6, <3>1, <3>2
  <2>7. QED
    BY <2>5, <2>6
<1>3. QED
  BY <1>1, <1>2

(* How much of the text the words make up. *)
LEMMA Shares ==
    ASSUME text \in Seq(Words)
    PROVE  /\ Share({}) = 0 /\ Share(Range(text)) = Len(text)
           /\ \A W, w : w \notin W =>
                 Share(W \cup {w}) = Share(W) + Occurrences(w, Len(text))
<1>1. DOMAIN text = 1 .. Len(text) /\ Len(text) \in Nat
  OBVIOUS
<1>2. Share({}) = 0
  <2>1. {i \in DOMAIN text : text[i] \in {}} = {}
    OBVIOUS
  <2>2. QED
    BY <2>1, FS_EmptySet DEF Share
<1>3. Share(Range(text)) = Len(text)
  <2>1. {i \in DOMAIN text : text[i] \in Range(text)} = 1 .. Len(text)
    BY <1>1 DEF Range
  <2>2. Cardinality(1 .. Len(text)) = Len(text)
    <3>1. PICK n : n = Len(text)
      OBVIOUS
    <3>0. n \in Nat
      BY <1>1, <3>1
    <3>2. Cardinality(1 .. n) = n
      BY <3>0, FS_Interval
    <3>3. QED
      BY <3>1, <3>2
  <2>3. QED
    BY <2>1, <2>2 DEF Share
<1>4. ASSUME NEW W, NEW w, w \notin W
      PROVE  Share(W \cup {w}) = Share(W) + Occurrences(w, Len(text))
  <2>1. PICK S, T : /\ S = {i \in DOMAIN text : text[i] \in W}
                    /\ T = {i \in DOMAIN text : text[i] = w}
    OBVIOUS
  <2>2. IsFiniteSet(S) /\ IsFiniteSet(T)
    <3>1. PICK n : n = Len(text)
      OBVIOUS
    <3>0. n \in Nat
      BY <1>1, <3>1
    <3>2. IsFiniteSet(1 .. n)
      BY <3>0, FS_Interval
    <3>3. S \subseteq 1 .. n /\ T \subseteq 1 .. n
      BY <1>1, <2>1, <3>1
    <3>4. QED
      BY <3>2, <3>3, FS_Subset
  <2>3. S \cap T = {} /\ {i \in DOMAIN text : text[i] \in W \cup {w}} = S \cup T
    BY <1>4, <2>1
  <2>4. Cardinality(S \cup T) = Cardinality(S) + Cardinality(T)
    <3>1. Cardinality(S \cup T) = Cardinality(S) + Cardinality(T) - Cardinality(S \cap T)
      BY <2>2, FS_Union
    <3>2. Cardinality(S \cap T) = 0
      BY <2>3, FS_EmptySet
    <3>3. QED
      BY <2>2, <3>1, <3>2, FS_CardinalityType
  <2>5. Share(W \cup {w}) = Cardinality(S \cup T) /\ Share(W) = Cardinality(S)
    BY <2>1, <2>3 DEF Share
  <2>6. Occurrences(w, Len(text)) = Cardinality(T)
    BY <1>1, <2>1 DEF Occurrences
  <2>7. QED
    BY <2>4, <2>5, <2>6
<1>5. QED
  BY <1>2, <1>3, <1>4

(* words_count, outside add_count(). *)
LEMMA TotalStays ==
    Next => words_count' = words_count \/ (pc = "add_count" /\ pc' = "make_first" /\ Count)
<1> USE DEF New, MakeHandle, At, Goto, countVars
<1>1. HashMapMake \/ Put \/ MakeIterator => words_count' = words_count
  BY DEF HashMapMake, Put, MakeIterator
<1>2. VectorMake \/ PairMake \/ PushBack \/ ResizeVector => words_count' = words_count
  BY DEF VectorMake, PairMake, PushBack, ResizeVector
<1>3. UpdateValue \/ ParseFile => words_count' = words_count
  BY DEF UpdateValue, ParseFile
<1>4. Count => \/ words_count' = words_count
               \/ pc = "add_count" /\ pc' = "make_first"
  BY DEF Count
<1>5. LoseTrack \/ Stopped => words_count' = words_count
  BY DEF LoseTrack, Stopped, vars
<1>6. QED
  BY <1>1, <1>2, <1>3, <1>4, <1>5 DEF Next

(* What add_count adds. *)
LEMMA WordAdded ==
    ASSUME StackInv, ObjectsInv, ParseInv, IterInv, Count, pc = "add_count"
    PROVE  /\ words_count' = words_count + Occurrences(Key(slots[4]), Len(text))
           /\ UNCHANGED <<object, inputVars>>
<1>1. /\ words_count' = words_count + object[object[Read("curr")].ref.value].val
      /\ UNCHANGED <<object, inputVars>>
  BY DEF Count, At, Goto, MakeHandle, heapVars
<1>2. Read("curr") = slots[4]
  BY ReadsAre DEF Frame, FrameOf, InCount, Slot
<1>3. PICK c : c = slots[4]
  OBVIOUS
<1>4. object[ValueOf(c)] = SizeT(Occurrences(Key(c), Len(text)))
  BY <1>3, CurrentIsBehind DEF Current, Visiting
<1>5. object[object[c].ref.value].val = Occurrences(Key(c), Len(text))
  BY <1>4 DEF SizeT, Object, ValueOf
<1>6. QED
  BY <1>1, <1>2, <1>3, <1>5

LEMMA ShareGoesOn ==
    ASSUME UNCHANGED inputVars PROVE \A W : Share(W)' = Share(W)
BY DEF Share, inputVars

LEMMA AddCountFrom == Next /\ pc' = "add_count" => pc = "own_node"
<1> USE DEF MakeHandle, New, At, Goto
<1>1. HashMapMake \/ Put \/ MakeIterator \/ VectorMake => pc' # "add_count"
  BY DEF HashMapMake, Put, MakeIterator, VectorMake
<1>2. PairMake \/ ResizeVector \/ UpdateValue \/ ParseFile => pc' # "add_count"
  BY DEF PairMake, ResizeVector, UpdateValue, ParseFile
<1>3. PushBack => pc' # "add_count"
  BY DEF PushBack
<1>4. Count /\ pc' = "add_count" => pc = "own_node"
  BY DEF Count
<1>5. LoseTrack \/ (Stopped /\ pc' = "add_count") => pc' # "add_count"
  BY DEF LoseTrack, Stopped, vars
<1>6. QED
  BY <1>1, <1>2, <1>3, <1>4, <1>5 DEF Next

(* The running total. *)
LEMMA LoopTotal ==
    ASSUME StackInv, StackInv', ObjectsInv, ObjectsInv', ParseInv, IterInv, VectorInv, Next,
           pc \in Looping, pc' \in Looping
    PROVE  TotalAt(pc)'
<1>0. /\ pc \notin {"undefined", "done"} /\ pc' \notin {"undefined", "done"}
  BY DEF Looping, Visiting, Pairing, Pushing
<1>1. UNCHANGED inputVars /\ text \in Seq(Words)
  BY <1>0, StepKinds DEF StepFact, ObjectsInv, InputInv
<1>2. \A W : Share(W)' = Share(W)
  BY <1>1, ShareGoesOn
<1>3. words_count = IF pc \in {"own_node", "add_count"} THEN Share(Listed(pc))
                    ELSE Share(Behind(slots[2]))
  BY <1>0 DEF VectorInv, TotalAt
<1>4. /\ pc # "store" => Listed(pc)' = Listed(pc)
      /\ pc' # "own_node" => Behind(slots[2])' = Behind(slots[2])
  BY ListedStays
<1>5. SUFFICES words_count' = IF pc' \in {"own_node", "add_count"} THEN Share(Listed(pc)')
                              ELSE Share(Behind(slots[2])')
  <2>1. /\ Share(Listed(pc))' = Share(Listed(pc)')
        /\ Share(Behind(slots[2]))' = Share(Behind(slots[2])')
    BY <1>1 DEF Share, inputVars
  <2>2. QED
    BY <1>0, <1>5, <2>1 DEF TotalAt
<1>6. CASE pc = "add_count"
  <2>1. Count
    BY <1>0, <1>6, ActionAt
  <2>2. pc' = "make_first"
    BY <1>6, <2>1 DEF Count, At, Goto, MakeHandle
  <2>3. PICK B, w : B = Behind(slots[2]) /\ w = Key(slots[4])
    OBVIOUS
  <2>4. words_count' = words_count + Occurrences(w, Len(text))
    BY <1>6, <2>1, <2>3, WordAdded
  <2>5. Listed(pc) = B \ {w}
    BY <1>6, <2>3 DEF Listed, Visiting, Current
  <2>6. w \in B
    BY <1>6, <2>3, CurrentIsBehind DEF Visiting, Current
  <2>7. Share((B \ {w}) \cup {w}) = Share(B \ {w}) + Occurrences(w, Len(text))
    BY <1>1, Shares
  <2>8. (B \ {w}) \cup {w} = B
    BY <2>6
  <2>9. words_count' = Share(B)
    BY <1>3, <1>6, <2>4, <2>5, <2>7, <2>8
  <2>10. QED
    BY <1>4, <2>2, <2>3, <2>9
<1>7. CASE pc' = "own_node"
  <2>1. pc = "has_next"
    BY <1>0, <1>7, LoopEntry
  <2>2. Listed(pc) = Behind(slots[2])
    BY <2>1 DEF Listed, Visiting, Pairing, Pushing
  <2>3. words_count' = words_count
    BY <2>1, TotalStays
  <2>4. QED
    BY <1>3, <1>4, <1>7, <2>1, <2>2, <2>3
<1>8. CASE pc = "own_node"
  <2>1. Count
    BY <1>0, <1>8, ActionAt
  <2>2. pc' = "add_count"
    BY <1>8, <2>1 DEF Count, At, Goto, MakeHandle
  <2>3. words_count' = words_count
    BY <1>8, TotalStays
  <2>4. QED
    BY <1>3, <1>4, <1>8, <2>2, <2>3
<1>9. CASE pc \notin {"own_node", "add_count"} /\ pc' # "own_node"
  <2>1. pc' # "add_count"
    <3>1. pc' = "add_count" => pc = "own_node"
      BY <1>0, AddCountFrom
    <3>2. QED
      BY <1>9, <3>1
  <2>2. words_count' = words_count
    BY <1>9, TotalStays
  <2>3. QED
    BY <1>3, <1>4, <1>9, <2>1, <2>2
<1>10. QED
  BY <1>6, <1>7, <1>8, <1>9

(* A Handle that is in scope before and after a step. *)
LEMMA SlotStays ==
    ASSUME StackInv, StackInv', Next, pc \notin {"undefined", "count", "done"},
           pc' # "undefined", NEW h, h \in Frame(pc).names, h \in Frame(pc').names
    PROVE  slots'[Slot[h]] = slots[Slot[h]]
<1>1. PICK k : k = Slot[h]
  OBVIOUS
<1>2. k \in DOMAIN slots /\ k \in DOMAIN slots'
  <2>1. k \in DOMAIN slots
    BY <1>1, NamesHaveSlots
  <2>2. k \in DOMAIN slots'
    BY <1>1, SlotsAreThereAfter DEF SlotsThere
  <2>3. QED
    BY <2>1, <2>2
<1>3. k <= Len(slots')
  <2>1. slots' \in Seq(Range(slots'))
    BY DEF StackInv, StackTypeOK
  <2>2. QED
    BY <1>2, <2>1
<1>4. slots' = slots \/ (\E g, p : Push(g, p)) \/ Leave
  BY StepKinds DEF StepFact
<1>5. QED
  BY <1>1, <1>2, <1>3, <1>4, SlotsBelow

LEMMA VectorStaysThere ==
    ASSUME StackInv, StackInv', Next, pc \in Looping, pc' \in Looping
    PROVE  slots'[3] = slots[3]
<1>1. "vector" \in Frame(pc).names /\ "vector" \in Frame(pc').names
  <2>1. "vector" \in Frame(pc).names
    BY DEF Looping, Visiting, Pairing, Pushing, Frame, FrameOf, InPush, InLoop, InCount
  <2>2. "vector" \in Frame(pc').names
    BY DEF Looping, Visiting, Pairing, Pushing, Frame, FrameOf, InPush, InLoop, InCount
  <2>3. QED
    BY <2>1, <2>2
<1>2. pc \notin {"undefined", "count", "done"} /\ pc' # "undefined"
  BY DEF Looping, Visiting, Pairing, Pushing
<1>3. QED
  BY <1>1, <1>2, SlotStays DEF Slot

(* One pair more, in an array that has room for it. *)
PairsGrow ==
    \A f, e, w, W : \A n \in Nat :
       n \in DOMAIN f /\ Pairs(f, n, W) /\ Shows(e, w) /\ w \notin W
          => Pairs([f EXCEPT ![n] = e], n + 1, W \cup {w})

LEMMA OnePairMore == PairsGrow
<1> SUFFICES ASSUME NEW f, NEW e, NEW w, NEW W, NEW n \in Nat, n \in DOMAIN f,
                    Pairs(f, n, W), Shows(e, w), w \notin W
             PROVE  Pairs([f EXCEPT ![n] = e], n + 1, W \cup {w})
  BY DEF PairsGrow
<1>1. PICK g : g = [f EXCEPT ![n] = e]
  OBVIOUS
<1>2. g[n] = e /\ \A i \in 0 .. n - 1 : g[i] = f[i]
  <2>1. g[n] = e
    BY <1>1
  <2>2. ASSUME NEW i \in 0 .. n - 1 PROVE g[i] = f[i]
    BY <1>1
  <2>3. QED
    BY <2>1, <2>2
<1>3. 0 .. (n + 1) - 1 = (0 .. n - 1) \cup {n}
  OBVIOUS
<1>4. /\ \A i \in 0 .. n - 1 : Shows(f[i], Word(f[i]))
      /\ \A i, j \in 0 .. n - 1 : Word(f[i]) = Word(f[j]) => i = j
      /\ {Word(f[i]) : i \in 0 .. n - 1} = W
  BY DEF Pairs
<1>5. Word(e) = w
  BY DEF Shows
<1>6. \A i \in (0 .. n - 1) \cup {n} : Shows(g[i], Word(g[i]))
  BY <1>2, <1>4, <1>5
<1>7. \A i \in 0 .. n - 1 : Word(g[i]) = Word(f[i]) /\ Word(g[i]) \in W
  BY <1>2, <1>4
<1>8. ASSUME NEW i \in (0 .. n - 1) \cup {n}, NEW j \in (0 .. n - 1) \cup {n},
             Word(g[i]) = Word(g[j])
      PROVE  i = j
  <2>1. Word(g[n]) = w
    BY <1>2, <1>5
  <2>2. QED
    BY <1>4, <1>7, <1>8, <2>1
<1>9. {Word(g[i]) : i \in (0 .. n - 1) \cup {n}} = W \cup {w}
  <2>1. {Word(g[i]) : i \in (0 .. n - 1) \cup {n}} =
           {Word(g[i]) : i \in 0 .. n - 1} \cup {Word(g[n])}
    OBVIOUS
  <2>2. {Word(g[i]) : i \in 0 .. n - 1} = W
    BY <1>4, <1>7
  <2>3. QED
    BY <1>2, <1>5, <2>1, <2>2
<1>10. Pairs(g, n + 1, W \cup {w})
  BY <1>3, <1>6, <1>8, <1>9 DEF Pairs
<1>11. QED
  BY <1>1, <1>10

LEMMA OnePairMoreAfter == PairsGrow'
BY OnePairMore, PTL

(* An array with the same pairs. *)
PairsMove ==
    \A f, g, n, W : (\A i \in 0 .. n - 1 : g[i] = f[i]) /\ Pairs(f, n, W) => Pairs(g, n, W)

LEMMA SamePairs == PairsMove
<1> SUFFICES ASSUME NEW f, NEW g, NEW n, NEW W, \A i \in 0 .. n - 1 : g[i] = f[i],
                    Pairs(f, n, W)
             PROVE  Pairs(g, n, W)
  BY DEF PairsMove
<1>1. {Word(g[i]) : i \in 0 .. n - 1} = {Word(f[i]) : i \in 0 .. n - 1}
  OBVIOUS
<1>2. QED
  BY <1>1 DEF Pairs

LEMMA SamePairsAfter == PairsMove'
BY SamePairs, PTL

(* Between the steps that change the vector. *)
LEMMA LoopLists ==
    ASSUME StackInv, StackInv', ObjectsInv, ObjectsInv', ParseInv, IterInv, VectorInv, Next,
           pc \in Looping, pc' \in Looping, pc \notin {"store", "copy_to"}
    PROVE  /\ Lists(slots[3], Listed(pc))' /\ object'[slots[3]] = object[slots[3]]
           /\ object'[object[slots[3]].ref.data] = object[object[slots[3]].ref.data]
<1>1. pc # "undefined" /\ pc' # "undefined" /\ HeapInv
  BY DEF Looping, Visiting, Pairing, Pushing, ObjectsInv
<1>2. PICK K : Kept(K)
  BY <1>1, VectorHeap
<1>3. PICK v, W : v = slots[3] /\ W = Listed(pc)
  OBVIOUS
<1>4. Of(v, "Vector") /\ 3 \in DOMAIN slots
  BY <1>3, TheVector
<1>5. v \in K /\ Lists(v, W)
  BY <1>1, <1>2, <1>3, <1>4 DEF Kept, Holds, Of, VectorInv, VectorAt
<1>6. /\ Lists(v, W)' /\ object'[v] = object[v]
      /\ object'[object[v].ref.data] = object[object[v].ref.data]
  BY <1>1, <1>2, <1>4, <1>5, ListsGoOn
<1>7. slots'[3] = v /\ Listed(pc)' = W
  BY <1>3, VectorStaysThere, ListedStays
<1>8. QED
  BY <1>3, <1>6, <1>7

(* The pairs of a vector when the objects that change are of other classes.*)
LEMMA OnlyPairs ==
    ASSUME HeapInv, NEW f, NEW n, NEW W, Pairs(f, n, W), NEW X, Only(X), moving' = moving,
           \A r \in X : object[r].class # "Pair"
    PROVE  Pairs(f, n, W)'
<1>1. Fixed(InUse) /\ \A r \in InUse \ X : object'[r] = object[r]
  BY OnlyFixes
<1>2. ASSUME NEW i \in 0 .. n - 1
      PROVE  f[i] \in InUse /\ object'[f[i]] = object[f[i]]
  <2>1. PICK p, w : p = f[i] /\ w = Word(f[i])
    OBVIOUS
  <2>2. Shows(p, w)
    BY <2>1 DEF Pairs
  <2>3. p \in InUse /\ object[p].class = "Pair"
    BY <2>2 DEF Shows, Of
  <2>4. QED
    BY <1>1, <2>1, <2>3
<1>3. PICK K : K = InUse
  OBVIOUS
<1>4. Fixed(K) /\ \A i \in 0 .. n - 1 : f[i] \in K /\ object'[f[i]] = object[f[i]]
  BY <1>1, <1>2, <1>3
<1>5. QED
  BY <1>4, PairsGoOn

LEMMA ListedPairs ==
    ASSUME HeapInv, NEW v, Of(v, "Vector"), NEW W, Lists(v, W), NEW X, Only(X),
           moving' = moving, \A r \in X : object[r].class # "Pair",
           NEW d, d = object[v].ref.data, NEW val, val = object[v].val,
           NEW f, f = object[d].ref, NEW n, n = object[d].val
    PROVE  /\ n \in Nat \ {0} /\ val \in 0 .. n /\ DOMAIN f = 0 .. n - 1
           /\ Pairs(f, val, W)'
<1>1. /\ val \in 0 .. n /\ n # 0 /\ DOMAIN f = 0 .. n - 1 /\ Pairs(f, val, W)
  BY DEF Lists
<1>2. Of(d, "Array")
  BY DEF Of, HeapInv, Formed
<1>3. n \in Nat
  BY <1>2 DEF Of, HeapInv, Formed
<1>4. Pairs(f, val, W)'
  BY <1>1, OnlyPairs
<1>5. QED
  BY <1>1, <1>3, <1>4

LEMMA StoreLists ==
    ASSUME StackInv, StackInv', ObjectsInv, ObjectsInv', ParseInv, IterInv, VectorInv, Next,
           pc = "store", pc' # "undefined"
    PROVE  pc' = "next_word" /\ Lists(slots[3], Listed(pc))'
<1> USE DEF Looping, Visiting, Pairing, Pushing
<1>1. /\ pc' = "next_word" /\ moving' = moving
      /\ \E d, val, f, n : Extended(slots[7], slots[8], d, val, f, n) /\ Only({slots[7], d})
  BY ActionAt, StoreShape, MovingStays
<1>2. PICK v, e, W, w : /\ v = slots[3] /\ e = slots[8] /\ W = Listed(pc)
                        /\ w = Key(slots[4])
  OBVIOUS
<1>3. VectorAt(pc) /\ PairAt(pc) /\ HeapInv
  BY DEF VectorInv, ObjectsInv
<1>4. /\ slots[7] = v /\ Shows(e, w) /\ Lists(v, W)
      /\ object[v].val < object[object[v].ref.data].val
  BY <1>2, <1>3 DEF VectorAt, PairAt
<1>5. PICK d, val, f, n : Extended(v, e, d, val, f, n) /\ Only({v, d})
  BY <1>1, <1>2, <1>4
<1>6. /\ object[v] = Object("Vector", [data |-> d], val) /\ object[d] = Object("Array", f, n)
      /\ object'[v] = Object("Vector", [data |-> d], val + 1)
      /\ object'[d] = Object("Array", [f EXCEPT ![val] = e], n)
      /\ \A r \in Refs \ {v, d} : object'[r] = object[r]
  BY <1>5 DEF Extended, VectorOf
<1>7. /\ d = object[v].ref.data /\ val = object[v].val /\ f = object[d].ref
      /\ n = object[d].val /\ object[v].class = "Vector" /\ object[d].class = "Array"
  BY <1>6 DEF Object
<1>8. Of(v, "Vector")
  BY <1>2, TheVector
<1>9. n \in Nat \ {0} /\ val \in 0 .. n /\ DOMAIN f = 0 .. n - 1 /\ Pairs(f, val, W)'
  <2>1. PICK X : X = {v, d}
    OBVIOUS
  <2>2. Only(X) /\ \A r \in X : object[r].class # "Pair"
    BY <1>5, <1>7, <2>1
  <2>3. QED
    BY <1>1, <1>3, <1>4, <1>7, <1>8, <2>2, ListedPairs
<1>10. Shows(e, w)'
  <2>1. e \in InUse /\ object[e].class = "Pair"
    BY <1>4 DEF Shows, Of
  <2>2. Fixed(InUse)
    BY <1>5, OnlyFixes
  <2>3. object'[e] = object[e]
    BY <1>6, <1>7, <2>1 DEF InUse
  <2>4. QED
    BY <1>1, <1>3, <1>4, <2>1, <2>2, <2>3, ShowsGoesOn
<1>11. w \notin W
  BY <1>2 DEF Listed, Current
<1>12. val \in Nat /\ val < n /\ val \in DOMAIN f
  BY <1>4, <1>7, <1>9
<1>13. PICK g : g = [f EXCEPT ![val] = e]
  OBVIOUS
<1>14. Pairs(g, val + 1, W \cup {w})'
  BY <1>9, <1>10, <1>11, <1>12, <1>13, OnePairMoreAfter DEF PairsGrow
<1>15. DOMAIN g = 0 .. n - 1
  BY <1>9, <1>13
<1>16. /\ object'[v].ref.data = d /\ object'[v].val = val + 1
       /\ object'[d].ref = g /\ object'[d].val = n
  BY <1>6, <1>13 DEF Object
<1>17. Lists(v, W \cup {w})'
  BY <1>9, <1>12, <1>14, <1>15, <1>16 DEF Lists
<1>18. Listed(pc)' = W \cup {w}
  BY <1>1, <1>2, ListedStays
<1>19. slots'[3] = v
  BY <1>1, <1>2, VectorStaysThere
<1>20. QED
  BY <1>1, <1>17, <1>18, <1>19

LEMMA CopyLists ==
    ASSUME StackInv, StackInv', ObjectsInv, ObjectsInv', ParseInv, IterInv, VectorInv, Next,
           pc = "copy_to", pc' # "undefined"
    PROVE  /\ pc' = "store" /\ Lists(slots[3], Listed(pc))'
           /\ object'[slots'[3]].val < object'[object'[slots'[3]].ref.data].val
           /\ slots' = slots
           /\ Fixed(InUse) /\ \A r \in InUse : object[r].class = "Pair" => object'[r] = object[r]
<1> USE DEF Looping, Visiting, Pairing, Pushing
<1>1. /\ pc' = "store" /\ moving' = moving /\ slots' = slots
      /\ \E d, val, f, n : Enlarged(slots[9], oop, d, val, f, n) /\ Only({slots[9], oop})
  BY ActionAt, CopyShape, MovingStays
<1>2. PICK v, a, W : v = slots[3] /\ a = oop /\ W = Listed(pc)
  OBVIOUS
<1>3. VectorAt(pc) /\ HeapInv
  BY DEF VectorInv, ObjectsInv
<1>4. /\ slots[9] = v /\ Lists(v, W) /\ a # object[v].ref.data
      /\ object[a] = Array(2 * object[object[v].ref.data].val)
  BY <1>2, <1>3 DEF VectorAt
<1>5. PICK d, val, f, n : Enlarged(v, a, d, val, f, n) /\ Only({v, a})
  BY <1>1, <1>2, <1>4
<1>6. /\ object[v] = Object("Vector", [data |-> d], val) /\ object[d] = Object("Array", f, n)
      /\ object'[v] = Object("Vector", [data |-> a], val)
      /\ object'[a].val = object[a].val
      /\ DOMAIN object'[a].ref = DOMAIN object[a].ref
      /\ \A i \in DOMAIN object[a].ref : i \in DOMAIN f => object'[a].ref[i] = f[i]
  BY <1>5 DEF Enlarged, VectorOf
<1>7. /\ d = object[v].ref.data /\ val = object[v].val /\ f = object[d].ref
      /\ n = object[d].val /\ object[v].class = "Vector"
  BY <1>6 DEF Object
<1>8. Of(v, "Vector")
  BY <1>2, TheVector
<1>9. object[a].val = 2 * n /\ DOMAIN object[a].ref = 0 .. 2 * n - 1 /\ object[a].class = "Array"
  BY <1>4, <1>7 DEF Array, Object
<1>10. Only({v, a}) /\ \A r \in {v, a} : object[r].class # "Pair"
  BY <1>5, <1>7, <1>9
<1>11. n \in Nat \ {0} /\ val \in 0 .. n /\ DOMAIN f = 0 .. n - 1 /\ Pairs(f, val, W)'
  <2>1. PICK X : X = {v, a}
    OBVIOUS
  <2>2. Only(X) /\ \A r \in X : object[r].class # "Pair"
    BY <1>10, <2>1
  <2>3. QED
    BY <1>1, <1>3, <1>4, <1>7, <1>8, <2>2, ListedPairs
<1>12. PICK g : g = object'[a].ref
  OBVIOUS
<1>13. DOMAIN g = 0 .. 2 * n - 1 /\ \A i \in 0 .. val - 1 : g[i] = f[i]
  BY <1>6, <1>9, <1>11, <1>12
<1>14. Pairs(g, val, W)'
  BY <1>11, <1>13, SamePairsAfter DEF PairsMove
<1>15. /\ object'[v].ref.data = a /\ object'[v].val = val
       /\ object'[a].ref = g /\ object'[a].val = 2 * n
  BY <1>6, <1>9, <1>12 DEF Object
<1>16. val \in 0 .. 2 * n /\ 2 * n # 0 /\ val < 2 * n
  BY <1>11
<1>17. Lists(v, W)'
  BY <1>13, <1>14, <1>15, <1>16 DEF Lists
<1>18. Listed(pc)' = W
  BY <1>1, <1>2, ListedStays
<1>19. Fixed(InUse) /\ \A r \in InUse : object[r].class = "Pair" => object'[r] = object[r]
  BY <1>10, OnlyFixes
<1>20. slots'[3] = v
  BY <1>1, <1>2
<1>21. QED
  BY <1>1, <1>15, <1>16, <1>17, <1>18, <1>19, <1>20

(* From place to place in the body of the loop. *)
LEMMA BodyOrder ==
    ASSUME Next, pc' # "undefined", pc \in Looping
    PROVE  /\ pc = "own_node" => pc' = "add_count"
           /\ pc = "add_count" => pc' = "make_first"
           /\ pc = "make_first" => pc' = "make_pair"
           /\ pc = "make_pair" => pc' = "make_second"
           /\ pc = "make_second" => pc' = "init_pair"
           /\ pc = "init_pair" => pc' = "push_back"
           /\ pc = "push_back" => pc' = "own_elem"
           /\ pc = "own_elem" => pc' = "is_full"
           /\ pc = "is_full" => pc' \in {"resize", "store"}
           /\ pc = "resize" => pc' = "make_larger"
           /\ pc = "make_larger" => pc' = "copy_to"
           /\ pc = "copy_to" => pc' = "store"
           /\ pc = "store" => pc' = "next_word"
           /\ pc = "next_word" => pc' = "has_next"
           /\ pc = "has_next" => pc' \in {"own_node", "print"}
           /\ pc = "print" => pc' = "done"
<1> USE ActionAt DEF MakeHandle, New, At, Goto
<1>1. /\ pc = "make_first" => pc' = "make_pair"
      /\ pc = "make_pair" => pc' = "make_second"
      /\ pc = "make_second" => pc' = "init_pair"
      /\ pc = "init_pair" => pc' = "push_back"
  BY DEF PairMake
<1>2. /\ pc = "push_back" => pc' = "own_elem"
      /\ pc = "own_elem" => pc' = "is_full"
      /\ pc = "is_full" => pc' \in {"resize", "store"}
      /\ pc = "store" => pc' = "next_word"
  BY DEF PushBack
<1>3. /\ pc = "resize" => pc' = "make_larger"
      /\ pc = "make_larger" => pc' = "copy_to"
      /\ pc = "copy_to" => pc' = "store"
  BY DEF ResizeVector
<1>4. /\ pc = "own_node" => pc' = "add_count"
      /\ pc = "add_count" => pc' = "make_first"
      /\ pc = "next_word" => pc' = "has_next"
      /\ pc = "has_next" => pc' \in {"own_node", "print"}
      /\ pc = "print" => pc' = "done"
  BY DEF Count
<1>5. QED
  BY <1>1, <1>2, <1>3, <1>4

(* What a new Handle in the body of the loop does to the slots. *)
LEMMA OneSlotMore ==
    ASSUME StackInv, pc # "undefined", NEW n \in Nat, Frame(pc).used = {n},
           NEW h, NEW p, Push(h, p)
    PROVE  slots'[n + 1] = p /\ \A i \in 1 .. n : slots'[i] = slots[i]
<1>1. Len(slots) = n
  BY DepthIs
<1>2. QED
  BY <1>1, SlotsKept

LEMMA BodyReads ==
    ASSUME StackInv, ObjectsInv, pc \in Looping
    PROVE  /\ pc = "make_first" => Read("curr") = slots[4] /\ Frame(pc).used = {4}
           /\ pc = "make_second" => Frame(pc).used = {5}
           /\ pc = "push_back" => Read("vector") = slots[3] /\ Frame(pc).used = {6}
           /\ pc = "own_elem" => Frame(pc).used = {7}
           /\ pc = "is_full" => Read("h_self") = slots[7]
           /\ pc = "resize" => Frame(pc).used = {8}
           /\ pc = "make_larger" => Read("hm_self") = slots[9]
<1>0. pc # "undefined"
  BY DEF Looping, Visiting, Pairing, Pushing
<1>1. /\ pc = "make_first" => Frame(pc).used = {4}
      /\ pc = "make_second" => Frame(pc).used = {5}
      /\ pc = "push_back" => Frame(pc).used = {6}
      /\ pc = "own_elem" => Frame(pc).used = {7}
      /\ pc = "resize" => Frame(pc).used = {8}
  BY DEF Frame, FrameOf
<1>2. /\ pc = "make_first" => "curr" \in Frame(pc).names
      /\ pc = "push_back" => "vector" \in Frame(pc).names
      /\ pc = "is_full" => "h_self" \in Frame(pc).names
      /\ pc = "make_larger" => "hm_self" \in Frame(pc).names
  BY DEF Frame, FrameOf, InCount, InLoop, InPush
<1>3. QED
  BY <1>0, <1>1, <1>2, ReadsAre DEF Slot

(* The node of the loop and its word. *)
LEMMA TheNode ==
    ASSUME StackInv, ObjectsInv, ParseInv, IterInv, pc \in Visiting \ {"own_node"},
           NEW c, c = slots[4]
    PROVE  /\ c \in Nodes /\ c \in InUse /\ object[c].class = "Node"
           /\ Of(object[c].ref.key, "String")
           /\ ValueOf(c) \in InUse /\ object[ValueOf(c)].class = "SizeT"
           /\ object[ValueOf(c)] = SizeT(Occurrences(Key(c), Len(text)))
           /\ 4 \in DOMAIN slots
<1>1. c = Current(pc)
  BY DEF Current
<1>2. /\ c \in Nodes /\ Of(object[c].ref.key, "String") /\ ValueOf(c) \in InUse
      /\ object[ValueOf(c)] = SizeT(Occurrences(Key(c), Len(text)))
  BY <1>1, CurrentIsBehind
<1>3. c \in InUse /\ object[c].class = "Node"
  BY <1>2, NodesLeadToNodes DEF ObjectsInv
<1>4. object[ValueOf(c)].class = "SizeT"
  BY <1>2 DEF SizeT, Object
<1>5. 4 \in DOMAIN slots
  <2>1. "curr" \in Frame(pc).names
    BY DEF Visiting, Pairing, Pushing, Frame, FrameOf, InPush, InLoop, InCount
  <2>2. QED
    BY <2>1, NamesHaveSlots DEF Slot, Visiting, Pairing, Pushing
<1>6. QED
  BY <1>2, <1>3, <1>4, <1>5

LEMMA MakeFirstPair ==
    ASSUME StackInv, ObjectsInv, PairMake, pc = "make_first" PROVE PairAt(pc)'
<1>1. /\ pc' = "make_pair" /\ UNCHANGED object
      /\ Push("first", object[Read("curr")].ref.key)
  BY DEF PairMake, MakeHandle, New, At, Goto
<1>2. Read("curr") = slots[4] /\ Frame(pc).used = {4}
  BY BodyReads DEF Looping, Visiting
<1>3. slots'[5] = object[slots[4]].ref.key /\ slots'[4] = slots[4]
  BY <1>1, <1>2, OneSlotMore
<1>4. slots'[5] = object'[slots'[4]].ref.key
  BY <1>1, <1>3
<1>5. QED
  BY <1>1, <1>4 DEF PairAt, Pairing, Pushing

LEMMA MakePairPair ==
    ASSUME StackInv, ObjectsInv, ParseInv, IterInv, VectorInv, PairMake, pc = "make_pair"
    PROVE  PairAt(pc)'
<1>1. /\ pc' = "make_second" /\ Alloc(Pair(Null, Null)) /\ slots' = slots
      /\ UNCHANGED inputVars
  BY DEF PairMake, MakeHandle, New, At, Goto, stackVars
<1>2. moving' = moving
  BY MovingStays DEF Next
<1>3. PICK obj : obj = Pair(Null, Null)
  OBVIOUS
<1>4. obj.class # "Free" /\ obj.ref.first = Null
  BY <1>3 DEF Pair, Object
<1>5. /\ object'[oop'] = obj /\ (raw' = raw \/ Lost(raw)')
      /\ \E K : Same(K) /\ Holds(K)
  BY <1>1, <1>3, <1>4, AllocSame DEF Allocations
<1>6. PICK K : Same(K) /\ Holds(K)
  BY <1>5
<1>7. PICK c : c = slots[4]
  OBVIOUS
<1>8. c \in InUse /\ 4 \in DOMAIN slots
  BY <1>7, TheNode DEF Visiting, Pairing
<1>9. object'[c] = object[c]
  BY <1>6, <1>7, <1>8 DEF Same, Holds
<1>10. slots[5] = object[c].ref.key
  BY <1>7 DEF VectorInv, PairAt, Pairing
<1>11. raw = ValueOf(c) \/ Lost(raw)
  BY <1>7 DEF ObjectsInv, PlaceInv, RawFrom, ValueOf
<1>12. raw' = ValueOf(c)' \/ Lost(raw)'
  BY <1>2, <1>5, <1>9, <1>11 DEF ValueOf, Lost
<1>13. /\ slots'[5] = object'[slots'[4]].ref.key
       /\ raw' = ValueOf(slots[4])' \/ Lost(raw)'
       /\ object'[oop'].ref.first = Null
  BY <1>1, <1>4, <1>5, <1>7, <1>9, <1>10, <1>12
<1>14. QED
  BY <1>1, <1>13 DEF PairAt, Pairing, Pushing

LEMMA MakeSecondPair ==
    ASSUME StackInv, ObjectsInv, VectorInv, PairMake, pc = "make_second" PROVE PairAt(pc)'
<1>1. pc' = "init_pair" /\ UNCHANGED <<object, oop, moving>> /\ Push("second", raw)
  BY DEF PairMake, MakeHandle, New, At, Goto, heapVars
<1>2. Frame(pc).used = {5}
  BY BodyReads DEF Looping, Visiting, Pairing
<1>3. slots'[6] = raw /\ slots'[5] = slots[5] /\ slots'[4] = slots[4]
  BY <1>1, <1>2, OneSlotMore
<1>4. /\ slots[5] = object[slots[4]].ref.key /\ object[oop].ref.first = Null
      /\ raw = ValueOf(slots[4]) \/ Lost(raw)
  BY DEF VectorInv, PairAt, Pairing
<1>5. /\ slots'[5] = object'[slots'[4]].ref.key /\ object'[oop'].ref.first = Null
      /\ slots'[6] = ValueOf(slots[4])' \/ Lost(slots[6])'
  BY <1>1, <1>3, <1>4 DEF ValueOf, Lost
<1>6. QED
  BY <1>1, <1>5 DEF PairAt, Pairing, Pushing

LEMMA InitPairPair ==
    ASSUME StackInv, ObjectsInv, ObjectsInv', ParseInv, IterInv, VectorInv, PairMake,
           pc = "init_pair"
    PROVE  PairAt(pc)'
<1>1. /\ pc' = "push_back" /\ slots' = slots /\ oop' = oop /\ Only({oop})
      /\ Of(oop, "Pair") /\ object'[oop] = Pair(slots[5], slots[6])
  BY InitPairShape
<1>2. moving' = moving
  BY MovingStays DEF Next
<1>3. PICK c, p, q, r, w : /\ c = slots[4] /\ p = oop /\ q = slots[5] /\ r = slots[6]
                           /\ w = Key(c)
  OBVIOUS
<1>4. /\ q = object[c].ref.key /\ (r = ValueOf(c) \/ Lost(r))
  BY <1>3 DEF VectorInv, PairAt, Pairing
<1>5. /\ c \in InUse /\ object[c].class = "Node" /\ Of(q, "String")
      /\ ValueOf(c) \in InUse /\ object[ValueOf(c)].class = "SizeT"
      /\ object[ValueOf(c)] = SizeT(Occurrences(w, Len(text)))
  BY <1>3, <1>4, TheNode DEF Visiting, Pairing
<1>6. Fixed(InUse) /\ InUse' = InUse /\ \A x \in InUse \ {p} : object'[x] = object[x]
  BY <1>1, <1>3, OnlyFixes
<1>7. object[p].class = "Pair" /\ p \in InUse
  BY <1>1, <1>3 DEF Of
<1>8. /\ object'[c] = object[c] /\ object'[q] = object[q]
      /\ object'[ValueOf(c)] = object[ValueOf(c)]
  BY <1>5, <1>6, <1>7 DEF Of
<1>9. object'[p].class = "Pair" /\ object'[p].ref.first = q /\ object'[p].ref.second = r
  BY <1>1, <1>3 DEF Pair, Object
<1>10. Key(c)' = w
  BY <1>3, <1>4, <1>8 DEF Key
<1>11. Word(p)' = w
  BY <1>3, <1>4, <1>8, <1>9 DEF Key, Word
<1>12. Of(p, "Pair")' /\ Of(q, "String")'
  BY <1>5, <1>6, <1>7, <1>8, <1>9 DEF Of
<1>13. SizeT(Occurrences(w, Len(text)))' = SizeT(Occurrences(w, Len(text)))
  BY <1>6 DEF Fixed, Carried, inputVars, SizeT, Occurrences, Object
<1>14. Lost(r)' \/ (r \in InUse' /\ object'[r] = SizeT(Occurrences(w, Len(text))))
  BY <1>2, <1>4, <1>5, <1>6, <1>8 DEF Lost
<1>15. Shows(p, w)'
  BY <1>9, <1>11, <1>12, <1>13, <1>14 DEF Shows
<1>16. oop' = p /\ Key(slots[4])' = w
  BY <1>1, <1>3, <1>10
<1>17. Shows(oop, Key(slots[4]))'
  BY <1>15, <1>16
<1>18. QED
  BY <1>1, <1>17 DEF PairAt, Pairing, Pushing

(* The pair that goes to the vector. *)
LEMMA ElementStays ==
    ASSUME StackInv, ObjectsInv, ObjectsInv', ParseInv, IterInv, pc \in Visiting \ {"own_node"},
           NEW K, Fixed(K), moving' = moving, NEW p \in K, object'[p] = object[p],
           NEW c, c = slots[4], c \in K, Shows(p, Key(c))
    PROVE  Shows(p, Key(c))'
<1>1. c \in Nodes
  BY TheNode
<1>2. Key(c)' = Key(c)
  BY <1>1, NodesCarried DEF Fixed, ObjectsInv
<1>3. PICK w : w = Key(c)
  OBVIOUS
<1>4. Shows(p, w)'
  BY <1>3, ShowsGoesOn DEF ObjectsInv
<1>5. QED
  BY <1>2, <1>3, <1>4

LEMMA PushBackPair ==
    ASSUME StackInv, ObjectsInv, ObjectsInv', ParseInv, IterInv, VectorInv, PushBack,
           pc = "push_back"
    PROVE  PairAt(pc)'
<1>1. /\ pc' = "own_elem" /\ UNCHANGED <<object, oop, moving, inputVars>>
      /\ Push("h_self", Read("vector"))
  BY DEF PushBack, MakeHandle, At, Goto
<1>2. Read("vector") = slots[3] /\ Frame(pc).used = {6}
  BY BodyReads DEF Looping, Visiting, Pushing
<1>3. slots'[7] = slots[3] /\ slots'[3] = slots[3] /\ slots'[4] = slots[4]
  BY <1>1, <1>2, OneSlotMore
<1>4. PICK p, c : p = oop /\ c = slots[4]
  OBVIOUS
<1>5. Shows(p, Key(c))
  BY <1>4 DEF VectorInv, PairAt
<1>6. Fixed(InUse) /\ p \in InUse /\ c \in InUse
  <2>1. Same(InUse)
    BY <1>1, QuietSame
  <2>2. p \in InUse
    BY <1>5 DEF Shows, Of
  <2>3. c \in InUse
    BY <1>4, TheNode DEF Visiting
  <2>4. QED
    BY <2>1, <2>2, <2>3 DEF Same
<1>7. Shows(p, Key(c))'
  BY <1>1, <1>4, <1>5, <1>6, ElementStays DEF Visiting
<1>8. Shows(oop, Key(slots[4]))'
  BY <1>1, <1>3, <1>4, <1>7
<1>9. QED
  BY <1>1, <1>3, <1>8 DEF PairAt, Pairing, Pushing

LEMMA OwnElemPair ==
    ASSUME StackInv, ObjectsInv, ObjectsInv', ParseInv, IterInv, VectorInv, PushBack,
           pc = "own_elem"
    PROVE  PairAt(pc)'
<1>1. pc' = "is_full" /\ UNCHANGED <<object, moving, inputVars>> /\ Push("h_elem", oop)
  BY DEF PushBack, MakeHandle, At, Goto, heapVars
<1>2. Frame(pc).used = {7}
  BY BodyReads DEF Looping, Visiting, Pushing
<1>3. /\ slots'[8] = oop /\ slots'[3] = slots[3] /\ slots'[4] = slots[4]
      /\ slots'[7] = slots[7]
  BY <1>1, <1>2, OneSlotMore
<1>4. PICK p, c : p = oop /\ c = slots[4]
  OBVIOUS
<1>5. Shows(p, Key(c)) /\ slots[7] = slots[3]
  BY <1>4 DEF VectorInv, PairAt, Pushing
<1>6. Fixed(InUse) /\ p \in InUse /\ c \in InUse
  <2>1. Same(InUse)
    BY <1>1, QuietSame
  <2>2. p \in InUse
    BY <1>5 DEF Shows, Of
  <2>3. c \in InUse
    BY <1>4, TheNode DEF Visiting, Pushing
  <2>4. QED
    BY <2>1, <2>2, <2>3 DEF Same
<1>7. Shows(p, Key(c))'
  BY <1>1, <1>4, <1>5, <1>6, ElementStays DEF Visiting, Pushing
<1>8. Shows(slots[8], Key(slots[4]))'
  BY <1>3, <1>4, <1>7
<1>9. QED
  BY <1>1, <1>3, <1>5, <1>8 DEF PairAt, Pairing, Pushing

LEMMA PushFrames ==
    ASSUME NEW l \in Pushing \ {"own_elem"}
    PROVE  /\ "vector" \in Frame(l).names /\ "curr" \in Frame(l).names
           /\ "h_self" \in Frame(l).names /\ "h_elem" \in Frame(l).names
<1>1. Frame(l).names = InPush \/ Frame(l).names = InPush \cup {"hm_self"}
  BY DEF Pushing, Frame, FrameOf
<1>2. QED
  BY <1>1 DEF InPush, InLoop, InCount

(* From is_full on the element has its Handle. *)
LEMMA PushPair ==
    ASSUME StackInv, StackInv', ObjectsInv, ObjectsInv', ParseInv, IterInv, VectorInv, Next,
           pc \in {"is_full", "resize", "make_larger", "copy_to"}, pc' # "undefined",
           NEW K, Fixed(K), slots[8] \in K, object'[slots[8]] = object[slots[8]],
           slots[4] \in K
    PROVE  PairAt(pc)'
<1>0. pc \in Looping /\ pc \in Visiting \ {"own_node"} /\ pc \in Pushing \ {"own_elem"}
  BY DEF Looping, Visiting, Pushing
<1>1. pc' \in {"resize", "make_larger", "copy_to", "store"}
  BY <1>0, BodyOrder
<1>2. moving' = moving
  BY MovingStays
<1>3. /\ slots'[3] = slots[3] /\ slots'[4] = slots[4] /\ slots'[7] = slots[7]
      /\ slots'[8] = slots[8]
  <2>1. /\ "vector" \in Frame(pc).names /\ "curr" \in Frame(pc).names
        /\ "h_self" \in Frame(pc).names /\ "h_elem" \in Frame(pc).names
    BY <1>0, PushFrames
  <2>2. /\ "vector" \in Frame(pc').names /\ "curr" \in Frame(pc').names
        /\ "h_self" \in Frame(pc').names /\ "h_elem" \in Frame(pc').names
    <3>1. pc' \in Pushing \ {"own_elem"}
      BY <1>1 DEF Pushing
    <3>2. QED
      BY <3>1, PushFrames
  <2>3. /\ slots'[Slot["vector"]] = slots[Slot["vector"]]
        /\ slots'[Slot["curr"]] = slots[Slot["curr"]]
        /\ slots'[Slot["h_self"]] = slots[Slot["h_self"]]
        /\ slots'[Slot["h_elem"]] = slots[Slot["h_elem"]]
    BY <2>1, <2>2, SlotStays
  <2>4. QED
    BY <2>3 DEF Slot
<1>4. PICK p, c : p = slots[8] /\ c = slots[4]
  OBVIOUS
<1>5. Shows(p, Key(c)) /\ slots[7] = slots[3]
  BY <1>0, <1>4 DEF VectorInv, PairAt, Pushing
<1>6. Shows(p, Key(c))'
  BY <1>0, <1>2, <1>4, <1>5, ElementStays
<1>7. Shows(slots[8], Key(slots[4]))'
  BY <1>3, <1>4, <1>6
<1>8. QED
  BY <1>1, <1>3, <1>5, <1>7 DEF PairAt, Pairing, Pushing

LEMMA TheElement ==
    ASSUME StackInv, ObjectsInv, ParseInv, IterInv, VectorInv, pc \in Pushing \ {"own_elem"}
    PROVE  /\ slots[8] \in InUse /\ 8 \in DOMAIN slots /\ object[slots[8]].class = "Pair"
           /\ slots[4] \in InUse /\ 4 \in DOMAIN slots
<1>1. Shows(slots[8], Key(slots[4])) /\ pc # "undefined"
  BY DEF VectorInv, PairAt, Pushing
<1>2. slots[8] \in InUse /\ object[slots[8]].class = "Pair"
  <2>1. PICK p, w : p = slots[8] /\ w = Key(slots[4])
    OBVIOUS
  <2>2. Shows(p, w)
    BY <1>1, <2>1
  <2>3. QED
    BY <2>1, <2>2 DEF Shows, Of
<1>3. 8 \in DOMAIN slots
  <2>1. "h_elem" \in Frame(pc).names
    BY PushFrames
  <2>2. QED
    BY <1>1, <2>1, NamesHaveSlots DEF Slot
<1>4. slots[4] \in InUse /\ 4 \in DOMAIN slots
  BY TheNode DEF Visiting, Pushing
<1>5. QED
  BY <1>2, <1>3, <1>4

LEMMA IsFullVector ==
    ASSUME StackInv, StackInv', ObjectsInv, ObjectsInv', ParseInv, IterInv, VectorInv, Next,
           pc = "is_full", pc' # "undefined"
    PROVE  VectorAt(pc)' /\ PairAt(pc)'
<1>0. pc \in Looping /\ pc \in Visiting /\ pc \in Pushing \ {"own_elem"}
  BY DEF Looping, Visiting, Pushing
<1>1. /\ UNCHANGED <<object, slots, inputVars>>
      /\ pc' = IF IsFull(Read("h_self")) THEN "resize" ELSE "store"
  BY ActionAt DEF PushBack, MakeHandle, At, Goto, stackVars, heapVars
<1>2. Same(InUse)
  BY <1>1, QuietSame
<1>3. PairAt(pc)'
  <2>1. Fixed(InUse) /\ slots[8] \in InUse /\ slots[4] \in InUse
    BY <1>0, <1>2, TheElement DEF Same
  <2>2. object'[slots[8]] = object[slots[8]]
    BY <1>1
  <2>3. QED
    BY <2>1, <2>2, PushPair
<1>4. PICK v : v = slots[3]
  OBVIOUS
<1>5. Read("h_self") = v
  BY <1>0, <1>4, BodyReads DEF VectorInv, PairAt
<1>6. pc' \in Looping /\ pc' \in {"resize", "store"}
  BY <1>1 DEF Looping, Visiting, Pushing
<1>7. Lists(slots[3], Listed(pc))'
  BY <1>0, <1>6, LoopLists
<1>8. ASSUME pc' = "store"
      PROVE  object'[slots'[3]].val < object'[object'[slots'[3]].ref.data].val
  <2>1. ~IsFull(v)
    BY <1>1, <1>5, <1>8
  <2>2. PICK W : Lists(v, W)
    BY <1>0, <1>4 DEF VectorInv, VectorAt
  <2>3. PICK d, val, n : d = object[v].ref.data /\ val = object[v].val /\ n = object[d].val
    OBVIOUS
  <2>4. val # n /\ val \in 0 .. n
    BY <2>1, <2>2, <2>3 DEF IsFull, Lists
  <2>5. val < n
    <3>1. Of(d, "Array")
      BY <1>0, <1>4, <2>3, TheVector DEF Of, ObjectsInv, HeapInv, Formed
    <3>2. n \in Nat
      BY <2>3, <3>1 DEF Of, ObjectsInv, HeapInv, Formed
    <3>3. QED
      BY <2>4, <3>2
  <2>6. QED
    BY <1>1, <1>4, <2>3, <2>5
<1>9. QED
  BY <1>3, <1>6, <1>7, <1>8 DEF VectorAt

LEMMA ResizeVectorAt ==
    ASSUME StackInv, StackInv', ObjectsInv, ObjectsInv', ParseInv, IterInv, VectorInv, Next,
           pc = "resize", pc' # "undefined"
    PROVE  VectorAt(pc)' /\ PairAt(pc)'
<1>0. pc \in Looping /\ pc \in Visiting /\ pc \in Pushing \ {"own_elem"}
  BY DEF Looping, Visiting, Pushing
<1>1. UNCHANGED <<object, inputVars>> /\ Push("hm_self", raw) /\ pc' = "make_larger"
  BY ActionAt DEF ResizeVector, New, MakeHandle, At, Goto, stackVars, heapVars
<1>2. PairAt(pc)'
  <2>1. Fixed(InUse) /\ slots[8] \in InUse /\ slots[4] \in InUse
    BY <1>0, <1>1, QuietSame, TheElement DEF Same
  <2>2. object'[slots[8]] = object[slots[8]]
    BY <1>1
  <2>3. QED
    BY <2>1, <2>2, PushPair
<1>3. raw = slots[3]
  BY DEF ObjectsInv, PlaceInv, RawFrom, Fresh, Lost
<1>4. slots'[9] = raw /\ slots'[3] = slots[3]
  <2>1. Frame(pc).used = {8}
    BY <1>0, BodyReads
  <2>2. QED
    BY <1>1, <2>1, OneSlotMore
<1>5. Lists(slots[3], Listed(pc))'
  BY <1>0, <1>1, LoopLists DEF Looping, Visiting, Pushing
<1>6. QED
  BY <1>1, <1>2, <1>3, <1>4, <1>5 DEF VectorAt

LEMMA MakeLargerVector ==
    ASSUME StackInv, StackInv', ObjectsInv, ObjectsInv', ParseInv, IterInv, VectorInv, Next,
           pc = "make_larger", pc' # "undefined"
    PROVE  VectorAt(pc)' /\ PairAt(pc)'
<1>0. pc \in Looping /\ pc \in Visiting /\ pc \in Pushing \ {"own_elem"} /\ pc \in Allocations
  BY DEF Looping, Visiting, Pushing, Allocations
<1>1. /\ UNCHANGED inputVars /\ slots' = slots /\ pc' = "copy_to"
      /\ Alloc(Array(2 * object[object[Read("hm_self")].ref.data].val))
  BY ActionAt DEF ResizeVector, New, MakeHandle, At, Goto, stackVars, heapVars
<1>2. PICK v, d, n : v = slots[3] /\ d = object[v].ref.data /\ n = object[d].val
  OBVIOUS
<1>3. Read("hm_self") = v /\ slots[9] = v
  BY <1>0, <1>2, BodyReads DEF VectorInv, VectorAt
<1>4. PICK obj : obj = Array(2 * n)
  OBVIOUS
<1>5. obj.class # "Free" /\ Alloc(obj)
  <2>1. obj.class # "Free"
    BY <1>4 DEF Array, Object
  <2>2. 2 * object[object[Read("hm_self")].ref.data].val = 2 * n
    BY <1>2, <1>3
  <2>3. Alloc(obj)
    BY <1>1, <1>4, <2>2
  <2>4. QED
    BY <2>1, <2>3
<1>6. /\ object'[oop'] = obj
      /\ \E K : /\ Same(K) /\ Holds(K) /\ oop' \notin K
  BY <1>0, <1>1, <1>5, AllocSame
<1>7. PICK K : Same(K) /\ Holds(K) /\ oop' \notin K
  BY <1>6
<1>8. PairAt(pc)'
  <2>1. /\ slots[8] \in InUse /\ slots[4] \in InUse
        /\ 8 \in DOMAIN slots /\ 4 \in DOMAIN slots
    BY <1>0, TheElement
  <2>2. slots[8] \in K /\ slots[4] \in K
    BY <1>7, <2>1 DEF Holds
  <2>3. Fixed(K) /\ object'[slots[8]] = object[slots[8]]
    BY <1>7, <2>2 DEF Same
  <2>4. QED
    BY <2>2, <2>3, PushPair
<1>9. /\ Lists(slots[3], Listed(pc))' /\ object'[v] = object[v] /\ object'[d] = object[d]
  BY <1>0, <1>1, <1>2, LoopLists DEF Looping, Visiting, Pushing
<1>10. d \in K
  <2>1. Of(v, "Vector") /\ 3 \in DOMAIN slots
    BY <1>0, <1>2, TheVector
  <2>2. v \in K /\ Formed(v) /\ v \in InUse /\ object[v].class = "Vector"
    BY <1>2, <1>7, <2>1 DEF Holds, Of, ObjectsInv, HeapInv
  <2>3. d \in Trace(v) /\ d \in InUse
    BY <1>2, <2>2, TraceOfFormed DEF Formed, Of
  <2>4. QED
    BY <1>7, <2>2, <2>3 DEF Same, Fixed, Carried
<1>11. /\ slots'[9] = slots'[3] /\ object'[slots'[3]].ref.data = d /\ object'[d].val = n
       /\ oop' # d /\ object'[oop'] = Array(2 * n)
  BY <1>1, <1>2, <1>3, <1>4, <1>6, <1>7, <1>9, <1>10
<1>12. Array(2 * object[d].val)' = Array(2 * n)
  BY <1>11 DEF Array, Object
<1>13. (LET data == object[slots[3]].ref.data
        IN  oop # data /\ object[oop] = Array(2 * object[data].val))'
  BY <1>11 DEF Array, Object
<1>14. QED
  BY <1>1, <1>8, <1>9, <1>11, <1>13 DEF VectorAt

LEMMA CopyVector ==
    ASSUME StackInv, StackInv', ObjectsInv, ObjectsInv', ParseInv, IterInv, VectorInv, Next,
           pc = "copy_to", pc' # "undefined"
    PROVE  VectorAt(pc)' /\ PairAt(pc)'
<1>1. /\ pc' = "store" /\ Lists(slots[3], Listed(pc))'
      /\ object'[slots'[3]].val < object'[object'[slots'[3]].ref.data].val
      /\ Fixed(InUse) /\ \A r \in InUse : object[r].class = "Pair" => object'[r] = object[r]
  BY CopyLists
<1>2. PairAt(pc)'
  <2>1. slots[8] \in InUse /\ slots[4] \in InUse /\ object[slots[8]].class = "Pair"
    BY TheElement DEF Pushing
  <2>2. object'[slots[8]] = object[slots[8]]
    BY <1>1, <2>1
  <2>3. QED
    BY <1>1, <2>1, <2>2, PushPair
<1>3. QED
  BY <1>1, <1>2 DEF VectorAt

(* The steps of the loop. *)
LEMMA LoopVector ==
    ASSUME StackInv, StackInv', ObjectsInv, ObjectsInv', ParseInv, IterInv, VectorInv, Next,
           pc \in Looping, pc' \in Looping
    PROVE  VectorAt(pc)' /\ PairAt(pc)'
<1>0. pc # "undefined" /\ pc' # "undefined"
  BY DEF Looping, Visiting, Pairing, Pushing
<1>1. CASE pc \in {"own_node", "add_count", "next_word", "has_next"}
  <2>1. pc' \in {"add_count", "make_first", "has_next", "own_node", "print"}
    BY <1>0, <1>1, BodyOrder
  <2>2. Lists(slots[3], Listed(pc))'
    BY <1>1, LoopLists
  <2>3. VectorAt(pc)'
    BY <2>1, <2>2 DEF VectorAt
  <2>4. PairAt(pc)'
    BY <2>1 DEF PairAt, Pairing, Pushing
  <2>5. QED
    BY <2>3, <2>4
<1>2. CASE pc = "store"
  <2>1. pc' = "next_word" /\ Lists(slots[3], Listed(pc))'
    BY <1>0, <1>2, StoreLists
  <2>2. VectorAt(pc)'
    BY <2>1 DEF VectorAt
  <2>3. PairAt(pc)'
    BY <2>1 DEF PairAt, Pairing, Pushing
  <2>4. QED
    BY <2>2, <2>3
<1>3. CASE pc \in {"make_first", "push_back", "own_elem"} \cup Pairing
  <2>1. pc' \in {"make_pair", "make_second", "init_pair", "push_back", "own_elem", "is_full"}
    BY <1>0, <1>3, BodyOrder DEF Pairing
  <2>2. Lists(slots[3], Listed(pc))'
    BY <1>3, LoopLists DEF Pairing
  <2>3. VectorAt(pc)'
    BY <2>1, <2>2 DEF VectorAt
  <2>4. PairAt(pc)'
    BY <1>0, <1>3, ActionAt, MakeFirstPair, MakePairPair, MakeSecondPair, InitPairPair,
       PushBackPair, OwnElemPair DEF Pairing
  <2>5. QED
    BY <2>3, <2>4
<1>4. CASE pc \in {"is_full", "resize", "make_larger", "copy_to"}
  BY <1>0, <1>4, IsFullVector, ResizeVectorAt, MakeLargerVector, CopyVector
<1>5. CASE pc = "print"
  <2>1. pc' = "done"
    BY <1>0, <1>5, BodyOrder
  <2>2. QED
    BY <2>1 DEF Looping, Visiting, Pairing, Pushing
<1>6. QED
  BY <1>1, <1>2, <1>3, <1>4, <1>5 DEF Looping, Visiting, Pairing, Pushing

(* Vector::make. *)
LEMMA FillingVector ==
    ASSUME StackInv, StackInv', ObjectsInv, ObjectsInv', IterInv, VectorInv, Next,
           pc \in Filling, pc' # "undefined"
    PROVE  VectorAt(pc)' /\ PairAt(pc)'
<1>0. pc \notin {"undefined", "done", "count"}
  BY DEF Filling
<1>1. UNCHANGED inputVars /\ VectorAt(pc) /\ HeapInv
  BY <1>0, StepKinds DEF StepFact, VectorInv, ObjectsInv
<1>2. CASE pc = "make_array"
  <2>1. pc' = "own_array" /\ Alloc(Array(VECTOR_SIZE))
    BY <1>2, ActionAt DEF VectorMake, New, At, MakeHandle, Goto
  <2>2. PICK obj : obj = Array(VECTOR_SIZE)
    OBVIOUS
  <2>3. obj.class # "Free"
    BY <2>2 DEF Array, Object
  <2>4. object'[oop'] = obj
    BY <1>1, <1>2, <2>1, <2>2, <2>3, AllocSame DEF Allocations
  <2>5. Array(VECTOR_SIZE)' = obj
    BY <2>2 DEF Array, Object
  <2>6. QED
    BY <2>1, <2>4, <2>5 DEF VectorAt, PairAt, Looping, Visiting, Pairing, Pushing
<1>3. CASE pc = "own_array"
  <2>1. pc' = "make_vector" /\ UNCHANGED object /\ Push("array", oop)
    BY <1>3, ActionAt DEF VectorMake, New, At, MakeHandle, Goto, heapVars
  <2>2. Frame(pc).used = {2}
    BY <1>3 DEF Frame, FrameOf
  <2>3. slots'[3] = oop
    BY <1>0, <2>1, <2>2, OneSlotMore
  <2>4. object'[slots'[3]] = Array(VECTOR_SIZE)
    BY <1>1, <1>3, <2>1, <2>3 DEF VectorAt
  <2>5. Array(VECTOR_SIZE)' = Array(VECTOR_SIZE)
    BY DEF Array, Object
  <2>6. QED
    BY <2>1, <2>4, <2>5 DEF VectorAt, PairAt, Looping, Visiting, Pairing, Pushing
<1>4. CASE pc = "make_vector"
  <2>1. pc' = "own_vector" /\ Alloc(Vector(Read("array")))
    BY <1>4, ActionAt DEF VectorMake, New, At, MakeHandle, Goto
  <2>2. Read("array") = slots[3] /\ 3 \in DOMAIN slots /\ slots[3] \in InUse
    BY <1>4, ReadsAre DEF Frame, FrameOf, Slot, ClassOf, IsA, Of
  <2>3. PICK d, obj : d = slots[3] /\ obj = Vector(d)
    OBVIOUS
  <2>4. obj.class # "Free" /\ obj.val = 0 /\ obj.ref.data = d
    BY <2>3 DEF Vector, Object
  <2>5. /\ object'[oop'] = obj
        /\ \E K : Same(K) /\ Holds(K)
    BY <1>1, <1>4, <2>1, <2>2, <2>3, <2>4, AllocSame DEF Allocations
  <2>6. object'[d] = Array(VECTOR_SIZE)
    BY <1>1, <1>4, <2>2, <2>3, <2>5 DEF Same, Holds, VectorAt
  <2>7. /\ object'[d].val = VECTOR_SIZE /\ object'[d].val # 0
        /\ DOMAIN object'[d].ref = 0 .. VECTOR_SIZE - 1
    BY <2>6, CountAssumption DEF Array, Object
  <2>8. PICK f : f = object'[d].ref
    OBVIOUS
  <2>9. Pairs(f, 0, {})'
    BY DEF Pairs
  <2>10. Lists(oop, {})'
    <3>1. object'[oop'].val = 0 /\ object'[oop'].ref.data = d /\ VECTOR_SIZE \in Nat \ {0}
      BY <2>4, <2>5, CountAssumption
    <3>2. 0 \in 0 .. VECTOR_SIZE
      BY <3>1
    <3>3. QED
      BY <2>7, <2>8, <2>9, <3>1, <3>2 DEF Lists
  <2>11. QED
    BY <2>1, <2>10 DEF VectorAt, PairAt, Looping, Visiting, Pairing, Pushing
<1>5. CASE pc = "own_vector"
  <2>1. pc' = "has_next" /\ UNCHANGED object /\ Push("vector", oop)
    BY <1>5, ActionAt DEF Count, New, At, MakeHandle, Goto, heapVars
  <2>2. Frame(pc).used = {2}
    BY <1>5 DEF Frame, FrameOf
  <2>3. slots'[3] = oop /\ slots'[2] = slots[2]
    BY <1>0, <2>1, <2>2, OneSlotMore
  <2>4. PICK v : v = oop
    OBVIOUS
  <2>5. Lists(v, {}) /\ Of(v, "Vector")
    BY <1>1, <1>5, <2>4 DEF VectorAt, ObjectsInv, PlaceInv, OopAt
  <2>6. Kept(InUse) /\ v \in InUse
    <3>1. Same(InUse) /\ Holds(InUse)
      BY <1>1, <2>1, QuietSame
    <3>2. QED
      BY <2>5, <3>1, MovingStays DEF Kept, Same, Of
  <2>7. Lists(v, {})'
    BY <1>1, <2>5, <2>6, ListsGoOn
  <2>8. Behind(slots[2])' = {}
    <3>1. IterAt(pc) /\ pc \in Filling
      BY <1>5 DEF IterInv, Filling
    <3>2. pc' \in Filling \cup Looping /\ pc' # "own_node"
      BY <2>1 DEF Looping
    <3>3. PICK i, m, t : IterKept(i, m, t)
      BY <3>1, <3>2, IterStays DEF IterAt
    <3>4. i = slots[2] /\ slots'[2] = i /\ Behind(i)' = Behind(i)
      BY <3>3 DEF IterKept
    <3>5. Behind(slots[2]) = {}
      BY <3>1 DEF IterAt
    <3>6. QED
      BY <3>4, <3>5
  <2>9. Listed(pc)' = {}
    BY <2>1, <2>8 DEF Listed, Visiting, Pairing, Pushing
  <2>10. Lists(slots[3], Listed(pc))'
    BY <2>3, <2>4, <2>7, <2>9
  <2>11. QED
    BY <2>1, <2>10 DEF VectorAt, PairAt, Pairing, Pushing
<1>6. QED
  BY <1>2, <1>3, <1>4, <1>5 DEF Filling

(* Until the loop nothing has been added to words_count. *)
LEMMA EarlyTotal ==
    ASSUME StackInv, StackInv', ObjectsInv, ObjectsInv', IterInv, VectorInv, Next,
           pc \notin Looping \cup {"done", "undefined"}, pc' # "undefined"
    PROVE  TotalAt(pc)'
<1>1. words_count = 0
  BY DEF VectorInv, TotalAt
<1>2. words_count' = 0
  BY <1>1, TotalStays DEF Looping, Visiting
<1>3. CASE pc' \notin Looping
  BY <1>2, <1>3 DEF TotalAt
<1>4. CASE pc' \in Looping
  <2>1. pc \in {"own_iter"} \cup Filling
    BY <1>4, LoopEntry
  <2>2. pc = "own_vector" /\ pc' = "has_next"
    <3>1. pc # "own_iter"
      <4>1. pc = "own_iter" => pc' = "make_array"
        BY ActionAt DEF Count, MakeHandle, At, Goto
      <4>2. QED
        BY <1>4, <4>1 DEF Looping, Visiting, Pairing, Pushing
    <3>2. pc \in Filling \ {"own_vector"} => pc' \notin Looping
      BY ActionAt DEF VectorMake, New, MakeHandle, At, Goto, Filling, Looping, Visiting,
                      Pairing, Pushing
    <3>3. pc = "own_vector" => pc' = "has_next"
      BY ActionAt DEF Count, MakeHandle, At, Goto
    <3>4. QED
      BY <1>4, <2>1, <3>1, <3>2, <3>3
  <2>3. IterAt(pc) /\ pc \in Filling
    BY <2>2 DEF IterInv, Filling
  <2>4. pc' \in Filling \cup Looping /\ pc' # "own_node"
    BY <2>2 DEF Looping
  <2>5. PICK i, m, t : IterKept(i, m, t)
    BY <2>3, <2>4, IterStays DEF IterAt
  <2>6. i = slots[2] /\ slots'[2] = i /\ Behind(i)' = Behind(i)
    BY <2>5 DEF IterKept
  <2>7. Behind(slots[2])' = {}
    BY <2>3, <2>6 DEF IterAt
  <2>8. Share(Behind(slots[2]))' = 0
    <3>1. text' \in Seq(Words)
      BY DEF ObjectsInv, InputInv
    <3>2. {j \in DOMAIN text' : text'[j] \in {}} = {}
      OBVIOUS
    <3>3. QED
      BY <2>7, <3>2, FS_EmptySet DEF Share
  <2>9. QED
    BY <1>2, <1>4, <2>2, <2>8 DEF TotalAt
<1>5. QED
  BY <1>3, <1>4

(* Steps that leave everything as it was. *)
LEMMA StutterListed ==
    ASSUME StackInv, ObjectsInv, ObjectsInv', ParseInv, IterInv, UNCHANGED vars,
           pc \in Looping
    PROVE  Listed(pc)' = Listed(pc) /\ Behind(slots[2])' = Behind(slots[2])
<1>0. UNCHANGED <<object, slots, oop, pc, inputVars>>
  BY DEF vars, stackVars, heapVars
<1>1. PICK i, m : i = slots[2] /\ m = slots[1]
  OBVIOUS
<1>2. Of(m, "HashMap") /\ Of(i, "HashMapIterator") /\ Iterates(i, m)
  BY <1>1, TheIterator DEF IterInv, IterAt, Looping, Visiting, Pairing, Pushing
<1>3. Fixed(InUse) /\ i \in InUse /\ m \in InUse
  BY <1>0, <1>2, QuietSame DEF Same, Of
<1>4. Behind(i)' = Behind(i)
  BY <1>0, <1>2, <1>3, IterGoesOn DEF ObjectsInv
<1>5. Behind(slots[2])' = Behind(slots[2])
  BY <1>0, <1>1, <1>4
<1>6. Key(Current(pc))' = Key(Current(pc))
  BY <1>0 DEF Key, Current
<1>7. QED
  BY <1>0, <1>5, <1>6 DEF Listed

LEMMA StutterVector ==
    ASSUME StackInv, ObjectsInv, ObjectsInv', ParseInv, IterInv, VectorInv, UNCHANGED vars
    PROVE  VectorInv'
<1>0. /\ UNCHANGED <<object, slots, oop, raw, moving, pc>> /\ UNCHANGED inputVars
      /\ words_count' = words_count /\ HeapInv
  BY DEF vars, stackVars, heapVars, countVars, ObjectsInv
<1>1. CASE pc = "undefined"
  BY <1>0, <1>1 DEF VectorInv
<1>2. CASE pc # "undefined"
  <2>1. Kept(InUse) /\ Fixed(InUse)
    BY <1>0, QuietSame DEF Kept, Same
  <2>2. VectorAt(pc) /\ PairAt(pc) /\ TotalAt(pc)
    BY <1>2 DEF VectorInv
  <2>3. PICK v, p, q, c : v = slots[3] /\ p = oop /\ q = slots[8] /\ c = slots[4]
    OBVIOUS
  <2>4. VectorAt(pc)'
    <3>1. pc = "own_vector" => Lists(oop, {})'
      <4>1. SUFFICES ASSUME pc = "own_vector" PROVE Lists(p, {})'
        BY <1>0, <2>3
      <4>2. Of(p, "Vector") /\ p \in InUse
        BY <2>3, <4>1 DEF ObjectsInv, PlaceInv, OopAt, Of
      <4>3. Lists(p, {})
        BY <2>2, <2>3, <4>1 DEF VectorAt
      <4>4. QED
        BY <1>0, <2>1, <4>2, <4>3, ListsGoOn
    <3>2. pc \in Looping => Lists(slots[3], Listed(pc))'
      <4>1. PICK W : W = Listed(pc)
        OBVIOUS
      <4>2. SUFFICES ASSUME pc \in Looping PROVE Lists(v, W)'
        BY <1>0, <2>3, <4>1, StutterListed
      <4>3. Of(v, "Vector") /\ v \in InUse
        BY <2>3, <4>2, TheVector DEF Of
      <4>4. Lists(v, W)
        BY <2>2, <2>3, <4>1, <4>2 DEF VectorAt
      <4>5. QED
        BY <1>0, <2>1, <4>3, <4>4, ListsGoOn
    <3>3. (pc = "own_array" => object[oop] = Array(VECTOR_SIZE))'
      BY <1>0, <2>2 DEF VectorAt, Array, Object
    <3>4. (pc = "make_vector" => object[slots[3]] = Array(VECTOR_SIZE))'
      BY <1>0, <2>2 DEF VectorAt, Array, Object
    <3>5. (pc = "copy_to" => LET data == object[slots[3]].ref.data
                             IN  oop # data /\ object[oop] = Array(2 * object[data].val))'
      BY <1>0, <2>2 DEF VectorAt, Array, Object
    <3>6. /\ pc' = "store" => object'[slots'[3]].val < object'[object'[slots'[3]].ref.data].val
          /\ pc' \in {"make_larger", "copy_to"} => slots'[9] = slots'[3]
      BY <1>0, <2>2 DEF VectorAt
    <3>7. QED
      BY <1>0, <3>1, <3>2, <3>3, <3>4, <3>5, <3>6 DEF VectorAt
  <2>5. PairAt(pc)'
    <3>1. pc \in {"push_back", "own_elem"} => Shows(oop, Key(slots[4]))'
      <4>1. SUFFICES ASSUME pc \in {"push_back", "own_elem"} PROVE Shows(p, Key(c))'
        BY <1>0, <2>3
      <4>2. Shows(p, Key(c))
        BY <2>2, <2>3, <4>1 DEF PairAt
      <4>3. p \in InUse /\ c \in InUse
        BY <2>3, <4>1, <4>2, TheNode DEF Shows, Of, Visiting, Pushing
      <4>4. QED
        BY <1>0, <2>1, <2>3, <4>1, <4>2, <4>3, ElementStays DEF Visiting, Pushing
    <3>2. pc \in Pushing \ {"own_elem"} => Shows(slots[8], Key(slots[4]))'
      <4>1. SUFFICES ASSUME pc \in Pushing \ {"own_elem"} PROVE Shows(q, Key(c))'
        BY <1>0, <2>3
      <4>2. Shows(q, Key(c))
        BY <2>2, <2>3, <4>1 DEF PairAt
      <4>3. q \in InUse /\ c \in InUse
        BY <2>3, <4>1, TheElement
      <4>4. QED
        BY <1>0, <2>1, <2>3, <4>1, <4>2, <4>3, ElementStays DEF Visiting, Pushing
    <3>3. /\ pc \in Pairing => slots[5] = object[slots[4]].ref.key
          /\ pc \in {"make_second", "init_pair"} => object[oop].ref.first = Null
          /\ pc = "make_second" => raw = ValueOf(slots[4]) \/ Lost(raw)
          /\ pc = "init_pair" => slots[6] = ValueOf(slots[4]) \/ Lost(slots[6])
          /\ pc \in Pushing => slots[7] = slots[3]
      BY <2>2 DEF PairAt
    <3>4. ValueOf(slots[4])' = ValueOf(slots[4]) /\ (Lost(raw)' <=> Lost(raw))
          /\ (Lost(slots[6])' <=> Lost(slots[6]))
      BY <1>0 DEF ValueOf, Lost
    <3>5. QED
      BY <1>0, <3>1, <3>2, <3>3, <3>4 DEF PairAt
  <2>6. TotalAt(pc)'
    <3>1. CASE pc \in Looping
      <4>1. PICK L, B : L = Listed(pc) /\ B = Behind(slots[2])
        OBVIOUS
      <4>2. Listed(pc)' = L /\ Behind(slots[2])' = B
        BY <3>1, <4>1, StutterListed
      <4>3. \A W : Share(W)' = Share(W)
        BY <1>0, ShareGoesOn
      <4>4. Share(Listed(pc))' = Share(L) /\ Share(Behind(slots[2]))' = Share(B)
        BY <1>0, <4>2 DEF Share, inputVars
      <4>5. QED
        BY <1>0, <2>2, <3>1, <4>1, <4>4 DEF TotalAt
    <3>2. CASE pc \notin Looping
      BY <1>0, <2>2, <3>2 DEF TotalAt
    <3>3. QED
      BY <3>1, <3>2
  <2>7. QED
    BY <2>4, <2>5, <2>6 DEF VectorInv
<1>3. QED
  BY <1>1, <1>2

LEMMA InitVector == Init => VectorInv
BY DEF Init, VectorInv, VectorAt, PairAt, TotalAt, Looping, Visiting, Pairing, Pushing

LEMMA NextVector ==
    StackInv /\ StackInv' /\ ObjectsInv /\ ObjectsInv' /\ ParseInv /\ IterInv /\ VectorInv
      /\ [Next]_vars => VectorInv'
<1> SUFFICES ASSUME StackInv, StackInv', ObjectsInv, ObjectsInv', ParseInv, IterInv,
                    VectorInv, [Next]_vars
             PROVE  VectorInv'
  OBVIOUS
<1>1. CASE UNCHANGED vars
  BY <1>1, StutterVector
<1>2. CASE Next /\ pc \in {"done", "undefined"} /\ pc' # "undefined"
  <2>1. Stopped
    <3>1. ~LoseTrack
      BY <1>2 DEF LoseTrack, Goto
    <3>2. ~(HashMapMake \/ Put \/ MakeIterator \/ VectorMake \/ PairMake \/ PushBack
            \/ ResizeVector \/ UpdateValue \/ ParseFile \/ Count)
      BY <1>2 DEF HashMapMake, Put, MakeIterator, VectorMake, PairMake, PushBack,
                  ResizeVector, UpdateValue, ParseFile, Count, MakeHandle, New, At
    <3>3. QED
      BY <1>2, <3>1, <3>2 DEF Next
  <2>2. QED
    BY <1>1, <2>1 DEF Stopped
<1>3. CASE pc' = "undefined"
  BY <1>3 DEF VectorInv
<1>4. CASE Next /\ pc' # "undefined" /\ pc \in Looping
  <2>1. CASE pc' \in Looping
    BY <1>4, <2>1, LoopVector, LoopTotal DEF VectorInv
  <2>2. CASE pc' \notin Looping
    <3>1. pc' = "done"
      BY <1>4, <2>2, LoopOrder DEF Filling, Looping, Visiting, Pairing, Pushing
    <3>2. VectorAt(pc)' /\ PairAt(pc)'
      BY <3>1 DEF VectorAt, PairAt, Looping, Visiting, Pairing, Pushing
    <3>3. TotalAt(pc)'
      BY <3>1, <2>2 DEF TotalAt
    <3>4. QED
      BY <3>2, <3>3 DEF VectorInv
  <2>3. QED
    BY <2>1, <2>2
<1>5. CASE Next /\ pc' # "undefined" /\ pc \in Filling
  <2>1. pc \notin Looping \cup {"done", "undefined"}
    BY <1>5 DEF Filling, Looping, Visiting, Pairing, Pushing
  <2>2. QED
    BY <1>5, <2>1, FillingVector, EarlyTotal DEF VectorInv
<1>6. CASE /\ Next /\ pc' # "undefined"
           /\ pc \notin Filling \cup Looping \cup {"done", "undefined"}
  <2>1. TotalAt(pc)'
    BY <1>6, EarlyTotal
  <2>2. pc' \notin Looping \cup {"own_array", "make_vector", "own_vector"}
    <3>1. pc' \in Filling \cup Looping => pc = "own_iter"
      BY <1>6, LoopEntry
    <3>2. pc = "own_iter" => pc' = "make_array"
      BY <1>6, ActionAt DEF Count, MakeHandle, At, Goto
    <3>3. QED
      BY <3>1, <3>2 DEF Filling, Looping, Visiting, Pairing, Pushing
  <2>3. VectorAt(pc)' /\ PairAt(pc)'
    BY <2>2 DEF VectorAt, PairAt, Looping, Visiting, Pairing, Pushing
  <2>4. QED
    BY <2>1, <2>3 DEF VectorInv
<1>7. QED
  BY <1>1, <1>2, <1>3, <1>4, <1>5, <1>6

(* The vector has a pair for each word that the iterator has behind it,    *)
(* the one of the loop's node excepted until store is done: so does        *)
(* words_count from add_count on, wherever a collection came in between.   *)
THEOREM VectorInvariance == Spec => []VectorInv
<1> USE InitVector, NextVector, StackInvariance, ObjectsInvariance, MapInvariance,
        IteratorInvariance
<1>1. QED
  BY PTL DEF Spec

-----------------------------------------------------------------------------
(* What the counts are.                                                    *)

LEMMA OccursWhenRead ==
    ASSUME NEW n \in Nat, NEW w
    PROVE  /\ Occurrences(w, n) \in Nat
           /\ Occurrences(w, n) = 0 <=> w \notin WordsRead(n)
<1>1. PICK S : S = {i \in 1 .. n : text[i] = w}
  OBVIOUS
<1>2. IsFiniteSet(S)
  <2>1. IsFiniteSet(1 .. n)
    BY FS_Interval
  <2>2. S \subseteq 1 .. n
    BY <1>1
  <2>3. QED
    BY <2>1, <2>2, FS_Subset
<1>3. Occurrences(w, n) = Cardinality(S)
  BY <1>1 DEF Occurrences
<1>4. S = {} <=> w \notin WordsRead(n)
  BY <1>1 DEF WordsRead
<1>5. QED
  BY <1>2, <1>3, <1>4, FS_EmptySet, FS_CardinalityType

(* Where the next word is to be read. *)
LEMMA MapIsExact ==
    ASSUME StackInv, ObjectsInv, ParseInv, pc = "read_word",
           NEW m, m = Read("map")
    PROVE  /\ object[m].val = Cardinality({text[i] : i \in 1 .. pos})
           /\ \A word \in Words :
                 IF Occurrences(word, pos) = 0 THEN Get(m, word, hash[word]) = Null
                 ELSE /\ Get(m, word, hash[word]) \in InUse
                      /\ object[Get(m, word, hash[word])] = SizeT(Occurrences(word, pos))
<1>1. HeapInv /\ pos \in Nat /\ hash \in [Words -> Hashes]
  BY DEF ObjectsInv, InputInv
<1>2. m = slots[1] /\ Of(m, "HashMap")
  <2>1. "map" \in Frame(pc).names
    BY DEF Frame, FrameOf
  <2>2. QED
    BY <2>1, ReadsAre DEF Slot, ClassOf, IsA
<1>3. MapHolds(m, pos, 0)
  BY <1>2 DEF ParseInv, MapAt
<1>4. PICK t : t = object[m].ref.table
  OBVIOUS
<1>5. Counts(t, pos)
  BY <1>3, <1>4 DEF MapHolds
<1>6. object[m].val = Cardinality({text[i] : i \in 1 .. pos})
  <2>1. object[m].val = Cardinality(WordsRead(pos)) + 0
    BY <1>3 DEF MapHolds
  <2>2. object[m].val = Cardinality(WordsRead(pos))
    BY <1>1, <2>1, WordsAreFinite
  <2>3. QED
    BY <2>2 DEF WordsRead
<1>7. ASSUME NEW w \in Words
      PROVE  IF Occurrences(w, pos) = 0 THEN Get(m, w, hash[w]) = Null
             ELSE /\ Get(m, w, hash[w]) \in InUse
                  /\ object[Get(m, w, hash[w])] = SizeT(Occurrences(w, pos))
  <2>1. Occurrences(w, pos) = 0 <=> w \notin WordsRead(pos)
    BY <1>1, OccursWhenRead
  <2>2. CASE w \notin WordsRead(pos)
    BY <1>1, <1>2, <1>4, <1>5, <2>1, <2>2, GetFinds
  <2>3. CASE w \in WordsRead(pos)
    <3>1. PICK k \in NodesIn(t) : Key(k) = w /\ Get(m, w, hash[w]) = ValueOf(k)
      BY <1>1, <1>2, <1>4, <1>5, <2>3, GetFinds
    <3>2. object[ValueOf(k)] = SizeT(Occurrences(w, pos))
      BY <1>5, <3>1 DEF Counts
    <3>3. ValueOf(k) \in InUse
      <4>1. t \in Tables
        BY <1>1, <1>2, <1>4, TableOf
      <4>2. k \in Nodes
        BY <1>1, <4>1, <3>1, NodesAre
      <4>3. Formed(k) /\ object[k].class = "Node"
        BY <1>1, <4>2, NodesLeadToNodes
      <4>4. QED
        BY <4>3 DEF Formed, Of, ValueOf
    <3>4. QED
      BY <2>1, <2>3, <3>1, <3>2, <3>3
  <2>4. QED
    BY <2>2, <2>3
<1>8. QED
  BY <1>6, <1>7

(* The first n entries of f are a pair for each word of the text, with the *)
(* number of times it occurs. *)
Exact(f, n) ==
    /\ n \in Nat
    /\ \A i, j \in 0 .. n - 1 : Word(f[i]) = Word(f[j]) => i = j
    /\ {Word(f[i]) : i \in 0 .. n - 1} = Range(text)
    /\ \A i \in 0 .. n - 1 :
          object[object[f[i]].ref.second].val = Occurrences(Word(f[i]), Len(text))

(* No pair that is reached has a stale count, if nothing stale is reached. *)
LEMMA PairsAreExact ==
    ASSUME HeapInv, SlotsInv, Stale \notin Reachable,
           NEW n \in Nat, NEW f, Pairs(f, n, Range(text)),
           \A i \in 0 .. n - 1 : f[i] \in Reachable \cup {Null}
    PROVE  Exact(f, n)
<1>1. ASSUME NEW i \in 0 .. n - 1
      PROVE  object[object[f[i]].ref.second].val = Occurrences(Word(f[i]), Len(text))
  <2>1. PICK p, w : p = f[i] /\ w = Word(f[i])
    OBVIOUS
  <2>2. Shows(p, w)
    BY <2>1 DEF Pairs
  <2>3. p \in InUse /\ object[p].class = "Pair" /\ Formed(p)
    BY <2>2 DEF Shows, Of, HeapInv
  <2>4. p \in Reachable /\ p # Stale
    BY <2>1, <2>3, RefsAssumption DEF InUse
  <2>5. ~Lost(object[p].ref.second)
    <3>1. SUFFICES ASSUME object[p].ref.second = Stale PROVE FALSE
      BY DEF Lost
    <3>2. Stale \in Trace(p)
      BY <2>3, <3>1, TraceOfFormed
    <3>3. Stale # Null
      BY RefsAssumption
    <3>4. QED
      BY <2>4, <3>2, <3>3, WhatIsReached
  <2>6. object[object[p].ref.second] = SizeT(Occurrences(w, Len(text)))
    BY <2>2, <2>5 DEF Shows
  <2>7. \A x : SizeT(x).val = x
    BY DEF SizeT, Object
  <2>8. object[object[p].ref.second].val = Occurrences(w, Len(text))
    BY <2>6, <2>7
  <2>9. QED
    BY <2>1, <2>8
<1>2. QED
  BY <1>1 DEF Pairs, Exact

(* Where the vector is printed. *)
LEMMA VectorIsExact ==
    ASSUME StackInv, ObjectsInv, IterInv, VectorInv, pc = "print",
           Stale \notin Reachable, NEW v, v = Read("vector")
    PROVE  /\ words_count = Len(text)
           /\ Exact(object[object[v].ref.data].ref, object[v].val)
<1>1. HeapInv /\ SlotsInv /\ text \in Seq(Words)
  BY DEF ObjectsInv, InputInv
<1>2. pc \in Looping /\ pc \notin Visiting
  BY DEF Looping, Visiting, Pairing, Pushing
<1>3. v = slots[3] /\ 3 \in DOMAIN slots /\ Of(v, "Vector")
  <2>1. "vector" \in Frame(pc).names
    BY DEF Frame, FrameOf, InCount
  <2>2. v = slots[3]
    BY <2>1, ReadsAre DEF Slot
  <2>3. QED
    BY <1>2, <2>2, TheVector
<1>4. Behind(slots[2]) = Range(text)
  BY DEF Behind, IterInv, IterAt
<1>5. Lists(v, Range(text)) /\ words_count = Share(Range(text))
  BY <1>2, <1>3, <1>4 DEF VectorInv, VectorAt, TotalAt, Listed
<1>6. words_count = Len(text)
  BY <1>1, <1>5, Shares
<1>7. PICK d : d = object[v].ref.data
  OBVIOUS
<1>8. v \in Reachable /\ v # Stale /\ v \in InUse /\ Formed(v) /\ object[v].class = "Vector"
  BY <1>1, <1>3, WhatIsReached DEF HeapInv, Of
<1>9. d \in Trace(v) /\ Of(d, "Array")
  BY <1>7, <1>8, TraceOfFormed DEF Formed
<1>10. d \in InUse /\ d # Stale /\ d # Null /\ Formed(d) /\ object[d].class = "Array"
  BY <1>1, <1>9, RefsAssumption DEF Of, InUse, HeapInv
<1>11. d \in Reachable
  BY <1>1, <1>8, <1>9, <1>10, WhatIsReached
<1>12. /\ object[v].val \in 0 .. object[d].val
       /\ DOMAIN object[d].ref = 0 .. object[d].val - 1
       /\ Pairs(object[d].ref, object[v].val, Range(text))
  BY <1>5, <1>7 DEF Lists
<1>13. object[d].val \in Nat
  BY <1>10 DEF Formed
<1>14. \A i \in DOMAIN object[d].ref : object[d].ref[i] \in Reachable \cup {Null}
  <2>1. \A i \in DOMAIN object[d].ref : object[d].ref[i] \in Trace(d)
    BY <1>10, TraceOfFormed
  <2>2. Trace(d) \ {Null} \subseteq Reachable
    BY <1>1, <1>10, <1>11, WhatIsReached
  <2>3. QED
    BY <2>1, <2>2
<1>15. PICK f, n : f = object[d].ref /\ n = object[v].val
  OBVIOUS
<1>16. n \in Nat /\ Pairs(f, n, Range(text))
       /\ \A i \in 0 .. n - 1 : f[i] \in Reachable \cup {Null}
  BY <1>12, <1>13, <1>14, <1>15
<1>17. Exact(f, n)
  BY <1>1, <1>16, PairsAreExact
<1>18. QED
  BY <1>6, <1>7, <1>15, <1>17

(* What the two lemmas say, put as it is stated. *)
LEMMA CountsFollow ==
    ASSUME StackInv, ObjectsInv, ParseInv, IterInv, VectorInv
    PROVE  CountsAreExact
<1>1. ASSUME pc = "read_word"
      PROVE  /\ object[Read("map")].val = Cardinality({text[i] : i \in 1 .. pos})
             /\ \A word \in Words :
                   LET value == Get(Read("map"), word, hash[word])
                   IN  IF Occurrences(word, pos) = 0 THEN value = Null
                       ELSE /\ value \in InUse
                            /\ object[value] = SizeT(Occurrences(word, pos))
  BY <1>1, MapIsExact
<1>2. ASSUME pc = "print", Stale \notin Reachable
      PROVE  LET pairs == Elements(Read("vector"))
                 shown == [i \in DOMAIN pairs |->
                              <<object[object[pairs[i]].ref.first].val,
                                object[object[pairs[i]].ref.second].val>>]
             IN  /\ IsInjective(shown)
                 /\ Range(shown) = {<<word, Occurrences(word, Len(text))>> :
                                       word \in Range(text)}
                 /\ words_count = Len(text)
  <2>1. PICK v, n, f : v = Read("vector") /\ n = object[v].val
                       /\ f = object[object[v].ref.data].ref
    OBVIOUS
  <2>2. PICK W : W = [i \in 0 .. n - 1 |-> Word(f[i])]
    OBVIOUS
  <2>3. /\ n \in Nat /\ words_count = Len(text)
        /\ \A i, j \in 0 .. n - 1 : W[i] = W[j] => i = j
        /\ \A i \in 0 .. n - 1 : W[i] \in Range(text)
        /\ \A w \in Range(text) : \E i \in 0 .. n - 1 : W[i] = w
        /\ \A i \in 0 .. n - 1 :
              object[object[f[i]].ref.second].val = Occurrences(W[i], Len(text))
    <3>0. words_count = Len(text) /\ Exact(f, n)
      BY <1>2, <2>1, VectorIsExact
    <3>1. /\ n \in Nat
          /\ \A i, j \in 0 .. n - 1 : Word(f[i]) = Word(f[j]) => i = j
          /\ {Word(f[i]) : i \in 0 .. n - 1} = Range(text)
          /\ \A i \in 0 .. n - 1 :
                object[object[f[i]].ref.second].val = Occurrences(Word(f[i]), Len(text))
      BY <3>0 DEF Exact
    <3>2. \A i \in 0 .. n - 1 : W[i] = Word(f[i])
      BY <2>2
    <3>3. /\ \A i \in 0 .. n - 1 : Word(f[i]) \in Range(text)
          /\ \A w \in Range(text) : \E i \in 0 .. n - 1 : Word(f[i]) = w
      BY <3>1
    <3>4. QED
      BY <3>0, <3>1, <3>2, <3>3
  <2> DEFINE pairs == Elements(Read("vector"))
             shown == [i \in DOMAIN pairs |->
                          <<object[object[pairs[i]].ref.first].val,
                            object[object[pairs[i]].ref.second].val>>]
  <2>4. pairs = [i \in 1 .. n |-> f[i - 1]]
    BY <2>1 DEF Elements
  <2>5. DOMAIN shown = 1 .. n
    BY <2>4
  <2>6. ASSUME NEW i \in 1 .. n
        PROVE  shown[i] = <<W[i - 1], Occurrences(W[i - 1], Len(text))>>
    <3>1. i - 1 \in 0 .. n - 1
      BY <2>3
    <3>2. pairs[i] = f[i - 1]
      BY <2>4
    <3> HIDE DEF pairs
    <3>3. shown[i] = <<object[object[f[i - 1]].ref.first].val,
                       object[object[f[i - 1]].ref.second].val>>
      BY <2>5, <3>2
    <3>4. W[i - 1] = object[object[f[i - 1]].ref.first].val
      BY <2>2, <3>1 DEF Word
    <3>5. QED
      BY <2>3, <3>1, <3>3, <3>4
  <2> HIDE DEF shown, pairs
  <2>7. IsInjective(shown)
    <3>1. ASSUME NEW i \in 1 .. n, NEW j \in 1 .. n, shown[i] = shown[j]
          PROVE  i = j
      <4>1. i - 1 \in 0 .. n - 1 /\ j - 1 \in 0 .. n - 1
        BY <2>3
      <4>2. W[i - 1] = W[j - 1]
        BY <2>6, <3>1
      <4>3. i - 1 = j - 1
        BY <2>3, <4>1, <4>2
      <4>4. QED
        BY <4>3
    <3>2. QED
      BY <2>5, <3>1 DEF IsInjective
  <2>8. Range(shown) = {<<word, Occurrences(word, Len(text))>> : word \in Range(text)}
    <3>1. ASSUME NEW i \in 1 .. n
          PROVE  shown[i] \in {<<word, Occurrences(word, Len(text))>> : word \in Range(text)}
      <4>1. W[i - 1] \in Range(text)
        BY <2>3
      <4>2. QED
        BY <2>6, <4>1
    <3>2. ASSUME NEW w \in Range(text)
          PROVE  \E i \in 1 .. n : shown[i] = <<w, Occurrences(w, Len(text))>>
      <4>1. PICK j \in 0 .. n - 1 : W[j] = w
        BY <2>3
      <4>2. j + 1 \in 1 .. n /\ (j + 1) - 1 = j
        BY <2>3
      <4>3. PICK i \in 1 .. n : i - 1 = j
        BY <4>2
      <4>4. QED
        BY <2>6, <4>1, <4>3
    <3>3. Range(shown) = {shown[i] : i \in 1 .. n}
      BY <2>5 DEF Range
    <3>4. QED
      BY <3>1, <3>2, <3>3
  <2>9. QED
    BY <2>3, <2>7, <2>8 DEF shown, pairs
<1>3. QED
  BY <1>1, <1>2 DEF CountsAreExact, At

(* When a word is about to be read, the map has each word read so far in   *)
(* one node, with the number of times it was read, and its size is the     *)
(* number of these words: however long the text and however the hashes     *)
(* collide, and whatever the collections in between moved or freed.  What  *)
(* is printed, if no Oop went stale, has each word of the text in one      *)
(* pair, with its count, and words_count is the length of the text.        *)
THEOREM CountsStayExact == Spec => []CountsAreExact
<1>1. Spec => [](StackInv /\ ObjectsInv /\ ParseInv /\ IterInv /\ VectorInv)
  BY StackInvariance, ObjectsInvariance, MapInvariance, IteratorInvariance,
     VectorInvariance, PTL
<1>2. StackInv /\ ObjectsInv /\ ParseInv /\ IterInv /\ VectorInv => CountsAreExact
  BY CountsFollow
<1>3. QED
  BY <1>1, <1>2, PTL

-----------------------------------------------------------------------------
(* Vector::sort(): its two loops as steps, and what each leaves in order.  *)

(* comp puts p after q. *)
After(p, q, comp) == comp[p, q]

(* What sort() does at j: the two neighbours change places if they must.   *)
SortStep(v, j, comp) ==
    IF After(v[j + 1], v[j + 2], comp)
    THEN [v EXCEPT ![j + 1] = v[j + 2], ![j + 2] = v[j + 1]] ELSE v

(* h is what FoldLeft of steps computes over each set in D of positions.   *)
Folds(h, elements, steps, comp, D) ==
    h = [s \in D |-> IF s = {} THEN elements
                     ELSE SortStep(h[s \ {Max(s)}], steps[Max(s)], comp)]

(* A set of positions without its greatest. *)
LEMMA WithoutMax ==
    ASSUME NEW n \in Nat, NEW s \in SUBSET (1 .. n), s # {}
    PROVE  /\ Max(s) \in s /\ s \ {Max(s)} \in SUBSET (1 .. n)
           /\ Cardinality(s) \in Nat /\ Cardinality(s \ {Max(s)}) \in Nat
           /\ Cardinality(s \ {Max(s)}) = Cardinality(s) - 1
<1>1. IsFiniteSet(1 .. n)
  BY FS_Interval
<1>2. Max(s) \in s
  <2>1. n \in Int /\ s \in SUBSET Int /\ \A x \in s : x <= n
    OBVIOUS
  <2>2. QED
    BY <2>1, MaxIsGreatest
<1>3. PICK S, c : S = 1 .. n /\ c = Max(s)
  OBVIOUS
<1>4. s \in SUBSET S /\ c \in s /\ IsFiniteSet(S)
  BY <1>1, <1>2, <1>3
<1>5. /\ s \ {c} \in SUBSET S
      /\ Cardinality(s) \in Nat /\ Cardinality(s \ {c}) \in Nat
      /\ Cardinality(s \ {c}) = Cardinality(s) - 1
  <2>1. \A t \in SUBSET S : t = s => c \in t
    BY <1>4
  <2>2. QED
    BY <1>4, <2>1, OneLess
<1>6. QED
  BY <1>2, <1>3, <1>5

(* FoldLeft computes such an h, one position after the other. *)
LEMMA FoldsExist ==
    ASSUME NEW elements, NEW steps, NEW comp, NEW n \in Nat, NEW S, S = 1 .. n
    PROVE  \E h : Folds(h, elements, steps, comp, SUBSET S)
<1>0. IsFiniteSet(S)
  BY FS_Interval
<1> DEFINE L(k) == {s \in SUBSET S : Cardinality(s) <= k}
           B == {k \in Nat : ~ \E h : Folds(h, elements, steps, comp, L(k))}
<1>1. CASE B = {}
  <2>1. Cardinality(S) \in Nat /\ L(Cardinality(S)) = SUBSET S
    BY <1>0, FS_CardinalityType, FS_Subset
  <2>2. QED
    BY <1>1, <2>1
<1>2. CASE B # {}
  <2>1. PICK k \in B : \A j \in B : k <= j
    <3>1. B \in SUBSET Nat
      OBVIOUS
    <3> HIDE DEF B
    <3>2. QED
      BY <1>2, <3>1, LeastExists
  <2>2. k \in Nat /\ ~ \E h : Folds(h, elements, steps, comp, L(k))
    OBVIOUS
  <2>3. \A s \in SUBSET S : Cardinality(s) \in Nat /\ (Cardinality(s) = 0 <=> s = {})
    BY <1>0, FS_Subset, FS_CardinalityType, FS_EmptySet
  <2>4. CASE k = 0
    <3> DEFINE h == [s \in L(0) |-> elements]
    <3>1. \A s \in L(0) : s = {}
      BY <2>3
    <3>2. Folds(h, elements, steps, comp, L(0))
      BY <3>1 DEF Folds
    <3>3. QED
      BY <2>2, <2>4, <3>2
  <2>5. CASE k # 0
    <3>1. k - 1 \in Nat /\ k - 1 \notin B
      <4> HIDE DEF B
      <4>1. QED
        BY <2>1, <2>2, <2>5
    <3>2. PICK f : Folds(f, elements, steps, comp, L(k - 1))
      BY <3>1
    <3> DEFINE h == [s \in L(k) |-> IF s = {} THEN elements
                                    ELSE SortStep(f[s \ {Max(s)}], steps[Max(s)], comp)]
    <3>3. \A s \in L(k) : s # {} => s \ {Max(s)} \in L(k - 1)
      <4>1. ASSUME NEW s \in L(k), s # {} PROVE s \ {Max(s)} \in L(k - 1)
        <5>1. s \in SUBSET (1 .. n)
          OBVIOUS
        <5>2. /\ s \ {Max(s)} \in SUBSET S
              /\ Cardinality(s) \in Nat /\ Cardinality(s \ {Max(s)}) \in Nat
              /\ Cardinality(s \ {Max(s)}) = Cardinality(s) - 1
          BY <4>1, <5>1, WithoutMax
        <5>3. Cardinality(s) <= k
          OBVIOUS
        <5>4. QED
          BY <2>2, <5>2, <5>3
      <4>2. QED
        BY <4>1
    <3>4. L(k - 1) \subseteq L(k)
      BY <2>2, <2>3
    <3>5. \A s \in L(k - 1) : h[s] = f[s]
      BY <3>2, <3>4 DEF Folds
    <3>6. Folds(h, elements, steps, comp, L(k))
      BY <3>3, <3>5 DEF Folds
    <3>7. QED
      BY <2>2, <3>6
  <2>6. QED
    BY <2>4, <2>5
<1>3. QED
  BY <1>1, <1>2

(* r is what the elements are after each of the steps. *)
Sorts(r, elements, steps, comp) ==
    /\ r[0] = elements
    /\ \A k \in 1 .. Len(steps) : r[k] = SortStep(r[k - 1], steps[k], comp)

(* Sort() is the last of them. *)
LEMMA SortIs ==
    ASSUME NEW elements, NEW comp, NEW steps \in Seq(Nat), steps = SortSteps(Len(elements))
    PROVE  \E r : Sorts(r, elements, steps, comp) /\ Sort(elements, comp) = r[Len(steps)]
<1>0. PICK n : n = Len(steps)
  OBVIOUS
<1>1. n \in Nat /\ DOMAIN steps = 1 .. n
  BY <1>0
<1> DEFINE h == CHOOSE f : Folds(f, elements, steps, comp, SUBSET (1 .. n))
           r == [k \in 0 .. n |-> h[1 .. k]]
<1>3. Folds(h, elements, steps, comp, SUBSET (1 .. n))
  BY <1>1, FoldsExist
<1>4. Sort(elements, comp) = h[1 .. n]
  BY <1>1 DEF Sort, Folds, SortStep, After, FoldLeft, MapThenFoldSet
<1> HIDE DEF h
<1>2. \A k \in 1 .. n : k \in Nat
  BY <1>1
<1>5. ASSUME NEW k \in 1 .. n PROVE h[1 .. k] = SortStep(h[1 .. k - 1], steps[k], comp)
  <2>1. Max(1 .. k) = k
    <3>1. PICK S : S = 1 .. k
      OBVIOUS
    <3>2. k \in Int /\ k \in S /\ S \in SUBSET Int /\ \A x \in S : x <= k
      BY <1>1, <3>1
    <3>3. Max(S) \in S /\ \A y \in S : Max(S) >= y
      BY <3>2, MaxIsGreatest
    <3>4. QED
      BY <3>1, <3>2, <3>3
  <2>2. 1 .. k \in SUBSET (1 .. n) /\ 1 .. k # {} /\ (1 .. k) \ {k} = 1 .. k - 1
    <3>1. k \in Nat
      BY <1>2
    <3>2. k \in 1 .. k /\ \A i \in 1 .. k : i \in 1 .. n
      BY <1>1, <3>1
    <3>3. (1 .. k) \ {k} = 1 .. k - 1
      BY <3>1
    <3>4. QED
      BY <3>2, <3>3
  <2>3. QED
    BY <1>3, <2>1, <2>2 DEF Folds
<1>6. h[1 .. 0] = elements
  <2>1. 1 .. 0 = {} /\ {} \in SUBSET (1 .. n)
    OBVIOUS
  <2>2. QED
    BY <1>3, <2>1 DEF Folds
<1>7. /\ r[0] = h[1 .. 0] /\ r[n] = h[1 .. n]
      /\ \A k \in 1 .. n : r[k] = h[1 .. k] /\ r[k - 1] = h[1 .. k - 1]
  BY <1>1
<1> HIDE DEF r
<1>8. QED
  BY <1>0, <1>4, <1>5, <1>6, <1>7 DEF Sorts

(* v has the elements of v0, and those of equal val in their order ord.    *)
Stable(v, v0, n, E, val, ord) ==
    /\ v \in [1 .. n -> E]
    /\ {v[a] : a \in 1 .. n} = {v0[a] : a \in 1 .. n}
    /\ \A a, b \in 1 .. n : a < b /\ val[v[a]] = val[v[b]] => ord[v[a]] < ord[v[b]]

(* From m + 1 on the elements are where they belong. *)
Settled(v, m, n, val) ==
    \A a, b \in 1 .. n : a < b /\ m < b => val[v[a]] <= val[v[b]]

(* None of the first j elements is greater than the next. *)
Bubbled(v, j, val) == \A a \in 1 .. j : val[v[a]] <= val[v[j + 1]]

(* One step: what is settled stays settled, and the greatest so far goes   *)
(* up one place.                                                           *)
LEMMA StepSorts ==
    ASSUME NEW n \in Nat, NEW E, NEW val \in [E -> Nat], NEW ord, NEW comp,
           \A p, q \in E : After(p, q, comp) <=> val[p] > val[q],
           NEW v0, NEW v, Stable(v, v0, n, E, val, ord),
           NEW m \in 1 .. n, Settled(v, m, n, val),
           NEW j \in Nat, j + 2 <= m, Bubbled(v, j, val),
           NEW w, w = SortStep(v, j, comp)
    PROVE  Stable(w, v0, n, E, val, ord) /\ Settled(w, m, n, val) /\ Bubbled(w, j + 1, val)
<1>1. j + 1 \in 1 .. n /\ j + 2 \in 1 .. n /\ v \in [1 .. n -> E]
  BY DEF Stable
<1>2. \A a \in 1 .. n : v[a] \in E /\ val[v[a]] \in Nat
  BY <1>1
<1>3. PICK x, y : x = v[j + 1] /\ y = v[j + 2]
  OBVIOUS
<1>4. x \in E /\ y \in E /\ val[x] \in Nat /\ val[y] \in Nat
  BY <1>1, <1>2, <1>3
<1>5. CASE ~After(x, y, comp)
  <2>1. w = v
    BY <1>3, <1>5 DEF SortStep
  <2>2. val[x] <= val[y]
    BY <1>4, <1>5
  <2>3. ASSUME NEW a \in 1 .. j + 1 PROVE val[v[a]] <= val[v[j + 2]]
    <3>1. CASE a = j + 1
      BY <1>3, <2>2, <3>1
    <3>2. CASE a # j + 1
      <4>1. a \in 1 .. j /\ a \in 1 .. n
        BY <3>2
      <4>2. val[v[a]] <= val[x]
        BY <1>3, <4>1 DEF Bubbled
      <4>3. QED
        BY <1>2, <1>3, <1>4, <2>2, <4>1, <4>2
    <3>3. QED
      BY <3>1, <3>2
  <2>4. (j + 1) + 1 = j + 2
    OBVIOUS
  <2>5. QED
    BY <2>1, <2>3, <2>4 DEF Bubbled
<1>6. CASE After(x, y, comp)
  <2>1. val[x] > val[y]
    BY <1>4, <1>6
  <2>2. w = [v EXCEPT ![j + 1] = y, ![j + 2] = x]
    BY <1>3, <1>6 DEF SortStep
  <2>3. /\ w \in [1 .. n -> E] /\ w[j + 1] = y /\ w[j + 2] = x
        /\ \A a \in 1 .. n : a # j + 1 /\ a # j + 2 => w[a] = v[a]
    BY <1>1, <1>4, <2>2
  <2>4. {w[a] : a \in 1 .. n} = {v0[a] : a \in 1 .. n}
    <3>1. {v[a] : a \in 1 .. n} = {v0[a] : a \in 1 .. n}
      BY DEF Stable
    <3>2. \A a \in 1 .. n : \E b \in 1 .. n : w[a] = v[b]
      BY <1>1, <1>3, <2>3
    <3>3. \A b \in 1 .. n : \E a \in 1 .. n : w[a] = v[b]
      BY <1>1, <1>3, <2>3
    <3>4. {w[a] : a \in 1 .. n} = {v[a] : a \in 1 .. n}
      BY <3>2, <3>3
    <3>5. QED
      BY <3>1, <3>4
  <2>5. ASSUME NEW a \in 1 .. n, NEW b \in 1 .. n, a < b, val[w[a]] = val[w[b]]
        PROVE  ord[w[a]] < ord[w[b]]
    <3> USE <1>1, <1>3, <1>4, <2>1, <2>3
    <3>1. \A c, d \in 1 .. n : c < d /\ val[v[c]] = val[v[d]] => ord[v[c]] < ord[v[d]]
      BY DEF Stable
    <3>2. CASE a \notin {j + 1, j + 2} /\ b \notin {j + 1, j + 2}
      BY <2>5, <3>1, <3>2
    <3>3. CASE a \in {j + 1, j + 2} /\ b \notin {j + 1, j + 2}
      BY <2>5, <3>1, <3>3
    <3>4. CASE a \notin {j + 1, j + 2} /\ b \in {j + 1, j + 2}
      BY <2>5, <3>1, <3>4
    <3>5. CASE a \in {j + 1, j + 2} /\ b \in {j + 1, j + 2}
      <4>1. a = j + 1 /\ b = j + 2
        BY <2>5, <3>5
      <4>2. QED
        BY <2>5, <4>1
    <3>6. QED
      BY <3>2, <3>3, <3>4, <3>5
  <2>6. ASSUME NEW a \in 1 .. n, NEW b \in 1 .. n, a < b, m < b
        PROVE  val[w[a]] <= val[w[b]]
    <3>1. \A c \in 1 .. n : c < b => val[v[c]] <= val[v[b]]
      BY <2>6 DEF Settled
    <3>2. w[b] = v[b] /\ j + 1 < b /\ j + 2 < b
      BY <2>3, <2>6
    <3>3. CASE a \in {j + 1, j + 2}
      BY <1>1, <1>3, <2>3, <3>1, <3>2, <3>3
    <3>4. CASE a \notin {j + 1, j + 2}
      BY <2>3, <2>6, <3>1, <3>2, <3>4
    <3>5. QED
      BY <3>3, <3>4
  <2>7. ASSUME NEW a \in 1 .. j + 1 PROVE val[w[a]] <= val[w[j + 2]]
    <3>1. CASE a = j + 1
      BY <1>4, <2>1, <2>3, <3>1
    <3>2. CASE a # j + 1
      <4>1. a \in 1 .. j /\ a \in 1 .. n /\ a # j + 2
        BY <3>2
      <4>2. val[v[a]] <= val[x]
        BY <1>3, <4>1 DEF Bubbled
      <4>3. QED
        BY <2>3, <3>2, <4>1, <4>2
    <3>3. QED
      BY <3>1, <3>2
  <2>8. (j + 1) + 1 = j + 2
    OBVIOUS
  <2>9. QED
    BY <2>3, <2>4, <2>5, <2>6, <2>7, <2>8 DEF Stable, Settled, Bubbled
<1>7. QED
  BY <1>5, <1>6

(* One pass of the inner loop, from step k on. *)
LEMMA PassSorts ==
    ASSUME NEW n \in Nat, NEW E, NEW val \in [E -> Nat], NEW ord, NEW comp,
           \A p, q \in E : After(p, q, comp) <=> val[p] > val[q],
           NEW v0, NEW r, NEW k \in Nat, NEW m \in 2 .. n,
           \A j \in 0 .. m - 2 : r[k + j + 1] = SortStep(r[k + j], j, comp),
           Stable(r[k], v0, n, E, val, ord), Settled(r[k], m, n, val)
    PROVE  /\ Stable(r[k + m - 1], v0, n, E, val, ord)
           /\ Settled(r[k + m - 1], m - 1, n, val)
<1> DEFINE Good(j) == /\ Stable(r[k + j], v0, n, E, val, ord)
                      /\ Settled(r[k + j], m, n, val) /\ Bubbled(r[k + j], j, val)
           B == {j \in 0 .. m - 1 : ~Good(j)}
<1>1. B = {}
  <2>1. SUFFICES ASSUME B # {} PROVE FALSE
    OBVIOUS
  <2>2. PICK j \in B : \A i \in B : j <= i
    <3>1. B \in SUBSET Nat
      OBVIOUS
    <3> HIDE DEF B
    <3>2. QED
      BY <2>1, <3>1, LeastExists
  <2>3. j \in 0 .. m - 1 /\ ~Good(j)
    OBVIOUS
  <2>4. Good(0)
    BY DEF Bubbled
  <2>5. j # 0
    BY <2>3, <2>4
  <2>6. PICK i : i = j - 1
    OBVIOUS
  <2>7. i \in 0 .. m - 2 /\ i \in Nat /\ i + 2 <= m /\ i + 1 = j /\ m \in 1 .. n
        /\ k + i + 1 = k + j
    BY <2>3, <2>5, <2>6
  <2>8. Good(i)
    <3>1. i \notin B
      <4> HIDE DEF B
      <4>1. ~(j <= i) /\ i \in Nat
        BY <2>3, <2>7
      <4>2. QED
        BY <2>2, <4>1
    <3>2. QED
      BY <2>7, <3>1
  <2>9. PICK v, w : v = r[k + i] /\ w = r[k + j]
    OBVIOUS
  <2>10. w = SortStep(v, i, comp)
    BY <2>7, <2>9
  <2>11. Stable(v, v0, n, E, val, ord) /\ Settled(v, m, n, val) /\ Bubbled(v, i, val)
    BY <2>8, <2>9
  <2>12. Stable(w, v0, n, E, val, ord) /\ Settled(w, m, n, val) /\ Bubbled(w, i + 1, val)
    BY <2>7, <2>10, <2>11, StepSorts
  <2>13. QED
    BY <2>3, <2>7, <2>9, <2>12
<1>2. Good(m - 1)
  <2>1. m - 1 \in 0 .. m - 1
    OBVIOUS
  <2>2. m - 1 \notin B
    <3> HIDE DEF B
    <3>1. QED
      BY <1>1
  <2>3. QED
    BY <2>1, <2>2
<1>3. PICK v : v = r[k + m - 1]
  OBVIOUS
<1>4. Stable(v, v0, n, E, val, ord) /\ Settled(v, m, n, val) /\ Bubbled(v, m - 1, val)
  <2>1. k + (m - 1) = k + m - 1
    OBVIOUS
  <2>2. QED
    BY <1>2, <1>3, <2>1
<1>5. Settled(v, m - 1, n, val)
  <2>1. ASSUME NEW a \in 1 .. n, NEW b \in 1 .. n, a < b, m - 1 < b
        PROVE  val[v[a]] <= val[v[b]]
    <3>1. CASE b = m
      <4>1. a \in 1 .. m - 1 /\ (m - 1) + 1 = b
        BY <2>1, <3>1
      <4>2. QED
        BY <1>4, <4>1 DEF Bubbled
    <3>2. CASE b # m
      <4>1. m < b
        BY <2>1, <3>2
      <4>2. QED
        BY <1>4, <2>1, <4>1 DEF Settled
    <3>3. QED
      BY <3>1, <3>2
  <2>2. QED
    BY <2>1 DEF Settled
<1>6. QED
  BY <1>3, <1>4, <1>5

(* Subtraction that does not wrap around. *)
LEMMA MinusIs ==
    ASSUME 2^WordBits \in Nat, NEW a \in Nat, NEW b \in Nat, b <= a, a < 2^WordBits
    PROVE  Minus(a, b) = a - b
<1>1. PICK M : M = 2^WordBits
  OBVIOUS
<1>2. M \in Nat /\ a < M
  BY <1>1
<1>3. (a - b) % M = a - b
  BY <1>2
<1>4. QED
  BY <1>1, <1>3 DEF Minus

(* The values of j while the first m elements are gone through. *)
Pass(m) == [j \in 1 .. m - 1 |-> j - 1]

(* After steps s the elements of v0 from m + 1 on are where they belong.   *)
Passes(s, m, v0, n, E, val, ord, comp) ==
    /\ s \in Seq(0 .. n - 2)
    /\ \A r : Sorts(r, v0, s, comp) => /\ Stable(r[Len(s)], v0, n, E, val, ord)
                                       /\ Settled(r[Len(s)], m, n, val)

(* One pass more of the outer loop settles one place more. *)
LEMMA OnePassMore ==
    ASSUME NEW n \in Nat, NEW E, NEW val \in [E -> Nat], NEW ord, NEW comp,
           \A p, q \in E : After(p, q, comp) <=> val[p] > val[q],
           NEW v0, NEW m \in 2 .. n, NEW s, Passes(s, m, v0, n, E, val, ord, comp),
           NEW t, t = s \o Pass(m)
    PROVE  Passes(t, m - 1, v0, n, E, val, ord, comp)
<1>1. PICK k : k = Len(s)
  OBVIOUS
<1>2. s \in Seq(0 .. n - 2)
  BY DEF Passes
<1>3. k \in Nat /\ DOMAIN s = 1 .. k
  BY <1>1, <1>2
<1>4. PICK u : u = Pass(m)
  OBVIOUS
<1>5. /\ u \in Seq(0 .. n - 2) /\ Len(u) = m - 1
      /\ \A j \in 1 .. m - 1 : u[j] = j - 1
  <2>1. u = [j \in 1 .. m - 1 |-> j - 1] /\ m - 1 \in Nat
    BY <1>4 DEF Pass
  <2>2. \A j \in 1 .. m - 1 : j - 1 \in 0 .. n - 2
    OBVIOUS
  <2>3. QED
    BY <2>1, <2>2
<1>6. /\ t \in Seq(0 .. n - 2) /\ Len(t) = k + m - 1
      /\ \A i \in 1 .. k : t[i] = s[i]
      /\ \A j \in 1 .. m - 1 : t[k + j] = u[j]
  <2>1. t = s \o u
    BY <1>4
  <2>2. PICK S : S = 0 .. n - 2
    OBVIOUS
  <2>3. s \in Seq(S) /\ u \in Seq(S)
    BY <1>2, <1>5, <2>2
  <2>4. /\ t \in Seq(S) /\ Len(t) = Len(s) + Len(u)
        /\ \A i \in 1 .. Len(s) : t[i] = s[i]
        /\ \A j \in 1 .. Len(u) : t[Len(s) + j] = u[j]
    BY <2>1, <2>3
  <2>5. QED
    BY <1>1, <1>3, <1>5, <2>2, <2>4
<1>7. ASSUME NEW r, Sorts(r, v0, t, comp)
      PROVE  Stable(r[k + m - 1], v0, n, E, val, ord) /\ Settled(r[k + m - 1], m - 1, n, val)
  <2>1. r[0] = v0 /\ \A i \in 1 .. k + m - 1 : r[i] = SortStep(r[i - 1], t[i], comp)
    BY <1>6, <1>7 DEF Sorts
  <2>2. Sorts(r, v0, s, comp)
    <3>1. \A i \in 1 .. k : i \in 1 .. k + m - 1
      BY <1>3
    <3>2. QED
      BY <1>1, <1>6, <2>1, <3>1 DEF Sorts
  <2>3. Stable(r[k], v0, n, E, val, ord) /\ Settled(r[k], m, n, val)
    BY <1>1, <2>2 DEF Passes
  <2>4. ASSUME NEW j \in 0 .. m - 2 PROVE r[k + j + 1] = SortStep(r[k + j], j, comp)
    <3>1. j + 1 \in 1 .. m - 1 /\ k + j + 1 \in 1 .. k + m - 1
      BY <1>3
    <3>2. k + (j + 1) = k + j + 1 /\ (k + j + 1) - 1 = k + j /\ (j + 1) - 1 = j
      BY <1>3
    <3>3. t[k + j + 1] = j
      BY <1>5, <1>6, <3>1, <3>2
    <3>4. QED
      BY <2>1, <3>1, <3>2, <3>3
  <2>5. QED
    BY <1>3, <2>3, <2>4, PassSorts
<1>8. QED
  BY <1>6, <1>7 DEF Passes

(* The two loops of sort(). *)
LEMMA StepsSort ==
    ASSUME 2^WordBits \in Nat, NEW n \in Nat, n # 0, n < 2^WordBits,
           NEW E, NEW val \in [E -> Nat], NEW ord, NEW comp,
           \A p, q \in E : After(p, q, comp) <=> val[p] > val[q],
           NEW v0, Stable(v0, v0, n, E, val, ord)
    PROVE  Passes(SortSteps(n), 1, v0, n, E, val, ord, comp)
<1>1. PICK N : N = n - 1
  OBVIOUS
<1>2. N \in Nat /\ n = N + 1
  BY <1>1
<1> DEFINE P(s, m) == Passes(s, m, v0, n, E, val, ord, comp)
<1>3. P(<<>>, n)
  <2>1. ASSUME NEW r, Sorts(r, v0, <<>>, comp)
        PROVE  Stable(r[0], v0, n, E, val, ord) /\ Settled(r[0], n, n, val)
    <3>1. r[0] = v0
      BY <2>1 DEF Sorts
    <3>2. Settled(v0, n, n, val)
      BY DEF Settled
    <3>3. QED
      BY <3>1, <3>2
  <2>2. <<>> \in Seq(0 .. n - 2) /\ Len(<<>>) = 0
    OBVIOUS
  <2>3. QED
    BY <2>1, <2>2 DEF Passes
<1> DEFINE seqs == [i \in 1 .. N |-> Pass(n + 1 - i)]
<1>4. SortSteps(n) = FlattenSeq(seqs)
  <2>1. Minus(n, 1) = N
    BY <1>1, <1>2, MinusIs
  <2>2. ASSUME NEW i \in 1 .. N PROVE Minus(Minus(n, i - 1), 1) = (n + 1 - i) - 1
    <3>1. i - 1 \in Nat /\ i - 1 <= n /\ n - (i - 1) = n + 1 - i
          /\ n + 1 - i \in Nat /\ 1 <= n + 1 - i /\ n + 1 - i <= n
      BY <1>2
    <3>2. Minus(n, i - 1) = n + 1 - i
      BY <3>1, MinusIs
    <3>3. PICK M : M = 2^WordBits
      OBVIOUS
    <3>4. n + 1 - i < 2^WordBits
      BY <3>1, <3>3
    <3>5. PICK a : a = n + 1 - i
      OBVIOUS
    <3>6. Minus(a, 1) = a - 1
      BY <3>1, <3>4, <3>5, MinusIs
    <3>7. QED
      BY <3>2, <3>5, <3>6
  <2>3. \A i \in 1 .. N : [j \in 1 .. Minus(Minus(n, i - 1), 1) |-> j - 1] = Pass(n + 1 - i)
    BY <2>2 DEF Pass
  <2>4. [i \in 1 .. Minus(n, 1) |-> [j \in 1 .. Minus(Minus(n, i - 1), 1) |-> j - 1]] = seqs
    BY <2>1, <2>3
  <2>5. QED
    BY <2>4 DEF SortSteps
<1>5. CASE N = 0
  <2>1. seqs = <<>>
    BY <1>5
  <2>2. SortSteps(n) = <<>>
    BY <1>4, <2>1 DEF FlattenSeq
  <2>3. QED
    BY <1>2, <1>3, <1>5, <2>2
<1>6. CASE N # 0
  <2>1. PICK F : Concats(F, seqs, N) /\ FlattenSeq(seqs) = F[N]
    <3>1. Len(seqs) = N
      BY <1>2
    <3> HIDE DEF seqs
    <3>2. QED
      BY <1>2, <1>6, <3>1, FlattenIs
  <2>2. \A i \in 1 .. N : F[i] = IF i = 1 THEN Pass(n + 1 - i) ELSE F[i - 1] \o Pass(n + 1 - i)
    <3>1. \A i \in 1 .. N : seqs[i] = Pass(n + 1 - i)
      OBVIOUS
    <3> HIDE DEF seqs
    <3>2. \A i \in 1 .. N : F[i] = IF i = 1 THEN seqs[i] ELSE F[i - 1] \o seqs[i]
      BY <2>1, Zenon DEF Concats
    <3>3. QED
      BY <3>1, <3>2
  <2> DEFINE B == {i \in 1 .. N : ~P(F[i], n - i)}
  <2>3. B = {}
    <3>1. SUFFICES ASSUME B # {} PROVE FALSE
      OBVIOUS
    <3>2. PICK i \in B : \A j \in B : i <= j
      <4>1. B \in SUBSET Nat
        OBVIOUS
      <4> HIDE DEF B
      <4>2. QED
        BY <3>1, <4>1, LeastExists
    <3>3. i \in 1 .. N /\ ~P(F[i], n - i)
      OBVIOUS
    <3>4. n + 1 - i \in 2 .. n /\ (n + 1 - i) - 1 = n - i
      BY <1>2, <3>3
    <3>5. PICK m : m = n + 1 - i
      OBVIOUS
    <3>6. PICK s : s = IF i = 1 THEN <<>> ELSE F[i - 1]
      OBVIOUS
    <3>7. P(s, m)
      <4>1. CASE i = 1
        BY <1>3, <3>5, <3>6, <4>1
      <4>2. CASE i # 1
        <5>1. i - 1 \in 1 .. N /\ ~(i <= i - 1) /\ n - (i - 1) = n + 1 - i
          BY <1>2, <3>3, <4>2
        <5>2. i - 1 \notin B
          <6> HIDE DEF B
          <6>1. QED
            BY <3>2, <5>1
        <5>3. QED
          BY <3>5, <3>6, <4>2, <5>1, <5>2
      <4>3. QED
        BY <4>1, <4>2
    <3>8. F[i] = s \o Pass(m)
      <4>1. Pass(m) \in Seq(Int)
        <5>1. m - 1 \in Nat
          BY <3>4, <3>5
        <5>2. QED
          BY <5>1 DEF Pass
      <4>2. CASE i = 1
        BY <2>2, <3>3, <3>5, <3>6, <4>1, <4>2
      <4>3. CASE i # 1
        BY <2>2, <3>3, <3>5, <3>6, <4>3
      <4>4. QED
        BY <4>2, <4>3
    <3>9. PICK t : t = F[i]
      OBVIOUS
    <3>10. m \in 2 .. n /\ t = s \o Pass(m)
      BY <3>4, <3>5, <3>8, <3>9
    <3> HIDE DEF B
    <3>11. Passes(t, m - 1, v0, n, E, val, ord, comp)
      BY <3>7, <3>10, OnePassMore
    <3>12. QED
      BY <3>3, <3>4, <3>5, <3>9, <3>11
  <2>4. N \in 1 .. N /\ n - N = 1
    BY <1>2, <1>6
  <2>5. P(F[N], n - N)
    <3>1. N \notin B
      <4> HIDE DEF B
      <4>1. QED
        BY <2>3
    <3>2. QED
      BY <2>4, <3>1
  <2>6. QED
    BY <1>4, <2>1, <2>4, <2>5
<1>7. QED
  BY <1>5, <1>6

(* s is the vector e of n elements of E, in the order of their val and for *)
(* equal ones of their ord.                                                *)
Ordered(s, e, n, E, val, ord) ==
    /\ s \in [1 .. n -> E]
    /\ Range(s) = Range(e)
    /\ \A i, j \in 1 .. n :
          i < j => \/ val[s[i]] < val[s[j]]
                   \/ val[s[i]] = val[s[j]] /\ ord[s[i]] < ord[s[j]]

(* sort() of a sequence of different elements. *)
LEMMA SortIsRight ==
    ASSUME 2^WordBits \in Nat, NEW n \in Nat, n # 0, n < 2^WordBits,
           NEW E, NEW val \in [E -> Nat], NEW ord, NEW comp,
           \A p, q \in E : After(p, q, comp) <=> val[p] > val[q],
           NEW e \in [1 .. n -> E], \A i \in 1 .. n : ord[e[i]] = i
    PROVE  /\ \A j \in Range(SortSteps(n)) : j + 1 < n
           /\ Ordered(Sort(e, comp), e, n, E, val, ord)
<1>1. Stable(e, e, n, E, val, ord)
  BY DEF Stable
<1>2. PICK s : s = SortSteps(n)
  OBVIOUS
<1>3. Passes(s, 1, e, n, E, val, ord, comp)
  BY <1>1, <1>2, StepsSort
<1>4. s \in Seq(0 .. n - 2)
  BY <1>3 DEF Passes
<1>5. \A j \in Range(s) : j + 1 < n
  <2>1. \A i \in DOMAIN s : s[i] \in 0 .. n - 2
    BY <1>4
  <2>2. QED
    BY <2>1 DEF Range
<1>6. Len(e) = n
  OBVIOUS
<1>7. s \in Seq(Nat)
  <2>1. /\ Len(s) \in Nat /\ s = [i \in 1 .. Len(s) |-> s[i]]
        /\ \A i \in 1 .. Len(s) : s[i] \in 0 .. n - 2
    BY <1>4
  <2>2. \A i \in 1 .. Len(s) : s[i] \in Nat
    BY <2>1
  <2>3. QED
    BY <2>1, <2>2
<1>8. PICK r : Sorts(r, e, s, comp) /\ Sort(e, comp) = r[Len(s)]
  <2>1. s = SortSteps(Len(e))
    BY <1>2, <1>6
  <2>2. QED
    BY <1>7, <2>1, SortIs
<1>9. PICK v : v = Sort(e, comp)
  OBVIOUS
<1>10. Stable(v, e, n, E, val, ord) /\ Settled(v, 1, n, val)
  BY <1>3, <1>8, <1>9 DEF Passes
<1>11. v \in [1 .. n -> E] /\ {v[a] : a \in 1 .. n} = {e[a] : a \in 1 .. n}
  BY <1>10 DEF Stable
<1>12. Range(v) = Range(e)
  BY <1>11 DEF Range
<1>13. ASSUME NEW i \in 1 .. n, NEW j \in 1 .. n, i < j
       PROVE  \/ val[v[i]] < val[v[j]]
              \/ val[v[i]] = val[v[j]] /\ ord[v[i]] < ord[v[j]]
  <2>1. val[v[i]] \in Nat /\ val[v[j]] \in Nat
    BY <1>11
  <2>2. val[v[i]] <= val[v[j]]
    BY <1>10, <1>13 DEF Settled
  <2>3. val[v[i]] = val[v[j]] => ord[v[i]] < ord[v[j]]
    BY <1>10, <1>13 DEF Stable
  <2>4. QED
    BY <2>1, <2>2, <2>3
<1>14. Ordered(v, e, n, E, val, ord)
  BY <1>11, <1>12, <1>13 DEF Ordered
<1>15. QED
  BY <1>2, <1>5, <1>9, <1>14

(* sort() of no element: length - 1 wraps around. *)
LEMMA StepsOfNone == ASSUME 2^WordBits \in Nat \ {0, 1} PROVE SortSteps(0) # <<>>
<1>1. PICK M : M = 2^WordBits
  OBVIOUS
<1>2. M \in Nat /\ M > 1
  BY <1>1
<1>3. \A a, b \in Int : Minus(a, b) \in Nat
  <2>1. ASSUME NEW a \in Int, NEW b \in Int PROVE (a - b) % M \in Nat
    BY <1>2
  <2>2. QED
    BY <1>1, <2>1 DEF Minus
<1>4. Minus(0, 1) = M - 1
  <2>1. (0 - 1) % M = M - 1
    BY <1>2
  <2>2. QED
    BY <1>1, <2>1 DEF Minus
<1>5. Minus(Minus(0, 0), 1) = M - 1
  <2>1. (0 - 0) % M = 0
    BY <1>2
  <2>2. Minus(0, 0) = 0
    BY <1>1, <2>1 DEF Minus
  <2>3. QED
    BY <1>4, <2>2
<1>6. PICK N : N = M - 1
  OBVIOUS
<1>7. N \in Nat /\ N # 0 /\ N \in 1 .. N
  BY <1>2, <1>6
<1> DEFINE seqs == [i \in 1 .. N |-> [j \in 1 .. Minus(Minus(0, i - 1), 1) |-> j - 1]]
<1>8. SortSteps(0) = FlattenSeq(seqs)
  BY <1>4, <1>6 DEF SortSteps
<1>9. /\ Len(seqs) = N /\ seqs[1] # <<>>
      /\ \A i \in 1 .. N : seqs[i] \in Seq(Int)
  <2>1. Len(seqs) = N
    BY <1>7
  <2>2. ASSUME NEW i \in 1 .. N PROVE seqs[i] \in Seq(Int)
    <3>1. PICK k : k = Minus(Minus(0, i - 1), 1)
      OBVIOUS
    <3>2. k \in Nat
      BY <1>3, <3>1
    <3>3. seqs[i] = [j \in 1 .. k |-> j - 1]
      BY <3>1
    <3>4. [j \in 1 .. k |-> j - 1] \in Seq(Int)
      BY <3>2
    <3>5. QED
      BY <3>3, <3>4
  <2>3. seqs[1] # <<>>
    <3>1. seqs[1] = [j \in 1 .. N |-> j - 1]
      BY <1>5, <1>6, <1>7
    <3>2. [j \in 1 .. N |-> j - 1] # <<>>
      BY <1>7
    <3>3. QED
      BY <3>1, <3>2
  <2>4. QED
    BY <2>1, <2>2, <2>3
<1> HIDE DEF seqs
<1>10. PICK F : Concats(F, seqs, N) /\ FlattenSeq(seqs) = F[N]
  BY <1>7, <1>9, FlattenIs
<1>11. \A i \in 1 .. N : F[i] = IF i = 1 THEN seqs[i] ELSE F[i - 1] \o seqs[i]
  BY <1>10, Zenon DEF Concats
<1> DEFINE B == {i \in 1 .. N : ~(F[i] \in Seq(Int) /\ F[i] # <<>>)}
<1>12. SUFFICES ASSUME N \in B PROVE FALSE
  BY <1>7, <1>8, <1>10
<1>13. PICK i \in B : \A j \in B : i <= j
  <2>1. B \in SUBSET Nat
    OBVIOUS
  <2> HIDE DEF B
  <2>2. QED
    BY <1>12, <2>1, LeastExists
<1>14. i \in 1 .. N /\ ~(F[i] \in Seq(Int) /\ F[i] # <<>>)
  OBVIOUS
<1>15. i # 1
  BY <1>9, <1>11, <1>14
<1>16. i - 1 \in 1 .. N /\ ~(i <= i - 1)
  BY <1>7, <1>14, <1>15
<1>17. F[i - 1] \in Seq(Int) /\ F[i - 1] # <<>>
  <2>1. i - 1 \notin B
    <3> HIDE DEF B
    <3>1. QED
      BY <1>13, <1>16
  <2>2. QED
    BY <1>16, <2>1
<1>18. F[i] = F[i - 1] \o seqs[i]
  BY <1>11, <1>14, <1>15
<1>19. PICK s, t : s = F[i - 1] /\ t = seqs[i]
  OBVIOUS
<1>20. s \in Seq(Int) /\ t \in Seq(Int) /\ s # <<>>
  BY <1>9, <1>14, <1>17, <1>19
<1>21. s \o t \in Seq(Int) /\ s \o t # <<>>
  BY <1>20
<1>22. QED
  BY <1>14, <1>18, <1>19, <1>21

(* There are no more pairs than words in the text. *)
LEMMA FewPairs ==
    ASSUME text \in Seq(Words), NEW f, NEW n, Exact(f, n)
    PROVE  n <= Len(text)
<1>1. PICK L : L = Len(text)
  OBVIOUS
<1>2. L \in Nat /\ DOMAIN text = 1 .. L /\ n \in Nat
  BY <1>1 DEF Exact
<1>3. PICK W : W = [i \in 1 .. n |-> Word(f[i - 1])]
  OBVIOUS
<1>4. \A i \in 1 .. n : W[i] \in Range(text)
  <2>1. {Word(f[i]) : i \in 0 .. n - 1} = Range(text)
    BY DEF Exact
  <2>2. ASSUME NEW i \in 1 .. n PROVE W[i] \in Range(text)
    <3>1. i - 1 \in 0 .. n - 1
      BY <1>2
    <3>2. QED
      BY <1>3, <2>1, <3>1
  <2>3. QED
    BY <2>2
<1>5. \A i, j \in 1 .. n : W[i] = W[j] => i = j
  <2>1. \A i, j \in 0 .. n - 1 : Word(f[i]) = Word(f[j]) => i = j
    BY DEF Exact
  <2>2. ASSUME NEW i \in 1 .. n, NEW j \in 1 .. n, W[i] = W[j] PROVE i = j
    <3>1. i - 1 \in 0 .. n - 1 /\ j - 1 \in 0 .. n - 1
      BY <1>2
    <3>2. Word(f[i - 1]) = Word(f[j - 1])
      BY <1>3, <2>2
    <3>3. i - 1 = j - 1
      BY <2>1, <3>1, <3>2
    <3>4. QED
      BY <3>3
  <2>3. QED
    BY <2>2
<1>6. \A w \in Range(text) : \E k \in 1 .. L : text[k] = w
  BY <1>2 DEF Range
<1> DEFINE g == [i \in 1 .. n |-> CHOOSE k \in 1 .. L : text[k] = W[i]]
<1>7. \A i \in 1 .. n : g[i] \in 1 .. L /\ text[g[i]] = W[i]
  <2>1. ASSUME NEW i \in 1 .. n PROVE g[i] \in 1 .. L /\ text[g[i]] = W[i]
    <3>1. \E k \in 1 .. L : text[k] = W[i]
      BY <1>4, <1>6
    <3>2. QED
      BY <3>1
  <2>2. QED
    BY <2>1
<1>8. g \in Injection(1 .. n, 1 .. L)
  <2>1. DOMAIN g = 1 .. n /\ g \in [1 .. n -> 1 .. L]
    <3>1. \A i \in 1 .. n : (CHOOSE k \in 1 .. L : text[k] = W[i]) \in 1 .. L
      BY <1>7
    <3>2. QED
      BY <3>1
  <2> HIDE DEF g
  <2>2. \A i, j \in 1 .. n : g[i] = g[j] => i = j
    BY <1>5, <1>7
  <2>3. QED
    BY <2>1, <2>2 DEF Injection, IsInjective
<1>9. Cardinality(1 .. n) = n /\ IsFiniteSet(1 .. L) /\ Cardinality(1 .. L) = L
  <2>1. PICK a, b : a = n /\ b = L
    OBVIOUS
  <2>2. Cardinality(1 .. a) = a /\ IsFiniteSet(1 .. b) /\ Cardinality(1 .. b) = b
    BY <1>2, <2>1, FS_Interval
  <2>3. QED
    BY <2>1, <2>2
<1>10. QED
  <2> HIDE DEF g
  <2>1. Cardinality(1 .. n) <= Cardinality(1 .. L)
    <3>1. PICK S, T : S = 1 .. n /\ T = 1 .. L
      OBVIOUS
    <3>2. g \in Injection(S, T) /\ IsFiniteSet(T)
      BY <1>8, <1>9, <3>1
    <3>3. Cardinality(S) <= Cardinality(T)
      BY <3>2, FS_Injection
    <3>4. QED
      BY <3>1, <3>3
  <2>2. QED
    BY <1>1, <1>9, <2>1

(* The text does not change. *)
LEMMA TextStays == Next => text' = text
<1>1. \A l, h, p, next : MakeHandle(l, h, p, next) => text' = text
  BY DEF MakeHandle, Goto, inputVars
<1>2. \A l, obj, next : New(l, obj, next) => text' = text
  BY DEF New, Goto, inputVars
<1> USE <1>1, <1>2 DEF Goto, inputVars
<1>3. HashMapMake \/ Put \/ MakeIterator => text' = text
  BY DEF HashMapMake, Put, MakeIterator
<1>4. VectorMake \/ PairMake \/ PushBack \/ ResizeVector => text' = text
  BY DEF VectorMake, PairMake, PushBack, ResizeVector
<1>5. UpdateValue \/ ParseFile => text' = text
  BY DEF UpdateValue, ParseFile
<1>6. Count \/ LoseTrack \/ Stopped => text' = text
  BY DEF Count, LoseTrack, Stopped, vars
<1>7. QED
  BY <1>3, <1>4, <1>5, <1>6 DEF Next

TextIsBounded == Len(text) <= MaxText

(* The text has as many words as it had. *)
LEMMA TextStaysBounded == Spec => []TextIsBounded
<1>1. Init => TextIsBounded
  BY DEF Init, TextIsBounded
<1>2. TextIsBounded /\ [Next]_vars => TextIsBounded'
  BY TextStays DEF TextIsBounded, vars, inputVars
<1>3. QED
  BY <1>1, <1>2, PTL DEF Spec

(* Where the vector is sorted. *)
LEMMA SortFollows ==
    ASSUME 2^WordBits \in Nat \ {0, 1}, Len(text) < 2^WordBits,
           StackInv, ObjectsInv, IterInv, VectorInv
    PROVE  SortSorts
<1>1. SUFFICES ASSUME pc = "print", Stale \notin Reachable PROVE SortSorts
  BY DEF SortSorts, At
<1> DEFINE pairs    == Elements(Read("vector"))
           Val(p)   == object[object[p].ref.second].val
           sorted   == Sort(pairs, [pq \in Range(pairs) \X Range(pairs) |->
                                        Val(pq[1]) > Val(pq[2])])
           Index(p) == CHOOSE i \in DOMAIN pairs : pairs[i] = p
<1>2. PICK f, n : f = object[object[Read("vector")].ref.data].ref
                  /\ n = object[Read("vector")].val
  OBVIOUS
<1>3. Exact(f, n) /\ n \in Nat
  <2>1. Exact(f, n)
    BY <1>1, <1>2, VectorIsExact
  <2>2. QED
    BY <2>1 DEF Exact
<1>4. text \in Seq(Words) /\ n < 2^WordBits
  <2>1. text \in Seq(Words)
    BY DEF ObjectsInv, InputInv
  <2>2. n <= Len(text) /\ Len(text) \in Nat
    BY <1>3, <2>1, FewPairs
  <2>3. PICK M : M = 2^WordBits
    OBVIOUS
  <2>4. n < M
    BY <1>3, <2>2, <2>3
  <2>5. QED
    BY <2>1, <2>3, <2>4
<1>5. pairs = [i \in 1 .. n |-> f[i - 1]]
  BY <1>2 DEF Elements
<1>6. PICK e, E : e = pairs /\ E = Range(pairs)
  OBVIOUS
<1>7. DOMAIN e = 1 .. n /\ e \in [1 .. n -> E] /\ e \in Seq(E) /\ Len(e) = n
  <2>1. e = [i \in 1 .. n |-> f[i - 1]]
    BY <1>5, <1>6
  <2>2. DOMAIN e = 1 .. n /\ \A i \in 1 .. n : e[i] \in E
    BY <1>6, <2>1 DEF Range
  <2>3. QED
    BY <1>3, <2>1, <2>2
<1>8. ASSUME NEW i \in 1 .. n
      PROVE  /\ Val(e[i]) \in Nat
             /\ \A j \in 1 .. n : e[i] = e[j] => i = j
  <2>1. /\ \A j, k \in 0 .. n - 1 : Word(f[j]) = Word(f[k]) => j = k
        /\ \A j \in 0 .. n - 1 : Val(f[j]) = Occurrences(Word(f[j]), Len(text))
    BY <1>3 DEF Exact
  <2>2. \A j \in 1 .. n : e[j] = f[j - 1] /\ j - 1 \in 0 .. n - 1
    BY <1>3, <1>5, <1>6
  <2>3. Len(text) \in Nat
    BY <1>4
  <2>4. \A w : Occurrences(w, Len(text)) \in Nat
    <3>1. PICK L : L = Len(text)
      OBVIOUS
    <3>2. L \in Nat
      BY <2>3, <3>1
    <3>3. \A w : Occurrences(w, L) \in Nat
      BY <3>2, OccursWhenRead
    <3>4. QED
      BY <3>1, <3>3
  <2>5. Val(e[i]) \in Nat
    BY <2>1, <2>2, <2>4
  <2>6. ASSUME NEW j \in 1 .. n, e[i] = e[j] PROVE i = j
    <3>1. i - 1 = j - 1
      BY <2>1, <2>2, <2>6
    <3>2. QED
      BY <3>1
  <2>7. QED
    BY <2>5, <2>6
<1>9. PICK val, ord, comp : /\ val = [p \in E |-> Val(p)] /\ ord = [p \in E |-> Index(p)]
                            /\ comp = [pq \in E \X E |-> Val(pq[1]) > Val(pq[2])]
  OBVIOUS
<1>10. \A p \in E : \E i \in 1 .. n : p = e[i]
  BY <1>6, <1>7 DEF Range
<1>11. val \in [E -> Nat]
  <2>1. \A p \in E : Val(p) \in Nat
    BY <1>8, <1>10
  <2>2. QED
    BY <1>9, <2>1
<1>12. \A i \in 1 .. n : ord[e[i]] = i
  <2>1. ASSUME NEW i \in 1 .. n PROVE Index(e[i]) = i
    BY <1>6, <1>7, <1>8
  <2>2. \A i \in 1 .. n : e[i] \in E
    BY <1>7
  <2>3. QED
    BY <1>9, <2>1, <2>2
<1>13. ASSUME NEW p \in E, NEW q \in E PROVE After(p, q, comp) <=> val[p] > val[q]
  <2>1. PICK pq : pq = <<p, q>>
    OBVIOUS
  <2>2. pq \in E \X E /\ pq[1] = p /\ pq[2] = q
    BY <2>1
  <2>3. comp[pq] = (Val(pq[1]) > Val(pq[2]))
    BY <1>9, <2>2, Zenon
  <2>4. After(p, q, comp) <=> comp[pq]
    BY <2>1, Zenon DEF After
  <2>5. val[p] = Val(p) /\ val[q] = Val(q)
    BY <1>9
  <2>6. QED
    BY <2>2, <2>3, <2>4, <2>5
<1>14. sorted = Sort(e, comp)
  BY <1>6, <1>9
<1> HIDE DEF pairs, sorted
<1>15. CASE n = 0
  <2>1. pairs = <<>>
    BY <1>5, <1>15
  <2>2. SortSteps(0) # <<>>
    BY StepsOfNone
  <2>3. QED
    BY <2>1, <2>2 DEF SortSorts, pairs
<1>16. CASE n # 0
  <2> DEFINE v == Sort(e, comp)
  <2>1. /\ \A j \in Range(SortSteps(n)) : j + 1 < n
        /\ Ordered(v, e, n, E, val, ord)
    <3>1. PICK M : M = 2^WordBits
      OBVIOUS
    <3>2. 2^WordBits \in Nat /\ n # 0 /\ n < 2^WordBits /\ n \in Nat
      BY <1>3, <1>4, <1>16, <3>1
    <3>3. \A p, q \in E : After(p, q, comp) <=> val[p] > val[q]
      BY <1>13
    <3>4. e \in [1 .. n -> E]
      BY <1>7
    <3>5. QED
      BY <1>11, <1>12, <3>2, <3>3, <3>4, SortIsRight
  <2>2. pairs # <<>> /\ Len(pairs) = n
    BY <1>3, <1>6, <1>7, <1>16
  <2>3. DOMAIN sorted = 1 .. n /\ \A i \in 1 .. n : sorted[i] \in E
    BY <1>14, <2>1 DEF Ordered
  <2>4. \A p \in E : val[p] = Val(p) /\ ord[p] = Index(p)
    BY <1>9
  <2>5. Range(sorted) = Range(pairs)
    BY <1>6, <1>14, <2>1 DEF Ordered
  <2>6. \A i, j \in DOMAIN sorted :
           i < j => \/ Val(sorted[i]) < Val(sorted[j])
                    \/ /\ Val(sorted[i]) = Val(sorted[j])
                       /\ Index(sorted[i]) < Index(sorted[j])
    <3> HIDE DEF sorted, Val, Index
    <3>1. QED
      BY <1>14, <2>1, <2>3, <2>4 DEF Ordered
  <2>7. \A j \in Range(SortSteps(Len(pairs))) : j + 1 < Len(pairs)
    BY <2>1, <2>2
  <2>8. SortOrders(pairs)
    BY <2>5, <2>6, Zenon DEF SortOrders, sorted
  <2>9. QED
    BY <2>2, <2>7, <2>8 DEF SortSorts, pairs
<1>17. QED
  BY <1>15, <1>16

(* sort() puts the pairs in the order of their counts, leaves those with   *)
(* equal counts in the order they had and loses none, and its two loops    *)
(* stay inside the vector unless that is empty: for every text that has    *)
(* fewer words than a std::size_t has values, which is more than one.      *)
THEOREM SortIsStable ==
    ASSUME 2^WordBits \in Nat \ {0, 1}, MaxText \in Nat, MaxText < 2^WordBits
    PROVE  Spec => []SortSorts
<1>1. ASSUME StackInv, ObjectsInv, IterInv, VectorInv, TextIsBounded PROVE SortSorts
  <2>1. Len(text) \in Nat
    BY <1>1 DEF ObjectsInv, InputInv
  <2>2. PICK M : M = 2^WordBits
    OBVIOUS
  <2>3. Len(text) < M
    BY <1>1, <2>1, <2>2 DEF TextIsBounded
  <2>4. QED
    BY <1>1, <2>2, <2>3, SortFollows
<1>2. QED
  BY <1>1, StackInvariance, ObjectsInvariance, IteratorInvariance, VectorInvariance,
     TextStaysBounded, PTL

=============================================================================
