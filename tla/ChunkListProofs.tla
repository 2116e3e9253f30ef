--------------------------- MODULE ChunkListProofs ---------------------------
(***************************************************************************)
(* The links of the chunks stand for a list, for every number of chunks:   *)
(* IInv is inductive.                                                      *)
(***************************************************************************)
EXTENDS ChunkList, DataLemmas, TLAPS

LEMMA InitIInv == Init => IInv
<1> USE DEF Init, IInv, TypeOK, Linked, ListsAllocated, WalkIsExact, Present,
            Links, Walks
<1> QED OBVIOUS

(* append() *)
LEMMA AllocStep == ASSUME IInv, NEW c \in Chunks, Alloc(c) PROVE IInv'
<1> USE NullAssumption
<1> USE DEF IInv, Alloc, LinkLast, Made, Links, Walks, Present
<1>1. /\ list' \in Seq(Chunks)
      /\ Len(list') = Len(list) + 1
      /\ list'[Len(list) + 1] = c
      /\ \A i \in 1 .. Len(list) : list'[i] = list[i]
  BY DEF TypeOK
<1>2. TypeOK'
  BY <1>1 DEF TypeOK
<1>3. \A i \in 1 .. Len(list) : list[i] # c /\ list[i] \in Chunks
  BY DEF ListsAllocated, TypeOK
<1>4. ListsAllocated'
  BY <1>1, <1>3 DEF ListsAllocated, TypeOK
<1>5. Linked'
  <2>1. CASE list = <<>>
    BY <1>1, <1>3, <2>1 DEF Linked, TypeOK
  <2>2. CASE list # <<>>
    <3>1. first # Null /\ last = list[Len(list)] /\ last \in Chunks \ {c}
             /\ Len(list) \in DOMAIN list
      BY <1>3, <2>2 DEF Linked, TypeOK
    <3>2. next' = [Made(next, c) EXCEPT ![last] = c]
             /\ prev' = [Made(prev, c) EXCEPT ![c] = last]
             /\ first' = first /\ last' = c
      BY <3>1
    <3>3. \A d \in Chunks :
             /\ next'[d] = IF d = last THEN c ELSE IF d = c THEN Null ELSE next[d]
             /\ prev'[d] = IF d = c THEN last ELSE prev[d]
      BY <3>1, <3>2 DEF TypeOK
    <3>4. \A i \in 1 .. Len(list) : list[i] = last => i = Len(list)
      BY <3>1 DEF ListsAllocated, TypeOK
    <3>5. QED
      BY <1>1, <1>3, <2>2, <3>1, <3>2, <3>3, <3>4 DEF Linked, TypeOK
  <2>3. QED
    BY <2>1, <2>2
<1>6. WalkIsExact'
  BY DEF WalkIsExact
<1>7. QED
  BY <1>2, <1>4, <1>5, <1>6

(* remove() and free() of the chunk the walk is at. *)
LEMMA FreeCurrentStep == ASSUME IInv, FreeCurrent PROVE IInv'
<1> USE NullAssumption
<1> USE DEF IInv, FreeCurrent, Unlink, Links, Walks, Present
<1> DEFINE k == cursor
           n == Len(list)
<1>1. k \in 1 .. n /\ current = list[k] /\ n \in Nat /\ DOMAIN list = 1 .. n
  BY DEF TypeOK, WalkIsExact
<1>2. /\ list' \in Seq(Chunks)
      /\ Len(list') = n - 1
      /\ \A j \in 1 .. n - 1 : list'[j] = IF j < k THEN list[j] ELSE list[j + 1]
  <2>1. list \in Seq(Chunks) /\ k \in DOMAIN list /\ list' = RemoveAt(list, k)
    BY <1>1 DEF TypeOK
  <2>2. QED
    BY ONLY <2>1, RemoveAtShifts
<1>3. \A i \in 1 .. n : list[i] \in Chunks /\ list[i] # Null
  BY <1>1 DEF TypeOK
<1>4. /\ next[current] = IF k = n THEN Null ELSE list[k + 1]
      /\ prev[current] = IF k = 1 THEN Null ELSE list[k - 1]
  BY <1>1 DEF Linked
<1>5. \A i, j \in 1 .. n : list[i] = list[j] => i = j
  BY <1>1 DEF ListsAllocated
<1>6. \A i \in 1 .. n :
         /\ next'[list[i]] = IF i = k - 1 THEN next[current] ELSE next[list[i]]
         /\ prev'[list[i]] = IF i = k + 1 THEN prev[current] ELSE prev[list[i]]
  <2> SUFFICES ASSUME NEW i \in 1 .. n
               PROVE  /\ next'[list[i]] = IF i = k - 1 THEN next[current] ELSE next[list[i]]
                      /\ prev'[list[i]] = IF i = k + 1 THEN prev[current] ELSE prev[list[i]]
    OBVIOUS
  <2>1. next'[list[i]] = IF i = k - 1 THEN next[current] ELSE next[list[i]]
    <3>1. CASE k = 1
      BY <1>1, <1>3, <1>4, <3>1
    <3>2. CASE k # 1
      <4>1. k - 1 \in 1 .. n /\ prev[current] = list[k - 1]
        BY <1>1, <1>4, <3>2
      <4>2. list[k - 1] \in Chunks /\ list[i] \in Chunks
        BY <1>3, <4>1
      <4>3. next' = [next EXCEPT ![list[k - 1]] = next[current]]
        BY <4>1, <4>2
      <4>4. list[i] = list[k - 1] <=> i = k - 1
        BY ONLY <1>5, <4>1, i \in 1 .. n
      <4>5. QED
        BY <4>2, <4>3, <4>4 DEF TypeOK
    <3>3. QED
      BY <3>1, <3>2
  <2>2. prev'[list[i]] = IF i = k + 1 THEN prev[current] ELSE prev[list[i]]
    <3>1. CASE k = n
      BY <1>1, <1>3, <1>4, <3>1
    <3>2. CASE k # n
      <4>1. k + 1 \in 1 .. n /\ next[current] = list[k + 1]
        BY <1>1, <1>4, <3>2
      <4>2. list[k + 1] \in Chunks /\ list[i] \in Chunks
        BY <1>3, <4>1
      <4>3. prev' = [prev EXCEPT ![list[k + 1]] = prev[current]]
        BY <4>1, <4>2
      <4>4. list[i] = list[k + 1] <=> i = k + 1
        BY ONLY <1>5, <4>1, i \in 1 .. n
      <4>5. QED
        BY <4>2, <4>3, <4>4 DEF TypeOK
    <3>3. QED
      BY <3>1, <3>2
  <2>3. QED
    BY <2>1, <2>2
<1>7. /\ first' = IF k = 1 THEN next[current] ELSE first
      /\ last' = IF k = n THEN prev[current] ELSE last
  BY <1>1, <1>3, <1>4
<1>8. TypeOK'
  BY <1>1, <1>2, <1>3, <1>4, <1>7 DEF TypeOK
<1> HIDE DEF FreeCurrent, Unlink, k, n
<1>9. ListsAllocated'
  <2>1. /\ \A i, j \in DOMAIN list' : list'[i] = list'[j] => i = j
        /\ \A c \in Chunks : (\E i \in DOMAIN list' : list'[i] = c)
                          <=> c # list[k] /\ \E i \in DOMAIN list : list[i] = c
    <3>1. list \in Seq(Chunks) /\ k \in DOMAIN list /\ list' = RemoveAt(list, k)
      BY <1>1 DEF TypeOK, FreeCurrent, k
    <3>2. \A i, j \in DOMAIN list : list[i] = list[j] => i = j
      BY <1>1, <1>5
    <3> DEFINE r == list'
    <3>3. /\ r \in Seq(Chunks)
          /\ \A i, j \in DOMAIN r : r[i] = r[j] => i = j
          /\ \A c \in Chunks : (\E i \in DOMAIN r : r[i] = c)
                            <=> c # list[k] /\ \E i \in DOMAIN list : list[i] = c
      BY ONLY <3>1, <3>2, RemoveAtErases
    <3>4. QED
      BY <3>3
  <2>2. QED
    <3>1. allocated' = allocated \ {list[k]} /\ walk' = walk /\ walk = "free_if"
      BY <1>1 DEF FreeCurrent
    <3>2. Present = DOMAIN list /\ Present' = DOMAIN list'
      BY <1>1, <1>2, <3>1 DEF n
    <3>3. QED
      BY <2>1, <3>1, <3>2 DEF ListsAllocated
<1>10. WalkIsExact'
  <2>1. walk' = "free_if" /\ cursor' = k /\ current' = next[current]
    BY DEF FreeCurrent, k
  <2>2. current' = IF k > n - 1 THEN Null ELSE list'[k]
    BY <1>1, <1>2, <1>4, <2>1
  <2>3. QED
    BY <1>1, <1>2, <2>1, <2>2 DEF WalkIsExact
<1>11. Linked'
  <2>0. list # <<>> /\ (list' = <<>> <=> n = 1) /\ Len(list') = n - 1
    BY <1>1, <1>2 DEF TypeOK, n
  <2>1. first' = IF list' = <<>> THEN Null ELSE list'[1]
    <3>1. first = list[1]
      BY <2>0 DEF Linked
    <3>2. n # 1 => list'[1] = IF 1 < k THEN list[1] ELSE list[2]
      BY <1>1, <1>2
    <3>3. QED
      BY <1>1, <1>4, <1>7, <2>0, <3>1, <3>2
  <2>2. last' = IF list' = <<>> THEN Null ELSE list'[n - 1]
    <3>1. last = list[n]
      BY <2>0 DEF Linked, n
    <3>2. n # 1 => list'[n - 1] = IF n - 1 < k THEN list[n - 1] ELSE list[n]
      BY <1>1, <1>2, <2>0
    <3>3. QED
      BY <1>1, <1>4, <1>7, <2>0, <3>1, <3>2
  <2>3. ASSUME NEW i \in 1 .. n - 1
        PROVE  /\ next'[list'[i]] = IF i = n - 1 THEN Null ELSE list'[i + 1]
               /\ prev'[list'[i]] = IF i = 1 THEN Null ELSE list'[i - 1]
    <3>1. \A j \in 1 .. n :
             /\ next[list[j]] = IF j = n THEN Null ELSE list[j + 1]
             /\ prev[list[j]] = IF j = 1 THEN Null ELSE list[j - 1]
      BY <1>1 DEF Linked, n
    <3> DEFINE at == IF i < k THEN i ELSE i + 1
    <3>2. /\ at \in 1 .. n /\ list'[i] = list[at] /\ at # k
          /\ at = IF i < k THEN i ELSE i + 1
      BY <1>1, <1>2
    <3> HIDE DEF at
    <3>3. /\ next'[list[at]] = IF at = k - 1 THEN next[current] ELSE next[list[at]]
          /\ prev'[list[at]] = IF at = k + 1 THEN prev[current] ELSE prev[list[at]]
      BY <1>6, <3>2
    <3>4. /\ next'[list[at]] = IF i = n - 1 THEN Null ELSE list'[i + 1]
          /\ prev'[list[at]] = IF i = 1 THEN Null ELSE list'[i - 1]
      <4>1. CASE i = k - 1
        BY <1>1, <1>2, <1>4, <3>1, <3>2, <3>3, <4>1
      <4>2. CASE i = k
        BY <1>1, <1>2, <1>4, <3>1, <3>2, <3>3, <4>2
      <4>3. CASE i < k - 1
        BY <1>1, <1>2, <3>1, <3>2, <3>3, <4>3
      <4>4. CASE i > k
        <5>1. at = i + 1 /\ at # k - 1 /\ at # k + 1 /\ i # 1
          BY <1>1, <3>2, <4>4
        <5>2. list'[i - 1] = list[i] /\ (i # n - 1 => list'[i + 1] = list[i + 2])
          BY <1>1, <1>2, <4>4
        <5>3. QED
          BY <1>1, <3>1, <3>2, <3>3, <5>1, <5>2
      <4>5. i = k - 1 \/ i = k \/ i < k - 1 \/ i > k
        BY ONLY <1>1, i \in 1 .. n - 1
      <4>6. QED
        BY <4>1, <4>2, <4>3, <4>4, <4>5
    <3>5. QED
      BY <3>2, <3>4
  <2>4. QED
    <3>1. DOMAIN list' = 1 .. n - 1 /\ Len(list') = n - 1
      BY <1>2
    <3>2. QED
      BY <2>0, <2>1, <2>2, <2>3, <3>1 DEF Linked
<1>12. QED
  BY <1>8, <1>9, <1>10, <1>11

LEMMA NextIInv == ASSUME IInv, [Next]_vars PROVE IInv'
<1> USE NullAssumption
<1>1. ASSUME NEW c \in Chunks, Alloc(c) PROVE IInv'
  BY <1>1, AllocStep
<1>2. CASE FreeCurrent
  BY <1>2, FreeCurrentStep
<1> USE DEF IInv, TypeOK, Linked, ListsAllocated, WalkIsExact, Present, Links,
            Walks
<1>3. ASSUME NEW w \in {"free_if", "destroy"}, Begin(w) PROVE IInv'
  BY <1>3 DEF Begin
<1>4. CASE KeepCurrent
  BY <1>4 DEF KeepCurrent
<1>5. CASE EndFreeIf
  BY <1>5 DEF EndFreeIf
<1>6. CASE DestroyCurrent
  BY <1>6 DEF DestroyCurrent
<1>7. CASE EndDestroy
  BY <1>7 DEF EndDestroy
<1>8. CASE UNCHANGED vars
  BY <1>8 DEF vars
<1>9. QED
  BY <1>1, <1>2, <1>3, <1>4, <1>5, <1>6, <1>7, <1>8 DEF Next

(* IInv holds in every reachable state. *)
THEOREM Invariance == Spec => []IInv
BY InitIInv, NextIInv, PTL DEF Spec

(* Every variable keeps its type, and first tells whether there is a chunk.*)
THEOREM TypeCorrect == Spec => []TypeOK
<1>1. IInv => TypeOK
  BY DEF IInv
<1>2. QED
  BY <1>1, Invariance, PTL

(* The links always stand for the list of the chunks: AllocInfo implements *)
(* the sequence that MarkSweep.tla has in its place.                       *)
THEOREM LinksStandForList == Spec => []Linked
<1>1. IInv => Linked
  BY DEF IInv
<1>2. QED
  BY <1>1, Invariance, PTL

(* The list never misses a chunk and never has one twice. *)
THEOREM ListIsComplete == Spec => []ListsAllocated
<1>1. IInv => ListsAllocated
  BY DEF IInv
<1>2. QED
  BY <1>1, Invariance, PTL

(* free_if and the destructor never stand on a chunk that has been freed. *)
THEOREM WalksAreExact == Spec => []WalkIsExact
<1>1. IInv => WalkIsExact
  BY DEF IInv
<1>2. QED
  BY <1>1, Invariance, PTL

(* The destructor frees every block that malloc returned. *)
THEOREM DestructorFreesAll == Spec => []NothingLeaks
<1>1. IInv => NothingLeaks
  BY DEF IInv, TypeOK, ListsAllocated, WalkIsExact, Present, NothingLeaks
<1>2. QED
  BY <1>1, Invariance, PTL

=============================================================================
