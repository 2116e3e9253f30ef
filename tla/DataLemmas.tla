----------------------------- MODULE DataLemmas -----------------------------
(***************************************************************************)
(* Facts about the data that the models are built from: lists from which   *)
(* an element is erased (lock_map in Safepoint.tla, the chunks of an       *)
(* allocator in ChunkList.tla and MarkSweep.tla), least elements, the sum  *)
(* over a set by which MarkSweep.tla counts the bytes in use, subsets that *)
(* are as large as can be (the heap of ClientHeap.tla), and a sequence of  *)
(* sequences made into one (the steps of sort() in Containers.tla).        *)
(***************************************************************************)
EXTENDS Integers, SequencesExt, FiniteSetTheorems, WellFoundedInduction,
        NaturalsInduction, TLAPS

-----------------------------------------------------------------------------
(* What is left of a list when an element is erased keeps its order.       *)
LEMMA RemoveAtShifts ==
    ASSUME NEW S, NEW s \in Seq(S), NEW i \in DOMAIN s
    PROVE  /\ RemoveAt(s, i) \in Seq(S)
           /\ Len(RemoveAt(s, i)) = Len(s) - 1
           /\ \A j \in 1 .. Len(s) - 1 :
                 RemoveAt(s, i)[j] = IF j < i THEN s[j] ELSE s[j + 1]
<1> DEFINE front == SubSeq(s, 1, i - 1)
           back == SubSeq(s, i + 1, Len(s))
<1>1. front \in Seq(S) /\ Len(front) = i - 1
           /\ \A j \in 1 .. i - 1 : front[j] = s[j]
  OBVIOUS
<1>2. back \in Seq(S) /\ Len(back) = Len(s) - i
           /\ \A j \in 1 .. Len(s) - i : back[j] = s[i + j]
  OBVIOUS
<1>3. RemoveAt(s, i) = front \o back
  BY DEF RemoveAt
<1> HIDE DEF front, back
<1>4. front \o back \in Seq(S) /\ Len(front \o back) = Len(s) - 1
  BY <1>1, <1>2
<1>5. ASSUME NEW j \in 1 .. Len(s) - 1
      PROVE  (front \o back)[j] = IF j < i THEN s[j] ELSE s[j + 1]
  <2>1. CASE j < i
    BY <1>1, <1>2, <2>1
  <2>2. CASE j >= i
    <3>1. (front \o back)[j] = back[j - (i - 1)]
      BY <1>1, <1>2, <2>2
    <3>2. j - (i - 1) \in 1 .. Len(s) - i /\ i + (j - (i - 1)) = j + 1
      BY <2>2
    <3>3. QED
      BY <1>2, <2>2, <3>1, <3>2
  <2>3. j < i \/ j >= i
    OBVIOUS
  <2>4. QED
    BY <2>1, <2>2, <2>3
<1>6. QED
  BY <1>3, <1>4, <1>5

(* Erasing an element from a list without repetition takes that element,   *)
(* and nothing else, out of it.                                            *)
LEMMA RemoveAtErases ==
    ASSUME NEW S, NEW s \in Seq(S), NEW i \in DOMAIN s,
           \A j, k \in DOMAIN s : s[j] = s[k] => j = k,
           NEW r, r = RemoveAt(s, i)
    PROVE  /\ r \in Seq(S)
           /\ \A j, k \in DOMAIN r : r[j] = r[k] => j = k
           /\ \A u \in S : (\E j \in DOMAIN r : r[j] = u)
                        <=> u # s[i] /\ \E j \in DOMAIN s : s[j] = u
<1> DEFINE at(j) == IF j < i THEN j ELSE j + 1
<1>1. r \in Seq(S) /\ Len(r) = Len(s) - 1
  BY RemoveAtShifts
<1>2. ASSUME NEW j \in DOMAIN r
      PROVE  at(j) \in DOMAIN s \ {i} /\ r[j] = s[at(j)]
  <2>1. j \in 1 .. Len(s) - 1
    BY <1>1
  <2>2. r[j] = IF j < i THEN s[j] ELSE s[j + 1]
    BY <2>1, RemoveAtShifts
  <2>3. QED
    BY <2>1, <2>2
<1>3. \A j, k \in DOMAIN r : at(j) = at(k) => j = k
  BY <1>1
<1>4. ASSUME NEW k \in DOMAIN s \ {i}
      PROVE  \E j \in DOMAIN r : at(j) = k
  <2>1. CASE k < i
    <3>1. k \in DOMAIN r /\ at(k) = k
      BY <1>1, <2>1
    <3>2. QED
      BY <3>1
  <2>2. CASE k > i
    <3>1. k - 1 \in DOMAIN r /\ at(k - 1) = k
      BY <1>1, <2>2
    <3>2. QED
      BY <3>1
  <2>3. QED
    BY <2>1, <2>2
<1> HIDE DEF at
<1>5. \A j, k \in DOMAIN r : r[j] = r[k] => j = k
  BY <1>2, <1>3
<1>6. ASSUME NEW u \in S
      PROVE  (\E j \in DOMAIN r : r[j] = u)
                <=> u # s[i] /\ \E j \in DOMAIN s : s[j] = u
  BY <1>2, <1>4
<1>7. QED
  BY <1>1, <1>5, <1>6

-----------------------------------------------------------------------------
(* The least element of a set of natural numbers, and a smallest one of a  *)
(* family of finite sets: what takes the place of induction here, where a  *)
(* claim that fails is taken at the least number or set for which it fails.*)

(* Some natural numbers have a least one. *)
LEMMA LeastExists ==
    ASSUME NEW S \in SUBSET Nat, S # {}
    PROVE  \E x \in S : \A y \in S : x <= y
<1> DEFINE R == OpToRel(<, Nat)
<1>1. IsWellFoundedOn(R, Nat)
  BY NatLessThanWellFounded
<1>2. \A x, y \in Nat : y < x => <<y, x>> \in R
  BY DEF OpToRel
<1> HIDE DEF R
<1>3. PICK x \in S : \A y \in S : ~(<<y, x>> \in R)
  BY <1>1, WFMin
<1>4. ASSUME NEW y \in S PROVE x <= y
  <2>1. x \in Nat /\ y \in Nat
    OBVIOUS
  <2>2. ~(y < x)
    BY <1>2, <1>3, <2>1
  <2>3. QED
    BY <2>1, <2>2
<1>5. QED
  BY <1>4

(* Of some subsets of a finite set one is smallest. *)
LEMMA SmallestSubset ==
    ASSUME NEW S, IsFiniteSet(S), NEW B \in SUBSET (SUBSET S), B # {}
    PROVE  \E s \in B : \A u \in B : Cardinality(s) <= Cardinality(u)
<1> DEFINE N == {Cardinality(u) : u \in B}
<1>1. \A u \in B : Cardinality(u) \in Nat
  BY FS_Subset, FS_CardinalityType
<1>2. N \in SUBSET Nat /\ N # {}
  BY <1>1
<1>3. PICK n \in N : \A m \in N : n <= m
  <2> HIDE DEF N
  <2>1. QED
    BY <1>2, LeastExists
<1>4. PICK s \in B : Cardinality(s) = n
  BY <1>3
<1>5. QED
  BY <1>3, <1>4

(* What is left of a subset without one element has fewer elements.        *)
LEMMA OneLess ==
    ASSUME NEW S, IsFiniteSet(S), NEW s \in SUBSET S, NEW c \in s
    PROVE  /\ s \ {c} \in SUBSET S
           /\ Cardinality(s) \in Nat /\ Cardinality(s \ {c}) \in Nat
           /\ Cardinality(s \ {c}) = Cardinality(s) - 1
BY FS_Subset, FS_CardinalityType, FS_RemoveElement

-----------------------------------------------------------------------------
(* The sum of a function over a finite set, MapThenSumSet: one element less*)
(* is its value less, whichever element MapThenSumSet happens to choose.   *)

Total(g, S) == MapThenSumSet(LAMBDA c : g[c], S)

First(s) == CHOOSE x \in s : TRUE

(* h is the sum of g over each set in D, as MapThenSumSet computes it.     *)
Sums(h, g, D) ==
    h = [s \in D |-> IF s = {} THEN 0 ELSE g[First(s)] + h[s \ {First(s)}]]

(* There is such an h on all subsets of a finite set.                      *)
LEMMA SumsExist ==
    ASSUME NEW g, NEW S, IsFiniteSet(S)
    PROVE  \E h : Sums(h, g, SUBSET S)
<1> DEFINE L(k) == {s \in SUBSET S : Cardinality(s) <= k}
           B == {k \in Nat : ~ \E h : Sums(h, g, L(k))}
<1>1. CASE B = {}
  <2>1. Cardinality(S) \in Nat /\ L(Cardinality(S)) = SUBSET S
    BY FS_CardinalityType, FS_Subset
  <2>2. QED
    BY <1>1, <2>1
<1>2. CASE B # {}
  <2>1. PICK k \in B : \A j \in B : k <= j
    <3>1. B \in SUBSET Nat
      OBVIOUS
    <3> HIDE DEF B
    <3>2. QED
      BY <1>2, <3>1, LeastExists
  <2>2. k \in Nat /\ ~ \E h : Sums(h, g, L(k))
    OBVIOUS
  <2>3. \A s \in SUBSET S : Cardinality(s) \in Nat /\ (Cardinality(s) = 0 <=> s = {})
    BY FS_Subset, FS_CardinalityType, FS_EmptySet
  <2>4. CASE k = 0
    <3> DEFINE h == [s \in L(0) |-> 0]
    <3>1. \A s \in L(0) : s = {}
      BY <2>3
    <3>2. Sums(h, g, L(0))
      BY <3>1 DEF Sums
    <3>3. QED
      BY <2>2, <2>4, <3>2
  <2>5. CASE k # 0
    <3>1. k - 1 \in Nat /\ k - 1 \notin B
      <4> HIDE DEF B
      <4>1. QED
        BY <2>1, <2>2, <2>5
    <3>2. PICK f : Sums(f, g, L(k - 1))
      BY <3>1
    <3> DEFINE h == [s \in L(k) |-> IF s = {} THEN 0
                                    ELSE g[First(s)] + f[s \ {First(s)}]]
    <3>3. \A s \in L(k) : s # {} => s \ {First(s)} \in L(k - 1)
      <4>1. ASSUME NEW s \in L(k), s # {} PROVE s \ {First(s)} \in L(k - 1)
        <5>1. First(s) \in s
          BY <4>1 DEF First
        <5>2. QED
          BY <2>2, <5>1, OneLess
      <4>2. QED
        BY <4>1
    <3>4. L(k - 1) \subseteq L(k)
      BY <2>2, <2>3
    <3>5. \A s \in L(k - 1) : h[s] = f[s]
      BY <3>2, <3>4 DEF Sums
    <3>6. Sums(h, g, L(k))
      BY <3>3, <3>5 DEF Sums
    <3>7. QED
      BY <2>2, <3>6
  <2>6. QED
    BY <2>4, <2>5
<1>3. QED
  BY <1>1, <1>2

(* What MapThenSumSet computes over S is one such h, at S. *)
LEMMA TotalIsSum ==
    ASSUME NEW g, NEW S, IsFiniteSet(S)
    PROVE  \E h : Sums(h, g, SUBSET S) /\ Total(g, S) = h[S]
<1> DEFINE h == CHOOSE f : Sums(f, g, SUBSET S)
<1>1. Sums(h, g, SUBSET S)
  BY SumsExist
<1>2. Total(g, S) = h[S]
  BY DEF Total, Sums, First, MapThenSumSet, MapThenFoldSet
<1>3. QED
  BY <1>1, <1>2

(* The sum does not depend on the order in which elements are chosen.      *)
LEMMA AnyOrder ==
    ASSUME NEW g, NEW S, IsFiniteSet(S), \A c \in S : g[c] \in Int,
           NEW h, Sums(h, g, SUBSET S)
    PROVE  \A s \in SUBSET S : /\ h[s] \in Int
                               /\ \A c \in s : h[s] = g[c] + h[s \ {c}]
<1> DEFINE Good(s) == h[s] \in Int /\ \A c \in s : h[s] = g[c] + h[s \ {c}]
           B == {s \in SUBSET S : ~Good(s)}
<1>1. SUFFICES ASSUME B # {} PROVE FALSE
  OBVIOUS
<1>2. PICK s \in B : \A u \in B : Cardinality(s) <= Cardinality(u)
  <2>1. B \in SUBSET (SUBSET S)
    OBVIOUS
  <2> HIDE DEF B
  <2>2. QED
    BY <1>1, <2>1, SmallestSubset
<1>3. s \in SUBSET S /\ ~Good(s)
  OBVIOUS
<1>4. \A c \in s : Good(s \ {c})
  <2>1. ASSUME NEW c \in s PROVE Good(s \ {c})
    <3>1. /\ s \ {c} \in SUBSET S
          /\ Cardinality(s) \in Nat /\ Cardinality(s \ {c}) \in Nat
          /\ Cardinality(s \ {c}) = Cardinality(s) - 1
      BY <1>3, OneLess
    <3>2. s \ {c} \notin B
      <4> HIDE DEF B
      <4>1. QED
        BY <1>2, <3>1
    <3>3. QED
      BY <3>1, <3>2
  <2>2. QED
    BY <2>1
<1>5. s # {}
  BY <1>3 DEF Sums
<1> DEFINE p == First(s)
<1>6. p \in s /\ h[s] = g[p] + h[s \ {p}] /\ g[p] \in Int
  BY <1>3, <1>5 DEF Sums, First
<1> HIDE DEF p, B
<1>7. h[s] \in Int
  BY <1>4, <1>6
<1>8. ASSUME NEW c \in s PROVE h[s] = g[c] + h[s \ {c}]
  <2>1. CASE c = p
    BY <1>6, <2>1
  <2>2. CASE c # p
    <3>1. c \in s \ {p} /\ p \in s \ {c} /\ (s \ {p}) \ {c} = (s \ {c}) \ {p}
      BY <1>6, <2>2
    <3>2. /\ h[s \ {p}] = g[c] + h[(s \ {p}) \ {c}]
          /\ h[s \ {c}] = g[p] + h[(s \ {c}) \ {p}]
      BY <1>4, <1>6, <3>1
    <3>3. g[c] \in Int /\ h[s \ {c}] \in Int
      BY <1>3, <1>4
    <3>4. h[(s \ {p}) \ {c}] = h[(s \ {c}) \ {p}]
      BY <3>1
    <3>5. h[(s \ {c}) \ {p}] \in Int
      <4>1. s \ {c} \notin B /\ (s \ {c}) \ {p} \notin B
        <5>1. s \ {c} \in SUBSET S
          BY <1>3
        <5>2. /\ Cardinality(s) \in Nat /\ Cardinality(s \ {c}) = Cardinality(s) - 1
              /\ Cardinality((s \ {c}) \ {p}) = Cardinality(s \ {c}) - 1
          BY <1>3, <3>1, <5>1, OneLess
        <5>3. QED
          BY <1>2, <5>2
      <4>2. (s \ {c}) \ {p} \in SUBSET S
        BY <1>3
      <4>3. QED
        BY <4>1, <4>2 DEF B
    <3>6. QED
      BY <1>6, <3>2, <3>3, <3>4, <3>5
  <2>3. QED
    BY <2>1, <2>2
<1>9. QED
  BY <1>3, <1>7, <1>8

(* Sums over a set do not depend on what lies outside it.                  *)
LEMMA SumsAgree ==
    ASSUME NEW S, IsFiniteSet(S), NEW D, NEW E, SUBSET S \subseteq D, SUBSET S \subseteq E,
           NEW f, NEW g, \A c \in S : f[c] = g[c],
           NEW h, Sums(h, f, D), NEW k, Sums(k, g, E)
    PROVE  h[S] = k[S]
<1> DEFINE B == {s \in SUBSET S : h[s] # k[s]}
<1>1. SUFFICES ASSUME B # {} PROVE FALSE
  OBVIOUS
<1>2. PICK s \in B : \A u \in B : Cardinality(s) <= Cardinality(u)
  <2>1. B \in SUBSET (SUBSET S)
    OBVIOUS
  <2> HIDE DEF B
  <2>2. QED
    BY <1>1, <2>1, SmallestSubset
<1>3. s \in SUBSET S /\ h[s] # k[s]
  OBVIOUS
<1>4. s \in D /\ s \in E
  BY <1>3
<1>5. /\ h[s] = IF s = {} THEN 0 ELSE f[First(s)] + h[s \ {First(s)}]
      /\ k[s] = IF s = {} THEN 0 ELSE g[First(s)] + k[s \ {First(s)}]
  BY <1>4 DEF Sums
<1>6. s # {}
  BY <1>3, <1>5
<1>7. First(s) \in s
  BY <1>6 DEF First
<1>8. /\ s \ {First(s)} \in SUBSET S
      /\ Cardinality(s) \in Nat /\ Cardinality(s \ {First(s)}) \in Nat
      /\ Cardinality(s \ {First(s)}) = Cardinality(s) - 1
  BY <1>3, <1>7, OneLess
<1>9. s \ {First(s)} \notin B
  BY <1>2, <1>8
<1>10. h[s \ {First(s)}] = k[s \ {First(s)}] /\ f[First(s)] = g[First(s)]
  BY <1>3, <1>7, <1>8, <1>9
<1>11. QED
  BY <1>3, <1>5, <1>6, <1>10

(* The sum over no elements. *)
LEMMA TotalEmpty == ASSUME NEW g PROVE Total(g, {}) = 0
<1>1. IsFiniteSet({})
  BY FS_EmptySet
<1>2. PICK h : Sums(h, g, SUBSET {}) /\ Total(g, {}) = h[{}]
  BY <1>1, TotalIsSum
<1>3. QED
  BY <1>2 DEF Sums

(* The sum looks at the function on the set only. *)
LEMMA TotalAgrees ==
    ASSUME NEW S, IsFiniteSet(S), NEW f, NEW g, \A c \in S : f[c] = g[c]
    PROVE  Total(f, S) = Total(g, S)
<1>1. PICK h : Sums(h, f, SUBSET S) /\ Total(f, S) = h[S]
  BY TotalIsSum
<1>2. PICK k : Sums(k, g, SUBSET S) /\ Total(g, S) = k[S]
  BY TotalIsSum
<1>3. QED
  BY <1>1, <1>2, SumsAgree

(* An element less is its value less. *)
LEMMA TotalRemove ==
    ASSUME NEW S, IsFiniteSet(S), NEW g, \A c \in S : g[c] \in Int, NEW c \in S
    PROVE  /\ Total(g, S) \in Int
           /\ Total(g, S \ {c}) \in Int
           /\ Total(g, S) = g[c] + Total(g, S \ {c})
<1>1. PICK h : Sums(h, g, SUBSET S) /\ Total(g, S) = h[S]
  BY TotalIsSum
<1>2. IsFiniteSet(S \ {c})
  BY FS_RemoveElement
<1>3. PICK k : Sums(k, g, SUBSET (S \ {c})) /\ Total(g, S \ {c}) = k[S \ {c}]
  BY <1>2, TotalIsSum
<1>4. h[S \ {c}] = k[S \ {c}]
  <2>1. PICK T : T = S \ {c}
    OBVIOUS
  <2>2. SUBSET T \subseteq SUBSET S /\ SUBSET T \subseteq SUBSET T
    BY <2>1
  <2>3. IsFiniteSet(T) /\ Sums(h, g, SUBSET S) /\ Sums(k, g, SUBSET T)
    BY <1>1, <1>2, <1>3, <2>1
  <2>4. h[T] = k[T]
    BY <2>2, <2>3, SumsAgree
  <2>5. QED
    BY <2>1, <2>4
<1>5. \A s \in SUBSET S : h[s] \in Int /\ \A d \in s : h[s] = g[d] + h[s \ {d}]
  BY <1>1, AnyOrder
<1>6. QED
  BY <1>1, <1>3, <1>4, <1>5

-----------------------------------------------------------------------------
(* The least and the greatest element of a set of integers. *)
LEMMA MinIsLeast ==
    ASSUME NEW S \in SUBSET Nat, S # {}
    PROVE  Min(S) \in S /\ \A x \in S : Min(S) <= x
BY LeastExists DEF Min

LEMMA MaxIsGreatest ==
    ASSUME NEW S \in SUBSET Int, S # {}, NEW n \in Int, \A x \in S : x <= n
    PROVE  Max(S) \in S /\ \A y \in S : Max(S) >= y
<1> DEFINE T == {n - x : x \in S}
<1>1. T \in SUBSET Nat /\ T # {}
  <2>1. \A x \in S : n - x \in Nat
    OBVIOUS
  <2>2. QED
    BY <2>1
<1>2. PICK x \in T : \A y \in T : x <= y
  <2> HIDE DEF T
  <2>1. QED BY <1>1, LeastExists
<1>3. n - x \in S /\ \A y \in S : n - x >= y
  BY <1>2
<1>4. \E z \in S : \A y \in S : z >= y
  BY <1>3
<1>5. QED
  BY <1>4 DEF Max

(* Of some subsets of a finite set one is in no other. *)
LEMMA MaximalSubset ==
    ASSUME NEW S, IsFiniteSet(S), NEW B \in SUBSET (SUBSET S), B # {}
    PROVE  \E s \in B : \A u \in B : s \subseteq u => u = s
<1> DEFINE C == {S \ u : u \in B}
<1>1. C \in SUBSET (SUBSET S) /\ C # {}
  <2>1. PICK u \in B : TRUE
    OBVIOUS
  <2>2. S \ u \in C /\ \A c \in C : c \subseteq S
    OBVIOUS
  <2> HIDE DEF C
  <2>3. QED
    BY <2>2
<1>2. PICK c \in C : \A d \in C : Cardinality(c) <= Cardinality(d)
  <2> HIDE DEF C
  <2>1. QED
    BY <1>1, SmallestSubset
<1>3. PICK s \in B : c = S \ s
  BY <1>2
<1>4. ASSUME NEW u \in B, s \subseteq u PROVE u = s
  <2>1. S \ u \subseteq S \ s /\ S \ u \in C
    BY <1>4
  <2>2. IsFiniteSet(S \ s)
    BY FS_Subset
  <2>3. /\ IsFiniteSet(S \ u) /\ Cardinality(S \ u) <= Cardinality(S \ s)
        /\ Cardinality(S \ u) = Cardinality(S \ s) => S \ u = S \ s
    BY <2>1, <2>2, FS_Subset
  <2>4. Cardinality(S \ s) <= Cardinality(S \ u)
    BY <1>2, <1>3, <2>1
  <2>5. Cardinality(S \ s) \in Nat /\ Cardinality(S \ u) \in Nat
    BY <2>2, <2>3, FS_CardinalityType
  <2>6. S \ u = S \ s
    BY <2>3, <2>4, <2>5
  <2>7. u \subseteq S /\ s \subseteq S
    BY <1>1
  <2>8. QED
    BY <1>4, <2>6, <2>7
<1>5. QED
  BY <1>4

(* The last element of a sequence that has one more in front. *)
LEMMA LastOfLonger ==
    ASSUME NEW S, NEW x \in S, NEW s \in Seq(S)
    PROVE  /\ <<x>> \o s \in Seq(S) /\ <<x>> \o s # <<>>
           /\ Last(<<x>> \o s) = IF s = <<>> THEN x ELSE Last(s)
<1>1. <<x>> \o s \in Seq(S) /\ Len(<<x>> \o s) = Len(s) + 1
  OBVIOUS
<1>2. (<<x>> \o s)[Len(s) + 1] = IF s = <<>> THEN x ELSE s[Len(s)]
  <2>1. CASE s = <<>>
    BY <2>1
  <2>2. CASE s # <<>>
    <3>1. Len(s) \in Nat \ {0}
      BY <2>2
    <3>2. QED
      BY <2>2, <3>1
  <2>3. QED
    BY <2>1, <2>2
<1>3. <<x>> \o s # <<>>
  BY <1>1
<1>4. QED
  BY <1>1, <1>2, <1>3 DEF Last

-----------------------------------------------------------------------------
(* What FlattenSeq of a sequence of sequences concatenates. *)
Concats(F, seqs, k) ==
    F = [i \in 1 .. k |-> IF i = 1 THEN seqs[i] ELSE F[i - 1] \o seqs[i]]

(* There is always such an F. *)
LEMMA ConcatsExist ==
    ASSUME NEW seqs, NEW n \in Nat
    PROVE  \E F : Concats(F, seqs, n)
<1> DEFINE B == {k \in Nat : ~ \E F : Concats(F, seqs, k)}
<1>1. SUFFICES ASSUME B # {} PROVE FALSE
  OBVIOUS
<1>2. PICK k \in B : \A j \in B : k <= j
  <2>1. B \in SUBSET Nat
    OBVIOUS
  <2> HIDE DEF B
  <2>2. QED
    BY <1>1, <2>1, LeastExists
<1>3. k \in Nat /\ ~ \E F : Concats(F, seqs, k)
  OBVIOUS
<1>4. CASE k = 0
  <2>1. Concats([i \in 1 .. 0 |-> 0], seqs, 0)
    BY DEF Concats
  <2>2. QED
    BY <1>3, <1>4, <2>1
<1>5. CASE k # 0
  <2>1. k - 1 \in Nat /\ k - 1 \notin B
    <3> HIDE DEF B
    <3>1. QED
      BY <1>2, <1>3, <1>5
  <2>2. PICK G : Concats(G, seqs, k - 1)
    BY <2>1
  <2> DEFINE F == [i \in 1 .. k |-> IF i = 1 THEN seqs[i] ELSE G[i - 1] \o seqs[i]]
  <2>3. \A i \in 1 .. k - 1 : G[i] = F[i]
    <3>1. \A i \in 1 .. k - 1 : i \in 1 .. k
      BY <1>3
    <3>2. ASSUME NEW i \in 1 .. k - 1
          PROVE  G[i] = IF i = 1 THEN seqs[i] ELSE G[i - 1] \o seqs[i]
      BY <2>2, Zenon DEF Concats
    <3>3. QED
      BY <3>1, <3>2
  <2>4. \A i \in 1 .. k : i # 1 => i - 1 \in 1 .. k - 1
    BY <1>3
  <2>5. Concats(F, seqs, k)
    BY <2>3, <2>4 DEF Concats
  <2>6. QED
    BY <1>3, <2>5
<1>6. QED
  BY <1>4, <1>5

(* The flattened sequence is the last of the concatenations. *)
LEMMA FlattenIs ==
    ASSUME NEW seqs, NEW n \in Nat, n # 0, Len(seqs) = n
    PROVE  \E F : Concats(F, seqs, n) /\ FlattenSeq(seqs) = F[n]
<1> DEFINE F == CHOOSE G : Concats(G, seqs, n)
<1>1. Concats(F, seqs, n)
  BY ConcatsExist
<1>2. FlattenSeq(seqs) = F[n]
  BY DEF FlattenSeq, Concats
<1>3. QED
  BY <1>1, <1>2

=============================================================================
