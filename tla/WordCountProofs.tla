--------------------------- MODULE WordCountProofs ---------------------------
(***************************************************************************)
(* The word count, for every text, hash function, size of the Buffer and   *)
(* of the heap.  First its shadow stack: each place of the program finds   *)
(* the stack at one depth, with its Handles in the same slots, so that it  *)
(* does not grow with the text, and a Buffer that has room for the deepest *)
(* call never moves under a Handle.  Then its objects: what the Handles    *)
(* lead to is of the class they are declared for, wherever a collection    *)
(* came in between, and an Oop goes stale only as an argument of alloc().  *)
(***************************************************************************)
EXTENDS WordCountProperties, DataLemmas

-----------------------------------------------------------------------------
(* The slot in which each Handle is while it is in scope. *)
Slot == [tab |-> 1, map |-> 1, str |-> 2, h_key |-> 3, h_value |-> 4, h_table |-> 5,
         hashMap |-> 1, iter |-> 2, array |-> 3, vector |-> 3, curr |-> 4,
         first |-> 5, second |-> 6, h_self |-> 7, h_elem |-> 8, hm_self |-> 9]

InSlot(h) == handle[h] \in (1 .. base) \X {Slot[h]}

(* The Buffer and the Handles, whatever the program does with them. *)
StackTypeOK ==
    /\ base \in Nat \ {0} /\ capacity \in Nat \ {0}
    /\ slots \in Seq(Range(slots)) /\ Len(slots) <= capacity
    /\ DOMAIN handle = Handles
    /\ \A h \in Handles : handle[h] = None \/ handle[h] \in (1 .. base) \X DOMAIN slots

(* A frame of the stack: the depths that the HandleMarks in scope have     *)
(* saved, how many slots may be in use, and which Handles have theirs.     *)
FrameOf(saved, used, names) == [saved |-> saved, used |-> used, names |-> names]

InParse == {"map", "str"}
InCount == {"hashMap", "iter", "vector"}
InLoop  == InCount \cup {"curr", "first", "second"}
InPush  == InLoop \cup {"h_self", "h_elem"}

(* The frame that the program has at place l. *)
Frame(l) ==
    CASE l = "count" -> FrameOf(<<>>, {0}, {})
      [] l \in {"parse_file", "own_result"} -> FrameOf(<<0>>, {0}, {})
      [] l \in {"make_table", "own_map"} -> FrameOf(<<0, 0>>, {0}, {})
      [] l = "own_table" -> FrameOf(<<0, 0, 0>>, {0}, {})
      [] l = "make_map" -> FrameOf(<<0, 0, 0>>, {1}, {"tab"})
      [] l \in {"read_word", "update_value"} -> FrameOf(<<0, 0>>, {1}, {"map"})
      [] l \in {"make_size", "put", "put_done"} -> FrameOf(<<0, 0, 1>>, {2}, InParse)
      [] l = "put_value" -> FrameOf(<<0, 0, 1, 2>>, {3}, InParse \cup {"h_key"})
      [] l = "put_table" ->
            FrameOf(<<0, 0, 1, 2>>, {4}, InParse \cup {"h_key", "h_value"})
      [] l \in {"make_node", "link"} ->
            FrameOf(<<0, 0, 1, 2>>, {5}, InParse \cup {"h_key", "h_value", "h_table"})
      [] l \in {"iterator", "make_iter", "init_iter", "own_iter"} ->
            FrameOf(<<0>>, {1}, {"hashMap"})
      [] l \in {"make_array", "own_vector"} -> FrameOf(<<0>>, {2}, {"hashMap", "iter"})
      [] l = "own_array" -> FrameOf(<<0, 2>>, {2}, {"hashMap", "iter"})
      [] l = "make_vector" -> FrameOf(<<0, 2>>, {3}, {"hashMap", "iter", "array"})
      [] l \in {"has_next", "print"} -> FrameOf(<<0>>, {3}, InCount)
      [] l = "own_node" -> FrameOf(<<0, 3>>, {3}, InCount)
      [] l \in {"add_count", "make_first"} ->
            FrameOf(<<0, 3>>, {4}, InCount \cup {"curr"})
      [] l \in {"make_pair", "make_second"} ->
            FrameOf(<<0, 3>>, {5}, InCount \cup {"curr", "first"})
      [] l \in {"init_pair", "push_back", "next_word"} ->
            FrameOf(<<0, 3>>, {6}, InLoop)
      [] l = "own_elem" -> FrameOf(<<0, 3, 6>>, {7}, InLoop \cup {"h_self"})
      [] l \in {"is_full", "resize"} -> FrameOf(<<0, 3, 6>>, {8}, InPush)
      [] l \in {"make_larger", "copy_to"} ->
            FrameOf(<<0, 3, 6>>, {9}, InPush \cup {"hm_self"})
      [] l = "store" -> FrameOf(<<0, 3, 6>>, {8, 9}, InPush)
      [] l = "done" -> FrameOf(<<>>, {0}, {})

InFrame(f) ==
    /\ marks = f.saved
    /\ Len(slots) \in f.used
    /\ \A h \in f.names : InSlot(h)

StackInv ==
    /\ pc \in Places
    /\ StackTypeOK
    /\ Len(slots) <= 9
    /\ pc # "undefined" => InFrame(Frame(pc))

-----------------------------------------------------------------------------
(* What a Handle, a HandleMark and its destructor do to the shape.         *)

(* What is a sequence is one of the elements it has. *)
LEMMA SequenceOfItsElements ==
    ASSUME NEW S, NEW s \in Seq(S) PROVE s \in Seq(Range(s))
BY DEF Range

(* The sequences that marks takes: what one more or one less makes of each. *)
(* t is s with one more element, k. *)
Extends(t, s, k) == Append(s, k) = t /\ Front(t) = s /\ Last(t) = k

LEMMA AppendIs ==
    ASSUME NEW s \in Seq(Nat), NEW t \in Seq(Nat), Len(t) = Len(s) + 1,
           NEW k, t[Len(t)] = k, \A i \in 1 .. Len(s) : t[i] = s[i]
    PROVE  Extends(t, s, k)
BY DEF Extends, Front, Last

LEMMA SavedDepths ==
    /\ Extends(<<0>>, <<>>, 0)
    /\ Extends(<<0, 0>>, <<0>>, 0)
    /\ Extends(<<0, 0, 0>>, <<0, 0>>, 0)
    /\ Extends(<<0, 0, 1>>, <<0, 0>>, 1)
    /\ Extends(<<0, 0, 1, 2>>, <<0, 0, 1>>, 2)
    /\ Extends(<<0, 2>>, <<0>>, 2)
    /\ Extends(<<0, 3>>, <<0>>, 3)
    /\ Extends(<<0, 3, 6>>, <<0, 3>>, 6)
<1> DEFINE s0 == <<>>  s1 == <<0>>  s2 == <<0, 0>>  s3 == <<0, 0, 0>>
           s4 == <<0, 0, 1>>  s5 == <<0, 0, 1, 2>>  s6 == <<0, 2>>  s7 == <<0, 3>>
           s8 == <<0, 3, 6>>
<1>1. {s0, s1, s2, s3, s4, s5, s6, s7, s8} \subseteq Seq(Nat)
  OBVIOUS
<1>2. /\ Len(s1) = Len(s0) + 1 /\ s1[Len(s1)] = 0
      /\ Len(s2) = Len(s1) + 1 /\ s2[Len(s2)] = 0
      /\ Len(s3) = Len(s2) + 1 /\ s3[Len(s3)] = 0
      /\ Len(s4) = Len(s2) + 1 /\ s4[Len(s4)] = 1
      /\ Len(s5) = Len(s4) + 1 /\ s5[Len(s5)] = 2
      /\ Len(s6) = Len(s1) + 1 /\ s6[Len(s6)] = 2
      /\ Len(s7) = Len(s1) + 1 /\ s7[Len(s7)] = 3
      /\ Len(s8) = Len(s7) + 1 /\ s8[Len(s8)] = 6
  OBVIOUS
<1>3. /\ \A i \in 1 .. Len(s0) : s1[i] = s0[i]
      /\ \A i \in 1 .. Len(s1) : s2[i] = s1[i]
      /\ \A i \in 1 .. Len(s2) : s3[i] = s2[i]
      /\ \A i \in 1 .. Len(s2) : s4[i] = s2[i]
      /\ \A i \in 1 .. Len(s4) : s5[i] = s4[i]
      /\ \A i \in 1 .. Len(s1) : s6[i] = s1[i]
      /\ \A i \in 1 .. Len(s1) : s7[i] = s1[i]
      /\ \A i \in 1 .. Len(s7) : s8[i] = s7[i]
  OBVIOUS
<1> HIDE DEF s0, s1, s2, s3, s4, s5, s6, s7, s8
<1>4. Extends(s1, s0, 0)
  BY ONLY <1>1, <1>2, <1>3, AppendIs
<1>5. Extends(s2, s1, 0)
  BY ONLY <1>1, <1>2, <1>3, AppendIs
<1>6. Extends(s3, s2, 0)
  BY ONLY <1>1, <1>2, <1>3, AppendIs
<1>7. Extends(s4, s2, 1)
  BY ONLY <1>1, <1>2, <1>3, AppendIs
<1>8. Extends(s5, s4, 2)
  BY ONLY <1>1, <1>2, <1>3, AppendIs
<1>9. Extends(s6, s1, 2)
  BY ONLY <1>1, <1>2, <1>3, AppendIs
<1>10. Extends(s7, s1, 3)
  BY ONLY <1>1, <1>2, <1>3, AppendIs
<1>11. Extends(s8, s7, 6)
  BY ONLY <1>1, <1>2, <1>3, AppendIs
<1>12. QED
  BY <1>4, <1>5, <1>6, <1>7, <1>8, <1>9, <1>10, <1>11 DEF s0, s1, s2, s3, s4, s5, s6, s7, s8

LEMMA PushShape ==
    ASSUME StackTypeOK, NEW n \in Nat, Len(slots) = n, NEW names \in SUBSET Handles,
           \A g \in names : InSlot(g),
           NEW h \in Handles \ names, NEW p, Push(h, p), Slot[h] = n + 1
    PROVE  /\ StackTypeOK'
           /\ Len(slots') = n + 1
           /\ \A g \in names \cup {h} : InSlot(g)'
<1>1. /\ Len(slots) = n /\ \A g \in names : InSlot(g)
      /\ base \in Nat \ {0} /\ capacity \in Nat \ {0} /\ n <= capacity
      /\ DOMAIN handle = Handles
      /\ slots \in Seq(Range(slots))
  BY DEF StackTypeOK
<1>2. /\ base' \in Nat \ {0} /\ capacity' \in Nat \ {0} /\ n + 1 <= capacity'
      /\ base <= base'
  <2>1. CASE n = capacity
    <3>1. capacity' = capacity * RATIO /\ base' \in {base, base + 1}
      BY <1>1, <2>1 DEF Push, Resize
    <3>2. \A x \in Nat \ {0}, y \in Nat \ {0, 1} : x * y \in Nat /\ x * y >= x + 1
      OBVIOUS
    <3>3. QED
      BY <1>1, <2>1, <3>1, <3>2, BufferAssumption
  <2>2. CASE n # capacity
    BY <1>1, <2>2 DEF Push
  <2>3. QED
    BY <2>1, <2>2
<1>3. slots' \in Seq(Range(slots')) /\ Len(slots') = n + 1
  <2>1. PICK S : S = Range(slots) \cup {p}
    OBVIOUS
  <2>2. slots \in Seq(S) /\ p \in S
    BY <1>1, <2>1
  <2>3. slots' \in Seq(S) /\ Len(slots') = n + 1
    BY <1>1, <2>2 DEF Push
  <2>4. QED
    BY <2>3, SequenceOfItsElements
<1>4. handle' = [handle EXCEPT ![h] = <<base', n + 1>>]
  BY <1>1 DEF Push
<1>5. DOMAIN slots = 1 .. n /\ DOMAIN slots' = 1 .. n + 1
  BY <1>1, <1>3
<1>6. ASSUME NEW g \in Handles
      PROVE  handle'[g] = None \/ handle'[g] \in (1 .. base') \X DOMAIN slots'
  <2>1. handle[g] = None \/ handle[g] \in (1 .. base) \X (1 .. n)
    BY <1>5 DEF StackTypeOK
  <2>2. 1 .. base \subseteq 1 .. base' /\ 1 .. n \subseteq 1 .. n + 1
    BY <1>1, <1>2
  <2>3. <<base', n + 1>> \in (1 .. base') \X (1 .. n + 1)
    BY <1>1, <1>2
  <2>4. QED
    BY <1>1, <1>4, <1>5, <2>1, <2>2, <2>3
<1>7. ASSUME NEW g \in names PROVE InSlot(g)'
  <2>1. handle'[g] = handle[g]
    BY <1>1, <1>4, <1>7
  <2>2. QED
    BY <1>1, <1>2, <2>1 DEF InSlot
<1>8. InSlot(h)'
  BY <1>1, <1>2, <1>4 DEF InSlot
<1>9. QED
  BY <1>1, <1>2, <1>3, <1>4, <1>6, <1>7, <1>8 DEF StackTypeOK

LEMMA LeaveShape ==
    ASSUME StackTypeOK, NEW n \in Nat, Len(slots) = n, NEW names \in SUBSET Handles,
           NEW k \in 0 .. n, Last(marks) = k, Leave,
           \A g \in names : InSlot(g) /\ Slot[g] \in 1 .. k
    PROVE  /\ StackTypeOK'
           /\ Len(slots') = k
           /\ \A g \in names : InSlot(g)'
<1>1. /\ slots' = SubSeq(slots, 1, k)
      /\ handle' = [h \in Handles |-> IF handle[h][2] > k THEN None ELSE handle[h]]
      /\ UNCHANGED <<base, capacity>>
  BY DEF Leave, StackTypeOK
<1>2. slots' \in Seq(Range(slots')) /\ Len(slots') = k /\ DOMAIN slots' = 1 .. k
  <2>1. slots' \in Seq(Range(slots)) /\ Len(slots') = k
    BY <1>1 DEF StackTypeOK
  <2>2. QED
    BY <2>1, SequenceOfItsElements
<1>3. ASSUME NEW g \in Handles
      PROVE  handle'[g] = None \/ handle'[g] \in (1 .. base') \X (1 .. k)
  <2>1. handle[g] = None \/ handle[g] \in (1 .. base) \X (1 .. n)
    BY DEF StackTypeOK
  <2>2. CASE handle[g] = None
    BY <1>1, <2>2 DEF None
  <2>3. CASE handle[g] \in (1 .. base) \X (1 .. n)
    BY <1>1, <2>3
  <2>4. QED
    BY <2>1, <2>2, <2>3
<1>4. ASSUME NEW g \in names PROVE InSlot(g)'
  <2>1. handle[g][2] = Slot[g] /\ Slot[g] \in 1 .. k
    BY <1>4 DEF InSlot
  <2>2. handle'[g] = handle[g]
    BY <1>1, <2>1
  <2>3. QED
    BY <1>1, <1>4, <2>2 DEF InSlot
<1>5. QED
  BY <1>1, <1>2, <1>3, <1>4 DEF StackTypeOK

(* A step that leaves slots, Handles and Buffer alone. *)
LEMMA KeepShape ==
    ASSUME StackTypeOK, UNCHANGED <<base, capacity, slots, handle>>
    PROVE  /\ StackTypeOK'
           /\ Len(slots') = Len(slots)
           /\ \A g \in Handles : InSlot(g) => InSlot(g)'
BY DEF StackTypeOK, InSlot

-----------------------------------------------------------------------------
(* The same for a step of the program from place l to place next.          *)

LEMMA Marked ==
    ASSUME StackInv, NEW l \in Places \ {"undefined"}, pc = l, Mark,
           NEW saved, NEW n, NEW names, Frame(l) = FrameOf(saved, {n}, names)
    PROVE  marks' = Append(saved, n)
<1>1. marks = saved /\ Len(slots) = n
  BY DEF StackInv, InFrame, FrameOf
<1>2. QED
  BY <1>1 DEF Mark

LEMMA MakeHandleStep ==
    ASSUME StackInv, NEW l \in Places \ {"undefined"}, NEW h, NEW p,
           NEW next \in Places \ {"undefined"}, MakeHandle(l, h, p, next),
           NEW n \in 0 .. 8, NEW saved, NEW names, Frame(l) = FrameOf(saved, {n}, names),
           NEW more, Frame(next) = FrameOf(marks', {n + 1}, more),
           names \subseteq Handles, h \in Handles \ names, Slot[h] = n + 1,
           more \subseteq names \cup {h}
    PROVE  StackInv'
<1>1. pc = l /\ Push(h, p) /\ pc' = next
  BY DEF MakeHandle, At, Goto
<1>2. StackTypeOK /\ Len(slots) = n /\ \A g \in names : InSlot(g)
  BY <1>1 DEF StackInv, InFrame, FrameOf
<1>3. /\ StackTypeOK'
      /\ Len(slots') = n + 1
      /\ \A g \in names \cup {h} : InSlot(g)'
  BY <1>1, <1>2, PushShape
<1>4. InFrame(FrameOf(marks, {n + 1}, more))'
  BY <1>3 DEF InFrame, FrameOf
<1>5. InFrame(Frame(pc))'
  BY <1>1, <1>4 DEF FrameOf
<1>6. QED
  BY <1>1, <1>3, <1>5 DEF StackInv

LEMMA KeepStep ==
    ASSUME StackInv, NEW l \in Places \ {"undefined"}, NEW next \in Places \ {"undefined"},
           pc = l, pc' = next, UNCHANGED <<base, capacity, slots, handle>>,
           NEW saved, NEW used, NEW names, Frame(l) = FrameOf(saved, used, names),
           NEW more, NEW ample, Frame(next) = FrameOf(marks', more, ample),
           used \subseteq more, ample \subseteq names, ample \subseteq Handles
    PROVE  StackInv'
<1>1. StackTypeOK /\ Len(slots) \in used /\ \A g \in names : InSlot(g)
  BY DEF StackInv, InFrame, FrameOf
<1>2. /\ StackTypeOK'
      /\ Len(slots') = Len(slots)
      /\ \A g \in Handles : InSlot(g) => InSlot(g)'
  BY <1>1, KeepShape
<1>3. InFrame(FrameOf(marks, more, ample))'
  BY <1>1, <1>2 DEF InFrame, FrameOf
<1>4. InFrame(Frame(pc))'
  BY <1>3 DEF FrameOf
<1>5. QED
  BY <1>2, <1>4 DEF StackInv

LEMMA LeaveStep ==
    ASSUME StackInv, NEW l \in Places \ {"undefined"}, NEW next \in Places \ {"undefined"},
           pc = l, pc' = next, Leave,
           NEW saved, NEW used, NEW names, Frame(l) = FrameOf(saved, used, names),
           NEW k \in 0 .. 9, Last(saved) = k, \A n \in used : n \in k .. 9,
           NEW kept, Frame(next) = FrameOf(marks', {k}, kept),
           kept \subseteq names, kept \subseteq Handles,
           \A g \in kept : Slot[g] \in 1 .. k
    PROVE  StackInv'
<1>1. /\ StackTypeOK /\ marks = saved /\ Len(slots) \in used
      /\ \A g \in names : InSlot(g)
  BY DEF StackInv, InFrame, FrameOf
<1>2. PICK n \in k .. 9 : Len(slots) = n
  BY <1>1
<1>3. /\ StackTypeOK'
      /\ Len(slots') = k
      /\ \A g \in kept : InSlot(g)'
  BY <1>1, <1>2, LeaveShape
<1>4. InFrame(FrameOf(marks, {k}, kept))'
  BY <1>3 DEF InFrame, FrameOf
<1>5. InFrame(Frame(pc))'
  BY <1>4 DEF FrameOf
<1>6. QED
  BY <1>3, <1>5 DEF StackInv

-----------------------------------------------------------------------------
(* The operations, one after the other. *)

LEMMA HashMapMakeStep == ASSUME StackInv, HashMapMake PROVE StackInv'
<1>1. CASE pc = "make_table" /\ pc' = "own_table" /\ Mark
          /\ UNCHANGED <<base, capacity, slots, handle>>
  <2>1. /\ Frame("make_table") = FrameOf(<<0, 0>>, {0}, {})
        /\ Frame("own_table") = FrameOf(<<0, 0, 0>>, {0}, {})
    BY DEF Frame
  <2>2. Extends(<<0, 0, 0>>, <<0, 0>>, 0)
    BY SavedDepths
  <2>3. marks' = <<0, 0, 0>>
    BY <1>1, <2>1, <2>2, Marked DEF Extends, Places, Allocations
  <2>4. QED
    BY <1>1, <2>1, <2>2, <2>3, KeepStep
       DEF Places, Allocations, Handles, Slot, InParse, InCount, InLoop, InPush
<1>2. CASE MakeHandle("own_table", "tab", oop, "make_map") /\ UNCHANGED marks
  <2>1. /\ Frame("own_table") = FrameOf(<<0, 0, 0>>, {0}, {})
        /\ Frame("make_map") = FrameOf(<<0, 0, 0>>, {1}, {"tab"})
    BY DEF Frame
  <2>2. marks' = <<0, 0, 0>>
    BY <1>2, <2>1 DEF MakeHandle, At, StackInv, InFrame, FrameOf
  <2>3. QED
    BY <1>2, <2>1, <2>2, MakeHandleStep
       DEF Places, Allocations, Handles, Slot, InParse, InCount, InLoop, InPush
<1>3. CASE pc = "make_map" /\ pc' = "own_map" /\ Leave
  <2>1. /\ Frame("make_map") = FrameOf(<<0, 0, 0>>, {1}, {"tab"})
        /\ Frame("own_map") = FrameOf(<<0, 0>>, {0}, {})
    BY DEF Frame
  <2>2. Extends(<<0, 0, 0>>, <<0, 0>>, 0)
    BY SavedDepths
  <2>3. marks' = <<0, 0>>
    BY <1>3, <2>1, <2>2 DEF Leave, Extends, StackInv, InFrame, FrameOf
  <2>4. QED
    BY <1>3, <2>1, <2>2, <2>3, LeaveStep
       DEF Extends, Places, Allocations, Handles, Slot, InParse, InCount, InLoop, InPush
<1>4. QED
  BY <1>1, <1>2, <1>3
     DEF HashMapMake, New, MakeHandle, At, Goto, stackVars, heapVars, countVars

LEMMA PutStep == ASSUME StackInv, Put PROVE StackInv'
<1>1. CASE MakeHandle("put", "h_key", Read("str"), "put_value") /\ Mark
  <2>1. /\ Frame("put") = FrameOf(<<0, 0, 1>>, {2}, InParse)
        /\ Frame("put_value") = FrameOf(<<0, 0, 1, 2>>, {3}, InParse \cup {"h_key"})
    BY DEF Frame
  <2>2. Extends(<<0, 0, 1, 2>>, <<0, 0, 1>>, 2)
    BY SavedDepths
  <2>3. marks' = <<0, 0, 1, 2>>
    BY <1>1, <2>1, <2>2, Marked DEF MakeHandle, At, Extends, Places, Allocations
  <2>4. QED
    BY <1>1, <2>1, <2>2, <2>3, MakeHandleStep
       DEF Places, Allocations, Handles, Slot, InParse, InCount, InLoop, InPush
<1>2. CASE MakeHandle("put_value", "h_value", oop, "put_table") /\ UNCHANGED marks
  <2>1. /\ Frame("put_value") = FrameOf(<<0, 0, 1, 2>>, {3}, InParse \cup {"h_key"})
        /\ Frame("put_table") = FrameOf(<<0, 0, 1, 2>>, {4}, InParse \cup {"h_key", "h_value"})
    BY DEF Frame
  <2>2. marks' = <<0, 0, 1, 2>>
    BY <1>2, <2>1 DEF MakeHandle, At, StackInv, InFrame, FrameOf
  <2>3. QED
    BY <1>2, <2>1, <2>2, MakeHandleStep
       DEF Places, Allocations, Handles, Slot, InParse, InCount, InLoop, InPush
<1>3. CASE MakeHandle("put_table", "h_table", object[raw].ref.table, "make_node") /\ UNCHANGED marks
  <2>1. /\ Frame("put_table") = FrameOf(<<0, 0, 1, 2>>, {4}, InParse \cup {"h_key", "h_value"})
        /\ Frame("make_node") = FrameOf(<<0, 0, 1, 2>>, {5}, InParse \cup {"h_key", "h_value", "h_table"})
    BY DEF Frame
  <2>2. marks' = <<0, 0, 1, 2>>
    BY <1>3, <2>1 DEF MakeHandle, At, StackInv, InFrame, FrameOf
  <2>3. QED
    BY <1>3, <2>1, <2>2, MakeHandleStep
       DEF Places, Allocations, Handles, Slot, InParse, InCount, InLoop, InPush
<1>4. CASE pc = "make_node" /\ pc' = "link" /\ UNCHANGED stackVars
  <2>1. /\ Frame("make_node") = FrameOf(<<0, 0, 1, 2>>, {5}, InParse \cup {"h_key", "h_value", "h_table"})
        /\ Frame("link") = FrameOf(<<0, 0, 1, 2>>, {5}, InParse \cup {"h_key", "h_value", "h_table"})
    BY DEF Frame
  <2>2. marks' = <<0, 0, 1, 2>>
    BY <1>4, <2>1 DEF stackVars, StackInv, InFrame, FrameOf
  <2>3. QED
    BY <1>4, <2>1, <2>2, KeepStep
       DEF stackVars, Places, Allocations, Handles, Slot, InParse, InCount, InLoop, InPush
<1>5. CASE pc = "link" /\ pc' = "put_done" /\ Leave
  <2>1. /\ Frame("link") = FrameOf(<<0, 0, 1, 2>>, {5}, InParse \cup {"h_key", "h_value", "h_table"})
        /\ Frame("put_done") = FrameOf(<<0, 0, 1>>, {2}, InParse)
    BY DEF Frame
  <2>2. Extends(<<0, 0, 1, 2>>, <<0, 0, 1>>, 2)
    BY SavedDepths
  <2>3. marks' = <<0, 0, 1>>
    BY <1>5, <2>1, <2>2 DEF Leave, Extends, StackInv, InFrame, FrameOf
  <2>4. QED
    BY <1>5, <2>1, <2>2, <2>3, LeaveStep
       DEF Extends, Places, Allocations, Handles, Slot, InParse, InCount, InLoop, InPush
<1>6. QED
  BY <1>1, <1>2, <1>3, <1>4, <1>5
     DEF Put, New, MakeHandle, At, Goto, stackVars, heapVars, countVars

LEMMA MakeIteratorStep == ASSUME StackInv, MakeIterator PROVE StackInv'
<1>1. CASE pc = "iterator" /\ pc' = "make_iter" /\ UNCHANGED stackVars
  <2>1. /\ Frame("iterator") = FrameOf(<<0>>, {1}, {"hashMap"})
        /\ Frame("make_iter") = FrameOf(<<0>>, {1}, {"hashMap"})
    BY DEF Frame
  <2>2. marks' = <<0>>
    BY <1>1, <2>1 DEF stackVars, StackInv, InFrame, FrameOf
  <2>3. QED
    BY <1>1, <2>1, <2>2, KeepStep
       DEF stackVars, Places, Allocations, Handles, Slot, InParse, InCount, InLoop, InPush
<1>2. CASE pc = "make_iter" /\ pc' = "init_iter" /\ UNCHANGED stackVars
  <2>1. /\ Frame("make_iter") = FrameOf(<<0>>, {1}, {"hashMap"})
        /\ Frame("init_iter") = FrameOf(<<0>>, {1}, {"hashMap"})
    BY DEF Frame
  <2>2. marks' = <<0>>
    BY <1>2, <2>1 DEF stackVars, StackInv, InFrame, FrameOf
  <2>3. QED
    BY <1>2, <2>1, <2>2, KeepStep
       DEF stackVars, Places, Allocations, Handles, Slot, InParse, InCount, InLoop, InPush
<1>3. CASE pc = "init_iter" /\ pc' = "own_iter" /\ UNCHANGED stackVars
  <2>1. /\ Frame("init_iter") = FrameOf(<<0>>, {1}, {"hashMap"})
        /\ Frame("own_iter") = FrameOf(<<0>>, {1}, {"hashMap"})
    BY DEF Frame
  <2>2. marks' = <<0>>
    BY <1>3, <2>1 DEF stackVars, StackInv, InFrame, FrameOf
  <2>3. QED
    BY <1>3, <2>1, <2>2, KeepStep
       DEF stackVars, Places, Allocations, Handles, Slot, InParse, InCount, InLoop, InPush
<1>4. QED
  BY <1>1, <1>2, <1>3
     DEF MakeIterator, New, MakeHandle, At, Goto, stackVars, heapVars, countVars

LEMMA VectorMakeStep == ASSUME StackInv, VectorMake PROVE StackInv'
<1>1. CASE pc = "make_array" /\ pc' = "own_array" /\ Mark
          /\ UNCHANGED <<base, capacity, slots, handle>>
  <2>1. /\ Frame("make_array") = FrameOf(<<0>>, {2}, {"hashMap", "iter"})
        /\ Frame("own_array") = FrameOf(<<0, 2>>, {2}, {"hashMap", "iter"})
    BY DEF Frame
  <2>2. Extends(<<0, 2>>, <<0>>, 2)
    BY SavedDepths
  <2>3. marks' = <<0, 2>>
    BY <1>1, <2>1, <2>2, Marked DEF Extends, Places, Allocations
  <2>4. QED
    BY <1>1, <2>1, <2>2, <2>3, KeepStep
       DEF Places, Allocations, Handles, Slot, InParse, InCount, InLoop, InPush
<1>2. CASE MakeHandle("own_array", "array", oop, "make_vector") /\ UNCHANGED marks
  <2>1. /\ Frame("own_array") = FrameOf(<<0, 2>>, {2}, {"hashMap", "iter"})
        /\ Frame("make_vector") = FrameOf(<<0, 2>>, {3}, {"hashMap", "iter", "array"})
    BY DEF Frame
  <2>2. marks' = <<0, 2>>
    BY <1>2, <2>1 DEF MakeHandle, At, StackInv, InFrame, FrameOf
  <2>3. QED
    BY <1>2, <2>1, <2>2, MakeHandleStep
       DEF Places, Allocations, Handles, Slot, InParse, InCount, InLoop, InPush
<1>3. CASE pc = "make_vector" /\ pc' = "own_vector" /\ Leave
  <2>1. /\ Frame("make_vector") = FrameOf(<<0, 2>>, {3}, {"hashMap", "iter", "array"})
        /\ Frame("own_vector") = FrameOf(<<0>>, {2}, {"hashMap", "iter"})
    BY DEF Frame
  <2>2. Extends(<<0, 2>>, <<0>>, 2)
    BY SavedDepths
  <2>3. marks' = <<0>>
    BY <1>3, <2>1, <2>2 DEF Leave, Extends, StackInv, InFrame, FrameOf
  <2>4. QED
    BY <1>3, <2>1, <2>2, <2>3, LeaveStep
       DEF Extends, Places, Allocations, Handles, Slot, InParse, InCount, InLoop, InPush
<1>4. QED
  BY <1>1, <1>2, <1>3
     DEF VectorMake, New, MakeHandle, At, Goto, stackVars, heapVars, countVars

LEMMA PairMakeStep == ASSUME StackInv, PairMake PROVE StackInv'
<1>1. CASE MakeHandle("make_first", "first", object[Read("curr")].ref.key, "make_pair") /\ UNCHANGED marks
  <2>1. /\ Frame("make_first") = FrameOf(<<0, 3>>, {4}, InCount \cup {"curr"})
        /\ Frame("make_pair") = FrameOf(<<0, 3>>, {5}, InCount \cup {"curr", "first"})
    BY DEF Frame
  <2>2. marks' = <<0, 3>>
    BY <1>1, <2>1 DEF MakeHandle, At, StackInv, InFrame, FrameOf
  <2>3. QED
    BY <1>1, <2>1, <2>2, MakeHandleStep
       DEF Places, Allocations, Handles, Slot, InParse, InCount, InLoop, InPush
<1>2. CASE pc = "make_pair" /\ pc' = "make_second" /\ UNCHANGED stackVars
  <2>1. /\ Frame("make_pair") = FrameOf(<<0, 3>>, {5}, InCount \cup {"curr", "first"})
        /\ Frame("make_second") = FrameOf(<<0, 3>>, {5}, InCount \cup {"curr", "first"})
    BY DEF Frame
  <2>2. marks' = <<0, 3>>
    BY <1>2, <2>1 DEF stackVars, StackInv, InFrame, FrameOf
  <2>3. QED
    BY <1>2, <2>1, <2>2, KeepStep
       DEF stackVars, Places, Allocations, Handles, Slot, InParse, InCount, InLoop, InPush
<1>3. CASE MakeHandle("make_second", "second", raw, "init_pair") /\ UNCHANGED marks
  <2>1. /\ Frame("make_second") = FrameOf(<<0, 3>>, {5}, InCount \cup {"curr", "first"})
        /\ Frame("init_pair") = FrameOf(<<0, 3>>, {6}, InLoop)
    BY DEF Frame
  <2>2. marks' = <<0, 3>>
    BY <1>3, <2>1 DEF MakeHandle, At, StackInv, InFrame, FrameOf
  <2>3. QED
    BY <1>3, <2>1, <2>2, MakeHandleStep
       DEF Places, Allocations, Handles, Slot, InParse, InCount, InLoop, InPush
<1>4. CASE pc = "init_pair" /\ pc' = "push_back" /\ UNCHANGED stackVars
  <2>1. /\ Frame("init_pair") = FrameOf(<<0, 3>>, {6}, InLoop)
        /\ Frame("push_back") = FrameOf(<<0, 3>>, {6}, InLoop)
    BY DEF Frame
  <2>2. marks' = <<0, 3>>
    BY <1>4, <2>1 DEF stackVars, StackInv, InFrame, FrameOf
  <2>3. QED
    BY <1>4, <2>1, <2>2, KeepStep
       DEF stackVars, Places, Allocations, Handles, Slot, InParse, InCount, InLoop, InPush
<1>5. QED
  BY <1>1, <1>2, <1>3, <1>4
     DEF PairMake, New, MakeHandle, At, Goto, stackVars, heapVars, countVars

LEMMA PushBackStep == ASSUME StackInv, PushBack PROVE StackInv'
<1>1. CASE MakeHandle("push_back", "h_self", Read("vector"), "own_elem") /\ Mark
  <2>1. /\ Frame("push_back") = FrameOf(<<0, 3>>, {6}, InLoop)
        /\ Frame("own_elem") = FrameOf(<<0, 3, 6>>, {7}, InLoop \cup {"h_self"})
    BY DEF Frame
  <2>2. Extends(<<0, 3, 6>>, <<0, 3>>, 6)
    BY SavedDepths
  <2>3. marks' = <<0, 3, 6>>
    BY <1>1, <2>1, <2>2, Marked DEF MakeHandle, At, Extends, Places, Allocations
  <2>4. QED
    BY <1>1, <2>1, <2>2, <2>3, MakeHandleStep
       DEF Places, Allocations, Handles, Slot, InParse, InCount, InLoop, InPush
<1>2. CASE MakeHandle("own_elem", "h_elem", oop, "is_full") /\ UNCHANGED marks
  <2>1. /\ Frame("own_elem") = FrameOf(<<0, 3, 6>>, {7}, InLoop \cup {"h_self"})
        /\ Frame("is_full") = FrameOf(<<0, 3, 6>>, {8}, InPush)
    BY DEF Frame
  <2>2. marks' = <<0, 3, 6>>
    BY <1>2, <2>1 DEF MakeHandle, At, StackInv, InFrame, FrameOf
  <2>3. QED
    BY <1>2, <2>1, <2>2, MakeHandleStep
       DEF Places, Allocations, Handles, Slot, InParse, InCount, InLoop, InPush
<1>3. CASE pc = "is_full" /\ pc' = "resize" /\ UNCHANGED stackVars
  <2>1. /\ Frame("is_full") = FrameOf(<<0, 3, 6>>, {8}, InPush)
        /\ Frame("resize") = FrameOf(<<0, 3, 6>>, {8}, InPush)
    BY DEF Frame
  <2>2. marks' = <<0, 3, 6>>
    BY <1>3, <2>1 DEF stackVars, StackInv, InFrame, FrameOf
  <2>3. QED
    BY <1>3, <2>1, <2>2, KeepStep
       DEF stackVars, Places, Allocations, Handles, Slot, InParse, InCount, InLoop, InPush
<1>4. CASE pc = "is_full" /\ pc' = "store" /\ UNCHANGED stackVars
  <2>1. /\ Frame("is_full") = FrameOf(<<0, 3, 6>>, {8}, InPush)
        /\ Frame("store") = FrameOf(<<0, 3, 6>>, {8, 9}, InPush)
    BY DEF Frame
  <2>2. marks' = <<0, 3, 6>>
    BY <1>4, <2>1 DEF stackVars, StackInv, InFrame, FrameOf
  <2>3. QED
    BY <1>4, <2>1, <2>2, KeepStep
       DEF stackVars, Places, Allocations, Handles, Slot, InParse, InCount, InLoop, InPush
<1>5. CASE pc = "store" /\ pc' = "next_word" /\ Leave
  <2>1. /\ Frame("store") = FrameOf(<<0, 3, 6>>, {8, 9}, InPush)
        /\ Frame("next_word") = FrameOf(<<0, 3>>, {6}, InLoop)
    BY DEF Frame
  <2>2. Extends(<<0, 3, 6>>, <<0, 3>>, 6)
    BY SavedDepths
  <2>3. marks' = <<0, 3>>
    BY <1>5, <2>1, <2>2 DEF Leave, Extends, StackInv, InFrame, FrameOf
  <2>4. QED
    BY <1>5, <2>1, <2>2, <2>3, LeaveStep
       DEF Extends, Places, Allocations, Handles, Slot, InParse, InCount, InLoop, InPush
<1>6. QED
  BY <1>1, <1>2, <1>3, <1>4, <1>5
     DEF PushBack, New, MakeHandle, At, Goto, stackVars, heapVars, countVars

LEMMA ResizeVectorStep == ASSUME StackInv, ResizeVector PROVE StackInv'
<1>1. CASE MakeHandle("resize", "hm_self", raw, "make_larger") /\ UNCHANGED marks
  <2>1. /\ Frame("resize") = FrameOf(<<0, 3, 6>>, {8}, InPush)
        /\ Frame("make_larger") = FrameOf(<<0, 3, 6>>, {9}, InPush \cup {"hm_self"})
    BY DEF Frame
  <2>2. marks' = <<0, 3, 6>>
    BY <1>1, <2>1 DEF MakeHandle, At, StackInv, InFrame, FrameOf
  <2>3. QED
    BY <1>1, <2>1, <2>2, MakeHandleStep
       DEF Places, Allocations, Handles, Slot, InParse, InCount, InLoop, InPush
<1>2. CASE pc = "make_larger" /\ pc' = "copy_to" /\ UNCHANGED stackVars
  <2>1. /\ Frame("make_larger") = FrameOf(<<0, 3, 6>>, {9}, InPush \cup {"hm_self"})
        /\ Frame("copy_to") = FrameOf(<<0, 3, 6>>, {9}, InPush \cup {"hm_self"})
    BY DEF Frame
  <2>2. marks' = <<0, 3, 6>>
    BY <1>2, <2>1 DEF stackVars, StackInv, InFrame, FrameOf
  <2>3. QED
    BY <1>2, <2>1, <2>2, KeepStep
       DEF stackVars, Places, Allocations, Handles, Slot, InParse, InCount, InLoop, InPush
<1>3. CASE pc = "copy_to" /\ pc' = "store" /\ UNCHANGED stackVars
  <2>1. /\ Frame("copy_to") = FrameOf(<<0, 3, 6>>, {9}, InPush \cup {"hm_self"})
        /\ Frame("store") = FrameOf(<<0, 3, 6>>, {8, 9}, InPush)
    BY DEF Frame
  <2>2. marks' = <<0, 3, 6>>
    BY <1>3, <2>1 DEF stackVars, StackInv, InFrame, FrameOf
  <2>3. QED
    BY <1>3, <2>1, <2>2, KeepStep
       DEF stackVars, Places, Allocations, Handles, Slot, InParse, InCount, InLoop, InPush
<1>4. QED
  BY <1>1, <1>2, <1>3
     DEF ResizeVector, New, MakeHandle, At, Goto, stackVars, heapVars, countVars

LEMMA UpdateValueStep == ASSUME StackInv, UpdateValue PROVE StackInv'
<1>1. CASE pc = "update_value" /\ pc' = "read_word" /\ UNCHANGED stackVars
  <2>1. /\ Frame("update_value") = FrameOf(<<0, 0>>, {1}, {"map"})
        /\ Frame("read_word") = FrameOf(<<0, 0>>, {1}, {"map"})
    BY DEF Frame
  <2>2. marks' = <<0, 0>>
    BY <1>1, <2>1 DEF stackVars, StackInv, InFrame, FrameOf
  <2>3. QED
    BY <1>1, <2>1, <2>2, KeepStep
       DEF stackVars, Places, Allocations, Handles, Slot, InParse, InCount, InLoop, InPush
<1>2. CASE MakeHandle("update_value", "str", oop, "make_size") /\ Mark
  <2>1. /\ Frame("update_value") = FrameOf(<<0, 0>>, {1}, {"map"})
        /\ Frame("make_size") = FrameOf(<<0, 0, 1>>, {2}, InParse)
    BY DEF Frame
  <2>2. Extends(<<0, 0, 1>>, <<0, 0>>, 1)
    BY SavedDepths
  <2>3. marks' = <<0, 0, 1>>
    BY <1>2, <2>1, <2>2, Marked DEF MakeHandle, At, Extends, Places, Allocations
  <2>4. QED
    BY <1>2, <2>1, <2>2, <2>3, MakeHandleStep
       DEF Places, Allocations, Handles, Slot, InParse, InCount, InLoop, InPush
<1>3. CASE pc = "make_size" /\ pc' = "put" /\ UNCHANGED stackVars
  <2>1. /\ Frame("make_size") = FrameOf(<<0, 0, 1>>, {2}, InParse)
        /\ Frame("put") = FrameOf(<<0, 0, 1>>, {2}, InParse)
    BY DEF Frame
  <2>2. marks' = <<0, 0, 1>>
    BY <1>3, <2>1 DEF stackVars, StackInv, InFrame, FrameOf
  <2>3. QED
    BY <1>3, <2>1, <2>2, KeepStep
       DEF stackVars, Places, Allocations, Handles, Slot, InParse, InCount, InLoop, InPush
<1>4. CASE pc = "put_done" /\ pc' = "read_word" /\ Leave
  <2>1. /\ Frame("put_done") = FrameOf(<<0, 0, 1>>, {2}, InParse)
        /\ Frame("read_word") = FrameOf(<<0, 0>>, {1}, {"map"})
    BY DEF Frame
  <2>2. Extends(<<0, 0, 1>>, <<0, 0>>, 1)
    BY SavedDepths
  <2>3. marks' = <<0, 0>>
    BY <1>4, <2>1, <2>2 DEF Leave, Extends, StackInv, InFrame, FrameOf
  <2>4. QED
    BY <1>4, <2>1, <2>2, <2>3, LeaveStep
       DEF Extends, Places, Allocations, Handles, Slot, InParse, InCount, InLoop, InPush
<1>5. QED
  BY <1>1, <1>2, <1>3, <1>4
     DEF UpdateValue, New, MakeHandle, At, Goto, stackVars, heapVars, countVars

LEMMA ParseFileStep == ASSUME StackInv, ParseFile PROVE StackInv'
<1>1. CASE pc = "parse_file" /\ pc' = "make_table" /\ Mark
          /\ UNCHANGED <<base, capacity, slots, handle>>
  <2>1. /\ Frame("parse_file") = FrameOf(<<0>>, {0}, {})
        /\ Frame("make_table") = FrameOf(<<0, 0>>, {0}, {})
    BY DEF Frame
  <2>2. Extends(<<0, 0>>, <<0>>, 0)
    BY SavedDepths
  <2>3. marks' = <<0, 0>>
    BY <1>1, <2>1, <2>2, Marked DEF Extends, Places, Allocations
  <2>4. QED
    BY <1>1, <2>1, <2>2, <2>3, KeepStep
       DEF Places, Allocations, Handles, Slot, InParse, InCount, InLoop, InPush
<1>2. CASE MakeHandle("own_map", "map", oop, "read_word") /\ UNCHANGED marks
  <2>1. /\ Frame("own_map") = FrameOf(<<0, 0>>, {0}, {})
        /\ Frame("read_word") = FrameOf(<<0, 0>>, {1}, {"map"})
    BY DEF Frame
  <2>2. marks' = <<0, 0>>
    BY <1>2, <2>1 DEF MakeHandle, At, StackInv, InFrame, FrameOf
  <2>3. QED
    BY <1>2, <2>1, <2>2, MakeHandleStep
       DEF Places, Allocations, Handles, Slot, InParse, InCount, InLoop, InPush
<1>3. CASE pc = "read_word" /\ pc' = "update_value" /\ UNCHANGED stackVars
  <2>1. /\ Frame("read_word") = FrameOf(<<0, 0>>, {1}, {"map"})
        /\ Frame("update_value") = FrameOf(<<0, 0>>, {1}, {"map"})
    BY DEF Frame
  <2>2. marks' = <<0, 0>>
    BY <1>3, <2>1 DEF stackVars, StackInv, InFrame, FrameOf
  <2>3. QED
    BY <1>3, <2>1, <2>2, KeepStep
       DEF stackVars, Places, Allocations, Handles, Slot, InParse, InCount, InLoop, InPush
<1>4. CASE pc = "read_word" /\ pc' = "own_result" /\ Leave
  <2>1. /\ Frame("read_word") = FrameOf(<<0, 0>>, {1}, {"map"})
        /\ Frame("own_result") = FrameOf(<<0>>, {0}, {})
    BY DEF Frame
  <2>2. Extends(<<0, 0>>, <<0>>, 0)
    BY SavedDepths
  <2>3. marks' = <<0>>
    BY <1>4, <2>1, <2>2 DEF Leave, Extends, StackInv, InFrame, FrameOf
  <2>4. QED
    BY <1>4, <2>1, <2>2, <2>3, LeaveStep
       DEF Extends, Places, Allocations, Handles, Slot, InParse, InCount, InLoop, InPush
<1>5. QED
  BY <1>1, <1>2, <1>3, <1>4
     DEF ParseFile, New, MakeHandle, At, Goto, stackVars, heapVars, countVars

LEMMA CountStep == ASSUME StackInv, Count PROVE StackInv'
<1>1. CASE pc = "count" /\ pc' = "parse_file" /\ Mark
          /\ UNCHANGED <<base, capacity, slots, handle>>
  <2>1. /\ Frame("count") = FrameOf(<<>>, {0}, {})
        /\ Frame("parse_file") = FrameOf(<<0>>, {0}, {})
    BY DEF Frame
  <2>2. Extends(<<0>>, <<>>, 0)
    BY SavedDepths
  <2>3. marks' = <<0>>
    BY <1>1, <2>1, <2>2, Marked DEF Extends, Places, Allocations
  <2>4. QED
    BY <1>1, <2>1, <2>2, <2>3, KeepStep
       DEF Places, Allocations, Handles, Slot, InParse, InCount, InLoop, InPush
<1>2. CASE MakeHandle("own_result", "hashMap", oop, "iterator") /\ UNCHANGED marks
  <2>1. /\ Frame("own_result") = FrameOf(<<0>>, {0}, {})
        /\ Frame("iterator") = FrameOf(<<0>>, {1}, {"hashMap"})
    BY DEF Frame
  <2>2. marks' = <<0>>
    BY <1>2, <2>1 DEF MakeHandle, At, StackInv, InFrame, FrameOf
  <2>3. QED
    BY <1>2, <2>1, <2>2, MakeHandleStep
       DEF Places, Allocations, Handles, Slot, InParse, InCount, InLoop, InPush
<1>3. CASE MakeHandle("own_iter", "iter", oop, "make_array") /\ UNCHANGED marks
  <2>1. /\ Frame("own_iter") = FrameOf(<<0>>, {1}, {"hashMap"})
        /\ Frame("make_array") = FrameOf(<<0>>, {2}, {"hashMap", "iter"})
    BY DEF Frame
  <2>2. marks' = <<0>>
    BY <1>3, <2>1 DEF MakeHandle, At, StackInv, InFrame, FrameOf
  <2>3. QED
    BY <1>3, <2>1, <2>2, MakeHandleStep
       DEF Places, Allocations, Handles, Slot, InParse, InCount, InLoop, InPush
<1>4. CASE MakeHandle("own_vector", "vector", oop, "has_next") /\ UNCHANGED marks
  <2>1. /\ Frame("own_vector") = FrameOf(<<0>>, {2}, {"hashMap", "iter"})
        /\ Frame("has_next") = FrameOf(<<0>>, {3}, InCount)
    BY DEF Frame
  <2>2. marks' = <<0>>
    BY <1>4, <2>1 DEF MakeHandle, At, StackInv, InFrame, FrameOf
  <2>3. QED
    BY <1>4, <2>1, <2>2, MakeHandleStep
       DEF Places, Allocations, Handles, Slot, InParse, InCount, InLoop, InPush
<1>5. CASE pc = "has_next" /\ pc' = "own_node" /\ Mark
          /\ UNCHANGED <<base, capacity, slots, handle>>
  <2>1. /\ Frame("has_next") = FrameOf(<<0>>, {3}, InCount)
        /\ Frame("own_node") = FrameOf(<<0, 3>>, {3}, InCount)
    BY DEF Frame
  <2>2. Extends(<<0, 3>>, <<0>>, 3)
    BY SavedDepths
  <2>3. marks' = <<0, 3>>
    BY <1>5, <2>1, <2>2, Marked DEF Extends, Places, Allocations
  <2>4. QED
    BY <1>5, <2>1, <2>2, <2>3, KeepStep
       DEF Places, Allocations, Handles, Slot, InParse, InCount, InLoop, InPush
<1>6. CASE MakeHandle("own_node", "curr", oop, "add_count") /\ UNCHANGED marks
  <2>1. /\ Frame("own_node") = FrameOf(<<0, 3>>, {3}, InCount)
        /\ Frame("add_count") = FrameOf(<<0, 3>>, {4}, InCount \cup {"curr"})
    BY DEF Frame
  <2>2. marks' = <<0, 3>>
    BY <1>6, <2>1 DEF MakeHandle, At, StackInv, InFrame, FrameOf
  <2>3. QED
    BY <1>6, <2>1, <2>2, MakeHandleStep
       DEF Places, Allocations, Handles, Slot, InParse, InCount, InLoop, InPush
<1>7. CASE pc = "add_count" /\ pc' = "make_first" /\ UNCHANGED stackVars
  <2>1. /\ Frame("add_count") = FrameOf(<<0, 3>>, {4}, InCount \cup {"curr"})
        /\ Frame("make_first") = FrameOf(<<0, 3>>, {4}, InCount \cup {"curr"})
    BY DEF Frame
  <2>2. marks' = <<0, 3>>
    BY <1>7, <2>1 DEF stackVars, StackInv, InFrame, FrameOf
  <2>3. QED
    BY <1>7, <2>1, <2>2, KeepStep
       DEF stackVars, Places, Allocations, Handles, Slot, InParse, InCount, InLoop, InPush
<1>8. CASE pc = "next_word" /\ pc' = "has_next" /\ Leave
  <2>1. /\ Frame("next_word") = FrameOf(<<0, 3>>, {6}, InLoop)
        /\ Frame("has_next") = FrameOf(<<0>>, {3}, InCount)
    BY DEF Frame
  <2>2. Extends(<<0, 3>>, <<0>>, 3)
    BY SavedDepths
  <2>3. marks' = <<0>>
    BY <1>8, <2>1, <2>2 DEF Leave, Extends, StackInv, InFrame, FrameOf
  <2>4. QED
    BY <1>8, <2>1, <2>2, <2>3, LeaveStep
       DEF Extends, Places, Allocations, Handles, Slot, InParse, InCount, InLoop, InPush
<1>9. CASE pc = "has_next" /\ pc' = "print" /\ UNCHANGED stackVars
  <2>1. /\ Frame("has_next") = FrameOf(<<0>>, {3}, InCount)
        /\ Frame("print") = FrameOf(<<0>>, {3}, InCount)
    BY DEF Frame
  <2>2. marks' = <<0>>
    BY <1>9, <2>1 DEF stackVars, StackInv, InFrame, FrameOf
  <2>3. QED
    BY <1>9, <2>1, <2>2, KeepStep
       DEF stackVars, Places, Allocations, Handles, Slot, InParse, InCount, InLoop, InPush
<1>10. CASE pc = "print" /\ pc' = "done" /\ Leave
  <2>1. /\ Frame("print") = FrameOf(<<0>>, {3}, InCount)
        /\ Frame("done") = FrameOf(<<>>, {0}, {})
    BY DEF Frame
  <2>2. Extends(<<0>>, <<>>, 0)
    BY SavedDepths
  <2>3. marks' = <<>>
    BY <1>10, <2>1, <2>2 DEF Leave, Extends, StackInv, InFrame, FrameOf
  <2>4. QED
    BY <1>10, <2>1, <2>2, <2>3, LeaveStep
       DEF Extends, Places, Allocations, Handles, Slot, InParse, InCount, InLoop, InPush
<1>11. QED
  BY <1>1, <1>2, <1>3, <1>4, <1>5, <1>6, <1>7, <1>8, <1>9, <1>10
     DEF Count, New, MakeHandle, At, Goto, stackVars, heapVars, countVars

(* An address that leads nowhere ends the run, and the stack stays. *)
LEMMA LoseTrackStep == ASSUME StackInv, LoseTrack PROVE StackInv'
<1>1. UNCHANGED <<base, capacity, slots, handle>> /\ pc' = "undefined"
  BY DEF LoseTrack, Goto, stackVars
<1>2. StackTypeOK' /\ Len(slots') = Len(slots)
  BY <1>1, KeepShape DEF StackInv
<1>3. QED
  BY <1>1, <1>2 DEF StackInv, Places

-----------------------------------------------------------------------------
(* The invariant, and what follows from it. *)

LEMMA InitStackInv == Init => StackInv
<1> SUFFICES ASSUME Init PROVE StackInv
  OBVIOUS
<1>1. /\ base = 1 /\ capacity = INITIAL_SIZE /\ slots = <<>> /\ marks = <<>>
      /\ handle = [h \in Handles |-> None] /\ pc = "count"
  BY DEF Init, InitStack
<1>2. slots \in Seq(Range(slots)) /\ Len(slots) = 0
  BY <1>1
<1>3. StackTypeOK
  BY <1>1, <1>2, BufferAssumption DEF StackTypeOK
<1>4. Frame("count") = FrameOf(<<>>, {0}, {})
  BY DEF Frame
<1>5. InFrame(Frame(pc))
  BY <1>1, <1>2, <1>4 DEF InFrame, FrameOf
<1>6. QED
  BY <1>1, <1>2, <1>3, <1>5 DEF StackInv, Places

LEMMA NextStackInv == StackInv /\ [Next]_vars => StackInv'
<1> SUFFICES ASSUME StackInv, [Next]_vars PROVE StackInv'
  OBVIOUS
<1>1. CASE HashMapMake
  BY <1>1, HashMapMakeStep
<1>2. CASE Put
  BY <1>2, PutStep
<1>3. CASE MakeIterator
  BY <1>3, MakeIteratorStep
<1>4. CASE VectorMake
  BY <1>4, VectorMakeStep
<1>5. CASE PairMake
  BY <1>5, PairMakeStep
<1>6. CASE PushBack
  BY <1>6, PushBackStep
<1>7. CASE ResizeVector
  BY <1>7, ResizeVectorStep
<1>8. CASE UpdateValue
  BY <1>8, UpdateValueStep
<1>9. CASE ParseFile
  BY <1>9, ParseFileStep
<1>10. CASE Count
  BY <1>10, CountStep
<1>11. CASE LoseTrack
  BY <1>11, LoseTrackStep
<1>12. CASE UNCHANGED vars
  <2>1. UNCHANGED <<base, capacity, slots, handle, marks, pc>>
    BY <1>12 DEF vars, stackVars
  <2>2. StackTypeOK' /\ Len(slots') = Len(slots)
        /\ \A g \in Handles : InSlot(g)' <=> InSlot(g)
    BY <2>1, KeepShape DEF StackInv, InSlot
  <2>3. QED
    BY <2>1 DEF StackInv, StackTypeOK, InFrame, InSlot
<1>13. QED
  BY <1>1, <1>2, <1>3, <1>4, <1>5, <1>6, <1>7, <1>8, <1>9, <1>10, <1>11, <1>12
     DEF Next, Stopped

(* At each place the stack has the depth and the Handles the slots that    *)
(* Frame gives them, whatever the text (count.cpp, ManagedHashMap.h).      *)
THEOREM StackInvariance == Spec => []StackInv
BY InitStackInv, NextStackInv, PTL DEF Spec

(* The HandleMarks keep the stack from growing with the text: count() never*)
(* has more than nine Handles in it and leaves none behind.                *)
THEOREM HandlesStayFew == Spec => []HandlesDoNotPileUp
<1>1. ASSUME StackInv PROVE HandlesDoNotPileUp
  <2>1. /\ Frame("read_word") = FrameOf(<<0, 0>>, {1}, {"map"})
        /\ Frame("has_next") = FrameOf(<<0>>, {3}, InCount)
        /\ Frame("done") = FrameOf(<<>>, {0}, {})
    BY DEF Frame
  <2>2. ASSUME pc = "read_word" PROVE Len(slots) = 1
    <3>1. InFrame(FrameOf(<<0, 0>>, {1}, {"map"}))
      BY <1>1, <2>1, <2>2 DEF StackInv
    <3>2. QED
      BY <3>1 DEF InFrame, FrameOf
  <2>3. ASSUME pc = "has_next" PROVE Len(slots) = 3
    <3>1. InFrame(FrameOf(<<0>>, {3}, InCount))
      BY <1>1, <2>1, <2>3 DEF StackInv
    <3>2. QED
      BY <3>1 DEF InFrame, FrameOf
  <2>4. pc = "done" => slots = <<>> /\ marks = <<>>
    <3>1. slots \in Seq(Range(slots))
      BY <1>1 DEF StackInv, StackTypeOK
    <3>2. pc = "done" => Len(slots) = 0 /\ marks = <<>>
      BY <1>1, <2>1 DEF StackInv, InFrame, FrameOf
    <3>3. QED
      BY ONLY <3>1, <3>2
  <2>5. QED
    BY <1>1, <2>2, <2>3, <2>4 DEF HandlesDoNotPileUp, StackInv
<1>2. QED
  BY <1>1, StackInvariance, PTL

(* What a step dereferences is in scope where the step is. *)
LEMMA DerefsAreInScope ==
    ASSUME NEW l \in Places \ {"undefined"} PROVE Derefs(l) \subseteq Frame(l).names
BY DEF Derefs, Frame, FrameOf, Places, Allocations, InParse, InCount, InLoop, InPush

(* A Buffer with room for nine slots, of which the code's has 4096, is not *)
(* resized, and no Handle that the program dereferences points into a      *)
(* mapping that is gone (Buffer.h, Handle.h).                              *)
BufferStays ==
    /\ base = 1 /\ capacity = INITIAL_SIZE
    /\ \A h \in Derefs(pc) : Valid(h)

THEOREM NoHandleLosesItsSlot ==
    ASSUME INITIAL_SIZE >= 9 PROVE Spec => []BufferStays
<1> DEFINE Same == base = 1 /\ capacity = INITIAL_SIZE
<1>1. Init => Same
  BY DEF Init, InitStack
<1>2. ASSUME StackInv, StackInv', Same, [Next]_vars PROVE Same'
  <2>1. Len(slots) \in 0 .. 9 /\ Len(slots') \in 0 .. 9
    <3>1. slots \in Seq(Range(slots)) /\ Len(slots) <= 9
      BY <1>2 DEF StackInv, StackTypeOK
    <3>2. slots' \in Seq(Range(slots')) /\ Len(slots') <= 9
      BY <1>2 DEF StackInv, StackTypeOK
    <3>3. \A S : \A s \in Seq(S) : Len(s) \in Nat
      OBVIOUS
    <3>4. Len(slots) \in Nat /\ Len(slots') \in Nat
      BY ONLY <3>1, <3>2, <3>3
    <3>5. \A n \in Nat : n <= 9 => n \in 0 .. 9
      OBVIOUS
    <3>6. QED
      BY ONLY <3>1, <3>2, <3>4, <3>5
  <2>2. UNCHANGED <<base, capacity>> \/ \E h, p : Push(h, p)
    BY <1>2 DEF Next, HashMapMake, Put, MakeIterator, VectorMake, PairMake, PushBack,
       ResizeVector, UpdateValue, ParseFile, Count, LoseTrack, Stopped, vars, stackVars,
       MakeHandle, Leave
  <2>3. CASE \E h, p : Push(h, p)
    <3>1. PICK h, p : Push(h, p)
      BY <2>3
    <3>2. Len(slots') = Len(slots) + 1
      BY <1>2, <3>1 DEF StackInv, StackTypeOK, Push
    <3>3. Len(slots) # capacity
      BY <1>2, <2>1, <3>2, BufferAssumption
    <3>4. QED
      BY <1>2, <3>1, <3>3 DEF Push
  <2>4. QED
    BY <1>2, <2>2, <2>3
<1>3. ASSUME StackInv, Same PROVE BufferStays
  <2>1. CASE pc = "undefined"
    BY <1>3, <2>1 DEF BufferStays, Derefs
  <2>2. CASE pc # "undefined"
    <3>1. \A h \in Frame(pc).names : InSlot(h)
      BY <1>3, <2>2 DEF StackInv, InFrame
    <3>2. Derefs(pc) \subseteq Frame(pc).names
      BY <1>3, <2>2, DerefsAreInScope DEF StackInv
    <3>3. QED
      BY <1>3, <3>1, <3>2 DEF BufferStays, InSlot, Valid
  <2>3. QED
    BY <2>1, <2>2
<1>4. QED
  <2>1. StackInv /\ StackInv' /\ Same /\ [Next]_vars => Same'
    BY <1>2
  <2>2. StackInv /\ Same => BufferStays
    BY <1>3
  <2>3. QED
    BY <1>1, <2>1, <2>2, StackInvariance, PTL DEF Spec

-----------------------------------------------------------------------------
(* What the Handles lead to: the class of each object that a place of the  *)
(* program has a name for.                                                 *)

Of(p, class) == p \in InUse /\ object[p].class = class
OrNull(p, class) == p = Null \/ Of(p, class)

(* p may be Stale, but only if the collector moves objects. *)
Lost(p) == p = Stale /\ moving

(* Object r is what its class makes it. *)
Formed(r) ==
    LET class == object[r].class
        ref == object[r].ref
        val == object[r].val
    IN  /\ object[r] = Object(class, ref, val)
        /\ class \in {"String", "SizeT", "Array", "Vector", "Pair", "HashMap", "Node",
                      "HashMapIterator"}
        /\ class = "String" => ref = <<>> /\ val \in Words
        /\ class = "SizeT" => ref = <<>>
        /\ class = "Array" =>
              /\ ref = [i \in DOMAIN ref |-> ref[i]] /\ val \in Nat
              /\ \A i \in DOMAIN ref : ref[i] \in InUse \cup {Null}
        /\ class = "Vector" => ref = [data |-> ref.data] /\ Of(ref.data, "Array")
        /\ class = "Pair" =>
              /\ ref = [first |-> ref.first, second |-> ref.second]
              /\ ref.first \in InUse \cup {Null}
              /\ ref.second \in InUse \cup {Null} \/ Lost(ref.second)
        /\ class = "HashMap" => ref = [table |-> ref.table] /\ Of(ref.table, "Array")
        /\ class = "Node" =>
              /\ ref = [key |-> ref.key, value |-> ref.value, next |-> ref.next]
              /\ Of(ref.key, "String") /\ Of(ref.value, "SizeT")
              /\ OrNull(ref.next, "Node") /\ val \in Nat
        /\ class = "HashMapIterator" =>
              /\ ref = [current |-> Null, next |-> ref.next, hashMap |-> ref.hashMap]
              /\ OrNull(ref.next, "Node") /\ OrNull(ref.hashMap, "HashMap")
              /\ val \in Nat

(* An array of buckets. *)
IsTable(t) ==
    /\ Of(t, "Array")
    /\ object[t].val # 0 /\ DOMAIN object[t].ref = 0 .. object[t].val - 1
    /\ \A i \in DOMAIN object[t].ref : OrNull(object[t].ref[i], "Node")

Tables == {object[m].ref.table : m \in {r \in InUse : object[r].class = "HashMap"}}

InVectors == {object[v].ref.data : v \in {r \in InUse : object[r].class = "Vector"}}

(* The chains come to an end. *)
Acyclic == \A S \in SUBSET Nodes : S # {} => \E n \in S : object[n].ref.next \notin S

HeapInv ==
    /\ moving \in BOOLEAN
    /\ DOMAIN object = Refs
    /\ \A r \in InUse : Formed(r)
    /\ \A t \in Tables : IsTable(t)
    /\ Tables \cap InVectors = {}
    /\ Acyclic

(* What is in the slots, with the Stale one that PairMake may make. *)
SlotsInv ==
    \A i \in DOMAIN slots :
       slots[i] \in InUse \/ (Lost(slots[i]) /\ handle["second"][2] = i)

ClassOf == [tab |-> "Array", map |-> "HashMap", str |-> "String", h_key |-> "String",
            h_value |-> "SizeT", h_table |-> "Array", hashMap |-> "HashMap",
            iter |-> "HashMapIterator", array |-> "Array", vector |-> "Vector",
            curr |-> "Node", first |-> "String", h_self |-> "Vector",
            h_elem |-> "Pair", hm_self |-> "Vector"]

(* An object of that class, and an iterator that knows its map. *)
IsA(p, class) ==
    /\ Of(p, class)
    /\ class = "HashMapIterator" => object[p].ref.hashMap # Null

(* A Handle in scope leads to an object of its class. *)
Leads(h) == h = "second" \/ IsA(slots[Slot[h]], ClassOf[h])

(* What the last call has returned and the step at l takes. *)
OopAt(l) ==
    CASE l = "own_table" ->
            oop \in InUse /\ object[oop] = Array(ARRAY_SIZE) /\ oop \notin InVectors
      [] l \in {"own_map", "own_result"} -> Of(oop, "HashMap")
      [] l = "update_value" -> Of(oop, "String")
      [] l \in {"put", "put_value"} -> Of(oop, "SizeT")
      [] l = "link" -> /\ Of(oop, "Node") /\ object[oop].ref.next = Null
                       /\ \A r \in InUse \ {oop} : oop \notin Trace(r)
      [] l = "init_iter" -> Of(oop, "HashMapIterator")
      [] l = "own_iter" -> IsA(oop, "HashMapIterator")
      [] l = "own_array" -> Of(oop, "Array") /\ oop \notin Tables
      [] l = "own_vector" -> Of(oop, "Vector")
      [] l = "own_node" -> Of(oop, "Node")
      [] l \in {"make_second", "init_pair", "push_back", "own_elem"} -> Of(oop, "Pair")
      [] l = "copy_to" -> Of(oop, "Array") /\ oop \notin Tables
      [] OTHER -> TRUE

(* What more is known of the Handles at l. *)
SlotsAt(l) ==
    /\ l = "make_map" => /\ object[slots[1]] = Array(ARRAY_SIZE)
                         /\ slots[1] \notin InVectors
    /\ l \in {"make_node", "link"} => slots[5] = object[slots[1]].ref.table
    /\ l = "make_vector" => slots[3] \notin Tables

(* Where raw is from at l, if no collection has made it Stale. *)
RawFrom(l) ==
    CASE l \in {"read_word", "update_value", "make_size", "put", "iterator"} ->
            {Null, slots[1]}
      [] l \in {"put_value", "put_table", "make_node", "link", "put_done", "make_iter",
                "init_iter"} -> {slots[1]}
      [] l = "own_result" -> {Null, oop}
      [] l \in {"own_iter", "make_array", "own_array", "make_vector", "own_vector"} ->
            {slots[1]}
      [] l \in {"has_next", "own_node", "add_count", "make_first"} ->
            {slots[1], slots[3]}
      [] l = "make_pair" -> {object[slots[4]].ref.value}
      [] l \in {"make_second", "print", "done"} -> InUse
      [] l \in {"init_pair", "push_back"} -> {slots[6]}
      [] l \in {"own_elem", "is_full", "resize", "make_larger", "copy_to", "store",
                "next_word"} -> {slots[3]}
      [] OTHER -> {Null}

(* No collection can have made raw Stale since it was given its value. *)
Fresh == {"put_value", "put_table", "own_elem", "is_full", "resize"}

PlaceInv(l) ==
    /\ \A h \in Frame(l).names : Leads(h)
    /\ OopAt(l)
    /\ SlotsAt(l)
    /\ raw \in RawFrom(l) \/ Lost(raw)
    /\ l \in Fresh => raw # Stale

InputInv ==
    /\ text \in Seq(Words) /\ hash \in [Words -> Hashes]
    /\ pos \in 0 .. Len(text)

ObjectsInv ==
    /\ InputInv /\ HeapInv /\ SlotsInv
    /\ oop \in InUse \cup {Null}
    /\ raw \in InUse \cup {Null} \/ Lost(raw)
    /\ pc # "undefined" => PlaceInv(pc)
    /\ pc = "undefined" => moving \/ base # 1

-----------------------------------------------------------------------------
(* What the recursive functions of the heap compute, by sets and chains    *)
(* that are as large as can be.                                            *)

LEMMA RefsAreFinite == IsFiniteSet(Refs \cup {Stale})
<1>1. IsFiniteSet(Refs)
  BY RefsAssumption, FS_Interval DEF Refs
<1>2. QED
  BY <1>1, FS_AddElement

Closed(T) == \A r \in T \ {Stale} : Trace(r) \ {Null} \subseteq T

(* Closure[S] is the least set with S that is closed. *)
LEMMA ClosureIsLeast ==
    ASSUME \A r \in Refs : Trace(r) \subseteq Oops, NEW S \in SUBSET (Refs \cup {Stale})
    PROVE  /\ S \subseteq Closure[S] /\ Closure[S] \subseteq Refs \cup {Stale}
           /\ Closed(Closure[S])
           /\ \A T \in SUBSET (Refs \cup {Stale}) :
                 S \subseteq T /\ Closed(T) => Closure[S] \subseteq T
<1> DEFINE A == Refs \cup {Stale}
           Traced(U) == UNION {Trace(r) : r \in U \ {Stale}}
           Wider(U) == U \cup ((UNION {Trace(r) : r \in U \ {Stale}}) \ {Null})
           F(f) == [U \in SUBSET A |-> IF Wider(U) = U THEN U ELSE f[Wider(U)]]
           Least(U) == {x \in A : \A T \in SUBSET A : U \subseteq T /\ Closed(T) => x \in T}
           g == [U \in SUBSET A |-> Least(U)]
<1>1. ASSUME NEW U \in SUBSET A
      PROVE  /\ Wider(U) \in SUBSET A /\ U \subseteq Wider(U)
             /\ Wider(U) = U <=> Closed(U)
             /\ \A T \in SUBSET A :
                   Closed(T) => (U \subseteq T <=> Wider(U) \subseteq T)
  <2>1. \A x : x \in Wider(U) <=>
                 x \in U \/ (x # Null /\ \E r \in U \ {Stale} : x \in Trace(r))
    <3>1. \A x : x \in Traced(U) <=> \E r \in U \ {Stale} : x \in Trace(r)
      BY Zenon
    <3>2. Wider(U) = U \cup (Traced(U) \ {Null})
      OBVIOUS
    <3> HIDE DEF Traced, Wider
    <3>3. QED
      BY <3>1, <3>2
  <2> HIDE DEF Wider
  <2>2. \A r \in U \ {Stale} : r \in Refs
    OBVIOUS
  <2>3. Wider(U) \in SUBSET A /\ U \subseteq Wider(U)
    BY <2>1, <2>2 DEF Oops
  <2>4. Wider(U) = U <=> Closed(U)
    BY <2>1 DEF Closed
  <2>5. ASSUME NEW T \in SUBSET A, Closed(T), U \subseteq T PROVE Wider(U) \subseteq T
    BY <2>1, <2>5 DEF Closed
  <2>6. QED
    BY <2>3, <2>4, <2>5
<1>2. Closure = F(Closure)
  <2>1. Closure = CHOOSE f : f = F(f)
    BY DEF Closure
  <2>2. g = F(g)
    <3>1. ASSUME NEW U \in SUBSET A
          PROVE  g[U] = IF Wider(U) = U THEN U ELSE g[Wider(U)]
      <4>1. Least(U) = IF Wider(U) = U THEN U ELSE Least(Wider(U))
        <5> HIDE DEF Wider
        <5>1. CASE Wider(U) = U
          BY <1>1, <5>1
        <5>2. CASE Wider(U) # U
          BY <1>1, <5>2
        <5>3. QED
          BY <5>1, <5>2
      <4>2. Wider(U) \in SUBSET A
        BY <1>1
      <4> HIDE DEF Least, Wider
      <4>3. QED
        BY <4>1, <4>2
    <3> HIDE DEF Wider
    <3>2. g = [U \in SUBSET A |-> g[U]]
      OBVIOUS
    <3> HIDE DEF g
    <3>3. QED
      BY <3>1, <3>2
  <2> HIDE DEF F, g
  <2>3. QED
    BY <2>1, <2>2
<1>3. ASSUME NEW U \in SUBSET A
      PROVE  Closure[U] = IF Wider(U) = U THEN U ELSE Closure[Wider(U)]
  <2> HIDE DEF Wider
  <2>1. QED
    BY <1>2
<1> DEFINE Good(U) ==
              /\ U \subseteq Closure[U] /\ Closure[U] \subseteq A /\ Closed(Closure[U])
              /\ \A T \in SUBSET A : U \subseteq T /\ Closed(T) => Closure[U] \subseteq T
           B == {U \in SUBSET A : ~Good(U)}
<1>4. B = {}
  <2>1. SUFFICES ASSUME B # {} PROVE FALSE
    OBVIOUS
  <2>2. PICK U \in B : \A V \in B : U \subseteq V => V = U
    <3>1. B \in SUBSET (SUBSET A)
      OBVIOUS
    <3> HIDE DEF B
    <3>2. QED
      BY <2>1, <3>1, RefsAreFinite, MaximalSubset
  <2>3. U \in SUBSET A /\ ~Good(U)
    BY <2>2
  <2>4. CASE Wider(U) = U
    <3>1. Closure[U] = U /\ Closed(U)
      BY <1>1, <1>3, <2>3, <2>4
    <3>2. QED
      BY <2>3, <3>1
  <2>5. CASE Wider(U) # U
    <3> HIDE DEF Wider
    <3>1. Closure[U] = Closure[Wider(U)] /\ Wider(U) \in SUBSET A /\ U \subseteq Wider(U)
      BY <1>1, <1>3, <2>3, <2>5
    <3>2. Good(Wider(U))
      BY <2>2, <2>5, <3>1
    <3>3. QED
      BY <1>1, <2>3, <3>1, <3>2
  <2>6. QED
    BY <2>4, <2>5
<1>5. QED
  BY <1>4

NextOf(n) == object[n].ref.next

(* A chain that ends has an end. *)
LEMMA ChainHasEnd ==
    ASSUME Acyclic, \A m \in Nodes : NextOf(m) \in Nodes \cup {Null},
           NEW n \in Nodes \cup {Null}
    PROVE  /\ Chain[n] \in Seq(Nodes)
           /\ n = Null => Chain[n] = <<>>
           /\ n # Null =>
                 /\ Chain[n] = <<n>> \o Chain[NextOf(n)]
                 /\ Chain[n] # <<>> /\ NextOf(Last(Chain[n])) = Null
                 /\ Last(Chain[n]) = n \/ \E m \in Nodes : Last(Chain[n]) = NextOf(m)
<1> DEFINE A == Nodes \cup {Null}
           Step(f, m) == IF m = Null THEN <<>> ELSE <<m>> \o f[NextOf(m)]
           F(f) == [m \in A |-> Step(f, m)]
           Fits(f, D) == \A m \in D \cup {Null} : f[m] \in Seq(Nodes) /\ f[m] = Step(f, m)
           B == {D \in SUBSET Nodes :
                    /\ \A m \in D : NextOf(m) \in D \cup {Null}
                    /\ \E f : Fits(f, D)}
<1>1. Nodes \subseteq Refs /\ Null \notin Nodes /\ IsFiniteSet(Nodes)
  <2>1. Nodes \subseteq Refs /\ Null \notin Nodes
    BY RefsAssumption DEF Nodes
  <2>2. QED
    BY <2>1, RefsAreFinite, FS_Subset
<1>2. Nodes \in B
  <2>1. {} \in B
    <3> DEFINE f == [m \in {Null} |-> <<>>]
    <3>1. Fits(f, {})
      OBVIOUS
    <3> HIDE DEF f, Fits
    <3>2. QED
      BY <3>1
  <2>2. PICK D \in B : \A E \in B : D \subseteq E => E = D
    <3>1. B \in SUBSET (SUBSET Nodes)
      OBVIOUS
    <3> HIDE DEF B
    <3>2. QED
      BY <1>1, <2>1, <3>1, MaximalSubset
  <2>3. D \in SUBSET Nodes /\ \A m \in D : NextOf(m) \in D \cup {Null}
    BY <2>2
  <2>4. PICK f : Fits(f, D)
    BY <2>2
  <2>5. SUFFICES ASSUME Nodes \ D # {} PROVE FALSE
    BY <2>2, <2>3
  <2>6. PICK m \in Nodes \ D : NextOf(m) \notin Nodes \ D
    BY <2>5 DEF Acyclic, NextOf
  <2>7. NextOf(m) \in D \cup {Null} /\ m # Null /\ m \notin D
    BY <1>1, <2>6
  <2> DEFINE E == D \cup {m}
             h == [k \in E \cup {Null} |-> IF k = m THEN <<m>> \o f[NextOf(m)] ELSE f[k]]
  <2>8. f[NextOf(m)] \in Seq(Nodes)
    BY <2>4, <2>7
  <2>9. <<m>> \o f[NextOf(m)] \in Seq(Nodes)
    BY <2>6, <2>8, LastOfLonger
  <2>10. ASSUME NEW k \in E \cup {Null} PROVE h[k] \in Seq(Nodes) /\ h[k] = Step(h, k)
    <3>1. CASE k = m
      BY <2>7, <2>9, <3>1
    <3>2. CASE k # m
      <4>1. k \in D \cup {Null} /\ h[k] = f[k] /\ f[k] \in Seq(Nodes)
            /\ f[k] = Step(f, k)
        BY <2>4, <2>10, <3>2
      <4>2. k # Null => h[NextOf(k)] = f[NextOf(k)]
        BY <2>3, <2>7, <3>2, <4>1
      <4> HIDE DEF h
      <4>3. QED
        BY <4>1, <4>2
    <3>3. QED
      BY <3>1, <3>2
  <2>11. E \in SUBSET Nodes /\ \A k \in E : NextOf(k) \in E \cup {Null}
    BY <2>3, <2>6, <2>7
  <2>12. E \in B
    <3>1. Fits(h, E)
      <4> HIDE DEF h, Step, E
      <4>1. QED
        BY <2>10
    <3> HIDE DEF h, Fits, E
    <3>2. QED
      BY <2>11, <3>1
  <2>13. D \subseteq E /\ E # D
    BY <2>7
  <2> HIDE DEF E, B
  <2>14. QED
    BY <2>2, <2>12, <2>13
<1>3. Chain = F(Chain)
  <2>1. Chain = CHOOSE f : f = F(f)
    BY DEF Chain, NextOf
  <2>2. PICK f : Fits(f, Nodes)
    BY <1>2
  <2> DEFINE g == [m \in A |-> f[m]]
  <2>3. ASSUME NEW m \in A PROVE g[m] = Step(g, m)
    <3>1. g[m] = f[m] /\ f[m] = Step(f, m)
      BY <2>2
    <3>2. m # Null => g[NextOf(m)] = f[NextOf(m)]
      BY <2>3
    <3> HIDE DEF g
    <3>3. QED
      BY <3>1, <3>2
  <2>4. g = F(g)
    <3>1. g = [m \in A |-> g[m]]
      OBVIOUS
    <3> HIDE DEF g, Step
    <3>2. QED
      BY <2>3, <3>1
  <2> HIDE DEF F, g
  <2>5. QED
    BY <2>1, <2>4
<1>4. ASSUME NEW m \in A PROVE Chain[m] = Step(Chain, m)
  <2> HIDE DEF Step
  <2>1. QED
    BY <1>3
<1> DEFINE Good(m) == /\ Chain[m] \in Seq(Nodes) /\ Chain[m] # <<>>
                      /\ NextOf(Last(Chain[m])) = Null
                      /\ \/ Last(Chain[m]) = m
                         \/ \E k \in Nodes : Last(Chain[m]) = NextOf(k)
           Bad == {m \in Nodes : ~Good(m)}
<1>5. Chain[Null] = <<>>
  BY <1>4
<1>6. Bad = {}
  <2>1. SUFFICES ASSUME Bad # {} PROVE FALSE
    OBVIOUS
  <2>2. PICK m \in Bad : NextOf(m) \notin Bad
    <3>1. Bad \in SUBSET Nodes
      OBVIOUS
    <3> HIDE DEF Bad
    <3>2. QED
      BY <2>1, <3>1 DEF Acyclic, NextOf
  <2>3. m \in Nodes /\ ~Good(m) /\ m # Null
    BY <1>1, <2>2
  <2>4. Chain[m] = <<m>> \o Chain[NextOf(m)]
    BY <1>4, <2>3
  <2>5. CASE NextOf(m) = Null
    <3>1. Chain[NextOf(m)] = <<>> /\ <<>> \in Seq(Nodes)
      BY <1>5, <2>5
    <3>2. ASSUME NEW s \in Seq(Nodes), s = <<>>
          PROVE  /\ <<m>> \o s \in Seq(Nodes) /\ <<m>> \o s # <<>>
                 /\ Last(<<m>> \o s) = m
      <4>1. m \in Nodes
        BY <2>3
      <4> HIDE DEF Bad
      <4>2. QED
        BY ONLY <3>2, <4>1, LastOfLonger
    <3>3. Chain[m] \in Seq(Nodes) /\ Chain[m] # <<>> /\ Last(Chain[m]) = m
      BY <2>4, <3>1, <3>2
    <3>4. QED
      BY <2>3, <2>5, <3>3
  <2>6. CASE NextOf(m) # Null
    <3>1. Good(NextOf(m))
      BY <2>2, <2>3, <2>6
    <3>2. Chain[m] \in Seq(Nodes) /\ Chain[m] # <<>>
          /\ Last(Chain[m]) = Last(Chain[NextOf(m)])
      BY <2>3, <2>4, <3>1, LastOfLonger
    <3>3. QED
      BY <2>3, <3>1, <3>2
  <2>7. QED
    BY <2>5, <2>6
<1>7. CASE n = Null
  <2>1. <<>> \in Seq(Nodes)
    OBVIOUS
  <2>2. QED
    BY <1>5, <1>7, <2>1
<1>8. CASE n # Null
  BY <1>4, <1>6, <1>8
<1>9. QED
  BY <1>7, <1>8

-----------------------------------------------------------------------------
(* What the Handles reach, and what an allocation and an update of objects *)
(* leave as it was.                                                        *)

(* What trace() visits of an object. *)
LEMMA TraceOfFormed ==
    ASSUME NEW r \in InUse, Formed(r)
    PROVE  /\ \A p \in Trace(r) :
                 \/ p \in InUse \cup {Null}
                 \/ Lost(p) /\ object[r].class = "Pair" /\ object[r].ref.first # Stale
           /\ object[r].class = "Vector" => object[r].ref.data \in Trace(r)
           /\ object[r].class = "HashMap" => object[r].ref.table \in Trace(r)
           /\ object[r].class = "Pair" =>
                 {object[r].ref.first, object[r].ref.second} \subseteq Trace(r)
           /\ object[r].class = "Node" =>
                 {object[r].ref.key, object[r].ref.value, object[r].ref.next}
                    \subseteq Trace(r)
           /\ object[r].class = "HashMapIterator" =>
                 {object[r].ref.next, object[r].ref.hashMap} \subseteq Trace(r)
           /\ object[r].class = "Array" =>
                 \A i \in DOMAIN object[r].ref : object[r].ref[i] \in Trace(r)
<1> DEFINE ref == object[r].ref
<1>1. \A x \in DOMAIN ref : ref[x] \in Trace(r)
  BY DEF Trace, Range
<1>2. \A p \in Trace(r) : \E x \in DOMAIN ref : p = ref[x]
  BY DEF Trace, Range
<1>3. Stale \notin InUse \cup {Null}
  BY RefsAssumption DEF InUse
<1>4. CASE object[r].class \in {"String", "SizeT"}
  BY <1>2, <1>4 DEF Formed
<1>5. CASE object[r].class = "Array"
  BY <1>1, <1>2, <1>5 DEF Formed
<1>6. CASE object[r].class = "Vector"
  <2>1. ref = [data |-> ref.data] /\ ref.data \in InUse
    BY <1>6 DEF Formed, Of
  <2>2. DOMAIN ref = {"data"}
    BY <2>1
  <2>3. QED
    BY <1>1, <1>2, <1>6, <2>1, <2>2
<1>7. CASE object[r].class = "Pair"
  <2>1. /\ ref = [first |-> ref.first, second |-> ref.second]
        /\ ref.first \in InUse \cup {Null}
        /\ ref.second \in InUse \cup {Null} \/ Lost(ref.second)
    BY <1>7 DEF Formed
  <2>2. DOMAIN ref = {"first", "second"}
    BY <2>1
  <2>3. QED
    BY <1>1, <1>2, <1>3, <1>7, <2>1, <2>2
<1>8. CASE object[r].class = "HashMap"
  <2>1. ref = [table |-> ref.table] /\ ref.table \in InUse
    BY <1>8 DEF Formed, Of
  <2>2. DOMAIN ref = {"table"}
    BY <2>1
  <2>3. QED
    BY <1>1, <1>2, <1>8, <2>1, <2>2
<1>9. CASE object[r].class = "Node"
  <2>1. /\ ref = [key |-> ref.key, value |-> ref.value, next |-> ref.next]
        /\ ref.key \in InUse /\ ref.value \in InUse /\ ref.next \in InUse \cup {Null}
    BY <1>9 DEF Formed, Of, OrNull
  <2>2. DOMAIN ref = {"key", "value", "next"}
    BY <2>1
  <2>3. QED
    BY <1>1, <1>2, <1>9, <2>1, <2>2
<1>10. CASE object[r].class = "HashMapIterator"
  <2>1. /\ ref = [current |-> Null, next |-> ref.next, hashMap |-> ref.hashMap]
        /\ ref.next \in InUse \cup {Null} /\ ref.hashMap \in InUse \cup {Null}
    BY <1>10 DEF Formed, Of, OrNull
  <2>2. DOMAIN ref = {"current", "next", "hashMap"} /\ ref.current = Null
    BY <2>1
  <2>3. QED
    BY <1>1, <1>2, <1>10, <2>1, <2>2
<1>11. QED
  BY <1>4, <1>5, <1>6, <1>7, <1>8, <1>9, <1>10 DEF Formed

LEMMA TraceIsTyped ==
    ASSUME HeapInv
    PROVE  \A r \in Refs : /\ Trace(r) \subseteq Oops
                           /\ r \notin InUse => Trace(r) = {}
<1>1. ASSUME NEW r \in InUse PROVE Trace(r) \subseteq Oops
  BY TraceOfFormed DEF HeapInv, Oops, InUse, Lost
<1>2. ASSUME NEW r \in Refs \ InUse PROVE Trace(r) = {}
  <2>1. object[r] = Free
    BY <1>2 DEF InUse
  <2>2. object[r].ref = <<>>
    BY <2>1 DEF Free, Object
  <2>3. DOMAIN object[r].ref = {}
    BY <2>2
  <2>4. QED
    BY <2>3 DEF Trace, Range
<1>3. QED
  BY <1>1, <1>2

(* What the Handles reach is in use, unless the moving collector has made  *)
(* it stale.                                                               *)
LEMMA WhatIsReached ==
    ASSUME HeapInv, SlotsInv
    PROVE  /\ Reachable \subseteq InUse \cup {Stale}
           /\ Stale \in Reachable => moving
           /\ \A i \in DOMAIN slots : slots[i] \in Reachable
           /\ \A r \in Reachable \ {Stale} : Trace(r) \ {Null} \subseteq Reachable
<1> DEFINE S == Range(slots) \ {Null}
<1>1. Null \notin InUse /\ Stale \notin InUse \cup {Null} /\ InUse \subseteq Refs
  BY RefsAssumption DEF InUse
<1>2. \A i \in DOMAIN slots : slots[i] \in InUse \/ Lost(slots[i])
  BY DEF SlotsInv
<1>3. \A p \in S : p \in InUse \/ Lost(p)
  BY <1>2 DEF Range
<1>4. \A i \in DOMAIN slots : slots[i] \in S
  BY <1>1, <1>2 DEF Range, Lost
<1>5. \A r \in Refs : Trace(r) \subseteq Oops
  BY TraceIsTyped
<1>6. S \in SUBSET (Refs \cup {Stale})
  BY <1>1, <1>3 DEF Lost
<1> HIDE DEF S
<1>7. /\ S \subseteq Closure[S] /\ Closed(Closure[S])
      /\ \A T \in SUBSET (Refs \cup {Stale}) :
            S \subseteq T /\ Closed(T) => Closure[S] \subseteq T
  BY <1>5, <1>6, ClosureIsLeast
<1>8. Closure[S] \subseteq InUse \cup {Stale}
  <2>1. Closed(InUse \cup {Stale})
    BY <1>1, TraceOfFormed DEF Closed, HeapInv, Lost
  <2>2. S \subseteq InUse \cup {Stale} /\ InUse \cup {Stale} \in SUBSET (Refs \cup {Stale})
    BY <1>1, <1>3 DEF Lost
  <2>3. QED
    BY <1>7, <2>1, <2>2
<1>9. ASSUME ~moving PROVE Stale \notin Closure[S]
  <2>1. Closed(InUse)
    BY <1>1, <1>9, TraceOfFormed DEF Closed, HeapInv, Lost
  <2>2. S \subseteq InUse /\ InUse \in SUBSET (Refs \cup {Stale})
    BY <1>1, <1>3, <1>9 DEF Lost
  <2>3. QED
    BY <1>1, <1>7, <2>1, <2>2
<1>10. Reachable = Closure[S]
  BY DEF Reachable, S
<1>11. QED
  BY <1>4, <1>7, <1>8, <1>9, <1>10 DEF Closed, HeapInv

(* An object that has not changed, and whose references lead to objects of *)
(* the classes they led to. *)
LEMMA FormedStays ==
    ASSUME NEW r \in InUse, Formed(r), object'[r] = object[r], moving' = moving,
           \A p \in Trace(r) \cap InUse : p \in InUse' /\ object'[p].class = object[p].class
    PROVE  Formed(r)'
<1> DEFINE ref == object[r].ref
<1>1. ASSUME NEW p \in Trace(r), NEW class, Of(p, class) PROVE Of(p, class)'
  BY <1>1 DEF Of
<1>2. ASSUME NEW p \in Trace(r), NEW class, OrNull(p, class) PROVE OrNull(p, class)'
  BY <1>1, <1>2 DEF OrNull
<1>3. ASSUME NEW p \in Trace(r), p \in InUse \cup {Null} PROVE p \in InUse' \cup {Null}
  BY <1>3
<1>4. /\ object[r].class = "Vector" => ref.data \in Trace(r)
      /\ object[r].class = "HashMap" => ref.table \in Trace(r)
      /\ object[r].class = "Pair" => {ref.first, ref.second} \subseteq Trace(r)
      /\ object[r].class = "Node" => {ref.key, ref.value, ref.next} \subseteq Trace(r)
      /\ object[r].class = "HashMapIterator" => {ref.next, ref.hashMap} \subseteq Trace(r)
      /\ object[r].class = "Array" => \A i \in DOMAIN ref : ref[i] \in Trace(r)
  BY TraceOfFormed
<1>5. CASE object[r].class \in {"String", "SizeT"}
  BY <1>5 DEF Formed
<1>6. CASE object[r].class = "Array"
  BY <1>3, <1>4, <1>6 DEF Formed
<1>7. CASE object[r].class = "Vector"
  BY <1>1, <1>4, <1>7 DEF Formed
<1>8. CASE object[r].class = "Pair"
  BY <1>3, <1>4, <1>8 DEF Formed, Lost
<1>9. CASE object[r].class = "HashMap"
  BY <1>1, <1>4, <1>9 DEF Formed
<1>10. CASE object[r].class = "Node"
  BY <1>1, <1>2, <1>4, <1>10 DEF Formed
<1>11. CASE object[r].class = "HashMapIterator"
  BY <1>1, <1>2, <1>4, <1>11 DEF Formed
<1>12. QED
  BY <1>5, <1>6, <1>7, <1>8, <1>9, <1>10, <1>11 DEF Formed

(* kept is what a step leaves of the objects there were: with each, all it *)
(* refers to. *)
Keeps(kept) ==
    /\ kept \subseteq InUse /\ kept \subseteq InUse'
    /\ \A p \in kept : object'[p] = object[p] /\ Trace(p) \cap InUse \subseteq kept

LEMMA TableStays ==
    ASSUME NEW kept, Keeps(kept), NEW t \in kept, IsTable(t), Formed(t) PROVE IsTable(t)'
<1>1. object[t].class = "Array" /\ object'[t] = object[t] /\ t \in InUse /\ t \in InUse'
  BY DEF IsTable, Of, Keeps
<1>2. \A i \in DOMAIN object[t].ref : object[t].ref[i] \in Trace(t)
  BY <1>1, TraceOfFormed
<1>3. ASSUME NEW i \in DOMAIN object[t].ref PROVE OrNull(object[t].ref[i], "Node")'
  <2>1. OrNull(object[t].ref[i], "Node") /\ object[t].ref[i] \in Trace(t)
    BY <1>2 DEF IsTable
  <2>2. CASE object[t].ref[i] = Null
    BY <1>1, <2>2 DEF OrNull
  <2>3. CASE Of(object[t].ref[i], "Node")
    <3>1. object[t].ref[i] \in kept
      BY <2>1, <2>3 DEF Keeps, Of
    <3>2. QED
      BY <1>1, <2>3, <3>1 DEF OrNull, Of, Keeps
  <2>4. QED
    BY <2>1, <2>2, <2>3 DEF OrNull
<1>4. QED
  BY <1>1, <1>3 DEF IsTable, Of

(* raw is where a collection finds it. *)
Rooted(p) == p \in Reachable \cup {Null} \/ Lost(p)

(* An allocation keeps what the Handles reach; its object is a new one. *)
LEMMA AllocKeeps ==
    ASSUME HeapInv, SlotsInv, Rooted(raw), NEW obj, obj # Free, Alloc(obj)
    PROVE  /\ moving' = moving /\ DOMAIN object' = Refs
           /\ raw' = raw \/ Lost(raw)'
           /\ object'[oop'] = obj
           /\ \E kept : /\ Keeps(kept) /\ Reachable \ {Stale} \subseteq kept
                        /\ InUse' = kept \cup {oop'} /\ oop' \in Refs \ kept
<1>1. /\ Reachable \subseteq InUse \cup {Stale}
      /\ \A r \in Reachable \ {Stale} : Trace(r) \ {Null} \subseteq Reachable
  BY WhatIsReached
<1>2. Null \notin Refs /\ Stale \notin Refs \cup {Null} /\ Refs \subseteq Nat
      /\ InUse \subseteq Refs
  BY RefsAssumption DEF InUse, Refs
<1>3. ASSUME NEW r \in Refs, NEW kept \in SUBSET InUse, r \notin kept, Place(obj, r, kept),
             \A p \in kept : Trace(p) \cap InUse \subseteq kept
      PROVE  /\ moving' = moving /\ DOMAIN object' = Refs /\ object'[oop'] = obj
             /\ Keeps(kept) /\ InUse' = kept \cup {oop'} /\ oop' \in Refs \ kept
  <2>1. /\ oop' = r /\ moving' = moving
        /\ object' = [q \in Refs |-> IF q = r THEN obj
                                    ELSE IF q \in kept THEN object[q] ELSE Free]
    BY <1>3 DEF Place
  <2>2. \A q \in Refs : object'[q] = IF q = r THEN obj
                                     ELSE IF q \in kept THEN object[q] ELSE Free
    BY <2>1
  <2>3. \A q \in kept : q \in Refs /\ object[q] # Free
    BY DEF InUse
  <2>4. InUse' = {q \in Refs : object'[q] # Free}
    BY DEF InUse
  <2>5. InUse' = kept \cup {r}
    BY <2>2, <2>3, <2>4
  <2>6. QED
    BY <1>3, <2>1, <2>2, <2>3, <2>5 DEF Keeps
<1>4. CASE /\ InUse # Refs /\ Place(obj, Min(Refs \ InUse), InUse) /\ raw' = raw
  <2>1. Min(Refs \ InUse) \in Refs \ InUse
    BY <1>2, <1>4, MinIsLeast
  <2>2. Reachable \ {Stale} \subseteq InUse
    BY <1>1
  <2>3. \A p \in InUse : Trace(p) \cap InUse \subseteq InUse
    OBVIOUS
  <2>4. /\ moving' = moving /\ DOMAIN object' = Refs /\ object'[oop'] = obj
        /\ Keeps(InUse) /\ InUse' = InUse \cup {oop'} /\ oop' \in Refs \ InUse
    BY <1>3, <1>4, <2>1, <2>3
  <2>5. QED
    BY <1>4, <2>2, <2>4
<1>5. CASE /\ Stale \notin Reachable /\ Reachable # Refs
           /\ Place(obj, Min(Refs \ Reachable), Reachable)
           /\ raw' \in Collected(raw, Reachable)
  <2>1. Reachable \in SUBSET InUse
    BY <1>1, <1>5
  <2>2. Min(Refs \ Reachable) \in Refs \ Reachable
    BY <1>2, <1>5, <2>1, MinIsLeast
  <2>3. \A p \in Reachable : Trace(p) \cap InUse \subseteq Reachable
    BY <1>1, <1>2, <1>5
  <2>4. /\ moving' = moving /\ DOMAIN object' = Refs /\ object'[oop'] = obj
        /\ Keeps(Reachable) /\ InUse' = Reachable \cup {oop'}
        /\ oop' \in Refs \ Reachable
    BY <1>3, <1>5, <2>1, <2>2, <2>3
  <2>5. raw' = raw \/ Lost(raw)'
    BY <1>2, <1>5, <2>4 DEF Collected, Rooted, Lost
  <2>6. QED
    BY <1>5, <2>4, <2>5
<1>6. QED
  BY <1>4, <1>5 DEF Alloc

LEMMA FormedIsInUse ==
    ASSUME NEW r \in Refs, Formed(r) PROVE r \in InUse
BY DEF Formed, InUse, Free, Object

(* A chain as it was, or with one node more before its end. *)
LEMMA AcyclicStays ==
    ASSUME Acyclic, NEW n, NEW m,
           \A k \in Nodes' : \/ k \in Nodes /\ object'[k].ref.next = object[k].ref.next
                             \/ k = n /\ object'[n].ref.next = Null
                             \/ k = m /\ object'[m].ref.next = n
                                /\ object'[n].ref.next = Null
    PROVE  Acyclic'
<1> SUFFICES ASSUME NEW S \in SUBSET Nodes', S # {}
             PROVE  \E k \in S : object'[k].ref.next \notin S
  BY DEF Acyclic
<1>1. Null \notin S
  BY RefsAssumption DEF Nodes
<1>2. CASE n \in S /\ object'[n].ref.next = Null
  BY <1>1, <1>2
<1>3. CASE n \notin S /\ m \in S /\ object'[m].ref.next = n
  BY <1>3
<1>4. CASE \A k \in S : k \in Nodes /\ object'[k].ref.next = object[k].ref.next
  <2>1. PICK k \in S : object[k].ref.next \notin S
    BY <1>4 DEF Acyclic
  <2>2. QED
    BY <1>4, <2>1
<1>5. QED
  BY <1>2, <1>3, <1>4

LEMMA HeapAfterAlloc ==
    ASSUME HeapInv, moving' = moving, DOMAIN object' = Refs,
           NEW kept, Keeps(kept), InUse' = kept \cup {oop'}, oop' \in Refs \ kept,
           Formed(oop)',
           Of(oop, "HashMap")' =>
              /\ IsTable(object[oop].ref.table)'
              /\ object'[oop'].ref.table \notin InVectors,
           Of(oop, "Vector")' => object'[oop'].ref.data \notin Tables,
           Of(oop, "Node")' => object'[oop'].ref.next = Null
    PROVE  HeapInv'
<1>1. \A r \in kept : /\ r \in InUse /\ r \in InUse' /\ object'[r] = object[r]
                      /\ Trace(r) \cap InUse \subseteq kept
  BY DEF Keeps
<1>2. ASSUME NEW r \in InUse' PROVE Formed(r)'
  <2>1. CASE r = oop'
    BY <2>1
  <2>2. CASE r \in kept
    BY <1>1, <2>2, FormedStays DEF HeapInv
  <2>3. QED
    BY <2>1, <2>2
<1>3. ASSUME NEW m \in kept, object[m].class = "HashMap", NEW t, t = object[m].ref.table
      PROVE  IsTable(t)' /\ t \in Tables
  <2>1. t \in Trace(m)
    BY <1>1, <1>3, TraceOfFormed DEF HeapInv
  <2>2. t \in Tables
    BY <1>1, <1>3 DEF Tables
  <2>3. IsTable(t)
    BY <2>2 DEF HeapInv
  <2>4. t \in kept /\ Formed(t)
    BY <1>1, <2>1, <2>3 DEF IsTable, Of, HeapInv
  <2>5. QED
    BY <2>2, <2>3, <2>4, TableStays
<1>4. ASSUME NEW t \in Tables' PROVE IsTable(t)'
  <2>1. PICK m \in InUse' : object'[m].class = "HashMap" /\ t = object'[m].ref.table
    BY <1>4 DEF Tables
  <2>2. CASE m = oop'
    BY <2>1, <2>2 DEF Of
  <2>3. CASE m \in kept
    BY <1>1, <1>3, <2>1, <2>3
  <2>4. QED
    BY <2>1, <2>2, <2>3
<1>5. ASSUME NEW t \in Tables', t \in InVectors' PROVE FALSE
  <2>1. PICK m \in InUse' : object'[m].class = "HashMap" /\ t = object'[m].ref.table
    BY <1>4 DEF Tables
  <2>2. PICK v \in InUse' : object'[v].class = "Vector" /\ t = object'[v].ref.data
    BY <1>5 DEF InVectors
  <2>3. v \in kept => t \in InVectors
    BY <1>1, <2>2 DEF InVectors
  <2>4. m \in kept => t \in Tables
    BY <1>1, <1>3, <2>1
  <2>5. m = oop' => t \notin InVectors
    BY <2>1 DEF Of
  <2>6. v = oop' => t \notin Tables
    BY <2>2 DEF Of
  <2>7. ~(m = oop' /\ v = oop')
    BY <2>1, <2>2
  <2>8. t \notin Tables \/ t \notin InVectors
    BY DEF HeapInv
  <2>9. QED
    BY <2>3, <2>4, <2>5, <2>6, <2>7, <2>8
<1>6. Acyclic'
  <2>1. ASSUME NEW k \in Nodes'
        PROVE  \/ k \in Nodes /\ object'[k].ref.next = object[k].ref.next
               \/ k = oop' /\ object'[oop'].ref.next = Null
    <3>1. k \in Refs /\ object'[k].class = "Node"
      BY DEF Nodes
    <3>2. k \in InUse'
      BY <3>1 DEF InUse, Free, Object
    <3>3. CASE k = oop'
      BY <3>1, <3>2, <3>3 DEF Of
    <3>4. CASE k \in kept
      BY <1>1, <3>1, <3>4 DEF Nodes
    <3>5. QED
      BY <3>2, <3>3, <3>4
  <2>2. Acyclic
    BY DEF HeapInv
  <2>3. QED
    BY <2>1, <2>2, AcyclicStays
<1>7. moving' \in BOOLEAN
  BY DEF HeapInv
<1>8. QED
  BY <1>2, <1>4, <1>5, <1>6, <1>7 DEF HeapInv

(* Objects change, but none comes, goes or changes its class. *)
LEMMA HeapAfterUpdate ==
    ASSUME HeapInv, moving' = moving, DOMAIN object' = Refs,
           NEW X \in SUBSET InUse, \A r \in Refs \ X : object'[r] = object[r],
           \A r \in X :
              /\ object'[r].class = object[r].class
              /\ object[r].class = "HashMap" =>
                    object'[r].ref.table = object[r].ref.table
              /\ object[r].class = "Vector" => object'[r].ref.data \notin Tables
              /\ InUse' = InUse => Formed(r)'
              /\ r \in Tables /\ InUse' = InUse => IsTable(r)',
           \A r \in X : object'[r] # Free,
           Acyclic'
    PROVE  HeapInv' /\ InUse' = InUse /\ Tables' = Tables
<1>1. InUse \subseteq Refs /\ \A r \in InUse : object[r] # Free
  BY DEF InUse
<1>2. InUse' = InUse
  <2>1. \A r \in Refs : object'[r] # Free <=> object[r] # Free
    BY <1>1
  <2>2. QED
    BY <2>1 DEF InUse
<1>3. \A r \in Refs : object'[r].class = object[r].class
  OBVIOUS
<1>4. ASSUME NEW r \in InUse PROVE Formed(r)'
  <2>1. CASE r \in X
    BY <1>2, <2>1
  <2>2. CASE r \notin X
    BY <1>1, <1>2, <1>3, <2>2, FormedStays DEF HeapInv
  <2>3. QED
    BY <2>1, <2>2
<1>5. Tables' = Tables
  <2>1. \A m \in InUse : object[m].class = "HashMap" =>
                            object'[m].ref.table = object[m].ref.table
    BY <1>1
  <2>2. {r \in InUse' : object'[r].class = "HashMap"} =
        {r \in InUse : object[r].class = "HashMap"}
    BY <1>1, <1>2, <1>3
  <2>3. QED
    BY <2>1, <2>2 DEF Tables
<1>6. ASSUME NEW t \in Tables PROVE IsTable(t)'
  <2>1. IsTable(t) /\ t \in InUse
    BY DEF HeapInv, IsTable, Of
  <2>2. CASE t \in X
    BY <1>2, <2>2
  <2>3. CASE t \notin X
    <3>1. object'[t] = object[t] /\ Of(t, "Array")'
      BY <1>1, <1>2, <2>1, <2>3 DEF IsTable, Of
    <3>2. ASSUME NEW i \in DOMAIN object[t].ref PROVE OrNull(object[t].ref[i], "Node")'
      <4>1. OrNull(object[t].ref[i], "Node")
        BY <2>1 DEF IsTable
      <4>2. QED
        BY <1>1, <1>2, <1>3, <3>1, <4>1 DEF OrNull, Of
    <3>3. QED
      BY <2>1, <3>1, <3>2 DEF IsTable
  <2>4. QED
    BY <2>2, <2>3
<1>7. ASSUME NEW v \in InUse, object[v].class = "Vector"
      PROVE  object'[v].ref.data \notin Tables
  <2>1. CASE v \in X
    BY <1>7, <2>1
  <2>2. CASE v \notin X
    <3>1. object[v].ref.data \in InVectors
      BY <1>7 DEF InVectors
    <3>2. QED
      BY <1>1, <2>2, <3>1 DEF HeapInv
  <2>3. QED
    BY <2>1, <2>2
<1>8. Tables' \cap InVectors' = {}
  <2>1. ASSUME NEW t \in InVectors' PROVE t \notin Tables
    <3>1. PICK v \in InUse' : object'[v].class = "Vector" /\ t = object'[v].ref.data
      BY <2>1 DEF InVectors
    <3>2. QED
      BY <1>1, <1>2, <1>3, <1>7, <3>1
  <2>2. QED
    BY <1>5, <2>1
<1>9. moving' \in BOOLEAN
  BY DEF HeapInv
<1>10. QED
  BY <1>2, <1>4, <1>5, <1>6, <1>8, <1>9 DEF HeapInv

-----------------------------------------------------------------------------
(* What a step does to what the Handles lead to. *)

Stays(p) ==
    /\ p \in InUse' /\ object'[p].class = object[p].class
    /\ IsA(p, "HashMapIterator") => object'[p].ref.hashMap # Null

SlotsStay == \A i \in DOMAIN slots : slots[i] \in InUse => Stays(slots[i])

LEMMA IsAStays ==
    ASSUME NEW p, Stays(p), NEW class, IsA(p, class) PROVE IsA(p, class)'
BY DEF Stays, IsA, Of

LEMMA FrameHasNames ==
    ASSUME NEW l \in Places \ {"undefined"}
    PROVE  Frame(l).names \subseteq Handles
BY DEF Frame, FrameOf, Places, Allocations, Handles, InParse, InCount, InLoop, InPush

(* A Handle in scope has a slot. *)
LEMMA NamesHaveSlots ==
    ASSUME StackInv, pc # "undefined"
    PROVE  \A h \in Frame(pc).names : h \in Handles /\ Slot[h] \in DOMAIN slots
                                      /\ handle[h][2] = Slot[h]
<1> SUFFICES ASSUME NEW h \in Frame(pc).names
             PROVE  h \in Handles /\ Slot[h] \in DOMAIN slots /\ handle[h][2] = Slot[h]
  OBVIOUS
<1>1. h \in Handles
  BY FrameHasNames DEF StackInv
<1>2. InSlot(h)
  BY DEF StackInv, InFrame
<1>3. handle[h] # None
  BY <1>2 DEF InSlot, None
<1>4. handle[h] \in (1 .. base) \X DOMAIN slots
  BY <1>1, <1>3 DEF StackInv, StackTypeOK
<1>5. QED
  BY <1>1, <1>2, <1>4 DEF InSlot

LEMMA HandlesKept ==
    ASSUME StackInv, ObjectsInv, pc # "undefined", SlotsStay, moving' = moving,
           UNCHANGED <<slots, handle>>, NEW names, names \subseteq Frame(pc).names
    PROVE  SlotsInv' /\ \A h \in names : Leads(h)'
<1>1. SlotsInv'
  BY DEF ObjectsInv, SlotsInv, SlotsStay, Stays, Lost
<1>2. ASSUME NEW h \in names PROVE Leads(h)'
  <2>1. Slot[h] \in DOMAIN slots /\ Leads(h)
    BY NamesHaveSlots DEF ObjectsInv, PlaceInv
  <2>2. CASE h = "second"
    BY <2>2 DEF Leads
  <2>3. CASE h # "second"
    <3>1. PICK p : p = slots[Slot[h]]
      OBVIOUS
    <3>2. IsA(p, ClassOf[h]) /\ Stays(p)
      BY <2>1, <2>3, <3>1 DEF Leads, IsA, Of, SlotsStay
    <3>3. IsA(p, ClassOf[h])'
      BY <3>2, IsAStays
    <3>4. QED
      BY <3>1, <3>3 DEF Leads
  <2>4. QED
    BY <2>2, <2>3
<1>3. QED
  BY <1>1, <1>2

LEMMA HandlesLeft ==
    ASSUME StackInv, StackInv', ObjectsInv, pc # "undefined", pc' # "undefined",
           SlotsStay, moving' = moving, NEW k, k = Last(marks), k \in 0 .. Len(slots),
           Leave, Frame(pc').names \subseteq Frame(pc).names
    PROVE  SlotsInv' /\ \A h \in Frame(pc').names : Leads(h)'
<1>1. slots \in Seq(Range(slots))
  BY DEF StackInv, StackTypeOK
<1>2. /\ slots' = SubSeq(slots, 1, k)
      /\ handle' = [h \in Handles |-> IF handle[h][2] > k THEN None ELSE handle[h]]
  BY DEF Leave, StackInv, StackTypeOK
<1>3. /\ DOMAIN slots' = 1 .. k /\ 1 .. k \subseteq DOMAIN slots
      /\ \A i \in 1 .. k : slots'[i] = slots[i]
  BY <1>1, <1>2
<1>4. SlotsInv'
  <2>1. ASSUME NEW i \in 1 .. k
        PROVE  slots[i] \in InUse' \/ (Lost(slots[i])' /\ handle'["second"][2] = i)
    <3>1. slots'[i] = slots[i]
      BY <1>3
    <3>2. CASE slots[i] \in InUse
      BY <1>3, <3>2 DEF SlotsStay, Stays
    <3>3. CASE Lost(slots[i]) /\ handle["second"][2] = i
      BY <1>2, <3>1, <3>3 DEF Handles, Lost
    <3>4. QED
      BY <1>3, <3>2, <3>3 DEF ObjectsInv, SlotsInv
  <2>2. QED
    BY <1>3, <2>1 DEF SlotsInv, Lost
<1>5. ASSUME NEW h \in Frame(pc').names PROVE Leads(h)'
  <2>1. Slot[h] \in 1 .. k /\ Slot[h] \in DOMAIN slots /\ Leads(h)
    <3>1. Leads(h)
      BY DEF ObjectsInv, PlaceInv
    <3>2. Slot[h] \in DOMAIN slots'
      <4>1. InSlot(h)' /\ h \in Handles
        BY FrameHasNames DEF StackInv, InFrame
      <4>2. handle'[h] # None
        BY <4>1 DEF InSlot, None
      <4>3. handle'[h] \in (1 .. base') \X DOMAIN slots'
        BY <4>1, <4>2 DEF StackInv, StackTypeOK
      <4>4. QED
        BY <4>1, <4>3 DEF InSlot
    <3>3. QED
      BY <1>3, <3>1, <3>2
  <2>2. CASE h = "second"
    BY <2>2 DEF Leads
  <2>3. CASE h # "second"
    <3>1. PICK p : p = slots[Slot[h]]
      OBVIOUS
    <3>2. IsA(p, ClassOf[h]) /\ Stays(p) /\ slots'[Slot[h]] = p
      BY <1>3, <2>1, <2>3, <3>1 DEF Leads, IsA, Of, SlotsStay
    <3>3. IsA(p, ClassOf[h])'
      BY <3>2, IsAStays
    <3>4. QED
      BY <3>2, <3>3 DEF Leads
  <2>4. QED
    BY <2>2, <2>3
<1>6. QED
  BY <1>4, <1>5

LEMMA HandlePushed ==
    ASSUME StackInv, ObjectsInv, pc # "undefined", SlotsStay, moving' = moving,
           NEW h \in Handles, NEW p, Push(h, p), Slot[h] = Len(slots) + 1,
           \/ h # "second" /\ IsA(p, ClassOf[h])'
           \/ /\ h = "second" /\ (p \in InUse' \/ Lost(p))
              /\ \A i \in DOMAIN slots : slots[i] \in InUse,
           NEW names, names \subseteq Frame(pc).names \cup {h}
    PROVE  SlotsInv' /\ \A g \in names : Leads(g)'
<1>1. slots \in Seq(Range(slots)) /\ DOMAIN handle = Handles
  BY DEF StackInv, StackTypeOK
<1>2. PICK n \in Nat : n = Len(slots)
  BY <1>1
<1>3. /\ slots' = Append(slots, p)
      /\ handle' = [handle EXCEPT ![h] = <<base', n + 1>>]
  BY <1>2 DEF Push
<1>4. /\ DOMAIN slots = 1 .. n /\ DOMAIN slots' = 1 .. n + 1
      /\ \A i \in 1 .. n : slots'[i] = slots[i]
      /\ slots'[n + 1] = p
  BY <1>1, <1>2, <1>3
<1>5. handle'[h][2] = n + 1
  BY <1>1, <1>3
<1>6. p \in InUse' \/ (Lost(p)' /\ h = "second")
  <2>1. CASE h # "second" /\ IsA(p, ClassOf[h])'
    BY <2>1 DEF IsA, Of
  <2>2. CASE h = "second" /\ (p \in InUse' \/ Lost(p))
    BY <2>2 DEF Lost
  <2>3. QED
    BY <2>1, <2>2
<1>7. ASSUME NEW i \in 1 .. n
      PROVE  slots[i] \in InUse' \/ (Lost(slots[i])' /\ handle'["second"][2] = i)
  <2>1. CASE slots[i] \in InUse
    BY <1>4, <2>1 DEF SlotsStay, Stays
  <2>2. CASE h # "second"
    <3>1. handle'["second"] = handle["second"]
      BY <1>1, <1>3, <2>2
    <3>2. QED
      BY <1>4, <2>1, <2>2, <3>1 DEF ObjectsInv, SlotsInv, Lost
  <2>3. QED
    BY <1>4, <2>1, <2>2
<1>8. SlotsInv'
  <2>1. ASSUME NEW i \in 1 .. n + 1
        PROVE  slots'[i] \in InUse' \/ (Lost(slots[i])' /\ handle'["second"][2] = i)
    <3>1. CASE i = n + 1
      BY <1>4, <1>5, <1>6, <3>1 DEF Lost
    <3>2. CASE i \in 1 .. n
      BY <1>4, <1>7, <3>2 DEF Lost
    <3>3. QED
      BY <1>2, <3>1, <3>2
  <2>2. QED
    BY <1>4, <2>1 DEF SlotsInv, Lost
<1>9. ASSUME NEW g \in names PROVE Leads(g)'
  <2>1. CASE g = "second"
    BY <2>1 DEF Leads
  <2>2. CASE g = h /\ h # "second"
    <3>1. IsA(p, ClassOf[h])'
      BY <2>2
    <3>2. Slot[h] = n + 1 /\ slots'[Slot[h]] = p
      BY <1>2, <1>4
    <3>3. IsA(slots[Slot[h]], ClassOf[h])'
      BY <3>1, <3>2
    <3>4. QED
      BY <2>2, <3>3 DEF Leads
  <2>3. CASE g \in Frame(pc).names /\ g # "second"
    <3>1. Slot[g] \in 1 .. n /\ Leads(g)
      BY <1>4, <2>3, NamesHaveSlots DEF ObjectsInv, PlaceInv
    <3>2. PICK q : q = slots[Slot[g]]
      OBVIOUS
    <3>3. IsA(q, ClassOf[g]) /\ Stays(q) /\ slots'[Slot[g]] = q
      BY <1>4, <2>3, <3>1, <3>2 DEF Leads, IsA, Of, SlotsStay
    <3>4. IsA(q, ClassOf[g])'
      BY <3>3, IsAStays
    <3>5. QED
      BY <3>3, <3>4 DEF Leads
  <2>4. QED
    BY <2>1, <2>2, <2>3
<1>10. QED
  BY <1>8, <1>9

-----------------------------------------------------------------------------
(* A step of the program, put together. *)

(* What the Handles in scope read. *)
LEMMA ReadsAre ==
    ASSUME StackInv, ObjectsInv, pc # "undefined"
    PROVE  \A h \in Frame(pc).names :
              /\ Slot[h] \in DOMAIN slots /\ Read(h) = slots[Slot[h]]
              /\ h # "second" => IsA(Read(h), ClassOf[h])
<1> SUFFICES ASSUME NEW h \in Frame(pc).names
             PROVE  /\ Slot[h] \in DOMAIN slots /\ Read(h) = slots[Slot[h]]
                    /\ h # "second" => IsA(Read(h), ClassOf[h])
  OBVIOUS
<1>1. Slot[h] \in DOMAIN slots /\ Read(h) = slots[Slot[h]]
  BY NamesHaveSlots DEF Read
<1>2. Leads(h)
  BY DEF ObjectsInv, PlaceInv
<1>3. QED
  BY <1>1, <1>2 DEF Leads

LEMMA SameHeap ==
    ASSUME HeapInv, UNCHANGED <<moving, object>>
    PROVE  /\ HeapInv' /\ SlotsStay
           /\ InUse' = InUse /\ Tables' = Tables /\ InVectors' = InVectors
<1>1. InUse' = InUse /\ Nodes' = Nodes
  BY DEF InUse, Nodes
<1>2. Tables' = Tables /\ InVectors' = InVectors
  BY <1>1 DEF Tables, InVectors
<1>3. SlotsStay
  BY <1>1 DEF SlotsStay, Stays, IsA
<1>4. \A r \in InUse : Formed(r)'
  BY <1>1, FormedStays DEF HeapInv
<1>5. \A t \in Tables : IsTable(t)'
  BY <1>1 DEF HeapInv, IsTable, Of, OrNull
<1>6. QED
  BY <1>1, <1>2, <1>3, <1>4, <1>5 DEF HeapInv, Acyclic

(* The program comes to next, with what it has to find there but for the   *)
(* Handles.                                                                *)
Arrives(next) ==
    /\ pc' = next /\ next \in Places \ {"undefined"}
    /\ UNCHANGED inputVars /\ pos' \in 0 .. Len(text)
    /\ HeapInv' /\ SlotsStay /\ UNCHANGED moving
    /\ oop' \in InUse' \cup {Null}
    /\ raw' \in InUse' \cup {Null} \/ Lost(raw)'
    /\ OopAt(next)' /\ SlotsAt(next)'
    /\ raw' \in RawFrom(next)' \/ Lost(raw)'
    /\ next \in Fresh => raw' # Stale

LEMMA Arrived ==
    ASSUME ObjectsInv, NEW next, Arrives(next), SlotsInv',
           \A h \in Frame(next).names : Leads(h)'
    PROVE  ObjectsInv'
<1>1. InputInv'
  BY DEF Arrives, ObjectsInv, InputInv, inputVars
<1>2. PlaceInv(pc)'
  BY DEF Arrives, PlaceInv
<1>3. QED
  BY <1>1, <1>2 DEF Arrives, ObjectsInv

LEMMA KeepObjects ==
    ASSUME StackInv, ObjectsInv, pc # "undefined", NEW next, Arrives(next),
           UNCHANGED <<slots, handle>>, Frame(next).names \subseteq Frame(pc).names
    PROVE  ObjectsInv'
<1>1. SlotsStay /\ moving' = moving
  BY DEF Arrives
<1>2. SlotsInv' /\ \A h \in Frame(next).names : Leads(h)'
  BY <1>1, HandlesKept
<1>3. QED
  BY <1>2, Arrived

LEMMA LeaveObjects ==
    ASSUME StackInv, StackInv', ObjectsInv, pc # "undefined", NEW next, Arrives(next),
           Leave, Last(marks) \in 0 .. Len(slots),
           Frame(next).names \subseteq Frame(pc).names
    PROVE  ObjectsInv'
<1>1. SlotsStay /\ moving' = moving /\ pc' = next /\ pc' # "undefined"
  BY DEF Arrives
<1>2. PICK k : k = Last(marks)
  OBVIOUS
<1>3. SlotsInv' /\ \A h \in Frame(next).names : Leads(h)'
  BY <1>1, <1>2, HandlesLeft
<1>4. QED
  BY <1>3, Arrived

LEMMA PushObjects ==
    ASSUME StackInv, ObjectsInv, pc # "undefined", NEW next, Arrives(next),
           NEW h \in Handles, NEW p, Push(h, p), Slot[h] = Len(slots) + 1,
           \/ h # "second" /\ IsA(p, ClassOf[h])'
           \/ /\ h = "second" /\ (p \in InUse' \/ Lost(p))
              /\ \A i \in DOMAIN slots : slots[i] \in InUse,
           Frame(next).names \subseteq Frame(pc).names \cup {h}
    PROVE  ObjectsInv'
<1>1. SlotsStay /\ moving' = moving
  BY DEF Arrives
<1>2. SlotsInv' /\ \A g \in Frame(next).names : Leads(g)'
  BY <1>1, HandlePushed
<1>3. QED
  BY <1>2, Arrived

(* How deep the stack is. *)
LEMMA DepthIs ==
    ASSUME StackInv, pc # "undefined"
    PROVE  /\ Len(slots) \in Frame(pc).used /\ marks = Frame(pc).saved
           /\ Len(slots) \in Nat /\ DOMAIN slots = 1 .. Len(slots)
<1>1. slots \in Seq(Range(slots))
  BY DEF StackInv, StackTypeOK
<1>2. Len(slots) \in Nat /\ DOMAIN slots = 1 .. Len(slots)
  BY <1>1
<1>3. QED
  BY <1>2 DEF StackInv, InFrame

(* Where a push or a truncation of the stack leaves the slots it keeps. *)
LEMMA SlotsKept ==
    ASSUME StackInv, pc # "undefined"
    PROVE  /\ \A h, p : Push(h, p) =>
                 /\ slots'[Len(slots) + 1] = p
                 /\ \A i \in 1 .. Len(slots) : slots'[i] = slots[i]
           /\ Leave /\ Last(marks) \in 0 .. Len(slots) =>
                 \A i \in 1 .. Last(marks) : slots'[i] = slots[i]
<1>1. slots \in Seq(Range(slots))
  BY DEF StackInv, StackTypeOK
<1>2. ASSUME NEW h, NEW p, Push(h, p)
      PROVE  /\ slots'[Len(slots) + 1] = p
             /\ \A i \in 1 .. Len(slots) : slots'[i] = slots[i]
  BY <1>1, <1>2 DEF Push
<1>3. ASSUME Leave, NEW k \in 0 .. Len(slots), k = Last(marks)
      PROVE  \A i \in 1 .. k : slots'[i] = slots[i]
  <2>1. slots' = SubSeq(slots, 1, k)
    BY <1>3 DEF Leave
  <2>2. QED
    BY <1>1, <2>1
<1>4. QED
  BY <1>2, <1>3

(* What raw_alloc leaves of the heap. *)
LEMMA AfterAlloc ==
    ASSUME HeapInv, SlotsInv, Rooted(raw), NEW obj, obj # Free, Alloc(obj)
    PROVE  /\ UNCHANGED moving /\ SlotsStay
           /\ oop' \in InUse' /\ object'[oop'] = obj
           /\ raw' = raw \/ Lost(raw)'
           /\ raw' \in InUse' \cup {Null} \/ Lost(raw)'
           /\ \A i \in DOMAIN slots : slots[i] \in InUse =>
                 slots[i] \in InUse' /\ object'[slots[i]] = object[slots[i]]
           /\ /\ Formed(oop)'
              /\ obj.class = "HashMap" =>
                    IsTable(object[oop].ref.table)' /\ obj.ref.table \notin InVectors
              /\ obj.class = "Vector" => obj.ref.data \notin Tables
              /\ obj.class = "Node" => obj.ref.next = Null
              => HeapInv'
           /\ obj.class = "Array" => oop' \notin Tables' \cup InVectors'
           /\ \A r \in InUse' \ {oop'} : oop' \notin Trace(r)'
<1>1. /\ moving' = moving /\ DOMAIN object' = Refs
      /\ raw' = raw \/ Lost(raw)'
      /\ object'[oop'] = obj
      /\ \E kept : /\ Keeps(kept) /\ Reachable \ {Stale} \subseteq kept
                   /\ InUse' = kept \cup {oop'} /\ oop' \in Refs \ kept
  BY AllocKeeps
<1>2. PICK kept : /\ Keeps(kept) /\ Reachable \ {Stale} \subseteq kept
                  /\ InUse' = kept \cup {oop'} /\ oop' \in Refs \ kept
  BY <1>1
<1>3. \A r \in kept : /\ r \in InUse /\ r \in InUse' /\ object'[r] = object[r]
                      /\ Trace(r) \cap InUse \subseteq kept
  BY <1>2 DEF Keeps
<1>4. Stale \notin InUse
  BY RefsAssumption DEF InUse
<1>5. \A i \in DOMAIN slots : slots[i] \in InUse =>
         slots[i] \in kept /\ slots[i] \in InUse' /\ object'[slots[i]] = object[slots[i]]
  BY <1>2, <1>3, <1>4, WhatIsReached
<1>6. SlotsStay
  BY <1>5 DEF SlotsStay, Stays, IsA
<1>7. raw' \in InUse' \cup {Null} \/ Lost(raw)'
  <2>1. CASE Lost(raw)'
    BY <2>1
  <2>2. CASE raw' = raw /\ Lost(raw)
    BY <1>1, <2>2 DEF Lost
  <2>3. CASE raw' = raw /\ raw = Stale /\ raw \in Reachable
    BY <1>1, <2>3, WhatIsReached DEF Lost
  <2>4. CASE raw' = raw /\ raw # Stale /\ raw \in Reachable
    BY <1>2, <2>4
  <2>5. CASE raw' = raw /\ raw = Null
    BY <2>5
  <2>6. QED
    BY <1>1, <2>1, <2>2, <2>3, <2>4, <2>5 DEF Rooted
<1>8. ASSUME /\ Formed(oop)'
             /\ obj.class = "HashMap" =>
                   IsTable(object[oop].ref.table)' /\ obj.ref.table \notin InVectors
             /\ obj.class = "Vector" => obj.ref.data \notin Tables
             /\ obj.class = "Node" => obj.ref.next = Null
      PROVE  HeapInv'
  <2>1. /\ Of(oop, "HashMap")' => IsTable(object[oop].ref.table)'
                                  /\ object'[oop'].ref.table \notin InVectors
        /\ Of(oop, "Vector")' => object'[oop'].ref.data \notin Tables
        /\ Of(oop, "Node")' => object'[oop'].ref.next = Null
    BY <1>1, <1>8 DEF Of
  <2>2. QED
    BY <1>1, <1>2, <1>8, <2>1, HeapAfterAlloc
<1>9. ASSUME obj.class = "Array" PROVE oop' \notin Tables' \cup InVectors'
  <2>1. ASSUME NEW m \in InUse', object'[m].class = "HashMap"
        PROVE  object'[m].ref.table # oop'
    <3>1. m \in kept
      BY <1>1, <1>2, <1>9, <2>1
    <3>2. object[m].class = "HashMap" /\ Formed(m) /\ m \in InUse
      BY <1>3, <2>1, <3>1 DEF HeapInv
    <3>3. object[m].ref.table \in Trace(m)
      BY <3>2, TraceOfFormed
    <3>4. object[m].ref.table \in InUse
      BY <3>2 DEF Formed, Of
    <3>5. QED
      BY <1>2, <1>3, <3>1, <3>3, <3>4
  <2>2. ASSUME NEW v \in InUse', object'[v].class = "Vector"
        PROVE  object'[v].ref.data # oop'
    <3>1. v \in kept
      BY <1>1, <1>2, <1>9, <2>2
    <3>2. object[v].class = "Vector" /\ Formed(v) /\ v \in InUse
      BY <1>3, <2>2, <3>1 DEF HeapInv
    <3>3. object[v].ref.data \in Trace(v)
      BY <3>2, TraceOfFormed
    <3>4. object[v].ref.data \in InUse
      BY <3>2 DEF Formed, Of
    <3>5. QED
      BY <1>2, <1>3, <3>1, <3>3, <3>4
  <2>3. QED
    BY <2>1, <2>2 DEF Tables, InVectors
<1>10. ASSUME NEW r \in InUse' \ {oop'} PROVE oop' \notin Trace(r)'
  <2>1. r \in kept /\ Trace(r)' = Trace(r)
    BY <1>2, <1>3 DEF Trace
  <2>2. \A p \in Trace(r) : p \in InUse \cup {Null} \/ Lost(p)
    BY <1>3, <2>1, TraceOfFormed DEF HeapInv
  <2>3. oop' \in Refs /\ Refs \cap {Null, Stale} = {}
    BY <1>2, RefsAssumption
  <2>4. oop' \in Trace(r) => oop' \in kept
    BY <1>3, <2>1, <2>2, <2>3 DEF Lost
  <2>5. QED
    BY <1>2, <2>1, <2>4
<1>11. QED
  BY <1>1, <1>2, <1>5, <1>6, <1>7, <1>8, <1>9, <1>10

(* raw is rooted where the program allocates. *)
LEMMA RawIsRooted ==
    ASSUME HeapInv, SlotsInv, NEW n \in DOMAIN slots, 
           raw \in {Null, slots[n]} \/ Lost(raw)
    PROVE  Rooted(raw)
BY WhatIsReached DEF Rooted

(* The objects that the constructors make. *)
LEMMA NewObjects ==
    ASSUME oop' \in InUse'
    PROVE  /\ \A n \in Nat : object'[oop'] = Array(n) => Formed(oop)'
           /\ \A w \in Words : object'[oop'] = String(w) => Formed(oop)'
           /\ \A n : object'[oop'] = SizeT(n) => Formed(oop)'
           /\ object'[oop'] = Pair(Null, Null) => Formed(oop)'
           /\ object'[oop'] = HashMapIterator(Null) => Formed(oop)'
<1>1. ASSUME NEW n \in Nat, object'[oop'] = Array(n) PROVE Formed(oop)'
  BY <1>1 DEF Formed, Array, Object
<1>2. ASSUME NEW w \in Words, object'[oop'] = String(w) PROVE Formed(oop)'
  BY <1>2 DEF Formed, String, Object
<1>3. ASSUME NEW n, object'[oop'] = SizeT(n) PROVE Formed(oop)'
  BY <1>3 DEF Formed, SizeT, Object
<1>4. ASSUME object'[oop'] = Pair(Null, Null) PROVE Formed(oop)'
  BY <1>4 DEF Formed, Pair, Object
<1>5. ASSUME object'[oop'] = HashMapIterator(Null) PROVE Formed(oop)'
  BY <1>5 DEF Formed, HashMapIterator, Object, OrNull
<1>6. QED
  BY <1>1, <1>2, <1>3, <1>4, <1>5

-----------------------------------------------------------------------------
(* What the operations do to the objects, one after the other. *)

LEMMA HashMapMakeObjects ==
    ASSUME StackInv, StackInv', ObjectsInv, HashMapMake PROVE ObjectsInv'
<1> USE DEF Places, Allocations, Fresh
<1>1. CASE pc = "make_table" /\ pc' = "own_table" /\ Alloc(Array(ARRAY_SIZE))
           /\ UNCHANGED <<slots, handle, inputVars, pos>>
  <2>1. raw = Null \/ Lost(raw)
    BY <1>1 DEF ObjectsInv, PlaceInv, RawFrom
  <2>2. /\ UNCHANGED moving /\ SlotsStay
        /\ oop' \in InUse' /\ object'[oop'] = Array(ARRAY_SIZE)
        /\ raw' = raw \/ Lost(raw)'
        /\ HeapInv' /\ oop' \notin InVectors'
    <3>1. Array(ARRAY_SIZE).class = "Array" /\ Array(ARRAY_SIZE) # Free
      BY DEF Array, Object, Free
    <3>2. Rooted(raw)
      BY <2>1 DEF Rooted
    <3>3. QED
      BY <1>1, <3>1, <3>2, AfterAlloc, NewObjects, CountAssumption DEF ObjectsInv
  <2>3. Arrives("own_table")
    BY <1>1, <2>1, <2>2 DEF Arrives, OopAt, SlotsAt, RawFrom, ObjectsInv, InputInv, Lost
  <2>4. Frame("own_table").names = {}
    BY DEF Frame, FrameOf
  <2>5. QED
    BY <1>1, <2>3, <2>4, KeepObjects
<1>2. CASE MakeHandle("own_table", "tab", oop, "make_map") /\ UNCHANGED heapVars
           /\ UNCHANGED countVars
  <2>1. /\ oop \in InUse /\ object[oop] = Array(ARRAY_SIZE) /\ oop \notin InVectors
        /\ raw = Null \/ Lost(raw)
    BY <1>2 DEF ObjectsInv, PlaceInv, OopAt, RawFrom, MakeHandle, At
  <2>2. /\ HeapInv' /\ SlotsStay /\ InUse' = InUse /\ InVectors' = InVectors
        /\ pc = "own_table" /\ pc' = "make_map" /\ Push("tab", oop)
        /\ UNCHANGED <<moving, object, oop, raw, pos, inputVars>>
    BY <1>2, SameHeap DEF ObjectsInv, MakeHandle, At, Goto, heapVars, countVars
  <2>3. /\ Frame("own_table").used = {0} /\ Frame("own_table").names = {}
        /\ Frame("make_map").names = {"tab"}
    BY DEF Frame, FrameOf
  <2>4. Len(slots) = 0 /\ slots'[1] = oop
    BY <2>2, <2>3, DepthIs, SlotsKept
  <2>5. IsA(oop, "Array")'
    BY <2>1, <2>2 DEF IsA, Of, InUse, Array, Object, Free
  <2>6. Arrives("make_map")
    BY <2>1, <2>2, <2>4 DEF Arrives, OopAt, SlotsAt, RawFrom, ObjectsInv, InputInv, Lost
  <2>7. QED
    BY <2>2, <2>3, <2>4, <2>5, <2>6, PushObjects DEF Handles, Slot, ClassOf
<1>3. CASE pc = "make_map" /\ pc' = "own_map" /\ Alloc(HashMap(Read("tab"))) /\ Leave
           /\ UNCHANGED <<inputVars, pos>>
  <2>1. /\ Frame("make_map") = FrameOf(<<0, 0, 0>>, {1}, {"tab"})
        /\ Frame("own_map").names = {}
    BY DEF Frame, FrameOf
  <2>2. /\ Len(slots) = 1 /\ Last(marks) = 0
        /\ Read("tab") = slots[1] /\ slots[1] \in InUse
        /\ object[slots[1]] = Array(ARRAY_SIZE) /\ slots[1] \notin InVectors
        /\ raw = Null \/ Lost(raw)
    <3>1. Last(<<0, 0, 0>>) = 0
      BY SavedDepths DEF Extends
    <3>2. QED
      BY <1>3, <2>1, <3>1, DepthIs, ReadsAre
         DEF FrameOf, ObjectsInv, PlaceInv, SlotsAt, RawFrom, Slot, ClassOf, IsA, Of
  <2>3. /\ UNCHANGED moving /\ SlotsStay
        /\ oop' \in InUse' /\ object'[oop'] = HashMap(slots[1])
        /\ raw' = raw \/ Lost(raw)'
        /\ HeapInv'
    <3>1. HashMap(slots[1]).class = "HashMap" /\ HashMap(slots[1]) # Free
          /\ HashMap(slots[1]).ref.table = slots[1]
      BY DEF HashMap, Object, Free
    <3>2. Rooted(raw)
      BY <2>2 DEF Rooted
    <3>3. /\ oop' \in InUse' /\ object'[oop'] = HashMap(slots[1])
          /\ slots[1] \in InUse' /\ object'[slots[1]] = object[slots[1]]
      BY <1>3, <2>2, <3>1, <3>2, DepthIs, AfterAlloc DEF ObjectsInv
    <3>4. PICK t : t = slots[1]
      OBVIOUS
    <3>5. IsTable(t)'
      BY <2>2, <3>3, <3>4, CountAssumption DEF IsTable, Of, OrNull, Array, Object
    <3>6. Formed(oop)' /\ IsTable(object[oop].ref.table)'
      BY <3>1, <3>3, <3>4, <3>5 DEF Formed, HashMap, Object, IsTable
    <3>7. QED
      BY <1>3, <2>2, <3>1, <3>2, <3>6, AfterAlloc DEF ObjectsInv
  <2>4. Arrives("own_map")
    BY <1>3, <2>2, <2>3
       DEF Arrives, OopAt, SlotsAt, RawFrom, ObjectsInv, InputInv, Lost, Of, HashMap, Object
  <2>5. QED
    BY <1>3, <2>1, <2>2, <2>4, LeaveObjects
<1>4. QED
  BY <1>1, <1>2, <1>3
     DEF HashMapMake, New, MakeHandle, At, Goto, stackVars, heapVars, countVars

LEMMA SlotsStayIn ==
    ASSUME InUse' = InUse, \A r \in InUse : object'[r].class = object[r].class,
           \A r \in InUse : IsA(r, "HashMapIterator") => object'[r].ref.hashMap # Null
    PROVE  SlotsStay
BY DEF SlotsStay, Stays

(* An object changes of a class that makes no chain, no array and no vector. *)
LEMMA OneChanges ==
    ASSUME HeapInv, UNCHANGED moving, NEW r \in InUse, DOMAIN object' = Refs,
           \A q \in Refs \ {r} : object'[q] = object[q],
           object'[r].class = object[r].class, object'[r] # Free,
           object[r].class \in {"HashMap", "SizeT", "Pair", "HashMapIterator"},
           object[r].class = "HashMap" => object'[r].ref.table = object[r].ref.table,
           IsA(r, "HashMapIterator") => object'[r].ref.hashMap # Null,
           InUse' = InUse => Formed(r)'
    PROVE  HeapInv' /\ InUse' = InUse /\ Tables' = Tables /\ SlotsStay
<1>1. r \notin Tables
  BY DEF HeapInv, IsTable, Of
<1>2. Acyclic'
  <2>1. ASSUME NEW k \in Nodes'
        PROVE  k \in Nodes /\ object'[k].ref.next = object[k].ref.next
    BY DEF Nodes
  <2>2. QED
    BY <2>1, AcyclicStays DEF HeapInv
<1>3. PICK X : X = {r}
  OBVIOUS
<1>4. /\ X \in SUBSET InUse /\ \A q \in Refs \ X : object'[q] = object[q]
      /\ \A q \in X :
            /\ object'[q].class = object[q].class
            /\ object[q].class = "HashMap" => object'[q].ref.table = object[q].ref.table
            /\ object[q].class = "Vector" => object'[q].ref.data \notin Tables
            /\ InUse' = InUse => Formed(q)'
            /\ q \in Tables /\ InUse' = InUse => IsTable(q)'
      /\ \A q \in X : object'[q] # Free
  BY <1>1, <1>3
<1>5. HeapInv' /\ InUse' = InUse /\ Tables' = Tables
  BY <1>2, <1>4, HeapAfterUpdate
<1>6. SlotsStay
  BY <1>5, SlotsStayIn DEF IsA, Of, InUse
<1>7. QED
  BY <1>5, <1>6

(* Where a chain of a table begins. *)
LEMMA BucketHolds ==
    ASSUME HeapInv, NEW t \in Tables, NEW h \in Nat
    PROVE  /\ t \in InUse /\ object[t].class = "Array"
           /\ Bucket(t, h) \in DOMAIN object[t].ref
           /\ object[t].ref[Bucket(t, h)] \in Nodes \cup {Null}
           /\ \A m \in Nodes : m \in InUse /\ NextOf(m) \in Nodes \cup {Null}
<1>1. IsTable(t) /\ Of(t, "Array") /\ Formed(t)
  BY DEF HeapInv, IsTable, Of
<1>2. object[t].val \in Nat \ {0} /\ DOMAIN object[t].ref = 0 .. object[t].val - 1
  BY <1>1 DEF IsTable, Of, Formed
<1>3. \A v \in Nat \ {0} : h % v \in 0 .. v - 1
  OBVIOUS
<1>4. Bucket(t, h) \in DOMAIN object[t].ref
  BY <1>2, <1>3 DEF Bucket
<1>5. OrNull(object[t].ref[Bucket(t, h)], "Node")
  BY <1>1, <1>4 DEF IsTable
<1>6. ASSUME NEW m \in Nodes PROVE m \in InUse /\ NextOf(m) \in Nodes \cup {Null}
  <2>1. m \in InUse /\ object[m].class = "Node"
    BY DEF Nodes, InUse, Free, Object
  <2>2. Formed(m)
    BY <2>1 DEF HeapInv
  <2>3. OrNull(object[m].ref.next, "Node")
    BY <2>1, <2>2 DEF Formed
  <2>4. QED
    BY <2>1, <2>3 DEF OrNull, Of, Nodes, NextOf, InUse
<1>7. QED
  BY <1>1, <1>4, <1>5, <1>6 DEF OrNull, Of, Nodes, InUse

(* A new node goes to the end of a chain. *)
LEMMA Linked ==
    ASSUME HeapInv, UNCHANGED moving, NEW t \in Tables, NEW n, Link(t, n),
           Of(n, "Node"), object[n].ref.next = Null,
           \A r \in InUse \ {n} : n \notin Trace(r)
    PROVE  HeapInv' /\ InUse' = InUse /\ SlotsStay
<1>1. n \in InUse /\ object[n].class = "Node" /\ Formed(n) /\ DOMAIN object = Refs
  BY DEF Of, HeapInv
<1>2. object[n].val \in Nat
  BY <1>1 DEF Formed
<1> DEFINE b == Bucket(t, object[n].val)
           head == object[t].ref[b]
<1>3. /\ t \in InUse /\ object[t].class = "Array" /\ b \in DOMAIN object[t].ref
      /\ head \in Nodes \cup {Null}
      /\ \A m \in Nodes : m \in InUse /\ NextOf(m) \in Nodes \cup {Null}
  BY <1>2, BucketHolds
<1>4. object' = IF Chain[head] = <<>> THEN [object EXCEPT ![t].ref[b] = n]
                ELSE [object EXCEPT ![Last(Chain[head])].ref.next = n]
  <2>1. Link(t, n)
    OBVIOUS
  <2>2. QED
    BY ONLY <2>1, Zenon DEF Link
<1> HIDE DEF b, head
<1>5. InUse \subseteq Refs
  BY DEF InUse
<1>6. CASE Chain[head] = <<>>
  <2> DEFINE g == [object[t].ref EXCEPT ![b] = n]
  <2>1. /\ DOMAIN object' = Refs /\ \A r \in Refs \ {t} : object'[r] = object[r]
        /\ object'[t] = [object[t] EXCEPT !.ref = g]
    BY <1>1, <1>3, <1>4, <1>5, <1>6
  <2>2. PICK ref, val : ref = object[t].ref /\ val = object[t].val
    OBVIOUS
  <2>3. Formed(t) /\ IsTable(t)
    BY <1>3 DEF HeapInv
  <2>4. /\ object[t] = Object("Array", ref, val)
        /\ val \in Nat \ {0} /\ DOMAIN ref = 0 .. val - 1
        /\ \A i \in DOMAIN ref : OrNull(ref[i], "Node")
    BY <1>3, <2>2, <2>3 DEF Formed, IsTable
  <2>5. PICK f : f = [ref EXCEPT ![b] = n]
    OBVIOUS
  <2>6. object'[t] = Object("Array", f, val)
    <3>1. f = g
      BY <2>2, <2>5
    <3> HIDE DEF g
    <3>2. QED
      BY <2>1, <2>4, <3>1 DEF Object
  <2>7. /\ DOMAIN f = 0 .. val - 1 /\ f = [i \in DOMAIN f |-> f[i]]
        /\ \A i \in DOMAIN f : f[i] = n \/ f[i] = ref[i]
    BY <2>4, <2>5
  <2>8. /\ object'[t].class = "Array" /\ object'[t].ref = f /\ object'[t].val = val
        /\ object'[t] # Free
    BY <2>6 DEF Object, Free
  <2>9. \A r \in Refs : object'[r].class = object[r].class
    BY <1>3, <2>1, <2>8
  <2>10. ASSUME InUse' = InUse PROVE Formed(t)' /\ IsTable(t)'
    <3>1. ASSUME NEW i \in DOMAIN f PROVE OrNull(f[i], "Node")'
      <4>1. OrNull(f[i], "Node")
        BY <1>1, <2>4, <2>7 DEF OrNull, Of
      <4>2. QED
        BY <1>5, <2>9, <2>10, <4>1 DEF OrNull, Of
    <3>2. Formed(t)'
      BY <2>4, <2>6, <2>7, <2>8, <3>1 DEF Formed, OrNull, Of
    <3>3. QED
      BY <1>3, <2>4, <2>7, <2>8, <2>10, <3>1, <3>2 DEF IsTable, Of
  <2>11. Acyclic'
    <3>1. ASSUME NEW k \in Nodes'
          PROVE  k \in Nodes /\ object'[k].ref.next = object[k].ref.next
      BY <2>1, <2>8 DEF Nodes
    <3>2. QED
      BY <3>1, AcyclicStays DEF HeapInv
  <2>12. PICK X : X = {t}
    OBVIOUS
  <2>13. /\ X \in SUBSET InUse /\ \A r \in Refs \ X : object'[r] = object[r]
         /\ \A r \in X :
               /\ object'[r].class = object[r].class
               /\ object[r].class = "HashMap" =>
                     object'[r].ref.table = object[r].ref.table
               /\ object[r].class = "Vector" => object'[r].ref.data \notin Tables
               /\ InUse' = InUse => Formed(r)'
               /\ r \in Tables /\ InUse' = InUse => IsTable(r)'
         /\ \A r \in X : object'[r] # Free
    <3>1. t \in X /\ X \subseteq {t} /\ X \in SUBSET InUse
          /\ object[t].class # "HashMap" /\ object[t].class # "Vector"
      BY <1>3, <2>12
    <3>2. InUse' = InUse => Formed(t)' /\ IsTable(t)'
      BY <2>10
    <3>3. \A r \in X : r = t
      BY <3>1
    <3>4. QED
      BY <2>1, <2>8, <2>9, <1>3, <1>5, <3>1, <3>2, <3>3
  <2>14. HeapInv' /\ InUse' = InUse
    BY <2>1, <2>11, <2>13, HeapAfterUpdate
  <2>15. SlotsStay
    BY <1>3, <1>5, <2>1, <2>9, <2>14, SlotsStayIn DEF IsA, Of
  <2>16. QED
    BY <2>14, <2>15
<1>7. CASE Chain[head] # <<>>
  <2> DEFINE l == Last(Chain[head])
  <2>1. /\ l \in Nodes /\ NextOf(l) = Null
        /\ l = head \/ \E m \in Nodes : l = NextOf(m)
    <3>1. Acyclic
      BY DEF HeapInv
    <3>2. head # Null
      BY <1>3, <1>7, <3>1, ChainHasEnd
    <3>3. /\ Chain[head] \in Seq(Nodes) /\ NextOf(l) = Null
          /\ l = head \/ \E m \in Nodes : l = NextOf(m)
      BY <1>3, <3>1, <3>2, ChainHasEnd
    <3>4. \A s \in Seq(Nodes) : s # <<>> => Last(s) \in Nodes
      BY DEF Last
    <3>5. QED
      BY <1>7, <3>3, <3>4
  <2>2. object' = [object EXCEPT ![l].ref.next = n]
    BY <1>4, <1>7
  <2> HIDE DEF l
  <2>3. PICK m : m = l
    OBVIOUS
  <2>4. l \in InUse /\ l \in Refs /\ object[l].class = "Node" /\ Formed(l)
    BY <1>3, <2>1 DEF Nodes, HeapInv
  <2>5. l # n
    <3>1. ASSUME NEW p \in Nodes, l = NextOf(p) PROVE l # n
      <4>1. p \in InUse /\ object[p].class = "Node" /\ Formed(p)
        BY <1>3 DEF Nodes, HeapInv
      <4>2. NextOf(p) \in Trace(p)
        BY <4>1, TraceOfFormed DEF NextOf
      <4>3. p = n => NextOf(p) = Null
        BY DEF NextOf
      <4>4. QED
        BY <2>4, <3>1, <4>1, <4>2, <4>3, RefsAssumption
    <3>2. head # n
      <4>1. Formed(t) /\ head \in Trace(t)
        BY <1>3, TraceOfFormed DEF HeapInv, head
      <4>2. QED
        BY <1>1, <1>3, <4>1
    <3>3. QED
      BY <2>1, <3>1, <3>2
  <2>6. PICK key, value, val : object[l] =
           Object("Node", [key |-> key, value |-> value, next |-> Null], val)
           /\ Of(key, "String") /\ Of(value, "SizeT") /\ val \in Nat
    BY <2>1, <2>4 DEF Formed, NextOf
  <2>7. /\ DOMAIN object' = Refs /\ \A r \in Refs \ {l} : object'[r] = object[r]
        /\ object'[l] =
              Object("Node", [key |-> key, value |-> value, next |-> n], val)
    BY <1>1, <2>2, <2>4, <2>6 DEF Object
  <2>8. /\ object'[l].class = "Node" /\ object'[l].ref.next = n /\ object'[l] # Free
        /\ object'[n] = object[n]
    BY <1>1, <1>5, <2>5, <2>7 DEF Object, Free
  <2>9. \A r \in Refs : object'[r].class = object[r].class
    BY <2>4, <2>7, <2>8
  <2>10. ASSUME InUse' = InUse PROVE Formed(m)'
    <3>1. Of(key, "String")' /\ Of(value, "SizeT")' /\ Of(n, "Node")'
      BY <1>1, <1>5, <2>6, <2>9, <2>10 DEF Of
    <3>2. QED
      BY <2>6, <2>7, <2>3, <3>1 DEF Formed, Object, OrNull
  <2>11. Acyclic'
    <3>1. ASSUME NEW k \in Nodes'
          PROVE  \/ k \in Nodes /\ object'[k].ref.next = object[k].ref.next
                 \/ k = l /\ object'[l].ref.next = n /\ object'[n].ref.next = Null
      BY <2>7, <2>8 DEF Nodes
    <3>2. QED
      BY <3>1, AcyclicStays DEF HeapInv
  <2>12. PICK X : X = {m}
    OBVIOUS
  <2>13. /\ X \in SUBSET InUse /\ \A r \in Refs \ X : object'[r] = object[r]
         /\ \A r \in X :
               /\ object'[r].class = object[r].class
               /\ object[r].class = "HashMap" =>
                     object'[r].ref.table = object[r].ref.table
               /\ object[r].class = "Vector" => object'[r].ref.data \notin Tables
               /\ InUse' = InUse => Formed(r)'
               /\ r \in Tables /\ InUse' = InUse => IsTable(r)'
         /\ \A r \in X : object'[r] # Free
    <3>1. m \notin Tables /\ m \in InUse /\ object[m].class = "Node"
      BY <2>3, <2>4 DEF HeapInv, IsTable, Of
    <3>2. InUse' = InUse => Formed(m)'
      BY <2>10
    <3>3. /\ \A r \in Refs \ {m} : object'[r] = object[r]
          /\ object'[m].class = "Node" /\ object'[m] # Free
      BY <2>3, <2>7, <2>8
    <3>4. QED
      BY <2>12, <3>1, <3>2, <3>3
  <2>14. HeapInv' /\ InUse' = InUse
    BY <2>7, <2>11, <2>13, HeapAfterUpdate
  <2>15. SlotsStay
    BY <1>5, <2>4, <2>7, <2>9, <2>14, SlotsStayIn DEF IsA, Of
  <2>16. QED
    BY <2>14, <2>15
<1>8. QED
  BY <1>6, <1>7

LEMMA PutObjects ==
    ASSUME StackInv, StackInv', ObjectsInv, Put PROVE ObjectsInv'
<1> USE DEF Places, Allocations, Fresh
<1>1. CASE /\ pc = "put" /\ pc' = "put_value" /\ Push("h_key", Read("str"))
           /\ raw' = Read("map")
           /\ UNCHANGED <<moving, object, oop, inputVars, pos>>
  <2>1. /\ Frame("put") = FrameOf(<<0, 0, 1>>, {2}, InParse)
        /\ Frame("put_value").names = InParse \cup {"h_key"}
    BY DEF Frame, FrameOf
  <2>2. /\ HeapInv' /\ SlotsStay /\ InUse' = InUse
    BY <1>1, SameHeap DEF ObjectsInv
  <2>3. /\ Len(slots) = 2 /\ slots'[1] = slots[1]
        /\ Of(oop, "SizeT")
    BY <1>1, <2>1, DepthIs, SlotsKept DEF FrameOf, ObjectsInv, PlaceInv, OopAt
  <2>4. PICK s, m : s = Read("str") /\ m = Read("map")
    OBVIOUS
  <2>5. IsA(s, "String") /\ m = slots[1] /\ m \in InUse
    BY <1>1, <2>1, <2>4, ReadsAre DEF FrameOf, InParse, Slot, ClassOf, IsA, Of
  <2>6. IsA(s, "String")'
    BY <1>1, <2>2, <2>5 DEF IsA, Of
  <2>7. Stale \notin InUse
    BY RefsAssumption DEF InUse
  <2>8. Arrives("put_value")
    BY <1>1, <2>2, <2>3, <2>4, <2>5, <2>7
       DEF Arrives, OopAt, SlotsAt, RawFrom, ObjectsInv, InputInv, Of
  <2>9. QED
    BY <1>1, <2>1, <2>3, <2>4, <2>6, <2>8, PushObjects DEF FrameOf, Handles, Slot, ClassOf
<1>2. CASE MakeHandle("put_value", "h_value", oop, "put_table")
           /\ UNCHANGED <<heapVars, countVars>>
  <2>1. /\ Frame("put_value") = FrameOf(<<0, 0, 1, 2>>, {3}, InParse \cup {"h_key"})
        /\ Frame("put_table").names = InParse \cup {"h_key", "h_value"}
    BY DEF Frame, FrameOf
  <2>2. /\ HeapInv' /\ SlotsStay /\ InUse' = InUse
        /\ pc = "put_value" /\ pc' = "put_table" /\ Push("h_value", oop)
        /\ UNCHANGED <<moving, object, oop, raw, pos, inputVars>>
    BY <1>2, SameHeap DEF ObjectsInv, MakeHandle, At, Goto, heapVars, countVars
  <2>3. /\ Len(slots) = 3 /\ slots'[1] = slots[1]
        /\ Of(oop, "SizeT")
        /\ (raw = slots[1] \/ Lost(raw)) /\ raw # Stale
    BY <2>1, <2>2, DepthIs, SlotsKept
       DEF FrameOf, ObjectsInv, PlaceInv, OopAt, RawFrom
  <2>4. IsA(oop, "SizeT")'
    BY <2>2, <2>3 DEF IsA, Of
  <2>5. Arrives("put_table")
    BY <2>2, <2>3 DEF Arrives, OopAt, SlotsAt, RawFrom, ObjectsInv, InputInv, Lost
  <2>6. QED
    BY <2>1, <2>2, <2>3, <2>4, <2>5, PushObjects DEF FrameOf, Handles, Slot, ClassOf
<1>3. CASE /\ pc = "put_table" /\ pc' = "make_node" /\ raw # Stale
           /\ Push("h_table", object[raw].ref.table)
           /\ object' = [object EXCEPT ![raw].val = @ + 1]
           /\ UNCHANGED <<moving, oop, raw, inputVars, pos>>
  <2>1. /\ Frame("put_table") =
              FrameOf(<<0, 0, 1, 2>>, {4}, InParse \cup {"h_key", "h_value"})
        /\ Frame("make_node").names = InParse \cup {"h_key", "h_value", "h_table"}
    BY DEF Frame, FrameOf
  <2>2. /\ Len(slots) = 4 /\ raw = slots[1] /\ Of(raw, "HashMap")
    BY <1>3, <2>1, DepthIs, ReadsAre
       DEF FrameOf, ObjectsInv, PlaceInv, RawFrom, InParse, Slot, ClassOf, IsA, Lost
  <2>3. PICK t : t = object[raw].ref.table
    OBVIOUS
  <2>4. /\ slots'[5] = t /\ slots'[1] = slots[1]
    BY <1>3, <2>2, <2>3, SlotsKept
  <2>5. /\ raw \in Refs /\ DOMAIN object = Refs
        /\ object[raw] = Object("HashMap", [table |-> t], object[raw].val)
        /\ Of(t, "Array")
    <3>1. Formed(raw) /\ object[raw].class = "HashMap" /\ raw \in Refs
          /\ DOMAIN object = Refs
      BY <2>2 DEF ObjectsInv, HeapInv, Of, InUse
    <3>2. QED
      BY <2>3, <3>1 DEF Formed
  <2>6. /\ object'[raw] = Object("HashMap", [table |-> t], object[raw].val + 1)
        /\ DOMAIN object' = Refs
        /\ \A r \in Refs \ {raw} : object'[r] = object[r]
    BY <1>3, <2>5 DEF Object
  <2>7. object[raw].class = "HashMap" /\ object'[raw].class = "HashMap"
        /\ object[raw].ref.table = t /\ object'[raw].ref.table = t
        /\ object'[raw].ref = [table |-> t]
        /\ object'[raw] # Free /\ object[t].class = "Array"
    BY <2>5, <2>6 DEF Object, Free, Of
  <2>8. HeapInv' /\ InUse' = InUse /\ SlotsStay
    <3>1. PICK m : m = raw
      OBVIOUS
    <3>2. ASSUME InUse' = InUse PROVE Formed(m)'
      <4>1. Of(t, "Array")'
        BY <2>5, <2>6, <2>7, <3>2 DEF Of, InUse
      <4>2. QED
        BY <2>6, <2>7, <3>1, <4>1 DEF Formed, Object
    <3>3. QED
      BY <1>3, <2>2, <2>6, <2>7, <3>1, <3>2, OneChanges DEF ObjectsInv, Of, IsA
  <2>9. IsA(t, "Array")'
    BY <2>5, <2>6, <2>7, <2>8 DEF IsA, Of, InUse
  <2>10. Arrives("make_node")
    BY <1>3, <2>2, <2>4, <2>7, <2>8
       DEF Arrives, OopAt, SlotsAt, RawFrom, ObjectsInv, InputInv, Of
  <2>11. QED
    BY <1>3, <2>1, <2>2, <2>3, <2>9, <2>10, PushObjects DEF FrameOf, Handles, Slot, ClassOf
<1>4. CASE /\ pc = "make_node" /\ pc' = "link"
           /\ Alloc(Node(Read("h_key"), Read("h_value"),
                         hash[object[Read("h_key")].val]))
           /\ UNCHANGED <<slots, handle, inputVars, pos>>
  <2>1. /\ Frame("make_node") = FrameOf(<<0, 0, 1, 2>>, {5},
                                       InParse \cup {"h_key", "h_value", "h_table"})
        /\ Frame("link").names = InParse \cup {"h_key", "h_value", "h_table"}
    BY DEF Frame, FrameOf
  <2>2. PICK k, v : k = Read("h_key") /\ v = Read("h_value")
    OBVIOUS
  <2>3. /\ Len(slots) = 5 /\ k = slots[3] /\ v = slots[4]
        /\ Of(k, "String") /\ Of(v, "SizeT") /\ Of(slots[1], "HashMap")
        /\ slots[5] = object[slots[1]].ref.table
        /\ raw = slots[1] \/ Lost(raw)
    <3>1. /\ Len(slots) = 5 /\ k = slots[3] /\ v = slots[4]
          /\ Of(k, "String") /\ Of(v, "SizeT") /\ Of(slots[1], "HashMap")
      BY <1>4, <2>1, <2>2, DepthIs, ReadsAre DEF FrameOf, InParse, Slot, ClassOf, IsA
    <3>2. slots[5] = object[slots[1]].ref.table /\ (raw = slots[1] \/ Lost(raw))
      BY <1>4 DEF ObjectsInv, PlaceInv, SlotsAt, RawFrom
    <3>3. QED
      BY <3>1, <3>2
  <2>4. PICK n : n = hash[object[k].val]
    OBVIOUS
  <2>5. n \in Nat
    <3>1. Formed(k) /\ object[k].class = "String"
      BY <2>3 DEF Of, ObjectsInv, HeapInv
    <3>2. object[k].val \in Words
      BY <3>1 DEF Formed
    <3>3. QED
      BY <2>4, <3>2, CountAssumption DEF ObjectsInv, InputInv
  <2>6. /\ Node(k, v, n).class = "Node" /\ Node(k, v, n) # Free
        /\ Node(k, v, n).ref.next = Null
    BY DEF Node, Object, Free
  <2>7. /\ UNCHANGED moving /\ SlotsStay
        /\ oop' \in InUse' /\ object'[oop'] = Node(k, v, n)
        /\ raw' = raw \/ Lost(raw)'
        /\ raw' \in InUse' \cup {Null} \/ Lost(raw)'
        /\ Of(k, "String")' /\ Of(v, "SizeT")' /\ object'[slots[1]] = object[slots[1]]
        /\ Formed(oop)' => HeapInv'
        /\ \A r \in InUse' \ {oop'} : oop' \notin Trace(r)'
    <3>1. Rooted(raw)
      BY <2>3, DepthIs, RawIsRooted DEF ObjectsInv
    <3>2. Alloc(Node(k, v, n))
      BY <1>4, <2>2, <2>4
    <3>3. QED
      BY <2>3, <2>6, <3>1, <3>2, DepthIs, AfterAlloc DEF ObjectsInv, Of
  <2>8. HeapInv'
    BY <2>5, <2>7 DEF Formed, Node, Object, OrNull
  <2>9. Arrives("link")
    BY <1>4, <2>3, <2>6, <2>7, <2>8
       DEF Arrives, OopAt, SlotsAt, RawFrom, ObjectsInv, InputInv, Of, Lost
  <2>10. QED
    BY <1>4, <2>1, <2>9, KeepObjects DEF FrameOf
<1>5. CASE /\ pc = "link" /\ pc' = "put_done"
           /\ Link(Read("h_table"), oop) /\ Leave
           /\ UNCHANGED <<moving, oop, raw, inputVars, pos>>
  <2>1. /\ Frame("link") = FrameOf(<<0, 0, 1, 2>>, {5},
                                  InParse \cup {"h_key", "h_value", "h_table"})
        /\ Frame("put_done").names = InParse
    BY DEF Frame, FrameOf
  <2>2. PICK t, n : t = Read("h_table") /\ n = oop
    OBVIOUS
  <2>3. /\ Len(slots) = 5 /\ Last(marks) = 2
        /\ t \in Tables /\ Of(n, "Node") /\ object[n].ref.next = Null
        /\ \A r \in InUse \ {n} : n \notin Trace(r)
        /\ raw = slots[1] \/ Lost(raw)
    <3>1. Last(<<0, 0, 1, 2>>) = 2
      BY SavedDepths DEF Extends
    <3>2. /\ Len(slots) = 5 /\ Last(marks) = 2
          /\ t = slots[5] /\ Of(slots[1], "HashMap")
      <4>1. Len(slots) = 5 /\ Last(marks) = 2
        <5>1. Frame(pc).saved = <<0, 0, 1, 2>> /\ Frame(pc).used = {5}
          BY <1>5, <2>1 DEF FrameOf
        <5>2. QED
          BY <1>5, <3>1, <5>1, DepthIs
      <4>2. t = slots[5] /\ Of(slots[1], "HashMap")
        BY <1>5, <2>1, <2>2, ReadsAre DEF FrameOf, InParse, Slot, ClassOf, IsA
      <4>3. QED
        BY <4>1, <4>2
    <3>3. /\ slots[5] = object[slots[1]].ref.table
          /\ Of(n, "Node") /\ object[n].ref.next = Null
          /\ \A r \in InUse \ {n} : n \notin Trace(r)
          /\ raw = slots[1] \/ Lost(raw)
      BY <1>5, <2>2 DEF ObjectsInv, PlaceInv, OopAt, SlotsAt, RawFrom
    <3>4. QED
      BY <3>2, <3>3 DEF Tables, Of
  <2>4. HeapInv' /\ InUse' = InUse /\ SlotsStay
    BY <1>5, <2>2, <2>3, Linked DEF ObjectsInv
  <2>5. slots'[1] = slots[1]
    BY <1>5, <2>3, SlotsKept
  <2>6. Arrives("put_done")
    BY <1>5, <2>3, <2>4, <2>5
       DEF Arrives, OopAt, SlotsAt, RawFrom, ObjectsInv, InputInv, Of, Lost
  <2>7. QED
    BY <1>5, <2>1, <2>3, <2>6, LeaveObjects DEF FrameOf
<1>6. QED
  BY <1>1, <1>2, <1>3, <1>4, <1>5
     DEF Put, New, MakeHandle, At, Goto, stackVars, heapVars, countVars

(* An iterator object, and what advance() makes of it. *)
IteratorOf(next, m, val) ==
    Object("HashMapIterator", [current |-> Null, next |-> next, hashMap |-> m], val)

LEMMA AdvanceForms ==
    ASSUME HeapInv, NEW m, Of(m, "HashMap"), NEW next, OrNull(next, "Node"), NEW val \in Nat,
           NEW iter, iter = IteratorOf(next, m, val)
    PROVE  \E x, v : OrNull(x, "Node") /\ v \in Nat /\ Advance(iter) = IteratorOf(x, m, v)
<1> DEFINE hashMap == object[iter.ref.hashMap]
           table   == object[hashMap.ref.table]
           later   == {i \in iter.val .. table.val - 1 : table.ref[i] # Null}
<1>1. /\ iter.ref = [current |-> Null, next |-> next, hashMap |-> m] /\ iter.val = val
      /\ iter.ref.hashMap = m
  BY DEF IteratorOf, Object
<1>2. /\ table.val \in Nat
      /\ \A i \in 0 .. table.val - 1 : OrNull(table.ref[i], "Node")
  <2>1. hashMap = object[m] /\ m \in InUse /\ object[m].class = "HashMap"
    BY <1>1 DEF Of
  <2>2. PICK t : t = object[m].ref.table
    OBVIOUS
  <2>3. t \in Tables /\ table = object[t]
    BY <2>1, <2>2 DEF Tables
  <2>4. IsTable(t) /\ Formed(t) /\ object[t].class = "Array"
    BY <2>3 DEF HeapInv, IsTable, Of
  <2>5. object[t].val \in Nat
    BY <2>4 DEF Formed
  <2>6. DOMAIN object[t].ref = 0 .. object[t].val - 1
        /\ \A i \in DOMAIN object[t].ref : OrNull(object[t].ref[i], "Node")
    BY <2>4 DEF IsTable
  <2>7. QED
    BY <2>3, <2>5, <2>6
<1>3. Advance(iter) =
         CASE hashMap.val = 0 -> iter
           [] hashMap.val # 0 /\ later # {} ->
                 [iter EXCEPT !.ref.next = table.ref[Min(later)], !.val = Min(later) + 1]
           [] OTHER -> [iter EXCEPT !.val = table.val]
  BY Zenon DEF Advance
<1> HIDE DEF hashMap, table
<1>4. CASE hashMap.val = 0
  BY <1>3, <1>4
<1>5. CASE hashMap.val # 0 /\ later # {}
  <2>1. later \in SUBSET Nat /\ later \subseteq 0 .. table.val - 1
    BY <1>1, <1>2
  <2>2. Min(later) \in later
    <3> HIDE DEF later
    <3>1. QED
      BY <1>5, <2>1, MinIsLeast
  <2>3. PICK n : n = Min(later)
    OBVIOUS
  <2>4. n \in 0 .. table.val - 1 /\ n \in Nat
    BY <2>1, <2>2, <2>3
  <2> HIDE DEF later
  <2>5. PICK x : x = table.ref[n]
    OBVIOUS
  <2>6. Advance(iter) = [iter EXCEPT !.ref.next = table.ref[Min(later)],
                                     !.val = Min(later) + 1]
    BY <1>3, <1>5
  <2>7. Advance(iter) = [iter EXCEPT !.ref.next = x, !.val = n + 1]
    BY <2>3, <2>5, <2>6
  <2>8. Advance(iter) = IteratorOf(x, m, n + 1)
    BY <2>7 DEF IteratorOf, Object
  <2>9. OrNull(x, "Node") /\ n + 1 \in Nat
    BY <1>2, <2>4, <2>5
  <2>10. QED
    BY <2>8, <2>9
<1>6. CASE hashMap.val # 0 /\ later = {}
  <2> HIDE DEF later
  <2>1. PICK n \in Nat : n = table.val
    BY <1>2
  <2>2. Advance(iter) = [iter EXCEPT !.val = n]
    BY <1>3, <1>6, <2>1
  <2>3. Advance(iter) = IteratorOf(next, m, n)
    BY <2>2 DEF IteratorOf, Object
  <2>4. QED
    BY <2>1, <2>3
<1>7. QED
  BY <1>4, <1>5, <1>6

LEMMA MakeIteratorObjects ==
    ASSUME StackInv, StackInv', ObjectsInv, MakeIterator PROVE ObjectsInv'
<1> USE DEF Places, Allocations, Fresh
<1>0. \A l \in {"iterator", "make_iter", "init_iter", "own_iter"} :
         Frame(l) = FrameOf(<<0>>, {1}, {"hashMap"})
  BY DEF Frame
<1>1. CASE /\ pc = "iterator" /\ pc' = "make_iter" /\ raw' = Read("hashMap")
           /\ UNCHANGED <<slots, handle, moving, object, oop, inputVars, pos>>
  <2>1. HeapInv' /\ SlotsStay /\ InUse' = InUse
    BY <1>1, SameHeap DEF ObjectsInv
  <2>2. raw' = slots[1] /\ raw' \in InUse
    BY <1>1, <1>0, ReadsAre DEF FrameOf, Slot, ClassOf, IsA, Of
  <2>3. Arrives("make_iter")
    BY <1>1, <2>1, <2>2 DEF Arrives, OopAt, SlotsAt, RawFrom, ObjectsInv, InputInv
  <2>4. QED
    BY <1>1, <1>0, <2>3, KeepObjects DEF FrameOf
<1>2. CASE /\ pc = "make_iter" /\ pc' = "init_iter" /\ Alloc(HashMapIterator(Null))
           /\ UNCHANGED <<slots, handle, inputVars, pos>>
  <2>1. raw = slots[1] \/ Lost(raw)
    BY <1>2 DEF ObjectsInv, PlaceInv, RawFrom
  <2>2. /\ UNCHANGED moving /\ SlotsStay
        /\ oop' \in InUse' /\ object'[oop'] = HashMapIterator(Null)
        /\ raw' = raw \/ Lost(raw)'
        /\ raw' \in InUse' \cup {Null} \/ Lost(raw)'
        /\ HeapInv'
    <3>1. HashMapIterator(Null).class = "HashMapIterator" /\ HashMapIterator(Null) # Free
      BY DEF HashMapIterator, Object, Free
    <3>2. 1 \in DOMAIN slots
      BY <1>2, <1>0, DepthIs DEF FrameOf
    <3>3. Rooted(raw)
      BY <2>1, <3>2, RawIsRooted DEF ObjectsInv
    <3>4. QED
      BY <1>2, <3>1, <3>3, AfterAlloc, NewObjects DEF ObjectsInv
  <2>3. Arrives("init_iter")
    BY <1>2, <2>1, <2>2
       DEF Arrives, OopAt, SlotsAt, RawFrom, ObjectsInv, InputInv, Lost, Of,
           HashMapIterator, Object
  <2>4. QED
    BY <1>2, <1>0, <2>3, KeepObjects DEF FrameOf
<1>3. CASE /\ pc = "init_iter" /\ pc' = "own_iter" /\ raw # Stale
           /\ object' = [object EXCEPT ![oop] = Advance(HashMapIterator(raw))]
           /\ UNCHANGED <<slots, handle, moving, oop, raw, inputVars, pos>>
  <2>1. PICK m, i : m = raw /\ i = oop
    OBVIOUS
  <2>2. m = slots[1] /\ Of(m, "HashMap") /\ Of(i, "HashMapIterator")
    <3>1. Of(Read("hashMap"), "HashMap") /\ Read("hashMap") = slots[1]
      BY <1>3, <1>0, ReadsAre DEF FrameOf, Slot, ClassOf, IsA
    <3>2. Of(i, "HashMapIterator") /\ (m = slots[1] \/ Lost(m))
      BY <1>3, <2>1 DEF ObjectsInv, PlaceInv, OopAt, RawFrom, Lost
    <3>3. QED
      BY <1>3, <2>1, <3>1, <3>2 DEF Lost
  <2>3. PICK x, v : OrNull(x, "Node") /\ v \in Nat
                    /\ Advance(HashMapIterator(raw)) = IteratorOf(x, m, v)
    <3>1. HashMapIterator(raw) = IteratorOf(Null, m, 0)
      BY <2>1 DEF HashMapIterator, IteratorOf
    <3>2. OrNull(Null, "Node") /\ 0 \in Nat /\ HeapInv
      BY DEF OrNull, ObjectsInv
    <3>3. \A it : it = IteratorOf(Null, m, 0) =>
             \E y, w : OrNull(y, "Node") /\ w \in Nat /\ Advance(it) = IteratorOf(y, m, w)
      BY <2>2, <3>2, AdvanceForms
    <3>4. QED
      BY <3>1, <3>3
  <2>4. /\ DOMAIN object' = Refs /\ \A q \in Refs \ {i} : object'[q] = object[q]
        /\ object'[i] = IteratorOf(x, m, v)
    BY <1>3, <2>1, <2>2, <2>3 DEF ObjectsInv, HeapInv, Of, InUse
  <2>5. /\ object'[i].class = "HashMapIterator" /\ object'[i].ref.hashMap = m
        /\ object'[i] # Free /\ m # Null
    BY <2>2, <2>4, RefsAssumption DEF IteratorOf, Object, Free, Of, InUse
  <2>6. HeapInv' /\ InUse' = InUse /\ SlotsStay
    <3>1. ASSUME InUse' = InUse PROVE Formed(i)'
      <4>1. OrNull(x, "Node")' /\ Of(m, "HashMap")'
        BY <2>2, <2>3, <2>4, <2>5, <3>1 DEF OrNull, Of, InUse
      <4>2. QED
        BY <2>3, <2>4, <4>1 DEF Formed, IteratorOf, Object, OrNull
    <3>2. QED
      BY <1>3, <2>2, <2>4, <2>5, <3>1, OneChanges DEF ObjectsInv, Of
  <2>7. IsA(i, "HashMapIterator")'
    BY <2>2, <2>5, <2>6 DEF IsA, Of
  <2>8. Arrives("own_iter")
    BY <1>3, <2>1, <2>2, <2>6, <2>7
       DEF Arrives, OopAt, SlotsAt, RawFrom, ObjectsInv, InputInv, Of
  <2>9. QED
    BY <1>3, <1>0, <2>8, KeepObjects DEF FrameOf
<1>4. QED
  BY <1>1, <1>2, <1>3
     DEF MakeIterator, New, At, Goto, stackVars, heapVars, countVars

LEMMA VectorMakeObjects ==
    ASSUME StackInv, StackInv', ObjectsInv, VectorMake PROVE ObjectsInv'
<1> USE DEF Places, Allocations, Fresh
<1>1. CASE pc = "make_array" /\ pc' = "own_array" /\ Alloc(Array(VECTOR_SIZE))
           /\ UNCHANGED <<slots, handle, inputVars, pos>>
  <2>1. /\ Frame("make_array") = FrameOf(<<0>>, {2}, {"hashMap", "iter"})
        /\ Frame("own_array") = FrameOf(<<0, 2>>, {2}, {"hashMap", "iter"})
    BY DEF Frame
  <2>2. raw = slots[1] \/ Lost(raw)
    BY <1>1 DEF ObjectsInv, PlaceInv, RawFrom
  <2>3. /\ UNCHANGED moving /\ SlotsStay
        /\ oop' \in InUse' /\ object'[oop'] = Array(VECTOR_SIZE)
        /\ raw' = raw \/ Lost(raw)'
        /\ raw' \in InUse' \cup {Null} \/ Lost(raw)'
        /\ HeapInv' /\ oop' \notin Tables'
    <3>1. Array(VECTOR_SIZE).class = "Array" /\ Array(VECTOR_SIZE) # Free
      BY DEF Array, Object, Free
    <3>2. 1 \in DOMAIN slots
      BY <1>1, <2>1, DepthIs DEF FrameOf
    <3>3. Rooted(raw)
      BY <2>2, <3>2, RawIsRooted DEF ObjectsInv
    <3>4. QED
      BY <1>1, <3>1, <3>3, AfterAlloc, NewObjects, CountAssumption DEF ObjectsInv
  <2>4. Arrives("own_array")
    BY <1>1, <2>2, <2>3
       DEF Arrives, OopAt, SlotsAt, RawFrom, ObjectsInv, InputInv, Lost, Of, Array, Object
  <2>5. QED
    BY <1>1, <2>1, <2>4, KeepObjects DEF FrameOf
<1>2. CASE MakeHandle("own_array", "array", oop, "make_vector")
           /\ UNCHANGED <<heapVars, countVars>>
  <2>1. /\ Frame("own_array") = FrameOf(<<0, 2>>, {2}, {"hashMap", "iter"})
        /\ Frame("make_vector").names = {"hashMap", "iter", "array"}
    BY DEF Frame, FrameOf
  <2>2. /\ HeapInv' /\ SlotsStay /\ InUse' = InUse /\ Tables' = Tables
        /\ pc = "own_array" /\ pc' = "make_vector" /\ Push("array", oop)
        /\ UNCHANGED <<moving, object, oop, raw, pos, inputVars>>
    BY <1>2, SameHeap DEF ObjectsInv, MakeHandle, At, Goto, heapVars, countVars
  <2>3. /\ Len(slots) = 2 /\ slots'[1] = slots[1] /\ slots'[3] = oop
        /\ Of(oop, "Array") /\ oop \notin Tables
        /\ raw = slots[1] \/ Lost(raw)
    BY <2>1, <2>2, DepthIs, SlotsKept
       DEF FrameOf, ObjectsInv, PlaceInv, OopAt, RawFrom
  <2>4. IsA(oop, "Array")'
    BY <2>2, <2>3 DEF IsA, Of
  <2>5. Arrives("make_vector")
    BY <2>2, <2>3 DEF Arrives, OopAt, SlotsAt, RawFrom, ObjectsInv, InputInv, Lost
  <2>6. QED
    BY <2>1, <2>2, <2>3, <2>4, <2>5, PushObjects DEF FrameOf, Handles, Slot, ClassOf
<1>3. CASE pc = "make_vector" /\ pc' = "own_vector" /\ Alloc(Vector(Read("array")))
           /\ Leave /\ UNCHANGED <<inputVars, pos>>
  <2>1. /\ Frame("make_vector") = FrameOf(<<0, 2>>, {3}, {"hashMap", "iter", "array"})
        /\ Frame("own_vector").names = {"hashMap", "iter"}
    BY DEF Frame, FrameOf
  <2>2. PICK a : a = Read("array")
    OBVIOUS
  <2>3. /\ Len(slots) = 3 /\ Last(marks) = 2
        /\ a = slots[3] /\ Of(a, "Array") /\ a \notin Tables
        /\ raw = slots[1] \/ Lost(raw)
    <3>1. Last(<<0, 2>>) = 2
      BY SavedDepths DEF Extends
    <3>2. Len(slots) = 3 /\ Last(marks) = 2 /\ a = slots[3] /\ Of(a, "Array")
      <4>1. Len(slots) = 3 /\ Last(marks) = 2
        BY <1>3, <2>1, <3>1, DepthIs DEF FrameOf
      <4>2. a = slots[3] /\ Of(a, "Array")
        BY <1>3, <2>1, <2>2, ReadsAre DEF FrameOf, Slot, ClassOf, IsA
      <4>3. QED
        BY <4>1, <4>2
    <3>3. slots[3] \notin Tables /\ (raw = slots[1] \/ Lost(raw))
      BY <1>3 DEF ObjectsInv, PlaceInv, SlotsAt, RawFrom
    <3>4. QED
      BY <3>2, <3>3
  <2>4. /\ Vector(a).class = "Vector" /\ Vector(a) # Free /\ Vector(a).ref.data = a
    BY DEF Vector, Object, Free
  <2>5. /\ UNCHANGED moving /\ SlotsStay
        /\ oop' \in InUse' /\ object'[oop'] = Vector(a)
        /\ raw' = raw \/ Lost(raw)'
        /\ raw' \in InUse' \cup {Null} \/ Lost(raw)'
        /\ Of(a, "Array")'
        /\ Formed(oop)' => HeapInv'
    <3>1. Rooted(raw)
      BY <2>3, DepthIs, RawIsRooted DEF ObjectsInv
    <3>2. Alloc(Vector(a))
      BY <1>3, <2>2
    <3>3. QED
      BY <2>3, <2>4, <3>1, <3>2, DepthIs, AfterAlloc DEF ObjectsInv, Of
  <2>6. HeapInv'
    BY <2>4, <2>5 DEF Formed, Vector, Object
  <2>7. slots'[1] = slots[1]
    BY <1>3, <2>3, SlotsKept
  <2>8. Arrives("own_vector")
    BY <1>3, <2>3, <2>4, <2>5, <2>6, <2>7
       DEF Arrives, OopAt, SlotsAt, RawFrom, ObjectsInv, InputInv, Lost, Of
  <2>9. QED
    BY <1>3, <2>1, <2>3, <2>8, LeaveObjects DEF FrameOf
<1>4. QED
  BY <1>1, <1>2, <1>3
     DEF VectorMake, New, MakeHandle, At, Goto, stackVars, heapVars, countVars

(* HashMap::get() returns a value that is in the map, if any. *)
LEMMA GetReturnsValue ==
    ASSUME HeapInv, NEW m, Of(m, "HashMap"), NEW w, NEW h \in Nat
    PROVE  OrNull(Get(m, w, h), "SizeT")
<1> DEFINE table == object[m].ref.table
           chain == Chain[object[table].ref[Bucket(table, h)]]
           found == {i \in DOMAIN chain :
                        /\ object[chain[i]].val = h
                        /\ object[object[chain[i]].ref.key].val = w}
<1>1. Get(m, w, h) = IF found = {} THEN Null ELSE object[chain[Min(found)]].ref.value
  BY Zenon DEF Get
<1>2. table \in Tables
  BY DEF Tables, Of
<1> HIDE DEF table
<1>3. /\ object[table].ref[Bucket(table, h)] \in Nodes \cup {Null}
      /\ \A k \in Nodes : k \in InUse /\ NextOf(k) \in Nodes \cup {Null}
  <2>1. PICK t \in Tables : t = table
    BY <1>2
  <2>2. QED
    BY <2>1, BucketHolds
<1>4. chain \in Seq(Nodes)
  BY <1>3, ChainHasEnd DEF HeapInv
<1> HIDE DEF chain
<1>5. CASE found # {}
  <2>1. found \in SUBSET Nat /\ found \subseteq DOMAIN chain
        /\ \A i \in DOMAIN chain : chain[i] \in Nodes
    BY <1>4
  <2> HIDE DEF found
  <2>2. Min(found) \in DOMAIN chain
    BY <1>5, <2>1, MinIsLeast
  <2>3. PICK n \in Nodes : n = chain[Min(found)]
    BY <2>1, <2>2
  <2>4. n \in InUse /\ object[n].class = "Node" /\ Formed(n)
    BY <1>3 DEF Nodes, HeapInv
  <2>5. Of(object[n].ref.value, "SizeT")
    BY <2>4 DEF Formed
  <2>6. QED
    BY <1>1, <1>5, <2>3, <2>5 DEF OrNull
<1>6. CASE found = {}
  <2> HIDE DEF found
  <2>1. QED
    BY <1>1, <1>6 DEF OrNull
<1>7. QED
  BY <1>5, <1>6

LEMMA UpdateValueObjects ==
    ASSUME StackInv, StackInv', ObjectsInv, UpdateValue PROVE ObjectsInv'
<1> USE DEF Places, Allocations, Fresh
<1>0. /\ \A l \in {"read_word", "update_value"} :
            Frame(l) = FrameOf(<<0, 0>>, {1}, {"map"})
      /\ \A l \in {"make_size", "put", "put_done"} :
            Frame(l) = FrameOf(<<0, 0, 1>>, {2}, InParse)
  BY DEF Frame
<1> DEFINE value == Get(Read("map"), object[oop].val, hash[object[oop].val])
<1>1. CASE /\ pc = "update_value" /\ pc' = "read_word" /\ value # Null
           /\ object' = [object EXCEPT ![value].val = @ + 1]
           /\ UNCHANGED <<slots, handle, moving, oop, raw, inputVars, pos>>
  <2>1. Of(value, "SizeT")
    <3>1. Of(oop, "String")
      BY <1>1 DEF ObjectsInv, PlaceInv, OopAt
    <3>2. Formed(oop) /\ object[oop].class = "String"
      BY <3>1 DEF ObjectsInv, HeapInv, Of
    <3>3. object[oop].val \in Words
      BY <3>2 DEF Formed
    <3>4. hash[object[oop].val] \in Nat
      BY <3>3, CountAssumption DEF ObjectsInv, InputInv
    <3>5. Of(Read("map"), "HashMap")
      BY <1>0, <1>1, ReadsAre DEF FrameOf, ClassOf, IsA
    <3>6. OrNull(value, "SizeT")
      BY <3>4, <3>5, GetReturnsValue DEF ObjectsInv
    <3>7. QED
      BY <1>1, <3>6 DEF OrNull
  <2> HIDE DEF value
  <2>2. PICK v : v = value
    OBVIOUS
  <2>3. PICK n : object[v] = SizeT(n)
    <3>1. Formed(v) /\ object[v].class = "SizeT"
      BY <2>1, <2>2 DEF ObjectsInv, HeapInv, Of
    <3>2. object[v] = Object("SizeT", <<>>, object[v].val)
      BY <3>1 DEF Formed
    <3>3. QED
      BY <3>2 DEF SizeT
  <2>4. /\ v \in InUse /\ v \in Refs /\ DOMAIN object' = Refs
        /\ \A q \in Refs \ {v} : object'[q] = object[q]
        /\ object'[v] = SizeT(n + 1)
    BY <1>1, <2>1, <2>2, <2>3 DEF ObjectsInv, HeapInv, Of, InUse, SizeT, Object
  <2>5. object[v].class = "SizeT" /\ object'[v].class = "SizeT" /\ object'[v] # Free
    BY <2>3, <2>4 DEF SizeT, Object, Free
  <2>6. HeapInv' /\ InUse' = InUse /\ SlotsStay
    <3>1. Formed(v)'
      BY <2>4 DEF Formed, SizeT, Object
    <3>2. QED
      BY <1>1, <2>4, <2>5, <3>1, OneChanges DEF ObjectsInv, IsA, Of
  <2>7. Arrives("read_word")
    BY <1>1, <2>6 DEF Arrives, OopAt, SlotsAt, ObjectsInv, InputInv, PlaceInv, RawFrom, Lost
  <2>8. QED
    BY <1>0, <1>1, <2>7, KeepObjects DEF FrameOf
<1> HIDE DEF value
<1>2. CASE MakeHandle("update_value", "str", oop, "make_size")
           /\ UNCHANGED <<heapVars, countVars>>
  <2>1. /\ HeapInv' /\ SlotsStay /\ InUse' = InUse
        /\ pc = "update_value" /\ pc' = "make_size" /\ Push("str", oop)
        /\ UNCHANGED <<moving, object, oop, raw, pos, inputVars>>
    BY <1>2, SameHeap DEF ObjectsInv, MakeHandle, At, Goto, heapVars, countVars
  <2>2. /\ Len(slots) = 1 /\ slots'[1] = slots[1] /\ Of(oop, "String")
        /\ raw \in {Null, slots[1]} \/ Lost(raw)
    BY <1>0, <2>1, DepthIs, SlotsKept DEF FrameOf, ObjectsInv, PlaceInv, OopAt, RawFrom
  <2>3. IsA(oop, "String")'
    BY <2>1, <2>2 DEF IsA, Of
  <2>4. Arrives("make_size")
    BY <2>1, <2>2 DEF Arrives, OopAt, SlotsAt, RawFrom, ObjectsInv, InputInv, Lost
  <2>5. QED
    BY <1>0, <2>1, <2>2, <2>3, <2>4, PushObjects
       DEF FrameOf, InParse, Handles, Slot, ClassOf
<1>3. CASE /\ pc = "make_size" /\ pc' = "put" /\ Alloc(SizeT(1))
           /\ UNCHANGED <<slots, handle, inputVars, pos>>
  <2>1. raw \in {Null, slots[1]} \/ Lost(raw)
    BY <1>3 DEF ObjectsInv, PlaceInv, RawFrom
  <2>2. /\ UNCHANGED moving /\ SlotsStay
        /\ oop' \in InUse' /\ object'[oop'] = SizeT(1)
        /\ raw' = raw \/ Lost(raw)'
        /\ raw' \in InUse' \cup {Null} \/ Lost(raw)'
        /\ HeapInv'
    <3>1. SizeT(1).class = "SizeT" /\ SizeT(1) # Free
      BY DEF SizeT, Object, Free
    <3>2. 1 \in DOMAIN slots
      BY <1>0, <1>3, DepthIs DEF FrameOf
    <3>3. Rooted(raw)
      BY <2>1, <3>2, RawIsRooted DEF ObjectsInv
    <3>4. QED
      BY <1>3, <3>1, <3>3, AfterAlloc, NewObjects DEF ObjectsInv
  <2>3. Arrives("put")
    BY <1>3, <2>1, <2>2
       DEF Arrives, OopAt, SlotsAt, RawFrom, ObjectsInv, InputInv, Lost, Of, SizeT, Object
  <2>4. QED
    BY <1>0, <1>3, <2>3, KeepObjects DEF FrameOf
<1>4. CASE pc = "put_done" /\ pc' = "read_word" /\ Leave
           /\ UNCHANGED <<heapVars, pos, inputVars>>
  <2>1. /\ HeapInv' /\ SlotsStay /\ InUse' = InUse
        /\ UNCHANGED <<moving, object, oop, raw>>
    BY <1>4, SameHeap DEF ObjectsInv, heapVars
  <2>2. Len(slots) = 2 /\ Last(marks) = 1 /\ slots'[1] = slots[1]
    <3>1. Last(<<0, 0, 1>>) = 1
      BY SavedDepths DEF Extends
    <3>2. Len(slots) = 2 /\ Last(marks) = 1
      BY <1>0, <1>4, <3>1, DepthIs DEF FrameOf
    <3>3. QED
      BY <1>4, <3>2, SlotsKept
  <2>3. raw = slots[1] \/ Lost(raw)
    BY <1>4 DEF ObjectsInv, PlaceInv, RawFrom
  <2>4. Arrives("read_word")
    BY <1>4, <2>1, <2>2, <2>3
       DEF Arrives, OopAt, SlotsAt, RawFrom, ObjectsInv, InputInv, Lost
  <2>5. QED
    BY <1>0, <1>4, <2>2, <2>4, LeaveObjects DEF FrameOf, InParse
<1>5. QED
  BY <1>1, <1>2, <1>3, <1>4
     DEF UpdateValue, New, MakeHandle, At, Goto, stackVars, heapVars, countVars, value

LEMMA ParseFileObjects ==
    ASSUME StackInv, StackInv', ObjectsInv, ParseFile PROVE ObjectsInv'
<1> USE DEF Places, Allocations, Fresh
<1>0. /\ Frame("parse_file").names = {} /\ Frame("make_table").names = {}
      /\ Frame("own_map") = FrameOf(<<0, 0>>, {0}, {})
      /\ Frame("read_word") = FrameOf(<<0, 0>>, {1}, {"map"})
      /\ Frame("update_value").names = {"map"} /\ Frame("own_result").names = {}
  BY DEF Frame, FrameOf
<1>1. CASE pc = "parse_file" /\ pc' = "make_table"
           /\ UNCHANGED <<slots, handle, heapVars, pos, inputVars>>
  <2>1. /\ HeapInv' /\ SlotsStay /\ InUse' = InUse
        /\ UNCHANGED <<moving, object, oop, raw>>
    BY <1>1, SameHeap DEF ObjectsInv, heapVars
  <2>2. Arrives("make_table")
    BY <1>1, <2>1 DEF Arrives, OopAt, SlotsAt, RawFrom, ObjectsInv, PlaceInv, InputInv, Lost
  <2>3. QED
    BY <1>0, <1>1, <2>2, KeepObjects
<1>2. CASE MakeHandle("own_map", "map", oop, "read_word")
           /\ UNCHANGED <<heapVars, countVars>>
  <2>1. /\ HeapInv' /\ SlotsStay /\ InUse' = InUse
        /\ pc = "own_map" /\ pc' = "read_word" /\ Push("map", oop)
        /\ UNCHANGED <<moving, object, oop, raw, pos, inputVars>>
    BY <1>2, SameHeap DEF ObjectsInv, MakeHandle, At, Goto, heapVars, countVars
  <2>2. /\ Len(slots) = 0 /\ Of(oop, "HashMap") /\ (raw = Null \/ Lost(raw))
    BY <1>0, <2>1, DepthIs DEF FrameOf, ObjectsInv, PlaceInv, OopAt, RawFrom
  <2>3. IsA(oop, "HashMap")'
    BY <2>1, <2>2 DEF IsA, Of
  <2>4. Arrives("read_word")
    BY <2>1, <2>2 DEF Arrives, OopAt, SlotsAt, RawFrom, ObjectsInv, InputInv, Lost
  <2>5. QED
    BY <1>0, <2>1, <2>2, <2>3, <2>4, PushObjects DEF FrameOf, Handles, Slot, ClassOf
<1>3. CASE /\ pc = "read_word" /\ pc' = "update_value" /\ pos < Len(text)
           /\ pos' = pos + 1 /\ Alloc(String(text[pos']))
           /\ UNCHANGED <<slots, handle, inputVars>>
  <2>1. raw \in {Null, slots[1]} \/ Lost(raw)
    BY <1>3 DEF ObjectsInv, PlaceInv, RawFrom
  <2>2. PICK w : w = text[pos']
    OBVIOUS
  <2>3. w \in Words /\ pos' \in 0 .. Len(text)
    BY <1>3, <2>2 DEF ObjectsInv, InputInv
  <2>4. /\ UNCHANGED moving /\ SlotsStay
        /\ oop' \in InUse' /\ object'[oop'] = String(w)
        /\ raw' = raw \/ Lost(raw)'
        /\ raw' \in InUse' \cup {Null} \/ Lost(raw)'
        /\ HeapInv'
    <3>1. String(w).class = "String" /\ String(w) # Free
      BY DEF String, Object, Free
    <3>2. 1 \in DOMAIN slots
      BY <1>0, <1>3, DepthIs DEF FrameOf
    <3>3. Rooted(raw)
      BY <2>1, <3>2, RawIsRooted DEF ObjectsInv
    <3>4. QED
      BY <1>3, <2>2, <2>3, <3>1, <3>3, AfterAlloc, NewObjects DEF ObjectsInv
  <2>5. Arrives("update_value")
    BY <1>3, <2>1, <2>3, <2>4
       DEF Arrives, OopAt, SlotsAt, RawFrom, ObjectsInv, InputInv, Lost, Of, String, Object
  <2>6. QED
    BY <1>0, <1>3, <2>5, KeepObjects DEF FrameOf
<1>4. CASE /\ pc = "read_word" /\ pc' = "own_result" /\ oop' = Read("map") /\ Leave
           /\ UNCHANGED <<moving, object, raw, pos, inputVars>>
  <2>1. HeapInv' /\ SlotsStay /\ InUse' = InUse
    BY <1>4, SameHeap DEF ObjectsInv
  <2>2. Len(slots) = 1 /\ Last(marks) = 0 /\ oop' = slots[1] /\ Of(oop', "HashMap")
    <3>1. Last(<<0, 0>>) = 0
      BY SavedDepths DEF Extends
    <3>2. QED
      BY <1>0, <1>4, <3>1, DepthIs, ReadsAre DEF FrameOf, Slot, ClassOf, IsA
  <2>3. raw \in {Null, slots[1]} \/ Lost(raw)
    BY <1>4 DEF ObjectsInv, PlaceInv, RawFrom
  <2>4. Arrives("own_result")
    BY <1>4, <2>1, <2>2, <2>3
       DEF Arrives, OopAt, SlotsAt, RawFrom, ObjectsInv, InputInv, Lost, Of
  <2>5. QED
    BY <1>0, <1>4, <2>2, <2>4, LeaveObjects
<1>5. QED
  BY <1>1, <1>2, <1>3, <1>4
     DEF ParseFile, New, MakeHandle, At, Goto, stackVars, heapVars, countVars

LEMMA PairMakeObjects ==
    ASSUME StackInv, StackInv', ObjectsInv, PairMake PROVE ObjectsInv'
<1> USE DEF Places, Allocations, Fresh
<1>0. /\ Frame("make_first") = FrameOf(<<0, 3>>, {4}, InCount \cup {"curr"})
      /\ \A l \in {"make_pair", "make_second"} :
            Frame(l) = FrameOf(<<0, 3>>, {5}, InCount \cup {"curr", "first"})
      /\ \A l \in {"init_pair", "push_back"} : Frame(l) = FrameOf(<<0, 3>>, {6}, InLoop)
  BY DEF Frame
<1>1. CASE /\ pc = "make_first" /\ pc' = "make_pair"
           /\ Push("first", object[Read("curr")].ref.key)
           /\ raw' = object[Read("curr")].ref.value
           /\ UNCHANGED <<moving, object, oop, inputVars, pos>>
  <2>1. HeapInv' /\ SlotsStay /\ InUse' = InUse
    BY <1>1, SameHeap DEF ObjectsInv
  <2>2. PICK c, k, v : c = Read("curr") /\ k = object[c].ref.key /\ v = object[c].ref.value
    OBVIOUS
  <2>3. Len(slots) = 4 /\ c = slots[4] /\ slots'[4] = c /\ Of(c, "Node")
    BY <1>0, <1>1, <2>2, DepthIs, ReadsAre, SlotsKept DEF FrameOf, Slot, ClassOf, IsA
  <2>4. Of(k, "String") /\ Of(v, "SizeT")
    <3>1. Formed(c) /\ object[c].class = "Node"
      BY <2>3 DEF Of, ObjectsInv, HeapInv
    <3>2. QED
      BY <2>2, <3>1 DEF Formed
  <2>5. IsA(k, "String")'
    BY <1>1, <2>1, <2>4 DEF IsA, Of
  <2>6. Arrives("make_pair")
    BY <1>1, <2>1, <2>2, <2>3, <2>4
       DEF Arrives, OopAt, SlotsAt, RawFrom, ObjectsInv, InputInv, Of
  <2>7. QED
    BY <1>0, <1>1, <2>2, <2>3, <2>5, <2>6, PushObjects DEF FrameOf, Handles, Slot, ClassOf
<1>2. CASE /\ pc = "make_pair" /\ pc' = "make_second" /\ Alloc(Pair(Null, Null))
           /\ UNCHANGED <<slots, handle, inputVars, pos>>
  <2>1. PICK c : c = slots[4]
    OBVIOUS
  <2>2. 4 \in DOMAIN slots /\ Of(c, "Node")
    BY <1>0, <1>2, <2>1, DepthIs, ReadsAre DEF FrameOf, Slot, ClassOf, IsA
  <2>3. Formed(c) /\ c \in InUse /\ object[c].class = "Node"
    BY <2>2 DEF Of, ObjectsInv, HeapInv
  <2>4. raw = object[c].ref.value \/ Lost(raw)
    BY <1>2, <2>1 DEF ObjectsInv, PlaceInv, RawFrom
  <2>5. Rooted(raw) /\ raw # Null
    <3>1. object[c].ref.value \in Trace(c) /\ Of(object[c].ref.value, "SizeT")
      <4>1. object[c].ref.value \in Trace(c)
        BY <2>3, TraceOfFormed
      <4>2. Of(object[c].ref.value, "SizeT")
        BY <2>3 DEF Formed
      <4>3. QED
        BY <4>1, <4>2
    <3>2. c \in Reachable \ {Stale}
      BY <2>1, <2>2, <2>3, WhatIsReached, RefsAssumption DEF ObjectsInv, InUse
    <3>3. Stale # Null /\ Null \notin InUse
      BY RefsAssumption DEF InUse
    <3>4. object[c].ref.value \in Reachable
      BY <3>1, <3>2, <3>3, WhatIsReached DEF ObjectsInv, Of
    <3>5. QED
      BY <2>4, <3>1, <3>3, <3>4 DEF Rooted, Lost, Of
  <2>6. /\ UNCHANGED moving /\ SlotsStay
        /\ oop' \in InUse' /\ object'[oop'] = Pair(Null, Null)
        /\ raw' = raw \/ Lost(raw)'
        /\ raw' \in InUse' \cup {Null} \/ Lost(raw)'
        /\ HeapInv'
    <3>1. Pair(Null, Null).class = "Pair" /\ Pair(Null, Null) # Free
      BY DEF Pair, Object, Free
    <3>2. QED
      BY <1>2, <2>5, <3>1, AfterAlloc, NewObjects DEF ObjectsInv
  <2>7. raw' \in InUse' \/ Lost(raw)'
    BY <2>5, <2>6 DEF Lost
  <2>8. Arrives("make_second")
    BY <1>2, <2>6, <2>7
       DEF Arrives, OopAt, SlotsAt, RawFrom, ObjectsInv, InputInv, Of, Pair, Object
  <2>9. QED
    BY <1>0, <1>2, <2>8, KeepObjects DEF FrameOf
<1>3. CASE MakeHandle("make_second", "second", raw, "init_pair")
           /\ UNCHANGED <<heapVars, countVars>>
  <2>1. /\ HeapInv' /\ SlotsStay /\ InUse' = InUse
        /\ pc = "make_second" /\ pc' = "init_pair" /\ Push("second", raw)
        /\ UNCHANGED <<moving, object, oop, raw, pos, inputVars>>
    BY <1>3, SameHeap DEF ObjectsInv, MakeHandle, At, Goto, heapVars, countVars
  <2>2. /\ Len(slots) = 5 /\ slots'[6] = raw /\ Of(oop, "Pair")
        /\ raw \in InUse \/ Lost(raw)
    BY <1>0, <2>1, DepthIs, SlotsKept DEF FrameOf, ObjectsInv, PlaceInv, OopAt, RawFrom
  <2>3. \A i \in DOMAIN slots : slots[i] \in InUse
    <3>1. \A h \in InCount \cup {"curr", "first"} : slots[Slot[h]] \in InUse
      BY <1>0, <2>1, ReadsAre DEF FrameOf, IsA, Of, InCount
    <3>2. slots[1] \in InUse /\ slots[2] \in InUse /\ slots[3] \in InUse
          /\ slots[4] \in InUse /\ slots[5] \in InUse
      BY <3>1 DEF InCount, Slot
    <3>3. DOMAIN slots = 1 .. 5
      BY <2>1, <2>2, DepthIs
    <3>4. \A i \in 1 .. 5 : i \in {1, 2, 3, 4, 5}
      OBVIOUS
    <3>5. QED
      BY <3>2, <3>3, <3>4
  <2>4. Arrives("init_pair")
    BY <2>1, <2>2 DEF Arrives, OopAt, SlotsAt, RawFrom, ObjectsInv, InputInv, Lost, Of
  <2>5. QED
    BY <1>0, <2>1, <2>2, <2>3, <2>4, PushObjects DEF FrameOf, InLoop, Handles, Slot
<1>4. CASE /\ pc = "init_pair" /\ pc' = "push_back"
           /\ object' = [object EXCEPT ![oop] = Pair(Read("first"), Read("second"))]
           /\ UNCHANGED <<slots, handle, moving, oop, raw, inputVars, pos>>
  <2>1. PICK p, f, s : p = oop /\ f = Read("first") /\ s = Read("second")
    OBVIOUS
  <2>2. /\ Of(p, "Pair") /\ Of(f, "String") /\ s = slots[6]
        /\ (s \in InUse \/ Lost(s)) /\ (raw = slots[6] \/ Lost(raw))
    <3>1. /\ Of(f, "String") /\ s = slots[6] /\ 6 \in DOMAIN slots
      BY <1>0, <1>4, <2>1, ReadsAre DEF FrameOf, InLoop, Slot, ClassOf, IsA
    <3>2. Of(p, "Pair") /\ (raw = slots[6] \/ Lost(raw))
      BY <1>4, <2>1 DEF ObjectsInv, PlaceInv, OopAt, RawFrom
    <3>3. s \in InUse \/ Lost(s)
      BY <3>1 DEF ObjectsInv, SlotsInv, Lost
    <3>4. QED
      BY <3>1, <3>2, <3>3
  <2>3. /\ DOMAIN object' = Refs /\ \A q \in Refs \ {p} : object'[q] = object[q]
        /\ object'[p] = Pair(f, s)
    BY <1>4, <2>1, <2>2 DEF ObjectsInv, HeapInv, Of, InUse
  <2>4. /\ object'[p].class = "Pair" /\ object'[p] # Free /\ object[p].class = "Pair"
    BY <2>2, <2>3 DEF Pair, Object, Free, Of
  <2>5. HeapInv' /\ InUse' = InUse /\ SlotsStay
    <3>1. ASSUME InUse' = InUse PROVE Formed(p)'
      BY <1>4, <2>2, <2>3, <3>1 DEF Formed, Pair, Object, Of, Lost
    <3>2. QED
      BY <1>4, <2>2, <2>3, <2>4, <3>1, OneChanges DEF ObjectsInv, Of, IsA
  <2>6. Arrives("push_back")
    BY <1>4, <2>1, <2>2, <2>4, <2>5
       DEF Arrives, OopAt, SlotsAt, RawFrom, ObjectsInv, InputInv, Of, Lost
  <2>7. QED
    BY <1>0, <1>4, <2>6, KeepObjects DEF FrameOf
<1>5. QED
  BY <1>1, <1>2, <1>3, <1>4
     DEF PairMake, New, MakeHandle, At, Goto, stackVars, heapVars, countVars

(* What an array may hold. *)
ArrayRef(f) ==
    f = [i \in DOMAIN f |-> f[i]] /\ \A i \in DOMAIN f : f[i] \in InUse \cup {Null}

LEMMA FormedArray ==
    ASSUME NEW r, Formed(r), object[r].class = "Array"
    PROVE  /\ object[r] = Object("Array", object[r].ref, object[r].val)
           /\ object[r].val \in Nat /\ ArrayRef(object[r].ref)
BY DEF Formed, ArrayRef

(* A vector and its array change, or the vector gets another array. *)
LEMMA VectorChanges ==
    ASSUME HeapInv, UNCHANGED moving, NEW v \in InUse, NEW d \in InUse,
           object[v].class = "Vector", object[d].class = "Array", d \notin Tables,
           DOMAIN object' = Refs, \A r \in Refs \ {v, d} : object'[r] = object[r],
           NEW val, object'[v] = Object("Vector", [data |-> d], val),
           NEW f, NEW n \in Nat, object'[d] = Object("Array", f, n),
           ArrayRef(f)
    PROVE  HeapInv' /\ InUse' = InUse /\ SlotsStay
<1>1. /\ object'[v].class = "Vector" /\ object'[v].ref = [data |-> d] /\ object'[v].val = val
      /\ object'[v].ref.data = d /\ object'[v] # Free
      /\ object'[d].class = "Array" /\ object'[d].ref = f /\ object'[d].val = n
      /\ object'[d] # Free
  BY DEF Object, Free
<1>2. v \in Refs /\ d \in Refs /\ v # d /\ v \notin Tables
  BY DEF InUse, HeapInv, IsTable, Of
<1>3. \A r \in Refs : object'[r].class = object[r].class
  BY <1>1, <1>2
<1>4. ASSUME InUse' = InUse PROVE Formed(v)' /\ Formed(d)'
  <2>1. Of(d, "Array")'
    BY <1>1, <1>4 DEF Of
  <2>2. Formed(v)'
    BY <1>1, <2>1 DEF Formed
  <2>3. Formed(d)'
    BY <1>1, <1>4 DEF Formed, ArrayRef
  <2>4. QED
    BY <2>2, <2>3
<1>5. Acyclic'
  <2>1. ASSUME NEW k \in Nodes'
        PROVE  k \in Nodes /\ object'[k].ref.next = object[k].ref.next
    BY <1>1, <1>3 DEF Nodes
  <2>2. QED
    BY <2>1, AcyclicStays DEF HeapInv
<1>6. PICK X : X = {v, d}
  OBVIOUS
<1>7. /\ X \in SUBSET InUse /\ \A r \in Refs \ X : object'[r] = object[r]
      /\ \A r \in X :
            /\ object'[r].class = object[r].class
            /\ object[r].class = "HashMap" => object'[r].ref.table = object[r].ref.table
            /\ object[r].class = "Vector" => object'[r].ref.data \notin Tables
            /\ InUse' = InUse => Formed(r)'
            /\ r \in Tables /\ InUse' = InUse => IsTable(r)'
      /\ \A r \in X : object'[r] # Free
  <2>1. X \in SUBSET InUse /\ \A r \in Refs \ X : object'[r] = object[r]
    BY <1>6
  <2>2. \A r \in X : r = v \/ r = d
    BY <1>6
  <2>3. QED
    BY <1>1, <1>2, <1>4, <2>1, <2>2
<1>8. HeapInv' /\ InUse' = InUse
  BY <1>5, <1>7, HeapAfterUpdate
<1>9. SlotsStay
  BY <1>1, <1>2, <1>3, <1>8, SlotsStayIn DEF IsA, Of, InUse
<1>10. QED
  BY <1>8, <1>9

(* What a vector leads to. *)
LEMMA VectorHasArray ==
    ASSUME HeapInv, NEW v, Of(v, "Vector"), NEW d, d = object[v].ref.data,
           NEW val, val = object[v].val, NEW f, f = object[d].ref, NEW n, n = object[d].val
    PROVE  /\ v \in InUse /\ d \in InUse /\ d \notin Tables /\ v # d
           /\ v \in Refs /\ d \in Refs /\ DOMAIN object = Refs
           /\ object[v].class = "Vector" /\ object[d].class = "Array" /\ n \in Nat
           /\ object[v] = Object("Vector", [data |-> d], val)
           /\ object[d] = Object("Array", f, n)
           /\ ArrayRef(f)
<1>1. v \in InUse /\ object[v].class = "Vector" /\ Formed(v)
  BY DEF Of, HeapInv
<1>2. object[v] = Object("Vector", [data |-> d], val) /\ Of(d, "Array")
  BY <1>1 DEF Formed
<1>3. d \in InVectors
  BY <1>1 DEF InVectors
<1>4. d \notin Tables
  BY <1>3 DEF HeapInv
<1>5. d \in InUse /\ object[d].class = "Array" /\ Formed(d)
  <2>1. d \in InUse /\ object[d].class = "Array"
    BY <1>2 DEF Of
  <2>2. QED
    BY <2>1 DEF HeapInv
<1>6. /\ object[d] = Object("Array", f, n) /\ n \in Nat
      /\ ArrayRef(f)
  BY <1>5, FormedArray
<1>7. v # d /\ v \in Refs /\ d \in Refs /\ DOMAIN object = Refs
  BY <1>1, <1>5 DEF InUse, HeapInv
<1>8. QED
  BY ONLY <1>1, <1>2, <1>4, <1>5, <1>6, <1>7

(* v is a vector of val elements in array d, which is f, of n. *)
VectorOf(v, d, val, f, n) ==
    /\ v \in InUse /\ d \in InUse \ Tables /\ v # d /\ n \in Nat
    /\ object[v] = Object("Vector", [data |-> d], val)
    /\ object[d] = Object("Array", f, n)

(* ... and gets element e. *)
Extended(v, e, d, val, f, n) ==
    /\ VectorOf(v, d, val, f, n)
    /\ \A r \in Refs \ {v, d} : object'[r] = object[r]
    /\ object'[v] = Object("Vector", [data |-> d], val + 1)
    /\ object'[d] = Object("Array", [f EXCEPT ![val] = e], n)

LEMMA Stored ==
    ASSUME HeapInv, UNCHANGED moving, NEW v, Of(v, "Vector"), NEW e \in InUse, Store(v, e)
    PROVE  /\ HeapInv' /\ InUse' = InUse /\ SlotsStay
           /\ \E d, val, f, n : Extended(v, e, d, val, f, n)
<1> DEFINE D == object[v].ref.data
           C == object[v].val
           G == [object[D].ref EXCEPT ![C] = e]
<1>1. object' = [object EXCEPT ![D].ref[C] = e, ![v].val = C + 1]
  BY Zenon DEF Store
<1>2. PICK d : d = D
  OBVIOUS
<1>3. PICK val, f, n : val = C /\ f = object[d].ref /\ n = object[d].val
  OBVIOUS
<1>4. /\ v \in InUse /\ d \in InUse /\ d \notin Tables /\ v # d
      /\ v \in Refs /\ d \in Refs /\ DOMAIN object = Refs
      /\ object[v].class = "Vector" /\ object[d].class = "Array" /\ n \in Nat
      /\ object[v] = Object("Vector", [data |-> d], val)
      /\ object[d] = Object("Array", f, n)
      /\ ArrayRef(f)
  BY <1>2, <1>3, VectorHasArray
<1> HIDE DEF D, C
<1>5. PICK g : g = G
  <2> HIDE DEF G
  <2>1. QED
    OBVIOUS
<1>6. g = [f EXCEPT ![val] = e]
  BY <1>2, <1>3, <1>5
<1>7. /\ DOMAIN object' = Refs /\ \A r \in Refs \ {v, D} : object'[r] = object[r]
      /\ object'[v] = [object[v] EXCEPT !.val = C + 1]
      /\ object'[D] = [object[D] EXCEPT !.ref = G]
  BY <1>1, <1>2, <1>4
<1> HIDE DEF G
<1>8. /\ \A r \in Refs \ {v, d} : object'[r] = object[r]
      /\ object'[v] = Object("Vector", [data |-> d], val + 1)
      /\ object'[d] = Object("Array", g, n)
  <2>1. \A r \in Refs \ {v, d} : object'[r] = object[r]
    BY <1>2, <1>7
  <2>2. object'[v] = [object[v] EXCEPT !.val = val + 1]
    BY <1>3, <1>7
  <2>3. object'[v] = Object("Vector", [data |-> d], val + 1)
    BY <1>4, <2>2 DEF Object
  <2>4. object'[d] = [object[d] EXCEPT !.ref = g]
    BY <1>2, <1>5, <1>7
  <2>5. object'[d] = Object("Array", g, n)
    BY <1>4, <2>4 DEF Object
  <2>6. QED
    BY <2>1, <2>3, <2>5
<1>9. ArrayRef(g)
  BY <1>4, <1>6 DEF ArrayRef
<1>10. Extended(v, e, d, val, f, n)
  BY <1>4, <1>6, <1>8 DEF Extended, VectorOf
<1>11. HeapInv' /\ InUse' = InUse /\ SlotsStay
  BY <1>4, <1>7, <1>8, <1>9, VectorChanges
<1>12. QED
  BY <1>10, <1>11

(* v gets array a in the place of d. *)
Enlarged(v, a, d, val, f, n) ==
    /\ VectorOf(v, d, val, f, n)
    /\ \A r \in Refs \ {v, a} : object'[r] = object[r]
    /\ object'[v] = Object("Vector", [data |-> a], val)
    /\ object'[a].class = "Array" /\ object'[a].val = object[a].val
    /\ DOMAIN object'[a].ref = DOMAIN object[a].ref
    /\ \A i \in DOMAIN object[a].ref : i \in DOMAIN f => object'[a].ref[i] = f[i]

LEMMA Copied ==
    ASSUME HeapInv, UNCHANGED moving, NEW v, Of(v, "Vector"),
           NEW a, Of(a, "Array"), a \notin Tables,
           object' = [object EXCEPT ![a] = CopyTo(object[object[v].ref.data], @),
                                    ![v].ref.data = a]
    PROVE  /\ HeapInv' /\ InUse' = InUse /\ SlotsStay
           /\ \E d, val, f, n : Enlarged(v, a, d, val, f, n)
<1>1. PICK d : d = object[v].ref.data
  OBVIOUS
<1>2. PICK val, f, n : val = object[v].val /\ f = object[d].ref /\ n = object[d].val
  OBVIOUS
<1>3. /\ v \in InUse /\ d \in InUse /\ d \notin Tables /\ v # d
      /\ v \in Refs /\ d \in Refs /\ DOMAIN object = Refs
      /\ object[v].class = "Vector" /\ object[d].class = "Array" /\ n \in Nat
      /\ object[v] = Object("Vector", [data |-> d], val)
      /\ object[d] = Object("Array", f, n)
      /\ ArrayRef(f)
  BY <1>1, <1>2, VectorHasArray
<1>4. a \in InUse /\ object[a].class = "Array" /\ Formed(a) /\ a \in Refs /\ v # a
  BY <1>3 DEF Of, HeapInv, InUse
<1>5. PICK h, m : h = object[a].ref /\ m = object[a].val
  OBVIOUS
<1>6. /\ object[a] = Object("Array", h, m) /\ m \in Nat
      /\ ArrayRef(h)
  BY <1>4, <1>5, FormedArray
<1> DEFINE G == [i \in DOMAIN h |-> IF i \in DOMAIN f THEN f[i] ELSE h[i]]
<1>7. PICK g : g = G
  <2> HIDE DEF G
  <2>1. QED
    OBVIOUS
<1> DEFINE T == CopyTo(object[object[v].ref.data], object[a])
<1>8. T = Object("Array", g, m)
  <2>1. T = [object[a] EXCEPT !.ref = G]
    BY <1>1, <1>2, <1>5 DEF CopyTo
  <2> HIDE DEF G, T
  <2>2. QED
    BY <1>6, <1>7, <2>1 DEF Object
<1>9. object' = [object EXCEPT ![a] = T, ![v].ref.data = a]
  OBVIOUS
<1> HIDE DEF T
<1>10. /\ DOMAIN object' = Refs /\ \A r \in Refs \ {v, a} : object'[r] = object[r]
       /\ object'[v] = [object[v] EXCEPT !.ref.data = a]
       /\ object'[a] = T
  BY <1>3, <1>4, <1>9
<1>11. object'[v] = Object("Vector", [data |-> a], val)
  BY <1>3, <1>10 DEF Object
<1>12. ArrayRef(g)
  BY <1>3, <1>6, <1>7 DEF ArrayRef
<1> HIDE DEF G
<1>13. object'[a] = Object("Array", g, m)
  BY ONLY <1>8, <1>10
<1>14. HeapInv' /\ InUse' = InUse /\ SlotsStay
  BY ONLY HeapInv, UNCHANGED moving, <1>3, <1>4, <1>6, <1>10, <1>11, <1>12, <1>13,
          a \notin Tables, VectorChanges
<1>15. DOMAIN g = DOMAIN h /\ \A i \in DOMAIN h : i \in DOMAIN f => g[i] = f[i]
  BY <1>7 DEF G
<1>16. Enlarged(v, a, d, val, f, n)
  <2>1. object'[a].class = "Array" /\ object'[a].val = m /\ object'[a].ref = g
    BY <1>13 DEF Object
  <2>2. QED
    BY <1>3, <1>5, <1>10, <1>11, <1>15, <2>1 DEF Enlarged, VectorOf
<1>17. QED
  BY <1>14, <1>16

LEMMA PushBackObjects ==
    ASSUME StackInv, StackInv', ObjectsInv, PushBack PROVE ObjectsInv'
<1> USE DEF Places, Allocations, Fresh
<1>0. /\ Frame("push_back") = FrameOf(<<0, 3>>, {6}, InLoop)
      /\ Frame("own_elem") = FrameOf(<<0, 3, 6>>, {7}, InLoop \cup {"h_self"})
      /\ \A l \in {"is_full", "resize"} : Frame(l) = FrameOf(<<0, 3, 6>>, {8}, InPush)
      /\ Frame("store") = FrameOf(<<0, 3, 6>>, {8, 9}, InPush)
      /\ Frame("next_word") = FrameOf(<<0, 3>>, {6}, InLoop)
  BY DEF Frame
<1>1. CASE /\ pc = "push_back" /\ pc' = "own_elem" /\ Push("h_self", Read("vector"))
           /\ raw' = Read("vector")
           /\ UNCHANGED <<moving, object, oop, inputVars, pos>>
  <2>1. HeapInv' /\ SlotsStay /\ InUse' = InUse
    BY <1>1, SameHeap DEF ObjectsInv
  <2>2. PICK v : v = Read("vector")
    OBVIOUS
  <2>3. Len(slots) = 6 /\ v = slots[3] /\ slots'[3] = v /\ IsA(v, "Vector") /\ Of(oop, "Pair")
    <3>1. Len(slots) = 6 /\ v = slots[3] /\ IsA(v, "Vector")
      BY <1>0, <1>1, <2>2, DepthIs, ReadsAre DEF FrameOf, InLoop, InCount, Slot, ClassOf
    <3>2. slots'[3] = slots[3]
      BY <1>1, <3>1, SlotsKept
    <3>3. Of(oop, "Pair")
      BY <1>1 DEF ObjectsInv, PlaceInv, OopAt
    <3>4. QED
      BY <3>1, <3>2, <3>3
  <2>4. IsA(v, "Vector")'
    BY <1>1, <2>1, <2>3 DEF IsA, Of
  <2>5. v # Stale
    BY <2>3, RefsAssumption DEF IsA, Of, InUse
  <2>6. Arrives("own_elem")
    BY <1>1, <2>1, <2>2, <2>3, <2>5
       DEF Arrives, OopAt, SlotsAt, RawFrom, ObjectsInv, InputInv, Of, IsA
  <2>7. QED
    BY <1>0, <1>1, <2>2, <2>3, <2>4, <2>6, PushObjects DEF FrameOf, Handles, Slot, ClassOf
<1>2. CASE /\ pc = "own_elem" /\ pc' = "is_full" /\ Push("h_elem", oop)
           /\ UNCHANGED <<moving, object, oop, raw, inputVars, pos>>
  <2>1. HeapInv' /\ SlotsStay /\ InUse' = InUse
    BY <1>2, SameHeap DEF ObjectsInv
  <2>2. Len(slots) = 7 /\ slots'[3] = slots[3]
    BY <1>0, <1>2, DepthIs, SlotsKept DEF FrameOf
  <2>3. Of(oop, "Pair") /\ raw = slots[3] /\ raw # Stale
    BY <1>2 DEF ObjectsInv, PlaceInv, OopAt, RawFrom, Lost
  <2>4. IsA(oop, "Pair")'
    BY <1>2, <2>1, <2>3 DEF IsA, Of
  <2>5. Arrives("is_full")
    BY <1>2, <2>1, <2>2, <2>3
       DEF Arrives, OopAt, SlotsAt, RawFrom, ObjectsInv, InputInv, Lost
  <2>6. QED
    BY <1>0, <1>2, <2>2, <2>4, <2>5, PushObjects
       DEF FrameOf, Handles, Slot, ClassOf, InPush, Of
<1>3. CASE /\ pc = "is_full" /\ pc' \in {"resize", "store"}
           /\ UNCHANGED <<slots, handle, moving, object, oop, raw, inputVars, pos>>
  <2>1. HeapInv' /\ SlotsStay /\ InUse' = InUse
    BY <1>3, SameHeap DEF ObjectsInv
  <2>2. raw = slots[3] /\ raw # Stale
    BY <1>3 DEF ObjectsInv, PlaceInv, RawFrom, Lost
  <2>3. CASE pc' = "resize"
    <3>1. Arrives("resize")
      BY <1>3, <2>1, <2>2, <2>3
         DEF Arrives, OopAt, SlotsAt, RawFrom, ObjectsInv, InputInv, Lost
    <3>2. QED
      BY <1>0, <1>3, <3>1, KeepObjects
  <2>4. CASE pc' = "store"
    <3>1. Arrives("store")
      BY <1>3, <2>1, <2>2, <2>4
         DEF Arrives, OopAt, SlotsAt, RawFrom, ObjectsInv, InputInv, Lost
    <3>2. QED
      BY <1>0, <1>3, <3>1, KeepObjects DEF FrameOf
  <2>5. QED
    BY <1>3, <2>3, <2>4
<1>4. CASE /\ pc = "store" /\ pc' = "next_word" /\ Leave
           /\ Store(Read("h_self"), Read("h_elem"))
           /\ UNCHANGED <<moving, oop, raw, inputVars, pos>>
  <2>1. PICK v, e : v = Read("h_self") /\ e = Read("h_elem")
    OBVIOUS
  <2>2. Of(v, "Vector") /\ e \in InUse
    BY <1>0, <1>4, <2>1, ReadsAre DEF FrameOf, InPush, ClassOf, IsA, Of
  <2>3. HeapInv' /\ SlotsStay /\ InUse' = InUse
    <3>1. Store(v, e) /\ UNCHANGED moving
      BY <1>4, <2>1
    <3>2. QED
      BY <2>2, <3>1, Stored DEF ObjectsInv
  <2>4. Last(marks) = 6 /\ 6 \in 0 .. Len(slots) /\ slots'[3] = slots[3]
    <3>1. Last(<<0, 3, 6>>) = 6
      BY SavedDepths DEF Extends
    <3>2. Frame(pc).saved = <<0, 3, 6>> /\ Frame(pc).used = {8, 9}
      BY <1>0, <1>4 DEF FrameOf
    <3>3. Last(marks) = 6
      BY <1>4, <3>1, <3>2, DepthIs
    <3>4. Len(slots) \in {8, 9}
      BY <1>4, <3>2, DepthIs
    <3>5. \A n \in {8, 9} : 6 \in 0 .. n
      OBVIOUS
    <3>6. 6 \in 0 .. Len(slots)
      BY ONLY <3>4, <3>5
    <3>7. \A i \in 1 .. 6 : slots'[i] = slots[i]
      BY <1>4, <3>3, <3>6, SlotsKept
    <3>8. QED
      BY <3>3, <3>6, <3>7
  <2>5. Arrives("next_word")
    <3>1. raw = slots[3] \/ Lost(raw)
      BY <1>4 DEF ObjectsInv, PlaceInv, RawFrom
    <3>2. QED
      BY <1>4, <2>3, <2>4, <3>1
         DEF Arrives, OopAt, SlotsAt, RawFrom, ObjectsInv, InputInv, Lost
  <2>6. QED
    BY <1>0, <1>4, <2>4, <2>5, LeaveObjects DEF FrameOf, InPush
<1>5. QED
  BY <1>1, <1>2, <1>3, <1>4
     DEF PushBack, New, MakeHandle, At, Goto, stackVars, heapVars, countVars

LEMMA ResizeVectorObjects ==
    ASSUME StackInv, StackInv', ObjectsInv, ResizeVector PROVE ObjectsInv'
<1> USE DEF Places, Allocations, Fresh
<1> DEFINE Data == object[Read("hm_self")].ref.data
<1>0. /\ Frame("resize") = FrameOf(<<0, 3, 6>>, {8}, InPush)
      /\ \A l \in {"make_larger", "copy_to"} :
            Frame(l) = FrameOf(<<0, 3, 6>>, {9}, InPush \cup {"hm_self"})
      /\ Frame("store") = FrameOf(<<0, 3, 6>>, {8, 9}, InPush)
  BY DEF Frame
<1>1. CASE /\ pc = "resize" /\ pc' = "make_larger" /\ Push("hm_self", raw)
           /\ UNCHANGED <<moving, object, oop, raw, inputVars, pos>>
  <2>1. HeapInv' /\ SlotsStay /\ InUse' = InUse
    BY <1>1, SameHeap DEF ObjectsInv
  <2>2. Len(slots) = 8 /\ slots'[3] = slots[3] /\ raw = slots[3] /\ IsA(slots[3], "Vector")
    <3>1. Len(slots) = 8 /\ IsA(slots[3], "Vector")
      BY <1>0, <1>1, DepthIs, ReadsAre DEF FrameOf, InPush, InLoop, InCount, Slot, ClassOf
    <3>2. slots'[3] = slots[3]
      BY <1>1, <3>1, SlotsKept
    <3>3. raw = slots[3]
      BY <1>1 DEF ObjectsInv, PlaceInv, RawFrom, Lost
    <3>4. QED
      BY <3>1, <3>2, <3>3
  <2>3. IsA(raw, "Vector")'
    BY <1>1, <2>1, <2>2 DEF IsA, Of
  <2>4. Arrives("make_larger")
    BY <1>1, <2>1, <2>2
       DEF Arrives, OopAt, SlotsAt, RawFrom, ObjectsInv, InputInv, IsA, Of
  <2>5. QED
    BY <1>0, <1>1, <2>2, <2>3, <2>4, PushObjects DEF FrameOf, Handles, Slot, ClassOf
<1>2. CASE /\ pc = "make_larger" /\ pc' = "copy_to" /\ Alloc(Array(2 * object[Data].val))
           /\ UNCHANGED <<slots, handle, inputVars, pos>>
  <2>1. PICK v, n : v = Read("hm_self") /\ n = 2 * object[Data].val
    OBVIOUS
  <2>2. Of(v, "Vector") /\ 3 \in DOMAIN slots
    BY <1>0, <1>2, <2>1, ReadsAre DEF FrameOf, InPush, InLoop, InCount, ClassOf, Slot, IsA
  <2>3. n \in Nat
    <3>1. PICK d : d = object[v].ref.data
      OBVIOUS
    <3>2. HeapInv
      BY DEF ObjectsInv
    <3>3. Formed(v) /\ object[v].class = "Vector"
      BY <2>2, <3>2 DEF Of, HeapInv
    <3>4. Of(d, "Array")
      BY <3>1, <3>3 DEF Formed
    <3>5. Formed(d) /\ object[d].class = "Array"
      BY <3>2, <3>4 DEF Of, HeapInv
    <3>6. object[d].val \in Nat
      BY <3>5 DEF Formed
    <3>7. QED
      BY <2>1, <3>1, <3>6
  <2>4. Rooted(raw)
    BY <1>2, <2>2, RawIsRooted DEF ObjectsInv, PlaceInv, RawFrom
  <2>5. Array(n).class = "Array" /\ Array(n) # Free
    BY DEF Array, Object, Free
  <2>6. /\ UNCHANGED moving /\ SlotsStay
        /\ oop' \in InUse' /\ object'[oop'] = Array(n)
        /\ raw' = raw \/ Lost(raw)'
        /\ raw' \in InUse' \cup {Null} \/ Lost(raw)'
        /\ HeapInv' /\ oop' \notin Tables'
    <3>1. Alloc(Array(n))
      BY <1>2, <2>1
    <3>2. QED
      BY <2>3, <2>4, <2>5, <3>1, AfterAlloc, NewObjects DEF ObjectsInv
  <2>7. raw' = slots'[3] \/ Lost(raw)'
    <3>1. raw = slots[3] \/ Lost(raw)
      BY <1>2 DEF ObjectsInv, PlaceInv, RawFrom
    <3>2. QED
      BY <1>2, <2>6, <3>1 DEF Lost
  <2>8. Arrives("copy_to")
    BY <1>2, <2>5, <2>6, <2>7 DEF Arrives, OopAt, SlotsAt, RawFrom, ObjectsInv, InputInv, Of
  <2>9. QED
    BY <1>0, <1>2, <2>8, KeepObjects DEF FrameOf
<1>3. CASE /\ pc = "copy_to" /\ pc' = "store"
           /\ object' = [object EXCEPT ![oop] = CopyTo(object[Data], @),
                                       ![Read("hm_self")].ref.data = oop]
           /\ UNCHANGED <<slots, handle, moving, oop, raw, inputVars, pos>>
  <2>1. PICK v, a : v = Read("hm_self") /\ a = oop
    OBVIOUS
  <2>2. Of(v, "Vector") /\ Of(a, "Array") /\ a \notin Tables
    <3>1. Of(v, "Vector")
      BY <1>0, <1>3, <2>1, ReadsAre DEF FrameOf, ClassOf, IsA
    <3>2. Of(a, "Array") /\ a \notin Tables
      BY <1>3, <2>1 DEF ObjectsInv, PlaceInv, OopAt
    <3>3. QED
      BY <3>1, <3>2
  <2>3. HeapInv' /\ InUse' = InUse /\ SlotsStay
    <3>1. object' = [object EXCEPT ![a] = CopyTo(object[object[v].ref.data], @),
                                   ![v].ref.data = a]
      BY <1>3, <2>1
    <3>2. HeapInv /\ UNCHANGED moving
      BY <1>3 DEF ObjectsInv
    <3>3. QED
      BY ONLY <2>2, <3>1, <3>2, Copied
  <2>4. Arrives("store")
    <3>1. raw = slots[3] \/ Lost(raw)
      BY <1>3 DEF ObjectsInv, PlaceInv, RawFrom
    <3>2. QED
      BY <1>3, <2>3, <3>1
         DEF Arrives, OopAt, SlotsAt, RawFrom, ObjectsInv, InputInv, Lost
  <2>5. QED
    BY <1>0, <1>3, <2>4, KeepObjects DEF FrameOf
<1>4. QED
  BY <1>1, <1>2, <1>3
     DEF ResizeVector, New, MakeHandle, At, Goto, stackVars, heapVars, countVars

(* Iterator i, which had node e and then k before it, goes on. *)
GoesOn(i, e, m, val, k) ==
    /\ object[i] = IteratorOf(e, m, val) /\ Of(e, "Node") /\ Of(m, "HashMap")
    /\ val \in Nat /\ k = NextOf(e) /\ OrNull(k, "Node") /\ oop' = e
    /\ \A r \in Refs \ {i} : object'[r] = object[r]
    /\ object'[i] = IF k = Null THEN Advance(IteratorOf(k, m, val)) ELSE IteratorOf(k, m, val)

LEMMA NextNodeIs ==
    ASSUME HeapInv, UNCHANGED moving, NEW i, IsA(i, "HashMapIterator"),
           object[i].ref.next # Null, NextNode(i)
    PROVE  /\ HeapInv' /\ InUse' = InUse /\ SlotsStay /\ Of(oop, "Node")'
           /\ \E e, m, val, k : GoesOn(i, e, m, val, k)
<1> DEFINE E    == object[i].ref.next
           step == [object[i] EXCEPT !.ref.next = object[E].ref.next]
<1>1. /\ oop' = E
      /\ object' = [object EXCEPT ![i] = IF step.ref.next = Null THEN Advance(step)
                                         ELSE step]
  BY Zenon DEF NextNode
<1>2. PICK e, m, val : e = E /\ m = object[i].ref.hashMap /\ val = object[i].val
  OBVIOUS
<1> HIDE DEF E
<1>3. /\ i \in InUse /\ object[i].class = "HashMapIterator" /\ Formed(i) /\ i \in Refs
      /\ DOMAIN object = Refs
  BY DEF IsA, Of, HeapInv, InUse
<1>4. /\ object[i] = IteratorOf(e, m, val)
      /\ Of(e, "Node") /\ Of(m, "HashMap") /\ val \in Nat
  <2>1. m # Null /\ e # Null
    BY <1>2 DEF IsA, E
  <2>2. QED
    BY <1>2, <1>3, <2>1 DEF Formed, IteratorOf, OrNull, Object, E
<1>5. PICK k : k = object[e].ref.next
  OBVIOUS
<1>6. OrNull(k, "Node")
  <2>1. Formed(e) /\ object[e].class = "Node"
    BY <1>4 DEF Of, HeapInv
  <2>2. QED
    BY <1>5, <2>1 DEF Formed
<1>7. step = IteratorOf(k, m, val)
  BY <1>2, <1>4, <1>5 DEF IteratorOf, Object
<1> HIDE DEF step
<1>8. PICK x, v : OrNull(x, "Node") /\ v \in Nat /\ object'[i] = IteratorOf(x, m, v)
  <2>1. CASE step.ref.next = Null
    <3>1. object'[i] = Advance(step)
      BY <1>1, <1>3, <2>1
    <3>2. QED
      BY <1>4, <1>6, <1>7, <3>1, AdvanceForms
  <2>2. CASE step.ref.next # Null
    <3>1. object'[i] = step
      BY <1>1, <1>3, <2>2
    <3>2. QED
      BY <1>4, <1>6, <1>7, <3>1
  <2>3. QED
    BY <2>1, <2>2
<1>9. DOMAIN object' = Refs /\ \A q \in Refs \ {i} : object'[q] = object[q]
  BY <1>1, <1>3
<1>10. /\ object'[i].class = "HashMapIterator" /\ object'[i] # Free
       /\ object'[i].ref.hashMap = m
  BY <1>8 DEF IteratorOf, Object, Free
<1>11. m # Null /\ m # i
  BY <1>3, <1>4, RefsAssumption DEF Of, InUse
<1>12. ASSUME InUse' = InUse PROVE Formed(i)'
  <2>1. OrNull(x, "Node")' /\ Of(m, "HashMap")'
    <3>1. \A r \in Refs : object'[r].class = object[r].class
      BY <1>3, <1>9, <1>10
    <3>2. QED
      BY <1>4, <1>8, <1>12, <3>1 DEF OrNull, Of, InUse
  <2>2. QED
    BY <1>8, <1>10, <2>1 DEF Formed, IteratorOf, Object, OrNull
<1>13. HeapInv' /\ InUse' = InUse /\ SlotsStay
  BY <1>3, <1>9, <1>10, <1>11, <1>12, OneChanges DEF IsA
<1>14. Of(oop, "Node")'
  <2>1. e # i /\ e \in Refs
    BY <1>3, <1>4 DEF Of, InUse
  <2>2. QED
    BY <1>1, <1>2, <1>4, <1>9, <1>13, <2>1 DEF Of
<1>15. GoesOn(i, e, m, val, k)
  <2>1. step.ref.next = k
    BY <1>7 DEF IteratorOf, Object
  <2>2. object'[i] = IF k = Null THEN Advance(step) ELSE step
    BY <1>1, <1>3, <2>1
  <2>3. QED
    BY <1>1, <1>2, <1>4, <1>5, <1>6, <1>7, <1>9, <2>2 DEF GoesOn, NextOf
<1>16. QED
  BY <1>13, <1>14, <1>15

LEMMA CountObjects ==
    ASSUME StackInv, StackInv', ObjectsInv, Count PROVE ObjectsInv'
<1> USE DEF Places, Allocations, Fresh
<1>0. /\ Frame("count") = FrameOf(<<>>, {0}, {})
      /\ \A l \in {"parse_file", "own_result"} : Frame(l) = FrameOf(<<0>>, {0}, {})
      /\ \A l \in {"iterator", "own_iter"} : Frame(l) = FrameOf(<<0>>, {1}, {"hashMap"})
      /\ \A l \in {"make_array", "own_vector"} :
            Frame(l) = FrameOf(<<0>>, {2}, {"hashMap", "iter"})
      /\ \A l \in {"has_next", "print"} : Frame(l) = FrameOf(<<0>>, {3}, InCount)
      /\ Frame("own_node") = FrameOf(<<0, 3>>, {3}, InCount)
      /\ \A l \in {"add_count", "make_first"} :
            Frame(l) = FrameOf(<<0, 3>>, {4}, InCount \cup {"curr"})
      /\ Frame("next_word") = FrameOf(<<0, 3>>, {6}, InLoop)
      /\ Frame("done") = FrameOf(<<>>, {0}, {})
  BY DEF Frame
<1>1. CASE /\ pc = "count" /\ pc' = "parse_file"
           /\ UNCHANGED <<slots, handle, moving, object, oop, raw, pos, inputVars>>
  <2>1. HeapInv' /\ SlotsStay /\ InUse' = InUse
    BY <1>1, SameHeap DEF ObjectsInv
  <2>2. raw = Null \/ Lost(raw)
    BY <1>1 DEF ObjectsInv, PlaceInv, RawFrom
  <2>3. Arrives("parse_file")
    BY <1>1, <2>1, <2>2 DEF Arrives, OopAt, SlotsAt, RawFrom, ObjectsInv, InputInv, Lost
  <2>4. QED
    BY <1>0, <1>1, <2>3, KeepObjects DEF FrameOf
<1>2. CASE /\ pc = "own_result" /\ pc' = "iterator" /\ Push("hashMap", oop)
           /\ UNCHANGED <<moving, object, oop, raw, pos, inputVars>>
  <2>1. HeapInv' /\ SlotsStay /\ InUse' = InUse
    BY <1>2, SameHeap DEF ObjectsInv
  <2>2. Len(slots) = 0 /\ slots'[1] = oop
    BY <1>0, <1>2, DepthIs, SlotsKept DEF FrameOf
  <2>3. Of(oop, "HashMap") /\ (raw \in {Null, oop} \/ Lost(raw))
    BY <1>2 DEF ObjectsInv, PlaceInv, OopAt, RawFrom
  <2>4. IsA(oop, "HashMap")'
    BY <1>2, <2>1, <2>3 DEF IsA, Of
  <2>5. Arrives("iterator")
    BY <1>2, <2>1, <2>2, <2>3
       DEF Arrives, OopAt, SlotsAt, RawFrom, ObjectsInv, InputInv, Lost
  <2>6. QED
    BY <1>0, <1>2, <2>2, <2>4, <2>5, PushObjects DEF FrameOf, Handles, Slot, ClassOf, Of
<1>3. CASE /\ pc = "own_iter" /\ pc' = "make_array" /\ Push("iter", oop)
           /\ UNCHANGED <<moving, object, oop, raw, pos, inputVars>>
  <2>1. HeapInv' /\ SlotsStay /\ InUse' = InUse
    BY <1>3, SameHeap DEF ObjectsInv
  <2>2. Len(slots) = 1 /\ slots'[1] = slots[1]
    BY <1>0, <1>3, DepthIs, SlotsKept DEF FrameOf
  <2>3. IsA(oop, "HashMapIterator") /\ (raw = slots[1] \/ Lost(raw))
    BY <1>3 DEF ObjectsInv, PlaceInv, OopAt, RawFrom
  <2>4. IsA(oop, "HashMapIterator")'
    BY <1>3, <2>1, <2>3 DEF IsA, Of
  <2>5. Arrives("make_array")
    BY <1>3, <2>1, <2>2, <2>3
       DEF Arrives, OopAt, SlotsAt, RawFrom, ObjectsInv, InputInv, Lost
  <2>6. QED
    BY <1>0, <1>3, <2>2, <2>4, <2>5, PushObjects DEF FrameOf, Handles, Slot, ClassOf
<1>4. CASE /\ pc = "own_vector" /\ pc' = "has_next" /\ Push("vector", oop)
           /\ UNCHANGED <<moving, object, oop, raw, pos, inputVars>>
  <2>1. HeapInv' /\ SlotsStay /\ InUse' = InUse
    BY <1>4, SameHeap DEF ObjectsInv
  <2>2. Len(slots) = 2 /\ slots'[1] = slots[1]
    BY <1>0, <1>4, DepthIs, SlotsKept DEF FrameOf
  <2>3. Of(oop, "Vector") /\ (raw = slots[1] \/ Lost(raw))
    BY <1>4 DEF ObjectsInv, PlaceInv, OopAt, RawFrom
  <2>4. IsA(oop, "Vector")'
    BY <1>4, <2>1, <2>3 DEF IsA, Of
  <2>5. Arrives("has_next")
    BY <1>4, <2>1, <2>2, <2>3
       DEF Arrives, OopAt, SlotsAt, RawFrom, ObjectsInv, InputInv, Lost
  <2>6. QED
    BY <1>0, <1>4, <2>2, <2>4, <2>5, PushObjects
       DEF FrameOf, Handles, Slot, ClassOf, InCount
<1>5. CASE /\ pc = "has_next" /\ pc' = "own_node" /\ object[Read("iter")].ref.next # Null
           /\ NextNode(Read("iter"))
           /\ UNCHANGED <<slots, handle, moving, raw, pos, inputVars>>
  <2>1. PICK i : i = Read("iter")
    OBVIOUS
  <2>2. IsA(i, "HashMapIterator")
    BY <1>0, <1>5, <2>1, ReadsAre DEF FrameOf, InCount, ClassOf
  <2>3. HeapInv' /\ SlotsStay /\ InUse' = InUse /\ Of(oop, "Node")'
    <3>1. NextNode(i) /\ object[i].ref.next # Null
      BY <1>5, <2>1
    <3>2. QED
      BY <1>5, <2>2, <3>1, NextNodeIs DEF ObjectsInv
  <2>4. raw \in {slots[1], slots[3]} \/ Lost(raw)
    BY <1>5 DEF ObjectsInv, PlaceInv, RawFrom
  <2>5. Arrives("own_node")
    BY <1>5, <2>3, <2>4
       DEF Arrives, OopAt, SlotsAt, RawFrom, ObjectsInv, InputInv, Lost, Of
  <2>6. QED
    BY <1>0, <1>5, <2>5, KeepObjects DEF FrameOf
<1>6. CASE /\ pc = "own_node" /\ pc' = "add_count" /\ Push("curr", oop)
           /\ UNCHANGED <<moving, object, oop, raw, pos, inputVars>>
  <2>1. HeapInv' /\ SlotsStay /\ InUse' = InUse
    BY <1>6, SameHeap DEF ObjectsInv
  <2>2. Len(slots) = 3 /\ slots'[1] = slots[1] /\ slots'[3] = slots[3]
    BY <1>0, <1>6, DepthIs, SlotsKept DEF FrameOf
  <2>3. Of(oop, "Node") /\ (raw \in {slots[1], slots[3]} \/ Lost(raw))
    BY <1>6 DEF ObjectsInv, PlaceInv, OopAt, RawFrom
  <2>4. IsA(oop, "Node")'
    BY <1>6, <2>1, <2>3 DEF IsA, Of
  <2>5. Arrives("add_count")
    BY <1>6, <2>1, <2>2, <2>3
       DEF Arrives, OopAt, SlotsAt, RawFrom, ObjectsInv, InputInv, Lost
  <2>6. QED
    BY <1>0, <1>6, <2>2, <2>4, <2>5, PushObjects DEF FrameOf, Handles, Slot, ClassOf
<1>7. CASE /\ pc = "add_count" /\ pc' = "make_first"
           /\ UNCHANGED <<slots, handle, moving, object, oop, raw, pos, inputVars>>
  <2>1. HeapInv' /\ SlotsStay /\ InUse' = InUse
    BY <1>7, SameHeap DEF ObjectsInv
  <2>2. raw \in {slots[1], slots[3]} \/ Lost(raw)
    BY <1>7 DEF ObjectsInv, PlaceInv, RawFrom
  <2>3. Arrives("make_first")
    BY <1>7, <2>1, <2>2 DEF Arrives, OopAt, SlotsAt, RawFrom, ObjectsInv, InputInv, Lost
  <2>4. QED
    BY <1>0, <1>7, <2>3, KeepObjects DEF FrameOf
<1>8. CASE /\ pc = "next_word" /\ pc' = "has_next" /\ Leave
           /\ UNCHANGED <<moving, object, oop, raw, pos, inputVars>>
  <2>1. HeapInv' /\ SlotsStay /\ InUse' = InUse
    BY <1>8, SameHeap DEF ObjectsInv
  <2>2. Len(slots) = 6 /\ Last(marks) = 3 /\ slots'[3] = slots[3]
    <3>1. Last(<<0, 3>>) = 3
      BY SavedDepths DEF Extends
    <3>2. Len(slots) = 6 /\ Last(marks) = 3
      BY <1>0, <1>8, <3>1, DepthIs DEF FrameOf
    <3>3. QED
      BY <1>8, <3>2, SlotsKept
  <2>3. raw = slots[3] \/ Lost(raw)
    BY <1>8 DEF ObjectsInv, PlaceInv, RawFrom
  <2>4. Arrives("has_next")
    BY <1>8, <2>1, <2>2, <2>3
       DEF Arrives, OopAt, SlotsAt, RawFrom, ObjectsInv, InputInv, Lost
  <2>5. QED
    BY <1>0, <1>8, <2>2, <2>4, LeaveObjects DEF FrameOf, InLoop
<1>9. CASE /\ pc = "has_next" /\ pc' = "print"
           /\ UNCHANGED <<slots, handle, moving, object, oop, raw, pos, inputVars>>
  <2>1. HeapInv' /\ SlotsStay /\ InUse' = InUse
    BY <1>9, SameHeap DEF ObjectsInv
  <2>2. slots[1] \in InUse /\ slots[3] \in InUse
    BY <1>0, <1>9, ReadsAre DEF FrameOf, InCount, Slot, IsA, Of
  <2>3. raw \in {slots[1], slots[3]} \/ Lost(raw)
    BY <1>9 DEF ObjectsInv, PlaceInv, RawFrom
  <2>4. Arrives("print")
    BY <1>9, <2>1, <2>2, <2>3
       DEF Arrives, OopAt, SlotsAt, RawFrom, ObjectsInv, InputInv, Lost
  <2>5. QED
    BY <1>0, <1>9, <2>4, KeepObjects DEF FrameOf
<1>10. CASE /\ pc = "print" /\ pc' = "done" /\ Leave
            /\ UNCHANGED <<moving, object, oop, raw, pos, inputVars>>
  <2>1. HeapInv' /\ SlotsStay /\ InUse' = InUse
    BY <1>10, SameHeap DEF ObjectsInv
  <2>2. Len(slots) = 3 /\ Last(marks) = 0
    <3>1. Last(<<0>>) = 0
      BY SavedDepths DEF Extends
    <3>2. QED
      BY <1>0, <1>10, <3>1, DepthIs DEF FrameOf
  <2>3. raw \in InUse \/ Lost(raw)
    BY <1>10 DEF ObjectsInv, PlaceInv, RawFrom
  <2>4. Arrives("done")
    BY <1>10, <2>1, <2>3 DEF Arrives, OopAt, SlotsAt, RawFrom, ObjectsInv, InputInv, Lost
  <2>5. QED
    BY <1>0, <1>10, <2>2, <2>4, LeaveObjects DEF FrameOf
<1>11. QED
  BY <1>1, <1>2, <1>3, <1>4, <1>5, <1>6, <1>7, <1>8, <1>9, <1>10
     DEF Count, New, MakeHandle, At, Goto, stackVars, heapVars, countVars

(* An address that leads nowhere is one that a collection or the Buffer    *)
(* has moved away from under it.                                           *)
LEMMA LoseTrackObjects ==
    ASSUME StackInv, ObjectsInv, LoseTrack PROVE ObjectsInv'
<1>1. /\ UNCHANGED <<base, slots, handle, moving, object, oop, raw, pos, text, hash>>
      /\ pc' = "undefined"
  BY DEF LoseTrack, Goto, stackVars, heapVars, countVars, inputVars
<1>2. HeapInv' /\ InUse' = InUse
  BY <1>1, SameHeap DEF ObjectsInv
<1>3. InputInv' /\ SlotsInv'
  BY <1>1, <1>2 DEF ObjectsInv, InputInv, SlotsInv, Lost
<1>4. (raw = Stale => moving) /\ (Stale \in Reachable => moving)
  BY WhatIsReached, RefsAssumption DEF ObjectsInv, Lost, InUse
<1>5. moving \/ base # 1
  <2>1. CASE \E h \in Derefs(pc) : ~Valid(h)
    <3>1. PICK h \in Derefs(pc) : ~Valid(h)
      BY <2>1
    <3>2. pc # "undefined"
      BY <3>1 DEF Derefs
    <3>3. h \in Frame(pc).names
      BY <3>1, <3>2, DerefsAreInScope DEF StackInv
    <3>4. handle[h] \in (1 .. base) \X {Slot[h]}
      BY <3>2, <3>3 DEF StackInv, InFrame, InSlot
    <3>5. handle[h][1] \in 1 .. base /\ handle[h][1] # base
      BY <3>1, <3>4 DEF Valid
    <3>6. QED
      BY <3>5
  <2>2. CASE pc = "make_pair" /\ ~Valid("curr")
    <3>1. "curr" \in Frame(pc).names /\ InFrame(Frame(pc))
      BY <2>2 DEF StackInv, Frame, FrameOf
    <3>2. handle["curr"] \in (1 .. base) \X {Slot["curr"]}
      BY <3>1 DEF InFrame, InSlot
    <3>3. handle["curr"][1] \in 1 .. base /\ handle["curr"][1] # base
      BY <2>2, <3>2 DEF Valid
    <3>4. QED
      BY <3>3
  <2>3. CASE raw = Stale \/ Stale \in Reachable
    BY <1>4, <2>3
  <2>4. QED
    BY <2>1, <2>2, <2>3 DEF LoseTrack
<1>6. QED
  BY <1>1, <1>2, <1>3, <1>5 DEF ObjectsInv, Lost

LEMMA SameObjects ==
    ASSUME StackInv, ObjectsInv, UNCHANGED vars PROVE ObjectsInv'
<1>1. UNCHANGED <<base, slots, handle, moving, object, oop, raw, pos, text, hash, pc>>
  BY DEF vars, stackVars, heapVars, countVars, inputVars
<1>2. /\ HeapInv' /\ SlotsStay /\ InUse' = InUse
      /\ Tables' = Tables /\ InVectors' = InVectors
  BY <1>1, SameHeap DEF ObjectsInv
<1>3. CASE pc = "undefined"
  BY <1>1, <1>2, <1>3 DEF ObjectsInv, InputInv, SlotsInv, Lost
<1>4. CASE pc # "undefined"
  <2>1. PICK l : l = pc
    OBVIOUS
  <2>2. OopAt(l)'
    <3>1. OopAt(l)
      BY <1>4, <2>1 DEF ObjectsInv, PlaceInv
    <3>2. QED
      BY <1>1, <1>2, <3>1 DEF OopAt, IsA, Of, Trace
  <2>3. SlotsAt(l)' /\ (raw' \in RawFrom(l)' \/ Lost(raw)') /\ (l \in Fresh => raw' # Stale)
    <3>1. SlotsAt(l) /\ (raw \in RawFrom(l) \/ Lost(raw)) /\ (l \in Fresh => raw # Stale)
      BY <1>4, <2>1 DEF ObjectsInv, PlaceInv
    <3>2. SlotsAt(l)'
      BY <1>1, <1>2, <3>1 DEF SlotsAt
    <3>3. RawFrom(l)' = RawFrom(l)
      BY <1>1, <1>2 DEF RawFrom
    <3>4. QED
      BY <1>1, <3>1, <3>2, <3>3 DEF Lost
  <2>4. Arrives(l)
    BY <1>1, <1>2, <1>4, <2>1, <2>2, <2>3
       DEF Arrives, ObjectsInv, InputInv, inputVars, StackInv, Lost
  <2>5. QED
    BY <1>1, <1>4, <2>1, <2>4, KeepObjects
<1>5. QED
  BY <1>3, <1>4

LEMMA InitObjectsInv == Init => ObjectsInv
<1> SUFFICES ASSUME Init PROVE ObjectsInv
  OBVIOUS
<1>1. /\ slots = <<>> /\ moving \in BOOLEAN /\ object = [r \in Refs |-> Free]
      /\ oop = Null /\ raw = Null /\ pos = 0 /\ pc = "count"
      /\ hash \in [Words -> Hashes]
  BY DEF Init, InitStack, InitHeap
<1>2. text \in Seq(Words)
  <2>1. PICK n \in 0 .. MaxText : text \in [1 .. n -> Words]
    BY DEF Init
  <2>2. n \in Nat
    BY <2>1
  <2>3. QED
    BY <2>1, <2>2
<1>3. InputInv
  BY <1>1, <1>2 DEF InputInv
<1>4. InUse = {}
  BY <1>1 DEF InUse
<1>5. Nodes = {}
  BY <1>1 DEF Nodes, Free, Object
<1>6. Tables = {} /\ InVectors = {}
  BY <1>4 DEF Tables, InVectors
<1>7. HeapInv
  BY <1>1, <1>4, <1>5, <1>6 DEF HeapInv, Acyclic
<1>8. SlotsInv
  BY <1>1 DEF SlotsInv
<1>9. PlaceInv("count")
  BY <1>1 DEF PlaceInv, Frame, FrameOf, OopAt, SlotsAt, RawFrom, Fresh
<1>10. QED
  BY <1>1, <1>3, <1>7, <1>8, <1>9 DEF ObjectsInv

LEMMA NextObjectsInv == StackInv /\ StackInv' /\ ObjectsInv /\ [Next]_vars => ObjectsInv'
<1> SUFFICES ASSUME StackInv, StackInv', ObjectsInv, [Next]_vars PROVE ObjectsInv'
  OBVIOUS
<1>1. CASE HashMapMake
  BY <1>1, HashMapMakeObjects
<1>2. CASE Put
  BY <1>2, PutObjects
<1>3. CASE MakeIterator
  BY <1>3, MakeIteratorObjects
<1>4. CASE VectorMake
  BY <1>4, VectorMakeObjects
<1>5. CASE PairMake
  BY <1>5, PairMakeObjects
<1>6. CASE PushBack
  BY <1>6, PushBackObjects
<1>7. CASE ResizeVector
  BY <1>7, ResizeVectorObjects
<1>8. CASE UpdateValue
  BY <1>8, UpdateValueObjects
<1>9. CASE ParseFile
  BY <1>9, ParseFileObjects
<1>10. CASE Count
  BY <1>10, CountObjects
<1>11. CASE LoseTrack
  BY <1>11, LoseTrackObjects
<1>12. CASE UNCHANGED vars
  BY <1>12, SameObjects
<1>13. QED
  BY <1>1, <1>2, <1>3, <1>4, <1>5, <1>6, <1>7, <1>8, <1>9, <1>10, <1>11, <1>12
     DEF Next, Stopped

-----------------------------------------------------------------------------
(* What follows for the run's properties. *)

(* At each place the Handles in scope lead to objects of their classes, the*)
(* chains of the map end, and what the last call has returned and the step *)
(* takes is what it is taken for, whatever has been collected since        *)
(* (ManagedHashMap.h, Vector.h, count.cpp).                                *)
THEOREM ObjectsInvariance == Spec => []ObjectsInv
BY InitObjectsInv, NextObjectsInv, StackInvariance, PTL DEF Spec

(* An Oop goes stale only as an argument of alloc() (Environment.h:68) and *)
(* only under the collector that moves objects: from there it gets into    *)
(* the Handle that PairMake makes of it and into a Pair, and nowhere else. *)
(* What the Handles reach is in use, and the program goes astray only by   *)
(* such an Oop or by a Buffer that has moved.                              *)
THEOREM OnlyArgumentsGoStale == Spec => []StaleOnlyFromArguments
<1>1. ASSUME ObjectsInv PROVE StaleOnlyFromArguments
  <2>1. Stale \notin InUse \cup {Null}
    BY RefsAssumption DEF InUse
  <2>2. HeapInv /\ SlotsInv
    BY <1>1 DEF ObjectsInv
  <2>3. Reachable \subseteq InUse \cup {Stale}
    BY <2>2, WhatIsReached
  <2>4. raw = Stale => moving
    BY <1>1, <2>1 DEF ObjectsInv, Lost
  <2>5. \A i \in DOMAIN slots : slots[i] = Stale => moving /\ handle["second"][2] = i
    BY <2>1, <2>2 DEF SlotsInv, Lost
  <2>6. \A r \in InUse :
           Stale \in Trace(r) =>
              moving /\ object[r].class = "Pair" /\ object[r].ref.first # Stale
    BY <2>1, <2>2, TraceOfFormed DEF HeapInv, Lost
  <2>7. pc = "undefined" => moving \/ base # 1
    BY <1>1 DEF ObjectsInv
  <2>8. QED
    BY <2>3, <2>4, <2>5, <2>6, <2>7 DEF StaleOnlyFromArguments
<1>2. QED
  BY <1>1, ObjectsInvariance, PTL

(* The depths that the HandleMarks have saved are depths of the stack. *)
Fit(saved, n) == \A i \in DOMAIN saved : saved[i] \in 0 .. n

LEMMA SavedFit ==
    /\ \A n \in Nat : /\ Fit(<<>>, n) /\ Fit(<<0>>, n)
                      /\ Fit(<<0, 0>>, n) /\ Fit(<<0, 0, 0>>, n)
    /\ \A n \in Nat \ {0} : Fit(<<0, 0, 1>>, n)
    /\ \A n \in Nat \ {0, 1} : Fit(<<0, 0, 1, 2>>, n) /\ Fit(<<0, 2>>, n)
    /\ \A n \in Nat \ {0, 1, 2} : Fit(<<0, 3>>, n)
    /\ \A n \in 6 .. 9 : Fit(<<0, 3, 6>>, n)
BY DEF Fit

LEMMA FramesFit ==
    ASSUME NEW l \in Places \ {"undefined"}, NEW n \in Frame(l).used
    PROVE  Fit(Frame(l).saved, n)
BY SavedFit DEF Places, Allocations, Frame, FrameOf

(* Every variable of the word count and of its heap keeps its type. *)
THEOREM TypeCorrect == Spec => []TypeOK
<1> DEFINE MarksInv == Fit(marks, Len(slots))
           Astray == pc = "undefined"
<1>1. StackInv /\ ~Astray => MarksInv
  BY DepthIs, FramesFit DEF StackInv
<1>2. Init => MarksInv
  <2>1. Init => StackInv /\ pc = "count"
    BY InitStackInv DEF Init
  <2>2. QED
    BY <1>1, <2>1
<1>3. ASSUME MarksInv, [Next]_vars, Astray' PROVE MarksInv'
  <2>1. LoseTrack \/ UNCHANGED vars
    BY <1>3 DEF Next, HashMapMake, Put, MakeIterator, VectorMake, PairMake, PushBack,
       ResizeVector, UpdateValue, ParseFile, Count, Stopped, New, MakeHandle, Goto
  <2>2. UNCHANGED <<marks, slots>>
    BY <2>1 DEF LoseTrack, vars, stackVars
  <2>3. QED
    BY <1>3, <2>2 DEF Fit
<1>4. ASSUME StackInv, ObjectsInv, MarksInv PROVE TypeOK
  <2>1. HeapInv /\ SlotsInv /\ Stale \notin Refs \cup {Null} /\ Null \notin Refs
    BY <1>4, RefsAssumption DEF ObjectsInv
  <2>2. Range(slots) \subseteq Oops \ {Null}
    BY <2>1 DEF SlotsInv, Lost, Range, Oops, InUse
  <2>3. oop \in Oops \ {Stale} /\ raw \in Oops
    BY <1>4, <2>1 DEF ObjectsInv, Lost, Oops, InUse
  <2>4. \A r \in Refs : Trace(r) \subseteq Oops
    BY <2>1, TraceIsTyped
  <2>5. pc \in Places /\ Len(slots) <= capacity
        /\ \A h \in Handles :
              handle[h] = None \/ handle[h] \in (1 .. base) \X DOMAIN slots
    BY <1>4 DEF StackInv, StackTypeOK
  <2>6. QED
    BY <1>4, <2>2, <2>3, <2>4, <2>5 DEF TypeOK, Fit
<1>5. MarksInv /\ [Next]_vars /\ Astray' => MarksInv'
  BY <1>3
<1>6. StackInv /\ ObjectsInv /\ MarksInv => TypeOK
  BY <1>4
<1>7. QED
  BY <1>1, <1>2, <1>5, <1>6, StackInvariance, ObjectsInvariance, PTL DEF Spec

(* Over a collector that does not move objects (mark and sweep) and a      *)
(* Buffer with room for nine slots, no address that the program or its     *)
(* collections follow is gone, and none is Stale (count.cpp, Environment.h,*)
(* Buffer.h).                                                              *)
Harmless ==
    ~moving => pc # "undefined" /\ raw # Stale /\ Stale \notin Range(slots) \cup Reachable

THEOREM NoHarmWithoutMoving ==
    ASSUME INITIAL_SIZE >= 9 PROVE Spec => []Harmless
<1>1. ASSUME ObjectsInv, BufferStays PROVE Harmless
  <2>1. HeapInv /\ SlotsInv /\ (pc = "undefined" => moving \/ base # 1) /\ base = 1
    BY <1>1 DEF ObjectsInv, BufferStays
  <2>2. Stale \notin InUse \cup {Null}
    BY RefsAssumption DEF InUse
  <2>3. raw = Stale => moving
    BY <1>1, <2>2 DEF ObjectsInv, Lost
  <2>4. Stale \in Range(slots) => moving
    BY <2>1, <2>2 DEF SlotsInv, Lost, Range
  <2>5. Stale \in Reachable => moving
    BY <2>1, WhatIsReached
  <2>6. QED
    BY <2>1, <2>3, <2>4, <2>5 DEF Harmless
<1>2. QED
  BY <1>1, ObjectsInvariance, NoHandleLosesItsSlot, PTL

=============================================================================
