----------------------------- MODULE MarkCompact -----------------------------
(***************************************************************************)
(* The heap of MarkAndCompactCollector: two LinearAllocators, one of them  *)
(* active, and a FixedSizeAllocator for small objects.  collect() marks,   *)
(* gives each marked object a forwarding pointer (Reallocate), leads the   *)
(* references there (UpdateReferences) and copies the objects (Relocate).  *)
(*                                                                         *)
(* A cell is an address, <<region, index>>; an object of a linear space    *)
(* takes as many indices as its chunk_size, a small one takes one slot.    *)
(* small_allocator32 and small_allocator64 are two of a kind: there is one *)
(* here.  allocation_count of a LinearAllocator is only compared with 0,   *)
(* and it is 0 when offset is.                                             *)
(*                                                                         *)
(* NDEBUG is taken as defined for what memory holds - release() leaves the *)
(* mark words as they are - and the assertions are stated as properties.   *)
(***************************************************************************)
EXTENDS Mark, FiniteSetsExt

CONSTANTS
    Spaces,                 \* the two LinearAllocators
    SpaceSize,              \* LinearAllocator::max_size
    SmallSlots,             \* how many objects fit in the FixedSizeAllocator
    SmallSizes              \* the sizes that are tried there first

ASSUME SpacesAssumption ==
    "small" \notin Spaces /\ \E a, b \in Spaces : a # b /\ Spaces = {a, b}

ASSUME CellsAssumption ==
    /\ SpaceSize \in Nat /\ SmallSlots \in Nat
    /\ Cells = (Spaces \X (0 .. SpaceSize - 1)) \cup ({"small"} \X (0 .. SmallSlots - 1))

VARIABLES
    active,                 \* active_space; the other one is free_space
    offset,                 \* of each space, and of the small allocator
    chunk_size,             \* of the chunk that begins in a cell, or 0
    forward,                \* MarkWord::forwarding_pointer
    cursor,                 \* where LinearAllocator::visit is
    freed, dirty,           \* the left and the right finger of compact()
    before                  \* history: what there was when collect() began

spaceVars == <<active, offset, chunk_size>>
compactVars == <<forward, cursor, freed, dirty, before>>
vars == <<clientVars, markVars, spaceVars, compactVars>>

Other(space) == CHOOSE other \in Spaces : other # space
Free == Other(active)

Nothing == [stack |-> <<>>, field |-> <<>>, live |-> {}, marked |-> {}]

Init ==
    /\ InitClient
    /\ InitMark
    /\ active \in Spaces
    /\ offset = [r \in Spaces \cup {"small"} |-> 0]
    /\ chunk_size = [c \in Cells |-> 0]
    /\ forward = [c \in Cells |-> Null]
    /\ cursor = 0
    /\ freed = 0
    /\ dirty = -1
    /\ before = Nothing

-----------------------------------------------------------------------------
(* SemispacesAllocator::alloc.                                             *)

(* Faulty form, for mutation: the limit is tested without the new slot. *)
FitsSmallBefore(n) == n \in SmallSizes /\ offset["small"] <= SmallSlots

FitsSmall(n) == n \in SmallSizes /\ offset["small"] < SmallSlots

FitsIn(space, n) == offset[space] + n <= SpaceSize

(* raw_alloc_helper clears the mark word. *)
AllocAt(t, n, c) ==
    /\ AllocSucceeds(t, n, c)
    /\ color' = [color EXCEPT ![c] = "White"]
    /\ forward' = [forward EXCEPT ![c] = Null]
    /\ UNCHANGED <<phase, roots, worklist, active, cursor, freed, dirty, before>>

AllocSmall(t, n) ==
    /\ FitsSmall(n)
    /\ AllocAt(t, n, <<"small", offset["small"]>>)
    /\ offset' = [offset EXCEPT !["small"] = @ + 1]
    /\ UNCHANGED chunk_size

AllocLinear(t, n) ==
    /\ ~FitsSmall(n)
    /\ FitsIn(active, n)
    /\ AllocAt(t, n, <<active, offset[active]>>)
    /\ offset' = [offset EXCEPT ![active] = @ + n]
    /\ chunk_size' = [chunk_size EXCEPT ![<<active, offset[active]>>] = n]

Refuse(t, n) ==
    /\ ~FitsSmall(n)
    /\ ~FitsIn(active, n)
    /\ AllocFails(t, n) \/ OutOfMemory(t, n)
    /\ UNCHANGED <<markVars, spaceVars, compactVars>>

Mutate(t) == Client(t) /\ UNCHANGED <<markVars, spaceVars, compactVars>>

-----------------------------------------------------------------------------
(* Mark, and the history of what it begins with.                           *)

Marking ==
    /\ \/ /\ BeginMark
          /\ before' = [stack |-> stack, field |-> field, live |-> Reachable,
                        marked |-> {c \in Reachable : color[c] = "Black"}]
       \/ /\ MarkRoot \/ RootsMarked \/ MarkField
          /\ UNCHANGED before
    /\ UNCHANGED <<spaceVars, forward, cursor, freed, dirty>>

-----------------------------------------------------------------------------
(* Reallocate: LinearAllocator::visit of the active space, then compact(). *)

BeginReallocate ==
    /\ phase = "drain"
    /\ worklist = {}
    /\ phase' = "reallocate"
    /\ cursor' = 0
    /\ UNCHANGED <<clientVars, roots, worklist, color, spaceVars, forward, freed,
                   dirty, before>>

Visited == <<active, cursor>>

(* visit() is at a chunk, which is the next step's business, and goes on.  *)
Visit(p) ==
    /\ phase = p
    /\ cursor < offset[active]
    /\ cursor' = cursor + chunk_size[Visited]

VisitDone(p) == phase = p /\ cursor >= offset[active]

SkipWhite ==
    /\ Visit("reallocate") \/ Visit("relocate")
    /\ color[Visited] # "Black"
    /\ UNCHANGED <<clientVars, markVars, spaceVars, forward, freed, dirty, before>>

(* to_region->alloc writes a header and no mark word. *)
Reallocate ==
    LET n == chunk_size[Visited]
        new == <<Free, offset[Free]>>
    IN  /\ Visit("reallocate")
        /\ color[Visited] = "Black"
        /\ FitsIn(Free, n)
        /\ offset' = [offset EXCEPT ![Free] = @ + n]
        /\ chunk_size' = [chunk_size EXCEPT ![new] = n]
        /\ forward' = [forward EXCEPT ![Visited] = new]
        /\ UNCHANGED <<clientVars, markVars, active, freed, dirty, before>>

Small(i) == <<"small", i>>

(* Faulty form: a finger that goes to the next slot, whatever is there. *)
NextSlot(col, i) == Min({i + 1, offset["small"]})

(* LeftFinger::next and RightFinger::next, from i on, over mark words that *)
(* have the colors in col.                                                 *)
NextWhite(col, i) ==
    Min({j \in i .. offset["small"] : j = offset["small"] \/ col[Small(j)] = "White"})
NextBlack(col, i) ==
    Max({j \in -1 .. i : j = -1 \/ col[Small(j)] = "Black"})

(* Reallocate is done; UpdateReferences begins. *)
BeginUpdate == phase' = "update_roots" /\ roots' = StackSlots

(* The fingers of compact(); it returns when they have crossed already.    *)
BeginCompact ==
    /\ VisitDone("reallocate")
    /\ freed' = NextWhite(color, 0)
    /\ dirty' = NextBlack(color, offset["small"] - 1)
    /\ \/ /\ freed' < dirty'
          /\ phase' = "compact"
          /\ UNCHANGED roots
       \/ /\ freed' >= dirty'
          /\ BeginUpdate
    /\ UNCHANGED <<clientVars, worklist, color, spaceVars, forward, cursor, before>>

(* memcpy of the slot with its mark word, then the forwarding pointer of   *)
(* the old one; the fingers move on, over the slots as they are now.       *)
Compact ==
    LET old == Small(dirty)
        new == Small(freed)
        copied == [color EXCEPT ![new] = color[old]]
    IN  /\ phase = "compact"
        /\ freed < dirty
        /\ field' = [field EXCEPT ![new] = field[old]]
        /\ color' = copied
        /\ forward' = [forward EXCEPT ![new] = forward[old], ![old] = new]
        /\ freed' = NextWhite(copied, freed)
        /\ dirty' = NextBlack(copied, dirty)
        /\ UNCHANGED <<managed, collecting, pending, stack, oop, request, terminated,
                       phase, roots, worklist, spaceVars, cursor, before>>

(* refresh_offset. *)
EndCompact ==
    /\ phase = "compact"
    /\ freed >= dirty
    /\ offset' = [offset EXCEPT !["small"] = dirty - 1]
    /\ BeginUpdate
    /\ UNCHANGED <<clientVars, worklist, color, active, chunk_size, compactVars>>

-----------------------------------------------------------------------------
(* UpdateReferences.                                                       *)

(* Where the object that was at c is to be found from now on. *)
Target(c) == IF forward[c] = Null THEN c ELSE forward[c]

(* Faulty form: set_color before update(). *)
UpdatedBefore(c) == c

(* process_pointer reads the fields of the object before it leads the      *)
(* reference away, and clears the color after.                             *)
Updated(c) == Target(c)

UpdatePointer(c, kept) ==
    /\ worklist' = kept \cup Trace(c)
    /\ color' = [color EXCEPT ![Updated(c)] = "White"]

UpdateRoot ==
    /\ phase = "update_roots"
    /\ \E s \in roots :
          LET c == stack[s[1]][s[2]]
          IN  /\ roots' = roots \ {s}
              /\ \/ /\ c = Null
                    /\ UNCHANGED <<stack, worklist, color>>
                 \/ /\ c # Null
                    /\ UpdatePointer(c, worklist)
                    /\ stack' = [stack EXCEPT ![s[1]][s[2]] = Target(c)]
    /\ UNCHANGED <<managed, collecting, pending, oop, field, request, terminated,
                   phase, spaceVars, compactVars>>

RootsUpdated ==
    /\ phase = "update_roots"
    /\ roots = {}
    /\ phase' = "update_fields"
    /\ UNCHANGED <<clientVars, roots, worklist, color, spaceVars, compactVars>>

(* Faulty form: the worklist is read without being popped. *)
UpdateFieldAgain ==
    /\ phase = "update_fields"
    /\ \E s \in worklist :
          LET c == field[s[1]][s[2]]
          IN  /\ color[c] = "Black"
              /\ UpdatePointer(c, worklist)
              /\ field' = [field EXCEPT ![s[1]][s[2]] = Target(c)]
    /\ UNCHANGED <<managed, collecting, pending, stack, oop, request, terminated,
                   phase, roots, spaceVars, compactVars>>

(* A field that does not refer to a black object is left alone.            *)
UpdateField ==
    /\ phase = "update_fields"
    /\ \E s \in worklist :
          LET c == field[s[1]][s[2]]
          IN  \/ /\ color[c] # "Black"
                 /\ worklist' = worklist \ {s}
                 /\ UNCHANGED <<field, color>>
              \/ /\ color[c] = "Black"
                 /\ UpdatePointer(c, worklist \ {s})
                 /\ field' = [field EXCEPT ![s[1]][s[2]] = Target(c)]
    /\ UNCHANGED <<managed, collecting, pending, stack, oop, request, terminated,
                   phase, roots, spaceVars, compactVars>>

-----------------------------------------------------------------------------
(* Relocate: LinearAllocator::visit again, now with the old field contents *)
(* led to the new addresses, then release() and change_space().            *)

BeginRelocate ==
    /\ phase = "update_fields"
    /\ worklist = {}
    /\ phase' = "relocate"
    /\ cursor' = 0
    /\ UNCHANGED <<clientVars, roots, worklist, color, spaceVars, forward, freed,
                   dirty, before>>

(* Faulty forms: the copy keeps the mark word, nothing is released. *)
RelocateKeepsForward ==
    LET new == forward[Visited]
    IN  /\ Visit("relocate")
        /\ color[Visited] = "Black"
        /\ new # Null
        /\ field' = [field EXCEPT ![new] = field[Visited]]
        /\ color' = [color EXCEPT ![new] = "White"]
        /\ forward' = [forward EXCEPT ![new] = new]
        /\ UNCHANGED <<managed, collecting, pending, stack, oop, request, terminated,
                       phase, roots, worklist, spaceVars, freed, dirty, before>>

EndRelocateWithoutRelease ==
    /\ VisitDone("relocate")
    /\ STW!EndCollect
    /\ phase' = "idle"
    /\ active' = Free
    /\ cursor' = 0
    /\ freed' = 0
    /\ dirty' = -1
    /\ before' = Nothing
    /\ UNCHANGED <<stack, oop, field, request, terminated, roots, worklist, color,
                   offset, chunk_size, forward>>

Relocate ==
    LET new == forward[Visited]
    IN  /\ Visit("relocate")
        /\ color[Visited] = "Black"
        /\ new # Null
        /\ field' = [field EXCEPT ![new] = field[Visited]]
        /\ color' = [color EXCEPT ![new] = "White"]
        /\ forward' = [forward EXCEPT ![new] = Null]
        /\ UNCHANGED <<managed, collecting, pending, stack, oop, request, terminated,
                       phase, roots, worklist, spaceVars, freed, dirty, before>>

(* What is left in the released space is no more read, but for the mark    *)
(* words: its chunk headers and its fields are forgotten here.             *)
EndRelocate ==
    /\ VisitDone("relocate")
    /\ STW!EndCollect
    /\ phase' = "idle"
    /\ offset' = [offset EXCEPT ![active] = 0]
    /\ active' = Free
    /\ chunk_size' = [c \in Cells |-> IF c[1] = active THEN 0 ELSE chunk_size[c]]
    /\ field' = [c \in Cells |-> IF c[1] = active THEN Blank ELSE field[c]]
    /\ cursor' = 0
    /\ freed' = 0
    /\ dirty' = -1
    /\ before' = Nothing
    /\ UNCHANGED <<stack, oop, request, terminated, roots, worklist, color, forward>>

-----------------------------------------------------------------------------

Collector ==
    \/ Marking \/ BeginReallocate \/ SkipWhite \/ Reallocate
    \/ BeginCompact \/ Compact \/ EndCompact
    \/ UpdateRoot \/ RootsUpdated \/ UpdateField
    \/ BeginRelocate \/ Relocate \/ EndRelocate

Next == /\ ~terminated
        /\ \/ \E t \in Mutators : Mutate(t)
           \/ \E t \in Mutators, n \in Sizes :
                 AllocSmall(t, n) \/ AllocLinear(t, n) \/ Refuse(t, n)
           \/ Collector

Spec == Init /\ [][Next]_vars

(* The worker runs while the world is stopped. *)
FairSpec == Spec /\ WF_vars(~terminated /\ Collector)

=============================================================================
