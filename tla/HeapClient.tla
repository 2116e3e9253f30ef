----------------------------- MODULE HeapClient -----------------------------
(***************************************************************************)
(* What client code does with the collected heap, one thread at a time in  *)
(* the critical sections that StopTheWorld grants: it pushes Handles on    *)
(* its shadow stack, loads and stores Oops, and allocates.  What an        *)
(* allocation or a collection does to memory is left to the modules that   *)
(* extend this one.                                                        *)
(*                                                                         *)
(* A thread holds one raw Oop, which is no root: client code must not use  *)
(* it again once it has passed a safepoint.  A Handle is the slot of a     *)
(* shadow stack and any thread may write through it (the test              *)
(* ref_leak_from_thread does).  A thread whose ThreadEnv is destroyed is   *)
(* one that is stopped with an empty stack: its HandleMarks are gone.      *)
(***************************************************************************)
EXTENDS Integers, Sequences, FiniteSets

CONSTANTS
    Mutators,               \* the threads
    Cells,                  \* where an object can be: addresses or identities
    Fields,                 \* the fields of an object that its trace() visits
    Null,                   \* nullptr
    Sizes,                  \* the sizes of the chunks that are allocated
    MaxStack                \* bound: the Handles of a thread

ASSUME NullAssumption == Null \notin Cells

ASSUME SizesAssumption == Sizes \subseteq Nat \ {0}

ASSUME MaxStackAssumption == MaxStack \in Nat

VARIABLES
    managed, collecting, pending,   \* StopTheWorld
    stack,                  \* ThreadsStacks: the slots of each shadow stack
    oop,                    \* the raw Oop each thread holds
    field,                  \* the references in the objects
    request,                \* the size a thread allocates again after a failure, or 0
    terminated              \* oom_report() has called std::terminate

clientVars == <<managed, collecting, pending, stack, oop, field, request,
                terminated>>

STW == INSTANCE StopTheWorld

Pointers == Cells \cup {Null}

Blank == [f \in Fields |-> Null]

(* The slots of the shadow stacks, <<t, i>> for slot i of thread t. *)
StackSlots == {s \in Mutators \X (1 .. MaxStack) : s[2] <= Len(stack[s[1]])}

(* The objects that a Handle of some thread refers to. *)
Roots == {stack[s[1]][s[2]] : s \in StackSlots} \ {Null}

(* S has every object that an object in S refers to. *)
Closed(S) == \A c \in S : \A f \in Fields : field[c][f] \in S \cup {Null}

(* The objects that a Handle reaches: the least closed set with the roots. *)
Reachable == {c \in Cells : \A S \in SUBSET Cells :
                                Roots \subseteq S /\ Closed(S) => c \in S}

InitClient ==
    /\ STW!Init
    /\ stack = [t \in Mutators |-> <<>>]
    /\ oop = [t \in Mutators |-> Null]
    /\ field = [c \in Cells |-> Blank]
    /\ request = [t \in Mutators |-> 0]
    /\ terminated = FALSE

(* t runs managed code and has not asked for a collection. *)
Running(t) == t \in managed /\ t \notin pending

(* ... and is not in the middle of an allocation. *)
Ready(t) == Running(t) /\ request[t] = 0

(* The type invariant of these variables. *)
ClientTypeOK ==
    /\ managed \subseteq Mutators
    /\ collecting \in BOOLEAN
    /\ pending \subseteq Mutators
    /\ stack \in [Mutators -> Seq(Pointers)]
    /\ \A t \in Mutators : Len(stack[t]) <= MaxStack
    /\ oop \in [Mutators -> Pointers]
    /\ field \in [Cells -> [Fields -> Pointers]]
    /\ request \in [Mutators -> Sizes \cup {0}]
    /\ terminated \in BOOLEAN

-----------------------------------------------------------------------------
(* Starting, stopping and asking for a collection.                         *)

Resume(t) ==
    /\ STW!Enter(t)
    /\ UNCHANGED <<stack, oop, field, request, terminated>>

(* At a safepoint, in force_gc() or in unmanaged_context(). *)
Stop(t) ==
    /\ Ready(t) \/ t \in pending
    /\ STW!Exit(t)
    /\ oop' = [oop EXCEPT ![t] = Null]
    /\ UNCHANGED <<stack, field, request, terminated>>

ForceGc(t) ==
    /\ Ready(t)
    /\ STW!Request(t)
    /\ UNCHANGED <<stack, oop, field, request, terminated>>

-----------------------------------------------------------------------------
(* Handles and fields.                                                     *)

(* The constructor of a Handle. *)
Push(t) ==
    /\ Ready(t)
    /\ Len(stack[t]) < MaxStack
    /\ stack' = [stack EXCEPT ![t] = Append(@, oop[t])]
    /\ UNCHANGED <<managed, collecting, pending, oop, field, request, terminated>>

(* The destructor of a HandleMark, whichever of the thread's it is. *)
Leave(t) ==
    /\ Ready(t)
    /\ \E saved_sp \in 0 .. Len(stack[t]) - 1 :
          stack' = [stack EXCEPT ![t] = SubSeq(@, 1, saved_sp)]
    /\ UNCHANGED <<managed, collecting, pending, oop, field, request, terminated>>

(* Handle::operator=, through a Handle of any thread. *)
Assign(t, s) ==
    /\ Ready(t)
    /\ stack' = [stack EXCEPT ![s[1]][s[2]] = oop[t]]
    /\ UNCHANGED <<managed, collecting, pending, oop, field, request, terminated>>

(* An Oop made from a Handle. *)
Load(t, s) ==
    /\ Ready(t)
    /\ oop' = [oop EXCEPT ![t] = stack[s[1]][s[2]]]
    /\ UNCHANGED <<managed, collecting, pending, stack, field, request, terminated>>

LoadField(t, f) ==
    /\ Ready(t)
    /\ oop[t] # Null
    /\ oop' = [oop EXCEPT ![t] = field[oop[t]][f]]
    /\ UNCHANGED <<managed, collecting, pending, stack, field, request, terminated>>

LoadNull(t) ==
    /\ Ready(t)
    /\ oop' = [oop EXCEPT ![t] = Null]
    /\ UNCHANGED <<managed, collecting, pending, stack, field, request, terminated>>

(* handle->f = oop. *)
StoreField(t, s, f) ==
    /\ Ready(t)
    /\ stack[s[1]][s[2]] # Null
    /\ field' = [field EXCEPT ![stack[s[1]][s[2]]][f] = oop[t]]
    /\ UNCHANGED <<managed, collecting, pending, stack, oop, request, terminated>>

(* A step of client code that leaves the allocator alone. *)
Client(t) ==
    \/ Resume(t) \/ Stop(t) \/ ForceGc(t) \/ Push(t) \/ Leave(t) \/ LoadNull(t)
    \/ \E s \in StackSlots : Assign(t, s) \/ Load(t, s)
    \/ \E f \in Fields : LoadField(t, f)
    \/ \E s \in StackSlots, f \in Fields : StoreField(t, s, f)

-----------------------------------------------------------------------------
(* Environment::raw_alloc_helper.                                          *)

(* t calls alloc(n), for the first time or after a collection. *)
Allocates(t, n) == Running(t) /\ n \in Sizes /\ request[t] \in {0, n}

(* alloc(n) has returned c, which is cleared. *)
AllocSucceeds(t, n, c) ==
    /\ Allocates(t, n)
    /\ oop' = [oop EXCEPT ![t] = c]
    /\ field' = [field EXCEPT ![c] = Blank]
    /\ request' = [request EXCEPT ![t] = 0]
    /\ UNCHANGED <<managed, collecting, pending, stack, terminated>>

(* alloc(n) has returned nullptr for the first time: force_gc(). *)
AllocFails(t, n) ==
    /\ Allocates(t, n)
    /\ request[t] = 0
    /\ request' = [request EXCEPT ![t] = n]
    /\ STW!Request(t)
    /\ UNCHANGED <<stack, oop, field, terminated>>

(* alloc(n) has returned nullptr again: oom_report(). *)
OutOfMemory(t, n) ==
    /\ Allocates(t, n)
    /\ request[t] = n
    /\ terminated' = TRUE
    /\ UNCHANGED <<managed, collecting, pending, stack, oop, field, request>>

=============================================================================
