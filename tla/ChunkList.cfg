SPECIFICATION Spec
CONSTANTS
    Chunks = {c1, c2, c3, c4}
    Null = null
SYMMETRY Symmetry
INVARIANTS
    TypeOK
    Linked
    ListsAllocated
    WalkIsExact
    NothingLeaks
CHECK_DEADLOCK FALSE
