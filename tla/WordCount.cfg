SPECIFICATION Spec
CONSTANTS
    a = a
    b = b
    c = c
    Words <- MCWords
    MaxText = 4
    Hashes = {0, 1, 2}
    ARRAY_SIZE = 2
    VECTOR_SIZE = 1
    MaxObjects = 18
    INITIAL_SIZE = 4
    RATIO = 2
    WordBits = 3
    Null = Null
    Stale = Stale
SYMMETRY Symmetry
INVARIANTS
    TypeOK
    CountsAreExact
    StaleOnlyFromArguments
    HandlesDoNotPileUp
    SortSorts
