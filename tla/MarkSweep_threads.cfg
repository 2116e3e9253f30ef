SPECIFICATION Spec
CONSTANTS
    Mutators = {t1, t2}
    Cells = {c1, c2}
    Fields = {f}
    Null = null
    Sizes = {1, 2}
    MaxSize = 3
    MaxStack = 1
SYMMETRY Symmetry
INVARIANTS
    TypeOK
    NoDangling
    StatisticsAreExact
PROPERTIES
    ImplementsManagedHeap
CHECK_DEADLOCK FALSE
