SPECIFICATION FairSpec
CONSTANTS
    Mutators = {t1}
    Cells = {c1, c2, c3}
    Fields = {f, g}
    Null = null
    Sizes = {1}
    MaxSize = 3
    MaxStack = 1
INVARIANTS
    NoBlackToWhite
    MarkIsExact
    IInv
PROPERTIES
    CollectionEnds
CHECK_DEADLOCK FALSE
