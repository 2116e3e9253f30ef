SPECIFICATION FairSpec
CONSTANTS
    Mutators = {t1}
    Cells <- MCCells
    Fields = {f}
    Null <- MCNull
    Sizes = {1}
    MaxStack = 1
    Spaces = {left, right}
    SpaceSize = 1
    SmallSlots = 3
    SmallSizes = {1}
INVARIANTS
    TypeOK
    SurvivorsAreIntact
PROPERTIES
    CollectionEnds
CHECK_DEADLOCK FALSE
