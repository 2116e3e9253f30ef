SPECIFICATION Spec
CONSTANTS
    Mutators = {t1}
    Cells <- MCCells
    Fields = {}
    Null <- MCNull
    Sizes = {1}
    MaxStack = 1
    Spaces = {left, right}
    SpaceSize = 0
    SmallSlots = 3
    SmallSizes = {1}
INVARIANTS
    HandlesAreAllocated
CHECK_DEADLOCK FALSE
