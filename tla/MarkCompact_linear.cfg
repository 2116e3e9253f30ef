SPECIFICATION Spec
CONSTANTS
    Mutators = {t1}
    Cells <- MCCells
    Fields = {f, g}
    Null <- MCNull
    Sizes = {1, 2}
    MaxStack = 1
    Spaces = {left, right}
    SpaceSize = 3
    SmallSlots = 0
    SmallSizes = {}
SYMMETRY Symmetry
INVARIANTS
    SpacesAreTiled
    AssertionsHold
PROPERTIES
    ImplementsMovingHeap
CHECK_DEADLOCK FALSE
