SPECIFICATION Spec
CONSTANTS
    Mutators = {m1, m2, m3}
    Worker = worker
INVARIANTS
    TypeOK
    WorldIsStopped
    RootsAreVisible
    SuspendIsAsserted
    NoLostWakeup
    IInv
PROPERTIES
    TerminateIsFinal
    OnlyHeldLocksOpened
    ImplementsStopTheWorld
CHECK_DEADLOCK FALSE
