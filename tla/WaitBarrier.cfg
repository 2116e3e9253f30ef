SPECIFICATION FairSpec
CONSTANTS
    Threads = {t1, t2, t3}
    Started = Started
    Collection = Collection
    Values <- MCValues
    Predicates <- MCPredicates
    InitialValue = Started
    NoOne = NoOne
INVARIANTS
    NoLostWakeup
    IInv
PROPERTIES
    WaitReturns
    ImplementsAtomicBarrier
CHECK_DEADLOCK FALSE
