SPECIFICATION FairSpec
CONSTANTS
    Mutators = {m1, m2}
    Worker = worker
PROPERTIES
    ForceGcReturns
    ThreadEnvIsDestroyedOrEmbraced
    WorkerIsJoined
CHECK_DEADLOCK FALSE
