SPECIFICATION FairSpec
CONSTANTS
    Mutators = {m1, m2}
    Worker = worker
PROPERTIES
    ThreadEnvIsDestroyed
CHECK_DEADLOCK FALSE
