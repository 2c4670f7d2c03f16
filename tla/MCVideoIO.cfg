CONSTANTS
    CacheSize = 3
    Inputs = {a, b}
    MaxCount = 2
    MaxTicks = 5
SPECIFICATION FairSpec
INVARIANTS CacheSafe InputsReached
PROPERTIES ImplementsStream Progress
