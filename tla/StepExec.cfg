SPECIFICATION FairSpec
CONSTANTS
    Step = {s1, s2}
    Kinds <- PoolAndRemote
    Limit <- OnePermit
    Attempts = 3
    CacheRead = TRUE
    Interruptible = TRUE
INVARIANTS PermitsReturned DoneMeansMade RspFate NoUselessCall
PROPERTY Termination
