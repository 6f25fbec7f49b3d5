SPECIFICATION FairSpec
CONSTANTS
    Zones = {z1}
    Queries = {q1, q2}
    None = None
    Failed = Failed
    MaxVersion = 2
INVARIANTS
    Inv
    TypeOK
    NoSilentStaleness
    MonotonicReads
    WaitersHaveACall
PROPERTIES
    ImplementsZoneReads
    EveryQueryIsAnswered
    EventuallyCurrent
