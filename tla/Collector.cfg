SPECIFICATION FairSpec
CONSTANTS
    Replicas = {r0, r1, r2, r3, r4, r5}
    Faulty = {r0}
    Required = 4
    kWorkWindowSize = 1
    MaxSeq = 2
    MaxView = 1
INVARIANTS
    TypeOK
    ResultMeetsItsCollector
    OneJobInFlight
    UnknownIsExact
PROPERTIES
    LostOnlyWhileCollecting
    GoodSharesComplete
