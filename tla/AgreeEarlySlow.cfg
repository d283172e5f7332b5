CONSTANTS
    Replicas = {0, 1, 2, 3, 4, 5}
    Byz = {}
    F = 1
    C = 1
    Primary = 0
    Collectors = {1}
    Digests = {"d1"}
    Paths = {"FAST_WITH_THRESHOLD"}
SPECIFICATION FairSpec
PROPERTY EarlySlowCommitHandled
CHECK_DEADLOCK FALSE
