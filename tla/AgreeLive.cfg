CONSTANTS
    Replicas = {0, 1, 2, 3}
    Byz = {2}
    F = 1
    C = 0
    Primary = 0
    Collectors = {1}
    Digests = {"d1"}
    Paths = {"OPTIMISTIC_FAST", "SLOW"}
SPECIFICATION FairSpec
PROPERTY EveryoneCommits
CHECK_DEADLOCK FALSE
