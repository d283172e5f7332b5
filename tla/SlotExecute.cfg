SPECIFICATION Spec
CONSTANTS
    Replicas = {0, 1, 2, 3}
    MyId = 1
    SeqNo = 1
    Required = 3
    RequiredFast = 4
    CVal = 0
    Faulty = {3}
    CollectorViews = {0}
    Paths = {"OPTIMISTIC_FAST", "SLOW"}
    MaxView = 0
INVARIANTS
    FullProofAtExecution
CHECK_DEADLOCK FALSE
