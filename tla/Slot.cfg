SPECIFICATION Spec
CONSTANTS
    Replicas = {r0, 1, r2, r3}
    MyId = 1
    SeqNo = 1
    Required = 3
    RequiredFast = 4
    CVal = 0
    Faulty = {r3}
    CollectorViews = {0}
    Paths = {"OPTIMISTIC_FAST", "SLOW"}
    MaxView = 1
SYMMETRY Symmetry
INVARIANTS
    TypeOK
    AssertsHold
    CommittedWasPrepared
    IdleSlotIsEmpty
CHECK_DEADLOCK FALSE
