SPECIFICATION Spec
CONSTANTS
    Replicas = {r0, r1, r2, r3, r4, r5}
    SelfId = client
    Msgs = {m1, m2, m3}
    NoMsg = NoMsg
    MaxFails = 1
    Required = 4
    SelfTrust = FALSE
    SelfIsRequired = FALSE
INVARIANTS
    TypeOK
    CompleteHasQuorum
    QuorumCompletes
    BestMsgIsCorrect
