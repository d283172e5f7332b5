SPECIFICATION Spec
CONSTANTS
    Replicas = {r0, r1, r2, r3, r4, r5}
    SelfId = r0
    Msgs = {m1, m2, m3}
    NoMsg = NoMsg
    MaxFails = 1
    Required = 4
    SelfTrust = TRUE
    SelfIsRequired = TRUE
SYMMETRY Symmetry
INVARIANTS
    CompleteForOwnMsg
    QuorumCompletes
