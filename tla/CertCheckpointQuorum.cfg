SPECIFICATION Spec
CONSTANTS
    Replicas = {r0, r1, r2, r3}
    SelfId = r0
    Msgs = {m1, m2}
    NoMsg = NoMsg
    MaxFails = 1
    Required = 3
    SelfTrust = TRUE
    SelfIsRequired = TRUE
SYMMETRY Symmetry
INVARIANTS
    CompleteHasQuorum
