SPECIFICATION Spec
CONSTANTS
    Replicas = {b, r1, r2, r3}
    Byz = {b}
    b = b
    r1 = r1
    r2 = r2
    r3 = r3
    F = 1
    C = 0
    Topologies <- JustShipped
    WriteIds = {"0", "4"}
    Modes = {"quorum_size"}
    Values = {"x"}
    MaxWrites = 1
    MaxPutFailures = 1
SYMMETRY Symmetry
INVARIANT WritesCarriedOut
