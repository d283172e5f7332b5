SPECIFICATION Spec
CONSTANTS
    Replicas = {b, r1, r2, r3}
    Byz = {b}
    b = b
    r1 = r1
    r2 = r2
    r3 = r3
    F = 1
    C = 0
    Topologies <- ShippedAndDeep
    WriteIds = {"0", "4"}
    Modes = {"super_leafs", "emulators"}
    Values = {"x"}
    MaxWrites = 2
    MaxPutFailures = 0
SYMMETRY Symmetry
INVARIANTS
    TypeOK
    WritesCarriedOut
    ReadsAreRecent
    EmulatorsSound
