SPECIFICATION Spec
CONSTANTS
    Replicas = {b, r1, r2, r3}
    Byz = {b}
    b = b
    r1 = r1
    r2 = r2
    r3 = r3
    F = 1
    C = 0
    Topologies <- ManyGroups
    WriteIds = {"0"}
    Modes = {"emulators"}
    Values = {"x"}
    MaxWrites = 1
    MaxPutFailures = 0
SYMMETRY Symmetry
INVARIANT EmulatorsComplete
