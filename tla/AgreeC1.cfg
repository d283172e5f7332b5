CONSTANTS
    r0 = r0
    r1 = r1
    r2 = r2
    r3 = r3
    r4 = r4
    r5 = r5
    Replicas = {r0, r1, r2, r3, r4, r5}
    Byz = {r0}
    F = 1
    C = 1
    Primary = r0
    Collectors = {r1}
    Digests = {"d1", "d2"}
    Paths = {"FAST_WITH_THRESHOLD"}
SPECIFICATION Spec
INVARIANTS TypeOK CertificatesAreBacked Consistency CommittedIsRecoverable
SYMMETRY Symmetry
CHECK_DEADLOCK FALSE
