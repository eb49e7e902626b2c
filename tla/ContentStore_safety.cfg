\* Two publishes, of one file and of two, one digest in common; sweeps and retention.
SPECIFICATION Spec
CONSTANTS
    p1 = p1
    p2 = p2
    s1 = s1
    s2 = s2
    r1 = r1
    c1 = c1
    c2 = c2
    fileA = fileA
    fileB = fileB
    d1 = d1
    d2 = d2
    Publishers = {p1, p2}
    Sweepers = {s1}
    Retainers = {r1}
    Components = {c1, c2}
    Paths = {fileA, fileB}
    Digests = {d1, d2}
    Requests <- SharedRequests
    Grace = 1
    MaxFaults = 1
    SlowPuts = FALSE
    NotDeleted = NotDeleted
    None = None
SYMMETRY Symmetry
INVARIANTS
    ReferentialIntegrity
    AcknowledgedIsReferenced
    NoOrphanBytes
PROPERTIES
    BytesOutliveGrace
    ImplementsLifecycle
