\* No fault at all: a sweep that lists a blob before the publish references it.
SPECIFICATION Spec
CONSTANTS
    p1 = p1
    p2 = p2
    s1 = s1
    s2 = s2
    r1 = r1
    c1 = c1
    c2 = c2
    fileA = fileA
    fileB = fileB
    d1 = d1
    d2 = d2
    Publishers = {p1}
    Sweepers = {s1}
    Retainers = {r1}
    Components = {c1, c2}
    Paths = {fileA}
    Digests = {d1}
    Requests <- OneBlobRequests
    Grace = 1
    MaxFaults = 0
    SlowPuts = FALSE
    NotDeleted = NotDeleted
    None = None
INVARIANTS
    ReferencedHasBytes
