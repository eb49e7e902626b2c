\* Publishes, yanks and fills of an upstream and a local version, with every failure.
SPECIFICATION Spec
CONSTANTS
    t1 = t1
    t2 = t2
    v1 = v1
    v2 = v2
    v3 = v3
    wheel = wheel
    sdist = sdist
    Tasks = {t1, t2}
    Versions = {v1, v3}
    Files = {wheel, sdist}
    Upstream = {v3}
    MayYank = TRUE
    MayOverwrite = TRUE
    MaxFaults = 2
    NoVersion = NoVersion
    Absent = Absent
    NotStaged = NotStaged
SYMMETRY Symmetry
CONSTRAINT Unmixed
INVARIANTS
    AcknowledgedFilesRemain
    SettledIsConsistent
