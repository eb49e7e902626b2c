\* Downloads and publishes of allowed and refused content, deletions, failures, bit rot.
SPECIFICATION CacheSpec
CONSTANTS
    t1 = t1
    t2 = t2
    original = original
    rebuilt = rebuilt
    unsigned = unsigned
    Tasks = {t1, t2}
    Contents = {original, rebuilt, unsigned}
    Upstream = original
    Publications = {rebuilt, unsigned}
    Denied = {unsigned}
    MayDelete = TRUE
    MayCancel = TRUE
    MayFail = TRUE
    MayFailUndo = TRUE
    MayRot = TRUE
    Corrupt = Corrupt
    Absent = Absent
    NotStaged = NotStaged
INVARIANTS
    ServedIsSound
    SettledIsReadable
