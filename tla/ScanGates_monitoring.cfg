SPECIFICATION Spec
CONSTANTS
    a = a
    b = b
    d1 = d1
    d2 = d2
    k1 = k1
    k2 = k2
    t1 = t1
    t2 = t2
    o1 = o1
    Nothing = Nothing
    Tasks = {t1, t2}
    Operators = {o1}
    Coordinates = {a, b}
    Digests = {d1, d2}
    Signers = {k1, k2}
    Sites <- AllSites
INVARIANTS BlockedIsNotServed OnlyReviewReleases FlipsAreTold CachedIsSigned
PROPERTIES ReportsCatchUp
CHECK_DEADLOCK FALSE
