\* Racing publishes under a quota, an overwrite, and fills and yanks without a lock.
SPECIFICATION FairSpec
CONSTANTS
    t1 = t1
    t2 = t2
    w1 = w1
    v1 = v1
    v2 = v2
    scope = scope
    l1 = l1
    l2 = l2
    Tasks = {t1, t2}
    Writers = {w1}
    Coordinates = {v1, v2}
    Upstream = {v1}
    Asked = {v1}
    Namespaces = {scope}
    NamespaceOf <- OneNamespace
    Requests <- AllRequests
    Locks = {l1, l2}
    MaxVersions <- One
    MaxBytes <- One
    Unlimited = Unlimited
    MayCancel = TRUE
    MayFailRollback = TRUE
    MayRestart = TRUE
    NoLock = NoLock
    NoGuard = NoGuard
    NoRequest = NoRequest
INVARIANTS
    MutualExclusion
    ObservationHolds
    GivenBack
    CeilingRespected
PROPERTIES
    EveryWaiterIsServed
