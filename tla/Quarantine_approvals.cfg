SPECIFICATION Spec
CONSTANTS
    a = a
    b = b
    d1 = d1
    d2 = d2
    d3 = d3
    Nothing = Nothing
    Clients = {c1}
    Operators = {o1}
    Servers = {s1}
    Coordinates = {a, b}
    Digests = {d1}
    Blocked = {d1}
    Requests <- Shared
    Proxied <- ProxiedTwin
    MayFail = FALSE
    MayCancel = TRUE
    MayResend = TRUE
INVARIANTS LandedIsApproved
CHECK_DEADLOCK FALSE
