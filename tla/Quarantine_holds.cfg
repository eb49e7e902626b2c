SPECIFICATION Spec
CONSTANTS
    a = a
    b = b
    d1 = d1
    d2 = d2
    d3 = d3
    Nothing = Nothing
    Clients = {c1, c2}
    Operators = {o1}
    Servers = {s1}
    Coordinates = {a, b}
    Digests = {d1, d2, d3}
    Blocked = {d1, d2}
    Requests <- Distinct
    Proxied <- NoProxied
    MayFail = TRUE
    MayCancel = TRUE
    MayResend = FALSE
INVARIANTS HeldIsRecoverable RejectedNeverLands
CHECK_DEADLOCK FALSE
