SPECIFICATION Spec
CONSTANTS
    Addrs = {ip1, ip2}
    MaxAttempts = 2
    Window = 1
    MaxTable = 1
    MaxTime = 2
    Requests = {q1, q2, q3}
    Passwords = {w1, w2}
    None = None
    Life = 1
    MaxVersions = 2
CHECK_DEADLOCK FALSE
SYMMETRY Symmetry
INVARIANTS RevokedByChange BurstBounded RefusalsExpire
PROPERTIES SessionsLast
