CONSTANTS
    o1 = o1
    o2 = o2
    a = a
    b = b
    c = c
    Operators = {o1, o2}
    Hosts = {a, b, c}
    Owner <- OwnerTwo
    Arbiters = {}
    NoHost = NoHost
    MaxStarts = 1
    MaxRemovals = 1
    MaxFailures = 0
SPECIFICATION Spec
INVARIANT NoGhostMember
CHECK_DEADLOCK FALSE
