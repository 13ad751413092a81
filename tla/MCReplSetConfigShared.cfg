CONSTANTS
    o1 = o1
    o2 = o2
    a = a
    b = b
    c = c
    Operators = {o1, o2}
    Hosts = {a, b, c}
    Owner <- OwnerTwo
    Arbiters = {c}
    NoHost = NoHost
    MaxStarts = 3
    MaxRemovals = 3
    MaxFailures = 2
SPECIFICATION FairSpec
INVARIANTS TypeOK ConfigWellFormed HarmlessUntilLost
PROPERTIES MembersConverge MembershipSpec
CHECK_DEADLOCK FALSE
