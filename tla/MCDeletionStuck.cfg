CONSTANTS
    c1 = c1
    c2 = c2
    a = a
    b = b
    d = d
    e = e
    Clusters = {c1, c2}
    Hosts = {a, b, d, e}
    Owner <- OwnerTwo
    Arbiters = {e}
    None = None
    MaxTroubles = 0
SPECIFICATION FairSpec
PROPERTY DeletionEnds
CHECK_DEADLOCK FALSE
