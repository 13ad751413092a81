CONSTANTS
    p1 = p1
    p2 = p2
    p3 = p3
    Pods = {p1, p2, p3}
    Arbiters <- OneOrNone
    Others = 2
    Elsewhere = Elsewhere
    Nobody = Nobody
    Lagging = {FALSE, TRUE}
    MaxChanges = 2
    MaxElections = 1
    MaxCrashes = 1
    MaxLate = 2
SPECIFICATION FairSpec
INVARIANT TypeOK
PROPERTIES RestartEnds Restarted PrimaryLast PrimarySpared
CHECK_DEADLOCK FALSE
