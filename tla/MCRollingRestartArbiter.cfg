CONSTANTS
    p1 = p1
    p2 = p2
    p3 = p3
    Pods = {p1, p2, p3}
    Arbiters <- One
    Others = 2
    Elsewhere = Elsewhere
    Nobody = Nobody
    Lagging = {FALSE}
    MaxChanges = 1
    MaxElections = 0
    MaxCrashes = 0
    MaxLate = 2
SPECIFICATION Spec
PROPERTY SecondariesFirst
CHECK_DEADLOCK FALSE
