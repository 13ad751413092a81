CONSTANTS
    Clusters = {1, 2}
    Orders <- OrdersTwo
    None = None
    Lagging = {"svc"}
    MaxChanges = 2
    MaxFaults = 1
SPECIFICATION FairSpec
INVARIANTS TypeOK ArbiterHasPod
PROPERTIES ArbiterArrives ArbiterAlone
