CONSTANTS
    MaxReplicas = 2
    Resources = {"small", "large"}
    Passwords = {"p", "q"}
    Images = {"i", "j"}
    None = None
    MaxChanges = 2
SPECIFICATION FairSpec
INVARIANTS TypeOK NoMixture
PROPERTY ScaleArrives
CHECK_DEADLOCK FALSE
