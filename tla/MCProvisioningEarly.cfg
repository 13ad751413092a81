CONSTANTS
    o1 = o1
    o2 = o2
    Operators = {o1, o2}
    Initiator = o1
    None = None
    Reuse = FALSE
    MaxChanges = 1
    MaxFaults = 0
SPECIFICATION FairFreshSpec
PROPERTY PasswordConverges
