CONSTANTS
    o1 = o1
    o2 = o2
    Operators = {o1, o2}
    Initiator = o1
    None = None
    Reuse = FALSE
    MaxChanges = 2
    MaxFaults = 1
SPECIFICATION FairSpec
INVARIANTS TypeOK RecordedUsersExist
PROPERTIES UsersConverge LaterPasswordConverges
