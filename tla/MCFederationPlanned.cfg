CONSTANTS
    Clusters = {1, 2}
    MaxSize = 2
    Schedules <- Planned
    Changes <- PlannedChanges
    Lagging = {"svcs", "cm"}
    MaxReschedules = 1
    MaxFaults = 1
    NoConf = NoConf
    Absent = Absent
    Nil = Nil
    Patient = TRUE
SPECIFICATION FairSpec
INVARIANTS TypeOK ServedWhileMember CleanAfterShrink
PROPERTY Converges
