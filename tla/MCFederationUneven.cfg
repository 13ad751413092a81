CONSTANTS
    Clusters = {1, 2}
    MaxSize = 2
    Schedules <- Uneven
    Changes <- UnevenChanges
    Lagging = {}
    MaxReschedules = 1
    MaxFaults = 0
    NoConf = NoConf
    Absent = Absent
    Nil = Nil
    Patient = TRUE
SPECIFICATION FairSpec
PROPERTY Converges
