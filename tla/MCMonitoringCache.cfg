SPECIFICATION Spec
CONSTANTS
    Requests = {r1}
    Day = 3
    HistoryDays = 2
    ScoreDays = 1
    MaxTime = 6
    None = None
INVARIANTS
    RecentSnapshotFound
CHECK_DEADLOCK FALSE
