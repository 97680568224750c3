SPECIFICATION Spec
CONSTANTS
    Requests = {r1, r2}
    Day = 2
    HistoryDays = 2
    ScoreDays = 1
    MaxTime = 6
    None = None
SYMMETRY Symmetry
INVARIANTS
    HistoryComplete
CHECK_DEADLOCK FALSE
