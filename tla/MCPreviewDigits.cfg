SPECIFICATION Spec
CONSTANTS
    Requests = {r1, r2}
    Builds = {b1, b2}
    Numbers <- MCNumbers
    Entries <- MCWines
    None = None
    MaxTold = 2
INVARIANTS
    LonePreviewShowsNumbers
CHECK_DEADLOCK FALSE
