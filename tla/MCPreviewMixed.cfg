SPECIFICATION Spec
CONSTANTS
    Requests = {r1, r2}
    Builds = {b1, b2}
    Numbers <- MCNumbers
    Entries <- MCEntries
    None = None
    MaxTold = 2
INVARIANTS
    PreviewShowsContract
CHECK_DEADLOCK FALSE
