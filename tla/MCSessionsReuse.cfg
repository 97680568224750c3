SPECIFICATION Spec
CONSTANTS
    Users = {u1}
    Tokens = {t1, t2, t3, t4, t5}
    Requests = {r1, r2}
    Passwords = {p1}
    None = None
    OldHashes = FALSE
SYMMETRY Symmetry
PROPERTIES
    ReuseRevokesAll
CHECK_DEADLOCK FALSE
