SPECIFICATION Spec
CONSTANTS
    Users = {u1}
    Tokens = {t1, t2, t3}
    Requests = {r1, r2}
    Passwords = {p1, p2}
    None = None
    OldHashes = TRUE
PROPERTIES
    RehashKeepsPassword
CHECK_DEADLOCK FALSE
