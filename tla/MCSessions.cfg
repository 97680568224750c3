SPECIFICATION FairSpec
CONSTANTS
    Users = {u1}
    Tokens = {t1, t2, t3}
    Requests = {r1, r2, r3}
    Passwords = {p1}
    None = None
    OldHashes = TRUE
INVARIANTS
    TypeOK
    SessionChain
    DeletedHasNoChain
PROPERTIES
    ImplementsCredentials
    RequestsEnd
CHECK_DEADLOCK FALSE
