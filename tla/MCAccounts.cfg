SPECIFICATION Spec
CONSTANTS
    Users = {u1, u2, u3}
    Requests = {r1, r2, r3}
    Emails = {e1, e2}
    Identities = {i1}
    None = None
SYMMETRY Symmetry
INVARIANTS
    TypeOK
    NoHalfAccounts
    Erased
PROPERTIES
    ImplementsDirectory
CHECK_DEADLOCK FALSE
