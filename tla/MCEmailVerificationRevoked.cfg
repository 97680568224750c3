SPECIFICATION Spec
CONSTANTS
    Users = {u1}
    Links = {l1, l2}
    Requests = {r1, r2}
    None = None
    Deployments <- MCDeployments
PROPERTIES
    RevokedLinksRejected
CHECK_DEADLOCK FALSE
