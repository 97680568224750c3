SPECIFICATION FairSpec
CONSTANTS
    Users = {u1}
    Links = {l1, l2, l3}
    Requests = {r1, r2}
    None = None
    Deployments <- MCDeployments
INVARIANTS
    TypeOK
    OneUsableLink
    LinksHandedOut
    VerifiedByOwnLink
PROPERTIES
    NoStaleDecision
    RequestsAnswered
CHECK_DEADLOCK FALSE
