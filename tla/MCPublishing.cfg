SPECIFICATION Spec
CONSTANTS
    Users = {u1, u2}
    Sites = {s1, s2, s3}
    Requests = {r1, r2, r3}
    Runs = {x1}
    Plans <- MCPlans
    MaxSites <- MCMaxSites
    CanPublish <- MCCanPublish
    Modules <- OneModule
    Types <- MCTypes
    TypeOf <- OneTypeOf
    None = None
    AwsEnabled = FALSE
SYMMETRY Symmetry
INVARIANTS
    TypeOK
PROPERTIES
    ImplementsQuota
CHECK_DEADLOCK FALSE
