SPECIFICATION Spec
CONSTANTS
    Users = {u1}
    Sites = {s1}
    Requests = {r1}
    Runs = {x1, x2}
    Plans <- MCPlans
    MaxSites <- MCMaxSites
    CanPublish <- MCCanPublish
    Modules <- OneModule
    Types <- MCTypes
    TypeOf <- OneTypeOf
    None = None
    AwsEnabled = TRUE
INVARIANTS
    NoStaleSuccess
CHECK_DEADLOCK FALSE
