SPECIFICATION Spec
CONSTANTS
    Users = {u1}
    Sites = {s1, s2}
    Requests = {r1, r2}
    Runs = {x1, x2}
    Plans <- MCPlans
    MaxSites <- MCMaxSites
    CanPublish <- MCCanPublish
    Modules <- OneModule
    Types <- MCTypes
    TypeOf <- OneTypeOf
    None = None
    AwsEnabled = TRUE
PROPERTIES
    LimitAtPublish
CHECK_DEADLOCK FALSE
