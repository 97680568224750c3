\* What documents say of sites and the code does not do: one at a time.
SPECIFICATION Spec
CONSTANTS
    Users = {u1}
    Sites = {s1, s2, s3}
    Requests = {r1}
    Runs = {x1}
    Plans <- MCPlans
    MaxSites <- MCMaxSites
    CanPublish <- MCCanPublish
    Modules <- OneModule
    Types <- MCTypes
    TypeOf <- OneTypeOf
    None = None
    AwsEnabled = FALSE
PROPERTY LimitAtCreate
\* INVARIANT AvailabilityHonest
CHECK_DEADLOCK FALSE
