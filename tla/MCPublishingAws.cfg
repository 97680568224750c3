SPECIFICATION FairSpec
CONSTANTS
    Users = {u1}
    Sites = {s1}
    Requests = {r1, r2}
    Runs = {x1, x2}
    Plans <- MCPlans
    MaxSites <- MCMaxSites
    CanPublish <- MCCanPublish
    Modules <- MCModules
    Types <- MCTypes
    TypeOf <- MCTypeOf
    None = None
    AwsEnabled = TRUE
INVARIANTS
    ValidPair
    PublishedWasDeployed
PROPERTIES
    PublishedIsSynced
CHECK_DEADLOCK FALSE
