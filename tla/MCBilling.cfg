SPECIFICATION FairSpec
CONSTANTS
    Users = {u1}
    Orders = {o1, o2}
    Requests = {r1, r2}
    Plans <- MCPlans
    FreePlan = "FREE"
    ActivePlans = {"FREE", "PRO", "MAX"}
    Price <- MCPrice
    NoPlan = NoPlan
    None = None
    RepeatAnswers = {"ok", "refused"}
    Faults = {"timeout", "commit", "crash"}
INVARIANTS
    TypeOK
    ApprovedIsPaid
    AuditTrail
    PlanIsEarned
PROPERTIES
    SubscriptionStable
    ImplementsPaidPlans
    ConfirmAnswered
CHECK_DEADLOCK FALSE
