SPECIFICATION Spec
CONSTANTS
    Users = {u1, u2}
    Orders = {o1, o2}
    Requests = {r1, r2}
    Plans <- MCPlans
    FreePlan = "FREE"
    ActivePlans = {"FREE", "PRO", "MAX"}
    Price <- MCPrice
    NoPlan = NoPlan
    None = None
    RepeatAnswers = {"refused"}
    Faults = {"timeout"}
INVARIANTS
    NoPaidButNotUpgraded
CHECK_DEADLOCK FALSE
