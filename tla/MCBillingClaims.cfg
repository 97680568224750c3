\* What documents say of billing and the code does not do: one at a time.
SPECIFICATION Spec
CONSTANTS
    Users = {u1, u2}
    Orders = {o1, o2}
    Requests = {r1, r2}
    Plans <- MCPlans
    FreePlan = "FREE"
    ActivePlans = {"FREE", "PRO", "MAX"}
    Price <- MCPrice
    NoPlan = NoPlan
    None = None
    RepeatAnswers = {"ok", "refused"}
    Faults = {}
PROPERTY NeverDowngraded
\* PROPERTY RepeatConfirmAnswered
CHECK_DEADLOCK FALSE
