------------------------------ MODULE PaidPlans ------------------------------
(***************************************************************************)
(* What billing promises, without requests, locks or a gateway: an order   *)
(* is opened for a buyer and a plan, is paid at most once, and is settled  *)
(* at most once, only after it was paid, in the very step that puts its    *)
(* buyer on its plan.  A paid order need not be settled.                   *)
(***************************************************************************)
EXTENDS Integers

CONSTANTS Users, Orders, Plans, FreePlan, Price, NoPlan, None

VARIABLES
    ledger,   \* ledger[o] \in {"absent", "open", "paid", "settled"}
    buyer,    \* buyer[o]: whose order it is
    item,     \* item[o]: the plan ordered
    plan      \* plan[u]: the plan u is on

avars == <<ledger, buyer, item, plan>>

Init ==
    /\ ledger = [o \in Orders |-> "absent"]
    /\ buyer = [o \in Orders |-> None]
    /\ item = [o \in Orders |-> None]
    /\ plan \in [Users -> {FreePlan, NoPlan}]

Open(o, u, p) ==
    /\ ledger[o] = "absent"
    /\ p # FreePlan
    /\ ledger' = [ledger EXCEPT ![o] = "open"]
    /\ buyer' = [buyer EXCEPT ![o] = u]
    /\ item' = [item EXCEPT ![o] = p]
    /\ UNCHANGED plan

Pay(o) ==
    /\ ledger[o] = "open"
    /\ ledger' = [ledger EXCEPT ![o] = "paid"]
    /\ UNCHANGED <<buyer, item, plan>>

Settle(o) ==
    /\ ledger[o] = "paid"
    /\ ledger' = [ledger EXCEPT ![o] = "settled"]
    /\ plan' = [plan EXCEPT ![buyer[o]] = item[o]]
    /\ UNCHANGED <<buyer, item>>

(* The development upgrade: a dearer plan without an order. *)
Grant(u, p) ==
    /\ plan[u] # NoPlan
    /\ Price[p] > Price[plan[u]]
    /\ plan' = [plan EXCEPT ![u] = p]
    /\ UNCHANGED <<ledger, buyer, item>>

Next ==
    \/ \E o \in Orders : Pay(o) \/ Settle(o)
    \/ \E o \in Orders, u \in Users, p \in Plans : Open(o, u, p)
    \/ \E u \in Users, p \in Plans : Grant(u, p)

Spec == Init /\ [][Next]_avars
=============================================================================
