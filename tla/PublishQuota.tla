------------------------------ MODULE PublishQuota ------------------------------
(***************************************************************************)
(* What the plan policy promises about published sites: a user's set of    *)
(* online sites only grows while their plan lets them publish and has room *)
(* for one more.  A change of plan takes nothing offline.                  *)
(***************************************************************************)
EXTENDS Naturals, FiniteSets

CONSTANTS Users, Sites, Plans, MaxSites, CanPublish

VARIABLES
    plan,     \* plan[u]: the plan user u is on
    online    \* online[u]: the published sites of user u

vars == <<plan, online>>

Init ==
    /\ plan \in [Users -> Plans]
    /\ online = [u \in Users |-> {}]

Publish(u, s) ==
    /\ CanPublish[plan[u]]
    /\ Cardinality(online[u]) < MaxSites[plan[u]]
    /\ online' = [online EXCEPT ![u] = @ \cup {s}]
    /\ UNCHANGED plan

TakeDown(u, s) ==
    /\ s \in online[u]
    /\ online' = [online EXCEPT ![u] = @ \ {s}]
    /\ UNCHANGED plan

ChangePlan(u, p) ==
    /\ plan' = [plan EXCEPT ![u] = p]
    /\ UNCHANGED online

Next ==
    \E u \in Users :
        \/ \E s \in Sites : Publish(u, s) \/ TakeDown(u, s)
        \/ \E p \in Plans : ChangePlan(u, p)

Spec == Init /\ [][Next]_vars
=============================================================================
