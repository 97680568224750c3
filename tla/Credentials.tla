------------------------------ MODULE Credentials ------------------------------
(* What login, refresh, logout and account deletion promise together: a     *)
(* refresh token signs one account in until it is exchanged or withdrawn,   *)
(* and never again; an exchange takes one token and gives one, to the same  *)
(* account; a closed account exchanges nothing, and of its tokens only      *)
(* those may be left that were never exchanged for.                         *)
EXTENDS Naturals

CONSTANTS Tokens, Users, None

VARIABLES
    holder,    \* holder[t]: the account that token t signs in to, or None
    spent,     \* tokens that were exchanged or withdrawn
    renewed,   \* tokens that were given in exchange for another
    closed     \* accounts that were deleted

vars == <<holder, spent, renewed, closed>>

Works(u) == {t \in Tokens : holder[t] = u}
Unused(t) == holder[t] = None /\ t \notin spent

Init ==
    /\ holder = [t \in Tokens |-> None]
    /\ spent = {} /\ renewed = {} /\ closed = {}

Grant(u, t) ==
    /\ Unused(t)
    /\ holder' = [holder EXCEPT ![t] = u]
    /\ UNCHANGED <<spent, renewed, closed>>

Exchange(u, old, new) ==
    /\ u \notin closed /\ holder[old] = u /\ Unused(new)
    /\ holder' = [holder EXCEPT ![old] = None, ![new] = u]
    /\ spent' = spent \cup {old} /\ renewed' = renewed \cup {new}
    /\ UNCHANGED closed

Withdraw(T) ==
    /\ holder' = [t \in Tokens |-> IF t \in T THEN None ELSE holder[t]]
    /\ spent' = spent \cup T
    /\ UNCHANGED renewed

Revoke(u, T) == T \subseteq Works(u) /\ Withdraw(T) /\ UNCHANGED closed

Close(u, T) ==
    /\ u \notin closed /\ closed' = closed \cup {u}
    /\ T \subseteq Works(u) /\ Works(u) \cap renewed \subseteq T
    /\ Withdraw(T)

Next ==
    \E u \in Users :
        \/ \E t \in Tokens : Grant(u, t)
        \/ \E old, new \in Tokens : Exchange(u, old, new)
        \/ \E T \in SUBSET Tokens : Revoke(u, T) \/ Close(u, T)

Spec == Init /\ [][Next]_vars
=============================================================================
