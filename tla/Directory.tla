------------------------------- MODULE Directory -------------------------------
(* What sign-up, social sign-up and account deletion promise together: each *)
(* e-mail address and each social identity belongs to at most one account,  *)
(* all keys of an account are bound in one step and freed in one step, and  *)
(* an account that is closed never comes back.                              *)
EXTENDS Naturals

CONSTANTS Keys, Users, None

VARIABLES
    owner,    \* owner[k]: the account key k signs in to, or None
    closed    \* accounts that were deleted

vars == <<owner, closed>>

Owns(u) == {k \in Keys : owner[k] = u}

Init == owner = [k \in Keys |-> None] /\ closed = {}

Register(u, K) ==
    /\ u \notin closed /\ Owns(u) = {}
    /\ K # {} /\ \A k \in K : owner[k] = None
    /\ owner' = [k \in Keys |-> IF k \in K THEN u ELSE owner[k]]
    /\ UNCHANGED closed

Remove(u) ==
    /\ Owns(u) # {}
    /\ owner' = [k \in Keys |-> IF owner[k] = u THEN None ELSE owner[k]]
    /\ closed' = closed \cup {u}

Next == \E u \in Users : Remove(u) \/ \E K \in SUBSET Keys : Register(u, K)

Spec == Init /\ [][Next]_vars
=============================================================================
