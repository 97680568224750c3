------------------------------ MODULE MCPublishing ------------------------------
(* Small instances of Publishing for TLC. *)
EXTENDS Publishing, TLC

(* A plan that cannot publish, as FREE, and two that can, with room for    *)
(* one site and for two.                                                   *)
MCPlans == {"FREE", "PRO", "MAX"}
MCMaxSites == [FREE |-> 1, PRO |-> 1, MAX |-> 2]
MCCanPublish == [FREE |-> FALSE, PRO |-> TRUE, MAX |-> TRUE]

MCModules == {"medical", "personal_blog", "restaurant"}
MCTypes == {"landing", "blog", "store"}
MCTypeOf == [medical |-> "landing", personal_blog |-> "blog", restaurant |-> "store"]

OneModule == {"medical"}
OneTypeOf == [medical |-> "landing"]

Symmetry == Permutations(Users) \cup Permutations(Sites) \cup Permutations(Requests)
=============================================================================
