------------------------------ MODULE MCBilling ------------------------------
(* Small instances of Billing for TLC.  The plan catalogue is the one       *)
(* alembic/versions/0002 seeds, with prices reduced to their order.         *)
EXTENDS Billing

MCPlans == {"FREE", "PRO", "MAX"}
MCPrice == [p \in MCPlans |-> CASE p = "FREE" -> 0 [] p = "PRO" -> 1 [] p = "MAX" -> 2]
=============================================================================
