-------------------------- MODULE MCEmailVerification --------------------------
(* Small instances of EmailVerification for TLC. *)
EXTENDS EmailVerification, TLC

(* Production, and local development, where no mail server is configured. *)
MCDeployments == {[smtp |-> TRUE, development |-> FALSE],
                  [smtp |-> FALSE, development |-> TRUE]}
=============================================================================
