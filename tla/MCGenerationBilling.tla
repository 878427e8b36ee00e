-------------------------- MODULE MCGenerationBilling --------------------------
(* Two processes of the server, an immediate and a deferred job of one        *)
(* account that can afford one of them.                                       *)
EXTENDS GenerationBilling, TLC

CONSTANTS a1, j1, j2, q1, q2, c1, c2

MCJobAccount == (j1 :> a1) @@ (j2 :> a1)
MCPrice == (j1 :> 1) @@ (j2 :> 2)
MCOpening == (a1 :> 2)

=============================================================================
