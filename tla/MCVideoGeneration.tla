-------------------------- MODULE MCVideoGeneration --------------------------
(* Two processes and one video job that the account can or cannot pay for. *)
EXTENDS VideoGeneration, TLC

CONSTANTS a1, j1, q1, q2, c1, c2, c3

MCJobAccount == [j \in Jobs |-> a1]
MCOpening == {a1 :> 0, a1 :> 1}

VideoSymmetry == Permutations(Procs) \cup Permutations(Calls)

=============================================================================
