------------------------ MODULE MCImmediateGeneration ------------------------
(* Two processes and two execution ids of one account, which can pay for    *)
(* both kinds or for a script only.                                         *)
EXTENDS ImmediateGeneration, TLC

CONSTANTS a1, j1, j2, q1, q2, c1, c2, c3

MCJobAccount == [j \in Jobs |-> a1]
MCPrice == ("image" :> 2) @@ ("script" :> 1)
MCOpening == {a1 :> 1, a1 :> 3}

ImmediateSymmetry == Permutations(Procs) \cup Permutations(Calls) \cup Permutations(Jobs)

=============================================================================
