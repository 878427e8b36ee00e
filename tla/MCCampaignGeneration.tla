------------------------- MODULE MCCampaignGeneration -------------------------
(* Two processes, one key whose job the account can or cannot pay for.      *)
EXTENDS CampaignGeneration, TLC

CONSTANTS a1, k1, q1, q2, c1, c2, c3

MCJobAccount == [j \in Jobs |-> a1]
MCOpening == {a1 :> 0, a1 :> 1}

GenerationSymmetry == Permutations(Procs) \cup Permutations(Calls) \cup Permutations(Texts)
                         \cup Permutations(Briefs)

=============================================================================
