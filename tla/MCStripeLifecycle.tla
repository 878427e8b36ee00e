-------------------------- MODULE MCStripeLifecycle --------------------------
(* Two subscriptions of one customer, of the policy Paid-Beta has too, so     *)
(* that both may take its entitlement over.                                   *)
EXTENDS MemoryStripe, TLC

CONSTANTS s1, s2, p1, p2, beta

MCPolicy == [e \in Subs \cup {Beta} |-> "standard"]

StripeSymmetry == Permutations(Procs) \cup Permutations(Subs)

=============================================================================
