----------------------------- MODULE MCCreditLedger -----------------------------
(* The ledger in both repositories, with one account that runs both jobs. *)
EXTENDS MemoryLedger, LedgerTables, TLC

CONSTANTS a1, j1, j2, k1, k2, k3, k4, p1, p2, pay1

MCJobAccount == (j1 :> a1) @@ (j2 :> a1)

\* A plan, and in the next period another at a higher price without bolt-ons.
MCTerms == {[price |-> 1, period |-> p1, grant |-> 2, eligible |-> TRUE],
            [price |-> 2, period |-> p2, grant |-> 2, eligible |-> FALSE]}

MCEvidence == {[payment |-> pay1, account |-> a1, credits |-> 1]}

KeySymmetry == Permutations(Keys)

=============================================================================
