---------------------------- MODULE MCLedgerSessions ----------------------------
(* Two connections and two accounts.  Requests of different accounts use one  *)
(* key, and so do different requests of one account; the release and the      *)
(* debit of the one reservation have a key each, and a withdrawal competes    *)
(* with the reservation for the credits.                                      *)
EXTENDS LedgerSessions, TLC

CONSTANTS a1, a2, j1, s1, s2, k1, k2, k3, k4, p1, pay1

MCJobAccount == (j1 :> a1)

MCTerms == {[price |-> 1, period |-> p1, grant |-> 2, eligible |-> TRUE]}

Ask(op, a, j, n, k) == [op |-> op, account |-> a, job |-> j, amount |-> n, key |-> k]

MCRequests ==
    {Ask("monthly_grant", a1, NoOrigin, 2, k1),
     Ask("bolt_on_grant", a1, NoOrigin, 1, k1),
     Ask("credit", a2, NoOrigin, 1, k1),
     Ask("reservation", a1, j1, 1, k2),
     Ask("debit", a1, j1, 1, k3),
     Ask("reservation_release", a1, j1, 1, k4),
     Ask("refund", a1, j1, 1, k4),
     Ask("debit_adjustment", a1, NoOrigin, 1, k4),
     Ask("expiry_reset", a1, NoOrigin, 1, k4)}

\* One verified payment.
MCEvidence == {[payment |-> pay1, account |-> a1, credits |-> 1]}

=============================================================================
