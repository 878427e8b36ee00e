------------------------------ MODULE LedgerTables ------------------------------
(***************************************************************************)
(* public.credit_ledger below the operations of CreditLedger: what the     *)
(* checks, indexes and triggers of the table demand of an entry.  They are *)
(* written a second time in SQL, type by type, and the operations build    *)
(* their entries without asking them; an entry they refuse fails an        *)
(* operation that the repository has already found to be in order.         *)
(***************************************************************************)
EXTENDS CreditLedger

\* credit_ledger_delta_convention and credit_ledger_amount_positive.
DeltaConvention(e) ==
    /\ e.amount > 0
    /\ <<e.balance_delta, e.reserved_delta>> \in
           CASE e.entry_type \in {"monthly_grant", "bolt_on_grant", "refund"} -> {<<e.amount, 0>>}
             [] e.entry_type = "reservation" -> {<<0, e.amount>>}
             [] e.entry_type = "reservation_release" -> {<<0, -e.amount>>}
             [] e.entry_type = "debit" -> {<<-e.amount, -e.amount>>}
             [] e.entry_type = "admin_adjustment" -> {<<e.amount, 0>>, <<-e.amount, 0>>}
             [] e.entry_type = "expiry_reset" -> {<<-e.amount, 0>>}

\* credit_ledger_correlation_shape: what an entry of each type refers to.
CorrelationShape(e) ==
    CASE e.entry_type = "monthly_grant" -> e.origin \in Periods
      [] e.entry_type = "bolt_on_grant" -> e.origin \in Payments
      [] e.entry_type = "reservation" -> e.origin = e.job
      [] e.entry_type \in Settlements \cup {"refund"} -> e.origin \in DOMAIN ledger
      [] e.entry_type \in {"admin_adjustment", "expiry_reset"} -> e.origin = NoOrigin

\* credit_ledger_generation_authority_shape and the foreign key to the job.
AuthorityShape(e) ==
    e.entry_type \in Settlements \cup {"reservation", "refund"} =>
        e.job \in Jobs /\ JobAccount[e.job] = e.account

\* validate_credit_ledger_settlement_type, and the part of
\* validate_credit_ledger_authority on settlements and refunds: the entry it
\* refers to is one of the account, of the type before, and of its terms.
SettlementAccepted(e) ==
    \A type \in CASE e.entry_type \in Settlements -> {"reservation"}
                  [] e.entry_type = "refund" -> {"debit"}
                  [] OTHER -> {} :
        /\ ledger[e.origin].entry_type = type
        /\ ledger[e.origin].account = e.account
        /\ ledger[e.origin].amount = e.amount
        /\ ledger[e.origin].job = e.job

\* The unique indexes on the key, the period of a grant, its payment, the
\* reservation of a job, the settlement of a reservation, the refund of a debit.
Indexes == {{"monthly_grant"}, {"bolt_on_grant"}, {"reservation"}, Settlements, {"refund"}}

IndexesAccept(e) ==
    \A i \in DOMAIN ledger :
        /\ ledger[i].key # e.key
        /\ \A types \in Indexes :
              {e.entry_type, ledger[i].entry_type} \subseteq types /\ ledger[i].account = e.account
                  => ledger[i].origin # e.origin

\* reject_credit_ledger_mutation: entries are appended, never changed.
AppendedOnly == SubSeq(ledger', 1, Len(ledger)) = ledger

\* Whatever the operations put into the ledger the database accepts, after any
\* operations before it, and they never change what is in it.
DatabaseAcceptsEntries ==
    [][/\ AppendedOnly
       /\ \A i \in DOMAIN ledger' \ DOMAIN ledger :
             LET e == ledger'[i]
             IN  /\ DeltaConvention(e)
                 /\ CorrelationShape(e)
                 /\ AuthorityShape(e)
                 /\ SettlementAccepted(e)
                 /\ IndexesAccept(e)]_ledger

=============================================================================
