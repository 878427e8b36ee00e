------------------------------ MODULE CreditLedger ------------------------------
(***************************************************************************)
(* The append-only commercial credit ledger behind BillingService.         *)
(*                                                                         *)
(* Every financial operation is one transaction that locks the tenant's    *)
(* credit account, so an operation is one step here; LedgerSessions takes  *)
(* that transaction apart.  An operation that replays, conflicts, is       *)
(* refused or cannot be afforded leaves the ledger alone and is no step.   *)
(*                                                                         *)
(* An entry is the intent it was appended for (the fields hashIntent       *)
(* covers); its ledger_entry_id is its place in the ledger.  The job       *)
(* stands for the project, generation, execution and correlation ids that  *)
(* are copied together.                                                    *)
(***************************************************************************)
EXTENDS Integers, Sequences, Functions

CONSTANTS
    Accounts, Jobs, JobAccount, Credits,
    Keys,          \* idempotency keys; bounds the length of the ledger
    Periods,       \* entitlement reference periods
    Payments,      \* bolt-on payment references
    Terms,         \* serving entitlement and policy: [price, period, grant, eligible]
    NoTerms,       \* no serving entitlement, policy or price
    Evidence,      \* verified payments: [payment, account, credits]
    NoOrigin       \* an entry that refers to nothing

ASSUME JobAccountAssumption == JobAccount \in [Jobs -> Accounts]
ASSUME CreditsAssumption == Credits \subseteq Nat \ {0}
ASSUME TermsAssumption ==
    /\ Terms \subseteq [price : Credits, period : Periods, grant : Credits,
                        eligible : BOOLEAN]    \* for bolt-on credits
    /\ NoTerms \notin Terms
ASSUME EvidenceAssumption ==
    Evidence \subseteq [payment : Payments, account : Accounts, credits : Credits]
ASSUME OriginAssumption == NoOrigin \notin Jobs

VARIABLES
    ledger,        \* public.credit_ledger, in the order of insertion
    terms,         \* what the account's serving entitlement and policy say now
    status         \* credit_accounts.status

vars == <<ledger, terms, status>>

EntryTypes == {"monthly_grant", "bolt_on_grant", "reservation",
               "reservation_release", "debit", "refund",
               "admin_adjustment", "expiry_reset"}

Settlements == {"reservation_release", "debit"}

Origins == Jobs \cup Periods \cup Payments \cup Nat \cup {NoOrigin}

Entry == [entry_type : EntryTypes, account : Accounts, amount : Credits,
          balance_delta : Int, reserved_delta : Int, key : Keys,
          origin : Origins, job : Jobs \cup {NoOrigin}]

TypeOK ==
    /\ ledger \in Seq(Entry)
    /\ terms \in [Accounts -> Terms \cup {NoTerms}]
    /\ status \in [Accounts -> {"active", "frozen", "closed"}]

Init ==
    /\ ledger = <<>>
    /\ terms \in [Accounts -> Terms \cup {NoTerms}]
    /\ status \in [Accounts -> {"active", "frozen", "closed"}]

-----------------------------------------------------------------------------
(* The derived projection: credit_account_balances_internal. *)

EntriesOf(a) == {i \in DOMAIN ledger : ledger[i].account = a}

LedgerBalance(a) ==
    SumFunctionOnSet([i \in DOMAIN ledger |-> ledger[i].balance_delta], EntriesOf(a))

ReservedBalance(a) ==
    SumFunctionOnSet([i \in DOMAIN ledger |-> ledger[i].reserved_delta], EntriesOf(a))

AvailableBalance(a) == LedgerBalance(a) - ReservedBalance(a)

(* The intents of the dedicated operations, with the deltas of each type. *)

Intent(type, a, n, bal, res, k, origin, j) ==
    [entry_type |-> type, account |-> a, amount |-> n, balance_delta |-> bal,
     reserved_delta |-> res, key |-> k, origin |-> origin, job |-> j]

GrantIntent(type, a, n, k, origin) == Intent(type, a, n, n, 0, k, origin, NoOrigin)

ReservationIntent(j, n, k) ==
    Intent("reservation", JobAccount[j], n, 0, n, k, j, j)

\* Mutants: a debit that leaves the credits reserved; a settlement at the
\* price of the day.
SettlementIntent_KeepsHold(type, i, k) ==
    LET r == ledger[i]
    IN  Intent(type, r.account, r.amount,
               IF type = "debit" THEN -r.amount ELSE 0,
               IF type = "debit" THEN 0 ELSE -r.amount, k, i, r.job)

SettlementIntent_Reprices(type, i, k) ==
    LET r == ledger[i]
        n == IF terms[r.account] = NoTerms THEN r.amount ELSE terms[r.account].price
    IN  Intent(type, r.account, n, IF type = "debit" THEN -n ELSE 0, -n, k, i, r.job)

\* settleReservation copies amount and correlation from the reservation.
SettlementIntent(type, i, k) ==
    LET r == ledger[i]
    IN  Intent(type, r.account, r.amount,
               IF type = "debit" THEN -r.amount ELSE 0, -r.amount, k, i, r.job)

\* refund copies them from the debit.
RefundIntent(i, k) ==
    LET d == ledger[i]
    IN  Intent("refund", d.account, d.amount, d.amount, 0, k, i, d.job)

-----------------------------------------------------------------------------
(* appendLocked, in the order of its checks. *)

KeyUsed(k) == \E i \in DOMAIN ledger : ledger[i].key = k

\* findReplay returns the entry only for the same account and intent; any
\* other entry under the key is an IdempotencyConflictError.
Replays(intent) == \E i \in DOMAIN ledger : ledger[i] = intent

EffectClass(type) ==
    CASE type \in Settlements -> "settlement"
      [] type \in {"admin_adjustment", "expiry_reset"} -> "none"
      [] OTHER -> type

\* Mutant: an effect is known by its idempotency key only.
SameEffect_ByKey(e, f) ==
    /\ EffectClass(e.entry_type) # "none"
    /\ EffectClass(e.entry_type) = EffectClass(f.entry_type)
    /\ e.account = f.account
    /\ e.key = f.key

\* logicalEffectQuery: what may happen once, whatever key it is asked under.
SameEffect(e, f) ==
    /\ EffectClass(e.entry_type) # "none"
    /\ EffectClass(e.entry_type) = EffectClass(f.entry_type)
    /\ e.account = f.account
    /\ e.origin = f.origin

DuplicateEffect(intent) == \E i \in DOMAIN ledger : SameEffect(ledger[i], intent)

\* verifyAppendAuthority and the insert trigger: grants and reservations
\* are checked against the entitlement, policy and evidence of this moment.
AuthorityHolds(intent) ==
    LET t == terms[intent.account]
    IN  CASE intent.entry_type = "reservation" ->
                 t # NoTerms /\ t.price = intent.amount
          [] intent.entry_type = "monthly_grant" ->
                 t # NoTerms /\ t.period = intent.origin /\ t.grant = intent.amount
          [] intent.entry_type = "bolt_on_grant" ->
                 [payment |-> intent.origin, account |-> intent.account,
                  credits |-> intent.amount] \in Evidence
          [] OTHER -> TRUE

\* Mutant: reserved credits may be spent.
Affordable_IgnoresReserved(intent) ==
    /\ ReservedBalance(intent.account) + intent.reserved_delta >= 0
    /\ LedgerBalance(intent.account) + intent.balance_delta >= 0

Affordable(intent) ==
    LET projectedLedger == LedgerBalance(intent.account) + intent.balance_delta
        projectedReserved == ReservedBalance(intent.account) + intent.reserved_delta
    IN  projectedReserved >= 0 /\ projectedLedger - projectedReserved >= 0

AppendLocked(intent) ==
    /\ status[intent.account] = "active"
    /\ ~KeyUsed(intent.key)
    /\ ~DuplicateEffect(intent)
    /\ AuthorityHolds(intent)
    /\ Affordable(intent)
    /\ ledger' = Append(ledger, intent)
    /\ UNCHANGED <<terms, status>>

\* requireRelatedEntry: the entry exists and has the expected type.  Its
\* account is the one locked, since the intent is built from it.
Related(i, type) == i \in DOMAIN ledger /\ ledger[i].entry_type = type

-----------------------------------------------------------------------------
(* BillingService.  `t` is the entitlement the service read before the      *)
(* transaction began; it may be stale when the transaction verifies it.     *)

GrantMonthlyCredits(a, t, k) ==
    AppendLocked(GrantIntent("monthly_grant", a, t.grant, k, t.period))

\* The plan's eligibility is looked at here only, never by the transaction.
GrantBoltOnCredits(a, t, p, n, k) ==
    /\ t.eligible
    /\ AppendLocked(GrantIntent("bolt_on_grant", a, n, k, p))

CreateReservation(j, t, k) == AppendLocked(ReservationIntent(j, t.price, k))

ReleaseReservation(i, k) ==
    /\ Related(i, "reservation")
    /\ AppendLocked(SettlementIntent("reservation_release", i, k))

FinalizeDebit(i, k) ==
    /\ Related(i, "reservation")
    /\ AppendLocked(SettlementIntent("debit", i, k))

\* Mutant: any entry of a reservation can be refunded.
Refund_BeforeDebit(i, k) ==
    /\ Related(i, "reservation")
    /\ AppendLocked(RefundIntent(i, k))

Refund(i, k) ==
    /\ Related(i, "debit")
    /\ AppendLocked(RefundIntent(i, k))

\* Mutant: a debit adjustment is entered as a negative amount.
AdjustCredits_SignedAmount(a, n, direction, k) ==
    LET signed == IF direction = "credit" THEN n ELSE -n
    IN  AppendLocked(Intent("admin_adjustment", a, signed, signed, 0, k,
                            NoOrigin, NoOrigin))

AdjustCredits(a, n, direction, k) ==
    AppendLocked(Intent("admin_adjustment", a, n,
                        IF direction = "credit" THEN n ELSE -n, 0, k,
                        NoOrigin, NoOrigin))

ExpireCredits(a, n, k) ==
    AppendLocked(Intent("expiry_reset", a, n, -n, 0, k, NoOrigin, NoOrigin))

-----------------------------------------------------------------------------
(* The surroundings: subscription events and policy versions move an        *)
(* account's terms.  No code under src/ moves an account's status.          *)

ChangeTerms(a, t) ==
    /\ terms' = [terms EXCEPT ![a] = t]
    /\ UNCHANGED <<ledger, status>>

Next ==
    \/ \E a \in Accounts, k \in Keys :
          \/ \E t \in Terms : GrantMonthlyCredits(a, t, k)
          \/ \E t \in Terms, p \in Payments, n \in Credits : GrantBoltOnCredits(a, t, p, n, k)
          \/ \E n \in Credits, d \in {"credit", "debit"} : AdjustCredits(a, n, d, k)
          \/ \E n \in Credits : ExpireCredits(a, n, k)
    \/ \E j \in Jobs, t \in Terms, k \in Keys : CreateReservation(j, t, k)
    \/ \E i \in DOMAIN ledger, k \in Keys :
          ReleaseReservation(i, k) \/ FinalizeDebit(i, k) \/ Refund(i, k)
    \/ \E a \in Accounts, t \in Terms \cup {NoTerms} : ChangeTerms(a, t)

Spec == Init /\ [][Next]_vars

-----------------------------------------------------------------------------
(* Properties. *)

EntriesOfType(types) == {i \in DOMAIN ledger : ledger[i].entry_type \in types}

Settled(i) == \E s \in EntriesOfType(Settlements) : ledger[s].origin = i

Outstanding(a) ==
    {i \in EntriesOf(a) : ledger[i].entry_type = "reservation" /\ ~Settled(i)}

\* The reserve the projection sums up is exactly what the unsettled
\* reservations hold: no settlement frees more, less or twice.
ReservedIsOutstanding ==
    \A a \in Accounts :
        ReservedBalance(a) =
            SumFunctionOnSet([i \in DOMAIN ledger |-> ledger[i].amount], Outstanding(a))

\* Each settlement and refund repeats, to the credit and the job, the entry
\* it refers to, whatever the terms became meanwhile; a release or debit
\* settles a reservation and a refund returns a debit.
CorrelatedWith(i, o) ==
    /\ ledger[i].account = ledger[o].account
    /\ ledger[i].amount = ledger[o].amount
    /\ ledger[i].job = ledger[o].job

SettlementsMatchOrigin ==
    \A i \in EntriesOfType(Settlements \cup {"refund"}) :
        \E o \in 1 .. (i - 1) :
            /\ ledger[i].origin = o
            /\ ledger[o].entry_type =
                   IF ledger[i].entry_type = "refund" THEN "debit" ELSE "reservation"
            /\ CorrelatedWith(i, o)

\* One reservation per job, one settlement per reservation, one refund per
\* debit, one grant per period and per payment, whatever keys callers use.
OnceOnly == {{"monthly_grant"}, {"bolt_on_grant"}, {"reservation"}, Settlements, {"refund"}}

EffectsHappenOnce ==
    \A types \in OnceOnly : \A i, j \in EntriesOfType(types) :
        i # j /\ ledger[i].account = ledger[j].account => ledger[i].origin # ledger[j].origin

\* A key stands for one intent, across all accounts.
KeysAreGlobal == \A i, j \in DOMAIN ledger : ledger[i].key = ledger[j].key => i = j

\* Once a reservation stands, nothing an account goes through makes its
\* debit or its release unaffordable.
HoldsStaySettleable ==
    \A a \in Accounts : \A i \in Outstanding(a) :
        \A type \in Settlements, k \in Keys : Affordable(SettlementIntent(type, i, k))

(* The ledger implements CreditAccount. *)

JobEntries(j, types) == {i \in EntriesOfType(types) : ledger[i].job = j}

JobPhase(j) ==
    CASE JobEntries(j, {"refund"}) # {} -> "refunded"
      [] JobEntries(j, {"debit"}) # {} /\ JobEntries(j, {"refund"}) = {} -> "debited"
      [] JobEntries(j, {"reservation_release"}) # {} -> "released"
      [] JobEntries(j, {"reservation"}) # {} /\ JobEntries(j, Settlements) = {} -> "held"
      [] OTHER -> "none"

JobHeld(j) ==
    IF JobEntries(j, {"reservation"}) = {} THEN 0
    ELSE ledger[CHOOSE i \in JobEntries(j, {"reservation"}) : TRUE].amount

Account == INSTANCE CreditAccount WITH
    balance <- [a \in Accounts |-> LedgerBalance(a)],
    reserved <- [a \in Accounts |-> ReservedBalance(a)],
    phase <- [j \in Jobs |-> JobPhase(j)],
    held <- [j \in Jobs |-> JobHeld(j)]

\* Every append is one Deposit, Withdraw, Hold, Release, Debit or Refund.
ImplementsCreditAccount == Account!AccountSpec

=============================================================================
