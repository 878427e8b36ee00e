----------------------------- MODULE CreditAccount -----------------------------
(***************************************************************************)
(* What the credit ledger promises its callers, without a ledger: one      *)
(* balance and one reserved amount per tenant account, and one billing     *)
(* phase per generation job.  A job is charged at most once, a charge is   *)
(* given back at most once, and a hold that was taken can always be        *)
(* settled.  CreditLedger implements this module; GenerationBilling uses   *)
(* it as its ledger.                                                       *)
(***************************************************************************)
EXTENDS Integers

CONSTANTS
    Accounts,      \* tenant credit accounts (public.credit_accounts)
    Jobs,          \* immutable generation jobs
    JobAccount,    \* the account each job is charged to
    Credits        \* the credit amounts in use

ASSUME JobAccountAssumption == JobAccount \in [Jobs -> Accounts]
ASSUME CreditsAssumption == Credits \subseteq Nat \ {0}

VARIABLES
    balance,       \* [Accounts -> Int]: ledger_balance
    reserved,      \* [Accounts -> Int]: reserved_balance
    phase,         \* [Jobs -> Phases]: where the job's charge stands
    held           \* [Jobs -> Int]: the amount of the job's reservation, 0 before it

accountVars == <<balance, reserved, phase, held>>

Phases == {"none", "held", "debited", "released", "refunded"}

Available(a) == balance[a] - reserved[a]

AccountTypeOK ==
    /\ balance \in [Accounts -> Int]
    /\ reserved \in [Accounts -> Int]
    /\ phase \in [Jobs -> Phases]
    /\ held \in [Jobs -> Credits \cup {0}]

AccountInit ==
    /\ balance \in [Accounts -> Nat]
    /\ reserved = [a \in Accounts |-> 0]
    /\ phase = [j \in Jobs |-> "none"]
    /\ held = [j \in Jobs |-> 0]

-----------------------------------------------------------------------------
\* Monthly and bolt-on grants, and administrative credits.
Deposit(a, n) ==
    /\ balance' = [balance EXCEPT ![a] = @ + n]
    /\ UNCHANGED <<reserved, phase, held>>

\* Administrative debits and expiry never reach into reserved credits.
Withdraw(a, n) ==
    /\ Available(a) >= n
    /\ balance' = [balance EXCEPT ![a] = @ - n]
    /\ UNCHANGED <<reserved, phase, held>>

Hold(j, n) ==
    /\ phase[j] = "none"
    /\ Available(JobAccount[j]) >= n
    /\ phase' = [phase EXCEPT ![j] = "held"]
    /\ held' = [held EXCEPT ![j] = n]
    /\ reserved' = [reserved EXCEPT ![JobAccount[j]] = @ + n]
    /\ UNCHANGED balance

Release(j) ==
    /\ phase[j] = "held"
    /\ phase' = [phase EXCEPT ![j] = "released"]
    /\ reserved' = [reserved EXCEPT ![JobAccount[j]] = @ - held[j]]
    /\ UNCHANGED <<balance, held>>

Debit(j) ==
    /\ phase[j] = "held"
    /\ phase' = [phase EXCEPT ![j] = "debited"]
    /\ reserved' = [reserved EXCEPT ![JobAccount[j]] = @ - held[j]]
    /\ balance' = [balance EXCEPT ![JobAccount[j]] = @ - held[j]]
    /\ UNCHANGED held

Refund(j) ==
    /\ phase[j] = "debited"
    /\ phase' = [phase EXCEPT ![j] = "refunded"]
    /\ balance' = [balance EXCEPT ![JobAccount[j]] = @ + held[j]]
    /\ UNCHANGED <<reserved, held>>

AccountNext ==
    \/ \E a \in Accounts, n \in Credits : Deposit(a, n) \/ Withdraw(a, n)
    \/ \E j \in Jobs, n \in Credits : Hold(j, n)
    \/ \E j \in Jobs : Release(j) \/ Debit(j) \/ Refund(j)

AccountSpec == AccountInit /\ [][AccountNext]_accountVars

-----------------------------------------------------------------------------
\* No interleaving of operations spends a credit the account does not have:
\* the check `projectedLedger - projectedReserved < 0` of appendLocked.
NeverOverspent == \A a \in Accounts : Available(a) >= 0

=============================================================================
