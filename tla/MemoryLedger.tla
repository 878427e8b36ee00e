----------------------------- MODULE MemoryLedger -----------------------------
(***************************************************************************)
(* InMemoryBillingRepository beside the durable repository.  The billing   *)
(* tests run against the repository in memory, which keeps a list of       *)
(* entries and two indexes of its own and checks them in an order of its   *)
(* own; what they establish holds for production only as far as the two    *)
(* repositories answer alike.  Here each of them is given the same         *)
(* operations, and both are asked what they would answer to every other.   *)
(***************************************************************************)
EXTENDS CreditLedger

VARIABLES
    entries,         \* this.entries; an entry's place is its id in entriesById
    idempotency,     \* this.idempotency: the entry of each key
    logicalEffects   \* this.logicalEffects

memory == <<entries, idempotency, logicalEffects>>

MemoryInit ==
    /\ entries = << >>
    /\ idempotency = << >>
    /\ logicalEffects = {}

-----------------------------------------------------------------------------
(* The repository in memory. *)

MemoryEntriesOf(a) == {i \in DOMAIN entries : entries[i].account = a}

\* readBalance.
MemoryLedgerBalance(a) ==
    SumFunctionOnSet([i \in DOMAIN entries |-> entries[i].balance_delta], MemoryEntriesOf(a))
MemoryReserved(a) ==
    SumFunctionOnSet([i \in DOMAIN entries |-> entries[i].reserved_delta], MemoryEntriesOf(a))

\* Mutant: a release and a debit are effects of their own.
logicalKeyFor_PerType(intent) ==
    CASE intent.entry_type \in {"admin_adjustment", "expiry_reset"} -> {}
      [] OTHER -> {<<intent.account, intent.entry_type, intent.origin>>}

\* The effect of an intent under its account, none for adjustments and expiries.
logicalKeyFor(intent) ==
    CASE intent.entry_type \in {"admin_adjustment", "expiry_reset"} -> {}
      [] intent.entry_type \in Settlements ->
             {<<intent.account, "reservation-settlement", intent.origin>>}
      [] OTHER -> {<<intent.account, intent.entry_type, intent.origin>>}

replayFor(intent) ==
    IF entries[idempotency[intent.key]] = intent THEN "replayed" ELSE "conflict"

MemoryAffordable(intent) ==
    LET projectedLedger == MemoryLedgerBalance(intent.account) + intent.balance_delta
        projectedReserved == MemoryReserved(intent.account) + intent.reserved_delta
    IN  projectedReserved >= 0 /\ projectedLedger - projectedReserved >= 0

\* requireAccount, then the checks of appendLocked.
MemoryAnswer(intent) ==
    IF status[intent.account] # "active" THEN "unavailable"
    ELSE IF intent.key \in DOMAIN idempotency THEN replayFor(intent)
    ELSE IF logicalKeyFor(intent) \cap logicalEffects # {} THEN "duplicate"
    ELSE IF MemoryAffordable(intent) THEN "appended" ELSE "unaffordable"

MemoryAppendLocked(intent) ==
    IF MemoryAnswer(intent) = "appended"
    THEN /\ entries' = Append(entries, intent)
         /\ idempotency' = [k \in DOMAIN idempotency \cup {intent.key} |->
                               IF k = intent.key THEN Len(entries) + 1 ELSE idempotency[k]]
         /\ logicalEffects' = logicalEffects \cup logicalKeyFor(intent)
    ELSE UNCHANGED memory

\* requireRelatedEntry by entriesById, and the intents of releaseReservation,
\* finalizeDebit and refund; none when the entry is not there.
MemoryRelated(i, type) == i \in DOMAIN entries /\ entries[i].entry_type = type

MemorySettlement(type, i, k) ==
    {Intent(type, r.account, r.amount, IF type = "debit" THEN -r.amount ELSE 0, -r.amount, k, i, r.job) :
        r \in {entries[o] : o \in {n \in {i} : MemoryRelated(n, "reservation")}}}

MemoryRefund(i, k) ==
    {Intent("refund", d.account, d.amount, d.amount, 0, k, i, d.job) :
        d \in {entries[o] : o \in {n \in {i} : MemoryRelated(n, "debit")}}}

\* findGenerationBillingState: the reservations a job or its key stands for and
\* what settles them.  More than one of either is refused.
MemoryBillingState(j, k) ==
    LET reservations == {i \in DOMAIN entries : /\ entries[i].entry_type = "reservation"
                                                /\ entries[i].key = k \/ entries[i].origin = j}
    IN  [reservation |-> reservations,
         settlement |-> {i \in DOMAIN entries : /\ entries[i].entry_type \in Settlements
                                                /\ entries[i].origin \in reservations}]

\* Mutant: only a debit settles.
MemoryStale_DebitsOnly ==
    {i \in DOMAIN entries :
        /\ entries[i].entry_type = "reservation"
        /\ ~\E s \in DOMAIN entries : entries[s].entry_type = "debit" /\ entries[s].origin = i}

\* reconcile.
MemoryStale ==
    {i \in DOMAIN entries :
        /\ entries[i].entry_type = "reservation"
        /\ ~\E s \in DOMAIN entries : entries[s].entry_type \in Settlements /\ entries[s].origin = i}

MemoryDuplicates ==
    {i \in DOMAIN entries : \E o \in 1 .. (i - 1) :
        logicalKeyFor(entries[i]) \cap logicalKeyFor(entries[o]) # {}}

-----------------------------------------------------------------------------
(* The durable repository, asked the same. *)

\* requireLockedAccount, then appendLocked in the order of its checks.
DurableAnswer(intent) ==
    IF status[intent.account] # "active" THEN "unavailable"
    ELSE IF Replays(intent) THEN "replayed"
    ELSE IF KeyUsed(intent.key) THEN "conflict"
    ELSE IF DuplicateEffect(intent) THEN "duplicate"
    ELSE IF ~AuthorityHolds(intent) THEN "refused"
    ELSE IF Affordable(intent) THEN "appended" ELSE "unaffordable"

DurableSettlement(type, i, k) ==
    {SettlementIntent(type, o, k) : o \in {n \in {i} : Related(n, "reservation")}}

DurableRefund(i, k) == {RefundIntent(o, k) : o \in {n \in {i} : Related(n, "debit")}}

DurableBillingState(j, k) ==
    LET reservations == {i \in EntriesOfType({"reservation"}) : ledger[i].key = k \/ ledger[i].origin = j}
    IN  [reservation |-> reservations,
         settlement |-> {i \in EntriesOfType(Settlements) :
                            \E o \in reservations : /\ ledger[i].origin = o
                                                    /\ ledger[i].account = ledger[o].account}]

\* reconcile: what an operator is told to look at.
StaleReservations == UNION {Outstanding(a) : a \in Accounts}

InvalidSettlements ==
    {i \in EntriesOfType(Settlements) :
        ~\E o \in EntriesOfType({"reservation"}) : ledger[i].origin = o /\ CorrelatedWith(i, o)}

OrphanRefunds ==
    {i \in EntriesOfType({"refund"}) :
        ~\E o \in EntriesOfType({"debit"}) : ledger[i].origin = o /\ CorrelatedWith(i, o)}

DuplicateEffects == {i \in DOMAIN ledger : \E o \in DOMAIN ledger \ {i} : SameEffect(ledger[i], ledger[o])}

-----------------------------------------------------------------------------
(* Every operation the durable repository accepts is made of both.          *)

BothInit == Init /\ MemoryInit

BothNext ==
    /\ Next
    /\ \/ ledger' = ledger /\ UNCHANGED memory
       \/ ledger' # ledger /\ MemoryAppendLocked(ledger'[Len(ledger')])

BothSpec == BothInit /\ [][BothNext]_<<vars, memory>>

-----------------------------------------------------------------------------
(* Properties. *)

\* What may be asked under a key: grants, adjustments, expiries and holds.
Asked(k) ==
    {GrantIntent("monthly_grant", a, t.grant, k, t.period) : a \in Accounts, t \in Terms}
    \cup {GrantIntent("bolt_on_grant", a, n, k, p) : a \in Accounts, n \in Credits, p \in Payments}
    \cup {Intent("admin_adjustment", a, n, d * n, 0, k, NoOrigin, NoOrigin) :
             a \in Accounts, n \in Credits, d \in {-1, 1}}
    \cup {Intent("expiry_reset", a, n, -n, 0, k, NoOrigin, NoOrigin) : a \in Accounts, n \in Credits}
    \cup {ReservationIntent(j, t.price, k) : j \in Jobs, t \in Terms}

AnsweredAlike(intent) == DurableAnswer(intent) \in {"refused", MemoryAnswer(intent)}

\* After any operations both repositories answer any further one alike, to the
\* entry they would append or repeat, unless the durable one refuses its price
\* or period, which only it can check.
DoubleAnswersAlike ==
    \A k \in Keys :
        /\ \A intent \in Asked(k) : AnsweredAlike(intent)
        /\ \A i \in 1 .. (Len(ledger) + 1) :
              /\ \A type \in Settlements :
                    /\ MemorySettlement(type, i, k) = DurableSettlement(type, i, k)
                    /\ \A intent \in MemorySettlement(type, i, k) : AnsweredAlike(intent)
              /\ MemoryRefund(i, k) = DurableRefund(i, k)
              /\ \A intent \in MemoryRefund(i, k) : AnsweredAlike(intent)
        /\ \A j \in Jobs : MemoryBillingState(j, k) = DurableBillingState(j, k)

\* Reconciliation has nothing to report of a ledger the operations made but the
\* holds that nobody has settled, and both repositories report those.
OnlyStaleHoldsReported ==
    /\ InvalidSettlements = {} /\ OrphanRefunds = {} /\ DuplicateEffects = {}
    /\ MemoryDuplicates = {}
    /\ MemoryStale = StaleReservations

=============================================================================
