----------------------------- MODULE LedgerSessions -----------------------------
(***************************************************************************)
(* The transactions of PostgresBillingRepository, statement by statement.  *)
(* A call prices itself, begins, waits for the account's row lock, reads   *)
(* at READ COMMITTED, inserts, commits and is acknowledged; it may fail    *)
(* between any two of these, and the acknowledgement may be lost after the *)
(* commit.  A caller may ask again, with the same idempotency key.         *)
(*                                                                         *)
(* `ledger` of CreditLedger is what has been committed, in commit order.   *)
(* The terms an insert was verified against may change before its commit,  *)
(* so these transactions implement CreditAccount and not CreditLedger's    *)
(* authority check at the moment of the commit.                            *)
(***************************************************************************)
EXTENDS CreditLedger

CONSTANTS
    Sessions,      \* callers, each with a pooled connection
    Requests,      \* [op, account, job, amount, key]; grants of a month
                   \* and the operations on a job take theirs elsewhere
    NoRequest, NoIntent

Operations == {"monthly_grant", "bolt_on_grant", "credit", "debit_adjustment",
               "expiry_reset", "reservation", "reservation_release", "debit", "refund"}
OnJob == {"reservation", "reservation_release", "debit", "refund"}

ASSUME RequestsAssumption ==
    Requests \subseteq [op : Operations, account : Accounts,
                        job : Jobs \cup {NoOrigin}, amount : Credits, key : Keys]
\* A reservation is asked for by the tenant of its job, and only the
\* operations on a job name one.
ASSUME JobRequestsAssumption ==
    \A r \in Requests :
        /\ r.op = "reservation" => r.job \in Jobs /\ JobAccount[r.job] = r.account
        /\ r.op \notin OnJob => r.job = NoOrigin
ASSUME SentinelAssumption == NoRequest \notin Requests

VARIABLES
    session        \* what each caller's connection is doing

sessionVars == <<ledger, terms, status, session>>

Steps == {"idle", "lock", "replay", "verify", "insert", "commit", "acknowledge"}

Idle == [at |-> "idle", request |-> NoRequest, price |-> 0, intent |-> NoIntent]

SessionTypeOK ==
    /\ TypeOK
    /\ \A s \in Sessions :
          /\ session[s].at \in Steps
          /\ session[s].request \in Requests \cup {NoRequest}
          /\ session[s].intent = NoIntent <=> session[s].at \in {"idle", "lock"}
          /\ session[s].intent \in Entry \cup {NoIntent}

SessionInit ==
    /\ Init
    /\ session = [s \in Sessions |-> Idle]

-----------------------------------------------------------------------------
AccountOf(s) == session[s].request.account

InTransaction(s) == session[s].at \in {"replay", "verify", "insert", "commit"}

\* The row lock of SELECT ... FOR UPDATE is held until the transaction ends.
Locked(a) == \E s \in Sessions : InTransaction(s) /\ AccountOf(s) = a

Goto(s, step) == session' = [session EXCEPT ![s].at = step]

\* The transaction ends without effect (ROLLBACK) and the caller gets an error.
\* Mutant: a refusal under the lock leaves the transaction open.
End_WithoutRollback(s) ==
    /\ ~InTransaction(s)
    /\ session' = [session EXCEPT ![s] = Idle]
    /\ UNCHANGED <<ledger, terms, status>>

End(s) ==
    /\ session' = [session EXCEPT ![s] = Idle]
    /\ UNCHANGED <<ledger, terms, status>>

\* Before the transaction begins the service prices a grant or a reservation,
\* and asks whether the plan is eligible for a bolt-on grant.
Call(s, r) ==
    /\ session[s].at = "idle"
    /\ r.op \in {"monthly_grant", "bolt_on_grant", "reservation"} => terms[r.account] # NoTerms
    /\ r.op = "bolt_on_grant" => terms[r.account].eligible
    /\ session' = [session EXCEPT ![s] =
          [at |-> "lock", request |-> r, intent |-> NoIntent,
           price |-> CASE r.op = "reservation" -> terms[r.account].price
                       [] r.op = "monthly_grant" -> terms[r.account].grant
                       [] OTHER -> r.amount]]
    /\ UNCHANGED <<ledger, terms, status>>

\* requireRelatedEntry, for the entry the caller's job has.
RelatedTo(r) ==
    {i \in DOMAIN ledger :
        /\ ledger[i].account = r.account
        /\ ledger[i].job = r.job
        /\ ledger[i].entry_type = IF r.op = "refund" THEN "debit" ELSE "reservation"}

\* The payment of a bolt-on grant is the caller's to name.
IntentsOf(r, n) ==
    CASE r.op = "monthly_grant" ->
             {GrantIntent("monthly_grant", r.account, n, r.key, p) : p \in Periods}
      [] r.op = "bolt_on_grant" ->
             {GrantIntent("bolt_on_grant", r.account, n, r.key, p) : p \in Payments}
      [] r.op = "credit" ->
             {Intent("admin_adjustment", r.account, n, n, 0, r.key, NoOrigin, NoOrigin)}
      [] r.op = "debit_adjustment" ->
             {Intent("admin_adjustment", r.account, n, -n, 0, r.key, NoOrigin, NoOrigin)}
      [] r.op = "expiry_reset" ->
             {Intent("expiry_reset", r.account, n, -n, 0, r.key, NoOrigin, NoOrigin)}
      [] r.op = "reservation" -> {ReservationIntent(r.job, n, r.key)}
      [] r.op \in Settlements -> {SettlementIntent(r.op, i, r.key) : i \in RelatedTo(r)}
      [] r.op = "refund" -> {RefundIntent(i, r.key) : i \in RelatedTo(r)}

\* requireLockedAccount waits for the row; mutant: it only reads the row.
Lock_Unlocked(s) ==
    /\ session[s].at = "lock"
    /\ status[AccountOf(s)] = "active"
    /\ \E intent \in IntentsOf(session[s].request, session[s].price) :
          session' = [session EXCEPT ![s].at = "replay", ![s].intent = intent]
    /\ UNCHANGED <<ledger, terms, status>>

Lock(s) ==
    /\ session[s].at = "lock"
    /\ ~Locked(AccountOf(s))
    /\ status[AccountOf(s)] = "active"
    /\ \E intent \in IntentsOf(session[s].request, session[s].price) :
          session' = [session EXCEPT ![s].at = "replay", ![s].intent = intent]
    /\ UNCHANGED <<ledger, terms, status>>

\* findReplay: the committed entry is the answer if it is this intent's.
\* Mutant: any entry under the key is.
FindReplay_AnyIntent(s) ==
    /\ session[s].at = "replay"
    /\ \/ /\ KeyUsed(session[s].intent.key)
          /\ \E i \in DOMAIN ledger :
                /\ ledger[i].key = session[s].intent.key
                /\ session' = [session EXCEPT ![s].at = "acknowledge", ![s].intent = ledger[i]]
       \/ /\ ~KeyUsed(session[s].intent.key)
          /\ Goto(s, "verify")
    /\ UNCHANGED <<ledger, terms, status>>

FindReplay(s) ==
    /\ session[s].at = "replay"
    /\ \/ /\ Replays(session[s].intent)
          /\ Goto(s, "acknowledge")
       \/ /\ ~KeyUsed(session[s].intent.key)
          /\ ~DuplicateEffect(session[s].intent)
          /\ Goto(s, "verify")
    /\ UNCHANGED <<ledger, terms, status>>

\* verifyAppendAuthority, then the two sums.
Verify(s) ==
    /\ session[s].at = "verify"
    /\ AuthorityHolds(session[s].intent)
    /\ Affordable(session[s].intent)
    /\ Goto(s, "insert")
    /\ UNCHANGED <<ledger, terms, status>>

\* An uncommitted row of another transaction with the same key blocks the
\* insert until that transaction ends.
KeyPending(s) ==
    \E t \in Sessions \ {s} :
        session[t].at = "commit" /\ session[t].intent.key = session[s].intent.key

\* The insert trigger verifies the authority again; the unique indexes refuse
\* what is committed already.  Mutant: only the account-scoped key index.
Insert_AccountKeys(s) ==
    /\ session[s].at = "insert"
    /\ \A i \in DOMAIN ledger : ledger[i].account = session[s].intent.account
                                => ledger[i].key # session[s].intent.key
    /\ ~DuplicateEffect(session[s].intent)
    /\ AuthorityHolds(session[s].intent)
    /\ Goto(s, "commit")
    /\ UNCHANGED <<ledger, terms, status>>

Insert(s) ==
    /\ session[s].at = "insert"
    /\ ~KeyPending(s)
    /\ ~KeyUsed(session[s].intent.key)
    /\ ~DuplicateEffect(session[s].intent)
    /\ AuthorityHolds(session[s].intent)
    /\ Goto(s, "commit")
    /\ UNCHANGED <<ledger, terms, status>>

Commit(s) ==
    /\ session[s].at = "commit"
    /\ ledger' = Append(ledger, session[s].intent)
    /\ Goto(s, "acknowledge")
    /\ UNCHANGED <<terms, status>>

\* The caller learns the result and forgets the call.
Acknowledge(s) == session[s].at = "acknowledge" /\ End(s)

\* What the repository's own checks refuse, once the call gets to them.
Refused(s) ==
    LET intent == session[s].intent
    IN  CASE session[s].at = "lock" ->
                 /\ ~Locked(AccountOf(s))
                 /\ \/ status[AccountOf(s)] # "active"
                    \/ IntentsOf(session[s].request, session[s].price) = {}
          [] session[s].at = "replay" ->
                 ~Replays(intent) /\ (KeyUsed(intent.key) \/ DuplicateEffect(intent))
          [] session[s].at = "verify" -> ~AuthorityHolds(intent) \/ ~Affordable(intent)
          [] session[s].at = "insert" ->
                 /\ ~KeyPending(s)
                 /\ \/ KeyUsed(intent.key) \/ DuplicateEffect(intent)
                    \/ ~AuthorityHolds(intent)
          [] OTHER -> FALSE

Refuse(s) == Refused(s) /\ End(s)

\* A broken connection or a crash of the caller, at any statement; after the
\* commit this is the lost acknowledgement.
Break(s) == session[s].at # "idle" /\ End(s)

Advance(s) ==
    \/ Lock(s) \/ FindReplay(s) \/ Verify(s) \/ Insert(s)
    \/ Commit(s) \/ Acknowledge(s) \/ Refuse(s)

SessionNext ==
    \/ \E s \in Sessions :
          \/ \E r \in Requests : Call(s, r)
          \/ Advance(s) \/ Break(s)
    \/ \E a \in Accounts, t \in Terms \cup {NoTerms} :
          ChangeTerms(a, t) /\ UNCHANGED session

SessionSpec == SessionInit /\ [][SessionNext]_sessionVars

\* PostgreSQL queues the waiters of a row and of a unique key, so a call is
\* not overtaken forever; no fairness is asked of callers, of failures or of
\* the changes of terms.
FairSessionSpec ==
    SessionSpec /\ \A s \in Sessions : SF_sessionVars(Advance(s))

-----------------------------------------------------------------------------
(* Properties. *)

\* What a caller is told is committed and is what it asked for; with
\* KeysAreGlobal and an append-only ledger, everyone who ever asks under one
\* idempotency key is told of the same entry, through lost acknowledgements,
\* retries, races and changed prices.
AnswersAreDurable ==
    \A s \in Sessions : session[s].at = "acknowledge" =>
        LET answer == session[s].intent
            request == session[s].request
        IN  /\ \E i \in DOMAIN ledger : ledger[i] = answer
            /\ answer.key = request.key
            /\ answer.account = request.account
            /\ answer.job = request.job
            /\ CASE request.op = "credit" -> answer.balance_delta = request.amount
                 [] request.op = "debit_adjustment" -> answer.balance_delta = -request.amount
                 [] OTHER -> answer.entry_type = request.op

\* Every call ends: no transaction waits for one that waits for it.
EveryCallEnds ==
    \A s \in Sessions : session[s].at # "idle" ~> session[s].at = "idle"

=============================================================================
