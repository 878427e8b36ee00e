------------------------ MODULE GenerationBillingProofs ------------------------
(* What holds of the billing orchestrator for any number of processes, calls, *)
(* jobs, crashes and faults.                                                   *)
EXTENDS GenerationBilling, FiniteSetTheorems, TLAPS

-----------------------------------------------------------------------------
(* The promise of the ledger holds for every set of accounts, jobs and         *)
(* amounts: by induction on the steps of CreditAccount.                        *)

\* A job's reservation is a number of credits, or 0 before it.
LEMMA HeldIsNat == ASSUME AccountTypeOK PROVE \A j \in Jobs : held[j] \in Nat
<1> SUFFICES ASSUME NEW j \in Jobs PROVE held[j] \in Nat
  OBVIOUS
<1>1. held[j] \in Credits \/ held[j] = 0
  BY DEF AccountTypeOK
<1>2. CASE held[j] \in Credits
  BY <1>2, CreditsAssumption
<1>3. CASE held[j] = 0
  BY <1>3
<1> QED  BY <1>1, <1>2, <1>3

\* Every step keeps balances integers and holds within the credit amounts.
THEOREM AccountTypeCorrect == AccountSpec => []AccountTypeOK
<1>1. AccountInit => AccountTypeOK
  BY CreditsAssumption DEF AccountInit, AccountTypeOK, Phases
<1>2. AccountTypeOK /\ [AccountNext]_accountVars => AccountTypeOK'
  <2> SUFFICES ASSUME AccountTypeOK, [AccountNext]_accountVars
               PROVE  AccountTypeOK'
    OBVIOUS
  <2> USE JobAccountAssumption, CreditsAssumption DEF AccountTypeOK, Phases
  <2>1. ASSUME NEW a \in Accounts, NEW n \in Credits, Deposit(a, n) \/ Withdraw(a, n)
        PROVE  AccountTypeOK'
    BY <2>1 DEF Deposit, Withdraw
  <2>2. ASSUME NEW j \in Jobs, NEW n \in Credits, Hold(j, n)
        PROVE  AccountTypeOK'
    BY <2>2 DEF Hold
  <2>3. ASSUME NEW j \in Jobs, Release(j) \/ Debit(j) \/ Refund(j)
        PROVE  AccountTypeOK'
    <3>1. held[j] \in Nat
      BY HeldIsNat
    <3> QED  BY <2>3, <3>1 DEF Release, Debit, Refund
  <2>4. CASE UNCHANGED accountVars
    BY <2>4 DEF accountVars
  <2> QED  BY <2>1, <2>2, <2>3, <2>4 DEF AccountNext
<1> QED  BY <1>1, <1>2, PTL DEF AccountSpec

\* No account ever spends or reserves a credit it does not have: a hold and a
\* withdrawal are checked, and every other step gives credits back or takes
\* what was held.
THEOREM NeverOverspentAlways == AccountSpec => []NeverOverspent
<1>1. AccountInit => NeverOverspent
  <2> SUFFICES ASSUME AccountInit, NEW a \in Accounts PROVE balance[a] - reserved[a] >= 0
    BY DEF NeverOverspent, Available
  <2>1. balance[a] \in Nat /\ reserved[a] = 0
    BY DEF AccountInit
  <2> QED  BY <2>1
<1>2. AccountTypeOK /\ NeverOverspent /\ [AccountNext]_accountVars => NeverOverspent'
  <2> SUFFICES ASSUME AccountTypeOK, NeverOverspent, [AccountNext]_accountVars,
                      NEW b \in Accounts
               PROVE  Available(b)' >= 0
    BY DEF NeverOverspent
  <2> USE JobAccountAssumption, CreditsAssumption DEF AccountTypeOK, Available
  <2>0. balance[b] - reserved[b] >= 0
    BY DEF NeverOverspent
  <2>1. ASSUME NEW a \in Accounts, NEW n \in Credits, Deposit(a, n) \/ Withdraw(a, n)
        PROVE  Available(b)' >= 0
    BY <2>0, <2>1 DEF Deposit, Withdraw
  <2>2. ASSUME NEW j \in Jobs, NEW n \in Credits, Hold(j, n)
        PROVE  Available(b)' >= 0
    BY <2>0, <2>2 DEF Hold
  <2>3. ASSUME NEW j \in Jobs, Release(j) \/ Debit(j) \/ Refund(j)
        PROVE  Available(b)' >= 0
    <3>1. held[j] \in Nat
      BY HeldIsNat
    <3> QED  BY <2>0, <2>3, <3>1 DEF Release, Debit, Refund
  <2>4. CASE UNCHANGED accountVars
    BY <2>0, <2>4 DEF accountVars
  <2> QED  BY <2>1, <2>2, <2>3, <2>4 DEF AccountNext
<1> QED  BY <1>1, <1>2, AccountTypeCorrect, PTL DEF AccountSpec

-----------------------------------------------------------------------------
(* The operators on a job's state keep its type. *)

LEMMA SetType ==
    ASSUME NEW s \in JobState, NEW op \in LedgerOps, NEW promise \in Promise
    PROVE  Set(s, op, promise) \in JobState
BY DEF Set, LedgerOps, JobState

LEMMA SetReconstructionType ==
    ASSUME NEW s \in JobState, NEW r \in {"none", "pending"} \cup Phases
    PROVE  Set(s, "reconstruction", r) \in JobState
BY DEF Set, JobState

LEMMA SetExecutionType ==
    ASSUME NEW s \in JobState, NEW outcome \in {"ok", "failed"}
    PROVE  Set(s, "execution", outcome) \in JobState
BY DEF Set, JobState

LEMMA OnceType ==
    ASSUME NEW s \in JobState, NEW op \in LedgerOps \cup {"reconstruction"}
    PROVE  Once(s, op) \in JobState
<1>1. CASE op \in LedgerOps
  BY <1>1, SetType DEF Once, Promise
<1>2. CASE op = "reconstruction"
  BY <1>2, SetReconstructionType DEF Once
<1> QED  BY <1>1, <1>2

LEMMA ExecuteOnceType == ASSUME NEW s \in JobState PROVE ExecuteOnce(s) \in JobState
BY DEF ExecuteOnce, JobState

LEMMA ResolvedType ==
    ASSUME NEW s \in JobState, NEW op \in LedgerOps
    PROVE  Resolved(s, op) \in JobState
<1>1. CASE op = "debit"
  BY <1>1 DEF Resolved, JobState, Promise
<1>2. CASE op # "debit"
  BY <1>2, SetType DEF Resolved, Promise
<1> QED  BY <1>1, <1>2

LEMMA RebuiltType == ASSUME NEW s \in JobState PROVE Rebuilt(s) \in JobState
<1> DEFINE debited == s.reconstruction \in {"debited", "refunded"}
           reservation == IF s.reservation = "none" THEN "have" ELSE s.reservation
           settled == IF debited THEN "debited" ELSE s.settled
           debit == IF debited THEN Found(s.debit) ELSE s.debit
           release == IF s.reconstruction = "released" THEN Found(s.release) ELSE s.release
<1>1. Rebuilt(s) = [s EXCEPT !.reconstruction = "have", !.reservation = reservation,
                             !.settled = settled, !.debit = debit, !.release = release]
  BY DEF Rebuilt
<1>2. /\ reservation \in Promise /\ debit \in Promise /\ release \in Promise
      /\ settled \in {"none", "debited"}
  BY DEF JobState, Promise, Found
<1> HIDE DEF reservation, settled, debit, release
<1> QED  BY <1>1, <1>2 DEF JobState

LEMMA FreshType == Fresh \in JobState
BY DEF Fresh, JobState, Promise

-----------------------------------------------------------------------------
(* The orchestrator uses the ledger only through its operations. *)

\* A promise's commit is one operation of the ledger, or a replay.
LEMMA CommitIsAccountStep ==
    ASSUME NEW p \in Procs, NEW j \in Jobs, NEW op \in LedgerOps, Commit(p, j, op)
    PROVE  [AccountNext]_accountVars
<1>1. CASE AppendEntry(j, op)
  <2>1. Price[j] \in Credits
    BY PriceAssumption
  <2> QED  BY <1>1, <2>1 DEF AppendEntry, AccountNext
<1>2. CASE UNCHANGED accountVars
  BY <1>2
<1> QED  BY <1>1, <1>2 DEF Commit

\* Commit is the only action that touches the ledger.
LEMMA NextIsAccountStep == [Next]_vars => [AccountNext]_accountVars
<1> SUFFICES ASSUME [Next]_vars PROVE [AccountNext]_accountVars
  OBVIOUS
<1>1. ASSUME NEW c \in Calls, NEW p \in Procs, NEW j \in Jobs,
             \/ BeginExecution(c, p, j) \/ SettleSuccessfulExecution(c, p, j)
             \/ ReleaseFailedExecution(c, p, j) \/ RefundDebit(c, p, j)
      PROVE  UNCHANGED accountVars
  BY <1>1 DEF BeginExecution, SettleSuccessfulExecution, ReleaseFailedExecution,
              RefundDebit, Enter, Elsewhere
<1>2. ASSUME NEW c \in Calls, Resume(c) PROVE UNCHANGED accountVars
  BY <1>2 DEF Resume, Reserved, Executed, Reconstructed, FoundReservation,
              FoundOutcome, Debited, Released, Refunded, Elsewhere
<1>3. ASSUME NEW p \in Procs, NEW j \in Jobs, Database(p, j)
      PROVE  [AccountNext]_accountVars
  <2>1. CASE \E op \in LedgerOps : Commit(p, j, op)
    BY <2>1, CommitIsAccountStep
  <2>2. CASE \E op \in LedgerOps : Resolve(p, j, op) \/ Refuse(p, j, op)
    BY <2>2 DEF Resolve, Refuse, Reject, Elsewhere
  <2>3. CASE ReadDurable(p, j) \/ ApplyDurable(p, j) \/ ForgetDurable(p, j)
    BY <2>3 DEF ReadDurable, ApplyDurable, ForgetDurable, Reject, Elsewhere
  <2> QED  BY <1>3, <2>1, <2>2, <2>3 DEF Database
<1>4. ASSUME NEW p \in Procs, NEW j \in Jobs,
             Provider(p, j) \/ \E op \in LedgerOps : Fault(p, j, op)
      PROVE  UNCHANGED accountVars
  BY <1>4 DEF Provider, Finish, Fault, Reject
<1>5. ASSUME NEW j \in Jobs, NEW result \in {"completed", "failed"}, Complete(j, result)
      PROVE  UNCHANGED accountVars
  BY <1>5 DEF Complete
<1>6. ASSUME NEW p \in Procs, Crash(p) PROVE UNCHANGED accountVars
  BY <1>6 DEF Crash
<1>7. CASE UNCHANGED vars
  BY <1>7 DEF vars
<1> QED  BY <1>1, <1>2, <1>3, <1>4, <1>5, <1>6, <1>7 DEF Next

\* Seen from the ledger, the orchestrators of all processes are a client
\* that makes the operations of CreditAccount one at a time.
THEOREM BillingImplementsAccount == Spec => AccountSpec
<1>1. Init => AccountInit
  BY OpeningAssumption DEF Init, AccountInit
<1> QED  BY <1>1, NextIsAccountStep, PTL DEF Spec, AccountSpec

\* So no concurrency of calls and processes spends a credit twice.
THEOREM BillingNeverOverspends == Spec => []NeverOverspent
BY BillingImplementsAccount, NeverOverspentAlways, PTL

-----------------------------------------------------------------------------
(* The shape of the orchestrator's state. *)

CallStates == CallState \cup {NotCalled}

\* TypeOK without the variables of the ledger.
OrchestratorTypeOK ==
    /\ state \in [Procs -> [Jobs -> JobState]]
    /\ call \in [Calls -> CallStates]
    /\ runs \in [Jobs -> Nat]
    /\ outcomes \in [Jobs -> SUBSET {"ok", "failed"}]
    /\ completion \in [Jobs -> {"none", "completed", "failed"}]
    /\ delivered \subseteq Jobs
    /\ crashes \in 0 .. MaxCrashes
    /\ faults \in 0 .. MaxFaults

\* A call that awaits something knows its process, its job and its kind.
LEMMA AwaitingIsCalled ==
    ASSUME OrchestratorTypeOK, NEW c \in Calls, call[c].at \in Awaited
    PROVE  call[c] \in CallState
<1>1. call[c] # NotCalled
  BY DEF NotCalled, Awaited, LedgerOps
<1> QED  BY <1>1 DEF OrchestratorTypeOK, CallStates

LEMMA GoType ==
    ASSUME OrchestratorTypeOK, NEW c \in Calls, call[c] \in CallState,
           NEW s \in JobState, NEW at \in Awaited \cup {"done", "failed"}, Go(c, s, at)
    PROVE  state' \in [Procs -> [Jobs -> JobState]] /\ call' \in [Calls -> CallStates]
<1>1. call[c].proc \in Procs /\ call[c].job \in Jobs
  BY DEF CallState
<1>2. state' \in [Procs -> [Jobs -> JobState]]
  BY <1>1 DEF OrchestratorTypeOK, Go
<1>3. [call[c] EXCEPT !.at = at] \in CallState
  BY DEF CallState
<1>4. call' = [call EXCEPT ![c] = [call[c] EXCEPT !.at = at]]
  BY DEF Go
<1>5. call' \in [Calls -> CallStates]
  BY <1>3, <1>4 DEF OrchestratorTypeOK, CallStates
<1> QED  BY <1>2, <1>5

LEMMA EnterType ==
    ASSUME OrchestratorTypeOK, NEW c \in Calls, NEW p \in Procs, NEW j \in Jobs,
           NEW kind \in Kinds, NEW s \in JobState,
           NEW at \in Awaited \cup {"done", "failed"}, Enter(c, p, j, kind, s, at)
    PROVE  OrchestratorTypeOK'
<1>1. [kind |-> kind, proc |-> p, job |-> j, at |-> at] \in CallStates
  BY DEF CallState, CallStates
<1>2. call' \in [Calls -> CallStates]
  BY <1>1 DEF OrchestratorTypeOK, Enter
<1>3. state' \in [Procs -> [Jobs -> JobState]]
  BY DEF OrchestratorTypeOK, Enter
<1> QED  BY <1>2, <1>3 DEF OrchestratorTypeOK, Enter, Elsewhere

\* Only calls that await something are failed.
LEMMA FailCallsType ==
    ASSUME OrchestratorTypeOK, NEW C, \A c \in C : c \in Calls /\ call[c].at \in Awaited
    PROVE  FailCalls(C) \in [Calls -> CallStates]
<1> SUFFICES ASSUME NEW c \in Calls
             PROVE  (IF c \in C THEN [call[c] EXCEPT !.at = "failed"] ELSE call[c])
                        \in CallStates
  BY DEF FailCalls
<1>1. CASE c \in C
  <2>1. call[c] \in CallState
    BY <1>1, AwaitingIsCalled
  <2>2. [call[c] EXCEPT !.at = "failed"] \in CallState
    BY <2>1 DEF CallState
  <2> QED  BY <1>1, <2>2 DEF CallStates
<1>2. CASE c \notin C
  BY <1>2 DEF OrchestratorTypeOK
<1> QED  BY <1>1, <1>2

LEMMA RejectType ==
    ASSUME OrchestratorTypeOK, NEW p \in Procs, NEW j \in Jobs,
           NEW op \in LedgerOps \cup {"reconstruction"}, Reject(p, j, op),
           faults' = faults \/ (faults < MaxFaults /\ faults' = faults + 1)
    PROVE  OrchestratorTypeOK'
<1>1. state[p][j] \in JobState
  BY DEF OrchestratorTypeOK
<1>2. Set(state[p][j], op, "none") \in JobState
  BY <1>1, SetType, SetReconstructionType DEF Promise
<1>3. state' \in [Procs -> [Jobs -> JobState]]
  BY <1>2 DEF OrchestratorTypeOK, Reject
<1>4. \A c \in Waiters(p, j, op) : c \in Calls /\ call[c].at \in Awaited
  BY DEF Waiters, Awaited
<1>5. call' \in [Calls -> CallStates]
  BY <1>4, FailCallsType DEF Reject
<1>6. faults' \in 0 .. MaxFaults
  BY BoundsAssumption DEF OrchestratorTypeOK
<1> QED  BY <1>3, <1>5, <1>6 DEF Reject, OrchestratorTypeOK

LEMMA OrchestratorTypeStep ==
    ASSUME OrchestratorTypeOK, phase \in [Jobs -> Phases], [Next]_vars
    PROVE  OrchestratorTypeOK'
<1> USE BoundsAssumption
<1>1. ASSUME NEW c \in Calls, NEW p \in Procs, NEW j \in Jobs,
             \/ BeginExecution(c, p, j) \/ SettleSuccessfulExecution(c, p, j)
             \/ ReleaseFailedExecution(c, p, j) \/ RefundDebit(c, p, j)
      PROVE  OrchestratorTypeOK'
  <2> USE DEF Awaited, LedgerOps, Kinds
  <2>1. state[p][j] \in JobState
    BY DEF OrchestratorTypeOK
  <2>2. \A op \in LedgerOps \cup {"reconstruction"} : Once(state[p][j], op) \in JobState
    BY <2>1, OnceType
  <2>3. CASE BeginExecution(c, p, j)
    BY <2>2, <2>3, EnterType DEF BeginExecution
  <2>4. CASE SettleSuccessfulExecution(c, p, j)
    BY <2>1, <2>2, <2>4, EnterType DEF SettleSuccessfulExecution
  <2>5. CASE ReleaseFailedExecution(c, p, j)
    BY <2>1, <2>2, <2>5, EnterType DEF ReleaseFailedExecution
  <2>6. CASE RefundDebit(c, p, j)
    BY <2>1, <2>2, <2>6, EnterType DEF RefundDebit
  <2> QED  BY <1>1, <2>3, <2>4, <2>5, <2>6
<1>2. ASSUME NEW c \in Calls, Resume(c) PROVE OrchestratorTypeOK'
  <2>1. call[c].at \in Awaited
    BY <1>2 DEF Resume, Reserved, Executed, Reconstructed, FoundReservation, FoundOutcome,
                Debited, Released, Refunded, Awaiting, Awaited, LedgerOps
  <2>2. call[c] \in CallState
    BY <2>1, AwaitingIsCalled
  <2>3. /\ call[c].proc \in Procs /\ call[c].job \in Jobs
        /\ Here(c) \in JobState
    BY <2>2 DEF CallState, Here, OrchestratorTypeOK
  <2>4. \A op \in LedgerOps : Once(Here(c), op) \in JobState
    BY <2>3, OnceType
  <2>5. \E s \in JobState, at \in Awaited \cup {"done", "failed"} : Go(c, s, at)
    <3> USE DEF Awaited, LedgerOps
    <3>1. CASE Reserved(c)
      BY <2>3, <3>1, ExecuteOnceType DEF Reserved
    <3>2. CASE Executed(c)
      BY <2>3, <2>4, <3>2 DEF Executed
    <3>3. CASE Reconstructed(c)
      BY <2>3, <3>3 DEF Reconstructed, Settlement
    <3>4. CASE FoundReservation(c)
      BY <2>3, <2>4, <3>4 DEF FoundReservation, Settlement
    <3>5. CASE FoundOutcome(c)
      BY <2>3, <2>4, <3>5 DEF FoundOutcome
    <3>6. CASE Debited(c) \/ Released(c) \/ Refunded(c)
      BY <2>3, <3>6 DEF Debited, Released, Refunded
    <3> QED  BY <1>2, <3>1, <3>2, <3>3, <3>4, <3>5, <3>6 DEF Resume
  <2>6. state' \in [Procs -> [Jobs -> JobState]] /\ call' \in [Calls -> CallStates]
    BY <2>2, <2>5, GoType
  <2>7. runs' \in [Jobs -> Nat] /\ delivered' \subseteq Jobs
    <3>1. CASE Reserved(c)
      BY <2>3, <3>1 DEF Reserved, OrchestratorTypeOK
    <3>2. CASE Debited(c)
      BY <2>3, <3>2 DEF Debited, OrchestratorTypeOK
    <3>3. CASE runs' = runs /\ delivered' = delivered
      BY <3>3 DEF OrchestratorTypeOK
    <3> QED
      BY <1>2, <3>1, <3>2, <3>3 DEF Resume, Executed, Reconstructed, FoundReservation,
         FoundOutcome, Released, Refunded, Elsewhere
  <2>8. /\ outcomes' = outcomes /\ completion' = completion
        /\ crashes' = crashes /\ faults' = faults
    BY <1>2 DEF Resume, Reserved, Executed, Reconstructed, FoundReservation, FoundOutcome,
                Debited, Released, Refunded, Elsewhere
  <2> QED  BY <2>6, <2>7, <2>8 DEF OrchestratorTypeOK
<1>3. ASSUME NEW p \in Procs, NEW j \in Jobs, Database(p, j) PROVE OrchestratorTypeOK'
  <2>1. state[p][j] \in JobState
    BY DEF OrchestratorTypeOK
  <2>2. ASSUME NEW s \in JobState, state' = [state EXCEPT ![p][j] = s],
               UNCHANGED <<call, runs, outcomes, completion, delivered, crashes, faults>>
        PROVE  OrchestratorTypeOK'
    BY <2>2 DEF OrchestratorTypeOK
  <2>3. ASSUME NEW op \in LedgerOps, Commit(p, j, op) PROVE OrchestratorTypeOK'
    BY <2>1, <2>2, <2>3, SetType DEF Commit, Promise
  <2>4. ASSUME NEW op \in LedgerOps, Resolve(p, j, op) PROVE OrchestratorTypeOK'
    BY <2>1, <2>2, <2>4, ResolvedType DEF Resolve, Elsewhere
  <2>5. ASSUME NEW op \in LedgerOps, Refuse(p, j, op) PROVE OrchestratorTypeOK'
    BY <2>5, RejectType DEF Refuse
  <2>6. CASE ReadDurable(p, j)
    BY <2>1, <2>2, <2>6, SetReconstructionType DEF ReadDurable, Elsewhere
  <2>7. CASE ApplyDurable(p, j)
    BY <2>1, <2>2, <2>7, RebuiltType DEF ApplyDurable, Elsewhere
  <2>8. CASE ForgetDurable(p, j)
    BY <2>8, RejectType DEF ForgetDurable
  <2> QED  BY <1>3, <2>3, <2>4, <2>5, <2>6, <2>7, <2>8 DEF Database
<1>4. ASSUME NEW p \in Procs, NEW j \in Jobs, NEW outcome \in {"ok", "failed"},
             Finish(p, j, outcome)
      PROVE  OrchestratorTypeOK'
  <2>1. Set(state[p][j], "execution", outcome) \in JobState
    BY SetExecutionType DEF OrchestratorTypeOK
  <2> QED  BY <1>4, <2>1 DEF Finish, OrchestratorTypeOK
<1>5. ASSUME NEW p \in Procs, NEW j \in Jobs, NEW op \in LedgerOps, Fault(p, j, op)
      PROVE  OrchestratorTypeOK'
  BY <1>5, RejectType DEF Fault
<1>6. ASSUME NEW j \in Jobs, NEW result \in {"completed", "failed"}, Complete(j, result)
      PROVE  OrchestratorTypeOK'
  BY <1>6 DEF Complete, OrchestratorTypeOK
<1>7. ASSUME NEW p \in Procs, Crash(p) PROVE OrchestratorTypeOK'
  <2>1. call' \in [Calls -> CallStates]
    BY <1>7, FailCallsType DEF Crash
  <2>2. state' \in [Procs -> [Jobs -> JobState]]
    BY <1>7, FreshType DEF Crash, OrchestratorTypeOK
  <2> QED  BY <1>7, <2>1, <2>2 DEF Crash, OrchestratorTypeOK
<1>8. CASE UNCHANGED vars
  BY <1>8 DEF vars, orchestratorVars, OrchestratorTypeOK
<1> QED
  BY <1>1, <1>2, <1>3, <1>4, <1>5, <1>6, <1>7, <1>8 DEF Next, Provider

\* In every reachable state each call, promise and counter is one of those
\* the code knows.
THEOREM BillingTypeCorrect == Spec => []TypeOK
<1>1. Init => OrchestratorTypeOK
  BY FreshType, BoundsAssumption DEF Init, OrchestratorTypeOK, CallStates
<1>2. AccountTypeOK => phase \in [Jobs -> Phases]
  BY DEF AccountTypeOK
<1>3. OrchestratorTypeOK /\ AccountTypeOK /\ [Next]_vars => OrchestratorTypeOK'
  BY <1>2, OrchestratorTypeStep
<1>4. OrchestratorTypeOK /\ AccountTypeOK => TypeOK
  BY DEF OrchestratorTypeOK, TypeOK, CallStates
<1> QED
  BY <1>1, <1>3, <1>4, BillingImplementsAccount, AccountTypeCorrect, PTL DEF Spec

-----------------------------------------------------------------------------
(* What a process remembers of a job is never refuted: phases only advance,   *)
(* and every step on a job's state remembers what the ledger says by then.    *)

\* A charge stays charged, a release stays released, a refund refunded.
Advances(before, after) ==
    /\ before # "none" => after # "none"
    /\ before \in Charged => after \in Charged
    /\ before = "released" => after = "released"
    /\ before = "refunded" => after = "refunded"

LEMMA PhasesAdvance ==
    ASSUME AccountTypeOK, [AccountNext]_accountVars, NEW j \in Jobs
    PROVE  Advances(phase[j], phase'[j])
<1> USE DEF Advances, Charged
<1>0. phase \in [Jobs -> Phases]
  BY DEF AccountTypeOK
<1>1. ASSUME NEW a \in Accounts, NEW n \in Credits, Deposit(a, n) \/ Withdraw(a, n)
      PROVE  Advances(phase[j], phase'[j])
  BY <1>1 DEF Deposit, Withdraw
<1>2. ASSUME NEW i \in Jobs, NEW n \in Credits, Hold(i, n)
      PROVE  Advances(phase[j], phase'[j])
  BY <1>0, <1>2 DEF Hold
<1>3. ASSUME NEW i \in Jobs, Release(i) \/ Debit(i) \/ Refund(i)
      PROVE  Advances(phase[j], phase'[j])
  BY <1>0, <1>3 DEF Release, Debit, Refund
<1>4. CASE UNCHANGED accountVars
  BY <1>4 DEF accountVars
<1> QED  BY <1>1, <1>2, <1>3, <1>4 DEF AccountNext

LEMMA AdvancingKeepsMemory ==
    ASSUME NEW s, NEW before, NEW after, Advances(before, after), RemembersTruly(s, before)
    PROVE  RemembersTruly(s, after)
BY DEF Advances, RemembersTruly, Charged

\* Making, forgetting and starting promises remembers nothing new.
LEMMA PendingIsTrue ==
    ASSUME NEW s \in JobState, NEW ph \in Phases, RemembersTruly(s, ph),
           NEW op \in LedgerOps \cup {"reconstruction"}, NEW promise \in {"none", "pending"}
    PROVE  RemembersTruly(Set(s, op, promise), ph)
BY DEF RemembersTruly, Set, JobState, LedgerOps, Charged

LEMMA OnceIsTrue ==
    ASSUME NEW s \in JobState, NEW ph \in Phases, RemembersTruly(s, ph),
           NEW op \in LedgerOps \cup {"reconstruction"}
    PROVE  RemembersTruly(Once(s, op), ph)
BY PendingIsTrue DEF Once

LEMMA ExecutionIsTrue ==
    ASSUME NEW s \in JobState, NEW ph \in Phases, RemembersTruly(s, ph), ph # "none",
           NEW e
    PROVE  RemembersTruly(Set(s, "execution", e), ph)
BY DEF RemembersTruly, Set, JobState

\* Standing, as a fact about a phase.
Shows(ph, op) ==
    \/ op = "reservation" /\ ph # "none"
    \/ op = "debit" /\ ph \in Charged
    \/ op = "release" /\ ph = "released"
    \/ op = "refund" /\ ph = "refunded"

\* An operation that was acknowledged shows in the ledger.
LEMMA CommittedIsTrue ==
    ASSUME NEW s \in JobState, NEW ph, RemembersTruly(s, ph),
           NEW op \in LedgerOps, Shows(ph, op)
    PROVE  RemembersTruly(Set(s, op, "committed"), ph)
BY DEF RemembersTruly, Set, JobState, LedgerOps, Shows, Charged

LEMMA ResolvedIsTrue ==
    ASSUME NEW s \in JobState, NEW ph \in Phases, RemembersTruly(s, ph),
           NEW op \in LedgerOps, s[op] = "committed"
    PROVE  RemembersTruly(Resolved(s, op), ph)
BY DEF RemembersTruly, Set, Resolved, JobState, LedgerOps

LEMMA RebuiltIsTrue ==
    ASSUME NEW s \in JobState, NEW ph \in Phases, RemembersTruly(s, ph),
           s.reconstruction \in Phases \ {"none"}
    PROVE  RemembersTruly(Rebuilt(s), ph)
<1> DEFINE debited == s.reconstruction \in {"debited", "refunded"}
<1>1. /\ Rebuilt(s).reconstruction = "have"
      /\ Rebuilt(s).execution = s.execution /\ Rebuilt(s).refund = s.refund
      /\ Rebuilt(s).settled = IF debited THEN "debited" ELSE s.settled
      /\ Rebuilt(s).debit = IF debited THEN Found(s.debit) ELSE s.debit
      /\ Rebuilt(s).release = IF s.reconstruction = "released" THEN Found(s.release)
                              ELSE s.release
  BY DEF Rebuilt, JobState
<1>2. ph # "none"
  BY DEF RemembersTruly, Phases, Charged
<1> QED  BY <1>1, <1>2 DEF RemembersTruly, Charged

LEMMA FreshIsTrue == ASSUME NEW ph PROVE RemembersTruly(Fresh, ph)
BY DEF RemembersTruly, Fresh, Charged

LEMMA CommitShows ==
    ASSUME AccountTypeOK, NEW p \in Procs, NEW j \in Jobs, NEW op \in LedgerOps,
           Commit(p, j, op)
    PROVE  Shows(phase'[j], op)
<1>1. CASE AppendEntry(j, op)
  BY <1>1 DEF AccountTypeOK, AppendEntry, Hold, Debit, Release, Refund, Shows, Charged
<1>2. CASE Standing(j, op) /\ UNCHANGED accountVars
  BY <1>2 DEF Standing, Shows, accountVars
<1> QED  BY <1>1, <1>2 DEF Commit

\* One job's state changed, to one that agrees with the ledger.
LEMMA AgreementAfterUpdate ==
    ASSUME TypeOK, PromisesAgreeWithLedger, [AccountNext]_accountVars,
           NEW p \in Procs, NEW j \in Jobs, NEW s, RemembersTruly(s, phase'[j]),
           state' = [state EXCEPT ![p][j] = s]
    PROVE  PromisesAgreeWithLedger'
<1> SUFFICES ASSUME NEW q \in Procs, NEW i \in Jobs
             PROVE  RemembersTruly(state'[q][i], phase'[i])
  BY DEF PromisesAgreeWithLedger
<1>1. RemembersTruly(state[q][i], phase'[i])
  BY PhasesAdvance, AdvancingKeepsMemory DEF PromisesAgreeWithLedger, TypeOK
<1>2. state'[q][i] = IF q = p /\ i = j THEN s ELSE state[q][i]
  BY DEF TypeOK
<1> QED  BY <1>1, <1>2

LEMMA AgreementStep ==
    ASSUME TypeOK, PromisesAgreeWithLedger, [Next]_vars
    PROVE  PromisesAgreeWithLedger'
<1>0. /\ [AccountNext]_accountVars
      /\ \A p \in Procs, j \in Jobs :
            /\ state[p][j] \in JobState /\ phase[j] \in Phases
            /\ RemembersTruly(state[p][j], phase[j])
            /\ RemembersTruly(state[p][j], phase'[j])
  BY NextIsAccountStep, PhasesAdvance, AdvancingKeepsMemory
     DEF TypeOK, AccountTypeOK, PromisesAgreeWithLedger
<1> DEFINE Updated(p, j, s) == state' = [state EXCEPT ![p][j] = s]
<1>00. ASSUME NEW p \in Procs, NEW j \in Jobs, NEW s, Updated(p, j, s),
              RemembersTruly(s, phase'[j])
       PROVE  PromisesAgreeWithLedger'
  BY <1>0, <1>00, AgreementAfterUpdate
<1>1. ASSUME NEW c \in Calls, NEW p \in Procs, NEW j \in Jobs,
             \/ BeginExecution(c, p, j) \/ SettleSuccessfulExecution(c, p, j)
             \/ ReleaseFailedExecution(c, p, j) \/ RefundDebit(c, p, j)
      PROVE  PromisesAgreeWithLedger'
  <2>1. \/ Updated(p, j, state[p][j])
        \/ \E op \in LedgerOps \cup {"reconstruction"} :
               Updated(p, j, Once(state[p][j], op))
    BY <1>1 DEF BeginExecution, SettleSuccessfulExecution, ReleaseFailedExecution,
                RefundDebit, Enter, LedgerOps
  <2>2. phase' = phase
    BY <1>1 DEF BeginExecution, SettleSuccessfulExecution, ReleaseFailedExecution,
                RefundDebit, Enter, Elsewhere, accountVars
  <2> HIDE DEF Updated
  <2> QED  BY <1>0, <1>00, <2>1, <2>2, OnceIsTrue
<1>2. ASSUME NEW c \in Calls, Resume(c) PROVE PromisesAgreeWithLedger'
  <2> DEFINE p == call[c].proc
             j == call[c].job
  <2>1. call[c].at \in Awaited
    BY <1>2 DEF Resume, Reserved, Executed, Reconstructed, FoundReservation, FoundOutcome,
                Debited, Released, Refunded, Awaiting, Awaited, LedgerOps
  <2>2. p \in Procs /\ j \in Jobs
    BY <2>1, AwaitingIsCalled DEF CallState, TypeOK, OrchestratorTypeOK, CallStates
  <2>3. phase' = phase
    BY <1>2 DEF Resume, Reserved, Executed, Reconstructed, FoundReservation, FoundOutcome,
                Debited, Released, Refunded, Elsewhere, accountVars
  <2>4. CASE Reserved(c)
    <3>1. Updated(p, j, ExecuteOnce(state[p][j])) /\ state[p][j].reservation = "have"
      BY <2>4 DEF Reserved, Go, Here
    <3>2. phase[j] # "none"
      BY <1>0, <2>2, <3>1 DEF RemembersTruly
    <3>3. ExecuteOnce(state[p][j]) \in {state[p][j], Set(state[p][j], "execution", "running")}
      BY DEF ExecuteOnce, Set
    <3> HIDE DEF p, j, Updated
    <3> QED  BY <1>0, <1>00, <2>2, <2>3, <3>1, <3>2, <3>3, ExecutionIsTrue
  <2>5. CASE ~Reserved(c)
    <3>1. \/ Updated(p, j, state[p][j])
          \/ \E op \in LedgerOps : Updated(p, j, Once(state[p][j], op))
      BY <1>2, <2>5 DEF Resume, Executed, Reconstructed, FoundReservation, FoundOutcome,
                        Debited, Released, Refunded, Go, Here, LedgerOps, Settlement
    <3> HIDE DEF p, j, Updated
    <3> QED  BY <1>0, <1>00, <2>2, <2>3, <3>1, OnceIsTrue
  <2> QED  BY <2>4, <2>5
<1>3. ASSUME NEW p \in Procs, NEW j \in Jobs, NEW op \in LedgerOps, Commit(p, j, op)
      PROVE  PromisesAgreeWithLedger'
  <2>1. Shows(phase'[j], op)
    BY <1>3, CommitShows DEF TypeOK
  <2>2. Updated(p, j, Set(state[p][j], op, "committed"))
    BY <1>3 DEF Commit
  <2> HIDE DEF Updated
  <2> QED  BY <1>0, <1>00, <2>1, <2>2, CommittedIsTrue
<1>4. ASSUME NEW p \in Procs, NEW j \in Jobs, NEW op \in LedgerOps, Resolve(p, j, op)
      PROVE  PromisesAgreeWithLedger'
  <2>1. /\ Updated(p, j, Resolved(state[p][j], op)) /\ phase' = phase
        /\ state[p][j][op] = "committed"
    BY <1>4 DEF Resolve, Elsewhere, accountVars
  <2> HIDE DEF Updated
  <2> QED  BY <1>0, <1>00, <2>1, ResolvedIsTrue
<1>5. ASSUME NEW p \in Procs, NEW j \in Jobs, NEW op \in LedgerOps \cup {"reconstruction"},
             Reject(p, j, op)
      PROVE  PromisesAgreeWithLedger'
  <2>1. Updated(p, j, Set(state[p][j], op, "none")) /\ phase' = phase
    BY <1>5 DEF Reject, accountVars
  <2> HIDE DEF Updated
  <2> QED  BY <1>0, <1>00, <2>1, PendingIsTrue
<1>6. ASSUME NEW p \in Procs, NEW j \in Jobs, ReadDurable(p, j)
      PROVE  PromisesAgreeWithLedger'
  <2>1. /\ Updated(p, j, Set(state[p][j], "reconstruction", phase[j])) /\ phase' = phase
        /\ phase[j] # "none"
    BY <1>6 DEF ReadDurable, Elsewhere, accountVars
  <2>2. RemembersTruly(Set(state[p][j], "reconstruction", phase[j]), phase[j])
    BY <1>0, <2>1 DEF RemembersTruly, Set, JobState, Charged
  <2> HIDE DEF Updated
  <2> QED  BY <1>00, <2>1, <2>2
<1>7. ASSUME NEW p \in Procs, NEW j \in Jobs, ApplyDurable(p, j)
      PROVE  PromisesAgreeWithLedger'
  <2>1. /\ Updated(p, j, Rebuilt(state[p][j])) /\ phase' = phase
        /\ state[p][j].reconstruction \in Phases \ {"none"}
    BY <1>7 DEF ApplyDurable, Elsewhere, accountVars
  <2> HIDE DEF Updated
  <2> QED  BY <1>0, <1>00, <2>1, RebuiltIsTrue
<1>8. ASSUME NEW p \in Procs, NEW j \in Jobs, NEW outcome \in {"ok", "failed"},
             Finish(p, j, outcome)
      PROVE  PromisesAgreeWithLedger'
  <2>1. /\ Updated(p, j, Set(state[p][j], "execution", outcome)) /\ phase' = phase
        /\ state[p][j].execution = "running"
    BY <1>8 DEF Finish, accountVars
  <2>2. phase[j] # "none"
    BY <1>0, <2>1 DEF RemembersTruly
  <2> HIDE DEF Updated
  <2> QED  BY <1>0, <1>00, <2>1, <2>2, ExecutionIsTrue
<1>9. ASSUME NEW p \in Procs, Crash(p) PROVE PromisesAgreeWithLedger'
  <2> SUFFICES ASSUME NEW q \in Procs, NEW i \in Jobs
               PROVE  RemembersTruly(state'[q][i], phase'[i])
    BY DEF PromisesAgreeWithLedger
  <2>1. state'[q][i] = IF q = p THEN Fresh ELSE state[q][i]
    BY <1>9 DEF Crash, TypeOK
  <2> QED  BY <1>0, <2>1, FreshIsTrue
<1>10. ASSUME state' = state PROVE PromisesAgreeWithLedger'
  BY <1>0, <1>10 DEF PromisesAgreeWithLedger
<1>11. ASSUME NEW p \in Procs, NEW j \in Jobs, Database(p, j)
       PROVE  PromisesAgreeWithLedger'
  BY <1>11, <1>3, <1>4, <1>5, <1>6, <1>7 DEF Database, Refuse, ForgetDurable
<1>12. ASSUME NEW p \in Procs, NEW j \in Jobs, NEW op \in LedgerOps, Fault(p, j, op)
       PROVE  PromisesAgreeWithLedger'
  BY <1>12, <1>5 DEF Fault
<1>13. ASSUME NEW j \in Jobs, NEW result \in {"completed", "failed"}, Complete(j, result)
       PROVE  state' = state
  BY <1>13 DEF Complete
<1>14. UNCHANGED vars => state' = state
  BY DEF vars, orchestratorVars
<1> QED
  BY <1>1, <1>2, <1>8, <1>9, <1>10, <1>11, <1>12, <1>13, <1>14 DEF Next, Provider

\* Whatever processes settle, crash and reconstruct concurrently, no process
\* believes a job reserved, charged, released or refunded that is not.
THEOREM MemoryIsTrue == Spec => []PromisesAgreeWithLedger
<1>1. Init => PromisesAgreeWithLedger
  BY FreshIsTrue DEF Init, PromisesAgreeWithLedger
<1> QED  BY <1>1, AgreementStep, BillingTypeCorrect, PTL DEF Spec

\* Only the continuation after a debit hands over a result.
LEMMA DeliveryIsDebited ==
    [Next]_vars => UNCHANGED delivered \/ \E c \in Calls : Debited(c)
<1> SUFFICES ASSUME [Next]_vars, \A c \in Calls : ~Debited(c) PROVE UNCHANGED delivered
  OBVIOUS
<1>1. ASSUME NEW c \in Calls, NEW p \in Procs, NEW j \in Jobs,
             \/ BeginExecution(c, p, j) \/ SettleSuccessfulExecution(c, p, j)
             \/ ReleaseFailedExecution(c, p, j) \/ RefundDebit(c, p, j)
      PROVE  UNCHANGED delivered
  BY <1>1 DEF BeginExecution, SettleSuccessfulExecution, ReleaseFailedExecution,
              RefundDebit, Enter, Elsewhere
<1>2. ASSUME NEW c \in Calls, Resume(c) PROVE UNCHANGED delivered
  BY <1>2 DEF Resume, Reserved, Executed, Reconstructed, FoundReservation, FoundOutcome,
              Released, Refunded, Elsewhere
<1>3. ASSUME NEW p \in Procs, NEW j \in Jobs, Database(p, j) PROVE UNCHANGED delivered
  BY <1>3 DEF Database, Commit, Resolve, Refuse, ReadDurable, ApplyDurable, ForgetDurable,
              Reject, Elsewhere
<1>4. ASSUME NEW p \in Procs, NEW j \in Jobs,
             Provider(p, j) \/ \E op \in LedgerOps : Fault(p, j, op)
      PROVE  UNCHANGED delivered
  BY <1>4 DEF Provider, Finish, Fault, Reject
<1>5. ASSUME NEW j \in Jobs, NEW result \in {"completed", "failed"}, Complete(j, result)
      PROVE  UNCHANGED delivered
  BY <1>5 DEF Complete
<1>6. ASSUME NEW p \in Procs, Crash(p) PROVE UNCHANGED delivered
  BY <1>6 DEF Crash
<1>7. CASE UNCHANGED vars
  BY <1>7 DEF vars, orchestratorVars
<1> QED  BY <1>1, <1>2, <1>3, <1>4, <1>5, <1>6, <1>7 DEF Next

LEMMA DeliveryStep ==
    ASSUME TypeOK, PromisesAgreeWithLedger, DeliveredIsCharged, [Next]_vars
    PROVE  DeliveredIsCharged'
<1> SUFFICES ASSUME NEW j \in delivered' PROVE phase'[j] \in Charged
  BY DEF DeliveredIsCharged
<1>1. CASE j \in delivered
  <2>1. j \in Jobs /\ phase[j] \in Charged
    BY <1>1 DEF DeliveredIsCharged, TypeOK
  <2> QED  BY <2>1, NextIsAccountStep, PhasesAdvance DEF TypeOK, Advances
<1>2. CASE j \notin delivered
  <2>1. PICK c \in Calls : Debited(c)
    BY <1>2, DeliveryIsDebited
  <2>2. /\ call[c].at \in Awaited
        /\ Here(c).debit = "have"
        /\ delivered' = delivered \cup {call[c].job}
        /\ phase' = phase
    BY <2>1 DEF Debited, Awaiting, Awaited, LedgerOps, accountVars
  <2>3. call[c].proc \in Procs /\ call[c].job \in Jobs
    BY <2>2, AwaitingIsCalled DEF CallState, TypeOK, OrchestratorTypeOK, CallStates
  <2>4. j = call[c].job
    BY <1>2, <2>2
  <2>5. RemembersTruly(Here(c), phase[j])
    BY <2>3, <2>4 DEF PromisesAgreeWithLedger, Here
  <2> QED  BY <2>2, <2>5 DEF RemembersTruly
<1> QED  BY <1>1, <1>2

\* A customer never receives the result of a job whose debit is not durable.
THEOREM DeliveryIsCharged == Spec => []DeliveredIsCharged
<1>1. Init => DeliveredIsCharged
  BY DEF Init, DeliveredIsCharged
<1> QED  BY <1>1, DeliveryStep, BillingTypeCorrect, MemoryIsTrue, PTL DEF Spec

-----------------------------------------------------------------------------
(* A job is charged for a success and released for a failure only, though     *)
(* several processes may be settling it both ways at once.                    *)

\* What has become of a job for good: how its provider runs ended, whether it
\* has an asset ("asset") and whether it has failed ("loss").
Evidence(j) ==
    outcomes[j] \cup {e \in {"asset", "loss"} :
        \/ e = "asset" /\ HasAsset(j)
        \/ e = "loss" /\ ("failed" \in outcomes[j] \/ completion[j] = "failed")}

\* Promises of a debit or a release are made on that evidence...
JobEarned(s, evidence) ==
    /\ s.debit # "none" => "asset" \in evidence
    /\ s.release # "none" => "loss" \in evidence
    /\ s.execution \in {"ok", "failed"} => s.execution \in evidence

\* ...which the callers of the orchestrator had when they called it.
CallEarned(r) ==
    r.at # "new" =>
        /\ r.kind = "execute" => r.job \notin Deferred
        /\ r.kind = "settle" => "asset" \in Evidence(r.job)
        /\ r.kind = "release" => "loss" \in Evidence(r.job)

Earned ==
    /\ \A p \in Procs, j \in Jobs : JobEarned(state[p][j], Evidence(j))
    /\ \A c \in Calls : CallEarned(call[c])
    /\ SettledAsEarned

-----------------------------------------------------------------------------
(* Evidence only accumulates. *)

LEMMA OutcomesStay ==
    ASSUME TypeOK, [Next]_vars, NEW j \in Jobs
    PROVE  /\ outcomes[j] \subseteq outcomes'[j]
           /\ completion[j] # "none" => completion'[j] = completion[j]
<1> USE DEF TypeOK
<1>1. ASSUME NEW c \in Calls, NEW p \in Procs, NEW i \in Jobs,
             \/ BeginExecution(c, p, i) \/ SettleSuccessfulExecution(c, p, i)
             \/ ReleaseFailedExecution(c, p, i) \/ RefundDebit(c, p, i)
      PROVE  UNCHANGED <<outcomes, completion>>
  BY <1>1 DEF BeginExecution, SettleSuccessfulExecution, ReleaseFailedExecution,
              RefundDebit, Enter, Elsewhere
<1>2. ASSUME NEW c \in Calls, Resume(c) PROVE UNCHANGED <<outcomes, completion>>
  BY <1>2 DEF Resume, Reserved, Executed, Reconstructed, FoundReservation, FoundOutcome,
              Debited, Released, Refunded, Elsewhere
<1>3. ASSUME NEW p \in Procs, NEW i \in Jobs, Database(p, i)
      PROVE  UNCHANGED <<outcomes, completion>>
  BY <1>3 DEF Database, Commit, Resolve, Refuse, ReadDurable, ApplyDurable, ForgetDurable,
              Reject, Elsewhere
<1>4. ASSUME NEW p \in Procs, NEW i \in Jobs, NEW outcome \in {"ok", "failed"},
             Finish(p, i, outcome)
      PROVE  outcomes[j] \subseteq outcomes'[j] /\ UNCHANGED completion
  BY <1>4 DEF Finish
<1>5. ASSUME NEW p \in Procs, NEW i \in Jobs, NEW op \in LedgerOps, Fault(p, i, op)
      PROVE  UNCHANGED <<outcomes, completion>>
  BY <1>5 DEF Fault, Reject
<1>6. ASSUME NEW i \in Jobs, NEW result \in {"completed", "failed"}, Complete(i, result)
      PROVE  /\ UNCHANGED outcomes
             /\ completion[j] # "none" => completion'[j] = completion[j]
  BY <1>6 DEF Complete
<1>7. ASSUME NEW p \in Procs, Crash(p) PROVE UNCHANGED <<outcomes, completion>>
  BY <1>7 DEF Crash
<1>8. CASE UNCHANGED vars
  BY <1>8 DEF vars, orchestratorVars
<1> QED
  BY <1>1, <1>2, <1>3, <1>4, <1>5, <1>6, <1>7, <1>8 DEF Next, Provider

LEMMA EvidenceStays ==
    ASSUME TypeOK, [Next]_vars, NEW j \in Jobs
    PROVE  Evidence(j) \subseteq Evidence(j)'
BY OutcomesStay DEF Evidence, HasAsset

LEMMA EarnedStays ==
    ASSUME NEW s, NEW before, NEW after, before \subseteq after, JobEarned(s, before)
    PROVE  JobEarned(s, after)
BY DEF JobEarned

-----------------------------------------------------------------------------
(* The operators on a job's state. *)

\* A promise is made with the evidence it needs.
EarnedPromise(op, promise, evidence) ==
    /\ op = "debit" /\ promise # "none" => "asset" \in evidence
    /\ op = "release" /\ promise # "none" => "loss" \in evidence

LEMMA SetEarned ==
    ASSUME NEW s \in JobState, NEW evidence, JobEarned(s, evidence),
           NEW op \in LedgerOps \cup {"reconstruction"}, NEW promise,
           EarnedPromise(op, promise, evidence)
    PROVE  JobEarned(Set(s, op, promise), evidence)
BY DEF JobEarned, EarnedPromise, Set, JobState, LedgerOps

LEMMA OnceEarned ==
    ASSUME NEW s \in JobState, NEW evidence, JobEarned(s, evidence),
           NEW op \in LedgerOps \cup {"reconstruction"},
           EarnedPromise(op, "pending", evidence)
    PROVE  JobEarned(Once(s, op), evidence)
BY SetEarned DEF Once

LEMMA ExecutionEarned ==
    ASSUME NEW s \in JobState, NEW evidence, JobEarned(s, evidence),
           NEW e, e = "running" \/ e \in evidence
    PROVE  JobEarned(Set(s, "execution", e), evidence)
BY DEF JobEarned, Set, JobState

LEMMA ResolvedEarned ==
    ASSUME NEW s \in JobState, NEW evidence, JobEarned(s, evidence),
           NEW op \in LedgerOps, s[op] = "committed"
    PROVE  JobEarned(Resolved(s, op), evidence)
BY DEF JobEarned, Resolved, Set, JobState, LedgerOps

LEMMA RebuiltEarned ==
    ASSUME NEW s \in JobState, NEW evidence, JobEarned(s, evidence),
           s.reconstruction \in Charged => "asset" \in evidence,
           s.reconstruction = "released" => "loss" \in evidence
    PROVE  JobEarned(Rebuilt(s), evidence)
<1>1. /\ Rebuilt(s).execution = s.execution
      /\ Rebuilt(s).debit = IF s.reconstruction \in Charged THEN Found(s.debit) ELSE s.debit
      /\ Rebuilt(s).release = IF s.reconstruction = "released" THEN Found(s.release)
                              ELSE s.release
  BY DEF Rebuilt, JobState, Charged
<1> QED  BY <1>1 DEF JobEarned

LEMMA FreshEarned == ASSUME NEW evidence PROVE JobEarned(Fresh, evidence)
BY DEF JobEarned, Fresh

-----------------------------------------------------------------------------
(* The step of the invariant. *)

\* A call keeps its kind, process and job from its first await to its end.
LEMMA CallsKeepWhatTheyAre ==
    ASSUME TypeOK, [Next]_vars, NEW c \in Calls, call[c].at # "new"
    PROVE  /\ call'[c].kind = call[c].kind
           /\ call'[c].proc = call[c].proc
           /\ call'[c].job = call[c].job
<1>0. call \in [Calls -> CallState \cup {NotCalled}] /\ call[c] \in CallState
  BY DEF TypeOK, NotCalled
<1>1. ASSUME NEW at, call'[c] = [call[c] EXCEPT !.at = at] \/ call'[c] = call[c]
      PROVE  /\ call'[c].kind = call[c].kind
             /\ call'[c].proc = call[c].proc
             /\ call'[c].job = call[c].job
  BY <1>0, <1>1 DEF CallState
<1>2. ASSUME NEW b \in Calls, NEW p \in Procs, NEW j \in Jobs,
             \/ BeginExecution(b, p, j) \/ SettleSuccessfulExecution(b, p, j)
             \/ ReleaseFailedExecution(b, p, j) \/ RefundDebit(b, p, j)
      PROVE  call'[c] = call[c]
  BY <1>0, <1>2 DEF BeginExecution, SettleSuccessfulExecution, ReleaseFailedExecution,
              RefundDebit, Enter
<1>3. ASSUME NEW b \in Calls, Resume(b)
      PROVE  \E at : call'[c] = [call[c] EXCEPT !.at = at] \/ call'[c] = call[c]
  <2>1. \E s, at : Go(b, s, at)
    BY <1>3 DEF Resume, Reserved, Executed, Reconstructed, FoundReservation, FoundOutcome,
                Debited, Released, Refunded
  <2> QED  BY <1>0, <2>1 DEF Go
<1>4. ASSUME NEW C, call' = FailCalls(C)
      PROVE  call'[c] = [call[c] EXCEPT !.at = "failed"] \/ call'[c] = call[c]
  BY <1>4 DEF FailCalls
<1>5. ASSUME NEW p \in Procs, NEW j \in Jobs,
             \/ Database(p, j) \/ Provider(p, j)
             \/ \E op \in LedgerOps : Fault(p, j, op)
      PROVE  call' = call \/ \E C : call' = FailCalls(C)
  BY <1>5 DEF Database, Commit, Resolve, Refuse, ReadDurable, ApplyDurable, ForgetDurable,
              Reject, Elsewhere, Provider, Finish, Fault
<1>6. ASSUME NEW j \in Jobs, NEW result \in {"completed", "failed"}, Complete(j, result)
      PROVE  call' = call
  BY <1>6 DEF Complete
<1>7. ASSUME NEW p \in Procs, Crash(p) PROVE \E C : call' = FailCalls(C)
  BY <1>7 DEF Crash
<1>8. CASE UNCHANGED vars
  BY <1>8 DEF vars, orchestratorVars
<1> QED  BY <1>1, <1>2, <1>3, <1>4, <1>5, <1>6, <1>7, <1>8 DEF Next

LEMMA CallEarnedStep ==
    ASSUME TypeOK, Earned, [Next]_vars, NEW c \in Calls
    PROVE  CallEarned(call[c])'
<1>0. call \in [Calls -> CallState \cup {NotCalled}]
  BY DEF TypeOK
<1>1. CASE call[c].at # "new"
  <2>1. call[c].job \in Jobs
    BY <1>1, <1>0 DEF CallState, NotCalled
  <2> QED  BY <1>1, <2>1, CallsKeepWhatTheyAre, EvidenceStays DEF Earned, CallEarned
<1>2. CASE call[c].at = "new" /\ call'[c] = call[c]
  BY <1>2 DEF CallEarned
<1>3. CASE call[c].at = "new" /\ call'[c] # call[c]
  <2>1. ASSUME NEW p \in Procs, NEW j \in Jobs,
               \/ BeginExecution(c, p, j) \/ SettleSuccessfulExecution(c, p, j)
               \/ ReleaseFailedExecution(c, p, j) \/ RefundDebit(c, p, j)
        PROVE  CallEarned(call[c])'
    <3>0. Evidence(j) \subseteq Evidence(j)'
      BY EvidenceStays
    <3>1. CASE BeginExecution(c, p, j) \/ RefundDebit(c, p, j)
      BY <1>0, <3>1 DEF BeginExecution, RefundDebit, Enter, CallEarned
    <3>2. CASE SettleSuccessfulExecution(c, p, j)
      BY <1>0, <3>0, <3>2 DEF SettleSuccessfulExecution, Enter, CallEarned, Evidence
    <3>3. CASE ReleaseFailedExecution(c, p, j)
      BY <1>0, <3>0, <3>3 DEF ReleaseFailedExecution, Enter, CallEarned, Evidence
    <3> QED  BY <2>1, <3>1, <3>2, <3>3
  <2>2. ASSUME NEW b \in Calls, NEW p \in Procs, NEW j \in Jobs, b # c,
               \/ BeginExecution(b, p, j) \/ SettleSuccessfulExecution(b, p, j)
               \/ ReleaseFailedExecution(b, p, j) \/ RefundDebit(b, p, j)
        PROVE  FALSE
    BY <1>0, <1>3, <2>2 DEF BeginExecution, SettleSuccessfulExecution,
       ReleaseFailedExecution, RefundDebit, Enter
  <2>3. ASSUME NEW b \in Calls, Resume(b) PROVE FALSE
    <3>1. b # c /\ \E s, at : Go(b, s, at)
      BY <1>3, <2>3 DEF Resume, Reserved, Executed, Reconstructed, FoundReservation,
         FoundOutcome, Debited, Released, Refunded, Awaiting
    <3> QED  BY <1>0, <1>3, <3>1 DEF Go
  <2>4. ASSUME NEW p \in Procs, NEW j \in Jobs, NEW op \in LedgerOps \cup {"reconstruction"},
               Reject(p, j, op)
        PROVE  FALSE
    <3>1. c \notin Waiters(p, j, op)
      BY <1>3 DEF Waiters, LedgerOps
    <3> QED  BY <1>3, <2>4, <3>1 DEF Reject, FailCalls
  <2>5. ASSUME NEW p \in Procs, NEW j \in Jobs,
               \/ Database(p, j) \/ Provider(p, j)
               \/ \E op \in LedgerOps : Fault(p, j, op)
        PROVE  FALSE
    BY <1>3, <2>4, <2>5 DEF Database, Commit, Resolve, Refuse, ReadDurable, ApplyDurable,
       ForgetDurable, Elsewhere, Provider, Finish, Fault
  <2>6. ASSUME NEW p \in Procs, Crash(p) PROVE FALSE
    BY <1>3, <2>6 DEF Crash, FailCalls, Awaited, LedgerOps
  <2>7. ASSUME NEW j \in Jobs, NEW result \in {"completed", "failed"}, Complete(j, result)
        PROVE  FALSE
    BY <1>3, <2>7 DEF Complete
  <2>8. CASE UNCHANGED vars
    BY <1>3, <2>8 DEF vars, orchestratorVars
  <2> QED  BY <2>1, <2>2, <2>3, <2>5, <2>6, <2>7, <2>8 DEF Next
<1> QED  BY <1>1, <1>2, <1>3

JobsEarned == \A p \in Procs, j \in Jobs : JobEarned(state[p][j], Evidence(j))

LEMMA JobsEarnedAfterUpdate ==
    ASSUME TypeOK, Earned, [Next]_vars, NEW p \in Procs, NEW j \in Jobs, NEW s,
           state' = [state EXCEPT ![p][j] = s],
           JobEarned(s, Evidence(j)) \/ JobEarned(s, Evidence(j)')
    PROVE  JobsEarned'
<1> SUFFICES ASSUME NEW q \in Procs, NEW i \in Jobs
             PROVE  JobEarned(state'[q][i], Evidence(i)')
  BY DEF JobsEarned
<1>1. Evidence(i) \subseteq Evidence(i)'
  BY EvidenceStays
<1>2. JobEarned(state[q][i], Evidence(i)')
  BY <1>1, EarnedStays DEF Earned
<1>3. JobEarned(s, Evidence(j)')
  BY EvidenceStays, EarnedStays
<1>4. state'[q][i] = IF q = p /\ i = j THEN s ELSE state[q][i]
  BY DEF TypeOK
<1> QED  BY <1>2, <1>3, <1>4

LEMMA JobsEarnedStep ==
    ASSUME TypeOK, PromisesAgreeWithLedger, Earned, [Next]_vars
    PROVE  JobsEarned'
<1>0. \A p \in Procs, j \in Jobs :
         /\ state[p][j] \in JobState
         /\ JobEarned(state[p][j], Evidence(j))
         /\ RemembersTruly(state[p][j], phase[j])
  BY DEF TypeOK, Earned, PromisesAgreeWithLedger
<1> DEFINE Updated(p, j, s) == state' = [state EXCEPT ![p][j] = s]
<1>00. ASSUME NEW p \in Procs, NEW j \in Jobs, NEW s, Updated(p, j, s),
              JobEarned(s, Evidence(j)) \/ JobEarned(s, Evidence(j)')
       PROVE  JobsEarned'
  BY <1>00, JobsEarnedAfterUpdate
<1>1. ASSUME NEW c \in Calls, NEW p \in Procs, NEW j \in Jobs,
             \/ BeginExecution(c, p, j) \/ SettleSuccessfulExecution(c, p, j)
             \/ ReleaseFailedExecution(c, p, j) \/ RefundDebit(c, p, j)
      PROVE  JobsEarned'
  <2>1. \/ Updated(p, j, state[p][j])
        \/ \E op \in {"reservation", "refund", "reconstruction"} :
               Updated(p, j, Once(state[p][j], op))
    BY <1>1 DEF BeginExecution, SettleSuccessfulExecution, ReleaseFailedExecution,
                RefundDebit, Enter
  <2>2. \A op \in {"reservation", "refund", "reconstruction"} :
           /\ op \in LedgerOps \cup {"reconstruction"}
           /\ EarnedPromise(op, "pending", Evidence(j))
    BY DEF EarnedPromise, LedgerOps
  <2> HIDE DEF Updated
  <2> QED  BY <1>0, <1>00, <2>1, <2>2, OnceEarned
<1>2. ASSUME NEW c \in Calls, Resume(c) PROVE JobsEarned'
  <2> DEFINE p == call[c].proc
             j == call[c].job
             s == state[p][j]
  <2>1. call[c].at \in Awaited
    BY <1>2 DEF Resume, Reserved, Executed, Reconstructed, FoundReservation, FoundOutcome,
                Debited, Released, Refunded, Awaiting, Awaited, LedgerOps
  <2>2. p \in Procs /\ j \in Jobs
    BY <2>1, AwaitingIsCalled DEF CallState, TypeOK, OrchestratorTypeOK, CallStates
  <2>3. /\ JobEarned(s, Evidence(j))
        /\ call[c].kind = "execute" => j \notin Deferred
        /\ call[c].kind = "settle" => "asset" \in Evidence(j)
        /\ call[c].kind = "release" => "loss" \in Evidence(j)
    BY <1>0, <2>1, <2>2 DEF Earned, CallEarned, Awaited, LedgerOps
  <2>4. /\ s.execution = "ok" /\ call[c].kind = "execute" => "asset" \in Evidence(j)
        /\ s.execution = "failed" => "loss" \in Evidence(j)
    BY <2>3 DEF JobEarned, Evidence, HasAsset
  <2>5. CASE Reserved(c)
    <3>1. Updated(p, j, ExecuteOnce(s))
      BY <2>5 DEF Reserved, Go, Here
    <3>2. ExecuteOnce(s) \in {s, Set(s, "execution", "running")}
      BY DEF ExecuteOnce, Set
    <3> HIDE DEF p, j, Updated
    <3> QED  BY <1>0, <1>00, <2>2, <2>3, <3>1, <3>2, ExecutionEarned
  <2>6. CASE ~Reserved(c)
    <3>1. \/ Updated(p, j, s)
          \/ Updated(p, j, Once(s, "debit")) /\ "asset" \in Evidence(j)
          \/ Updated(p, j, Once(s, "release")) /\ "loss" \in Evidence(j)
      BY <1>2, <2>3, <2>4, <2>6 DEF Resume, Executed, Reconstructed, FoundReservation,
         FoundOutcome, Debited, Released, Refunded, Go, Here, Awaiting, Settlement
    <3>2. /\ "asset" \in Evidence(j) => EarnedPromise("debit", "pending", Evidence(j))
          /\ "loss" \in Evidence(j) => EarnedPromise("release", "pending", Evidence(j))
      BY DEF EarnedPromise
    <3>3. s \in JobState
      BY <1>0, <2>2
    <3> HIDE DEF p, j, s, Updated
    <3> QED  BY <1>00, <2>2, <2>3, <3>1, <3>2, <3>3, OnceEarned DEF LedgerOps
  <2> QED  BY <2>5, <2>6
<1>3. ASSUME NEW p \in Procs, NEW j \in Jobs, NEW op \in LedgerOps,
             Commit(p, j, op) \/ Resolve(p, j, op)
      PROVE  JobsEarned'
  <2>1. \/ /\ Updated(p, j, Set(state[p][j], op, "committed"))
           /\ state[p][j][op] = "pending"
        \/ /\ Updated(p, j, Resolved(state[p][j], op))
           /\ state[p][j][op] = "committed"
    BY <1>3 DEF Commit, Resolve
  <2>2. state[p][j][op] = "pending" => EarnedPromise(op, "committed", Evidence(j))
    BY <1>0 DEF EarnedPromise, JobEarned
  <2> HIDE DEF Updated
  <2> QED  BY <1>0, <1>00, <2>1, <2>2, SetEarned, ResolvedEarned
<1>4. ASSUME NEW p \in Procs, NEW j \in Jobs, NEW op \in LedgerOps \cup {"reconstruction"},
             Reject(p, j, op)
      PROVE  JobsEarned'
  <2>1. Updated(p, j, Set(state[p][j], op, "none"))
    BY <1>4 DEF Reject
  <2>2. EarnedPromise(op, "none", Evidence(j))
    BY DEF EarnedPromise
  <2> HIDE DEF Updated
  <2> QED  BY <1>0, <1>00, <2>1, <2>2, SetEarned
<1>5. ASSUME NEW p \in Procs, NEW j \in Jobs, ReadDurable(p, j) PROVE JobsEarned'
  <2>1. Updated(p, j, Set(state[p][j], "reconstruction", phase[j]))
    BY <1>5 DEF ReadDurable
  <2>2. EarnedPromise("reconstruction", phase[j], Evidence(j))
    BY DEF EarnedPromise
  <2> HIDE DEF Updated
  <2> QED  BY <1>0, <1>00, <2>1, <2>2, SetEarned
<1>6. ASSUME NEW p \in Procs, NEW j \in Jobs, ApplyDurable(p, j) PROVE JobsEarned'
  <2>1. Updated(p, j, Rebuilt(state[p][j]))
    BY <1>6 DEF ApplyDurable
  <2>2. /\ state[p][j].reconstruction \in Charged => "asset" \in Evidence(j)
        /\ state[p][j].reconstruction = "released" => "loss" \in Evidence(j)
    BY <1>0 DEF RemembersTruly, Earned, SettledAsEarned, Evidence
  <2> HIDE DEF Updated
  <2> QED  BY <1>0, <1>00, <2>1, <2>2, RebuiltEarned
<1>7. ASSUME NEW p \in Procs, NEW j \in Jobs, NEW outcome \in {"ok", "failed"},
             Finish(p, j, outcome)
      PROVE  JobsEarned'
  <2>1. Updated(p, j, Set(state[p][j], "execution", outcome))
    BY <1>7 DEF Finish
  <2>2. outcome \in Evidence(j)'
    BY <1>7 DEF Finish, Evidence, TypeOK
  <2>3. JobEarned(state[p][j], Evidence(j)')
    BY <1>0, EvidenceStays, EarnedStays
  <2> HIDE DEF Updated
  <2> QED  BY <1>0, <1>00, <2>1, <2>2, <2>3, ExecutionEarned
<1>8. ASSUME NEW p \in Procs, Crash(p) PROVE JobsEarned'
  <2> SUFFICES ASSUME NEW q \in Procs, NEW i \in Jobs
               PROVE  JobEarned(state'[q][i], Evidence(i)')
    BY DEF JobsEarned
  <2>1. state'[q][i] = IF q = p THEN Fresh ELSE state[q][i]
    BY <1>8 DEF Crash, TypeOK
  <2> QED  BY <1>0, <2>1, FreshEarned, EvidenceStays, EarnedStays
<1>9. ASSUME state' = state PROVE JobsEarned'
  BY <1>0, <1>9, EvidenceStays, EarnedStays DEF JobsEarned
<1>10. ASSUME NEW p \in Procs, NEW j \in Jobs, Database(p, j) PROVE JobsEarned'
  BY <1>10, <1>3, <1>4, <1>5, <1>6 DEF Database, Refuse, ForgetDurable
<1>11. ASSUME NEW p \in Procs, NEW j \in Jobs, NEW op \in LedgerOps, Fault(p, j, op)
       PROVE  JobsEarned'
  BY <1>11, <1>4 DEF Fault
<1>12. ASSUME NEW j \in Jobs, NEW result \in {"completed", "failed"}, Complete(j, result)
       PROVE  state' = state
  BY <1>12 DEF Complete
<1>13. UNCHANGED vars => state' = state
  BY DEF vars, orchestratorVars
<1> QED
  BY <1>1, <1>2, <1>7, <1>8, <1>9, <1>10, <1>11, <1>12, <1>13 DEF Next, Provider

\* A job's charge moves only by the commit of one of its promises.
LEMMA PhaseMovesByCommit ==
    ASSUME TypeOK, [Next]_vars, NEW j \in Jobs, phase'[j] # phase[j]
    PROVE  \E p \in Procs, op \in LedgerOps :
              state[p][j][op] = "pending" /\ AppendEntry(j, op)
<1>1. ASSUME NEW c \in Calls, NEW p \in Procs, NEW i \in Jobs,
             \/ BeginExecution(c, p, i) \/ SettleSuccessfulExecution(c, p, i)
             \/ ReleaseFailedExecution(c, p, i) \/ RefundDebit(c, p, i)
      PROVE  FALSE
  BY <1>1 DEF BeginExecution, SettleSuccessfulExecution, ReleaseFailedExecution,
              RefundDebit, Enter, Elsewhere, accountVars
<1>2. ASSUME NEW c \in Calls, Resume(c) PROVE FALSE
  BY <1>2 DEF Resume, Reserved, Executed, Reconstructed, FoundReservation, FoundOutcome,
              Debited, Released, Refunded, Elsewhere, accountVars
<1>3. ASSUME NEW p \in Procs, NEW i \in Jobs, NEW op \in LedgerOps, Commit(p, i, op)
      PROVE  i = j /\ state[p][j][op] = "pending" /\ AppendEntry(j, op)
  <2>1. AppendEntry(i, op) /\ state[p][i][op] = "pending"
    BY <1>3 DEF Commit, accountVars
  <2>2. phase \in [Jobs -> Phases]
    BY DEF TypeOK, AccountTypeOK
  <2>3. i = j
    BY <2>1, <2>2 DEF AppendEntry, Hold, Debit, Release, Refund
  <2> QED  BY <2>1, <2>3
<1>4. ASSUME NEW p \in Procs, NEW i \in Jobs, Database(p, i)
      PROVE  \E op \in LedgerOps : Commit(p, i, op)
  BY <1>4 DEF Database, Resolve, Refuse, ReadDurable, ApplyDurable, ForgetDurable,
              Reject, Elsewhere, accountVars
<1>5. ASSUME NEW p \in Procs, NEW i \in Jobs,
             Provider(p, i) \/ \E op \in LedgerOps : Fault(p, i, op)
      PROVE  FALSE
  BY <1>5 DEF Provider, Finish, Fault, Reject, accountVars
<1>6. ASSUME NEW i \in Jobs, NEW result \in {"completed", "failed"}, Complete(i, result)
      PROVE  FALSE
  BY <1>6 DEF Complete, accountVars
<1>7. ASSUME NEW p \in Procs, Crash(p) PROVE FALSE
  BY <1>7 DEF Crash, accountVars
<1>8. CASE UNCHANGED vars
  BY <1>8 DEF vars, accountVars
<1> QED  BY <1>1, <1>2, <1>3, <1>4, <1>5, <1>6, <1>7, <1>8 DEF Next

LEMMA SettledAsEarnedStep ==
    ASSUME TypeOK, TypeOK', Earned, [Next]_vars
    PROVE  SettledAsEarned'
<1> SUFFICES ASSUME NEW j \in Jobs
             PROVE  /\ phase'[j] \in Charged => "asset" \in Evidence(j)'
                    /\ phase'[j] = "released" => "loss" \in Evidence(j)'
  <2>1. \A j \in Jobs : outcomes'[j] \subseteq {"ok", "failed"}
    BY DEF TypeOK
  <2> QED  BY <2>1 DEF SettledAsEarned, Evidence, HasAsset
<1>0. /\ phase[j] \in Charged => "asset" \in Evidence(j)
      /\ phase[j] = "released" => "loss" \in Evidence(j)
      /\ Evidence(j) \subseteq Evidence(j)'
  BY EvidenceStays DEF Earned, SettledAsEarned, Evidence
<1>1. CASE phase'[j] = phase[j]
  BY <1>0, <1>1
<1>2. CASE phase'[j] # phase[j]
  <2>1. PICK p \in Procs, op \in LedgerOps : state[p][j][op] = "pending" /\ AppendEntry(j, op)
    BY <1>2, PhaseMovesByCommit
  <2>2. JobEarned(state[p][j], Evidence(j))
    BY DEF Earned
  <2>3. phase \in [Jobs -> Phases]
    BY DEF TypeOK, AccountTypeOK
  <2>4. CASE op = "debit"
    BY <1>0, <2>1, <2>2, <2>3, <2>4 DEF AppendEntry, Debit, JobEarned, Charged
  <2>5. CASE op = "release"
    BY <1>0, <2>1, <2>2, <2>3, <2>5 DEF AppendEntry, Release, JobEarned, Charged
  <2>6. CASE op = "refund"
    BY <1>0, <2>1, <2>3, <2>6 DEF AppendEntry, Refund, Charged
  <2>7. CASE op = "reservation"
    BY <2>1, <2>3, <2>7 DEF AppendEntry, Hold, Charged
  <2> QED  BY <2>4, <2>5, <2>6, <2>7 DEF LedgerOps
<1> QED  BY <1>1, <1>2

\* No customer is charged for a failure and no success is given away,
\* however the processes that settle one job overlap.
THEOREM SettlementIsEarned == Spec => []SettledAsEarned
<1>1. Init => Earned
  BY FreshEarned DEF Init, Earned, CallEarned, SettledAsEarned, NotCalled, Charged
<1>2. TypeOK /\ TypeOK' /\ PromisesAgreeWithLedger /\ Earned /\ [Next]_vars => Earned'
  BY JobsEarnedStep, CallEarnedStep, SettledAsEarnedStep DEF Earned, JobsEarned
<1>3. Earned => SettledAsEarned
  BY DEF Earned
<1> QED  BY <1>1, <1>2, <1>3, BillingTypeCorrect, MemoryIsTrue, PTL DEF Spec

-----------------------------------------------------------------------------
(* The provider is paid for a reserved job only, and at most once by each     *)
(* incarnation of a process: a process starts a job when it has not, and only *)
(* a crash makes it forget that it has.                                       *)

\* The processes whose present incarnation has started the job.
Started(j) == {p \in Procs : state[p][j].execution # "none"}

RunsAreStarts ==
    \A j \in Jobs : runs[j] <= Cardinality(Started(j)) + crashes

RunsAreReserved == \A j \in Jobs : runs[j] > 0 => phase[j] # "none"

-----------------------------------------------------------------------------
(* What a process has started it remembers. *)

StartKept(s, t) == s.execution # "none" => t.execution # "none"

LEMMA OperatorsKeepStart ==
    ASSUME NEW s \in JobState
    PROVE  /\ StartKept(s, s)
           /\ StartKept(s, Rebuilt(s))
           /\ StartKept(s, ExecuteOnce(s))
           /\ \A op \in LedgerOps \cup {"reconstruction"} :
                 /\ StartKept(s, Once(s, op))
                 /\ StartKept(s, Resolved(s, op))
                 /\ \A promise : StartKept(s, Set(s, op, promise))
           /\ \A e \in {"ok", "failed"} : StartKept(s, Set(s, "execution", e))
<1>1. \A promise : \A op \in LedgerOps \cup {"reconstruction"} :
         Set(s, op, promise).execution = s.execution
  BY DEF Set, LedgerOps, JobState
<1>2. \A op \in LedgerOps \cup {"reconstruction"} :
         Once(s, op).execution = s.execution /\ Resolved(s, op).execution = s.execution
  BY <1>1 DEF Once, Resolved, JobState
<1>3. Rebuilt(s).execution = s.execution
  BY DEF Rebuilt, JobState
<1>4. \A e \in {"ok", "failed"} : Set(s, "execution", e).execution = e
  BY DEF Set, JobState
<1>5. s.execution # "none" => ExecuteOnce(s) = s
  BY DEF ExecuteOnce
<1> QED  BY <1>1, <1>2, <1>3, <1>4, <1>5 DEF StartKept

LEMMA UpdateKeepsStarted ==
    ASSUME TypeOK, NEW p \in Procs, NEW i \in Jobs, NEW t, StartKept(state[p][i], t),
           state' = [state EXCEPT ![p][i] = t], NEW j \in Jobs
    PROVE  Started(j) \subseteq Started(j)'
BY DEF TypeOK, Started, StartKept

-----------------------------------------------------------------------------
(* The steps: all but a start and a crash leave the counters alone. *)

LEMMA OtherStepsStartNothing ==
    ASSUME TypeOK, [Next]_vars, \A c \in Calls : ~Reserved(c), \A p \in Procs : ~Crash(p),
           NEW j \in Jobs
    PROVE  /\ UNCHANGED <<runs, crashes>>
           /\ Started(j) \subseteq Started(j)'
<1>0. \A p \in Procs, i \in Jobs : state[p][i] \in JobState
  BY DEF TypeOK
<1> DEFINE Updated(p, i, t) == state' = [state EXCEPT ![p][i] = t]
<1>00. ASSUME NEW p \in Procs, NEW i \in Jobs, NEW t, Updated(p, i, t),
              StartKept(state[p][i], t)
       PROVE  Started(j) \subseteq Started(j)'
  BY <1>00, UpdateKeepsStarted
<1>1. ASSUME NEW c \in Calls, NEW p \in Procs, NEW i \in Jobs,
             \/ BeginExecution(c, p, i) \/ SettleSuccessfulExecution(c, p, i)
             \/ ReleaseFailedExecution(c, p, i) \/ RefundDebit(c, p, i)
      PROVE  UNCHANGED <<runs, crashes>> /\ Started(j) \subseteq Started(j)'
  <2>1. \/ Updated(p, i, state[p][i])
        \/ \E op \in LedgerOps \cup {"reconstruction"} :
               Updated(p, i, Once(state[p][i], op))
    BY <1>1 DEF BeginExecution, SettleSuccessfulExecution, ReleaseFailedExecution,
                RefundDebit, Enter, LedgerOps
  <2>2. UNCHANGED <<runs, crashes>>
    BY <1>1 DEF BeginExecution, SettleSuccessfulExecution, ReleaseFailedExecution,
                RefundDebit, Enter, Elsewhere
  <2> HIDE DEF Updated
  <2> QED  BY <1>0, <1>00, <2>1, <2>2, OperatorsKeepStart
<1>2. ASSUME NEW c \in Calls, Resume(c)
      PROVE  UNCHANGED <<runs, crashes>> /\ Started(j) \subseteq Started(j)'
  <2> DEFINE p == call[c].proc
             i == call[c].job
  <2>1. call[c].at \in Awaited
    BY <1>2 DEF Resume, Reserved, Executed, Reconstructed, FoundReservation, FoundOutcome,
                Debited, Released, Refunded, Awaiting, Awaited, LedgerOps
  <2>2. p \in Procs /\ i \in Jobs
    BY <2>1, AwaitingIsCalled DEF CallState, TypeOK, OrchestratorTypeOK, CallStates
  <2>3. \/ Updated(p, i, state[p][i])
        \/ \E op \in LedgerOps : Updated(p, i, Once(state[p][i], op))
    BY <1>2 DEF Resume, Executed, Reconstructed, FoundReservation, FoundOutcome,
                Debited, Released, Refunded, Go, Here, LedgerOps, Settlement
  <2>4. UNCHANGED <<runs, crashes>>
    BY <1>2 DEF Resume, Executed, Reconstructed, FoundReservation, FoundOutcome,
                Debited, Released, Refunded, Elsewhere
  <2> HIDE DEF p, i, Updated
  <2> QED  BY <1>0, <1>00, <2>2, <2>3, <2>4, OperatorsKeepStart
<1>3. ASSUME NEW p \in Procs, NEW i \in Jobs, Database(p, i)
      PROVE  UNCHANGED <<runs, crashes>> /\ Started(j) \subseteq Started(j)'
  <2>1. \/ Updated(p, i, Rebuilt(state[p][i]))
        \/ \E op \in LedgerOps : Updated(p, i, Resolved(state[p][i], op))
        \/ \E promise : \E op \in LedgerOps \cup {"reconstruction"} :
               Updated(p, i, Set(state[p][i], op, promise))
    BY <1>3 DEF Database, Commit, Resolve, Refuse, ReadDurable, ApplyDurable,
                ForgetDurable, Reject
  <2>2. UNCHANGED <<runs, crashes>>
    BY <1>3 DEF Database, Commit, Resolve, Refuse, ReadDurable, ApplyDurable,
                ForgetDurable, Reject, Elsewhere
  <2> HIDE DEF Updated
  <2> QED  BY <1>0, <1>00, <2>1, <2>2, OperatorsKeepStart
<1>4. ASSUME NEW p \in Procs, NEW i \in Jobs,
             Provider(p, i) \/ \E op \in LedgerOps : Fault(p, i, op)
      PROVE  UNCHANGED <<runs, crashes>> /\ Started(j) \subseteq Started(j)'
  <2>1. \/ \E e \in {"ok", "failed"} : Updated(p, i, Set(state[p][i], "execution", e))
        \/ \E op \in LedgerOps : Updated(p, i, Set(state[p][i], op, "none"))
    BY <1>4 DEF Provider, Finish, Fault, Reject
  <2>2. UNCHANGED <<runs, crashes>>
    BY <1>4 DEF Provider, Finish, Fault, Reject
  <2> HIDE DEF Updated
  <2> QED  BY <1>0, <1>00, <2>1, <2>2, OperatorsKeepStart
<1>5. ASSUME NEW i \in Jobs, NEW result \in {"completed", "failed"}, Complete(i, result)
      PROVE  UNCHANGED <<runs, crashes>> /\ Started(j) \subseteq Started(j)'
  BY <1>5 DEF Complete, Started
<1>6. CASE UNCHANGED vars
  BY <1>6 DEF vars, orchestratorVars, Started
<1> QED  BY <1>1, <1>2, <1>3, <1>4, <1>5, <1>6 DEF Next

LEMMA StartedIsFinite ==
    \A j \in Jobs : IsFiniteSet(Started(j)) /\ Cardinality(Started(j)) \in Nat
                    /\ Cardinality(Started(j)) <= Cardinality(Procs)
BY ProcsAssumption, FS_Subset, FS_CardinalityType DEF Started

LEMMA RunsStep ==
    ASSUME TypeOK, PromisesAgreeWithLedger, RunsAreStarts, RunsAreReserved, [Next]_vars
    PROVE  RunsAreStarts' /\ RunsAreReserved'
<1> SUFFICES ASSUME NEW j \in Jobs
             PROVE  /\ runs'[j] <= Cardinality(Started(j)') + crashes'
                    /\ runs'[j] > 0 => phase'[j] # "none"
  BY DEF RunsAreStarts, RunsAreReserved
<1>0. /\ runs[j] \in Nat /\ crashes \in Nat
      /\ runs[j] <= Cardinality(Started(j)) + crashes
      /\ runs[j] > 0 => phase[j] # "none"
      /\ phase[j] # "none" => phase'[j] # "none"
      /\ IsFiniteSet(Started(j)) /\ Cardinality(Started(j)) \in Nat
      /\ Cardinality(Started(j)) <= Cardinality(Procs)
  BY NextIsAccountStep, PhasesAdvance, BoundsAssumption, StartedIsFinite
     DEF TypeOK, RunsAreStarts, RunsAreReserved, Advances
<1>1. ASSUME Started(j) \subseteq Started(j)'
      PROVE  /\ Cardinality(Started(j)') \in Nat
             /\ Cardinality(Started(j)) <= Cardinality(Started(j)')
  <2>1. IsFiniteSet(Started(j)')
    BY ProcsAssumption, FS_Subset DEF Started
  <2> QED  BY <1>1, <2>1, FS_Subset, FS_CardinalityType
<1>2. ASSUME NEW c \in Calls, Reserved(c)
      PROVE  /\ runs'[j] <= Cardinality(Started(j)') + crashes'
             /\ runs'[j] > 0 => phase'[j] # "none"
  <2> DEFINE p == call[c].proc
             i == call[c].job
  <2>1. call[c].at \in Awaited
    BY <1>2 DEF Reserved, Awaiting, Awaited, LedgerOps
  <2>2. p \in Procs /\ i \in Jobs
    BY <2>1, AwaitingIsCalled DEF CallState, TypeOK, OrchestratorTypeOK, CallStates
  <2>3. /\ state' = [state EXCEPT ![p][i] = ExecuteOnce(state[p][i])]
        /\ runs' = [runs EXCEPT ![i] = @ + IF state[p][i].execution = "none" THEN 1 ELSE 0]
        /\ crashes' = crashes
        /\ state[p][i].reservation = "have"
    BY <1>2 DEF Reserved, Go, Here
  <2>4. state[p][i] \in JobState
    BY <2>2 DEF TypeOK
  <2>5. Started(j) \subseteq Started(j)'
    <3>1. StartKept(state[p][i], ExecuteOnce(state[p][i]))
      BY <2>4, OperatorsKeepStart
    <3> HIDE DEF p, i
    <3> QED  BY <2>2, <2>3, <3>1, UpdateKeepsStarted
  <2>6. phase[i] # "none"
    BY <2>2, <2>3 DEF PromisesAgreeWithLedger, RemembersTruly
  <2>7. CASE i = j /\ state[p][i].execution = "none"
    <3>1. p \notin Started(j)
      BY <2>7 DEF Started
    <3>2. ExecuteOnce(state[p][j]).execution = "running"
      BY <2>4, <2>7 DEF ExecuteOnce, JobState
    <3>3. p \in Started(j)'
      BY <2>2, <2>3, <2>7, <3>2 DEF Started, TypeOK
    <3>4. /\ Started(j) \cup {p} \subseteq Started(j)'
          /\ Cardinality(Started(j) \cup {p}) = Cardinality(Started(j)) + 1
      BY <1>0, <2>5, <3>1, <3>3, FS_AddElement
    <3>5. IsFiniteSet(Started(j)')
      BY ProcsAssumption, FS_Subset DEF Started
    <3>6. Cardinality(Started(j)') \in Nat
          /\ Cardinality(Started(j)) + 1 <= Cardinality(Started(j)')
      BY <3>4, <3>5, FS_Subset, FS_CardinalityType
    <3>7. runs'[j] = runs[j] + 1
      BY <1>0, <2>2, <2>3, <2>7 DEF TypeOK
    <3> QED  BY <1>0, <2>3, <2>6, <2>7, <3>6, <3>7
  <2>8. CASE ~(i = j /\ state[p][i].execution = "none")
    <3>1. runs'[j] = runs[j]
      BY <1>0, <2>2, <2>3, <2>8 DEF TypeOK
    <3> QED  BY <1>0, <1>1, <2>3, <2>5, <3>1
  <2> QED  BY <2>7, <2>8
<1>3. ASSUME NEW p \in Procs, Crash(p)
      PROVE  /\ runs'[j] <= Cardinality(Started(j)') + crashes'
             /\ runs'[j] > 0 => phase'[j] # "none"
  <2>1. runs' = runs /\ crashes' = crashes + 1
    BY <1>3 DEF Crash
  <2>2. Started(j)' = Started(j) \ {p}
    BY <1>3 DEF Crash, Started, TypeOK, Fresh
  <2>3. Cardinality(Started(j)') >= Cardinality(Started(j)) - 1
        /\ Cardinality(Started(j)') \in Int
    <3> DEFINE S == Started(j)
    <3>1. IsFiniteSet(S) /\ Cardinality(S) \in Nat /\ Started(j)' = S \ {p}
      BY <1>0, <2>2
    <3> HIDE DEF S
    <3>2. Cardinality(S \ {p}) = IF p \in S THEN Cardinality(S) - 1 ELSE Cardinality(S)
      BY <3>1, FS_RemoveElement
    <3>3. Cardinality(S \ {p}) >= Cardinality(S) - 1 /\ Cardinality(S \ {p}) \in Int
      BY <3>1, <3>2
    <3> QED  BY <3>1, <3>3 DEF S
  <2> QED  BY <1>0, <2>1, <2>3
<1>4. CASE (\A c \in Calls : ~Reserved(c)) /\ (\A p \in Procs : ~Crash(p))
  <2>1. UNCHANGED <<runs, crashes>> /\ Started(j) \subseteq Started(j)'
    BY <1>4, OtherStepsStartNothing
  <2> QED  BY <1>0, <1>1, <2>1
<1> QED  BY <1>2, <1>3, <1>4

\* However many calls and retries there are, the provider runs for reserved
\* jobs only, and once per incarnation of a process.
THEOREM ProviderRunsAreReserved == Spec => []ProviderRunsReserved
<1>1. Init => RunsAreStarts /\ RunsAreReserved
  <2> SUFFICES ASSUME Init PROVE RunsAreStarts /\ RunsAreReserved
    OBVIOUS
  <2>1. \A j \in Jobs : runs[j] = 0 /\ crashes = 0
    BY DEF Init
  <2> QED  BY <2>1, StartedIsFinite DEF RunsAreStarts, RunsAreReserved
<1>2. /\ TypeOK /\ PromisesAgreeWithLedger /\ RunsAreStarts /\ RunsAreReserved /\ [Next]_vars
      => RunsAreStarts' /\ RunsAreReserved'
  BY RunsStep
<1>3. TypeOK /\ RunsAreStarts /\ RunsAreReserved => ProviderRunsReserved
  <2> SUFFICES ASSUME TypeOK, RunsAreStarts, RunsAreReserved, NEW j \in Jobs
               PROVE  runs[j] <= Cardinality(Procs) + crashes
    BY DEF ProviderRunsReserved, RunsAreReserved
  <2>1. /\ runs[j] \in Nat /\ crashes \in Nat
        /\ runs[j] <= Cardinality(Started(j)) + crashes
    BY BoundsAssumption DEF TypeOK, RunsAreStarts
  <2>2. Cardinality(Procs) \in Nat
    BY ProcsAssumption, FS_CardinalityType
  <2> QED  BY <2>1, <2>2, StartedIsFinite
<1> QED  BY <1>1, <1>2, <1>3, BillingTypeCorrect, MemoryIsTrue, PTL DEF Spec

=============================================================================
