--------------------------- MODULE GenerationBilling ---------------------------
(***************************************************************************)
(* GenerationBillingOrchestrator in several server processes, above the    *)
(* credit ledger.  A process keeps one record of promises per job, which   *)
(* its concurrent calls share and a crash forgets; the ledger (the         *)
(* variables of CreditAccount) is durable and shared.                      *)
(*                                                                         *)
(* A step is what the event loop runs between two awaits.  A promise of a  *)
(* ledger operation is "none" (null), "pending" (the database has not      *)
(* acted), "committed" (it has, the answer is under way) or "have"         *)
(* (resolved).  A rejection puts it back to "none" and fails the calls     *)
(* that await it.                                                          *)
(***************************************************************************)
EXTENDS CreditAccount, FiniteSets

CONSTANTS
    Procs,         \* server processes
    Calls,         \* calls of the orchestrator; each is made once
    Price,         \* [Jobs -> Credits]
    Deferred,      \* jobs whose asset completes after the call (video)
    Opening,       \* [Accounts -> Nat]: the credits granted beforehand
    MaxCrashes,    \* bound on process crashes
    MaxFaults      \* bound on database failures and lost acknowledgements

ASSUME ProcsAssumption == IsFiniteSet(Procs)
ASSUME PriceAssumption == Price \in [Jobs -> Credits]
ASSUME DeferredAssumption == Deferred \subseteq Jobs
ASSUME OpeningAssumption == Opening \in [Accounts -> Nat]
ASSUME BoundsAssumption == MaxCrashes \in Nat /\ MaxFaults \in Nat

VARIABLES
    state,         \* [Procs -> [Jobs -> JobState]]: this.states of each process
    call,          \* what each call is awaiting
    runs,          \* [Jobs -> Nat]: how often the provider was invoked
    outcomes,      \* [Jobs -> SUBSET {"ok", "failed"}]: how its invocations ended
    completion,    \* [Jobs]: the durable record of a deferred job's asset
    delivered,     \* jobs whose result was handed to the customer
    crashes, faults

orchestratorVars == <<state, call, runs, outcomes, completion, delivered, crashes, faults>>
vars == <<accountVars, orchestratorVars>>

Charged == {"debited", "refunded"}

LedgerOps == {"reservation", "debit", "release", "refund"}
Promise == {"none", "pending", "committed", "have"}

JobState ==
    [reservation : Promise, debit : Promise, release : Promise, refund : Promise,
     execution : {"none", "running", "ok", "failed"},
     reconstruction : {"none", "pending", "have"} \cup Phases,
     settled : {"none", "debited"}]          \* state.debit

Fresh == [reservation |-> "none", debit |-> "none", release |-> "none",
          refund |-> "none", execution |-> "none", reconstruction |-> "none",
          settled |-> "none"]

Kinds == {"begin", "execute", "settle", "release", "refund"}
Awaited == LedgerOps \cup {"execution", "reconstruction"}

CallState ==
    [kind : Kinds, proc : Procs, job : Jobs, at : Awaited \cup {"done", "failed"}]

NotCalled == [at |-> "new"]

TypeOK ==
    /\ AccountTypeOK
    /\ state \in [Procs -> [Jobs -> JobState]]
    /\ call \in [Calls -> CallState \cup {NotCalled}]
    /\ runs \in [Jobs -> Nat]
    /\ outcomes \in [Jobs -> SUBSET {"ok", "failed"}]
    /\ completion \in [Jobs -> {"none", "completed", "failed"}]
    /\ delivered \subseteq Jobs
    /\ crashes \in 0 .. MaxCrashes
    /\ faults \in 0 .. MaxFaults

Init ==
    /\ balance = Opening
    /\ reserved = [a \in Accounts |-> 0]
    /\ phase = [j \in Jobs |-> "none"]
    /\ held = [j \in Jobs |-> 0]
    /\ state = [p \in Procs |-> [j \in Jobs |-> Fresh]]
    /\ call = [c \in Calls |-> NotCalled]
    /\ runs = [j \in Jobs |-> 0]
    /\ outcomes = [j \in Jobs |-> {}]
    /\ completion = [j \in Jobs |-> "none"]
    /\ delivered = {}
    /\ crashes = 0
    /\ faults = 0

-----------------------------------------------------------------------------
(* The promises of a job's state.  An operator that makes a promise once    *)
(* returns the state after it.                                              *)

Set(s, op, promise) == [s EXCEPT ![op] = promise]

Once(s, op) == IF s[op] = "none" THEN Set(s, op, "pending") ELSE s

ExecuteOnce(s) == IF s.execution = "none" THEN [s EXCEPT !.execution = "running"] ELSE s

Here(c) == state[call[c].proc][call[c].job]

\* The call goes on with the job's state s, to await a promise or to end.
Go(c, s, at) ==
    /\ state' = [state EXCEPT ![call[c].proc][call[c].job] = s]
    /\ call' = [call EXCEPT ![c].at = at]

Awaiting(c, at, kinds) == call[c].at = at /\ call[c].kind \in kinds

Waiters(p, j, at) == {c \in Calls : call[c].at = at /\ call[c].proc = p /\ call[c].job = j}

FailCalls(C) == [c \in Calls |-> IF c \in C THEN [call[c] EXCEPT !.at = "failed"] ELSE call[c]]

\* Everything but the state and the calls.
Elsewhere == <<accountVars, runs, outcomes, completion, delivered, crashes, faults>>

-----------------------------------------------------------------------------
(* The calls, up to their first await. *)

Enter(c, p, j, kind, s, at) ==
    /\ call[c].at = "new"
    /\ state' = [state EXCEPT ![p][j] = s]
    /\ call' = [call EXCEPT ![c] = [kind |-> kind, proc |-> p, job |-> j, at |-> at]]
    /\ UNCHANGED Elsewhere

BeginExecution(c, p, j) ==
    /\ \E kind \in IF j \in Deferred THEN {"begin"} ELSE {"execute"} :
          Enter(c, p, j, kind, Once(state[p][j], "reservation"), "reservation")

\* Called when the asset is durable: a completed video, a saved campaign.
HasAsset(j) ==
    IF j \in Deferred THEN completion[j] = "completed" ELSE "ok" \in outcomes[j]

SettleSuccessfulExecution(c, p, j) ==
    LET s == state[p][j]
    IN  /\ HasAsset(j)
        /\ IF s.reservation = "none" \/ s.execution = "none"
           THEN Enter(c, p, j, "settle", Once(s, "reconstruction"), "reconstruction")
           ELSE Enter(c, p, j, "settle", s, IF s.release # "none" THEN "failed" ELSE "reservation")

\* Called when the asset has failed for good.
ReleaseFailedExecution(c, p, j) ==
    LET s == state[p][j]
    IN  /\ j \in Deferred /\ completion[j] = "failed"
        /\ IF s.reservation = "none"
           THEN Enter(c, p, j, "release", Once(s, "reconstruction"), "reconstruction")
           ELSE Enter(c, p, j, "release", s, IF s.settled = "debited" THEN "failed" ELSE "reservation")

\* The refund policy qualifies the debit, does not, or cannot say.
RefundDebit(c, p, j) ==
    LET s == state[p][j]
    IN  IF s.settled # "debited" THEN Enter(c, p, j, "refund", s, "failed")
        ELSE \/ \E end \in {"done", "failed"} : Enter(c, p, j, "refund", s, end)
             \/ Enter(c, p, j, "refund", Once(s, "refund"), "refund")

(* The calls, after an await. *)

\* Mutant: the provider is invoked before the reservation has its answer.
Reserved_Unawaited(c) ==
    /\ Awaiting(c, "reservation", {"begin", "execute"})
    /\ Go(c, ExecuteOnce(Here(c)), "execution")
    /\ runs' = [runs EXCEPT ![call[c].job] =
                   @ + IF Here(c).execution = "none" THEN 1 ELSE 0]
    /\ UNCHANGED <<accountVars, outcomes, completion, delivered, crashes, faults>>

Reserved(c) ==
    /\ Awaiting(c, "reservation", {"begin", "execute"})
    /\ Here(c).reservation = "have"
    /\ Go(c, ExecuteOnce(Here(c)), "execution")
    /\ runs' = [runs EXCEPT ![call[c].job] =
                   @ + IF Here(c).execution = "none" THEN 1 ELSE 0]
    /\ UNCHANGED <<accountVars, outcomes, completion, delivered, crashes, faults>>

\* A failed outcome is released; an executed one goes on into
\* settleSuccessfulExecution, whose own awaits are of resolved promises.
\* Mutant: a failed outcome is settled like a success.
Executed_IgnoresOutcome(c) ==
    /\ Awaiting(c, "execution", {"begin", "execute"})
    /\ Here(c).execution \in {"ok", "failed"}
    /\ IF call[c].kind = "begin" THEN Go(c, Here(c), "done")
       ELSE Go(c, Once(Here(c), "debit"), "debit")
    /\ UNCHANGED Elsewhere

\* Mutant: the error of the generation is returned and nothing is released.
Executed_KeepsHold(c) ==
    /\ Awaiting(c, "execution", {"begin", "execute"})
    /\ \/ /\ Here(c).execution = "failed" \/ Here(c).release # "none"
          /\ Go(c, Here(c), "failed")
       \/ /\ Here(c).execution = "ok" /\ call[c].kind = "begin"
          /\ Go(c, Here(c), "done")
       \/ /\ Here(c).execution = "ok" /\ call[c].kind = "execute"
          /\ Go(c, Once(Here(c), "debit"), "debit")
    /\ UNCHANGED Elsewhere

Executed(c) ==
    /\ Awaiting(c, "execution", {"begin", "execute"})
    /\ \/ /\ Here(c).execution = "failed"
          /\ Go(c, Once(Here(c), "release"), "release")
       \/ /\ Here(c).execution = "ok" /\ call[c].kind = "begin"
          /\ Go(c, Here(c), "done")
       \/ /\ Here(c).execution = "ok" /\ call[c].kind = "execute"
          /\ IF Here(c).release # "none" THEN Go(c, Here(c), "failed")
             ELSE Go(c, Once(Here(c), "debit"), "debit")
    /\ UNCHANGED Elsewhere

\* The call's own operation once the reservation is known to be held.
Settlement(c) == IF call[c].kind = "settle" THEN "debit" ELSE "release"

\* reconstruct has resolved, now or in an earlier call.  The reservation may be
\* null all the same: one that was pending at the reconstruction was rejected
\* after it.  Then only a settlement that is under way or found can answer.
Reconstructed(c) ==
    /\ Awaiting(c, "reconstruction", {"settle", "release"})
    /\ Here(c).reconstruction = "have"
    /\ LET refused == IF call[c].kind = "settle" THEN Here(c).release # "none"
                      ELSE Here(c).settled = "debited"
           found == Here(c)[Settlement(c)] # "none"
       IN  Go(c, Here(c), IF refused THEN "failed"
                          ELSE IF Here(c).reservation # "none" THEN "reservation"
                          ELSE IF found THEN Settlement(c) ELSE "failed")
    /\ UNCHANGED Elsewhere

FoundReservation(c) ==
    /\ Awaiting(c, "reservation", {"settle", "release"})
    /\ Here(c).reservation = "have"
    /\ IF call[c].kind = "settle" /\ Here(c).execution # "none"
       THEN Go(c, Here(c), "execution")
       ELSE Go(c, Once(Here(c), Settlement(c)), Settlement(c))
    /\ UNCHANGED Elsewhere

FoundOutcome(c) ==
    /\ Awaiting(c, "execution", {"settle"})
    /\ \/ /\ Here(c).execution = "ok"
          /\ Go(c, Once(Here(c), "debit"), "debit")
       \/ /\ Here(c).execution = "failed"
          /\ Go(c, Here(c), "failed")
    /\ UNCHANGED Elsewhere

\* Mutant: the result is returned without waiting for the debit.
Debited_Early(c) ==
    /\ Awaiting(c, "debit", {"execute", "settle"})
    /\ Go(c, Here(c), "done")
    /\ delivered' = delivered \cup {call[c].job}
    /\ UNCHANGED <<accountVars, runs, outcomes, completion, crashes, faults>>

Debited(c) ==
    /\ Awaiting(c, "debit", {"execute", "settle"})
    /\ Here(c).debit = "have"
    /\ Go(c, Here(c), "done")
    /\ delivered' = delivered \cup {call[c].job}
    /\ UNCHANGED <<accountVars, runs, outcomes, completion, crashes, faults>>

\* beginExecution ends with the error of the generation, whether or not the
\* release went through.
Released(c) ==
    /\ Awaiting(c, "release", Kinds)
    /\ Here(c).release = "have"
    /\ Go(c, Here(c), IF call[c].kind = "release" THEN "done" ELSE "failed")
    /\ UNCHANGED Elsewhere

Refunded(c) ==
    /\ Awaiting(c, "refund", {"refund"})
    /\ Here(c).refund = "have"
    /\ Go(c, Here(c), "done")
    /\ UNCHANGED Elsewhere

Resume(c) ==
    \/ Reserved(c) \/ Executed(c) \/ Reconstructed(c) \/ FoundReservation(c)
    \/ FoundOutcome(c) \/ Debited(c) \/ Released(c) \/ Refunded(c)

-----------------------------------------------------------------------------
(* The database side of a promise. *)

\* The entry an operation asks for is there already: findReplay returns it.
Standing(j, op) ==
    \/ op = "reservation" /\ phase[j] # "none"
    \/ op = "debit" /\ phase[j] \in Charged
    \/ op = "release" /\ phase[j] = "released"
    \/ op = "refund" /\ phase[j] = "refunded"

AppendEntry(j, op) ==
    \/ op = "reservation" /\ Hold(j, Price[j])
    \/ op = "debit" /\ Debit(j)
    \/ op = "release" /\ Release(j)
    \/ op = "refund" /\ Refund(j)

CanAppend(j, op) ==
    \/ op = "reservation" /\ phase[j] = "none" /\ Available(JobAccount[j]) >= Price[j]
    \/ op \in {"debit", "release"} /\ phase[j] = "held"
    \/ op = "refund" /\ phase[j] = "debited"

Commit(p, j, op) ==
    /\ state[p][j][op] = "pending"
    /\ \/ AppendEntry(j, op)
       \/ Standing(j, op) /\ UNCHANGED accountVars
    /\ state' = [state EXCEPT ![p][j] = Set(@, op, "committed")]
    /\ UNCHANGED <<call, runs, outcomes, completion, delivered, crashes, faults>>

\* The answer arrives; debitOnce remembers the debit.
Resolved(s, op) ==
    IF op = "debit" THEN [s EXCEPT !.debit = "have", !.settled = "debited"]
    ELSE Set(s, op, "have")

Resolve(p, j, op) ==
    /\ state[p][j][op] = "committed"
    /\ state' = [state EXCEPT ![p][j] = Resolved(@, op)]
    /\ UNCHANGED <<call, Elsewhere>>

\* Mutant: the promise is forgotten without being rejected.
Reject_NeverSettles(p, j, op) ==
    /\ state' = [state EXCEPT ![p][j] = Set(@, op, "none")]
    /\ UNCHANGED <<call, accountVars, runs, outcomes, completion, delivered, crashes>>

\* Mutant: the catch handler does not forget the promise.
Reject_KeepsPromise(p, j, op) ==
    /\ state' = [state EXCEPT ![p][j] = Set(@, op, "have")]
    /\ call' = FailCalls(Waiters(p, j, op))
    /\ UNCHANGED <<accountVars, runs, outcomes, completion, delivered, crashes>>

\* Each promise's catch handler forgets it and rethrows to those who await it.
Reject(p, j, op) ==
    /\ state' = [state EXCEPT ![p][j] = Set(@, op, "none")]
    /\ call' = FailCalls(Waiters(p, j, op))
    /\ UNCHANGED <<accountVars, runs, outcomes, completion, delivered, crashes>>

\* The ledger refuses: no funds, or the other settlement was first.
Refuse(p, j, op) ==
    /\ state[p][j][op] = "pending"
    /\ ~Standing(j, op) /\ ~CanAppend(j, op)
    /\ Reject(p, j, op)
    /\ UNCHANGED faults

\* The database fails before the commit, the acknowledgement is lost after
\* it, or the entitlement the reservation is priced from has lapsed.
Fault(p, j, op) ==
    /\ faults < MaxFaults
    /\ state[p][j][op] \in {"pending", "committed"}
    /\ Reject(p, j, op)
    /\ faults' = faults + 1

(* findGenerationBillingState, read at one moment and applied at a later one. *)

ReadDurable(p, j) ==
    /\ state[p][j].reconstruction = "pending"
    /\ phase[j] # "none"
    /\ state' = [state EXCEPT ![p][j] = Set(@, "reconstruction", phase[j])]
    /\ UNCHANGED <<call, Elsewhere>>

\* A promise of this process that is under way is answered by the entry that
\* was found, or fails those who await it.
Found(promise) == IF promise \in {"pending", "committed"} THEN "committed" ELSE "have"

Rebuilt(s) ==
    LET debited == s.reconstruction \in {"debited", "refunded"}
    IN  [s EXCEPT !.reconstruction = "have",
                  !.reservation = IF @ = "none" THEN "have" ELSE @,
                  !.settled = IF debited THEN "debited" ELSE @,
                  !.debit = IF debited THEN Found(@) ELSE @,
                  !.release = IF s.reconstruction = "released" THEN Found(@) ELSE @]

ApplyDurable(p, j) ==
    /\ state[p][j].reconstruction \in Phases \ {"none"}
    /\ state' = [state EXCEPT ![p][j] = Rebuilt(@)]
    /\ UNCHANGED <<call, Elsewhere>>

\* No reservation was found, or the read failed.
ForgetDurable(p, j) ==
    /\ state[p][j].reconstruction = "pending"
    /\ Reject(p, j, "reconstruction")
    /\ \/ phase[j] = "none" /\ UNCHANGED faults
       \/ faults < MaxFaults /\ faults' = faults + 1

-----------------------------------------------------------------------------
(* The provider, the asset of a deferred job, and process crashes. *)

Finish(p, j, outcome) ==
    /\ state[p][j].execution = "running"
    /\ state' = [state EXCEPT ![p][j] = Set(@, "execution", outcome)]
    /\ outcomes' = [outcomes EXCEPT ![j] = @ \cup {outcome}]
    /\ UNCHANGED <<accountVars, call, runs, completion, delivered, crashes, faults>>

\* External: the video service polls the provider to the asset's end.
Complete(j, result) ==
    /\ j \in Deferred
    /\ "ok" \in outcomes[j]
    /\ completion[j] = "none"
    /\ completion' = [completion EXCEPT ![j] = result]
    /\ UNCHANGED <<accountVars, state, call, runs, outcomes, delivered, crashes, faults>>

\* The process is replaced by a new one: its Map and its calls are gone, and a
\* statement it had sent was committed before or is lost.
Crash(p) ==
    /\ crashes < MaxCrashes
    /\ crashes' = crashes + 1
    /\ state' = [state EXCEPT ![p] = [j \in Jobs |-> Fresh]]
    /\ call' = FailCalls({c \in Calls : call[c].at \in Awaited /\ call[c].proc = p})
    /\ UNCHANGED <<accountVars, runs, outcomes, completion, delivered, faults>>

Database(p, j) ==
    \/ \E op \in LedgerOps : Commit(p, j, op) \/ Resolve(p, j, op) \/ Refuse(p, j, op)
    \/ ReadDurable(p, j) \/ ApplyDurable(p, j) \/ ForgetDurable(p, j)

Provider(p, j) == \E outcome \in {"ok", "failed"} : Finish(p, j, outcome)

Next ==
    \/ \E c \in Calls, p \in Procs, j \in Jobs :
          \/ BeginExecution(c, p, j) \/ SettleSuccessfulExecution(c, p, j)
          \/ ReleaseFailedExecution(c, p, j) \/ RefundDebit(c, p, j)
    \/ \E c \in Calls : Resume(c)
    \/ \E p \in Procs, j \in Jobs :
          \/ Database(p, j) \/ Provider(p, j)
          \/ \E op \in LedgerOps : Fault(p, j, op)
    \/ \E j \in Jobs : \E result \in {"completed", "failed"} : Complete(j, result)
    \/ \E p \in Procs : Crash(p)

Spec == Init /\ [][Next]_vars

\* The event loop runs every ready continuation; the database and the
\* provider answer in the end.  Nobody has to call, fail or crash.
Fairness ==
    /\ \A c \in Calls : WF_vars(Resume(c))
    /\ \A p \in Procs, j \in Jobs : WF_vars(Database(p, j)) /\ WF_vars(Provider(p, j))

FairSpec == Spec /\ Fairness

-----------------------------------------------------------------------------
(* Properties. *)

\* No result reaches a customer before its debit is durable, whichever
\* process, retry or reconstruction hands it over.
DeliveredIsCharged == \A j \in delivered : phase[j] \in Charged

\* What a process remembers of a job is never refuted by the ledger, though
\* other processes settle the job meanwhile and reconstructions are
\* remembered for good.
RemembersTruly(s, ph) ==
    /\ s.reservation \in {"committed", "have"} \/ s.execution # "none" => ph # "none"
    /\ s.debit \in {"committed", "have"} \/ s.settled = "debited"
           \/ s.reconstruction \in Charged => ph \in Charged
    /\ s.release \in {"committed", "have"} \/ s.reconstruction = "released"
           => ph = "released"
    /\ s.refund \in {"committed", "have"} \/ s.reconstruction = "refunded"
           => ph = "refunded"
    /\ s.reconstruction = "held" => ph # "none"

PromisesAgreeWithLedger ==
    \A p \in Procs, j \in Jobs : RemembersTruly(state[p][j], phase[j])

\* A job is charged only for a success and released only for a failure: the
\* debit and the release of one job may both be under way, in two processes.
SettledAsEarned ==
    \A j \in Jobs :
        /\ phase[j] \in Charged => HasAsset(j)
        /\ phase[j] = "released" => "failed" \in outcomes[j] \/ completion[j] = "failed"

\* The provider is invoked for a reserved job only, and at most once by each
\* incarnation of a process, however many calls and retries there are.
ProviderRunsReserved ==
    \A j \in Jobs :
        /\ runs[j] > 0 => phase[j] # "none"
        /\ runs[j] <= Cardinality(Procs) + crashes

\* Every call gets an answer, through refusals, faults and crashes.
CallsEnd == \A c \in Calls : call[c].at \in Awaited ~> call[c].at \in {"done", "failed"}

\* As long as nothing crashes or fails, the reservation of an immediate job
\* is settled without anyone asking again.
HoldsEnd ==
    \A j \in Jobs \ Deferred :
        phase[j] = "held" ~> (phase[j] # "held" \/ crashes > 0 \/ faults > 0)

\* What DURABLE_POSTGRES_BILLING.md says: durable settlement is checked
\* before the provider runs, so a settled job is not run again.
SettledJobIsNotRerun ==
    [][\A j \in Jobs : runs'[j] > runs[j] => phase[j] = "held"]_vars

=============================================================================
