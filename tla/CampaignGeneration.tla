-------------------------- MODULE CampaignGeneration --------------------------
(***************************************************************************)
(* POST /:campaignId/variants/:variantId/generate, from the request to its *)
(* answer, in several server processes: the generation job that binds the  *)
(* idempotency key, the credit hold, the generated draft, the command that *)
(* saves it with a receipt, and the debit.                                 *)
(*                                                                         *)
(* A job is known by its idempotency key, of which the database keeps one  *)
(* job.  A process remembers one execution per job, shared by its calls.   *)
(* A ledger operation is one step: GenerationBilling shows that what a     *)
(* process remembers of the ledger is what the ledger says, so each caller *)
(* is answered here by the ledger (the variables of CreditAccount) itself. *)
(***************************************************************************)
EXTENDS CreditAccount, FiniteSets

CONSTANTS
    Procs,         \* server processes
    Calls,         \* HTTP requests; each is sent once
    Variants,      \* text variants of the campaign
    Briefs,        \* the rest of a request: mode, brief and supplied assets
    Texts,         \* texts the provider may generate
    Price,         \* Credits: the price of text.standard
    Opening,       \* a set of [Accounts -> Nat]: the credits granted beforehand
    MaxVersion,    \* bound on the campaign's version
    MaxCrashes,    \* bound on process crashes
    MaxFaults      \* bound on failed statements and lost acknowledgements

ASSUME PriceAssumption == Price \in Credits
ASSUME OpeningAssumption == Opening \subseteq [Accounts -> Nat]
ASSUME BoundsAssumption == {MaxVersion, MaxCrashes, MaxFaults} \subseteq Nat

VARIABLES
    version,       \* the campaign's version
    receipt,       \* [Jobs -> Receipt or None]: campaign_command_receipts by key
    job,           \* [Jobs -> Request or None]: generation_jobs by key
    execution,     \* [Procs -> [Jobs -> Execution]]: each process's executionPromise
    call,          \* [Calls -> CallState or None]
    crashes, faults

campaignVars == <<version, receipt, job>>
vars == <<accountVars, campaignVars, execution, call, crashes, faults>>

None == [none |-> TRUE]

\* What a job's request fingerprint covers.
Request == [variant : Variants, expected : 0 .. MaxVersion - 1, brief : Briefs]

\* The intent of the committed save_revision.
Receipt == [variant : Variants, expected : 0 .. MaxVersion - 1, text : Texts]

Execution == [at : {"none", "generating", "ok", "failed"}] \cup [at : {"saving"}, text : Texts]

Awaiting == {"read", "prove", "find", "insert", "join", "reserve", "execute",
             "settle", "outcome", "debit", "release"}

CallState == [proc : Procs, key : Jobs, request : Request, at : Awaiting \cup {"done", "failed"}]

TypeOK ==
    /\ AccountTypeOK
    /\ version \in 0 .. MaxVersion
    /\ receipt \in [Jobs -> Receipt \cup {None}]
    /\ job \in [Jobs -> Request \cup {None}]
    /\ execution \in [Procs -> [Jobs -> Execution]]
    /\ call \in [Calls -> CallState \cup {None}]
    /\ crashes \in 0 .. MaxCrashes
    /\ faults \in 0 .. MaxFaults

Idle == [j \in Jobs |-> [at |-> "none"]]

Init ==
    /\ balance \in Opening
    /\ reserved = [a \in Accounts |-> 0]
    /\ phase = [j \in Jobs |-> "none"]
    /\ held = [j \in Jobs |-> 0]
    /\ version = 0
    /\ receipt = [j \in Jobs |-> None]
    /\ job = [j \in Jobs |-> None]
    /\ execution = [p \in Procs |-> Idle]
    /\ call = [c \in Calls |-> None]
    /\ crashes = 0
    /\ faults = 0

-----------------------------------------------------------------------------
(* The request, up to its job. *)

At(c, stage) == call[c] # None /\ call[c].at = stage
Key(c) == call[c].key
Go(c, stage) == call' = [call EXCEPT ![c].at = stage]

\* A step of one call that changes nothing else.
Continue(c, from, to) ==
    /\ At(c, from)
    /\ Go(c, to)
    /\ UNCHANGED <<accountVars, campaignVars, execution, crashes, faults>>

\* A new request, one sent again, or another one under a used key.
Send(c, p, j, r) ==
    /\ call[c] = None
    /\ r.expected <= version
    /\ call' = [call EXCEPT ![c] = [proc |-> p, key |-> j, request |-> r, at |-> "read"]]
    /\ UNCHANGED <<accountVars, campaignVars, execution, crashes, faults>>

\* getCampaign.  A campaign that is not at the expected version leads to the
\* proof of an earlier success.
Read(c) == Continue(c, "read", IF call[c].request.expected = version THEN "find" ELSE "prove")

\* Mutant: the receipt is taken without its job's request fingerprint.
Proven_AnyRequest(c) ==
    LET r == receipt[Key(c)]
    IN  r # None /\ r.variant = call[c].request.variant /\ r.expected = call[c].request.expected

\* findCommittedGenerationReceipt, and requireExistingJob.
Proven(c) ==
    LET r == receipt[Key(c)]
    IN  /\ r # None /\ r.variant = call[c].request.variant /\ r.expected = call[c].request.expected
        /\ job[Key(c)] = call[c].request

Prove(c) == Continue(c, "prove", IF Proven(c) THEN "settle" ELSE "failed")

\* authorizeAndCreateJob: the first look for the key's job, the insert, and the
\* second look of a request whose insert lost the race.
Found(c) == IF job[Key(c)] = call[c].request THEN "reserve" ELSE "failed"

Find(c) == Continue(c, "find", IF job[Key(c)] = None THEN "insert" ELSE Found(c))

Insert(c) ==
    \/ /\ At(c, "insert") /\ job[Key(c)] = None
       /\ job' = [job EXCEPT ![Key(c)] = call[c].request]
       /\ Go(c, "reserve")
       /\ UNCHANGED <<accountVars, version, receipt, execution, crashes, faults>>
    \/ job[Key(c)] # None /\ Continue(c, "insert", "join")

Join(c) == Continue(c, "join", Found(c))

-----------------------------------------------------------------------------
(* execute and settleSuccessfulExecution of the billing orchestrator.  An   *)
(* operation on the ledger is done, or answered by its entry, or refused.   *)

Ran(c) == execution[call[c].proc][Key(c)].at

Reserve(c) ==
    /\ At(c, "reserve")
    /\ \/ Hold(Key(c), Price) /\ Go(c, "execute")
       \/ /\ phase[Key(c)] # "none" /\ Go(c, "execute")
          /\ UNCHANGED accountVars
       \/ /\ phase[Key(c)] = "none" /\ Available(JobAccount[Key(c)]) < Price /\ Go(c, "failed")
          /\ UNCHANGED accountVars
    /\ UNCHANGED <<campaignVars, execution, crashes, faults>>

SetExecution(p, j, e) == execution' = [execution EXCEPT ![p][j] = e]

\* executeOnce: the first call starts the operation, the others join it.
Execute(c) ==
    /\ At(c, "execute") /\ Ran(c) = "none"
    /\ SetExecution(call[c].proc, Key(c), [at |-> "generating"])
    /\ UNCHANGED <<accountVars, campaignVars, call, crashes, faults>>

Executed(c) ==
    \/ Ran(c) = "ok" /\ Continue(c, "execute", "debit")
    \/ Ran(c) = "failed" /\ Continue(c, "execute", "release")

\* settleSuccessfulExecution of a process that has not run the job finds the
\* reservation in the ledger.
Settle(c) ==
    LET found == Ran(c) # "none" \/ phase[Key(c)] \in {"held", "debited"}
    IN  Continue(c, "settle", IF found THEN "outcome" ELSE "failed")

Outcome(c) ==
    \/ Ran(c) \in {"none", "ok"} /\ Continue(c, "outcome", "debit")
    \/ Ran(c) = "failed" /\ Continue(c, "outcome", "failed")

Charge(c) ==
    /\ At(c, "debit")
    /\ \/ Debit(Key(c)) /\ Go(c, "done")
       \/ phase[Key(c)] = "debited" /\ Go(c, "done") /\ UNCHANGED accountVars
       \/ phase[Key(c)] \in {"none", "released"} /\ Go(c, "failed") /\ UNCHANGED accountVars
    /\ UNCHANGED <<campaignVars, execution, crashes, faults>>

\* The error of the generation is the answer, released or not.
GiveBack(c) ==
    /\ At(c, "release")
    /\ \/ Release(Key(c))
       \/ phase[Key(c)] # "held" /\ UNCHANGED accountVars
    /\ Go(c, "failed")
    /\ UNCHANGED <<campaignVars, execution, crashes, faults>>

-----------------------------------------------------------------------------
(* The operation: the provider and the validators, then save_revision.      *)

Ended(outcome) == [at |-> outcome]

Generate(p, j) ==
    /\ execution[p][j].at = "generating"
    /\ \/ \E text \in Texts : SetExecution(p, j, [at |-> "saving", text |-> text])
       \/ SetExecution(p, j, Ended("failed"))
    /\ UNCHANGED <<accountVars, campaignVars, call, crashes, faults>>

Intent(p, j) ==
    [variant |-> job[j].variant, expected |-> job[j].expected, text |-> execution[p][j].text]

CommitDraft(p, j) ==
    /\ receipt[j] = None /\ version = job[j].expected
    /\ receipt' = [receipt EXCEPT ![j] = Intent(p, j)]
    /\ version' = version + 1

\* Mutant: a command that finds a newer campaign is taken for a replay.
Save_StaleIsReplay(p, j) ==
    /\ execution[p][j].at = "saving"
    /\ \/ CommitDraft(p, j) /\ SetExecution(p, j, Ended("ok"))
       \/ /\ UNCHANGED <<version, receipt>>
          /\ version # job[j].expected \/ receipt[j] = Intent(p, j)
          /\ SetExecution(p, j, Ended("ok"))
    /\ UNCHANGED <<accountVars, job, call, crashes, faults>>

\* executeCommand, one transaction.  A repeated intent is answered by its
\* receipt; another intent under the key, another version, and what
\* CampaignSpine does not allow are errors.
Save(p, j) ==
    /\ execution[p][j].at = "saving"
    /\ \/ CommitDraft(p, j) /\ SetExecution(p, j, Ended("ok"))
       \/ /\ receipt[j] = Intent(p, j) /\ SetExecution(p, j, Ended("ok"))
          /\ UNCHANGED <<version, receipt>>
       \/ /\ receipt[j] # Intent(p, j) /\ SetExecution(p, j, Ended("failed"))
          /\ UNCHANGED <<version, receipt>>
    /\ UNCHANGED <<accountVars, job, call, crashes, faults>>

\* The statement fails, or its commit is not acknowledged.
SaveFault(p, j) ==
    /\ execution[p][j].at = "saving" /\ faults < MaxFaults
    /\ CommitDraft(p, j) \/ UNCHANGED <<version, receipt>>
    /\ SetExecution(p, j, Ended("failed"))
    /\ faults' = faults + 1
    /\ UNCHANGED <<accountVars, job, call, crashes>>

-----------------------------------------------------------------------------
(* Faults of a call's own statements, crashes, and the owner's other edits. *)

Fault(c) ==
    /\ call[c] # None /\ call[c].at \in Awaiting \ {"execute", "outcome"}
    /\ faults < MaxFaults /\ faults' = faults + 1
    /\ Go(c, "failed")
    /\ \/ UNCHANGED <<accountVars, job>>
       \/ At(c, "reserve") /\ Hold(Key(c), Price) /\ UNCHANGED job
       \/ At(c, "debit") /\ Debit(Key(c)) /\ UNCHANGED job
       \/ /\ At(c, "insert") /\ job[Key(c)] = None
          /\ job' = [job EXCEPT ![Key(c)] = call[c].request]
          /\ UNCHANGED accountVars
    /\ UNCHANGED <<version, receipt, execution, crashes>>

\* The process is replaced: its executions and its requests are gone.
Crash(p) ==
    /\ crashes < MaxCrashes /\ crashes' = crashes + 1
    /\ execution' = [execution EXCEPT ![p] = Idle]
    /\ call' = [c \in Calls |->
                   IF call[c] # None /\ call[c].proc = p /\ call[c].at \in Awaiting
                   THEN [call[c] EXCEPT !.at = "failed"] ELSE call[c]]
    /\ UNCHANGED <<accountVars, campaignVars, faults>>

\* Another command of the owner, under a key of its own.
Edit ==
    /\ version < MaxVersion
    /\ version' = version + 1
    /\ UNCHANGED <<accountVars, receipt, job, execution, call, crashes, faults>>

Resume(c) ==
    /\ call[c] # None
    /\ \/ Read(c) \/ Prove(c) \/ Find(c) \/ Insert(c) \/ Join(c)
       \/ Reserve(c) \/ Execute(c) \/ Executed(c)
       \/ Settle(c) \/ Outcome(c) \/ Charge(c) \/ GiveBack(c)

Operation(p, j) == Generate(p, j) \/ Save(p, j)

Next ==
    \/ \E c \in Calls, p \in Procs, j \in Jobs : \E r \in Request : Send(c, p, j, r)
    \/ \E c \in Calls : Resume(c) \/ Fault(c)
    \/ \E p \in Procs, j \in Jobs : Operation(p, j) \/ SaveFault(p, j)
    \/ \E p \in Procs : Crash(p)
    \/ Edit

Spec == Init /\ [][Next]_vars

-----------------------------------------------------------------------------
(* Properties. *)

SavedAs(j, request) ==
    receipt[j] # None /\ receipt[j].variant = request.variant /\ receipt[j].expected = request.expected

\* A generation is charged only after its draft is committed, for the request
\* its job was created for: no process takes another's failure, conflict or
\* version for a success, and no proof of an old receipt settles another job.
ChargedIsSaved == \A j \in Jobs : phase[j] = "debited" => job[j] # None /\ SavedAs(j, job[j])

\* Whoever is told of success has sent the request that the job was created
\* for, and its draft is saved and charged, on whichever path it came.
DeliveredAsRequested ==
    \A c \in Calls : At(c, "done") =>
        /\ job[Key(c)] = call[c].request
        /\ SavedAs(Key(c), call[c].request)
        /\ phase[Key(c)] = "debited"

=============================================================================
