---------------------------- MODULE VideoGeneration ----------------------------
(***************************************************************************)
(* Customer videos: POST /generate-video submits one, polls and reads move *)
(* it on, in several server processes.  The router, the video service, its *)
(* repository, the asset store and the billing of a video job are here; a  *)
(* video is known by its generation job.                                   *)
(*                                                                         *)
(* update of the repository reads the record and then writes it if its     *)
(* status is still the one read; seen is what the call has read.  An asset *)
(* is known by the call that stored it.  As in CampaignGeneration, a call  *)
(* is answered by the ledger (the variables of CreditAccount) itself.      *)
(***************************************************************************)
EXTENDS CreditAccount, FiniteSets

CONSTANTS
    Procs,         \* server processes
    Calls,         \* HTTP requests; each is sent once
    Price,         \* Credits: the price of a video
    Opening,       \* a set of [Accounts -> Nat]: the credits granted beforehand
    MaxCrashes,    \* bound on process crashes
    MaxFaults      \* bound on failed statements and lost acknowledgements

ASSUME PriceAssumption == Price \in Credits
ASSUME OpeningAssumption == Opening \subseteq [Accounts -> Nat]
ASSUME BoundsAssumption == {MaxCrashes, MaxFaults} \subseteq Nat

VARIABLES
    record,        \* [Jobs -> Record or None]: video_generations
    accepted,      \* [Jobs -> Nat]: operations the provider has accepted
    operation,     \* [Jobs -> {"running", "done", "error"}]: the stored operation
    objects,       \* SUBSET Calls: assets copied to the bucket
    rows,          \* SUBSET Calls: rows of media_assets
    execution,     \* [Procs -> [Jobs -> Execution]]: each process's executionPromise
    call,          \* [Calls -> CallState or None]
    crashes, faults

assetVars == <<objects, rows>>
providerVars == <<accepted, operation>>
vars == <<accountVars, record, providerVars, assetVars, execution, call, crashes, faults>>

None == [none |-> TRUE]

Statuses == {"queued", "submitted", "processing", "completed", "failed"}
Terminal == {"completed", "failed"}

\* The shape of a record that VideoGenerationRecordSchema refines.
Record ==
    {r \in [status : Statuses, operation : BOOLEAN, asset : {{}} \cup {{c} : c \in Calls}] :
        /\ r.status \in {"submitted", "processing", "completed"} => r.operation
        /\ r.status = "queued" => ~r.operation
        /\ r.asset # {} <=> r.status = "completed"}

Execution == {"none", "running", "ok", "failed"}

Updates == {"store", "progress", "note", "fail", "complete"}
Working == Updates \cup {"reserve", "execute", "create", "resolve", "submit", "release", "get",
                         "ask", "copy", "insert", "clean", "settle", "outcome", "debit", "check"}
Answers == {"accepted", "pending", "completed", "failed"}

CallState == [kind : {"post", "poll", "read"}, proc : Procs, job : Jobs,
              at : Working \cup Answers, seen : Statuses \cup {"unread"}]

TypeOK ==
    /\ AccountTypeOK
    /\ record \in [Jobs -> Record \cup {None}]
    /\ accepted \in [Jobs -> Nat]
    /\ operation \in [Jobs -> {"running", "done", "error"}]
    /\ objects \subseteq Calls
    /\ rows \subseteq Calls
    /\ execution \in [Procs -> [Jobs -> Execution]]
    /\ call \in [Calls -> CallState \cup {None}]
    /\ crashes \in 0 .. MaxCrashes
    /\ faults \in 0 .. MaxFaults

Idle == [j \in Jobs |-> "none"]

Init ==
    /\ balance \in Opening
    /\ reserved = [a \in Accounts |-> 0]
    /\ phase = [j \in Jobs |-> "none"]
    /\ held = [j \in Jobs |-> 0]
    /\ record = [j \in Jobs |-> None]
    /\ accepted = [j \in Jobs |-> 0]
    /\ operation = [j \in Jobs |-> "running"]
    /\ objects = {}
    /\ rows = {}
    /\ execution = [p \in Procs |-> Idle]
    /\ call = [c \in Calls |-> None]
    /\ crashes = 0
    /\ faults = 0

At(c, stage) == call[c].at = stage
Is(c, kind) == call[c].kind = kind
Job(c) == call[c].job
Status(c) == record[Job(c)].status
Ran(c) == execution[call[c].proc][Job(c)]

Go(c, stage) == call' = [call EXCEPT ![c].at = stage]

\* A step of one call that changes nothing else.
Continue(c, from, to) ==
    /\ At(c, from)
    /\ Go(c, to)
    /\ UNCHANGED <<accountVars, record, providerVars, assetVars, execution, crashes, faults>>

Finish(c, outcome) == execution' = [execution EXCEPT ![call[c].proc][Job(c)] = outcome]

-----------------------------------------------------------------------------
(* The requests.  A submission may be sent again; a status request is       *)
(* authorized by the record.                                                *)

Send(c, p, j, kind) ==
    /\ call[c] = None
    /\ kind # "post" => record[j] # None
    /\ call' = [call EXCEPT ![c] = [kind |-> kind, proc |-> p, job |-> j, seen |-> "unread",
                                    at |-> IF kind = "post" THEN "reserve" ELSE "get"]]
    /\ UNCHANGED <<accountVars, record, providerVars, assetVars, execution, crashes, faults>>

-----------------------------------------------------------------------------
(* beginExecution around submit. *)

Reserve(c) ==
    /\ At(c, "reserve")
    /\ \/ Hold(Job(c), Price) /\ Go(c, "execute")
       \/ /\ phase[Job(c)] # "none" /\ Go(c, "execute")
          /\ UNCHANGED accountVars
       \/ /\ phase[Job(c)] = "none" /\ Available(JobAccount[Job(c)]) < Price /\ Go(c, "failed")
          /\ UNCHANGED accountVars
    /\ UNCHANGED <<record, providerVars, assetVars, execution, crashes, faults>>

\* executeOnce: the first call runs the operation, the others await it.
Execute(c) ==
    /\ At(c, "execute") /\ Ran(c) = "none"
    /\ Finish(c, "running")
    /\ Go(c, "create")
    /\ UNCHANGED <<accountVars, record, providerVars, assetVars, crashes, faults>>

Executed(c) ==
    \/ Ran(c) = "ok" /\ Continue(c, "execute", "accepted")
    \/ Ran(c) = "failed" /\ Continue(c, "execute", "release")

NewRecord == [status |-> "queued", operation |-> FALSE, asset |-> {}]

\* Mutant: a record that exists is put back into the queue.
Create_Upserts(c) ==
    /\ At(c, "create")
    /\ record' = [record EXCEPT ![Job(c)] = NewRecord]
    /\ Go(c, "resolve")
    /\ UNCHANGED <<accountVars, providerVars, assetVars, execution, crashes, faults>>

\* create: a second record is a conflict, which fails the operation before
\* its try block.
Create(c) ==
    /\ At(c, "create")
    /\ \/ /\ record[Job(c)] = None
          /\ record' = [record EXCEPT ![Job(c)] = NewRecord]
          /\ Go(c, "resolve")
          /\ UNCHANGED execution
       \/ /\ record[Job(c)] # None
          /\ Finish(c, "failed") /\ Go(c, "execute")
          /\ UNCHANGED record
    /\ UNCHANGED <<accountVars, providerVars, assetVars, crashes, faults>>

\* The brand context and the reference assets, which may be unavailable.
Resolve(c) == \E to \in {"submit", "fail"} : Continue(c, "resolve", to)

\* External: the provider accepts, rejects, or accepts without an answer.
Submit(c) ==
    /\ At(c, "submit")
    /\ \E accepts \in BOOLEAN, to \in {"store", "fail"} :
          /\ to = "store" => accepts
          /\ accepted' = [accepted EXCEPT ![Job(c)] = @ + IF accepts THEN 1 ELSE 0]
          /\ Go(c, to)
    /\ UNCHANGED <<accountVars, record, operation, assetVars, execution, crashes, faults>>

\* The error of the submission is the answer, released or not.
GiveBack(c) ==
    /\ At(c, "release")
    /\ \/ Release(Job(c))
       \/ phase[Job(c)] # "held" /\ UNCHANGED accountVars
    /\ Go(c, "failed")
    /\ UNCHANGED <<record, providerVars, assetVars, execution, crashes, faults>>

-----------------------------------------------------------------------------
(* update of the repository, in the five places where the service calls it. *)

Target(c) ==
    CASE At(c, "store") -> "submitted"
      [] At(c, "progress") -> "processing"
      [] At(c, "note") -> call[c].seen
      [] At(c, "fail") -> "failed"
      [] At(c, "complete") -> "completed"

\* ALLOWED_STATE_TRANSITIONS.
Allowed(from, to) ==
    \/ from = to
    \/ to = "failed" /\ from \notin Terminal
    \/ <<from, to>> \in {<<"queued", "submitted">>, <<"submitted", "processing">>,
                         <<"processing", "completed">>}

Updated(c) ==
    [record[Job(c)] EXCEPT !.status = Target(c),
                           !.operation = @ \/ At(c, "store"),
                           !.asset = IF At(c, "complete") THEN {c} ELSE @]

UpdateRead(c) ==
    /\ call[c].at \in Updates /\ call[c].seen = "unread"
    /\ call' = [call EXCEPT ![c].seen = Status(c)]
    /\ UNCHANGED <<accountVars, record, providerVars, assetVars, execution, crashes, faults>>

Step(c, stage) == call' = [call EXCEPT ![c].at = stage, ![c].seen = "unread"]

\* How a poll goes on with the record it has read or written.
Answer(status) ==
    CASE status = "completed" -> "settle"
      [] status = "failed" -> "failed"
      [] OTHER -> "pending"

\* Where the call goes on.  markFailed swallows its own error.
UpdateSucceeds(c) ==
    \/ At(c, "store") /\ Finish(c, "ok") /\ Step(c, "execute")
    \/ At(c, "progress") /\ Step(c, "ask") /\ UNCHANGED execution
    \/ At(c, "note") /\ Step(c, Answer(call[c].seen)) /\ UNCHANGED execution
    \/ At(c, "complete") /\ Step(c, "settle") /\ UNCHANGED execution
    \/ At(c, "fail") /\ Is(c, "post") /\ Finish(c, "failed") /\ Step(c, "execute")
    \/ At(c, "fail") /\ Is(c, "poll") /\ Step(c, "check") /\ UNCHANGED execution

UpdateFails(c) ==
    \/ At(c, "store") /\ Step(c, "fail") /\ UNCHANGED execution
    \/ call[c].at \in {"progress", "note", "complete"} /\ Step(c, "check") /\ UNCHANGED execution
    \/ At(c, "fail") /\ UpdateSucceeds(c)

\* Mutant: the row is updated whatever its status has become.
Writable_NoCompare(c) == Allowed(call[c].seen, Target(c))

Writable(c) == Allowed(call[c].seen, Target(c)) /\ Status(c) = call[c].seen

Write(c) == record' = [record EXCEPT ![Job(c)] = Updated(c)]

UpdateWrite(c) ==
    /\ call[c].at \in Updates /\ call[c].seen # "unread"
    /\ \/ Writable(c) /\ Write(c) /\ UpdateSucceeds(c)
       \/ ~Writable(c) /\ UNCHANGED record /\ UpdateFails(c)
    /\ UNCHANGED <<accountVars, providerVars, assetVars, crashes, faults>>

-----------------------------------------------------------------------------
(* poll and get. *)

\* A poll goes on with the operation of a video that has not ended.
GetPoll(c) ==
    LET going == Status(c) \notin Terminal
    IN  /\ Is(c, "poll")
        /\ Continue(c, "get",
               IF ~going THEN Answer(Status(c))
               ELSE IF ~record[Job(c)].operation THEN "check"
               ELSE IF Status(c) = "submitted" THEN "progress" ELSE "ask")

\* A read settles or releases what has ended.
GetRead(c) ==
    /\ Is(c, "read")
    /\ Continue(c, "get", IF Status(c) = "failed" THEN "release" ELSE Answer(Status(c)))

\* The provider's answer, or none.
Ask(c) ==
    \/ operation[Job(c)] = "running" /\ Continue(c, "ask", "note")
    \/ operation[Job(c)] = "error" /\ Continue(c, "ask", "fail")
    \/ operation[Job(c)] = "done" /\ Continue(c, "ask", "copy")
    \/ Continue(c, "ask", "check")

\* save of the asset store: the object, then its row, under a new id.  When the
\* row fails the object is deleted, if the bucket answers.
Copy(c) ==
    \/ /\ At(c, "copy")
       /\ objects' = objects \cup {c}
       /\ Go(c, "insert")
       /\ UNCHANGED <<accountVars, record, providerVars, rows, execution, crashes, faults>>
    \/ Continue(c, "copy", "check")

InsertRow(c) ==
    /\ At(c, "insert")
    /\ rows' = rows \cup {c}
    /\ Go(c, "complete")
    /\ UNCHANGED <<accountVars, record, providerVars, objects, execution, crashes, faults>>

Clean(c) ==
    /\ At(c, "clean")
    /\ objects' \in {objects, objects \ {c}}
    /\ Go(c, "check")
    /\ UNCHANGED <<accountVars, record, providerVars, rows, execution, crashes, faults>>

\* settleSuccessfulExecution: a process that has not run the job finds its
\* reservation in the ledger.
Settle(c) ==
    LET found == Ran(c) # "none" \/ phase[Job(c)] \in {"held", "debited"}
    IN  Continue(c, "settle", IF found THEN "outcome" ELSE "check")

Outcome(c) ==
    \/ Ran(c) \in {"none", "ok"} /\ Continue(c, "outcome", "debit")
    \/ Ran(c) = "failed" /\ Continue(c, "outcome", "check")

\* Mutant: the video is handed over whether or not it could be charged.
Charge_Unchecked(c) ==
    /\ At(c, "debit")
    /\ \/ Debit(Job(c))
       \/ phase[Job(c)] # "held" /\ UNCHANGED accountVars
    /\ Go(c, "completed")
    /\ UNCHANGED <<record, providerVars, assetVars, execution, crashes, faults>>

Charge(c) ==
    /\ At(c, "debit")
    /\ \/ Debit(Job(c)) /\ Go(c, "completed")
       \/ phase[Job(c)] = "debited" /\ Go(c, "completed") /\ UNCHANGED accountVars
       \/ phase[Job(c)] \in {"none", "released"} /\ Go(c, "check") /\ UNCHANGED accountVars
    /\ UNCHANGED <<record, providerVars, assetVars, execution, crashes, faults>>

\* The error path of a request: a poll releases the hold of a failed video.
Check(c) ==
    Continue(c, "check", IF Is(c, "poll") /\ Status(c) = "failed" THEN "release" ELSE "failed")

-----------------------------------------------------------------------------
(* The provider, faults and crashes. *)

\* External: the accepted operation ends.
EndOperation(j) ==
    /\ accepted[j] > 0 /\ operation[j] = "running"
    /\ \E end \in {"done", "error"} : operation' = [operation EXCEPT ![j] = end]
    /\ UNCHANGED <<accountVars, record, accepted, assetVars, execution, call, crashes, faults>>

\* A statement fails, or its commit is not acknowledged.
UpdateFault(c) ==
    /\ call[c].at \in Updates /\ call[c].seen # "unread"
    /\ (Writable(c) /\ Write(c)) \/ UNCHANGED record
    /\ UpdateFails(c)
    /\ UNCHANGED <<accountVars, assetVars>>

InsertFault(c) ==
    /\ At(c, "insert")
    /\ rows' \in {rows, rows \cup {c}}
    /\ Go(c, "clean")
    /\ UNCHANGED <<accountVars, record, objects, execution>>

LedgerFault(c) ==
    /\ \/ At(c, "reserve") /\ (Hold(Job(c), Price) \/ UNCHANGED accountVars) /\ Go(c, "failed")
       \/ At(c, "release") /\ UNCHANGED accountVars /\ Go(c, "failed")
       \/ At(c, "settle") /\ UNCHANGED accountVars /\ Go(c, "check")
       \/ At(c, "debit") /\ (Debit(Job(c)) \/ UNCHANGED accountVars) /\ Go(c, "check")
    /\ UNCHANGED <<record, assetVars, execution>>

CreateFault(c) ==
    /\ At(c, "create")
    /\ \/ record[Job(c)] = None /\ record' = [record EXCEPT ![Job(c)] = NewRecord]
       \/ UNCHANGED record
    /\ Finish(c, "failed") /\ Go(c, "execute")
    /\ UNCHANGED <<accountVars, assetVars>>

Fault(c) ==
    /\ faults < MaxFaults /\ faults' = faults + 1
    /\ UpdateFault(c) \/ InsertFault(c) \/ LedgerFault(c) \/ CreateFault(c)
    /\ UNCHANGED <<providerVars, crashes>>

Crash(p) ==
    /\ crashes < MaxCrashes /\ crashes' = crashes + 1
    /\ execution' = [execution EXCEPT ![p] = Idle]
    /\ call' = [c \in Calls |->
                   IF call[c] # None /\ call[c].proc = p /\ call[c].at \in Working
                   THEN [call[c] EXCEPT !.at = "failed", !.seen = "unread"] ELSE call[c]]
    /\ UNCHANGED <<accountVars, record, providerVars, assetVars, faults>>

Resume(c) ==
    /\ call[c] # None
    /\ \/ Reserve(c) \/ Execute(c) \/ Executed(c) \/ Create(c) \/ Resolve(c) \/ Submit(c)
       \/ UpdateRead(c) \/ UpdateWrite(c) \/ GiveBack(c)
       \/ GetPoll(c) \/ GetRead(c) \/ Ask(c) \/ Copy(c) \/ InsertRow(c) \/ Clean(c)
       \/ Settle(c) \/ Outcome(c) \/ Charge(c) \/ Check(c)

Next ==
    \/ \E c \in Calls, p \in Procs, j \in Jobs : \E kind \in {"post", "poll", "read"} : Send(c, p, j, kind)
    \/ \E c \in Calls : Resume(c) \/ (call[c] # None /\ Fault(c))
    \/ \E j \in Jobs : EndOperation(j)
    \/ \E p \in Procs : Crash(p)

Spec == Init /\ [][Next]_vars

-----------------------------------------------------------------------------
(* Properties. *)

\* The provider accepts at most one operation per video, however often the
\* submission is sent, to whichever process, before or after a crash.
SubmittedOnce == \A j \in Jobs : accepted[j] <= 1

\* A video that has ended keeps its status, and the operation of a video is
\* never forgotten, though the calls of several processes race to store what
\* they read.
EndedIsFinal ==
    [][\A j \in Jobs : record[j] # None =>
          /\ record'[j] # None
          /\ record[j].status \in Terminal => record'[j].status = record[j].status
          /\ record[j].operation => record'[j].operation]_vars

\* Who is handed a completed video has been charged for it, and a charged
\* video is complete, with an asset that is stored and registered.
DeliveredIsCharged ==
    /\ \A c \in Calls : call[c] # None /\ At(c, "completed") => phase[Job(c)] = "debited"
    /\ \A j \in Jobs : phase[j] = "debited" =>
          record[j] # None /\ record[j].status = "completed" /\ record[j].asset \subseteq rows \cap objects

\* What GENERATION_CREDIT_ACCOUNTING.md says of a video's hold: it is released
\* after a terminal failure.
ReleasedHasFailed ==
    \A j \in Jobs :
        phase[j] = "released" /\ record[j] # None => record[j].status \notin {"submitted", "processing", "completed"}

=============================================================================
