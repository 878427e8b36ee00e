-------------------------- MODULE ImmediateGeneration --------------------------
(***************************************************************************)
(* Customer images and scripts, generated while their request waits:       *)
(* POST /customer/generate-image and /customer/generate-script in several  *)
(* server processes.  The recorder of the generation job, the two handlers,*)
(* the image service with its records and its provider, the asset store    *)
(* and the billing of the job are here.                                    *)
(*                                                                         *)
(* A job is known by the execution id it was created for.  The records of  *)
(* images live in the memory of each process, by the generation id of the  *)
(* request; an asset is known by the call whose operation stored it.  As   *)
(* in VideoGeneration, a call is answered by the ledger itself.            *)
(***************************************************************************)
EXTENDS CreditAccount, FiniteSets

CONSTANTS
    Procs,         \* server processes
    Calls,         \* HTTP requests; each is sent once
    Generations,   \* generation ids that image requests carry
    Price,         \* [Kinds -> Credits]
    Opening,       \* a set of [Accounts -> Nat]: the credits granted beforehand
    MaxAttempts,   \* maxAttempts of the image provider
    MaxCrashes,    \* bound on process crashes
    MaxFaults      \* bound on failed statements and lost acknowledgements

Kinds == {"image", "script"}

ASSUME PriceAssumption == Price \in [Kinds -> Credits]
ASSUME OpeningAssumption == Opening \subseteq [Accounts -> Nat]
ASSUME BoundsAssumption == MaxAttempts \in 1 .. 3 /\ {MaxCrashes, MaxFaults} \subseteq Nat

VARIABLES
    class,         \* [Jobs -> Kinds \cup {"none"}]: generation_jobs and their execution classes
    record,        \* [Procs -> [Generations -> Record or None]]
    asked,         \* [Procs -> [Jobs -> Nat]]: provider requests of a process since it started
    objects,       \* SUBSET Calls: images in the bucket
    rows,          \* SUBSET Calls: rows of media_assets
    execution,     \* [Procs -> [Jobs -> Execution]]: each process's executionPromise
    call,          \* [Calls -> CallState or None]
    crashes, faults

assetVars == <<objects, rows>>
vars == <<accountVars, class, record, asked, assetVars, execution, call, crashes, faults>>

None == [none |-> TRUE]

\* ImageGenerationRecordSchema: a completed record has its asset.
Record ==
    {r \in [status : {"queued", "processing", "completed", "failed"}, job : Jobs, by : Calls,
            asset : {{}} \cup {{c} : c \in Calls}] :
        r.asset # {} <=> r.status = "completed"}

\* by is the call whose operation runs or ran.
Execution == [at : {"none", "running", "ok", "failed"}, by : {{}} \cup {{c} : c \in Calls}]

Working == {"find", "insert", "reserve", "execute", "create", "resolve", "load", "ask", "store",
            "register", "clean", "complete", "fail", "release", "debit"}
Answers == {"completed", "failed"}

\* got: the asset of a completed image.
CallState == [kind : Kinds, proc : Procs, job : Jobs, gen : Generations, at : Working \cup Answers,
              attempt : 0 .. MaxAttempts, got : SUBSET Calls]

TypeOK ==
    /\ AccountTypeOK
    /\ class \in [Jobs -> Kinds \cup {"none"}]
    /\ record \in [Procs -> [Generations -> Record \cup {None}]]
    /\ asked \in [Procs -> [Jobs -> Nat]]
    /\ objects \subseteq Calls
    /\ rows \subseteq Calls
    /\ execution \in [Procs -> [Jobs -> Execution]]
    /\ call \in [Calls -> CallState \cup {None}]
    /\ crashes \in 0 .. MaxCrashes
    /\ faults \in 0 .. MaxFaults

\* What a process remembers when it starts.
NoRecords == [g \in Generations |-> None]
NotAsked == [j \in Jobs |-> 0]
NotRun == [j \in Jobs |-> [at |-> "none", by |-> {}]]

Init ==
    /\ balance \in Opening
    /\ reserved = [a \in Accounts |-> 0]
    /\ phase = [j \in Jobs |-> "none"]
    /\ held = [j \in Jobs |-> 0]
    /\ class = [j \in Jobs |-> "none"]
    /\ record = [p \in Procs |-> NoRecords]
    /\ asked = [p \in Procs |-> NotAsked]
    /\ objects = {}
    /\ rows = {}
    /\ execution = [p \in Procs |-> NotRun]
    /\ call = [c \in Calls |-> None]
    /\ crashes = 0
    /\ faults = 0

At(c, stage) == call[c].at = stage
Is(c, kind) == call[c].kind = kind
Job(c) == call[c].job
Ran(c) == execution[call[c].proc][Job(c)]
OwnRecord(c) == record[call[c].proc][call[c].gen]

Go(c, stage) == call' = [call EXCEPT ![c].at = stage]

\* A step of one call that changes nothing else.
Continue(c, from, to) ==
    /\ At(c, from)
    /\ Go(c, to)
    /\ UNCHANGED <<accountVars, class, record, asked, assetVars, execution, crashes, faults>>

\* The outcome of the operation c runs.
Finish(c, outcome) ==
    execution' = [execution EXCEPT ![call[c].proc][Job(c)] = [at |-> outcome, by |-> {c}]]

-----------------------------------------------------------------------------
(* The request, and the recorder of its job. *)

Send(c, p, j, kind, g) ==
    /\ call[c] = None
    /\ call' = [call EXCEPT ![c] = [kind |-> kind, proc |-> p, job |-> j, gen |-> g, at |-> "find",
                                    attempt |-> 0, got |-> {}]]
    /\ UNCHANGED <<accountVars, class, record, asked, assetVars, execution, crashes, faults>>

\* requireSameLogicalJob: the job found was created for the same route.
Adopt(c) == IF class[Job(c)] = call[c].kind THEN "reserve" ELSE "failed"

Find(c) == Continue(c, "find", IF class[Job(c)] = "none" THEN "insert" ELSE Adopt(c))

\* The unique index decides between two inserts; the loser adopts the winner's job.
Insert(c) ==
    \/ /\ At(c, "insert") /\ class[Job(c)] = "none"
       /\ class' = [class EXCEPT ![Job(c)] = call[c].kind]
       /\ Go(c, "reserve")
       /\ UNCHANGED <<accountVars, record, asked, assetVars, execution, crashes, faults>>
    \/ class[Job(c)] # "none" /\ Continue(c, "insert", Adopt(c))

-----------------------------------------------------------------------------
(* execute of the orchestrator, around the operation. *)

JobPrice(j) == Price[class[j]]

Reserve(c) ==
    /\ At(c, "reserve")
    /\ \/ Hold(Job(c), JobPrice(Job(c))) /\ Go(c, "execute")
       \/ /\ phase[Job(c)] # "none" /\ Go(c, "execute")
          /\ UNCHANGED accountVars
       \/ /\ phase[Job(c)] = "none" /\ Available(JobAccount[Job(c)]) < JobPrice(Job(c))
          /\ Go(c, "failed")
          /\ UNCHANGED accountVars
    /\ UNCHANGED <<class, record, asked, assetVars, execution, crashes, faults>>

\* executeOnce: the first call runs the operation, the others await it.
Execute(c) ==
    /\ At(c, "execute") /\ Ran(c).at = "none"
    /\ Finish(c, "running")
    /\ Go(c, IF Is(c, "image") THEN "create" ELSE "resolve")
    /\ UNCHANGED <<accountVars, class, record, asked, assetVars, crashes, faults>>

Executed(c) ==
    \/ Ran(c).at = "ok" /\ Continue(c, "execute", "debit")
    \/ Ran(c).at = "failed" /\ Continue(c, "execute", "release")

\* The error of the operation is the answer, released or not.
GiveBack(c) ==
    /\ At(c, "release")
    /\ \/ Release(Job(c))
       \/ phase[Job(c)] # "held" /\ UNCHANGED accountVars
    /\ Go(c, "failed")
    /\ UNCHANGED <<class, record, asked, assetVars, execution, crashes, faults>>

\* The answers of the two handlers: the asset of the completed record, the text.
DeliverImage(c) == Is(c, "image") /\ call' = [call EXCEPT ![c].at = "completed", ![c].got = Ran(c).by]
DeliverScript(c) == Is(c, "script") /\ Go(c, "completed")
Deliver(c) == DeliverImage(c) \/ DeliverScript(c)

Charge(c) ==
    /\ At(c, "debit")
    /\ \/ Debit(Job(c)) /\ Deliver(c)
       \/ phase[Job(c)] = "debited" /\ Deliver(c) /\ UNCHANGED accountVars
       \/ phase[Job(c)] \in {"none", "released"} /\ Go(c, "failed") /\ UNCHANGED accountVars
    /\ UNCHANGED <<class, record, asked, assetVars, execution, crashes, faults>>

-----------------------------------------------------------------------------
(* The operation of a script: the brand context, one request, a check. *)

Responses == [finish : {"STOP", "MAX_TOKENS", "SAFETY"}, text : {"none", "sections missing", "whole"}]

incompleteReason(response) ==
    CASE response.finish = "MAX_TOKENS" -> "TOKEN_EXHAUSTION"
      [] response.finish # "MAX_TOKENS" /\ response.text = "none" -> "EMPTY_OUTPUT"
      [] response.finish = "SAFETY" /\ response.text # "none" -> "PROVIDER_STOP"
      [] response.finish = "STOP" /\ response.text = "sections missing" -> "MISSING_SECTIONS"
      [] OTHER -> "none"

Asked(c) == asked' = [asked EXCEPT ![call[c].proc][Job(c)] = @ + 1]

ResolveScript(c) == Is(c, "script") /\ \E to \in {"ask", "fail"} : Continue(c, "resolve", to)

\* Mutant: an incomplete script is asked for again.
Write_Retries(c) ==
    /\ Is(c, "script") /\ At(c, "ask")
    /\ Asked(c)
    /\ \E response \in Responses :
          IF incompleteReason(response) = "none" THEN Finish(c, "ok") /\ Go(c, "execute")
          ELSE UNCHANGED <<execution, call>>
    /\ UNCHANGED <<accountVars, class, record, assetVars, crashes, faults>>

\* The script of a response without a reason; no response is a failure too.
Write(c) ==
    /\ Is(c, "script") /\ At(c, "ask")
    /\ Asked(c)
    /\ \/ \E response \in Responses :
             Finish(c, IF incompleteReason(response) = "none" THEN "ok" ELSE "failed")
       \/ Finish(c, "failed")
    /\ Go(c, "execute")
    /\ UNCHANGED <<accountVars, class, record, assetVars, crashes, faults>>

-----------------------------------------------------------------------------
(* The operation of an image. *)

SetRecord(c, r) == record' = [record EXCEPT ![call[c].proc][call[c].gen] = r]

NewRecord(c) == [status |-> "queued", job |-> Job(c), by |-> c, asset |-> {}]

\* Mutant: create is inside the try block, whose handler fails the record.
Create_InsideTry(c) ==
    /\ At(c, "create")
    /\ \/ OwnRecord(c) = None /\ SetRecord(c, NewRecord(c)) /\ Go(c, "resolve")
       \/ OwnRecord(c) # None /\ Go(c, "fail") /\ UNCHANGED record
    /\ UNCHANGED <<accountVars, class, asked, assetVars, execution, crashes, faults>>

\* create: a second record of a generation id is a conflict, which fails the
\* operation before its try block.
Create(c) ==
    /\ At(c, "create")
    /\ \/ /\ OwnRecord(c) = None
          /\ SetRecord(c, NewRecord(c))
          /\ Go(c, "resolve")
          /\ UNCHANGED execution
       \/ /\ OwnRecord(c) # None
          /\ Finish(c, "failed") /\ Go(c, "execute")
          /\ UNCHANGED record
    /\ UNCHANGED <<accountVars, class, asked, assetVars, crashes, faults>>

\* The brand context, which may be unavailable, and the prompt.
ResolveImage(c) ==
    /\ Is(c, "image") /\ At(c, "resolve")
    /\ \/ SetRecord(c, [OwnRecord(c) EXCEPT !.status = "processing"]) /\ Go(c, "load")
       \/ UNCHANGED record /\ Go(c, "fail")
    /\ UNCHANGED <<accountVars, class, asked, assetVars, execution, crashes, faults>>

LoadReferences(c) == \E to \in {"ask", "fail"} : Continue(c, "load", to)

\* isTransientStatus, or no status at all.
Transient == {"timeout", "network failure", "429", "5xx"}
\* Another status, or a response without a usable image.
Unusable == {"4xx", "no image"}

\* request: a transient failure is repeated up to maxAttempts, any other answer
\* is the last.
After(answer, attempt) ==
    CASE answer = "image" -> "store"
      [] answer \in Unusable -> "fail"
      [] answer \in Transient -> IF attempt < MaxAttempts THEN "ask" ELSE "fail"

Request(c) ==
    /\ Is(c, "image") /\ At(c, "ask")
    /\ Asked(c)
    /\ \E answer \in Transient \cup Unusable \cup {"image"} :
          call' = [call EXCEPT ![c].attempt = @ + 1, ![c].at = After(answer, call[c].attempt + 1)]
    /\ UNCHANGED <<accountVars, class, record, assetVars, execution, crashes, faults>>

\* putObject; a failure may leave the object.
PutObject(c) ==
    /\ At(c, "store")
    /\ \/ objects' = objects \cup {c} /\ Go(c, "register")
       \/ objects' \in {objects, objects \cup {c}} /\ Go(c, "fail")
    /\ UNCHANGED <<accountVars, class, record, asked, rows, execution, crashes, faults>>

\* The row of the asset; when it fails the object is deleted, if the bucket
\* answers.
Register(c) ==
    /\ At(c, "register")
    /\ rows' = rows \cup {c}
    /\ Go(c, "complete")
    /\ UNCHANGED <<accountVars, class, record, asked, objects, execution, crashes, faults>>

Clean(c) ==
    /\ At(c, "clean")
    /\ objects' \in {objects, objects \ {c}}
    /\ Go(c, "fail")
    /\ UNCHANGED <<accountVars, class, record, asked, rows, execution, crashes, faults>>

Complete(c) ==
    /\ At(c, "complete")
    /\ SetRecord(c, [OwnRecord(c) EXCEPT !.status = "completed", !.asset = {c}])
    /\ Finish(c, "ok") /\ Go(c, "execute")
    /\ UNCHANGED <<accountVars, class, asked, assetVars, crashes, faults>>

\* markFailed, which leaves a record that has ended; then the error.
Fail(c) ==
    /\ At(c, "fail")
    /\ IF Is(c, "image") /\ OwnRecord(c).status \in {"queued", "processing"}
       THEN SetRecord(c, [OwnRecord(c) EXCEPT !.status = "failed"])
       ELSE UNCHANGED record
    /\ Finish(c, "failed") /\ Go(c, "execute")
    /\ UNCHANGED <<accountVars, class, asked, assetVars, crashes, faults>>

-----------------------------------------------------------------------------
(* Faults and crashes. *)

\* Mutant: the answer to the insert is not waited for.
RegisterFault_Unseen(c) ==
    /\ At(c, "register")
    /\ rows' \in {rows, rows \cup {c}}
    /\ Go(c, "complete")
    /\ UNCHANGED <<accountVars, class>>

\* A statement fails, or its commit is not acknowledged.
RegisterFault(c) ==
    /\ At(c, "register")
    /\ rows' \in {rows, rows \cup {c}}
    /\ Go(c, "clean")
    /\ UNCHANGED <<accountVars, class>>

JobFault(c) ==
    /\ \/ At(c, "find") /\ UNCHANGED class
       \/ At(c, "insert") /\ class[Job(c)] = "none" /\ class' \in {class, [class EXCEPT ![Job(c)] = call[c].kind]}
    /\ Go(c, "failed")
    /\ UNCHANGED <<accountVars, rows>>

LedgerFault(c) ==
    /\ \/ At(c, "reserve") /\ (Hold(Job(c), JobPrice(Job(c))) \/ UNCHANGED accountVars)
       \/ At(c, "release") /\ (Release(Job(c)) \/ UNCHANGED accountVars)
       \/ At(c, "debit") /\ (Debit(Job(c)) \/ UNCHANGED accountVars)
    /\ Go(c, "failed")
    /\ UNCHANGED <<class, rows>>

Fault(c) ==
    /\ faults < MaxFaults /\ faults' = faults + 1
    /\ RegisterFault(c) \/ JobFault(c) \/ LedgerFault(c)
    /\ UNCHANGED <<record, asked, objects, execution, crashes>>

\* A process loses its records and its executions with its calls.
Crash(p) ==
    /\ crashes < MaxCrashes /\ crashes' = crashes + 1
    /\ record' = [record EXCEPT ![p] = NoRecords]
    /\ asked' = [asked EXCEPT ![p] = NotAsked]
    /\ execution' = [execution EXCEPT ![p] = NotRun]
    /\ call' = [c \in Calls |->
                   IF call[c] # None /\ call[c].proc = p /\ call[c].at \in Working
                   THEN [call[c] EXCEPT !.at = "failed", !.attempt = 0] ELSE call[c]]
    /\ UNCHANGED <<accountVars, class, assetVars, faults>>

Resume(c) ==
    \/ Find(c) \/ Insert(c) \/ Reserve(c) \/ Execute(c) \/ Executed(c) \/ GiveBack(c) \/ Charge(c)
    \/ Create(c) \/ ResolveImage(c) \/ ResolveScript(c) \/ LoadReferences(c) \/ Request(c) \/ Write(c)
    \/ PutObject(c) \/ Register(c) \/ Clean(c) \/ Complete(c) \/ Fail(c)

Next ==
    \/ \E c \in Calls, p \in Procs, j \in Jobs, kind \in Kinds, g \in Generations : Send(c, p, j, kind, g)
    \/ \E c \in Calls : call[c] # None /\ (Resume(c) \/ Fault(c))
    \/ \E p \in Procs : Crash(p)

Spec == Init /\ [][Next]_vars

-----------------------------------------------------------------------------
(* Properties. *)

\* Who is handed an image or a script asked for that kind of job and has been
\* charged its price; the image is one that an operation of the same job stored
\* and registered.  Of every image that is charged there is such an asset,
\* whatever failed, crashed or was tried again before.
DeliveredIsCharged ==
    /\ \A c \in Calls : call[c] # None /\ At(c, "completed") =>
          /\ phase[Job(c)] = "debited" /\ held[Job(c)] = Price[call[c].kind]
          /\ Is(c, "image") =>
                /\ call[c].got # {} /\ call[c].got \subseteq rows \cap objects
                /\ \A d \in call[c].got : Job(d) = Job(c)
    /\ \A j \in Jobs : phase[j] = "debited" /\ class[j] = "image" =>
          \E c \in rows \cap objects : Job(c) = j

\* The record of an image tells the outcome of the operation that created it,
\* and no request with the same generation id, in whatever job, changes it.
RecordsAreOwn ==
    \A p \in Procs, g \in Generations : record[p][g] # None =>
        LET r == record[p][g]
            outcome == CASE r.status \in {"queued", "processing"} -> "running"
                         [] r.status = "completed" -> "ok"
                         [] r.status = "failed" -> "failed"
        IN  /\ execution[p][r.job] = [at |-> outcome, by |-> {r.by}]
            /\ r.asset \subseteq {r.by}

\* A running process asks its provider for a job at most maxAttempts times for
\* an image and once for a script, however often the request is repeated and
\* whatever it has failed of.
AskedWithinAttempts ==
    \A p \in Procs, j \in Jobs : asked[p][j] <= IF class[j] = "image" THEN MaxAttempts ELSE 1

=============================================================================
