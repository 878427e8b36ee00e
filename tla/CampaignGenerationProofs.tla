----------------------- MODULE CampaignGenerationProofs -----------------------
(* A campaign generation is charged for a committed draft and delivered only  *)
(* for the request of its job, for every number of processes, requests, keys, *)
(* versions, crashes and faults.                                              *)
EXTENDS CampaignGeneration, TLAPS

\* A committed draft is the draft of its job.
ReceiptOfJob == \A j \in Jobs : receipt[j] # None => job[j] # None /\ SavedAs(j, job[j])

\* A process runs only jobs that were created.
ExecutionOfJob == \A p \in Procs, j \in Jobs : execution[p][j].at # "none" => job[j] # None

\* A process that remembers success has a committed draft behind it.
OkIsSaved == \A p \in Procs, j \in Jobs : execution[p][j].at = "ok" => receipt[j] # None

\* The stages of a call whose request is its job's, and of a call that has
\* its draft.
Bound == {"reserve", "execute", "settle", "outcome", "debit", "release", "done"}
Saved == {"settle", "outcome", "debit", "done"}

CallBound == \A c \in Calls : call[c] # None /\ call[c].at \in Bound => job[Key(c)] = call[c].request
CallSaved == \A c \in Calls : call[c] # None /\ call[c].at \in Saved => receipt[Key(c)] # None

DebitedIsSaved == \A j \in Jobs : phase[j] = "debited" => receipt[j] # None
DoneIsDebited == \A c \in Calls : At(c, "done") => phase[Key(c)] = "debited"

JobsOK == ReceiptOfJob /\ ExecutionOfJob /\ OkIsSaved /\ DebitedIsSaved
CallsOK == CallBound /\ CallSaved /\ DoneIsDebited

IInv == TypeOK /\ JobsOK /\ CallsOK

-----------------------------------------------------------------------------
\* What is stored under a key is never taken for its absence.
LEMMA NoneIsDistinct == None \notin Request /\ None \notin Receipt /\ None \notin CallState
<1>1. "none" \in DOMAIN None
  BY DEF None
<1> QED  BY <1>1 DEF Request, Receipt, CallState

\* Nobody has called, generated or saved anything yet.
LEMMA InitTyped == Init => TypeOK
<1> SUFFICES ASSUME Init PROVE TypeOK
  OBVIOUS
<1>1. AccountTypeOK
  <2>1. balance \in [Accounts -> Nat]
    BY OpeningAssumption DEF Init
  <2> QED  BY <2>1 DEF Init, AccountTypeOK, Phases
<1>2. execution \in [Procs -> [Jobs -> Execution]]
  BY DEF Init, Idle, Execution
<1> QED  BY <1>1, <1>2, BoundsAssumption DEF Init, TypeOK

\* A ledger operation keeps the ledger's types.
LEMMA AccountStepTyped ==
    ASSUME AccountTypeOK, NEW j \in Jobs, Hold(j, Price) \/ Release(j) \/ Debit(j)
    PROVE  AccountTypeOK'
<1> USE JobAccountAssumption, CreditsAssumption, PriceAssumption DEF AccountTypeOK, Phases
<1>1. held[j] \in Nat
  <2>1. held[j] \in Credits \/ held[j] = 0
    BY DEF AccountTypeOK
  <2>2. CASE held[j] \in Credits
    BY <2>2, CreditsAssumption
  <2>3. CASE held[j] = 0
    BY <2>3
  <2> QED  BY <2>1, <2>2, <2>3
<1>2. CASE Hold(j, Price)
  BY <1>2 DEF Hold
<1>3. CASE Release(j) \/ Debit(j)
  BY <1>1, <1>3 DEF Release, Debit
<1> QED  BY <1>2, <1>3

\* A call that goes on keeps its process, key and request.
LEMMA GoTyped ==
    ASSUME TypeOK, NEW c \in Calls, call[c] # None,
           NEW stage \in Awaiting \cup {"done", "failed"}, Go(c, stage)
    PROVE  call' \in [Calls -> CallState \cup {None}]
<1>1. call[c] \in CallState
  BY DEF TypeOK
<1>2. [call[c] EXCEPT !.at = stage] \in CallState
  BY <1>1 DEF CallState
<1> QED  BY <1>2 DEF Go, TypeOK

\* Every step of a call leaves the types intact.
LEMMA ResumeTyped == ASSUME TypeOK, NEW c \in Calls, Resume(c) PROVE TypeOK'
<1> USE DEF At, Awaiting
<1>0. /\ call[c] \in CallState /\ call[c] # None
      /\ call[c].key \in Jobs /\ call[c].proc \in Procs /\ call[c].request \in Request
  BY DEF TypeOK, CallState, Resume
<1>1. ASSUME NEW from, NEW to \in Awaiting \cup {"done", "failed"}, Continue(c, from, to)
      PROVE  TypeOK'
  <2>1. call' \in [Calls -> CallState \cup {None}]
    BY <1>1, GoTyped DEF Continue
  <2> QED  BY <1>1, <2>1 DEF Continue, TypeOK, AccountTypeOK, accountVars, campaignVars
<1>2. CASE Read(c) \/ Prove(c) \/ Find(c) \/ Join(c) \/ Executed(c) \/ Settle(c) \/ Outcome(c)
  BY <1>1, <1>2 DEF Read, Prove, Find, Found, Join, Executed, Settle, Outcome
<1>3. CASE Insert(c)
  <2>1. CASE call[c].at = "insert" /\ job' = [job EXCEPT ![Key(c)] = call[c].request]
             /\ Go(c, "reserve") /\ UNCHANGED <<accountVars, version, receipt, execution, crashes, faults>>
    <3>1. call' \in [Calls -> CallState \cup {None}]
      BY <1>0, <2>1, GoTyped
    <3>2. job' \in [Jobs -> Request \cup {None}]
      BY <1>0, <2>1 DEF TypeOK, Key
    <3> QED  BY <2>1, <3>1, <3>2 DEF TypeOK, AccountTypeOK, accountVars
  <2>2. CASE Continue(c, "insert", "join")
    BY <1>1, <2>2
  <2> QED  BY <1>3, <2>1, <2>2 DEF Insert
<1>4. CASE Execute(c)
  BY <1>0, <1>4 DEF Execute, SetExecution, Execution, Key, TypeOK, AccountTypeOK,
     accountVars, campaignVars
<1>5. CASE Reserve(c) \/ Charge(c) \/ GiveBack(c)
  <2>1. call' \in [Calls -> CallState \cup {None}]
    BY <1>0, <1>5, GoTyped DEF Reserve, Charge, GiveBack
  <2>2. \/ Hold(Key(c), Price) \/ Release(Key(c)) \/ Debit(Key(c))
        \/ UNCHANGED accountVars
    BY <1>5 DEF Reserve, Charge, GiveBack
  <2>3. AccountTypeOK'
    <3>1. CASE UNCHANGED accountVars
      BY <3>1 DEF accountVars, TypeOK, AccountTypeOK
    <3> QED  BY <1>0, <2>2, <3>1, AccountStepTyped DEF TypeOK, Key
  <2> QED  BY <1>5, <2>1, <2>3 DEF Reserve, Charge, GiveBack, TypeOK, campaignVars
<1> QED  BY <1>2, <1>3, <1>4, <1>5 DEF Resume

\* A process that generates or saves keeps the types.
LEMMA OperationTyped ==
    ASSUME TypeOK, NEW p \in Procs, NEW j \in Jobs,
           job[j] # None, Operation(p, j) \/ SaveFault(p, j)
    PROVE  TypeOK'
<1>1. execution[p][j] \in Execution /\ job[j] \in Request
  BY DEF TypeOK
<1>2. ASSUME NEW e \in Execution, SetExecution(p, j, e)
      PROVE  execution' \in [Procs -> [Jobs -> Execution]]
  BY <1>2 DEF SetExecution, TypeOK
<1>3. [at |-> "ok"] \in Execution /\ [at |-> "failed"] \in Execution
  BY DEF Execution
<1>4. CASE Generate(p, j)
  <2>1. \A text \in Texts : [at |-> "saving", text |-> text] \in Execution
    BY DEF Execution
  <2>2. execution' \in [Procs -> [Jobs -> Execution]]
    BY <1>2, <1>3, <1>4, <2>1 DEF Generate, Ended
  <2> QED  BY <1>4, <2>2 DEF Generate, TypeOK, AccountTypeOK, accountVars, campaignVars
<1>5. CASE Save(p, j) \/ SaveFault(p, j)
  <2>1. execution' \in [Procs -> [Jobs -> Execution]]
    BY <1>2, <1>3, <1>5 DEF Save, SaveFault, Ended
  <2>2. ASSUME CommitDraft(p, j), execution[p][j].at = "saving"
        PROVE  version' \in 0 .. MaxVersion /\ receipt' \in [Jobs -> Receipt \cup {None}]
    <3>1. execution[p][j].text \in Texts
      BY <1>1, <2>2 DEF Execution
    <3>2. Intent(p, j) \in Receipt
      BY <1>1, <3>1 DEF Intent, Receipt, Request
    <3>3. job[j].expected \in 0 .. MaxVersion - 1
      BY <1>1 DEF Request
    <3> QED  BY <2>2, <3>2, <3>3, BoundsAssumption DEF CommitDraft, TypeOK
  <2>3. version' \in 0 .. MaxVersion /\ receipt' \in [Jobs -> Receipt \cup {None}]
    BY <1>5, <2>2 DEF Save, SaveFault, TypeOK
  <2>4. faults' \in 0 .. MaxFaults
    BY <1>5, BoundsAssumption DEF Save, SaveFault, TypeOK
  <2> QED  BY <1>5, <2>1, <2>3, <2>4 DEF Save, SaveFault, TypeOK, AccountTypeOK, accountVars
<1> QED  BY <1>4, <1>5 DEF Operation

\* So do a request, a fault, a crash and an edit.
LEMMA OthersTyped ==
    ASSUME TypeOK,
           \/ \E c \in Calls, p \in Procs, j \in Jobs : \E r \in Request : Send(c, p, j, r)
           \/ \E c \in Calls : Fault(c)
           \/ \E p \in Procs : Crash(p)
           \/ Edit
    PROVE  TypeOK'
<1>1. ASSUME NEW c \in Calls, NEW p \in Procs, NEW j \in Jobs, NEW r \in Request, Send(c, p, j, r)
      PROVE  TypeOK'
  <2>1. [proc |-> p, key |-> j, request |-> r, at |-> "read"] \in CallState
    BY DEF CallState, Awaiting
  <2> QED  BY <1>1, <2>1 DEF Send, TypeOK, AccountTypeOK, accountVars, campaignVars
<1>2. ASSUME NEW c \in Calls, Fault(c) PROVE TypeOK'
  <2>1. call[c] \in CallState /\ call[c].key \in Jobs /\ call[c].request \in Request
    BY <1>2 DEF Fault, TypeOK, CallState
  <2>2. call' \in [Calls -> CallState \cup {None}]
    BY <1>2, GoTyped DEF Fault
  <2>3. AccountTypeOK'
    <3>1. CASE UNCHANGED accountVars
      BY <3>1 DEF accountVars, TypeOK, AccountTypeOK
    <3> QED  BY <1>2, <2>1, <3>1, AccountStepTyped DEF TypeOK, Key, Fault
  <2>4. job' \in [Jobs -> Request \cup {None}]
    BY <1>2, <2>1 DEF Fault, TypeOK, Key
  <2> QED  BY <1>2, <2>2, <2>3, <2>4, BoundsAssumption DEF Fault, TypeOK
<1>3. ASSUME NEW p \in Procs, Crash(p) PROVE TypeOK'
  <2>1. Idle \in [Jobs -> Execution]
    BY DEF Idle, Execution
  <2>2. \A c \in Calls : call[c] # None => [call[c] EXCEPT !.at = "failed"] \in CallState
    BY DEF TypeOK, CallState
  <2>3. call' \in [Calls -> CallState \cup {None}]
    BY <1>3, <2>2 DEF Crash, TypeOK
  <2> QED  BY <1>3, <2>1, <2>3, BoundsAssumption
           DEF Crash, TypeOK, AccountTypeOK, accountVars, campaignVars
<1>4. CASE Edit
  BY <1>4, BoundsAssumption DEF Edit, TypeOK, AccountTypeOK, accountVars
<1> QED  BY <1>1, <1>2, <1>3, <1>4

-----------------------------------------------------------------------------
\* A job, a receipt and a debit stay what they are.
Kept ==
    /\ \A j \in Jobs : job[j] # None => job'[j] = job[j]
    /\ \A j \in Jobs : receipt[j] # None => receipt'[j] = receipt[j]
    /\ \A j \in Jobs : phase[j] = "debited" => phase'[j] = "debited"

\* When they stay, the calls that do not step keep what they rely on, and the
\* one that steps needs it of its new stage only.
LEMMA CallsKept ==
    ASSUME TypeOK, CallsOK, Kept, NEW c \in Calls, call[c] # None, NEW stage, Go(c, stage),
           stage \in Bound => job'[Key(c)] = call[c].request,
           stage \in Saved => receipt'[Key(c)] # None,
           stage = "done" => phase'[Key(c)] = "debited"
    PROVE  CallsOK'
<1> SUFFICES ASSUME NEW d \in Calls, call'[d] # None
             PROVE  /\ call'[d].at \in Bound => job'[call'[d].key] = call'[d].request
                    /\ call'[d].at \in Saved => receipt'[call'[d].key] # None
                    /\ call'[d].at = "done" => phase'[call'[d].key] = "debited"
  BY DEF CallsOK, CallBound, CallSaved, DoneIsDebited, At, Key
<1>1. CASE d = c
  <2>1. call[c] \in CallState
    BY DEF TypeOK
  <2>2. call'[c] = [call[c] EXCEPT !.at = stage]
    BY DEF Go, TypeOK
  <2>3. call'[c].at = stage /\ call'[c].key = call[c].key /\ call'[c].request = call[c].request
    BY <2>1, <2>2 DEF CallState
  <2> QED  BY <1>1, <2>3 DEF Key
<1>2. CASE d # c
  <2>1. call'[d] = call[d] /\ call[d] # None
    BY <1>2 DEF Go, TypeOK
  <2>2. call[d].key \in Jobs /\ call[d].request # None
    BY <2>1, NoneIsDistinct DEF TypeOK, CallState
  <2> QED  BY <2>1, <2>2 DEF Kept, CallsOK, CallBound, CallSaved, DoneIsDebited, At, Key
<1> QED  BY <1>1, <1>2

\* A ledger operation charges only what is debited, and undoes no debit.
LEMMA LedgerStepKept ==
    ASSUME AccountTypeOK, NEW j \in Jobs, Hold(j, Price) \/ Release(j) \/ Debit(j), NEW k \in Jobs
    PROVE  /\ phase[k] = "debited" => phase'[k] = "debited"
           /\ phase'[k] = "debited" => phase[k] = "debited" \/ (k = j /\ Debit(j))
BY DEF AccountTypeOK, Hold, Release, Debit

\* A step that leaves jobs, receipts and executions alone, and debits only what
\* is saved, keeps what the jobs rely on.
LEMMA JobsUntouched ==
    ASSUME JobsOK, UNCHANGED <<job, receipt, execution>>,
           \A k \in Jobs : phase'[k] = "debited" => receipt[k] # None
    PROVE  JobsOK'
BY DEF JobsOK, ReceiptOfJob, SavedAs, ExecutionOfJob, OkIsSaved, DebitedIsSaved

\* A step of a call that changes only that call.
LEMMA ContinueKeeps ==
    ASSUME IInv, NEW c \in Calls, NEW from, NEW to, Continue(c, from, to),
           to \in Bound => job[Key(c)] = call[c].request,
           to \in Saved => receipt[Key(c)] # None,
           to # "done"
    PROVE  JobsOK' /\ CallsOK'
<1>1. UNCHANGED <<job, receipt, phase, execution>> /\ call[c] # None /\ Go(c, to)
  BY DEF Continue, campaignVars, accountVars, At
<1>2. Kept
  BY <1>1 DEF Kept
<1>3. JobsOK'
  BY <1>1, JobsUntouched DEF IInv, JobsOK, DebitedIsSaved
<1> QED  BY <1>1, <1>2, <1>3, CallsKept DEF IInv

\* The job that a request inserts is its own, and no draft, execution or debit
\* belongs to a job that is not there.
LEMMA InsertKeeps ==
    ASSUME IInv, NEW c \in Calls, call[c] # None, NEW stage \in {"reserve", "failed"},
           job[Key(c)] = None, job' = [job EXCEPT ![Key(c)] = call[c].request],
           Go(c, stage), UNCHANGED <<receipt, phase, execution>>
    PROVE  JobsOK' /\ CallsOK'
<1>1. call[c].key \in Jobs /\ call[c].request \in Request /\ call[c].request # None
  BY NoneIsDistinct DEF IInv, TypeOK, CallState
<1>2. Kept
  BY DEF Kept, IInv, TypeOK
<1>3. job'[Key(c)] = call[c].request
  BY <1>1 DEF IInv, TypeOK, Key
<1>4. JobsOK'
  BY <1>1, <1>2, <1>3 DEF IInv, TypeOK, JobsOK, Kept, ReceiptOfJob, SavedAs, ExecutionOfJob,
     OkIsSaved, DebitedIsSaved
<1> QED  BY <1>2, <1>3, <1>4, CallsKept DEF IInv, Saved

\* A call that holds, debits or releases at its stage.
LEMMA LedgerKeeps ==
    ASSUME IInv, NEW c \in Calls, NEW from, NEW to, At(c, from), Go(c, to),
           UNCHANGED <<campaignVars, execution>>,
           \/ UNCHANGED accountVars
           \/ Hold(Key(c), Price) \/ Release(Key(c))
           \/ from = "debit" /\ Debit(Key(c)),
           to \in Bound => from \in Bound,
           to \in Saved => from = "debit",
           to = "done" => phase'[Key(c)] = "debited"
    PROVE  JobsOK' /\ CallsOK'
<1>1. call[c] # None /\ call[c].key \in Jobs /\ call[c].at = from
  BY DEF IInv, TypeOK, CallState, At
<1>2. UNCHANGED <<job, receipt, execution>>
  BY DEF campaignVars
<1>3. from \in Bound => job[Key(c)] = call[c].request
  BY <1>1 DEF IInv, CallsOK, CallBound
<1>4. from \in Saved => receipt[Key(c)] # None
  BY <1>1 DEF IInv, CallsOK, CallSaved
<1>5. ASSUME NEW k \in Jobs
      PROVE  /\ phase[k] = "debited" => phase'[k] = "debited"
             /\ phase'[k] = "debited" => receipt[k] # None
  <2>1. phase[k] = "debited" => receipt[k] # None
    BY DEF IInv, JobsOK, DebitedIsSaved
  <2>2. CASE UNCHANGED accountVars
    BY <2>1, <2>2 DEF accountVars
  <2>3. CASE Hold(Key(c), Price) \/ Release(Key(c)) \/ (from = "debit" /\ Debit(Key(c)))
    <3>1. /\ phase[k] = "debited" => phase'[k] = "debited"
          /\ phase'[k] = "debited" => phase[k] = "debited" \/ (k = Key(c) /\ Debit(Key(c)))
      BY <1>1, <2>3, LedgerStepKept DEF Key, IInv, TypeOK
    <3>2. Debit(Key(c)) => from = "debit"
      BY <1>1, <2>3 DEF Hold, Release, Debit, Key, IInv, TypeOK, AccountTypeOK
    <3> QED  BY <1>4, <2>1, <3>1, <3>2 DEF Saved
  <2> QED  BY <2>2, <2>3
<1>6. Kept
  BY <1>2, <1>5 DEF Kept
<1>7. JobsOK'
  BY <1>2, <1>5, JobsUntouched DEF IInv
<1> QED  BY <1>1, <1>2, <1>3, <1>4, <1>6, <1>7, CallsKept DEF IInv, Saved

-----------------------------------------------------------------------------
\* Every step of a call keeps what the jobs and the calls rely on.
LEMMA ResumeKeeps == ASSUME IInv, NEW c \in Calls, Resume(c) PROVE JobsOK' /\ CallsOK'
<1> USE DEF Bound, Saved
<1>1. call[c] # None /\ call[c] \in CallState /\ call[c].key \in Jobs /\ call[c].proc \in Procs
  BY DEF Resume, IInv, TypeOK, CallState
<1>2. /\ call[c].at \in Bound => job[Key(c)] = call[c].request
      /\ call[c].at \in Saved => receipt[Key(c)] # None
  BY <1>1 DEF IInv, CallsOK, CallBound, CallSaved
<1>3. CASE Read(c)
  BY <1>3, ContinueKeeps DEF Read
<1>4. CASE Prove(c)
  BY <1>4, ContinueKeeps DEF Prove, Proven
<1>5. CASE Find(c) \/ Join(c)
  BY <1>5, ContinueKeeps DEF Find, Join, Found
<1>6. CASE Insert(c)
  <2>1. CASE Continue(c, "insert", "join")
    BY <2>1, ContinueKeeps
  <2>2. CASE /\ job[Key(c)] = None /\ job' = [job EXCEPT ![Key(c)] = call[c].request]
             /\ Go(c, "reserve") /\ UNCHANGED <<accountVars, version, receipt, execution, crashes, faults>>
    BY <1>1, <2>2, InsertKeeps DEF accountVars
  <2> QED  BY <1>6, <2>1, <2>2 DEF Insert
<1>7. CASE Reserve(c)
  <2>1. PICK to \in {"execute", "failed"} :
           /\ At(c, "reserve") /\ Go(c, to) /\ UNCHANGED <<campaignVars, execution>>
           /\ UNCHANGED accountVars \/ Hold(Key(c), Price)
    BY <1>7 DEF Reserve
  <2> QED  BY <2>1, LedgerKeeps
<1>8. CASE Execute(c)
  <2>1. job[Key(c)] # None
    BY <1>1, <1>2, <1>8, NoneIsDistinct DEF Execute, At, CallState
  <2>2. \A p \in Procs, j \in Jobs :
           \/ execution'[p][j] = execution[p][j]
           \/ j = Key(c) /\ execution'[p][j].at = "generating"
    BY <1>1, <1>8 DEF Execute, SetExecution, IInv, TypeOK, Key
  <2>3. UNCHANGED <<job, receipt, phase, call>>
    BY <1>8 DEF Execute, campaignVars, accountVars
  <2>4. JobsOK'
    BY <2>1, <2>2, <2>3 DEF IInv, JobsOK, ReceiptOfJob, SavedAs, ExecutionOfJob, OkIsSaved, DebitedIsSaved
  <2>5. CallsOK'
    BY <2>3 DEF IInv, CallsOK, CallBound, CallSaved, DoneIsDebited, At, Key
  <2> QED  BY <2>4, <2>5
<1>9. CASE Executed(c)
  <2>1. call[c].at = "execute"
    BY <1>9 DEF Executed, Continue, At
  <2>2. Ran(c) = "ok" => receipt[Key(c)] # None
    BY <1>1 DEF IInv, JobsOK, OkIsSaved, Ran, Key
  <2> QED  BY <1>2, <1>9, <2>1, <2>2, ContinueKeeps DEF Executed
<1>10. CASE Settle(c)
  BY <1>2, <1>10, ContinueKeeps DEF Settle, Continue, At
<1>11. CASE Outcome(c)
  BY <1>2, <1>11, ContinueKeeps DEF Outcome, Continue, At
<1>12. CASE Charge(c)
  <2>1. PICK to \in {"done", "failed"} :
           /\ At(c, "debit") /\ Go(c, to) /\ UNCHANGED <<campaignVars, execution>>
           /\ UNCHANGED accountVars \/ Debit(Key(c))
           /\ to = "done" => Debit(Key(c)) \/ (phase[Key(c)] = "debited" /\ UNCHANGED accountVars)
    BY <1>12 DEF Charge
  <2>2. Debit(Key(c)) => phase'[Key(c)] = "debited"
    BY <1>1 DEF Debit, Key, IInv, TypeOK, AccountTypeOK
  <2>3. to = "done" => phase'[Key(c)] = "debited"
    BY <2>1, <2>2 DEF accountVars
  <2> QED  BY <2>1, <2>3, LedgerKeeps
<1>13. CASE GiveBack(c)
  <2>1. /\ At(c, "release") /\ Go(c, "failed") /\ UNCHANGED <<campaignVars, execution>>
        /\ UNCHANGED accountVars \/ Release(Key(c))
    BY <1>13 DEF GiveBack
  <2> QED  BY <2>1, LedgerKeeps
<1> QED  BY <1>3, <1>4, <1>5, <1>6, <1>7, <1>8, <1>9, <1>10, <1>11, <1>12, <1>13 DEF Resume

\* A process takes its execution for a success only with a committed draft of
\* the job's own request.
LEMMA OperationKeeps ==
    ASSUME IInv, NEW p \in Procs, NEW j \in Jobs, job[j] # None, Operation(p, j) \/ SaveFault(p, j)
    PROVE  JobsOK' /\ CallsOK'
<1>1. UNCHANGED <<job, phase, call>>
  BY DEF Operation, Generate, Save, SaveFault, campaignVars, accountVars
<1>2. \A q \in Procs, k \in Jobs :
        execution'[q][k] = execution[q][k] \/ (q = p /\ k = j)
  BY DEF Operation, Generate, Save, SaveFault, SetExecution, IInv, TypeOK
<1>3. Intent(p, j) # None
  <2>1. "none" \in DOMAIN None /\ "none" \notin DOMAIN Intent(p, j)
    BY DEF None, Intent
  <2> QED  BY <2>1
<1>4. \/ UNCHANGED receipt
      \/ receipt[j] = None /\ receipt' = [receipt EXCEPT ![j] = Intent(p, j)]
  BY DEF Operation, Generate, Save, SaveFault, CommitDraft, campaignVars
<1>5. execution'[p][j].at = "ok" => receipt'[j] # None
  <2>1. CASE Generate(p, j) \/ SaveFault(p, j)
    <3>1. execution'[p][j].at # "ok"
      BY <2>1 DEF Generate, SaveFault, SetExecution, Ended, IInv, TypeOK
    <3> QED  BY <3>1
  <2>2. CASE Save(p, j)
    <3>1. CASE CommitDraft(p, j)
      BY <1>3, <3>1 DEF CommitDraft, IInv, TypeOK
    <3>2. CASE receipt[j] = Intent(p, j) /\ UNCHANGED receipt
      BY <1>3, <3>2
    <3>3. CASE SetExecution(p, j, Ended("failed"))
      BY <3>3 DEF SetExecution, Ended, IInv, TypeOK
    <3> QED  BY <2>2, <3>1, <3>2, <3>3 DEF Save
  <2> QED  BY <2>1, <2>2 DEF Operation
<1>6. \A k \in Jobs : receipt[k] # None => receipt'[k] = receipt[k]
  BY <1>4 DEF IInv, TypeOK
<1>7. ReceiptOfJob'
  <2> SUFFICES ASSUME NEW k \in Jobs, receipt'[k] # None
               PROVE  job'[k] # None /\ SavedAs(k, job[k])'
    BY DEF ReceiptOfJob
  <2>1. CASE receipt[k] = receipt'[k]
    BY <1>1, <2>1 DEF IInv, JobsOK, ReceiptOfJob, SavedAs
  <2>2. CASE receipt[k] # receipt'[k]
    <3>1. k = j /\ receipt'[j] = Intent(p, j)
      BY <1>4, <2>2 DEF IInv, TypeOK
    <3> QED  BY <1>1, <1>3, <3>1 DEF SavedAs, Intent
  <2> QED  BY <2>1, <2>2
<1>8. JobsOK'
  BY <1>1, <1>2, <1>5, <1>6, <1>7 DEF IInv, JobsOK, ExecutionOfJob, OkIsSaved, DebitedIsSaved
<1>9. CallsOK'
  <2>1. \A c \in Calls : call[c] # None => call[c].key \in Jobs
    BY DEF IInv, TypeOK, CallState
  <2> QED  BY <1>1, <1>6, <2>1 DEF IInv, CallsOK, CallBound, CallSaved, DoneIsDebited, At, Key
<1> QED  BY <1>8, <1>9

\* A request, a fault of a call, a crash and an edit leave what others rely on.
LEMMA OthersKeep ==
    ASSUME IInv,
           \/ \E c \in Calls, p \in Procs, j \in Jobs : \E r \in Request : Send(c, p, j, r)
           \/ \E c \in Calls : Fault(c)
           \/ \E p \in Procs : Crash(p)
           \/ Edit
    PROVE  JobsOK' /\ CallsOK'
<1> USE DEF Bound, Saved
<1>1. ASSUME NEW c \in Calls, NEW p \in Procs, NEW j \in Jobs, NEW r \in Request, Send(c, p, j, r)
      PROVE  JobsOK' /\ CallsOK'
  <2>1. UNCHANGED <<job, receipt, phase, execution>>
    BY <1>1 DEF Send, accountVars, campaignVars
  <2>2. \A d \in Calls : call'[d] = call[d] \/ call'[d].at = "read"
    BY <1>1 DEF Send, IInv, TypeOK
  <2>3. JobsOK'
    BY <2>1, JobsUntouched DEF IInv, JobsOK, DebitedIsSaved
  <2>4. CallsOK'
    BY <2>1, <2>2 DEF IInv, CallsOK, CallBound, CallSaved, DoneIsDebited, At, Key
  <2> QED  BY <2>3, <2>4
<1>2. ASSUME NEW c \in Calls, Fault(c) PROVE JobsOK' /\ CallsOK'
  <2>1. call[c] # None /\ Go(c, "failed") /\ UNCHANGED <<receipt, execution>>
    BY <1>2 DEF Fault
  <2>2. CASE job[Key(c)] = None /\ job' = [job EXCEPT ![Key(c)] = call[c].request]
             /\ UNCHANGED accountVars
    BY <2>1, <2>2, InsertKeeps DEF accountVars
  <2>3. CASE /\ UNCHANGED <<version, job>>
             /\ \/ UNCHANGED accountVars
                \/ At(c, "reserve") /\ Hold(Key(c), Price)
                \/ At(c, "debit") /\ Debit(Key(c))
    <3>1. At(c, call[c].at)
      BY <2>1 DEF At
    <3> QED  BY <2>1, <2>3, <3>1, LedgerKeeps DEF campaignVars, At
  <2> QED  BY <1>2, <2>2, <2>3 DEF Fault
<1>3. ASSUME NEW p \in Procs, Crash(p) PROVE JobsOK' /\ CallsOK'
  <2>1. UNCHANGED <<job, receipt, phase>>
    BY <1>3 DEF Crash, accountVars, campaignVars
  <2>2. \A q \in Procs, j \in Jobs : execution'[q][j] = execution[q][j] \/ execution'[q][j].at = "none"
    BY <1>3 DEF Crash, Idle, IInv, TypeOK
  <2>3. \A d \in Calls : call'[d] = call[d] \/ call'[d].at = "failed"
    BY <1>3 DEF Crash, IInv, TypeOK, CallState
  <2>4. JobsOK'
    BY <2>1, <2>2 DEF IInv, JobsOK, ReceiptOfJob, SavedAs, ExecutionOfJob, OkIsSaved, DebitedIsSaved
  <2>5. CallsOK'
    BY <2>1, <2>3 DEF IInv, CallsOK, CallBound, CallSaved, DoneIsDebited, At, Key
  <2> QED  BY <2>4, <2>5
<1>4. CASE Edit
  <2>1. UNCHANGED <<job, receipt, phase, execution, call>>
    BY <1>4 DEF Edit, accountVars
  <2>2. JobsOK'
    BY <2>1, JobsUntouched DEF IInv, JobsOK, DebitedIsSaved
  <2>3. CallsOK'
    BY <2>1 DEF IInv, CallsOK, CallBound, CallSaved, DoneIsDebited, At, Key
  <2> QED  BY <2>2, <2>3
<1> QED  BY <1>1, <1>2, <1>3, <1>4

\* No process runs a job that was never created.
LEMMA OperationHasJob ==
    ASSUME IInv, NEW p \in Procs, NEW j \in Jobs, Operation(p, j) \/ SaveFault(p, j)
    PROVE  job[j] # None
BY DEF IInv, JobsOK, ExecutionOfJob, Operation, Generate, Save, SaveFault

\* What a call, an execution and the ledger hold is backed by the database, in
\* every reachable state.
THEOREM GenerationInvariant == Spec => []IInv
<1>1. Init => IInv
  <2> SUFFICES ASSUME Init PROVE JobsOK /\ CallsOK
    BY InitTyped DEF IInv
  <2>1. JobsOK
    BY DEF Init, Idle, JobsOK, ReceiptOfJob, ExecutionOfJob, OkIsSaved, DebitedIsSaved
  <2>2. CallsOK
    BY DEF Init, CallsOK, CallBound, CallSaved, DoneIsDebited, At
  <2> QED  BY <2>1, <2>2
<1>2. IInv /\ [Next]_vars => IInv'
  <2> SUFFICES ASSUME IInv, [Next]_vars PROVE IInv'
    OBVIOUS
  <2>1. ASSUME NEW c \in Calls, Resume(c) PROVE IInv'
    BY <2>1, ResumeTyped, ResumeKeeps DEF IInv
  <2>2. ASSUME NEW p \in Procs, NEW j \in Jobs, Operation(p, j) \/ SaveFault(p, j) PROVE IInv'
    <3>1. job[j] # None
      BY <2>2, OperationHasJob
    <3>2. TypeOK'
      BY <2>2, <3>1, OperationTyped DEF IInv
    <3> QED  BY <2>2, <3>1, <3>2, OperationKeeps DEF IInv
  <2>3. CASE \/ \E c \in Calls, p \in Procs, j \in Jobs : \E r \in Request : Send(c, p, j, r)
             \/ \E c \in Calls : Fault(c)
             \/ \E p \in Procs : Crash(p)
             \/ Edit
    BY <2>3, OthersTyped, OthersKeep DEF IInv
  <2>4. CASE UNCHANGED vars
    BY <2>4 DEF vars, accountVars, campaignVars, IInv, TypeOK, AccountTypeOK, JobsOK, ReceiptOfJob,
       SavedAs, ExecutionOfJob, OkIsSaved, DebitedIsSaved, CallsOK, CallBound, CallSaved,
       DoneIsDebited, At, Key
  <2> QED  BY <2>1, <2>2, <2>3, <2>4 DEF Next
<1> QED  BY <1>1, <1>2, PTL DEF Spec

\* The campaign, the jobs, the executions and the calls keep their types, and
\* the version its bound: a draft is saved only at the version its job expects.
THEOREM TypeCorrect == Spec => []TypeOK
<1>1. IInv => TypeOK
  BY DEF IInv
<1> QED  BY <1>1, GenerationInvariant, PTL

\* A generation is charged only after its draft is committed for the request
\* of its job, whatever fails, crashes or races in whichever process.
THEOREM ChargedIsSavedAlways == Spec => []ChargedIsSaved
<1>1. IInv => ChargedIsSaved
  BY DEF IInv, JobsOK, DebitedIsSaved, ReceiptOfJob, ChargedIsSaved
<1> QED  BY <1>1, GenerationInvariant, PTL

\* Whoever is told of success sent the request of the job, whose draft is
\* saved and charged, on whichever path the answer came.
THEOREM DeliveredAsRequestedAlways == Spec => []DeliveredAsRequested
<1>1. ASSUME IInv, NEW c \in Calls, At(c, "done")
      PROVE  /\ job[Key(c)] = call[c].request
             /\ SavedAs(Key(c), call[c].request)
             /\ phase[Key(c)] = "debited"
  <2>1. call[c] # None /\ call[c].at = "done" /\ Key(c) \in Jobs
    BY <1>1 DEF At, Key, IInv, TypeOK, CallState
  <2>2. job[Key(c)] = call[c].request /\ receipt[Key(c)] # None
    BY <1>1, <2>1 DEF IInv, CallsOK, CallBound, CallSaved, Bound, Saved
  <2>3. SavedAs(Key(c), job[Key(c)])
    BY <1>1, <2>1, <2>2 DEF IInv, JobsOK, ReceiptOfJob
  <2>4. phase[Key(c)] = "debited"
    BY <1>1, <2>1 DEF IInv, CallsOK, DoneIsDebited
  <2> QED  BY <2>2, <2>3, <2>4
<1>2. IInv => DeliveredAsRequested
  BY <1>1 DEF DeliveredAsRequested
<1> QED  BY <1>2, GenerationInvariant, PTL

-----------------------------------------------------------------------------
(* The route is a client of the ledger. *)

\* What a call asks of the ledger is an operation on the job of its key.
LEMMA LedgerStep ==
    ASSUME NEW j \in Jobs, Hold(j, Price) \/ Debit(j) \/ Release(j) \/ UNCHANGED accountVars
    PROVE  [AccountNext]_accountVars
BY PriceAssumption DEF AccountNext

LEMMA NextIsAccountStep == IInv /\ [Next]_vars => [AccountNext]_accountVars
<1> SUFFICES ASSUME IInv, [Next]_vars PROVE [AccountNext]_accountVars
  OBVIOUS
<1>1. \A c \in Calls : call[c] # None => Key(c) \in Jobs
  BY DEF IInv, TypeOK, CallState, Key
<1>2. ASSUME NEW c \in Calls, Resume(c) PROVE [AccountNext]_accountVars
  <2>1. Key(c) \in Jobs
    BY <1>1, <1>2 DEF Resume
  <2>2. CASE Reserve(c) \/ Charge(c) \/ GiveBack(c)
    BY <2>1, <2>2, LedgerStep DEF Reserve, Charge, GiveBack
  <2>3. CASE Read(c) \/ Prove(c) \/ Find(c) \/ Insert(c) \/ Join(c)
             \/ Execute(c) \/ Executed(c) \/ Settle(c) \/ Outcome(c)
    BY <2>3 DEF Read, Prove, Find, Insert, Join, Execute, Executed, Settle, Outcome, Continue
  <2> QED  BY <1>2, <2>2, <2>3 DEF Resume
<1>3. ASSUME NEW c \in Calls, Fault(c) PROVE [AccountNext]_accountVars
  <2>1. Key(c) \in Jobs
    BY <1>1, <1>3 DEF Fault
  <2> QED  BY <1>3, <2>1, LedgerStep DEF Fault
<1>4. CASE \/ \E c \in Calls, p \in Procs, j \in Jobs : \E r \in Request : Send(c, p, j, r)
           \/ \E p \in Procs, j \in Jobs : Operation(p, j) \/ SaveFault(p, j)
           \/ \E p \in Procs : Crash(p)
           \/ Edit \/ UNCHANGED vars
  BY <1>4 DEF Send, Operation, Generate, Save, SaveFault, Crash, Edit, vars
<1> QED  BY <1>2, <1>3, <1>4 DEF Next

\* Requests sent twice, joined executions, lost answers, crashes and replays
\* of every process make, on the ledger, operations of CreditAccount only, each
\* under its guard: a generation is held once and settled once.
THEOREM GenerationImplementsAccount == Spec => AccountSpec
<1>1. Init => AccountInit
  BY OpeningAssumption DEF Init, AccountInit
<1> QED  BY <1>1, NextIsAccountStep, GenerationInvariant, PTL DEF Spec, AccountSpec

=============================================================================
