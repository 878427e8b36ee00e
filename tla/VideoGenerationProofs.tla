------------------------ MODULE VideoGenerationProofs ------------------------
(* One submission per video, a final outcome, and a charge for what is        *)
(* delivered, for every number of processes, requests, videos, crashes and    *)
(* faults.                                                                    *)
EXTENDS VideoGeneration, TLAPS

\* The stages of a call whose video has a record, of the one that submits it,
\* of one that has seen it completed, and those after an asset was attached.
Recorded == Updates \cup {"resolve", "submit", "get", "ask", "copy", "insert", "clean",
                          "settle", "outcome", "debit", "check"}
Submitting == {"resolve", "submit"}
SeenCompleted == {"settle", "outcome", "debit", "completed"}
Late == SeenCompleted \cup {"check", "release", "failed"}

\* What a call at its stage relies on.
CallFacts ==
    \A c \in Calls : call[c] # None =>
        /\ call[c].at \in Recorded => record[Job(c)] # None
        /\ call[c].at \in Submitting => accepted[Job(c)] = 0
        /\ call[c].at = "insert" => c \in objects
        /\ call[c].at = "complete" => c \in objects \cap rows
        /\ call[c].at \in SeenCompleted => record[Job(c)] # None /\ record[Job(c)].status = "completed"
        /\ call[c].at = "completed" => phase[Job(c)] = "debited"

\* One call submits a video.
SubmitsAlone ==
    \A c \in Calls, d \in Calls :
        /\ call[c] # None /\ call[c].at \in Submitting
        /\ call[d] # None /\ call[d].at \in Submitting
        /\ Job(c) = Job(d)
        => c = d

\* A video without a record was not submitted.
NewIsUnsubmitted == \A j \in Jobs : record[j] = None => accepted[j] = 0

\* The asset of a video is stored, and the call that stored it is past the
\* stage where it would delete it.
AssetIsKept ==
    \A j \in Jobs, c \in Calls : record[j] # None /\ c \in record[j].asset =>
        c \in objects \cap rows /\ call[c] # None /\ call[c].at \in Late

ChargedIsComplete == \A j \in Jobs : phase[j] = "debited" => record[j] # None /\ record[j].status = "completed"

JobsOK == NewIsUnsubmitted /\ SubmittedOnce /\ AssetIsKept /\ ChargedIsComplete

IInv == TypeOK /\ CallFacts /\ SubmitsAlone /\ JobsOK

-----------------------------------------------------------------------------
(* Types. *)

\* What is stored under a video or a request is never taken for its absence.
LEMMA NoneIsDistinct == None \notin Record /\ None \notin CallState
<1>1. "none" \in DOMAIN None
  BY DEF None
<1> QED  BY <1>1 DEF Record, CallState

\* Nothing has been requested yet.
LEMMA InitTyped == Init => TypeOK
<1> SUFFICES ASSUME Init PROVE TypeOK
  OBVIOUS
<1>1. AccountTypeOK
  <2>1. balance \in [Accounts -> Nat]
    BY OpeningAssumption DEF Init
  <2> QED  BY <2>1 DEF Init, AccountTypeOK, Phases
<1> QED  BY <1>1, BoundsAssumption DEF Init, Idle, Execution, TypeOK

\* A ledger operation keeps the ledger's types and undoes no debit.
LEMMA LedgerStep ==
    ASSUME AccountTypeOK, NEW j \in Jobs, Hold(j, Price) \/ Release(j) \/ Debit(j)
    PROVE  /\ AccountTypeOK'
           /\ \A k \in Jobs : phase[k] = "debited" => phase'[k] = "debited"
           /\ \A k \in Jobs : phase'[k] = "debited" => phase[k] = "debited" \/ (k = j /\ Debit(j))
           /\ Debit(j) => phase'[j] = "debited"
<1> USE JobAccountAssumption, CreditsAssumption, PriceAssumption DEF AccountTypeOK, Phases
<1>1. held[j] \in Nat
  <2>1. held[j] \in Credits \/ held[j] = 0
    BY DEF AccountTypeOK
  <2>2. CASE held[j] \in Credits
    BY <2>2, CreditsAssumption
  <2>3. CASE held[j] = 0
    BY <2>3
  <2> QED  BY <2>1, <2>2, <2>3
<1>2. CASE Hold(j, Price)
  BY <1>2 DEF Hold, Debit
<1>3. CASE Release(j) \/ Debit(j)
  BY <1>1, <1>3 DEF Release, Debit
<1> QED  BY <1>2, <1>3

\* One call moves to another stage; it keeps its kind, process and video.
Moves(c, to) ==
    /\ call' \in [Calls -> CallState \cup {None}]
    /\ call'[c] # None /\ call'[c].at = to /\ call'[c].job = call[c].job
    /\ \A d \in Calls \ {c} : call'[d] = call[d]

LEMMA CallTyped ==
    ASSUME TypeOK, NEW c \in Calls, call[c] # None
    PROVE  /\ call[c] \in CallState /\ Job(c) \in Jobs /\ call[c].proc \in Procs
           /\ call[c].job \in Jobs /\ call[c].at \in Working \cup Answers
BY DEF TypeOK, CallState, Job

LEMMA GoMoves ==
    ASSUME TypeOK, NEW c \in Calls, call[c] # None, NEW to \in Working \cup Answers,
           Go(c, to) \/ Step(c, to)
    PROVE  Moves(c, to)
<1>1. call[c] \in CallState
  BY CallTyped
<1>2. ASSUME NEW r \in {[call[c] EXCEPT !.at = to], [call[c] EXCEPT !.at = to, !.seen = "unread"]}
      PROVE  r \in CallState /\ r.at = to /\ r.job = call[c].job
  BY <1>1 DEF CallState
<1>3. PICK r \in {[call[c] EXCEPT !.at = to], [call[c] EXCEPT !.at = to, !.seen = "unread"]} :
         call' = [call EXCEPT ![c] = r]
  BY DEF Go, Step, TypeOK
<1>4. r \in CallState /\ r.at = to /\ r.job = call[c].job /\ r # None
  BY <1>2, NoneIsDistinct
<1> QED  BY <1>3, <1>4 DEF Moves, TypeOK

LEMMA ReadMoves ==
    ASSUME TypeOK, NEW c \in Calls, call[c] # None, NEW status \in Statuses,
           call' = [call EXCEPT ![c].seen = status]
    PROVE  Moves(c, call[c].at)
<1>1. call[c] \in CallState
  BY CallTyped
<1> DEFINE r == [call[c] EXCEPT !.seen = status]
<1>2. r \in CallState /\ r.at = call[c].at /\ r.job = call[c].job
  BY <1>1 DEF CallState
<1>3. call' = [call EXCEPT ![c] = r]
  BY DEF TypeOK
<1> HIDE DEF r
<1>4. r # None
  BY <1>2, NoneIsDistinct
<1> QED  BY <1>2, <1>3, <1>4 DEF Moves, TypeOK

LEMMA FinishTyped ==
    ASSUME TypeOK, NEW c \in Calls, call[c] # None, NEW outcome \in Execution, Finish(c, outcome)
    PROVE  execution' \in [Procs -> [Jobs -> Execution]]
BY CallTyped DEF Finish, TypeOK

-----------------------------------------------------------------------------
(* What a step of one call owes the others. *)

\* A video that has ended keeps its status and its operation.
Final ==
    \A j \in Jobs : record[j] # None =>
        /\ record'[j] # None
        /\ record[j].status \in Terminal => record'[j].status = record[j].status
        /\ record[j].operation => record'[j].operation

\* Only a submission submits, and only a call's own object goes away.
WorldKept(c) ==
    /\ Final
    /\ \A d \in Calls \ {c} : d \in objects => d \in objects'
    /\ rows \subseteq rows'
    /\ \A j \in Jobs : phase[j] = "debited" => phase'[j] = "debited"
    /\ \A j \in Jobs : accepted'[j] = accepted[j] \/ (j = Job(c) /\ call[c].at = "submit")

\* What the call that moves relies on at its new stage.
NewFacts(c, to) ==
    /\ to \in Recorded => record'[Job(c)] # None
    /\ to \in Submitting => /\ accepted'[Job(c)] = 0
                            /\ call[c].at \in Submitting \/ record[Job(c)] = None
    /\ to = "insert" => c \in objects'
    /\ to = "complete" => c \in objects' \cap rows'
    /\ to \in SeenCompleted => record'[Job(c)] # None /\ record'[Job(c)].status = "completed"
    /\ to = "completed" => phase'[Job(c)] = "debited"

LEMMA CallsKept ==
    ASSUME IInv, NEW c \in Calls, call[c] # None, NEW to, Moves(c, to), WorldKept(c), NewFacts(c, to)
    PROVE  CallFacts' /\ SubmitsAlone'
<1> USE DEF IInv
<1>1. /\ call'[c].at = to /\ call'[c].job = Job(c) /\ Job(c) \in Jobs /\ Job(c)' = Job(c)
      /\ \A d \in Calls \ {c} : call'[d] = call[d] /\ Job(d)' = Job(d)
  BY CallTyped DEF Moves, Job
<1>2. \A d \in Calls : call[d] # None => Job(d) \in Jobs
  BY CallTyped
<1>3. CallFacts'
  <2> SUFFICES ASSUME NEW d \in Calls, call'[d] # None
               PROVE  /\ call'[d].at \in Recorded => record'[Job(d)'] # None
                      /\ call'[d].at \in Submitting => accepted'[Job(d)'] = 0
                      /\ call'[d].at = "insert" => d \in objects'
                      /\ call'[d].at = "complete" => d \in objects' \cap rows'
                      /\ call'[d].at \in SeenCompleted =>
                            record'[Job(d)'] # None /\ record'[Job(d)'].status = "completed"
                      /\ call'[d].at = "completed" => phase'[Job(d)'] = "debited"
    BY DEF CallFacts
  <2>1. CASE d = c
    <3>1. call'[d].at = to /\ Job(d)' = Job(c)
      BY <1>1, <2>1 DEF Job
    <3> HIDE DEF IInv
    <3> QED  BY <2>1, <3>1 DEF NewFacts
  <2>2. CASE d # c
    <3>1. call'[d] = call[d] /\ call[d] # None /\ Job(d)' = Job(d) /\ Job(d) \in Jobs
      BY <1>1, <1>2, <2>2
    <3>2. call[d].at \in Submitting => accepted'[Job(d)] = accepted[Job(d)]
      <4>1. CASE call[c].at = "submit" /\ Job(c) = Job(d)
        BY <2>2, <3>1, <4>1 DEF SubmitsAlone, Submitting
      <4>2. CASE ~(call[c].at = "submit" /\ Job(c) = Job(d))
        BY <3>1, <4>2 DEF WorldKept
      <4> QED  BY <4>1, <4>2
    <3>3. call[d].at \in SeenCompleted =>
             record'[Job(d)] # None /\ record'[Job(d)].status = "completed"
      BY <3>1 DEF CallFacts, WorldKept, Final, Terminal
    <3> QED  BY <2>2, <3>1, <3>2, <3>3 DEF CallFacts, WorldKept, Final
  <2> QED  BY <2>1, <2>2
<1>4. SubmitsAlone'
  <2>1. ASSUME NEW d \in Calls \ {c}, call[d] # None, call[d].at \in Submitting, Job(d) = Job(c),
               to \in Submitting
        PROVE  FALSE
    <3>1. record[Job(c)] # None
      BY <2>1 DEF CallFacts, Submitting, Recorded
    <3>2. call[c].at \in Submitting
      BY <2>1, <3>1 DEF NewFacts
    <3> QED  BY <2>1, <3>2 DEF SubmitsAlone
  <2>2. ASSUME NEW x \in Calls, NEW y \in Calls, x # y,
               call'[x] # None, call'[x].at \in Submitting,
               call'[y] # None, call'[y].at \in Submitting, Job(x)' = Job(y)'
        PROVE  FALSE
    <3>1. CASE x = c \/ y = c
      BY <1>1, <2>1, <2>2, <3>1
    <3>2. CASE x # c /\ y # c
      BY <1>1, <2>2, <3>2 DEF SubmitsAlone
    <3> QED  BY <3>1, <3>2
  <2> QED  BY <2>2 DEF SubmitsAlone
<1> QED  BY <1>3, <1>4

\* A debit is of a completed video, and an asset is the call's own that is
\* stored.
LEMMA JobsKept ==
    ASSUME IInv, NEW c \in Calls, call[c] # None, NEW to, Moves(c, to), WorldKept(c), TypeOK',
           SubmittedOnce',
           \A j \in Jobs : record'[j] = None => accepted'[j] = accepted[j],
           \A j \in Jobs, d \in Calls : record'[j] # None /\ d \in record'[j].asset =>
               \/ record[j] # None /\ d \in record[j].asset
               \/ d = c /\ c \in objects' \cap rows' /\ to \in Late,
           call[c].at \in Late => to \in Late /\ (c \in objects => c \in objects'),
           \A j \in Jobs : phase'[j] = "debited" =>
               phase[j] = "debited" \/ (record'[j] # None /\ record'[j].status = "completed")
    PROVE  JobsOK'
<1> USE DEF IInv, JobsOK
<1>1. NewIsUnsubmitted'
  BY DEF NewIsUnsubmitted, WorldKept, Final
<1>2. AssetIsKept'
  <2> SUFFICES ASSUME NEW j \in Jobs, NEW d \in Calls, record'[j] # None, d \in record'[j].asset
               PROVE  d \in objects' \cap rows' /\ call'[d] # None /\ call'[d].at \in Late
    BY DEF AssetIsKept
  <2>1. CASE d = c /\ c \in objects' \cap rows' /\ to \in Late
    BY <2>1 DEF Moves
  <2>2. CASE record[j] # None /\ d \in record[j].asset
    <3>1. d \in objects \cap rows /\ call[d] # None /\ call[d].at \in Late
      BY <2>2 DEF AssetIsKept
    <3>2. CASE d = c
      BY <3>1, <3>2 DEF Moves, WorldKept
    <3>3. CASE d # c
      BY <3>1, <3>3 DEF Moves, WorldKept
    <3> QED  BY <3>2, <3>3
  <2> QED  BY <2>1, <2>2
<1>3. ChargedIsComplete'
  BY DEF ChargedIsComplete, WorldKept, Final, Terminal
<1> QED  BY <1>1, <1>2, <1>3

\* A step of a call that leaves the records, the assets and the provider alone.
LEMMA LedgerMoves ==
    ASSUME IInv, NEW c \in Calls, call[c] # None, NEW to, Moves(c, to), TypeOK',
           UNCHANGED <<record, accepted, objects, rows>>,
           \A j \in Jobs : phase[j] = "debited" => phase'[j] = "debited",
           \A j \in Jobs : phase'[j] = "debited" =>
               phase[j] = "debited" \/ (j = Job(c) /\ call[c].at = "debit"),
           NewFacts(c, to), call[c].at \in Late => to \in Late
    PROVE  IInv' /\ Final
<1>1. WorldKept(c) /\ Final
  BY DEF WorldKept, Final
<1>2. CallFacts' /\ SubmitsAlone'
  BY <1>1, CallsKept
<1>3. call[c].at = "debit" => record[Job(c)] # None /\ record[Job(c)].status = "completed"
  BY DEF IInv, CallFacts, SeenCompleted
<1>4. SubmittedOnce'
  BY DEF IInv, JobsOK, SubmittedOnce
<1>5. JobsOK'
  BY <1>1, <1>3, <1>4, JobsKept DEF SeenCompleted
<1> QED  BY <1>1, <1>2, <1>5 DEF IInv

-----------------------------------------------------------------------------
(* The steps of a call that change nothing but the call, its execution or    *)
(* the ledger.                                                                *)

\* A video that has a record has one of the right shape.
LEMMA RecordTyped ==
    ASSUME IInv, NEW c \in Calls, call[c] # None, call[c].at \in Recorded
    PROVE  record[Job(c)] \in Record /\ Status(c) \in Statuses /\ Job(c) \in Jobs
<1>1. record[Job(c)] # None /\ Job(c) \in Jobs
  BY CallTyped DEF IInv, CallFacts
<1>2. record[Job(c)] \in Record
  BY <1>1 DEF IInv, TypeOK
<1> QED  BY <1>1, <1>2 DEF Record, Status

LEMMA ContinueKeeps ==
    ASSUME IInv, NEW c \in Calls, call[c] # None, NEW from, NEW to \in Working \cup Answers,
           Continue(c, from, to),
           to \in Recorded => from \in Recorded,
           to \in Submitting => from \in Submitting,
           to \notin {"insert", "complete", "completed"},
           to \in SeenCompleted => from \in Recorded /\ Status(c) = "completed",
           from \in Late => to \in Late
    PROVE  IInv' /\ Final
<1>1. Moves(c, to) /\ call[c].at = from
  BY GoMoves DEF IInv, Continue, At
<1>2. UNCHANGED <<accountVars, record, accepted, operation, objects, rows, execution, crashes, faults>>
  BY DEF Continue, providerVars, assetVars
<1>3. TypeOK'
  BY <1>1, <1>2 DEF IInv, TypeOK, AccountTypeOK, accountVars, Moves
<1>4. NewFacts(c, to)
  BY <1>1, <1>2 DEF NewFacts, IInv, CallFacts, Status
<1>5. UNCHANGED phase
  BY <1>2 DEF accountVars
<1> QED  BY <1>1, <1>2, <1>3, <1>4, <1>5, LedgerMoves

LEMMA QuietKeeps ==
    ASSUME IInv, NEW c \in Calls, call[c] # None,
           \/ Executed(c) \/ Resolve(c) \/ GetPoll(c) \/ GetRead(c) \/ Ask(c)
           \/ Settle(c) \/ Outcome(c) \/ Check(c) \/ Continue(c, "copy", "check")
    PROVE  IInv' /\ Final
<1> USE DEF Working, Answers, Updates, Recorded, Submitting, SeenCompleted, Late
<1>1. CASE Executed(c)
  BY <1>1, ContinueKeeps DEF Executed
<1>2. CASE Resolve(c)
  BY <1>2, ContinueKeeps DEF Resolve
<1>3. CASE GetPoll(c)
  BY <1>3, ContinueKeeps DEF GetPoll, Answer
<1>4. CASE GetRead(c)
  BY <1>4, ContinueKeeps DEF GetRead, Answer
<1>5. CASE Ask(c)
  BY <1>5, ContinueKeeps DEF Ask
<1>6. CASE Settle(c)
  <2>1. call[c].at = "settle"
    BY <1>6 DEF Settle, Continue, At
  <2>2. Status(c) = "completed"
    BY <2>1 DEF IInv, CallFacts, Status
  <2> QED  BY <1>6, <2>2, ContinueKeeps DEF Settle
<1>7. CASE Outcome(c)
  <2>1. call[c].at = "outcome"
    BY <1>7 DEF Outcome, Continue, At
  <2>2. Status(c) = "completed"
    BY <2>1 DEF IInv, CallFacts, Status
  <2> QED  BY <1>7, <2>2, ContinueKeeps DEF Outcome
<1>8. CASE Check(c)
  BY <1>8, ContinueKeeps DEF Check
<1>9. CASE Continue(c, "copy", "check")
  BY <1>9, ContinueKeeps
<1> QED  BY <1>1, <1>2, <1>3, <1>4, <1>5, <1>6, <1>7, <1>8, <1>9

\* A debit is made for a call that has seen its video completed.
LEMMA ChargeKeeps ==
    ASSUME IInv, NEW c \in Calls, call[c] # None, NEW from, NEW to, At(c, from), Go(c, to),
           UNCHANGED <<record, accepted, operation, assetVars, execution, crashes>>,
           faults' \in 0 .. MaxFaults,
           \/ UNCHANGED accountVars
           \/ Hold(Job(c), Price) /\ from = "reserve"
           \/ Release(Job(c)) /\ from = "release"
           \/ Debit(Job(c)) /\ from = "debit",
           \/ from = "reserve" /\ to \in {"execute", "failed"}
           \/ from = "release" /\ to = "failed"
           \/ from = "settle" /\ to = "check"
           \/ from = "debit" /\ to \in {"check", "completed"},
           to = "completed" => phase'[Job(c)] = "debited"
    PROVE  IInv' /\ Final
<1> USE DEF Updates, Recorded, Submitting, SeenCompleted, Late
<1>1. call[c].at = from /\ Job(c) \in Jobs
  BY CallTyped DEF IInv, At
<1>2. Moves(c, to)
  BY GoMoves DEF IInv, Working, Answers
<1>3. /\ AccountTypeOK'
      /\ \A j \in Jobs : phase[j] = "debited" => phase'[j] = "debited"
      /\ \A j \in Jobs : phase'[j] = "debited" =>
           phase[j] = "debited" \/ (j = Job(c) /\ from = "debit")
  <2>1. CASE UNCHANGED accountVars
    BY <2>1 DEF accountVars, IInv, TypeOK, AccountTypeOK
  <2>2. CASE Hold(Job(c), Price) \/ Release(Job(c)) \/ Debit(Job(c))
    <3>1. /\ AccountTypeOK'
          /\ \A k \in Jobs : phase[k] = "debited" => phase'[k] = "debited"
          /\ \A k \in Jobs : phase'[k] = "debited" =>
               phase[k] = "debited" \/ (k = Job(c) /\ Debit(Job(c)))
          /\ Debit(Job(c)) => phase'[Job(c)] = "debited"
      BY <1>1, <2>2, LedgerStep DEF IInv, TypeOK
    <3>2. CASE from = "debit"
      BY <3>1, <3>2
    <3>3. CASE from # "debit"
      <4>1. phase'[Job(c)] # "debited"
        BY <1>1, <2>2, <3>3 DEF Hold, Release, Debit, accountVars, IInv, TypeOK, AccountTypeOK
      <4> QED  BY <3>1, <4>1
    <3> QED  BY <3>2, <3>3
  <2> QED  BY <2>1, <2>2
<1>4. TypeOK'
  BY <1>2, <1>3 DEF IInv, TypeOK, assetVars, Moves
<1>5. NewFacts(c, to)
  BY <1>1 DEF NewFacts, IInv, CallFacts
<1>6. UNCHANGED <<record, accepted, objects, rows>>
  BY DEF assetVars
<1> QED  BY <1>1, <1>2, <1>3, <1>4, <1>5, <1>6, LedgerMoves

LEMMA AccountKeeps ==
    ASSUME IInv, NEW c \in Calls, call[c] # None, Reserve(c) \/ GiveBack(c) \/ Charge(c)
    PROVE  IInv' /\ Final
<1>1. faults' \in 0 .. MaxFaults
  BY DEF Reserve, GiveBack, Charge, IInv, TypeOK
<1>2. UNCHANGED <<record, accepted, operation, assetVars, execution, crashes>>
  BY DEF Reserve, GiveBack, Charge, providerVars
<1>3. CASE Reserve(c)
  BY <1>1, <1>2, <1>3, ChargeKeeps DEF Reserve
<1>4. CASE GiveBack(c)
  BY <1>1, <1>2, <1>4, ChargeKeeps DEF GiveBack
<1>5. CASE Charge(c)
  <2>1. Debit(Job(c)) => phase'[Job(c)] = "debited"
    BY CallTyped, LedgerStep DEF IInv, TypeOK
  <2>2. PICK to \in {"completed", "check"} :
           /\ At(c, "debit") /\ Go(c, to)
           /\ Debit(Job(c)) \/ UNCHANGED accountVars
           /\ to = "completed" => Debit(Job(c)) \/ (phase[Job(c)] = "debited" /\ UNCHANGED accountVars)
    BY <1>5 DEF Charge
  <2>3. to = "completed" => phase'[Job(c)] = "debited"
    BY <2>1, <2>2 DEF accountVars
  <2> QED  BY <1>1, <1>2, <2>2, <2>3, ChargeKeeps
<1> QED  BY <1>3, <1>4, <1>5

LEMMA ExecuteKeeps == ASSUME IInv, NEW c \in Calls, call[c] # None, Execute(c) PROVE IInv' /\ Final
<1>1. Moves(c, "create") /\ call[c].at = "execute"
  BY GoMoves DEF Execute, IInv, At, Working
<1>2. execution' \in [Procs -> [Jobs -> Execution]]
  BY FinishTyped DEF Execute, Execution, IInv
<1>3. TypeOK'
  BY <1>1, <1>2 DEF Execute, IInv, TypeOK, AccountTypeOK, accountVars, providerVars, assetVars, Moves
<1>4. NewFacts(c, "create")
  BY DEF NewFacts, Recorded, Updates, Submitting, SeenCompleted
<1>5. UNCHANGED <<record, accepted, objects, rows, phase>>
  BY DEF Execute, accountVars, providerVars, assetVars
<1> QED  BY <1>1, <1>3, <1>4, <1>5, LedgerMoves DEF Late, SeenCompleted

LEMMA UpdateReadKeeps == ASSUME IInv, NEW c \in Calls, call[c] # None, UpdateRead(c) PROVE IInv' /\ Final
<1>1. call[c].at \in Recorded
  BY DEF UpdateRead, Recorded
<1>2. Moves(c, call[c].at)
  BY <1>1, RecordTyped, ReadMoves DEF UpdateRead, IInv
<1>3. UNCHANGED <<accountVars, record, accepted, operation, objects, rows, execution, crashes, faults>>
  BY DEF UpdateRead, providerVars, assetVars
<1>4. TypeOK'
  BY <1>2, <1>3 DEF IInv, TypeOK, AccountTypeOK, accountVars, Moves
<1>5. NewFacts(c, call[c].at)
  BY <1>3 DEF NewFacts, IInv, CallFacts, accountVars
<1> QED  BY <1>2, <1>3, <1>4, <1>5, LedgerMoves DEF accountVars

\* A new call relies on the record that authorized it.
LEMMA SendKeeps ==
    ASSUME IInv, NEW c \in Calls, NEW p \in Procs, NEW j \in Jobs,
           NEW kind \in {"post", "poll", "read"}, Send(c, p, j, kind)
    PROVE  IInv' /\ Final
<1> DEFINE r == [kind |-> kind, proc |-> p, job |-> j, seen |-> "unread",
                 at |-> IF kind = "post" THEN "reserve" ELSE "get"]
<1>1. UNCHANGED <<accountVars, record, accepted, operation, objects, rows, execution, crashes, faults>>
  BY DEF Send, providerVars, assetVars
<1>2. /\ r \in CallState /\ r.job = j /\ r.at \in {"reserve", "get"}
      /\ r.at = "get" => record[j] # None
  BY DEF Send, CallState, Working
<1>3. call[c] = None /\ call' = [call EXCEPT ![c] = r]
  BY DEF Send
<1> HIDE DEF r
<1>4. call'[c] = r /\ \A d \in Calls \ {c} : call'[d] = call[d]
  BY <1>3 DEF IInv, TypeOK
<1>5. TypeOK'
  BY <1>1, <1>2, <1>3 DEF IInv, TypeOK, AccountTypeOK, accountVars
<1>6. CallFacts' /\ SubmitsAlone'
  BY <1>1, <1>2, <1>4 DEF IInv, CallFacts, SubmitsAlone, Job, accountVars, Recorded, Updates, Submitting,
     SeenCompleted
<1>7. JobsOK'
  BY <1>1, <1>3, <1>4 DEF IInv, JobsOK, NewIsUnsubmitted, SubmittedOnce, AssetIsKept, ChargedIsComplete,
     accountVars
<1> QED  BY <1>1, <1>5, <1>6, <1>7 DEF IInv, Final

\* A call whose process dies relies on nothing.
LEMMA CrashKeeps == ASSUME IInv, NEW p \in Procs, Crash(p) PROVE IInv' /\ Final
<1>1. UNCHANGED <<accountVars, record, accepted, operation, objects, rows, faults>>
  BY DEF Crash, providerVars, assetVars
<1>2. ASSUME NEW c \in Calls, call[c] # None
      PROVE  LET r == [call[c] EXCEPT !.at = "failed", !.seen = "unread"]
             IN  r \in CallState /\ r.at = "failed" /\ r # None
  <2>1. call[c] \in CallState
    BY <1>2, CallTyped DEF IInv
  <2> QED  BY <2>1, NoneIsDistinct DEF CallState, Answers
<1>3. \A c \in Calls : \/ call'[c] = call[c]
                       \/ /\ call[c] # None /\ call'[c] # None
                          /\ call'[c].at = "failed" /\ call'[c] \in CallState
  BY <1>2 DEF Crash
<1>4. call' \in [Calls -> CallState \cup {None}]
  <2>1. DOMAIN call' = Calls /\ call' = [c \in Calls |-> call'[c]]
    BY DEF Crash
  <2> QED  BY <1>3, <2>1 DEF IInv, TypeOK
<1>5. execution' \in [Procs -> [Jobs -> Execution]]
  BY DEF Crash, Idle, IInv, TypeOK, Execution
<1>6. TypeOK'
  <2>1. crashes' \in 0 .. MaxCrashes
    <3>1. MaxCrashes \in Nat /\ crashes \in 0 .. MaxCrashes
      BY BoundsAssumption DEF IInv, TypeOK
    <3>2. crashes < MaxCrashes /\ crashes' = crashes + 1
      BY DEF Crash
    <3> QED  BY <3>1, <3>2
  <2> QED  BY <1>1, <1>4, <1>5, <2>1 DEF IInv, TypeOK, AccountTypeOK, accountVars
<1>7. CallFacts' /\ SubmitsAlone'
  BY <1>1, <1>3 DEF IInv, CallFacts, SubmitsAlone, Job, accountVars, Recorded, Updates, Submitting,
     SeenCompleted
<1>8. JobsOK'
  BY <1>1, <1>3 DEF IInv, JobsOK, NewIsUnsubmitted, SubmittedOnce, AssetIsKept, ChargedIsComplete,
     accountVars, Late
<1> QED  BY <1>1, <1>6, <1>7, <1>8 DEF IInv, Final

LEMMA EndOperationKeeps == ASSUME IInv, NEW j \in Jobs, EndOperation(j) PROVE IInv' /\ Final
<1>1. UNCHANGED <<accountVars, record, accepted, objects, rows, execution, call, crashes, faults>>
  BY DEF EndOperation, assetVars
<1>2. operation' \in [Jobs -> {"running", "done", "error"}]
  BY DEF EndOperation, IInv, TypeOK
<1>3. TypeOK'
  BY <1>1, <1>2 DEF IInv, TypeOK, AccountTypeOK, accountVars
<1> QED  BY <1>1, <1>3 DEF IInv, CallFacts, SubmitsAlone, Job, JobsOK, NewIsUnsubmitted, SubmittedOnce,
         AssetIsKept, ChargedIsComplete, accountVars, Final

-----------------------------------------------------------------------------
(* The steps that write a record, submit, or store an asset.                 *)

\* A record is made once, when no call submits its video.
LEMMA CreateMoves ==
    ASSUME IInv, NEW c \in Calls, call[c] # None, NEW to \in {"resolve", "execute"}, Moves(c, to),
           call[c].at = "create", execution' \in [Procs -> [Jobs -> Execution]],
           faults' \in 0 .. MaxFaults,
           \/ record[Job(c)] = None /\ record' = [record EXCEPT ![Job(c)] = NewRecord]
           \/ UNCHANGED record /\ to = "execute",
           UNCHANGED <<accountVars, accepted, operation, objects, rows, crashes>>
    PROVE  IInv' /\ Final
<1> USE DEF Recorded, Updates, Submitting, SeenCompleted, Late
<1>1. NewRecord \in Record /\ NewRecord.asset = {} /\ NewRecord # None /\ Job(c) \in Jobs
  <2>1. NewRecord \in Record
    <3>1. {} \in {{}} \cup {{d} : d \in Calls} /\ "queued" \in Statuses
      BY DEF Statuses
    <3> QED  BY <3>1 DEF NewRecord, Record
  <2>2. NewRecord.asset = {}
    BY DEF NewRecord
  <2> QED  BY <2>1, <2>2, NoneIsDistinct, CallTyped DEF IInv
<1>2. \A j \in Jobs : \/ record'[j] = record[j]
                      \/ j = Job(c) /\ record[j] = None /\ record'[j] = NewRecord
  BY <1>1 DEF IInv, TypeOK
<1>3. TypeOK'
  <2>1. record' \in [Jobs -> Record \cup {None}]
    BY <1>1 DEF IInv, TypeOK
  <2> QED  BY <2>1 DEF IInv, TypeOK, AccountTypeOK, accountVars, Moves
<1>4. Final /\ WorldKept(c)
  BY <1>2 DEF Final, WorldKept, accountVars
<1>5. NewFacts(c, to)
  <2>1. to = "resolve" => record'[Job(c)] # None /\ record[Job(c)] = None /\ accepted[Job(c)] = 0
    BY <1>1 DEF IInv, TypeOK, JobsOK, NewIsUnsubmitted
  <2> QED  BY <2>1 DEF NewFacts
<1>6. CallFacts' /\ SubmitsAlone'
  BY <1>4, <1>5, CallsKept
<1>7. JobsOK'
  <2>1. SubmittedOnce'
    BY DEF IInv, JobsOK, SubmittedOnce
  <2>2. \A j \in Jobs, d \in Calls : record'[j] # None /\ d \in record'[j].asset =>
            record[j] # None /\ d \in record[j].asset
    BY <1>1, <1>2
  <2>3. \A j \in Jobs : phase'[j] = "debited" => phase[j] = "debited"
    BY DEF accountVars
  <2> QED  BY <1>3, <1>4, <2>1, <2>2, <2>3, JobsKept
<1> QED  BY <1>3, <1>4, <1>6, <1>7 DEF IInv

LEMMA CreateKeeps ==
    ASSUME IInv, NEW c \in Calls, call[c] # None, Create(c) \/ (CreateFault(c) /\ Fault(c))
    PROVE  IInv' /\ Final
<1>1. call[c].at = "create"
  BY DEF Create, CreateFault, At
<1>2. CASE Create(c)
  <2>1. CASE /\ record[Job(c)] = None /\ record' = [record EXCEPT ![Job(c)] = NewRecord]
             /\ Go(c, "resolve") /\ UNCHANGED execution
    <3>1. Moves(c, "resolve")
      BY <2>1, GoMoves DEF IInv, Working
    <3>2. execution' \in [Procs -> [Jobs -> Execution]] /\ faults' \in 0 .. MaxFaults
      BY <1>2, <2>1 DEF Create, IInv, TypeOK
    <3> QED  BY <1>1, <1>2, <2>1, <3>1, <3>2, CreateMoves DEF Create, providerVars, assetVars
  <2>2. CASE Finish(c, "failed") /\ Go(c, "execute") /\ UNCHANGED record
    <3>1. Moves(c, "execute")
      BY <2>2, GoMoves DEF IInv, Working
    <3>2. execution' \in [Procs -> [Jobs -> Execution]] /\ faults' \in 0 .. MaxFaults
      BY <1>2, <2>2, FinishTyped DEF Create, IInv, TypeOK, Execution
    <3> QED  BY <1>1, <1>2, <2>2, <3>1, <3>2, CreateMoves DEF Create, providerVars, assetVars
  <2> QED  BY <1>2, <2>1, <2>2 DEF Create
<1>3. CASE CreateFault(c) /\ Fault(c)
  <2>1. Moves(c, "execute")
    BY <1>3, GoMoves DEF IInv, Working, CreateFault
  <2>2. execution' \in [Procs -> [Jobs -> Execution]]
    BY <1>3, FinishTyped DEF CreateFault, IInv, Execution
  <2>3. faults' \in 0 .. MaxFaults
    BY <1>3, BoundsAssumption DEF Fault, IInv, TypeOK
  <2> QED  BY <1>1, <1>3, <2>1, <2>2, <2>3, CreateMoves DEF CreateFault, Fault, providerVars, assetVars
<1> QED  BY <1>2, <1>3

\* The one call that submits a video is the first to.
LEMMA SubmitKeeps == ASSUME IInv, NEW c \in Calls, call[c] # None, Submit(c) PROVE IInv' /\ Final
<1> USE DEF Recorded, Updates, Submitting, SeenCompleted, Late
<1>1. /\ call[c].at = "submit" /\ Job(c) \in Jobs /\ record[Job(c)] # None
      /\ accepted[Job(c)] = 0
  BY CallTyped DEF Submit, At, IInv, CallFacts
<1>2. PICK to \in {"store", "fail"}, n \in {0, 1} :
        accepted' = [accepted EXCEPT ![Job(c)] = @ + n] /\ Go(c, to)
  BY DEF Submit
<1>3. Moves(c, to)
  BY <1>2, GoMoves DEF IInv, Working
<1>4. UNCHANGED <<accountVars, record, operation, objects, rows, execution, crashes, faults>>
  BY DEF Submit, assetVars
<1>5. accepted' \in [Jobs -> Nat] /\ \A j \in Jobs :
        accepted'[j] = accepted[j] \/ (j = Job(c) /\ accepted'[j] \in {0, 1})
  BY <1>1, <1>2 DEF IInv, TypeOK
<1>6. TypeOK'
  BY <1>3, <1>4, <1>5 DEF IInv, TypeOK, AccountTypeOK, accountVars, Moves
<1>7. Final /\ WorldKept(c)
  BY <1>1, <1>4, <1>5 DEF Final, WorldKept, accountVars
<1>8. NewFacts(c, to)
  BY <1>1, <1>2, <1>4 DEF NewFacts
<1>9. CallFacts' /\ SubmitsAlone'
  BY <1>3, <1>7, <1>8, CallsKept
<1>10. SubmittedOnce'
  BY <1>5 DEF SubmittedOnce, IInv, JobsOK
<1>11. \A j \in Jobs : record'[j] = None => accepted'[j] = accepted[j]
  BY <1>1, <1>4, <1>5
<1>12. JobsOK'
  BY <1>1, <1>3, <1>4, <1>6, <1>7, <1>10, <1>11, JobsKept DEF accountVars
<1> QED  BY <1>6, <1>7, <1>9, <1>12 DEF IInv

\* An update that the transitions allow leaves a record of the right shape, and
\* one that has ended as it was.
LEMMA UpdatedFacts ==
    ASSUME IInv, NEW c \in Calls, call[c] # None, call[c].at \in Updates, call[c].seen # "unread",
           Writable(c)
    PROVE  /\ Updated(c) \in Record /\ Updated(c) # None
           /\ Status(c) \in Terminal => Updated(c).status = Status(c)
           /\ record[Job(c)].operation => Updated(c).operation
           /\ call[c].at = "complete" => Updated(c).status = "completed" /\ Updated(c).asset = {c}
           /\ call[c].at = "note" => Updated(c).status = call[c].seen
           /\ call[c].at # "complete" => Updated(c).asset = record[Job(c)].asset
<1> DEFINE old == record[Job(c)]
           asset == IF At(c, "complete") THEN {c} ELSE old.asset
           operation_ == old.operation \/ At(c, "store")
<1>1. /\ old \in Record /\ Status(c) = old.status /\ Status(c) = call[c].seen
      /\ call[c].at \in {"store", "progress", "note", "fail", "complete"}
  BY RecordTyped DEF Recorded, Status, Writable, Updates
<1>2. /\ call[c].at = "store" => Target(c) = "submitted"
      /\ call[c].at = "progress" => Target(c) = "processing"
      /\ call[c].at = "note" => Target(c) = call[c].seen
      /\ call[c].at = "fail" => Target(c) = "failed"
      /\ call[c].at = "complete" => Target(c) = "completed"
  BY DEF Target, At
<1>3. /\ old.status \in Statuses /\ old.operation \in BOOLEAN
      /\ old.asset \in {{}} \cup {{d} : d \in Calls}
      /\ old.status \in {"submitted", "processing", "completed"} => old.operation
      /\ old.status = "queued" => ~old.operation
      /\ old.asset # {} <=> old.status = "completed"
  BY <1>1 DEF Record
<1>4. Updated(c) = [status |-> Target(c), operation |-> operation_, asset |-> asset]
  <2>1. old \in [status : Statuses, operation : BOOLEAN, asset : {{}} \cup {{d} : d \in Calls}]
    BY <1>1 DEF Record
  <2>2. Updated(c) = [old EXCEPT !.status = Target(c), !.operation = operation_, !.asset = asset]
    BY DEF Updated
  <2> HIDE DEF old, operation_, asset
  <2> QED  BY <2>1, <2>2
<1>5. Allowed(old.status, Target(c)) /\ Target(c) \in Statuses
  BY <1>1, <1>2, <1>3 DEF Writable, Statuses
<1>6. /\ call[c].at = "store" => operation_ = TRUE
      /\ call[c].at # "store" => operation_ = old.operation
  BY <1>3 DEF At
<1>7. /\ operation_ \in BOOLEAN
      /\ old.operation => operation_
      /\ Target(c) \in {"submitted", "processing", "completed"} => operation_
      /\ Target(c) = "queued" => ~operation_
  <2>1. operation_ \in BOOLEAN /\ (old.operation => operation_)
    BY <1>3, <1>6
  <2>2. Target(c) \in {"submitted", "processing", "completed"} => operation_
    BY <1>1, <1>2, <1>3, <1>5, <1>6 DEF Allowed, Terminal
  <2>3. Target(c) = "queued" => ~operation_
    BY <1>1, <1>2, <1>3, <1>5, <1>6 DEF Allowed, Terminal
  <2> QED  BY <2>1, <2>2, <2>3
<1>8. /\ asset \in {{}} \cup {{d} : d \in Calls}
      /\ asset # {} <=> Target(c) = "completed"
      /\ call[c].at = "complete" => asset = {c}
      /\ call[c].at # "complete" => asset = old.asset
  BY <1>1, <1>2, <1>3, <1>5 DEF At, Allowed, Terminal
<1>9. Status(c) \in Terminal => Target(c) = Status(c)
  BY <1>1, <1>5 DEF Allowed, Terminal
<1> HIDE DEF asset, operation_, old
<1>10. Updated(c) \in Record
  BY <1>4, <1>5, <1>7, <1>8 DEF Record
<1>11. Updated(c) # None
  BY <1>10, NoneIsDistinct
<1> QED  BY <1>2, <1>4, <1>7, <1>8, <1>9, <1>10, <1>11 DEF old

\* An update that is written, or is not, moves its call on.
LEMMA UpdateMoves ==
    ASSUME IInv, NEW c \in Calls, call[c] # None, call[c].at \in Updates, call[c].seen # "unread",
           NEW to, Moves(c, to),
           to \in {"execute", "ask", "check", "fail", "settle", "failed", "pending"},
           (Writable(c) /\ Write(c)) \/ UNCHANGED record,
           to = "settle" => /\ Writable(c) /\ Write(c)
                            /\ call[c].at = "complete" \/ (call[c].at = "note" /\ call[c].seen = "completed"),
           call[c].at = "complete" => to \in Late,
           execution' \in [Procs -> [Jobs -> Execution]], faults' \in 0 .. MaxFaults,
           UNCHANGED <<accountVars, accepted, operation, objects, rows, crashes>>
    PROVE  IInv' /\ Final
<1>1. /\ Job(c) \in Jobs /\ record[Job(c)] # None /\ record[Job(c)] \in Record
      /\ Status(c) = record[Job(c)].status
  BY RecordTyped DEF Recorded, IInv, CallFacts, Status
<1>2. CASE Writable(c) /\ Write(c)
  <2>1. /\ Updated(c) \in Record /\ Updated(c) # None
        /\ Status(c) \in Terminal => Updated(c).status = Status(c)
        /\ record[Job(c)].operation => Updated(c).operation
        /\ call[c].at = "complete" => Updated(c).status = "completed" /\ Updated(c).asset = {c}
        /\ call[c].at = "note" => Updated(c).status = call[c].seen
        /\ call[c].at # "complete" => Updated(c).asset = record[Job(c)].asset
    BY <1>2, UpdatedFacts
  <2> DEFINE u == Updated(c)
  <2>2. record' = [record EXCEPT ![Job(c)] = u]
    BY <1>2 DEF Write
  <2> HIDE DEF u
  <2>3. /\ record' \in [Jobs -> Record \cup {None}] /\ record'[Job(c)] = u
        /\ \A j \in Jobs \ {Job(c)} : record'[j] = record[j]
    BY <1>1, <2>1, <2>2 DEF u, IInv, TypeOK
  <2>4. TypeOK'
    BY <2>3 DEF IInv, TypeOK, AccountTypeOK, accountVars, Moves
  <2>5. Final
    BY <1>1, <2>1, <2>3 DEF u, Final
  <2>6. WorldKept(c)
    BY <2>5 DEF WorldKept, accountVars
  <2>7. NewFacts(c, to)
    BY <1>1, <2>1, <2>3 DEF u, NewFacts, Recorded, Updates, Submitting, SeenCompleted
  <2>8. CallFacts' /\ SubmitsAlone'
    BY <2>6, <2>7, CallsKept
  <2>9. \A j \in Jobs, d \in Calls : record'[j] # None /\ d \in record'[j].asset =>
            \/ record[j] # None /\ d \in record[j].asset
            \/ d = c /\ c \in objects' \cap rows' /\ to \in Late
    BY <1>1, <2>1, <2>3 DEF u, IInv, CallFacts
  <2>10. SubmittedOnce' /\ call[c].at \notin Late
    BY DEF SubmittedOnce, IInv, JobsOK, Updates, Late, SeenCompleted
  <2>11. JobsOK'
    BY <2>4, <2>6, <2>9, <2>10, JobsKept DEF accountVars
  <2> QED  BY <2>4, <2>5, <2>8, <2>11 DEF IInv
<1>3. CASE UNCHANGED record /\ to # "settle"
  <2>1. TypeOK'
    BY <1>3 DEF IInv, TypeOK, AccountTypeOK, accountVars, Moves
  <2>2. NewFacts(c, to)
    BY <1>1, <1>3 DEF NewFacts, Recorded, Updates, Submitting, SeenCompleted
  <2>3. call[c].at \notin Late
    BY DEF Updates, Late, SeenCompleted
  <2> QED  BY <1>3, <2>1, <2>2, <2>3, LedgerMoves DEF accountVars
<1> QED  BY <1>2, <1>3

LEMMA UpdateKeeps ==
    ASSUME IInv, NEW c \in Calls, call[c] # None, UpdateWrite(c) \/ (UpdateFault(c) /\ Fault(c))
    PROVE  IInv' /\ Final
<1> DEFINE Tos == {"execute", "ask", "check", "fail", "settle", "failed", "pending"}
<1>1. call[c].at \in Updates /\ call[c].seen # "unread"
  BY DEF UpdateWrite, UpdateFault
<1>2. faults' \in 0 .. MaxFaults
  BY BoundsAssumption DEF UpdateWrite, Fault, IInv, TypeOK
<1>3. UNCHANGED <<accountVars, accepted, operation, objects, rows, crashes>>
  BY DEF UpdateWrite, UpdateFault, Fault, providerVars, assetVars
<1>4. ASSUME UpdateFails(c)
      PROVE  \E to \in {"fail", "check", "execute"} : /\ Step(c, to)
                                                      /\ call[c].at = "complete" => to = "check"
  BY <1>4 DEF UpdateFails, UpdateSucceeds, At
<1>5. ASSUME UpdateSucceeds(c)
      PROVE  \E to \in Tos :
                /\ Step(c, to)
                /\ to = "settle" => call[c].at = "complete" \/ (call[c].at = "note" /\ call[c].seen = "completed")
                /\ call[c].at = "complete" => to = "settle"
  BY <1>5 DEF UpdateSucceeds, At, Answer
<1>6. execution' \in [Procs -> [Jobs -> Execution]]
  <2>1. UNCHANGED execution \/ Finish(c, "ok") \/ Finish(c, "failed")
    BY DEF UpdateWrite, UpdateFault, UpdateFails, UpdateSucceeds
  <2> QED  BY <2>1, FinishTyped DEF IInv, TypeOK, Execution
<1>7. PICK to \in Tos :
        /\ Step(c, to)
        /\ (Writable(c) /\ Write(c)) \/ UNCHANGED record
        /\ to = "settle" => /\ Writable(c) /\ Write(c)
                            /\ call[c].at = "complete" \/ (call[c].at = "note" /\ call[c].seen = "completed")
        /\ call[c].at = "complete" => to \in {"settle", "check"}
  <2>1. CASE Writable(c) /\ Write(c) /\ UpdateSucceeds(c)
    BY <1>5, <2>1
  <2>2. CASE ((Writable(c) /\ Write(c)) \/ UNCHANGED record) /\ UpdateFails(c)
    <3>1. PICK to \in {"fail", "check", "execute"} :
             /\ Step(c, to)
             /\ call[c].at = "complete" => to = "check"
      BY <1>4, <2>2
    <3> QED  BY <2>2, <3>1
  <2> QED  BY <2>1, <2>2 DEF UpdateWrite, UpdateFault
<1>8. Moves(c, to)
  <2>1. to \in Working \cup Answers
    BY DEF Working, Answers, Updates
  <2> QED  BY <1>7, <2>1, GoMoves DEF IInv
<1>9. {"settle", "check"} \subseteq Late
  BY DEF Late, SeenCompleted
<1> HIDE DEF Tos
<1>10. to \in {"execute", "ask", "check", "fail", "settle", "failed", "pending"}
  BY DEF Tos
<1> QED  BY <1>1, <1>2, <1>3, <1>6, <1>7, <1>8, <1>9, <1>10, UpdateMoves

\* A call changes nobody's object but its own, and deletes it only before it is
\* any video's.
LEMMA AssetMoves ==
    ASSUME IInv, NEW c \in Calls, call[c] # None, NEW to, Moves(c, to),
           call[c].at \in {"copy", "insert", "clean"}, to \in {"insert", "complete", "clean", "check"},
           objects' \subseteq Calls, rows' \subseteq Calls,
           \A d \in Calls \ {c} : d \in objects => d \in objects',
           rows \subseteq rows',
           to = "insert" => c \in objects',
           to = "complete" => c \in objects' \cap rows',
           faults' \in 0 .. MaxFaults,
           UNCHANGED <<accountVars, record, accepted, operation, execution, crashes>>
    PROVE  IInv' /\ Final
<1>1. TypeOK'
  BY DEF IInv, TypeOK, AccountTypeOK, accountVars, Moves
<1>2. Final /\ WorldKept(c)
  BY DEF Final, WorldKept, accountVars
<1>3. call[c].at \in Recorded /\ call[c].at \notin Late
  BY DEF Recorded, Late, SeenCompleted
<1>4. NewFacts(c, to)
  BY <1>3 DEF IInv, CallFacts, NewFacts, Submitting, SeenCompleted
<1>5. CallFacts' /\ SubmitsAlone'
  BY <1>2, <1>4, CallsKept
<1>6. SubmittedOnce'
  BY DEF SubmittedOnce, IInv, JobsOK
<1>7. JobsOK'
  BY <1>1, <1>2, <1>3, <1>6, JobsKept DEF accountVars
<1> QED  BY <1>1, <1>2, <1>5, <1>7 DEF IInv

LEMMA AssetKeeps ==
    ASSUME IInv, NEW c \in Calls, call[c] # None,
           Copy(c) \/ InsertRow(c) \/ Clean(c) \/ (InsertFault(c) /\ Fault(c))
    PROVE  IInv' /\ Final
<1>1. objects \subseteq Calls /\ rows \subseteq Calls /\ faults \in 0 .. MaxFaults
  BY DEF IInv, TypeOK
<1>2. {"insert", "complete", "clean", "check"} \subseteq Working
  BY DEF Working, Updates
<1>3. ASSUME NEW to \in {"insert", "complete", "clean", "check"}, Go(c, to) PROVE Moves(c, to)
  BY <1>2, <1>3, GoMoves DEF IInv
<1>4. CASE Continue(c, "copy", "check")
  BY <1>4, QuietKeeps
<1>5. CASE At(c, "copy") /\ objects' = objects \cup {c} /\ Go(c, "insert")
           /\ UNCHANGED <<accountVars, record, providerVars, rows, execution, crashes, faults>>
  BY <1>1, <1>3, <1>5, AssetMoves DEF At, providerVars
<1>6. CASE InsertRow(c)
  <2>1. c \in objects
    BY <1>6 DEF InsertRow, At, IInv, CallFacts
  <2> QED  BY <1>1, <1>3, <1>6, <2>1, AssetMoves DEF InsertRow, At, providerVars
<1>7. CASE Clean(c)
  BY <1>1, <1>3, <1>7, AssetMoves DEF Clean, At, providerVars
<1>8. CASE InsertFault(c) /\ Fault(c)
  <2>1. faults' \in 0 .. MaxFaults
    BY <1>1, <1>8, BoundsAssumption DEF Fault
  <2> QED  BY <1>1, <1>3, <1>8, <2>1, AssetMoves DEF InsertFault, Fault, At, providerVars
<1> QED  BY <1>4, <1>5, <1>6, <1>7, <1>8 DEF Copy

LEMMA LedgerFaultKeeps ==
    ASSUME IInv, NEW c \in Calls, call[c] # None, LedgerFault(c), Fault(c)
    PROVE  IInv' /\ Final
<1>1. faults' \in 0 .. MaxFaults
  BY BoundsAssumption DEF Fault, IInv, TypeOK
<1>2. UNCHANGED <<record, accepted, operation, assetVars, execution, crashes>>
  BY DEF LedgerFault, Fault, providerVars
<1>3. PICK from \in {"reserve", "release", "settle", "debit"}, to \in {"failed", "check"} :
        /\ At(c, from) /\ Go(c, to)
        /\ from \in {"reserve", "release"} => to = "failed"
        /\ from \in {"settle", "debit"} => to = "check"
        /\ \/ UNCHANGED accountVars
           \/ Hold(Job(c), Price) /\ from = "reserve"
           \/ Debit(Job(c)) /\ from = "debit"
  BY DEF LedgerFault
<1> QED  BY <1>1, <1>2, <1>3, ChargeKeeps

LEMMA ResumeKeeps == ASSUME IInv, NEW c \in Calls, Resume(c) PROVE IInv' /\ Final
<1>1. call[c] # None
  BY DEF Resume
<1>2. CASE \/ Executed(c) \/ Resolve(c) \/ GetPoll(c) \/ GetRead(c) \/ Ask(c)
           \/ Settle(c) \/ Outcome(c) \/ Check(c)
  BY <1>1, <1>2, QuietKeeps
<1>3. CASE Reserve(c) \/ GiveBack(c) \/ Charge(c)
  BY <1>1, <1>3, AccountKeeps
<1>4. CASE Execute(c)
  BY <1>1, <1>4, ExecuteKeeps
<1>5. CASE Create(c)
  BY <1>1, <1>5, CreateKeeps
<1>6. CASE Submit(c)
  BY <1>1, <1>6, SubmitKeeps
<1>7. CASE UpdateRead(c)
  BY <1>1, <1>7, UpdateReadKeeps
<1>8. CASE UpdateWrite(c)
  BY <1>1, <1>8, UpdateKeeps
<1>9. CASE Copy(c) \/ InsertRow(c) \/ Clean(c)
  BY <1>1, <1>9, AssetKeeps
<1> QED  BY <1>2, <1>3, <1>4, <1>5, <1>6, <1>7, <1>8, <1>9 DEF Resume

LEMMA FaultKeeps == ASSUME IInv, NEW c \in Calls, call[c] # None, Fault(c) PROVE IInv' /\ Final
<1>1. CASE UpdateFault(c)
  BY <1>1, UpdateKeeps
<1>2. CASE InsertFault(c)
  BY <1>2, AssetKeeps
<1>3. CASE LedgerFault(c)
  BY <1>3, LedgerFaultKeeps
<1>4. CASE CreateFault(c)
  BY <1>4, CreateKeeps
<1> QED  BY <1>1, <1>2, <1>3, <1>4 DEF Fault

-----------------------------------------------------------------------------
(* Theorems. *)

LEMMA StepKeeps == ASSUME IInv, Next PROVE IInv' /\ Final
<1>1. ASSUME NEW c \in Calls, NEW p \in Procs, NEW j \in Jobs,
             NEW kind \in {"post", "poll", "read"}, Send(c, p, j, kind)
      PROVE  IInv' /\ Final
  BY <1>1, SendKeeps
<1>2. ASSUME NEW c \in Calls, Resume(c) PROVE IInv' /\ Final
  BY <1>2, ResumeKeeps
<1>3. ASSUME NEW c \in Calls, call[c] # None, Fault(c) PROVE IInv' /\ Final
  BY <1>3, FaultKeeps
<1>4. ASSUME NEW j \in Jobs, EndOperation(j) PROVE IInv' /\ Final
  BY <1>4, EndOperationKeeps
<1>5. ASSUME NEW p \in Procs, Crash(p) PROVE IInv' /\ Final
  BY <1>5, CrashKeeps
<1> QED  BY <1>1, <1>2, <1>3, <1>4, <1>5 DEF Next

\* What a call has seen is backed by the record, the assets and the ledger, in
\* every reachable state.
THEOREM VideoInvariant == Spec => []IInv
<1>1. Init => IInv
  <2> SUFFICES ASSUME Init PROVE CallFacts /\ SubmitsAlone /\ JobsOK
    BY InitTyped DEF IInv
  <2> USE DEF Init
  <2>1. CallFacts /\ SubmitsAlone
    BY DEF CallFacts, SubmitsAlone
  <2>2. JobsOK
    BY DEF JobsOK, NewIsUnsubmitted, SubmittedOnce, AssetIsKept, ChargedIsComplete
  <2> QED  BY <2>1, <2>2
<1>2. IInv /\ [Next]_vars => IInv'
  <2> SUFFICES ASSUME IInv, [Next]_vars PROVE IInv'
    OBVIOUS
  <2>1. CASE Next
    BY <2>1, StepKeeps
  <2>2. CASE UNCHANGED vars
    <3>1. TypeOK'
      BY <2>2 DEF vars, accountVars, providerVars, assetVars, IInv, TypeOK, AccountTypeOK
    <3> QED  BY <2>2, <3>1 DEF vars, accountVars, providerVars, assetVars, IInv, CallFacts, SubmitsAlone,
             Job, JobsOK, NewIsUnsubmitted, SubmittedOnce, AssetIsKept, ChargedIsComplete
  <2> QED  BY <2>1, <2>2
<1> QED  BY <1>1, <1>2, PTL DEF Spec

\* The records, the assets, the executions and the calls keep their types: no
\* update leaves a record that its schema refuses.
THEOREM TypeCorrect == Spec => []TypeOK
<1>1. IInv => TypeOK
  BY DEF IInv
<1> QED  BY <1>1, VideoInvariant, PTL

\* A video is submitted to the provider at most once, however often it is
\* requested and wherever a process dies.
THEOREM SubmittedOnceAlways == Spec => []SubmittedOnce
<1>1. IInv => SubmittedOnce
  BY DEF IInv, JobsOK
<1> QED  BY <1>1, VideoInvariant, PTL

\* Who is handed a video has been charged for it, and a charged video is
\* complete with an asset that is stored and registered.
THEOREM DeliveredIsChargedAlways == Spec => []DeliveredIsCharged
<1>1. ASSUME IInv, NEW c \in Calls, call[c] # None, At(c, "completed") PROVE phase[Job(c)] = "debited"
  BY <1>1 DEF IInv, CallFacts, At
<1>2. ASSUME IInv, NEW j \in Jobs, phase[j] = "debited"
      PROVE  /\ record[j] # None /\ record[j].status = "completed"
             /\ record[j].asset \subseteq rows \cap objects
  <2>1. record[j] # None /\ record[j].status = "completed"
    BY <1>2 DEF IInv, JobsOK, ChargedIsComplete
  <2>2. record[j] \in Record
    BY <1>2, <2>1 DEF IInv, TypeOK
  <2>3. record[j].asset \subseteq Calls
    BY <2>2 DEF Record
  <2> QED  BY <1>2, <2>1, <2>3 DEF IInv, JobsOK, AssetIsKept
<1>3. IInv => DeliveredIsCharged
  BY <1>1, <1>2 DEF DeliveredIsCharged
<1> QED  BY <1>3, VideoInvariant, PTL

\* A video that has ended keeps its status, and one that the provider accepted
\* its operation, though calls of several processes race to update it.
THEOREM EndedIsFinalAlways == Spec => EndedIsFinal
<1>1. IInv /\ [Next]_vars => [Final]_vars
  BY StepKeeps
<1>2. Final <=>
        \A j \in Jobs : record[j] # None =>
          /\ record'[j] # None
          /\ record[j].status \in Terminal => record'[j].status = record[j].status
          /\ record[j].operation => record'[j].operation
  BY DEF Final
<1> QED  BY <1>1, <1>2, VideoInvariant, PTL DEF Spec, EndedIsFinal

-----------------------------------------------------------------------------
(* The route is a client of the ledger. *)

\* A submission, the polls and the reads of a video ask the ledger for
\* operations on their own job.
LEMMA NextIsAccountStep == IInv /\ [Next]_vars => [AccountNext]_accountVars
<1> SUFFICES ASSUME IInv, [Next]_vars PROVE [AccountNext]_accountVars
  OBVIOUS
<1>1. ASSUME NEW c \in Calls, call[c] # None, Reserve(c) \/ Charge(c) \/ GiveBack(c) \/ LedgerFault(c)
      PROVE  [AccountNext]_accountVars
  <2>1. Job(c) \in Jobs
    BY <1>1 DEF IInv, TypeOK, CallState, Job
  <2>2. Hold(Job(c), Price) \/ Debit(Job(c)) \/ Release(Job(c)) \/ UNCHANGED accountVars
    BY <1>1 DEF Reserve, Charge, GiveBack, LedgerFault
  <2> QED  BY <2>1, <2>2, PriceAssumption DEF AccountNext
<1>2. ASSUME NEW c \in Calls,
             \/ Execute(c) \/ Executed(c) \/ Create(c) \/ Resolve(c) \/ Submit(c)
             \/ UpdateRead(c) \/ UpdateWrite(c) \/ GetPoll(c) \/ GetRead(c) \/ Ask(c)
             \/ Copy(c) \/ InsertRow(c) \/ Clean(c) \/ Settle(c) \/ Outcome(c) \/ Check(c)
             \/ UpdateFault(c) \/ InsertFault(c) \/ CreateFault(c)
      PROVE  UNCHANGED accountVars
  BY <1>2 DEF Execute, Executed, Create, Resolve, Submit, UpdateRead, UpdateWrite, GetPoll, GetRead, Ask,
       Copy, InsertRow, Clean, Settle, Outcome, Check, UpdateFault, InsertFault, CreateFault, Continue
<1>3. CASE \/ \E c \in Calls, p \in Procs, j \in Jobs : \E kind \in {"post", "poll", "read"} : Send(c, p, j, kind)
           \/ \E j \in Jobs : EndOperation(j)
           \/ \E p \in Procs : Crash(p)
           \/ UNCHANGED vars
  BY <1>3 DEF Send, EndOperation, Crash, vars
<1>4. ASSUME NEW c \in Calls, Resume(c) PROVE [AccountNext]_accountVars
  BY <1>1, <1>2, <1>4 DEF Resume
<1>5. ASSUME NEW c \in Calls, call[c] # None, Fault(c) PROVE [AccountNext]_accountVars
  BY <1>1, <1>2, <1>5 DEF Fault
<1> QED  BY <1>3, <1>4, <1>5 DEF Next

\* Whatever a video's requests in all processes do, and though the hold lasts
\* from the submission to a poll much later, the ledger sees operations of
\* CreditAccount only, each under its guard.
THEOREM VideoImplementsAccount == Spec => AccountSpec
<1>1. Init => AccountInit
  BY OpeningAssumption DEF Init, AccountInit
<1> QED  BY <1>1, NextIsAccountStep, VideoInvariant, PTL DEF Spec, AccountSpec

=============================================================================
