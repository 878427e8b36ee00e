---------------------- MODULE ImmediateGenerationProofs ----------------------
(* What is charged is stored, records tell their own job's outcome, and the   *)
(* provider is asked within its attempts, for every number of processes,      *)
(* requests, jobs, generation ids, attempts, crashes and faults.              *)
EXTENDS ImmediateGeneration, TLAPS

\* The stages of a call that runs its operation, those only an image has, and
\* those after which a call does nothing to its asset any more.
OfImage == {"create", "load", "store", "register", "clean", "complete"}
Operating == OfImage \cup {"resolve", "ask", "fail"}
Settled == {"release", "debit", "completed", "failed"}

Running(c) == Ran(c) = [at |-> "running", by |-> {c}]

\* The asset of call d is stored, and d will not delete it.
Kept(d) ==
    /\ call[d] # None /\ d \in objects \cap rows
    /\ \/ At(d, "execute") /\ Ran(d).at = "ok"
       \/ call[d].at \in Settled

\* What a call at its stage relies on: a job of its kind,
Classed(c) == call[c].at \notin {"find", "insert", "failed"} => class[Job(c)] = call[c].kind

\* an execution and a record of its own,
Owns(c) ==
    /\ call[c].at \in Operating => Running(c)
    /\ call[c].at \in OfImage => Is(c, "image")
    /\ call[c].at \in Operating \ {"create"} /\ Is(c, "image") =>
          /\ OwnRecord(c) # None /\ OwnRecord(c).by = c
          /\ OwnRecord(c).status \in {"queued", "processing"}
    /\ At(c, "create") /\ OwnRecord(c) # None => OwnRecord(c).by # c

\* its asset,
Stored(c) ==
    /\ At(c, "register") => c \in objects
    /\ At(c, "complete") => c \in objects \cap rows

\* its attempts,
Unasked(c) ==
    \/ call[c].at \in {"find", "insert", "reserve", "create", "resolve", "load"}
    \/ At(c, "execute") /\ Ran(c).at = "none"

Attempts(c) ==
    LET requests == asked[call[c].proc][Job(c)]
    IN  /\ Unasked(c) => call[c].attempt = 0
        /\ call[c].at \in {"create", "resolve", "load"} => requests = 0
        /\ At(c, "ask") =>
              /\ requests = call[c].attempt
              /\ IF Is(c, "image") THEN requests < MaxAttempts ELSE requests = 0

\* and the outcome it is about to charge or has delivered.
Outcome(c) ==
    /\ At(c, "debit") => Ran(c).at = "ok"
    /\ At(c, "completed") =>
          /\ phase[Job(c)] = "debited"
          /\ Is(c, "image") => \E d \in Calls : call[c].got = {d} /\ Kept(d) /\ Job(d) = Job(c)

CallsOK == \A c \in Calls : call[c] # None => Classed(c) /\ Owns(c) /\ Stored(c) /\ Attempts(c) /\ Outcome(c)

\* Nothing is held, run or asked for before there is a job, and a job is held
\* at the price of its class.
JobsOK ==
    \A j \in Jobs :
        /\ class[j] = "none" => phase[j] = "none"
        /\ phase[j] # "none" => held[j] = Price[class[j]]
        /\ phase[j] = "debited" /\ class[j] = "image" => \E d \in Calls : Kept(d) /\ Job(d) = j

ExecutionsOK ==
    \A p \in Procs, j \in Jobs :
        /\ class[j] = "none" => execution[p][j].at = "none"
        /\ execution[p][j].at = "none" => asked[p][j] = 0
        /\ execution[p][j].at = "ok" /\ class[j] = "image" =>
              \E d \in Calls : execution[p][j].by = {d} /\ Kept(d) /\ Job(d) = j

\* A record is of the image request that created it.
RecordsOK ==
    \A p \in Procs, g \in Generations : record[p][g] # None =>
        LET c == record[p][g].by
        IN  /\ call[c] # None /\ Is(c, "image")
            /\ call[c].proc = p /\ call[c].gen = g /\ Job(c) = record[p][g].job

IInv == TypeOK /\ CallsOK /\ JobsOK /\ ExecutionsOK /\ RecordsOK /\ RecordsAreOwn /\ AskedWithinAttempts

-----------------------------------------------------------------------------
(* Types. *)

\* What is stored under a generation id or a request is never taken for its
\* absence.
LEMMA NoneIsDistinct == None \notin Record /\ None \notin CallState
<1>1. "none" \in DOMAIN None
  BY DEF None
<1> QED  BY <1>1 DEF Record, CallState

\* Nothing has been requested yet.
LEMMA InitTyped == Init => TypeOK
<1> SUFFICES ASSUME Init PROVE TypeOK
  OBVIOUS
<1>1. AccountTypeOK
  <2>1. balance \in [Accounts -> Nat]
    BY OpeningAssumption DEF Init
  <2> QED  BY <2>1 DEF Init, AccountTypeOK, Phases
<1> QED  BY <1>1, BoundsAssumption DEF Init, NoRecords, NotAsked, NotRun, Execution, TypeOK

LEMMA CallTyped ==
    ASSUME TypeOK, NEW c \in Calls, call[c] # None
    PROVE  /\ call[c] \in CallState
           /\ Job(c) \in Jobs /\ call[c].proc \in Procs /\ call[c].gen \in Generations
           /\ call[c].kind \in Kinds /\ call[c].at \in Working \cup Answers
           /\ call[c].attempt \in 0 .. MaxAttempts
BY DEF TypeOK, CallState, Job

\* One call moves to another stage; it stays the same request.
Moves(c, to) ==
    /\ call' \in [Calls -> CallState \cup {None}]
    /\ call'[c] # None /\ call'[c].at = to
    /\ call'[c].kind = call[c].kind /\ call'[c].proc = call[c].proc
    /\ call'[c].job = call[c].job /\ call'[c].gen = call[c].gen
    /\ \A d \in Calls \ {c} : call'[d] = call[d]

\* It keeps its attempts and its answer.
Plainly(c, to) == Moves(c, to) /\ call'[c].attempt = call[c].attempt /\ call'[c].got = call[c].got

LEMMA GoMoves ==
    ASSUME TypeOK, NEW c \in Calls, call[c] # None, NEW to \in Working \cup Answers, Go(c, to)
    PROVE  Plainly(c, to)
<1>1. call[c] \in CallState
  BY CallTyped
<1> DEFINE r == [call[c] EXCEPT !.at = to]
<1>2. /\ r \in CallState /\ r.at = to /\ r.kind = call[c].kind /\ r.proc = call[c].proc
      /\ r.job = call[c].job /\ r.gen = call[c].gen /\ r.attempt = call[c].attempt /\ r.got = call[c].got
  BY <1>1 DEF CallState
<1>3. call' = [call EXCEPT ![c] = r]
  BY DEF Go, TypeOK
<1> HIDE DEF r
<1>4. r # None
  BY <1>2, NoneIsDistinct
<1> QED  BY <1>2, <1>3, <1>4 DEF Plainly, Moves, TypeOK

-----------------------------------------------------------------------------
(* What a step of one call leaves alone. *)

\* Only the own execution, record and object change, only the own job is
\* created or settled, and an asset stays when it has been kept.
Frame(c, to) ==
    /\ \A j \in Jobs : class'[j] = class[j] \/ (class[j] = "none" /\ j = Job(c))
    /\ \A j \in Jobs :
          \/ phase'[j] = phase[j] /\ held'[j] = held[j]
          \/ /\ j = Job(c) /\ class[j] # "none" /\ phase[j] \in {"none", "held"} /\ phase'[j] # "none"
             /\ held'[j] = Price[class[j]]
             /\ phase'[j] = "debited" => At(c, "debit")
    /\ \A p \in Procs, j \in Jobs :
          \/ execution'[p][j] = execution[p][j]
          \/ /\ p = call[c].proc /\ j = Job(c) /\ class[j] # "none"
             /\ execution[p][j].at = "none" \/ Running(c)
             /\ execution'[p][j].at # "none" /\ execution'[p][j].by = {c}
    /\ \A p \in Procs, j \in Jobs :
          asked'[p][j] = asked[p][j] \/ (p = call[c].proc /\ j = Job(c) /\ At(c, "ask"))
    /\ \A p \in Procs, g \in Generations :
          \/ record'[p][g] = record[p][g]
          \/ /\ p = call[c].proc /\ g = call[c].gen /\ Is(c, "image")
             /\ record[p][g] = None \/ record[p][g].by = c
             /\ record'[p][g] # None /\ record'[p][g].by = c /\ record'[p][g].job = Job(c)
    /\ objects \ {c} \subseteq objects' /\ rows \subseteq rows'
    /\ Kept(c) => to \in Settled /\ c \in objects'

\* What was kept stays kept.
LEMMA KeptStays ==
    ASSUME IInv, NEW c \in Calls, call[c] # None, NEW to, Moves(c, to), Frame(c, to), NEW d \in Calls, Kept(d)
    PROVE  Kept(d)' /\ Job(d)' = Job(d)
<1>1. CASE d = c
  BY <1>1 DEF Frame, Kept, Moves, Job
<1>2. CASE d # c
  <2>1. call'[d] = call[d] /\ call[d] # None /\ d \in objects' \cap rows'
    BY <1>2 DEF Moves, Frame, Kept
  <2>2. Job(d) \in Jobs /\ call[d].proc \in Procs
    BY <2>1, CallTyped DEF IInv
  <2>3. ASSUME At(d, "execute"), Ran(d).at = "ok" PROVE Ran(d)' = Ran(d)
    BY <2>1, <2>2, <2>3 DEF Frame, Running, Ran, Job
  <2> QED  BY <2>1, <2>3 DEF Kept, At, Job
<1> QED  BY <1>1, <1>2

\* What another call relies on is left alone.
LEMMA OthersKept ==
    ASSUME IInv, NEW c \in Calls, call[c] # None, NEW to, Moves(c, to), Frame(c, to),
           NEW d \in Calls \ {c}, call[d] # None
    PROVE  (Classed(d) /\ Owns(d) /\ Stored(d) /\ Attempts(d) /\ Outcome(d))'
<1>1. /\ call'[d] = call[d] /\ Job(d) \in Jobs /\ call[d].proc \in Procs /\ call[d].gen \in Generations
      /\ call[d].kind \in Kinds
  BY CallTyped DEF IInv, Moves
<1>2. Classed(d) /\ Owns(d) /\ Stored(d) /\ Attempts(d) /\ Outcome(d)
  BY DEF IInv, CallsOK
<1>3. Job(d)' = Job(d) /\ \A s : At(d, s)' = At(d, s) /\ Is(d, s)' = Is(d, s)
  BY <1>1 DEF Job, At, Is
<1>4. Classed(d)'
  <2>1. call[d].at \notin {"find", "insert", "failed"} => class[Job(d)] # "none"
    BY <1>1, <1>2 DEF Classed, Kinds
  <2> QED  BY <1>1, <1>2, <1>3, <2>1 DEF Classed, Frame
<1>5. Ran(d).at # "none" /\ Ran(d) # [at |-> "running", by |-> {c}] => Ran(d)' = Ran(d)
  BY <1>1 DEF Frame, Running, Ran, Job
<1>6. Ran(d)'.at = "none" => Ran(d).at = "none"
  BY <1>1 DEF Frame, Running, Ran, Job
<1>7. Owns(d)'
  <2>1. Running(d) => Running(d)'
    BY <1>5 DEF Running
  <2>2. OwnRecord(d)' = OwnRecord(d) \/ ((OwnRecord(d) = None \/ OwnRecord(d).by = c) /\ OwnRecord(d)'.by = c)
    BY <1>1 DEF OwnRecord, Frame
  <2> QED  BY <1>1, <1>2, <1>3, <2>1, <2>2 DEF Owns
<1>8. Stored(d)'
  BY <1>1, <1>2, <1>3 DEF Stored, Frame
<1>9. Attempts(d)'
  <2>1. call[d].at \in {"create", "resolve", "load", "ask"} =>
           asked'[call[d].proc][Job(d)] = asked[call[d].proc][Job(d)]
    <3>1. ASSUME call[d].at \in Operating, call[c].at \in Operating, Job(c) = Job(d)
          PROVE  call[c].proc # call[d].proc
      <4>1. Running(c) /\ Running(d)
        BY <3>1 DEF IInv, CallsOK, Owns
      <4>2. {c} # {d}
        OBVIOUS
      <4> QED  BY <3>1, <4>1, <4>2 DEF Running, Ran
    <3> QED  BY <1>1, <3>1 DEF Frame, Operating, OfImage, At
  <2>2. Unasked(d)' => Unasked(d)
    BY <1>1, <1>3, <1>6 DEF Unasked
  <2>3. At(d, "ask") <=> call[d].at = "ask"
    BY DEF At
  <2> DEFINE requests == asked[call[d].proc][Job(d)]
  <2>4. Attempts(d) <=>
           /\ Unasked(d) => call[d].attempt = 0
           /\ call[d].at \in {"create", "resolve", "load"} => requests = 0
           /\ call[d].at = "ask" =>
                 /\ requests = call[d].attempt
                 /\ IF Is(d, "image") THEN requests < MaxAttempts ELSE requests = 0
    BY <2>3 DEF Attempts
  <2>5. call[d].at \in {"create", "resolve", "load", "ask"} => requests' = requests
    BY <1>1, <1>3, <2>1
  <2> QED  BY <1>1, <1>2, <1>3, <2>2, <2>4, <2>5 DEF Attempts, At
<1>10. Outcome(d)'
  <2>1. Ran(d).at = "ok" => Ran(d)' = Ran(d)
    BY <1>5
  <2>2. At(d, "completed") => phase'[Job(d)] = "debited"
    BY <1>1, <1>2 DEF Outcome, Frame
  <2> QED  BY <1>1, <1>2, <1>3, <2>1, <2>2, KeptStays DEF Outcome
<1> QED  BY <1>4, <1>7, <1>8, <1>9, <1>10

\* A record tells the execution it belongs to, as RecordsAreOwn has it.
Told(p, g) ==
    LET r == record[p][g]
        outcome == CASE r.status \in {"queued", "processing"} -> "running"
                     [] r.status = "completed" -> "ok"
                     [] r.status = "failed" -> "failed"
    IN  execution[p][r.job] = [at |-> outcome, by |-> {r.by}] /\ r.asset \subseteq {r.by}

\* What the step of a call owes its own job and its own record.
Owed(c) ==
    /\ Classed(c)' /\ Owns(c)' /\ Stored(c)' /\ Attempts(c)' /\ Outcome(c)'
    /\ UNCHANGED <<record, execution>> \/
          (OwnRecord(c)' # None /\ OwnRecord(c)'.by = c => Told(call[c].proc, call[c].gen)')
    /\ Ran(c)' # Ran(c) /\ Ran(c)'.at = "ok" /\ class[Job(c)] = "image" => Kept(c)'
    /\ asked' # asked => asked'[call[c].proc][Job(c)] <= IF class[Job(c)] = "image" THEN MaxAttempts ELSE 1

LEMMA StepKeeps ==
    ASSUME IInv, NEW c \in Calls, call[c] # None, NEW to, Moves(c, to), Frame(c, to), Owed(c), TypeOK'
    PROVE  IInv'
<1>1. /\ Job(c)' = Job(c) /\ Ran(c)' = execution'[call[c].proc][Job(c)]
      /\ OwnRecord(c)' = record'[call[c].proc][call[c].gen]
      /\ Job(c) \in Jobs /\ call[c].proc \in Procs /\ call[c].gen \in Generations
  BY CallTyped DEF IInv, Moves, Job, Ran, OwnRecord
<1>2. CallsOK'
  <2>1. \A d \in Calls \ {c} : call'[d] = call[d]
    BY DEF Moves
  <2> QED  BY <2>1, OthersKept DEF CallsOK, Owed
<1>3. At(c, "debit") => Ran(c).at = "ok" /\ class[Job(c)] = call[c].kind
  BY DEF IInv, CallsOK, Outcome, Classed, At
<1>4. JobsOK'
  <2> SUFFICES ASSUME NEW j \in Jobs
               PROVE  /\ class'[j] = "none" => phase'[j] = "none"
                      /\ phase'[j] # "none" => held'[j] = Price[class'[j]]
                      /\ phase'[j] = "debited" /\ class'[j] = "image" => \E d \in Calls : (Kept(d) /\ Job(d) = j)'
    BY DEF JobsOK
  <2>1. /\ class[j] = "none" => phase[j] = "none"
        /\ phase[j] # "none" => held[j] = Price[class[j]]
        /\ phase[j] = "debited" /\ class[j] = "image" => \E d \in Calls : Kept(d) /\ Job(d) = j
    BY DEF IInv, JobsOK
  <2>2. ASSUME phase'[j] = "debited", class'[j] = "image" PROVE \E d \in Calls : (Kept(d) /\ Job(d) = j)'
    <3>1. CASE phase[j] = "debited"
      <4>1. class[j] = "image"
        BY <2>1, <2>2, <3>1 DEF Frame
      <4> QED  BY <2>1, <3>1, <4>1, KeptStays
    <3>2. CASE phase[j] # "debited"
      <4>1. j = Job(c) /\ class[j] # "none" /\ At(c, "debit")
        BY <2>2, <3>2 DEF Frame
      <4>2. class[j] = "image"
        BY <2>2, <4>1 DEF Frame
      <4>3. PICK d \in Calls : Kept(d) /\ Job(d) = j
        BY <1>1, <1>3, <4>1, <4>2 DEF IInv, ExecutionsOK, Ran
      <4> QED  BY <4>3, KeptStays
    <3> QED  BY <3>1, <3>2
  <2> QED  BY <2>1, <2>2 DEF Frame
<1>5. ExecutionsOK'
  <2> SUFFICES ASSUME NEW p \in Procs, NEW j \in Jobs
               PROVE  /\ class'[j] = "none" => execution'[p][j].at = "none"
                      /\ execution'[p][j].at = "none" => asked'[p][j] = 0
                      /\ execution'[p][j].at = "ok" /\ class'[j] = "image" =>
                            \E d \in Calls : execution'[p][j].by = {d} /\ (Kept(d) /\ Job(d) = j)'
    BY DEF ExecutionsOK
  <2>1. /\ class[j] = "none" => execution[p][j].at = "none"
        /\ execution[p][j].at = "none" => asked[p][j] = 0
        /\ execution[p][j].at = "ok" /\ class[j] = "image" =>
              \E d \in Calls : execution[p][j].by = {d} /\ Kept(d) /\ Job(d) = j
    BY DEF IInv, ExecutionsOK
  <2>2. execution[p][j].at = "none" => asked'[p][j] = asked[p][j]
    <3>1. At(c, "ask") => execution[call[c].proc][Job(c)].at = "running"
      <4>1. Owns(c)
        BY DEF IInv, CallsOK
      <4>2. At(c, "ask") => Running(c)
        BY <4>1 DEF Owns, Operating, At
      <4> QED  BY <4>2 DEF Running, Ran
    <3>2. asked'[p][j] = asked[p][j] \/ (p = call[c].proc /\ j = Job(c) /\ At(c, "ask"))
      BY DEF Frame
    <3> QED  BY <3>1, <3>2
  <2>3. execution'[p][j].at = "none" => execution[p][j].at = "none"
    BY DEF Frame
  <2>4. ASSUME execution'[p][j].at = "ok", class'[j] = "image"
        PROVE  \E d \in Calls : execution'[p][j].by = {d} /\ (Kept(d) /\ Job(d) = j)'
    <3>1. CASE execution'[p][j] = execution[p][j]
      <4>1. class[j] = "image"
        BY <2>1, <2>4, <3>1 DEF Frame
      <4> QED  BY <2>1, <2>4, <3>1, <4>1, KeptStays
    <3>2. CASE execution'[p][j] # execution[p][j]
      <4>1. p = call[c].proc /\ j = Job(c) /\ class[j] = "image" /\ execution'[p][j].by = {c}
        BY <2>4, <3>2 DEF Frame
      <4>2. Kept(c)'
        BY <1>1, <2>4, <3>2, <4>1 DEF Owed, Ran
      <4> QED  BY <1>1, <4>1, <4>2
    <3> QED  BY <3>1, <3>2
  <2> QED  BY <2>1, <2>2, <2>3, <2>4 DEF Frame
<1>6. RecordsOK'
  <2> SUFFICES ASSUME NEW p \in Procs, NEW g \in Generations, record'[p][g] # None
               PROVE  LET b == record'[p][g].by
                      IN  /\ call'[b] # None /\ call'[b].kind = "image"
                          /\ call'[b].proc = p /\ call'[b].gen = g /\ call'[b].job = record'[p][g].job
    BY DEF RecordsOK, Is, Job
  <2>1. CASE record'[p][g] = record[p][g]
    <3> DEFINE b == record[p][g].by
    <3>1. /\ b \in Calls /\ call[b] # None /\ call[b].kind = "image"
          /\ call[b].proc = p /\ call[b].gen = g /\ call[b].job = record[p][g].job
      BY <2>1 DEF IInv, RecordsOK, TypeOK, Record, Is, Job
    <3> QED  BY <2>1, <3>1 DEF Moves
  <2>2. CASE record'[p][g] # record[p][g]
    BY <2>2 DEF Frame, Moves, Is, Job
  <2> QED  BY <2>1, <2>2
<1>7. RecordsAreOwn'
  <2> SUFFICES ASSUME NEW p \in Procs, NEW g \in Generations, record'[p][g] # None PROVE Told(p, g)'
    BY DEF RecordsAreOwn, Told
  <2>1. record[p][g] # None => Told(p, g)
    BY DEF IInv, RecordsAreOwn, Told
  <2>2. CASE UNCHANGED <<record, execution>>
    BY <2>1, <2>2 DEF Told
  <2>3. CASE ~UNCHANGED <<record, execution>>
    <3>1. CASE p = call[c].proc /\ g = call[c].gen /\ record'[p][g].by = c
      <4>1. Told(call[c].proc, call[c].gen)'
        BY <1>1, <2>3, <3>1 DEF Owed
      <4> QED  BY <3>1, <4>1 DEF Told, Moves
    <3>2. CASE ~(p = call[c].proc /\ g = call[c].gen /\ record'[p][g].by = c)
      <4>1. record'[p][g] = record[p][g]
        BY <3>2 DEF Frame
      <4> DEFINE r == record[p][g]
      <4>2. r.by # c /\ r.job \in Jobs /\ r \in Record
        <5>1. r # None /\ r \in Record
          BY <4>1 DEF IInv, TypeOK
        <5>2. call[r.by].proc = p /\ call[r.by].gen = g
          BY <5>1 DEF IInv, RecordsOK
        <5> QED  BY <3>2, <4>1, <5>1, <5>2 DEF Record
      <4>3. execution[p][r.job].at # "none" /\ execution[p][r.job].by = {r.by}
        BY <2>1, <4>1, <4>2 DEF Told, Record
      <4>4. {r.by} # {c}
        BY <4>2
      <4>5. execution'[p][r.job] = execution[p][r.job]
        <5>1. Running(c) => execution[call[c].proc][Job(c)].by = {c}
          BY DEF Running, Ran
        <5>2. \/ execution'[p][r.job] = execution[p][r.job]
              \/ p = call[c].proc /\ r.job = Job(c) /\ (execution[p][r.job].at = "none" \/ Running(c))
          <6> HIDE DEF r
          <6> QED  BY <4>2 DEF Frame
        <5> QED  BY <4>3, <4>4, <5>1, <5>2
      <4> QED  BY <2>1, <4>1, <4>5 DEF Told
    <3> QED  BY <3>1, <3>2
  <2> QED  BY <2>2, <2>3
<1>8. AskedWithinAttempts'
  <2> SUFFICES ASSUME NEW p \in Procs, NEW j \in Jobs
               PROVE  asked'[p][j] <= IF class'[j] = "image" THEN MaxAttempts ELSE 1
    BY DEF AskedWithinAttempts
  <2>1. CASE asked'[p][j] = asked[p][j]
    <3>1. CASE class'[j] = class[j]
      BY <2>1, <3>1 DEF IInv, AskedWithinAttempts
    <3>2. CASE class'[j] # class[j]
      <4>1. asked[p][j] = 0
        BY <3>2 DEF Frame, IInv, ExecutionsOK
      <4> QED  BY <2>1, <4>1, BoundsAssumption
    <3> QED  BY <3>1, <3>2
  <2>2. CASE asked'[p][j] # asked[p][j]
    <3>1. p = call[c].proc /\ j = Job(c) /\ At(c, "ask")
      BY <2>2 DEF Frame
    <3>2. class[j] # "none"
      BY <3>1, CallTyped DEF IInv, CallsOK, Classed, At, Kinds
    <3>3. class'[j] = class[j]
      BY <3>2 DEF Frame
    <3> QED  BY <2>2, <3>1, <3>3 DEF Owed
  <2> QED  BY <2>1, <2>2
<1> QED  BY <1>2, <1>4, <1>5, <1>6, <1>7, <1>8 DEF IInv

-----------------------------------------------------------------------------
(* The steps of a call that change nothing but the call, its job or its hold. *)

\* What such a step may do to its job and to the hold.
JobFrame(c) == \A j \in Jobs : class'[j] = class[j] \/ (class[j] = "none" /\ j = Job(c))
HoldFrame(c) ==
    \A j \in Jobs :
        \/ phase'[j] = phase[j] /\ held'[j] = held[j]
        \/ /\ j = Job(c) /\ class[j] # "none" /\ phase[j] \in {"none", "held"} /\ phase'[j] # "none"
           /\ held'[j] = Price[class[j]]
           /\ phase'[j] = "debited" => At(c, "debit")

\* Where it may lead.
Leads(c, to) ==
    \/ call[c].at \in {"find", "insert", "reserve"} /\ to \in {"insert", "reserve", "execute", "failed"}
    \/ At(c, "execute") /\ to = "debit" /\ Ran(c).at = "ok"
    \/ At(c, "execute") /\ to = "release" /\ Ran(c).at = "failed"
    \/ call[c].at \in {"release", "debit"} /\ to = "failed"
    \/ At(c, "resolve") /\ Is(c, "script") /\ to \in {"ask", "fail"}
    \/ At(c, "load") /\ to \in {"ask", "fail"}

LEMMA QuietKeeps ==
    ASSUME IInv, NEW c \in Calls, call[c] # None, NEW to, Plainly(c, to), Leads(c, to), TypeOK',
           UNCHANGED <<record, asked, objects, rows, execution>>,
           JobFrame(c), HoldFrame(c),
           to \notin {"insert", "failed"} => class'[Job(c)] = call[c].kind
    PROVE  IInv'
<1>1. /\ Job(c) \in Jobs /\ call[c].proc \in Procs /\ call[c].gen \in Generations
      /\ Classed(c) /\ Owns(c) /\ Stored(c) /\ Attempts(c) /\ Outcome(c)
  BY CallTyped DEF IInv, CallsOK
<1>2. /\ Moves(c, to) /\ call'[c].at = to /\ call'[c].attempt = call[c].attempt
      /\ call'[c].kind = call[c].kind /\ Job(c)' = Job(c) /\ call'[c].proc = call[c].proc
      /\ Ran(c)' = Ran(c) /\ OwnRecord(c)' = OwnRecord(c)
  BY DEF Plainly, Moves, Job, Ran, OwnRecord
<1>3. Kept(c) => to \in Settled
  BY DEF Kept, Leads, Settled, At
<1>4. Frame(c, to)
  BY <1>3 DEF Frame, JobFrame, HoldFrame, Kept
<1>5. Classed(c)'
  BY <1>2 DEF Classed
<1>6. Owns(c)'
  <2>1. to \in Operating => to \in {"ask", "fail"} /\ call[c].at \in Operating \ {"create"}
    BY DEF Leads, Operating, OfImage, At
  <2> QED  BY <1>1, <1>2, <2>1 DEF Owns, Running, Operating, OfImage, Is, At
<1>7. Stored(c)' /\ Outcome(c)'
  BY <1>2 DEF Leads, Stored, Outcome, At
<1>8. Attempts(c)'
  <2>1. Unasked(c)' => Unasked(c)
    BY <1>2 DEF Leads, Unasked, At
  <2>2. to \notin {"create", "resolve", "load"}
    BY DEF Leads
  <2>3. CASE to = "ask"
    <3>1. Unasked(c) /\ call[c].at \in {"create", "resolve", "load"}
          /\ (call[c].at = "load" => Is(c, "image")) /\ (call[c].at = "resolve" => Is(c, "script"))
      BY <1>1, <2>3 DEF Leads, Unasked, Owns, OfImage, At
    <3>2. asked[call[c].proc][Job(c)] = 0 /\ call[c].attempt = 0
      BY <1>1, <3>1 DEF Attempts
    <3> QED  BY <1>2, <2>3, <3>2, BoundsAssumption DEF Attempts, Unasked, At, Is
  <2>4. CASE to # "ask"
    BY <1>1, <1>2, <2>1, <2>2, <2>4 DEF Attempts, At
  <2> QED  BY <2>3, <2>4
<1>9. Owed(c)
  BY <1>2, <1>5, <1>6, <1>7, <1>8 DEF Owed
<1> QED  BY <1>2, <1>4, <1>9, StepKeeps

\* The steps that leave the ledger alone.
LEMMA ContinueKeeps ==
    ASSUME IInv, NEW c \in Calls, call[c] # None, NEW from, NEW to \in Working \cup Answers,
           Continue(c, from, to), Leads(c, to),
           to \notin {"insert", "failed"} => class[Job(c)] = call[c].kind
    PROVE  IInv'
<1>1. Plainly(c, to)
  BY GoMoves DEF IInv, Continue
<1>2. UNCHANGED <<accountVars, class, record, asked, objects, rows, execution, crashes, faults>>
  BY DEF Continue, assetVars
<1>3. TypeOK'
  BY <1>1, <1>2 DEF IInv, TypeOK, AccountTypeOK, accountVars, Plainly, Moves
<1>4. JobFrame(c) /\ HoldFrame(c)
  BY <1>2 DEF JobFrame, HoldFrame, accountVars
<1> QED  BY <1>1, <1>2, <1>3, <1>4, QuietKeeps

LEMMA OnwardsKeeps ==
    ASSUME IInv, NEW c \in Calls, call[c] # None,
           Find(c) \/ Executed(c) \/ ResolveScript(c) \/ LoadReferences(c)
    PROVE  IInv'
<1> USE DEF Working, Answers
<1>1. Classed(c)
  BY DEF IInv, CallsOK
<1>2. CASE Find(c)
  BY <1>2, ContinueKeeps DEF Find, Adopt, Leads, Continue, At
<1>3. CASE Executed(c)
  BY <1>1, <1>3, ContinueKeeps DEF Executed, Leads, Continue, At, Classed
<1>4. CASE ResolveScript(c)
  BY <1>1, <1>4, ContinueKeeps DEF ResolveScript, Leads, Continue, At, Classed
<1>5. CASE LoadReferences(c)
  BY <1>1, <1>5, ContinueKeeps DEF LoadReferences, Leads, Continue, At, Classed
<1> QED  BY <1>2, <1>3, <1>4, <1>5

\* A job is created for the kind of its first request.
LEMMA JobKeeps ==
    ASSUME IInv, NEW c \in Calls, call[c] # None, NEW to \in {"reserve", "failed"}, Go(c, to),
           At(c, "find") \/ At(c, "insert"), faults' \in 0 .. MaxFaults,
           UNCHANGED <<accountVars, record, asked, objects, rows, execution, crashes>>,
           \/ UNCHANGED class /\ to = "failed"
           \/ class[Job(c)] = "none" /\ class' = [class EXCEPT ![Job(c)] = call[c].kind]
    PROVE  IInv'
<1>1. Job(c) \in Jobs /\ call[c].kind \in Kinds
  BY CallTyped DEF IInv
<1>2. Plainly(c, to)
  BY GoMoves DEF IInv, Working, Answers
<1>3. class' \in [Jobs -> Kinds \cup {"none"}]
  BY <1>1 DEF IInv, TypeOK
<1>4. TypeOK'
  BY <1>2, <1>3 DEF IInv, TypeOK, AccountTypeOK, accountVars, Plainly, Moves
<1>5. JobFrame(c) /\ HoldFrame(c) /\ Leads(c, to)
  BY <1>1 DEF JobFrame, HoldFrame, Leads, accountVars, IInv, TypeOK, At
<1>6. to # "failed" => class'[Job(c)] = call[c].kind
  BY <1>1 DEF IInv, TypeOK
<1> QED  BY <1>2, <1>4, <1>5, <1>6, QuietKeeps

LEMMA InsertKeeps == ASSUME IInv, NEW c \in Calls, call[c] # None, Insert(c) PROVE IInv'
<1>1. CASE class[Job(c)] # "none" /\ Continue(c, "insert", Adopt(c))
  BY <1>1, ContinueKeeps DEF Adopt, Leads, Continue, At, Working, Answers
<1>2. CASE /\ At(c, "insert") /\ class[Job(c)] = "none"
           /\ class' = [class EXCEPT ![Job(c)] = call[c].kind] /\ Go(c, "reserve")
           /\ UNCHANGED <<accountVars, record, asked, assetVars, execution, crashes, faults>>
  BY <1>2, JobKeeps DEF assetVars, IInv, TypeOK
<1> QED  BY <1>1, <1>2 DEF Insert

\* An operation on the hold of a job keeps the ledger's types, and holds at the
\* price of the job's class.
LEMMA LedgerStep ==
    ASSUME IInv, NEW c \in Calls, call[c] # None, call[c].at \in {"reserve", "release", "debit"},
           \/ UNCHANGED accountVars
           \/ Hold(Job(c), JobPrice(Job(c))) \/ Release(Job(c))
           \/ Debit(Job(c)) /\ At(c, "debit")
    PROVE  AccountTypeOK' /\ HoldFrame(c)
<1>1. Job(c) \in Jobs /\ class[Job(c)] = call[c].kind /\ call[c].kind \in Kinds
  BY CallTyped DEF IInv, CallsOK, Classed
<1>2. Price[class[Job(c)]] \in Credits
  BY <1>1, PriceAssumption
<1>3. AccountTypeOK /\ \A j \in Jobs : phase[j] # "none" => held[j] = Price[class[j]]
  BY DEF IInv, TypeOK, JobsOK
<1>4. held[Job(c)] \in Nat
  <2>1. held[Job(c)] \in Credits \/ held[Job(c)] = 0
    BY <1>1, <1>3 DEF AccountTypeOK
  <2>2. CASE held[Job(c)] \in Credits
    BY <2>2, CreditsAssumption
  <2>3. CASE held[Job(c)] = 0
    BY <2>3
  <2> QED  BY <2>1, <2>2, <2>3
<1>5. class[Job(c)] # "none"
  BY <1>1 DEF Kinds
<1> USE JobAccountAssumption, CreditsAssumption DEF AccountTypeOK, Phases
<1>6. CASE UNCHANGED accountVars
  BY <1>3, <1>6 DEF accountVars, HoldFrame
<1>7. CASE Hold(Job(c), JobPrice(Job(c)))
  <2> DEFINE j == Job(c)
             n == Price[class[Job(c)]]
  <2>1. Hold(j, n) /\ j \in Jobs /\ n \in Credits /\ n \in Nat /\ class[j] # "none"
    BY <1>1, <1>2, <1>5, <1>7 DEF JobPrice
  <2>2. held'[j] = n /\ \A k \in Jobs \ {j} : held'[k] = held[k] /\ phase'[k] = phase[k]
    BY <1>3, <2>1 DEF Hold
  <2>3. phase[j] = "none" /\ phase'[j] = "held"
    BY <1>3, <2>1 DEF Hold
  <2>4. AccountTypeOK'
    <3> HIDE DEF n, j
    <3> QED  BY <1>3, <2>1 DEF Hold
  <2> QED  BY <2>1, <2>2, <2>3, <2>4 DEF HoldFrame
<1>8. CASE Release(Job(c))
  BY <1>1, <1>3, <1>4, <1>5, <1>8 DEF Release, HoldFrame
<1>9. CASE Debit(Job(c)) /\ At(c, "debit")
  BY <1>1, <1>3, <1>4, <1>5, <1>9 DEF Debit, HoldFrame
<1> QED  BY <1>6, <1>7, <1>8, <1>9

\* A call that goes on, or fails, after such an operation.
LEMMA HoldKeeps ==
    ASSUME IInv, NEW c \in Calls, call[c] # None, NEW to \in {"execute", "failed"}, Go(c, to),
           call[c].at \in {"reserve", "release", "debit"}, At(c, "reserve") \/ to = "failed",
           faults' \in 0 .. MaxFaults,
           UNCHANGED <<class, record, asked, objects, rows, execution, crashes>>,
           \/ UNCHANGED accountVars
           \/ Hold(Job(c), JobPrice(Job(c))) \/ Release(Job(c))
           \/ Debit(Job(c)) /\ At(c, "debit")
    PROVE  IInv'
<1>1. Plainly(c, to)
  BY GoMoves DEF IInv, Working, Answers
<1>2. AccountTypeOK' /\ HoldFrame(c)
  BY LedgerStep
<1>3. TypeOK'
  BY <1>1, <1>2 DEF IInv, TypeOK, Plainly, Moves
<1>4. JobFrame(c) /\ Leads(c, to)
  BY DEF JobFrame, Leads, At
<1>5. class'[Job(c)] = call[c].kind
  BY DEF IInv, CallsOK, Classed
<1> QED  BY <1>1, <1>2, <1>3, <1>4, <1>5, QuietKeeps

\* Whoever is handed an image is handed the kept asset of its job.
LEMMA DeliverKeeps ==
    ASSUME IInv, NEW c \in Calls, call[c] # None, At(c, "debit"), Deliver(c),
           Debit(Job(c)) \/ (phase[Job(c)] = "debited" /\ UNCHANGED accountVars),
           UNCHANGED <<class, record, asked, assetVars, execution, crashes, faults>>
    PROVE  IInv'
<1>1. /\ Job(c) \in Jobs /\ call[c].proc \in Procs /\ call[c] \in CallState
      /\ Classed(c) /\ Owns(c) /\ Outcome(c)
  BY CallTyped DEF IInv, CallsOK
<1>2. UNCHANGED <<class, record, asked, objects, rows, execution, crashes, faults>>
  BY DEF assetVars
<1>3. Ran(c).at = "ok" /\ class[Job(c)] = call[c].kind
  BY <1>1 DEF Outcome, Classed, At
<1>4. Is(c, "image") => \E d \in Calls : Ran(c).by = {d} /\ Kept(d) /\ Job(d) = Job(c)
  BY <1>1, <1>3 DEF IInv, ExecutionsOK, Ran, Is
<1>5. /\ Moves(c, "completed")
      /\ Is(c, "image") => call'[c].got = Ran(c).by
  <2>1. CASE DeliverScript(c)
    BY <2>1, GoMoves DEF DeliverScript, Plainly, Is, IInv, Working, Answers
  <2>2. CASE DeliverImage(c)
    <3> DEFINE r == [call[c] EXCEPT !.at = "completed", !.got = Ran(c).by]
    <3>1. Ran(c).by \subseteq Calls
      BY <1>4, <2>2 DEF DeliverImage
    <3>2. /\ r \in CallState /\ r.at = "completed" /\ r.kind = call[c].kind /\ r.proc = call[c].proc
          /\ r.job = call[c].job /\ r.gen = call[c].gen /\ r.got = Ran(c).by
      BY <1>1, <3>1 DEF CallState, Answers
    <3>3. call' = [call EXCEPT ![c] = r]
      BY <2>2 DEF DeliverImage, IInv, TypeOK
    <3> HIDE DEF r
    <3>4. r # None
      BY <3>2, NoneIsDistinct
    <3> QED  BY <3>2, <3>3, <3>4 DEF Moves, IInv, TypeOK
  <2> QED  BY <2>1, <2>2 DEF Deliver
<1>6. AccountTypeOK' /\ HoldFrame(c)
  BY LedgerStep DEF At
<1>7. TypeOK'
  BY <1>2, <1>5, <1>6 DEF IInv, TypeOK, Moves
<1>8. Frame(c, "completed")
  BY <1>2, <1>6 DEF Frame, HoldFrame, Kept, Settled
<1>9. phase'[Job(c)] = "debited"
  BY <1>1 DEF Debit, accountVars, IInv, TypeOK, AccountTypeOK
<1>10. /\ call'[c].at = "completed" /\ call'[c].kind = call[c].kind /\ Job(c)' = Job(c)
       /\ Ran(c)' = Ran(c) /\ OwnRecord(c)' = OwnRecord(c)
  BY <1>2, <1>5 DEF Moves, Job, Ran, OwnRecord
<1>11. Outcome(c)'
  <2>1. Is(c, "image") => \E d \in Calls : call'[c].got = {d} /\ (Kept(d) /\ Job(d) = Job(c))'
    BY <1>4, <1>5, <1>8, <1>10, KeptStays
  <2> QED  BY <1>9, <1>10, <2>1 DEF Outcome, At, Is
<1>12. Classed(c)' /\ Owns(c)' /\ Stored(c)' /\ Attempts(c)'
  BY <1>2, <1>3, <1>10 DEF Classed, Owns, Stored, Attempts, Unasked, At, Operating, OfImage
<1>13. Owed(c)
  BY <1>2, <1>10, <1>11, <1>12 DEF Owed
<1> QED  BY <1>5, <1>7, <1>8, <1>13, StepKeeps

LEMMA AccountKeeps ==
    ASSUME IInv, NEW c \in Calls, call[c] # None, Reserve(c) \/ GiveBack(c) \/ Charge(c)
    PROVE  IInv'
<1>1. /\ UNCHANGED <<class, record, asked, assetVars, execution, crashes, faults>>
      /\ UNCHANGED <<objects, rows>> /\ faults' \in 0 .. MaxFaults
  BY DEF Reserve, GiveBack, Charge, assetVars, IInv, TypeOK
<1>2. CASE Reserve(c)
  BY <1>1, <1>2, HoldKeeps DEF Reserve, At
<1>3. CASE GiveBack(c)
  BY <1>1, <1>3, HoldKeeps DEF GiveBack, At
<1>4. CASE Charge(c)
  BY <1>1, <1>4, HoldKeeps, DeliverKeeps DEF Charge, At
<1> QED  BY <1>2, <1>3, <1>4

-----------------------------------------------------------------------------
(* The operation. *)

LEMMA FinishStep ==
    ASSUME TypeOK, NEW c \in Calls, call[c] # None, NEW outcome \in {"running", "ok", "failed"},
           Finish(c, outcome)
    PROVE  /\ execution' \in [Procs -> [Jobs -> Execution]]
           /\ execution'[call[c].proc][Job(c)] = [at |-> outcome, by |-> {c}]
           /\ \A p \in Procs, j \in Jobs :
                 execution'[p][j] = execution[p][j] \/ (p = call[c].proc /\ j = Job(c))
<1>1. Job(c) \in Jobs /\ call[c].proc \in Procs
  BY CallTyped
<1>2. [at |-> outcome, by |-> {c}] \in Execution
  BY DEF Execution
<1>3. execution \in [Procs -> [Jobs -> Execution]]
  BY DEF TypeOK
<1> QED  BY <1>1, <1>2, <1>3 DEF Finish

LEMMA SetStep ==
    ASSUME TypeOK, NEW c \in Calls, call[c] # None, NEW r \in Record, SetRecord(c, r)
    PROVE  /\ record' \in [Procs -> [Generations -> Record \cup {None}]]
           /\ record'[call[c].proc][call[c].gen] = r
           /\ \A p \in Procs, g \in Generations :
                 record'[p][g] = record[p][g] \/ (p = call[c].proc /\ g = call[c].gen)
BY CallTyped DEF SetRecord, TypeOK

\* The own record of an operation, which only an image has.
LEMMA OwnRecordIs ==
    ASSUME IInv, NEW c \in Calls, call[c] # None, OwnRecord(c) # None
    PROVE  /\ OwnRecord(c) \in Record
           /\ OwnRecord(c).by = c => OwnRecord(c).job = Job(c) /\ Is(c, "image")
           /\ Told(call[c].proc, call[c].gen)
<1>1. call[c].proc \in Procs /\ call[c].gen \in Generations
  BY CallTyped DEF IInv
<1>2. OwnRecord(c) \in Record
  BY <1>1 DEF IInv, TypeOK, OwnRecord
<1>3. LET d == OwnRecord(c).by IN Is(d, "image") /\ Job(d) = OwnRecord(c).job
  BY <1>1 DEF IInv, RecordsOK, OwnRecord
<1>4. Told(call[c].proc, call[c].gen)
  BY <1>1 DEF IInv, RecordsAreOwn, Told, OwnRecord
<1> QED  BY <1>2, <1>3, <1>4

\* A step of the call that runs the operation.
LEMMA OperationKeeps ==
    ASSUME IInv, NEW c \in Calls, call[c] # None, call[c].at \in Operating, NEW to, Moves(c, to),
           UNCHANGED <<accountVars, class>>, TypeOK',
           \A p \in Procs, j \in Jobs :
               \/ execution'[p][j] = execution[p][j]
               \/ /\ p = call[c].proc /\ j = Job(c)
                  /\ execution'[p][j].at # "none" /\ execution'[p][j].by = {c},
           \A p \in Procs, j \in Jobs :
               asked'[p][j] = asked[p][j] \/ (p = call[c].proc /\ j = Job(c) /\ At(c, "ask")),
           \A p \in Procs, g \in Generations :
               \/ record'[p][g] = record[p][g]
               \/ /\ p = call[c].proc /\ g = call[c].gen /\ Is(c, "image")
                  /\ record[p][g] = None \/ record[p][g].by = c
                  /\ record'[p][g] # None /\ record'[p][g].by = c /\ record'[p][g].job = Job(c),
           objects \ {c} \subseteq objects', rows \subseteq rows', Owed(c)
    PROVE  IInv'
<1>1. Running(c) /\ Classed(c) /\ call[c].kind \in Kinds
  BY CallTyped DEF IInv, CallsOK, Owns
<1>2. class[Job(c)] # "none"
  BY <1>1 DEF Classed, Kinds, Operating, OfImage
<1>3. ~Kept(c)
  BY DEF Kept, Operating, OfImage, Settled, At
<1>4. Frame(c, to)
  BY <1>1, <1>2, <1>3 DEF Frame, accountVars
<1> QED  BY <1>4, StepKeeps

LEMMA ExecuteKeeps == ASSUME IInv, NEW c \in Calls, call[c] # None, Execute(c) PROVE IInv'
<1> DEFINE to == IF Is(c, "image") THEN "create" ELSE "resolve"
<1>1. /\ Job(c) \in Jobs /\ call[c].proc \in Procs /\ call[c].gen \in Generations
      /\ Classed(c) /\ Attempts(c) /\ At(c, "execute") /\ Ran(c).at = "none" /\ call[c].kind \in Kinds
  BY CallTyped DEF IInv, CallsOK, Execute
<1>2. UNCHANGED <<accountVars, class, record, asked, objects, rows, crashes, faults>>
  BY DEF Execute, assetVars
<1>3. Plainly(c, to)
  BY GoMoves DEF Execute, IInv, Working
<1>4. /\ execution' \in [Procs -> [Jobs -> Execution]]
      /\ execution'[call[c].proc][Job(c)] = [at |-> "running", by |-> {c}]
      /\ \A p \in Procs, j \in Jobs :
            execution'[p][j] = execution[p][j] \/ (p = call[c].proc /\ j = Job(c))
  BY FinishStep DEF Execute, IInv
<1>5. TypeOK'
  BY <1>2, <1>3, <1>4 DEF IInv, TypeOK, AccountTypeOK, accountVars, Plainly, Moves
<1>6. class[Job(c)] = call[c].kind /\ class[Job(c)] # "none"
  BY <1>1 DEF Classed, At, Kinds
<1>7. ~Kept(c)
  BY <1>1 DEF Kept, Settled, At
<1>8. Frame(c, to)
  BY <1>1, <1>2, <1>4, <1>6, <1>7 DEF Frame, accountVars, Ran
<1>9. /\ call'[c].at = to /\ call'[c].kind = call[c].kind /\ Job(c)' = Job(c)
      /\ call'[c].attempt = call[c].attempt /\ call'[c].proc = call[c].proc
      /\ Ran(c)' = [at |-> "running", by |-> {c}] /\ OwnRecord(c)' = OwnRecord(c)
  BY <1>2, <1>3, <1>4 DEF Plainly, Moves, Job, Ran, OwnRecord
<1>10. OwnRecord(c) # None => OwnRecord(c).by # c
  <2> SUFFICES ASSUME OwnRecord(c) # None, OwnRecord(c).by = c PROVE FALSE
    OBVIOUS
  <2>1. OwnRecord(c) \in Record /\ OwnRecord(c).job = Job(c) /\ Told(call[c].proc, call[c].gen)
    BY OwnRecordIs
  <2>2. OwnRecord(c).status \in {"queued", "processing", "completed", "failed"}
    BY <2>1 DEF Record
  <2>3. \E outcome \in {"running", "ok", "failed"} : Ran(c) = [at |-> outcome, by |-> {c}]
    BY <2>1, <2>2 DEF Told, OwnRecord, Ran
  <2>4. Ran(c).at \in {"running", "ok", "failed"}
    BY <2>3
  <2> QED  BY <1>1, <2>4
<1>11. call[c].attempt = 0 /\ asked[call[c].proc][Job(c)] = 0
  BY <1>1 DEF IInv, ExecutionsOK, Attempts, Unasked, Ran
<1>12. Classed(c)' /\ Stored(c)' /\ Outcome(c)'
  BY <1>2, <1>6, <1>9 DEF Classed, Stored, Outcome, At
<1>13. Owns(c)'
  BY <1>1, <1>9, <1>10 DEF Owns, Running, At, Is, OfImage, Operating, Kinds
<1>14. Attempts(c)'
  BY <1>2, <1>9, <1>11 DEF Attempts, At
<1>15. Owed(c)
  BY <1>2, <1>9, <1>10, <1>12, <1>13, <1>14 DEF Owed
<1> QED  BY <1>3, <1>5, <1>8, <1>15, StepKeeps DEF Plainly

\* What a record is replaced by: the own record, of the own job.
Replaces(c, r) ==
    /\ SetRecord(c, r)
    /\ r \in Record /\ r.by = c /\ r.job = Job(c) /\ Is(c, "image")
    /\ OwnRecord(c) = None \/ OwnRecord(c).by = c

LEMMA ReplacesStep ==
    ASSUME IInv, NEW c \in Calls, call[c] # None, NEW r, Replaces(c, r)
    PROVE  /\ record' \in [Procs -> [Generations -> Record \cup {None}]]
           /\ record'[call[c].proc][call[c].gen] = r /\ r # None
           /\ \A p \in Procs, g \in Generations :
                 \/ record'[p][g] = record[p][g]
                 \/ /\ p = call[c].proc /\ g = call[c].gen /\ Is(c, "image")
                    /\ record[p][g] = None \/ record[p][g].by = c
                    /\ record'[p][g] # None /\ record'[p][g].by = c /\ record'[p][g].job = Job(c)
<1>1. r \in Record /\ r # None
  BY NoneIsDistinct DEF Replaces
<1> QED  BY <1>1, SetStep DEF IInv, Replaces, OwnRecord

\* An operation goes on with its record unfinished.
LEMMA GoingKeeps ==
    ASSUME IInv, NEW c \in Calls, call[c] # None, call[c].at \in Operating, Is(c, "image"),
           NEW to \in Operating \ {"create"}, Moves(c, to),
           UNCHANGED <<accountVars, class, execution, crashes>>, faults' \in 0 .. MaxFaults,
           \/ UNCHANGED record /\ ~At(c, "create")
           \/ \E r : Replaces(c, r) /\ r.status \in {"queued", "processing"},
           asked' \in [Procs -> [Jobs -> Nat]],
           \A p \in Procs, j \in Jobs :
               asked'[p][j] = asked[p][j] \/ (p = call[c].proc /\ j = Job(c) /\ At(c, "ask")),
           asked'[call[c].proc][Job(c)] <= MaxAttempts,
           objects' \subseteq Calls, rows' \subseteq Calls,
           objects \ {c} \subseteq objects', rows \subseteq rows', Stored(c)', Attempts(c)'
    PROVE  IInv'
<1>1. /\ Job(c) \in Jobs /\ call[c].proc \in Procs /\ call[c].gen \in Generations
      /\ Classed(c) /\ Owns(c) /\ Running(c)
  BY CallTyped DEF IInv, CallsOK, Owns
<1>2. /\ call'[c].at = to /\ call'[c].kind = call[c].kind /\ Job(c)' = Job(c)
      /\ call'[c].proc = call[c].proc /\ Ran(c)' = [at |-> "running", by |-> {c}]
      /\ OwnRecord(c)' = record'[call[c].proc][call[c].gen]
  BY <1>1 DEF Moves, Job, Ran, OwnRecord, Running
<1>3. /\ record' \in [Procs -> [Generations -> Record \cup {None}]]
      /\ OwnRecord(c)' # None /\ OwnRecord(c)'.by = c /\ OwnRecord(c)'.job = Job(c)
      /\ OwnRecord(c)' \in Record /\ OwnRecord(c)'.status \in {"queued", "processing"}
      /\ \A p \in Procs, g \in Generations :
            \/ record'[p][g] = record[p][g]
            \/ /\ p = call[c].proc /\ g = call[c].gen /\ Is(c, "image")
               /\ record[p][g] = None \/ record[p][g].by = c
               /\ record'[p][g] # None /\ record'[p][g].by = c /\ record'[p][g].job = Job(c)
  <2>1. CASE UNCHANGED record /\ ~At(c, "create")
    <3>1. OwnRecord(c) # None /\ OwnRecord(c).by = c /\ OwnRecord(c).status \in {"queued", "processing"}
      BY <1>1, <2>1 DEF Owns, At
    <3>2. OwnRecord(c) \in Record /\ OwnRecord(c).job = Job(c)
      BY <3>1, OwnRecordIs
    <3>3. OwnRecord(c)' = OwnRecord(c)
      BY <1>2, <2>1 DEF OwnRecord
    <3> QED  BY <2>1, <3>1, <3>2, <3>3 DEF IInv, TypeOK
  <2>2. ASSUME NEW r, Replaces(c, r), r.status \in {"queued", "processing"}
        PROVE  /\ record' \in [Procs -> [Generations -> Record \cup {None}]]
               /\ OwnRecord(c)' = r /\ r # None /\ r.by = c /\ r.job = Job(c)
               /\ r \in Record /\ r.status \in {"queued", "processing"}
               /\ \A p \in Procs, g \in Generations :
                     \/ record'[p][g] = record[p][g]
                     \/ /\ p = call[c].proc /\ g = call[c].gen /\ Is(c, "image")
                        /\ record[p][g] = None \/ record[p][g].by = c
                        /\ record'[p][g] # None /\ record'[p][g].by = c /\ record'[p][g].job = Job(c)
    BY <1>2, <2>2, ReplacesStep DEF Replaces
  <2> QED  BY <2>1, <2>2
<1>4. TypeOK'
  BY <1>3 DEF IInv, TypeOK, AccountTypeOK, accountVars, Moves
<1>5. Classed(c)'
  BY <1>1, <1>2 DEF Classed, Operating, OfImage
<1>6. Owns(c)'
  BY <1>2, <1>3 DEF Owns, Running, Is, At, OfImage, Operating
<1>7. Outcome(c)'
  BY <1>2 DEF Outcome, Operating, OfImage, At
<1>8. Told(call[c].proc, call[c].gen)'
  <2>1. OwnRecord(c)'.asset = {}
    BY <1>3 DEF Record
  <2> QED  BY <1>2, <1>3, <2>1 DEF Told, Ran, OwnRecord, Moves
<1>9. class[Job(c)] = "image"
  BY <1>1 DEF Classed, Operating, OfImage, Is
<1>10. Ran(c)' = Ran(c)
  BY <1>1, <1>2 DEF Running
<1>11. Owed(c)
  BY <1>5, <1>6, <1>7, <1>8, <1>9, <1>10 DEF Owed
<1> QED  BY <1>3, <1>4, <1>11, OperationKeeps

\* An operation ends, and its record, if it has one, tells how.
LEMMA EndingKeeps ==
    ASSUME IInv, NEW c \in Calls, call[c] # None, call[c].at \in Operating, Go(c, "execute"),
           NEW outcome \in {"ok", "failed"}, Finish(c, outcome),
           UNCHANGED <<accountVars, class, objects, rows, crashes, faults>>,
           \/ UNCHANGED record /\ (OwnRecord(c) # None => OwnRecord(c).by # c)
           \/ \E r : /\ Replaces(c, r) /\ r.asset \subseteq {c}
                   /\ r.status = IF outcome = "ok" THEN "completed" ELSE "failed",
           asked' \in [Procs -> [Jobs -> Nat]],
           \A p \in Procs, j \in Jobs :
               asked'[p][j] = asked[p][j] \/ (p = call[c].proc /\ j = Job(c) /\ At(c, "ask")),
           asked' # asked => asked'[call[c].proc][Job(c)] <= 1,
           outcome = "ok" /\ Is(c, "image") => c \in objects \cap rows
    PROVE  IInv'
<1>1. /\ Job(c) \in Jobs /\ call[c].proc \in Procs /\ call[c].gen \in Generations
      /\ Classed(c) /\ Owns(c) /\ Running(c)
  BY CallTyped DEF IInv, CallsOK, Owns
<1>2. Moves(c, "execute")
  BY GoMoves DEF IInv, Plainly, Working
<1>3. /\ execution' \in [Procs -> [Jobs -> Execution]]
      /\ execution'[call[c].proc][Job(c)] = [at |-> outcome, by |-> {c}]
      /\ \A p \in Procs, j \in Jobs :
            execution'[p][j] = execution[p][j] \/ (p = call[c].proc /\ j = Job(c))
  BY FinishStep DEF IInv
<1>4. /\ call'[c].at = "execute" /\ call'[c].kind = call[c].kind /\ Job(c)' = Job(c)
      /\ call'[c].proc = call[c].proc /\ Ran(c)' = [at |-> outcome, by |-> {c}]
      /\ OwnRecord(c)' = record'[call[c].proc][call[c].gen]
  BY <1>1, <1>2, <1>3 DEF Moves, Job, Ran, OwnRecord
<1>5. /\ record' \in [Procs -> [Generations -> Record \cup {None}]]
      /\ \A p \in Procs, g \in Generations :
            \/ record'[p][g] = record[p][g]
            \/ /\ p = call[c].proc /\ g = call[c].gen /\ Is(c, "image")
               /\ record[p][g] = None \/ record[p][g].by = c
               /\ record'[p][g] # None /\ record'[p][g].by = c /\ record'[p][g].job = Job(c)
      /\ OwnRecord(c)' # None /\ OwnRecord(c)'.by = c => Told(call[c].proc, call[c].gen)'
  <2>1. CASE UNCHANGED record /\ (OwnRecord(c) # None => OwnRecord(c).by # c)
    <3>1. OwnRecord(c)' = OwnRecord(c)
      BY <1>4, <2>1 DEF OwnRecord
    <3> QED  BY <2>1, <3>1 DEF IInv, TypeOK
  <2>2. ASSUME NEW r, Replaces(c, r), r.asset \subseteq {c},
               r.status = IF outcome = "ok" THEN "completed" ELSE "failed"
        PROVE  /\ record' \in [Procs -> [Generations -> Record \cup {None}]]
               /\ \A p \in Procs, g \in Generations :
                     \/ record'[p][g] = record[p][g]
                     \/ /\ p = call[c].proc /\ g = call[c].gen /\ Is(c, "image")
                        /\ record[p][g] = None \/ record[p][g].by = c
                        /\ record'[p][g] # None /\ record'[p][g].by = c /\ record'[p][g].job = Job(c)
               /\ Told(call[c].proc, call[c].gen)'
    <3>1. OwnRecord(c)' = r /\ r.by = c /\ r.job = Job(c)
      BY <1>4, <2>2, ReplacesStep DEF Replaces
    <3>2. Told(call[c].proc, call[c].gen)'
      BY <1>2, <1>4, <2>2, <3>1 DEF Told, Ran, OwnRecord, Moves
    <3> QED  BY <2>2, <3>2, ReplacesStep
  <2> QED  BY <2>1, <2>2
<1>6. TypeOK'
  BY <1>2, <1>3, <1>5 DEF IInv, TypeOK, AccountTypeOK, accountVars, Moves
<1>7. Classed(c)'
  BY <1>1, <1>4 DEF Classed, Operating, OfImage
<1>8. Owns(c)' /\ Stored(c)' /\ Attempts(c)' /\ Outcome(c)'
  BY <1>4 DEF Owns, Stored, Attempts, Unasked, Outcome, Operating, OfImage, At
<1>9. class[Job(c)] = "image" => Is(c, "image")
  BY <1>1 DEF Classed, Operating, OfImage, Is
<1>10. Ran(c)'.at = "ok" /\ class[Job(c)] = "image" => Kept(c)'
  BY <1>2, <1>4, <1>9 DEF Kept, At, Moves
<1>11. 1 <= MaxAttempts
  BY BoundsAssumption
<1>12. asked' # asked => asked'[call[c].proc][Job(c)] <= IF class[Job(c)] = "image" THEN MaxAttempts ELSE 1
  <2>1. asked'[call[c].proc][Job(c)] \in Nat /\ MaxAttempts \in Nat
    BY <1>1, BoundsAssumption
  <2> QED  BY <1>11, <2>1
<1>13. Owed(c)
  BY <1>5, <1>7, <1>8, <1>10, <1>12 DEF Owed
<1>14. \A p \in Procs, j \in Jobs :
          \/ execution'[p][j] = execution[p][j]
          \/ /\ p = call[c].proc /\ j = Job(c)
             /\ execution'[p][j].at # "none" /\ execution'[p][j].by = {c}
  BY <1>3
<1> QED  BY <1>2, <1>5, <1>6, <1>13, <1>14, OperationKeeps

LEMMA OperatingFacts ==
    ASSUME IInv, NEW c \in Calls, call[c] # None, call[c].at \in Operating
    PROVE  /\ Owns(c) /\ Stored(c) /\ Attempts(c)
           /\ Job(c) \in Jobs /\ call[c].proc \in Procs /\ call[c].attempt \in 0 .. MaxAttempts
           /\ asked[call[c].proc][Job(c)] \in Nat
           /\ asked[call[c].proc][Job(c)] <= MaxAttempts
           /\ Is(c, "image") /\ ~At(c, "create") =>
                 /\ OwnRecord(c) # None /\ OwnRecord(c) \in Record
                 /\ OwnRecord(c).by = c /\ OwnRecord(c).job = Job(c)
                 /\ OwnRecord(c).status \in {"queued", "processing"}
           /\ At(c, "create") \/ Is(c, "script") => (OwnRecord(c) # None => OwnRecord(c).by # c)
<1>1. Owns(c) /\ Stored(c) /\ Attempts(c)
  BY DEF IInv, CallsOK
<1>2. Job(c) \in Jobs /\ call[c].proc \in Procs /\ call[c].attempt \in 0 .. MaxAttempts
  BY CallTyped DEF IInv
<1>3. asked[call[c].proc][Job(c)] \in Nat /\ asked[call[c].proc][Job(c)] <= MaxAttempts
  <2>1. asked[call[c].proc][Job(c)] \in Nat
    BY <1>2 DEF IInv, TypeOK
  <2>2. asked[call[c].proc][Job(c)] <= IF class[Job(c)] = "image" THEN MaxAttempts ELSE 1
    BY <1>2 DEF IInv, AskedWithinAttempts
  <2> QED  BY <2>1, <2>2, BoundsAssumption
<1>4. Is(c, "image") /\ ~At(c, "create") =>
         /\ OwnRecord(c) # None /\ OwnRecord(c).by = c /\ OwnRecord(c).status \in {"queued", "processing"}
  BY <1>1 DEF Owns, At
<1>5. Is(c, "script") => ~Is(c, "image")
  BY DEF Is
<1> QED  BY <1>1, <1>2, <1>3, <1>4, <1>5, OwnRecordIs DEF Owns

LEMMA CreateKeeps == ASSUME IInv, NEW c \in Calls, call[c] # None, Create(c) PROVE IInv'
<1>1. call[c].at = "create" /\ call[c].at \in Operating /\ Is(c, "image")
  BY OperatingFacts DEF Create, At, Operating, OfImage, Owns
<1>2. /\ UNCHANGED <<accountVars, class, asked, objects, rows, crashes, faults>>
      /\ faults' \in 0 .. MaxFaults /\ asked' \in [Procs -> [Jobs -> Nat]] /\ objects' \subseteq Calls /\ rows' \subseteq Calls
  BY DEF Create, assetVars, IInv, TypeOK
<1>3. CASE /\ OwnRecord(c) = None /\ SetRecord(c, NewRecord(c)) /\ Go(c, "resolve") /\ UNCHANGED execution
  <2>1. Replaces(c, NewRecord(c)) /\ NewRecord(c).status = "queued"
    BY <1>1, <1>3, OperatingFacts DEF Replaces, NewRecord, Record
  <2>2. Plainly(c, "resolve")
    BY <1>3, GoMoves DEF IInv, Working
  <2>3. /\ call'[c].at = "resolve" /\ call'[c].attempt = call[c].attempt /\ Job(c)' = Job(c)
        /\ call'[c].proc = call[c].proc
    BY <2>2 DEF Plainly, Moves, Job
  <2>4. call[c].attempt = 0 /\ asked[call[c].proc][Job(c)] = 0
    BY <1>1, OperatingFacts DEF Attempts, Unasked
  <2>5. Stored(c)' /\ Attempts(c)'
    BY <1>2, <2>3, <2>4 DEF Stored, Attempts, Unasked, At
  <2> QED  BY <1>1, <1>2, <1>3, <2>1, <2>2, <2>4, <2>5, BoundsAssumption, GoingKeeps DEF Operating, Plainly
<1>4. CASE /\ OwnRecord(c) # None /\ Finish(c, "failed") /\ Go(c, "execute") /\ UNCHANGED record
  <2>1. OwnRecord(c) # None => OwnRecord(c).by # c
    BY <1>1, OperatingFacts DEF At
  <2> QED  BY <1>1, <1>2, <1>4, <2>1, EndingKeeps
<1> QED  BY <1>3, <1>4 DEF Create

\* A stage of an image's operation that neither asks nor touches its record.
LEMMA StageKeeps ==
    ASSUME IInv, NEW c \in Calls, call[c] # None, NEW to \in {"register", "clean", "complete", "fail"}, Go(c, to),
           call[c].at \in Operating, ~At(c, "create"), Is(c, "image"),
           UNCHANGED <<accountVars, class, record, asked, execution, crashes>>, faults' \in 0 .. MaxFaults,
           objects' \subseteq Calls, rows' \subseteq Calls,
           objects \ {c} \subseteq objects', rows \subseteq rows',
           to = "register" => c \in objects',
           to = "complete" => c \in objects' \cap rows'
    PROVE  IInv'
<1>1. Plainly(c, to) /\ to \in Operating \ {"create"}
  BY GoMoves DEF IInv, Working, Operating, OfImage
<1>2. call'[c].at = to
  BY <1>1 DEF Plainly, Moves
<1>3. Stored(c)' /\ Attempts(c)'
  BY <1>2 DEF Stored, Attempts, Unasked, At
<1>4. asked'[call[c].proc][Job(c)] <= MaxAttempts /\ asked' \in [Procs -> [Jobs -> Nat]]
  BY OperatingFacts DEF IInv, TypeOK
<1> QED  BY <1>1, <1>3, <1>4, GoingKeeps DEF Plainly

LEMMA AssetKeeps ==
    ASSUME IInv, NEW c \in Calls, call[c] # None, faults' \in 0 .. MaxFaults,
           \/ PutObject(c) \/ Register(c) \/ Clean(c)
           \/ RegisterFault(c) /\ UNCHANGED <<record, asked, objects, execution, crashes>>
    PROVE  IInv'
<1>1. /\ call[c].at \in {"store", "register", "clean"}
      /\ UNCHANGED <<accountVars, class, record, asked, execution, crashes>>
  BY DEF PutObject, Register, Clean, RegisterFault, At
<1>2. call[c].at \in Operating /\ ~At(c, "create") /\ Is(c, "image") /\ Stored(c)
  BY <1>1, OperatingFacts DEF Operating, OfImage, At, Owns
<1>3. objects \subseteq Calls /\ rows \subseteq Calls
  BY DEF IInv, TypeOK
<1>4. CASE PutObject(c)
  BY <1>1, <1>2, <1>3, <1>4, StageKeeps DEF PutObject
<1>5. CASE Register(c)
  BY <1>1, <1>2, <1>3, <1>5, StageKeeps DEF Register, Stored
<1>6. CASE Clean(c)
  BY <1>1, <1>2, <1>3, <1>6, StageKeeps DEF Clean
<1>7. CASE RegisterFault(c) /\ UNCHANGED <<record, asked, objects, execution, crashes>>
  BY <1>1, <1>2, <1>3, <1>7, StageKeeps DEF RegisterFault
<1> QED  BY <1>4, <1>5, <1>6, <1>7

LEMMA ResolveImageKeeps == ASSUME IInv, NEW c \in Calls, call[c] # None, ResolveImage(c) PROVE IInv'
<1>1. call[c].at = "resolve" /\ call[c].at \in Operating /\ Is(c, "image") /\ ~At(c, "create")
  BY DEF ResolveImage, At, Operating
<1>2. /\ UNCHANGED <<accountVars, class, asked, objects, rows, execution, crashes, faults>>
      /\ faults' \in 0 .. MaxFaults /\ asked' \in [Procs -> [Jobs -> Nat]] /\ objects' \subseteq Calls /\ rows' \subseteq Calls
  BY DEF ResolveImage, assetVars, IInv, TypeOK
<1>3. CASE SetRecord(c, [OwnRecord(c) EXCEPT !.status = "processing"]) /\ Go(c, "load")
  <2> DEFINE r == [OwnRecord(c) EXCEPT !.status = "processing"]
  <2>1. r \in Record /\ r.status = "processing" /\ r.by = c /\ r.job = Job(c)
    BY <1>1, OperatingFacts DEF Record
  <2>2. Replaces(c, r)
    BY <1>1, <1>3, <2>1, OperatingFacts DEF Replaces
  <2>3. Plainly(c, "load")
    BY <1>3, GoMoves DEF IInv, Working
  <2>4. /\ call'[c].at = "load" /\ call'[c].attempt = call[c].attempt /\ Job(c)' = Job(c)
        /\ call'[c].proc = call[c].proc
    BY <2>3 DEF Plainly, Moves, Job
  <2>5. call[c].attempt = 0 /\ asked[call[c].proc][Job(c)] = 0
    BY <1>1, OperatingFacts DEF Attempts, Unasked
  <2>6. Stored(c)' /\ Attempts(c)'
    BY <1>2, <2>4, <2>5 DEF Stored, Attempts, Unasked, At
  <2> HIDE DEF r
  <2>7. \E q : Replaces(c, q) /\ q.status \in {"queued", "processing"}
    BY <2>1, <2>2
  <2> QED  BY <1>1, <1>2, <2>3, <2>5, <2>6, <2>7, BoundsAssumption, GoingKeeps DEF Operating, OfImage, Plainly
<1>4. CASE UNCHANGED record /\ Go(c, "fail")
  BY <1>1, <1>2, <1>4, StageKeeps
<1> QED  BY <1>3, <1>4 DEF ResolveImage

LEMMA CompleteKeeps == ASSUME IInv, NEW c \in Calls, call[c] # None, Complete(c) PROVE IInv'
<1> DEFINE r == [OwnRecord(c) EXCEPT !.status = "completed", !.asset = {c}]
<1>1. call[c].at = "complete" /\ call[c].at \in Operating /\ ~At(c, "create")
  BY DEF Complete, At, Operating, OfImage
<1>2. Is(c, "image") /\ c \in objects \cap rows
  BY <1>1, OperatingFacts DEF Owns, OfImage, Stored, At
<1>3. r \in Record /\ r.status = "completed" /\ r.asset = {c} /\ r.by = c /\ r.job = Job(c)
  <2>1. /\ OwnRecord(c) \in Record /\ OwnRecord(c).by = c /\ OwnRecord(c).job = Job(c)
        /\ {c} \in {{d} : d \in Calls} /\ {c} # {}
    BY <1>1, <1>2, OperatingFacts
  <2> QED  BY <2>1 DEF Record
<1>4. Replaces(c, r)
  BY <1>1, <1>2, <1>3, OperatingFacts DEF Replaces, Complete
<1>5. /\ UNCHANGED <<accountVars, class, asked, objects, rows, crashes, faults>>
      /\ Finish(c, "ok") /\ Go(c, "execute") /\ asked' \in [Procs -> [Jobs -> Nat]]
  BY DEF Complete, assetVars, IInv, TypeOK
<1> HIDE DEF r
<1>6. \E q : Replaces(c, q) /\ q.asset \subseteq {c} /\ q.status = "completed"
  BY <1>3, <1>4
<1> QED  BY <1>1, <1>2, <1>5, <1>6, EndingKeeps

LEMMA FailKeeps == ASSUME IInv, NEW c \in Calls, call[c] # None, Fail(c) PROVE IInv'
<1> DEFINE r == [OwnRecord(c) EXCEPT !.status = "failed"]
<1>1. call[c].at = "fail" /\ call[c].at \in Operating /\ ~At(c, "create") /\ call[c].kind \in Kinds
  BY CallTyped DEF Fail, At, Operating, IInv
<1>2. /\ UNCHANGED <<accountVars, class, asked, objects, rows, crashes, faults>>
      /\ Finish(c, "failed") /\ Go(c, "execute") /\ asked' \in [Procs -> [Jobs -> Nat]]
  BY DEF Fail, assetVars, IInv, TypeOK
<1>3. CASE Is(c, "image")
  <2>1. OwnRecord(c).status \in {"queued", "processing"} /\ SetRecord(c, r)
    BY <1>1, <1>3, OperatingFacts DEF Fail
  <2>2. r \in Record /\ r.status = "failed" /\ r.asset \subseteq {c} /\ r.by = c /\ r.job = Job(c)
    BY <1>1, <1>3, OperatingFacts DEF Record
  <2>3. Replaces(c, r)
    BY <1>1, <1>3, <2>1, <2>2, OperatingFacts DEF Replaces
  <2> HIDE DEF r
  <2>4. \E q : Replaces(c, q) /\ q.asset \subseteq {c} /\ q.status = "failed"
    BY <2>2, <2>3
  <2> QED  BY <1>1, <1>2, <2>4, EndingKeeps
<1>4. CASE ~Is(c, "image")
  <2>1. UNCHANGED record /\ Is(c, "script")
    BY <1>1, <1>4 DEF Fail, Is, Kinds
  <2>2. OwnRecord(c) # None => OwnRecord(c).by # c
    BY <1>1, <2>1, OperatingFacts
  <2> QED  BY <1>1, <1>2, <2>1, <2>2, EndingKeeps
<1> QED  BY <1>3, <1>4

\* A request to the provider is counted for the job of its process.
LEMMA AskedStep ==
    ASSUME IInv, NEW c \in Calls, call[c] # None, At(c, "ask"), Asked(c)
    PROVE  /\ asked' \in [Procs -> [Jobs -> Nat]]
           /\ asked'[call[c].proc][Job(c)] = asked[call[c].proc][Job(c)] + 1
           /\ \A p \in Procs, j \in Jobs :
                 asked'[p][j] = asked[p][j] \/ (p = call[c].proc /\ j = Job(c) /\ At(c, "ask"))
<1>1. /\ Job(c) \in Jobs /\ call[c].proc \in Procs
      /\ asked \in [Procs -> [Jobs -> Nat]]
  BY CallTyped DEF IInv, TypeOK
<1> DEFINE q == call[c].proc
           i == Job(c)
<1>2. asked' = [asked EXCEPT ![q][i] = @ + 1]
  BY DEF Asked
<1>3. asked[q][i] \in Nat
  BY <1>1
<1> HIDE DEF q, i
<1>4. /\ asked' \in [Procs -> [Jobs -> Nat]] /\ asked'[q][i] = asked[q][i] + 1
      /\ \A p \in Procs, j \in Jobs : asked'[p][j] = asked[p][j] \/ (p = q /\ j = i)
  BY <1>1, <1>2, <1>3 DEF q, i
<1> QED  BY <1>4 DEF q, i

LEMMA WriteKeeps == ASSUME IInv, NEW c \in Calls, call[c] # None, Write(c) PROVE IInv'
<1>1. At(c, "ask") /\ call[c].at \in Operating /\ Is(c, "script") /\ ~Is(c, "image")
  BY DEF Write, At, Operating, Is
<1>2. PICK outcome \in {"ok", "failed"} : Finish(c, outcome)
  BY DEF Write
<1>3. UNCHANGED <<accountVars, class, record, objects, rows, crashes, faults>> /\ Go(c, "execute") /\ Asked(c)
  BY DEF Write, assetVars
<1>4. asked[call[c].proc][Job(c)] = 0
  BY <1>1, OperatingFacts DEF Attempts
<1>5. OwnRecord(c) # None => OwnRecord(c).by # c
  BY <1>1, OperatingFacts
<1> QED  BY <1>1, <1>2, <1>3, <1>4, <1>5, AskedStep, EndingKeeps

LEMMA RequestKeeps == ASSUME IInv, NEW c \in Calls, call[c] # None, Request(c) PROVE IInv'
<1> DEFINE n == call[c].attempt + 1
<1>1. At(c, "ask") /\ call[c].at \in Operating /\ Is(c, "image") /\ ~At(c, "create")
  BY DEF Request, At, Operating
<1>2. /\ asked[call[c].proc][Job(c)] = call[c].attempt /\ call[c].attempt < MaxAttempts
      /\ call[c].attempt \in Nat /\ MaxAttempts \in Nat
  BY <1>1, OperatingFacts, BoundsAssumption DEF Attempts
<1>3. PICK to \in {"store", "fail", "ask"} :
         /\ call' = [call EXCEPT ![c].attempt = @ + 1, ![c].at = to]
         /\ to = "ask" => n < MaxAttempts
  BY DEF Request, After, Transient, Unusable
<1> DEFINE r == [call[c] EXCEPT !.attempt = n, !.at = to]
<1>4. call[c] \in CallState
  BY CallTyped DEF IInv
<1>5. /\ r \in CallState /\ r.at = to /\ r.kind = call[c].kind /\ r.proc = call[c].proc
      /\ r.job = call[c].job /\ r.gen = call[c].gen /\ r.attempt = n
  <2>1. n \in 0 .. MaxAttempts
    BY <1>2
  <2> HIDE DEF n
  <2> QED  BY <1>4, <2>1 DEF CallState, Working
<1>6. call' = [call EXCEPT ![c] = r]
  BY <1>3 DEF IInv, TypeOK
<1>7. Moves(c, to) /\ call'[c].attempt = n
  <2> HIDE DEF r
  <2>1. r # None
    BY <1>5, NoneIsDistinct
  <2> QED  BY <1>5, <1>6, <2>1 DEF Moves, IInv, TypeOK
<1>8. UNCHANGED <<accountVars, class, record, objects, rows, execution, crashes, faults>> /\ Asked(c)
  BY DEF Request, assetVars
<1>9. /\ asked' \in [Procs -> [Jobs -> Nat]] /\ asked'[call[c].proc][Job(c)] = n
      /\ \A p \in Procs, j \in Jobs :
            asked'[p][j] = asked[p][j] \/ (p = call[c].proc /\ j = Job(c) /\ At(c, "ask"))
  BY <1>1, <1>2, <1>8, AskedStep
<1>10. call'[c].at = to /\ call'[c].kind = call[c].kind /\ Job(c)' = Job(c) /\ call'[c].proc = call[c].proc
  BY <1>7 DEF Moves, Job
<1>11. Stored(c)' /\ Attempts(c)'
  BY <1>1, <1>3, <1>7, <1>9, <1>10 DEF Stored, Attempts, Unasked, At, Is
<1>12. n <= MaxAttempts
  BY <1>2
<1>13. faults' \in 0 .. MaxFaults /\ objects' \subseteq Calls /\ rows' \subseteq Calls
  BY <1>8 DEF IInv, TypeOK
<1> HIDE DEF n, r
<1> QED  BY <1>1, <1>7, <1>8, <1>9, <1>11, <1>12, <1>13, GoingKeeps DEF Operating, OfImage

-----------------------------------------------------------------------------
(* All steps. *)

LEMMA FaultKeeps == ASSUME IInv, NEW c \in Calls, call[c] # None, Fault(c) PROVE IInv'
<1>1. faults' \in 0 .. MaxFaults /\ UNCHANGED <<record, asked, objects, execution, crashes>>
  BY BoundsAssumption DEF Fault, IInv, TypeOK
<1>2. CASE RegisterFault(c)
  BY <1>1, <1>2, AssetKeeps
<1>3. CASE JobFault(c)
  BY <1>1, <1>3, JobKeeps DEF JobFault
<1>4. CASE LedgerFault(c)
  BY <1>1, <1>4, HoldKeeps DEF LedgerFault, At
<1> QED  BY <1>2, <1>3, <1>4 DEF Fault

LEMMA ResumeKeeps == ASSUME IInv, NEW c \in Calls, call[c] # None, Resume(c) PROVE IInv'
<1>1. CASE Find(c) \/ Executed(c) \/ ResolveScript(c) \/ LoadReferences(c)
  BY <1>1, OnwardsKeeps
<1>2. CASE Insert(c)
  BY <1>2, InsertKeeps
<1>3. CASE Reserve(c) \/ GiveBack(c) \/ Charge(c)
  BY <1>3, AccountKeeps
<1>4. CASE Execute(c)
  BY <1>4, ExecuteKeeps
<1>5. CASE Create(c)
  BY <1>5, CreateKeeps
<1>6. CASE ResolveImage(c)
  BY <1>6, ResolveImageKeeps
<1>7. CASE Request(c)
  BY <1>7, RequestKeeps
<1>8. CASE Write(c)
  BY <1>8, WriteKeeps
<1>9. CASE PutObject(c) \/ Register(c) \/ Clean(c)
  <2>1. faults' \in 0 .. MaxFaults
    BY <1>9 DEF PutObject, Register, Clean, IInv, TypeOK
  <2> QED  BY <1>9, <2>1, AssetKeeps
<1>10. CASE Complete(c)
  BY <1>10, CompleteKeeps
<1>11. CASE Fail(c)
  BY <1>11, FailKeeps
<1> QED  BY <1>1, <1>2, <1>3, <1>4, <1>5, <1>6, <1>7, <1>8, <1>9, <1>10, <1>11 DEF Resume

\* A new call has neither a record nor an asset.
LEMMA SendKeeps ==
    ASSUME IInv, NEW c \in Calls, NEW p \in Procs, NEW j \in Jobs, NEW kind \in Kinds, NEW g \in Generations,
           Send(c, p, j, kind, g)
    PROVE  IInv'
<1> DEFINE r == [kind |-> kind, proc |-> p, job |-> j, gen |-> g, at |-> "find", attempt |-> 0, got |-> {}]
<1>1. /\ UNCHANGED <<accountVars, class, record, asked, objects, rows, execution, crashes, faults>>
      /\ UNCHANGED <<balance, reserved, phase, held>>
  BY DEF Send, assetVars, accountVars
<1>2. r \in CallState /\ r.at = "find" /\ r.attempt = 0
  BY BoundsAssumption DEF CallState, Working
<1>3. call[c] = None /\ call' = [call EXCEPT ![c] = r]
  BY DEF Send
<1> HIDE DEF r
<1>4. call'[c] = r /\ \A d \in Calls \ {c} : call'[d] = call[d]
  BY <1>3 DEF IInv, TypeOK
<1>5. TypeOK'
  BY <1>1, <1>2, <1>3 DEF IInv, TypeOK, AccountTypeOK
<1>6. \A d \in Calls : Kept(d) => Kept(d)' /\ Job(d)' = Job(d)
  BY <1>1, <1>3, <1>4 DEF Kept, At, Ran, Job
<1>7. CallsOK'
  <2> SUFFICES ASSUME NEW d \in Calls, call'[d] # None
               PROVE  (Classed(d) /\ Owns(d) /\ Stored(d) /\ Attempts(d) /\ Outcome(d))'
    BY DEF CallsOK
  <2>1. CASE d = c
    BY <1>2, <1>4, <2>1 DEF Classed, Owns, Stored, Attempts, Unasked, Outcome, At, Operating, OfImage
  <2>2. CASE d # c
    <3>1. call'[d] = call[d] /\ call[d] # None
      BY <1>4, <2>2
    <3>2. Classed(d) /\ Owns(d) /\ Stored(d) /\ Attempts(d) /\ Outcome(d)
      BY <3>1 DEF IInv, CallsOK
    <3>3. Job(d)' = Job(d) /\ Ran(d)' = Ran(d) /\ OwnRecord(d)' = OwnRecord(d)
      BY <1>1, <3>1 DEF Job, Ran, OwnRecord
    <3>4. Outcome(d)'
      BY <1>1, <1>6, <3>1, <3>2, <3>3 DEF Outcome, At, Is
    <3> QED  BY <1>1, <3>1, <3>2, <3>3, <3>4
             DEF Classed, Owns, Stored, Attempts, Unasked, Running, At, Is
  <2> QED  BY <2>1, <2>2
<1>8. JobsOK' /\ ExecutionsOK'
  BY <1>1, <1>6 DEF IInv, JobsOK, ExecutionsOK
<1>9. RecordsOK'
  <2>1. ASSUME NEW q \in Procs, NEW h \in Generations, record[q][h] # None
        PROVE  record[q][h].by \in Calls \ {c}
    BY <1>3, <2>1 DEF IInv, TypeOK, Record, RecordsOK
  <2> QED  BY <1>1, <1>4, <2>1 DEF IInv, RecordsOK, Is, Job
<1>10. AskedWithinAttempts'
  BY <1>1 DEF IInv, AskedWithinAttempts
<1>11. RecordsAreOwn'
  <2> SUFFICES ASSUME NEW q \in Procs, NEW h \in Generations, record'[q][h] # None PROVE Told(q, h)'
    BY DEF RecordsAreOwn, Told
  <2>1. record' = record /\ execution' = execution
    BY <1>1
  <2>2. Told(q, h)
    BY <2>1 DEF IInv, RecordsAreOwn, Told
  <2> QED  BY <2>1, <2>2 DEF Told
<1> QED  BY <1>5, <1>7, <1>8, <1>9, <1>10, <1>11 DEF IInv

\* A call whose process dies relies on nothing, and what it has kept stays.
LEMMA CrashKeeps == ASSUME IInv, NEW p \in Procs, Crash(p) PROVE IInv'
<1>1. /\ UNCHANGED <<balance, reserved, phase, held, class, objects, rows, faults>>
      /\ crashes' \in 0 .. MaxCrashes
  <2>1. UNCHANGED <<balance, reserved, phase, held, class, objects, rows, faults>>
    BY DEF Crash, accountVars, assetVars
  <2>2. MaxCrashes \in Nat
    BY BoundsAssumption
  <2>3. crashes \in 0 .. MaxCrashes /\ crashes < MaxCrashes /\ crashes' = crashes + 1
    BY DEF Crash, IInv, TypeOK
  <2>4. crashes' \in 0 .. MaxCrashes
    BY <2>2, <2>3
  <2> QED  BY <2>1, <2>4
<1>2. /\ \A j \in Jobs : execution'[p][j].at = "none" /\ asked'[p][j] = 0
      /\ \A g \in Generations : record'[p][g] = None
      /\ \A q \in Procs \ {p} : execution'[q] = execution[q] /\ asked'[q] = asked[q] /\ record'[q] = record[q]
      /\ execution' \in [Procs -> [Jobs -> Execution]] /\ asked' \in [Procs -> [Jobs -> Nat]]
      /\ record' \in [Procs -> [Generations -> Record \cup {None}]]
  <2>1. /\ NotRun \in [Jobs -> Execution] /\ NotAsked \in [Jobs -> Nat]
        /\ NoRecords \in [Generations -> Record \cup {None}]
        /\ \A j \in Jobs : NotRun[j].at = "none" /\ NotAsked[j] = 0
        /\ \A g \in Generations : NoRecords[g] = None
    BY DEF NotRun, NotAsked, NoRecords, Execution
  <2> QED  BY <2>1 DEF Crash, IInv, TypeOK
<1>3. ASSUME NEW c \in Calls, call[c] # None
      PROVE  LET r == [call[c] EXCEPT !.at = "failed", !.attempt = 0]
             IN  /\ r \in CallState /\ r.at = "failed" /\ r # None
                 /\ r.kind = call[c].kind /\ r.proc = call[c].proc /\ r.job = call[c].job /\ r.gen = call[c].gen
  <2> DEFINE r == [call[c] EXCEPT !.at = "failed", !.attempt = 0]
  <2>1. call[c] \in CallState
    BY <1>3, CallTyped DEF IInv
  <2>2. 0 \in 0 .. MaxAttempts
    BY BoundsAssumption
  <2>3. r \in CallState
    BY <2>1, <2>2 DEF CallState, Answers
  <2>4. /\ r.at = "failed"
        /\ r.kind = call[c].kind /\ r.proc = call[c].proc /\ r.job = call[c].job /\ r.gen = call[c].gen
    BY <2>1 DEF CallState
  <2> HIDE DEF r
  <2>5. r # None
    BY <2>3, NoneIsDistinct
  <2>6. r \in CallState /\ r.at = "failed" /\ r # None
        /\ r.kind = call[c].kind /\ r.proc = call[c].proc /\ r.job = call[c].job /\ r.gen = call[c].gen
    BY <2>3, <2>4, <2>5
  <2> QED  BY <2>6 DEF r
<1>4. \A c \in Calls : \/ call'[c] = call[c] /\ (call[c] # None => call[c].proc # p \/ call[c].at \in Answers)
                      \/ /\ call[c] # None /\ call'[c] # None /\ call'[c].at = "failed"
                         /\ call'[c].kind = call[c].kind /\ call'[c].proc = call[c].proc
                         /\ call'[c].job = call[c].job /\ call'[c].gen = call[c].gen
  BY <1>3, CallTyped DEF Crash, IInv
<1>5. call' \in [Calls -> CallState \cup {None}]
  BY <1>3 DEF Crash, IInv, TypeOK
<1>6. TypeOK'
  BY <1>1, <1>2, <1>5 DEF IInv, TypeOK, AccountTypeOK
<1>7. ASSUME NEW d \in Calls, Kept(d) PROVE Kept(d)' /\ Job(d)' = Job(d)
  <2>1. call[d] # None /\ d \in objects' \cap rows' /\ call[d].proc \in Procs
    BY <1>1, <1>7, CallTyped DEF Kept, IInv
  <2>2. CASE call'[d] = call[d] /\ (call[d].proc # p \/ call[d].at \in Answers)
    BY <1>2, <1>7, <2>1, <2>2 DEF Kept, At, Ran, Job, Answers, Settled
  <2>3. CASE call'[d] # None /\ call'[d].at = "failed" /\ call'[d].job = call[d].job
    BY <2>1, <2>3 DEF Kept, Job, Settled
  <2> QED  BY <1>4, <2>1, <2>2, <2>3
<1>8. CallsOK'
  <2> SUFFICES ASSUME NEW d \in Calls, call'[d] # None
               PROVE  (Classed(d) /\ Owns(d) /\ Stored(d) /\ Attempts(d) /\ Outcome(d))'
    BY DEF CallsOK
  <2>1. CASE call'[d].at = "failed"
    BY <2>1 DEF Classed, Owns, Stored, Attempts, Unasked, Outcome, At, Operating, OfImage
  <2>2. CASE call'[d].at # "failed"
    <3>1. call'[d] = call[d] /\ call[d] # None /\ (call[d].proc # p \/ call[d].at \in Answers)
      BY <1>4, <2>2
    <3>2. /\ Classed(d) /\ Owns(d) /\ Stored(d) /\ Attempts(d) /\ Outcome(d)
          /\ call[d].proc \in Procs /\ Job(d)' = Job(d)
      BY <3>1, CallTyped DEF IInv, CallsOK, Job
    <3>3. CASE call[d].proc # p
      <4>1. /\ Ran(d)' = Ran(d) /\ OwnRecord(d)' = OwnRecord(d)
            /\ asked'[call[d].proc][Job(d)] = asked[call[d].proc][Job(d)]
        BY <1>2, <3>1, <3>2, <3>3 DEF Ran, OwnRecord, Job
      <4>2. Outcome(d)'
        BY <1>1, <1>7, <3>1, <3>2, <4>1 DEF Outcome, At, Is
      <4> QED  BY <1>1, <3>1, <3>2, <4>1, <4>2
               DEF Classed, Owns, Stored, Attempts, Unasked, Running, At, Is
    <3>4. CASE call[d].at = "completed"
      <4>1. Outcome(d)'
        BY <1>1, <1>7, <3>1, <3>2, <3>4 DEF Outcome, At, Is
      <4> QED  BY <1>1, <3>1, <3>2, <3>4, <4>1
               DEF Classed, Owns, Stored, Attempts, Unasked, At, Operating, OfImage
    <3> QED  BY <2>2, <3>1, <3>3, <3>4 DEF Answers
  <2> QED  BY <2>1, <2>2
<1>9. JobsOK'
  BY <1>1, <1>7 DEF IInv, JobsOK
<1>10. ExecutionsOK'
  <2> SUFFICES ASSUME NEW q \in Procs, NEW j \in Jobs
               PROVE  /\ class[j] = "none" => execution'[q][j].at = "none"
                      /\ execution'[q][j].at = "none" => asked'[q][j] = 0
                      /\ execution'[q][j].at = "ok" /\ class[j] = "image" =>
                            \E d \in Calls : execution'[q][j].by = {d} /\ Kept(d)' /\ Job(d)' = j
    BY <1>1 DEF ExecutionsOK
  <2>1. CASE q = p
    BY <1>2, <2>1
  <2>2. CASE q # p
    <3>1. execution'[q] = execution[q] /\ asked'[q] = asked[q]
      BY <1>2, <2>2
    <3> QED  BY <1>7, <3>1 DEF IInv, ExecutionsOK
  <2> QED  BY <2>1, <2>2
<1>11. RecordsOK'
  <2> SUFFICES ASSUME NEW q \in Procs, NEW g \in Generations, record'[q][g] # None
               PROVE  LET b == record'[q][g].by
                      IN  /\ call'[b] # None /\ call'[b].kind = "image"
                          /\ call'[b].proc = q /\ call'[b].gen = g /\ call'[b].job = record'[q][g].job
    BY DEF RecordsOK, Is, Job
  <2> DEFINE b == record[q][g].by
  <2>1. record'[q][g] = record[q][g]
    BY <1>2
  <2>2. /\ b \in Calls /\ call[b] # None /\ call[b].kind = "image"
        /\ call[b].proc = q /\ call[b].gen = g /\ call[b].job = record[q][g].job
    BY <2>1 DEF IInv, RecordsOK, TypeOK, Record, Is, Job
  <2> QED  BY <1>4, <2>1, <2>2
<1>12. RecordsAreOwn' /\ AskedWithinAttempts'
  <2>1. AskedWithinAttempts'
    BY <1>1, <1>2, BoundsAssumption DEF IInv, AskedWithinAttempts
  <2>2. RecordsAreOwn'
    <3> SUFFICES ASSUME NEW q \in Procs, NEW g \in Generations, record'[q][g] # None PROVE Told(q, g)'
      BY DEF RecordsAreOwn, Told
    <3>1. q # p
      BY <1>2
    <3>2. record'[q] = record[q] /\ execution'[q] = execution[q]
      BY <1>2, <3>1
    <3>3. Told(q, g)
      BY <3>2 DEF IInv, RecordsAreOwn, Told
    <3> QED  BY <3>2, <3>3 DEF Told
  <2> QED  BY <2>1, <2>2
<1> QED  BY <1>6, <1>8, <1>9, <1>10, <1>11, <1>12 DEF IInv

-----------------------------------------------------------------------------
(* The theorems. *)

\* IInv holds initially, where no call, no job and no record exists, and every
\* step of a request, a fault and a crash keeps it.
THEOREM ImmediateInvariant == Spec => []IInv
<1>1. Init => IInv
  <2> SUFFICES ASSUME Init PROVE IInv
    OBVIOUS
  <2>1. TypeOK
    BY InitTyped
  <2>2. CallsOK
    BY DEF Init, CallsOK
  <2>3. JobsOK
    BY DEF Init, JobsOK
  <2>4. ExecutionsOK
    BY DEF Init, NotRun, NotAsked, ExecutionsOK
  <2>5. RecordsOK /\ RecordsAreOwn
    BY DEF Init, NoRecords, RecordsOK, RecordsAreOwn
  <2>6. AskedWithinAttempts
    BY BoundsAssumption DEF Init, NotAsked, AskedWithinAttempts
  <2> QED  BY <2>1, <2>2, <2>3, <2>4, <2>5, <2>6 DEF IInv
<1>2. IInv /\ [Next]_vars => IInv'
  <2> SUFFICES ASSUME IInv, [Next]_vars PROVE IInv'
    OBVIOUS
  <2>1. ASSUME NEW c \in Calls, NEW p \in Procs, NEW j \in Jobs, NEW kind \in Kinds, NEW g \in Generations,
               Send(c, p, j, kind, g)
        PROVE  IInv'
    BY <2>1, SendKeeps
  <2>2. ASSUME NEW c \in Calls, call[c] # None, Resume(c) PROVE IInv'
    BY <2>2, ResumeKeeps
  <2>3. ASSUME NEW c \in Calls, call[c] # None, Fault(c) PROVE IInv'
    BY <2>3, FaultKeeps
  <2>4. ASSUME NEW p \in Procs, Crash(p) PROVE IInv'
    BY <2>4, CrashKeeps
  <2>5. CASE UNCHANGED vars
    <3>1. UNCHANGED <<balance, reserved, phase, held, class, record, asked, objects, rows, execution, call,
                      crashes, faults>>
      BY <2>5 DEF vars, accountVars, assetVars
    <3>2. TypeOK' /\ AskedWithinAttempts'
      BY <3>1 DEF IInv, TypeOK, AccountTypeOK, AskedWithinAttempts
    <3>4. JobsOK' /\ ExecutionsOK' /\ RecordsOK'
      BY <3>1 DEF IInv, JobsOK, ExecutionsOK, RecordsOK, Kept, At, Is, Ran, Job
    <3>5. RecordsAreOwn'
      <4> SUFFICES ASSUME NEW q \in Procs, NEW h \in Generations, record'[q][h] # None PROVE Told(q, h)'
        BY DEF RecordsAreOwn, Told
      <4>1. Told(q, h)
        BY <3>1 DEF IInv, RecordsAreOwn, Told
      <4> QED  BY <3>1, <4>1 DEF Told
    <3>3. CallsOK'
      BY <3>1 DEF IInv, CallsOK, Classed, Owns, Stored, Attempts, Unasked, Outcome, Running, OwnRecord,
                  Kept, At, Is, Ran, Job
    <3> QED  BY <3>2, <3>3, <3>4, <3>5 DEF IInv
  <2> QED  BY <2>1, <2>2, <2>3, <2>4, <2>5 DEF Next
<1> QED  BY <1>1, <1>2, PTL DEF Spec

\* Records, executions, calls and tables keep their types.
THEOREM TypeCorrect == Spec => []TypeOK
<1>1. IInv => TypeOK
  BY DEF IInv
<1> QED  BY <1>1, ImmediateInvariant, PTL

\* A completed request has been charged the price of its kind and handed an
\* image that is stored for its job; every charged image is stored.
THEOREM DeliveredIsChargedAlways == Spec => []DeliveredIsCharged
<1>1. IInv => DeliveredIsCharged
  <2> SUFFICES ASSUME IInv PROVE DeliveredIsCharged
    OBVIOUS
  <2>1. ASSUME NEW c \in Calls, call[c] # None, At(c, "completed")
        PROVE  /\ phase[Job(c)] = "debited" /\ held[Job(c)] = Price[call[c].kind]
               /\ Is(c, "image") =>
                     /\ call[c].got # {} /\ call[c].got \subseteq rows \cap objects
                     /\ \A d \in call[c].got : Job(d) = Job(c)
    <3>1. Classed(c) /\ Outcome(c) /\ Job(c) \in Jobs
      BY <2>1, CallTyped DEF IInv, CallsOK
    <3>2. phase[Job(c)] = "debited" /\ class[Job(c)] = call[c].kind
      BY <2>1, <3>1 DEF Classed, Outcome, At
    <3>3. held[Job(c)] = Price[call[c].kind]
      BY <3>1, <3>2 DEF IInv, JobsOK
    <3>4. ASSUME Is(c, "image")
          PROVE  /\ call[c].got # {} /\ call[c].got \subseteq rows \cap objects
                 /\ \A d \in call[c].got : Job(d) = Job(c)
      BY <2>1, <3>1, <3>4 DEF Outcome, Kept
    <3> QED  BY <3>2, <3>3, <3>4
  <2>2. ASSUME NEW j \in Jobs, phase[j] = "debited", class[j] = "image"
        PROVE  \E c \in rows \cap objects : Job(c) = j
    BY <2>2 DEF IInv, JobsOK, Kept
  <2> QED  BY <2>1, <2>2 DEF DeliveredIsCharged
<1> QED  BY <1>1, ImmediateInvariant, PTL

\* A record tells the outcome of the operation that created it, whatever
\* requests carry its generation id.
THEOREM RecordsAreOwnAlways == Spec => []RecordsAreOwn
<1>1. IInv => RecordsAreOwn
  BY DEF IInv
<1> QED  BY <1>1, ImmediateInvariant, PTL

\* A process asks its provider for a job at most maxAttempts times for an
\* image and once for a script.
THEOREM AskedWithinAttemptsAlways == Spec => []AskedWithinAttempts
<1>1. IInv => AskedWithinAttempts
  BY DEF IInv
<1> QED  BY <1>1, ImmediateInvariant, PTL

-----------------------------------------------------------------------------
(* The routes are a client of the ledger. *)

\* A call that reserves has a job of its kind, which has a price.
LEMMA ReservedAtPrice ==
    ASSUME IInv, NEW c \in Calls, call[c] # None
    PROVE  Job(c) \in Jobs /\ (At(c, "reserve") => JobPrice(Job(c)) \in Credits)
<1>1. Job(c) \in Jobs /\ call[c].kind \in Kinds
  BY DEF IInv, TypeOK, CallState, Job
<1>2. At(c, "reserve") => class[Job(c)] = call[c].kind
  BY DEF IInv, CallsOK, Classed, At
<1> QED  BY <1>1, <1>2, PriceAssumption DEF JobPrice

LEMMA NextIsAccountStep == IInv /\ [Next]_vars => [AccountNext]_accountVars
<1> SUFFICES ASSUME IInv, [Next]_vars PROVE [AccountNext]_accountVars
  OBVIOUS
<1>1. ASSUME NEW c \in Calls, call[c] # None, Reserve(c) \/ LedgerFault(c)
      PROVE  [AccountNext]_accountVars
  <2>1. CASE At(c, "reserve")
    <3>1. Hold(Job(c), JobPrice(Job(c))) \/ UNCHANGED accountVars
      BY <1>1, <2>1 DEF Reserve, LedgerFault, At
    <3> QED  BY <1>1, <2>1, <3>1, ReservedAtPrice DEF AccountNext
  <2>2. CASE ~At(c, "reserve")
    <3>1. Release(Job(c)) \/ Debit(Job(c)) \/ UNCHANGED accountVars
      BY <1>1, <2>2 DEF Reserve, LedgerFault
    <3> QED  BY <1>1, <3>1, ReservedAtPrice DEF AccountNext
  <2> QED  BY <2>1, <2>2
<1>2. ASSUME NEW c \in Calls, call[c] # None, Charge(c) \/ GiveBack(c) PROVE [AccountNext]_accountVars
  BY <1>2, ReservedAtPrice DEF Charge, GiveBack, AccountNext
<1>3. ASSUME NEW c \in Calls,
             \/ Find(c) \/ Insert(c) \/ Execute(c) \/ Executed(c)
             \/ Create(c) \/ ResolveImage(c) \/ ResolveScript(c) \/ LoadReferences(c) \/ Request(c) \/ Write(c)
             \/ PutObject(c) \/ Register(c) \/ Clean(c) \/ Complete(c) \/ Fail(c)
             \/ RegisterFault(c) \/ JobFault(c)
      PROVE  UNCHANGED accountVars
  BY <1>3 DEF Find, Insert, Execute, Executed, Create, ResolveImage, ResolveScript, LoadReferences, Request,
       Write, PutObject, Register, Clean, Complete, Fail, RegisterFault, JobFault, Continue
<1>4. CASE \/ \E c \in Calls, p \in Procs, j \in Jobs, kind \in Kinds, g \in Generations : Send(c, p, j, kind, g)
           \/ \E p \in Procs : Crash(p)
           \/ UNCHANGED vars
  BY <1>4 DEF Send, Crash, vars
<1>5. CASE \E c \in Calls : call[c] # None /\ (Resume(c) \/ Fault(c))
  BY <1>1, <1>2, <1>3, <1>5 DEF Resume, Fault
<1> QED  BY <1>4, <1>5 DEF Next

\* Image and script requests, whatever they repeat, share or lose, make
\* operations of CreditAccount only, each under its guard, and hold the price
\* of their job's kind.
THEOREM ImmediateImplementsAccount == Spec => AccountSpec
<1>1. Init => AccountInit
  BY OpeningAssumption DEF Init, AccountInit
<1> QED  BY <1>1, NextIsAccountStep, ImmediateInvariant, PTL DEF Spec, AccountSpec

=============================================================================
