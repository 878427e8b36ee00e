------------------------ MODULE StripeLifecycleProofs ------------------------
(* One entitlement serves the tenant, a cancelled subscription is not         *)
(* revived, an entitlement and its subscription's mapping agree, what is      *)
(* acknowledged has taken effect, the rows end as Stripe has them, and the    *)
(* repository in memory does as the durable one, for every number of          *)
(* subscriptions, processes, events, periods and faults.                      *)
EXTENDS MemoryStripe, FiniteSetTheorems, TLAPS

\* The n-th event is created in one of the first n seconds of the history.
EventsTimed == \A i \in DOMAIN events : events[i].at \in 1 .. i

\* An event is of a subscription that Stripe has.
EventsOfSubs == \A i \in DOMAIN events : stripe[events[i].sub].status # "none"

\* What a process handles was emitted, and retrieved.
Handling == {"retrieved", "reading", "writing"}
EventTaken ==
    \A p \in Procs :
        /\ job[p].event <= Len(events)
        /\ job[p].at \in Handling => job[p].event # 0 /\ job[p].seen.status # "none"

\* What was not mapped is neither dated nor cancelled.
UnmappedIsBlank == \A s \in Subs : mapping[s].event = 0 => mapping[s].at = 0 /\ mapping[s].status = "absent"

ServesAlone == \A e \in Serving, f \in Serving : e = f

\* An entitlement that is not there is bound to nobody, and one made for a
\* subscription is bound to that subscription.
AbsentIsUnbound == \A e \in Ents : ent[e].status = "absent" => ent[e].ref = Unbound
MadeIsBound == \A s \in Subs : ent[s].status # "absent" => ent[s].ref = s

\* The entitlement of a mapping is bound to its subscription.
MappingBinds == \A s \in Subs : mapping[s].event # 0 => ent[mapping[s].ent].ref = s

\* A mapping that a handler read is there.
KnownIsMapped ==
    \A p \in Procs : job[p].at \in {"reading", "writing"} /\ job[p].known => mapping[Sub(p)].event # 0

\* What a handler is about to write is its subscription's or nobody's.
WritesOwn ==
    \A p \in Procs : At(p, "writing") =>
        /\ ent[job[p].ent].ref \in {Sub(p), Unbound}
        /\ job[p].ent \in Subs => job[p].ent = Sub(p)

\* Two handlers that write the Paid-Beta entitlement apply one subscription.
BetaForOne ==
    \A p \in Procs, q \in Procs :
        At(p, "writing") /\ At(q, "writing") /\ job[p].ent = Beta /\ job[q].ent = Beta => Sub(p) = Sub(q)

RowsOK == ServesAlone /\ AbsentIsUnbound /\ MadeIsBound /\ MappingBinds /\ MappedTogether /\ UnmappedIsBlank
HandlersOK == KnownIsMapped /\ WritesOwn /\ BetaForOne

EventsOK == EventsTimed /\ EventsOfSubs

IInv == TypeOK /\ EventsOK /\ EventTaken /\ RowsOK /\ HandlersOK

\* The mapping of an event's subscription is as new as the event, or cancelled;
\* an event has taken effect when a payment has met a grant, too.
TakenIn(m, e) == m.event # 0 /\ (m.at >= events[e].at \/ Terminal(m.status))
Taken(e) == TakenIn(mapping[events[e].sub], e)
Effected(e) == Taken(e) /\ (events[e].type = "paid" => grants # {})

\* The event is its subscription's newest.
Latest(s, e) == e \in Delivered(s) /\ \A f \in Delivered(s) : f <= e

\* The history of a subscription has an end, and time does not go back in it.
HistoryOK ==
    /\ \A s \in Subs : Delivered(s) # {} => \E e \in DOMAIN events : Latest(s, e)
    /\ \A i \in DOMAIN events, j \in DOMAIN events : i <= j => events[i].at <= events[j].at

\* What a handler has done of its event at each stage.
HandlerDone(r) ==
    r.event # 0 =>
        /\ r.at \in {"grant", "granting", "complete"} => Taken(r.event)
        /\ r.at = "complete" => Effected(r.event)

\* What a handler retrieved is what Stripe has, if no event followed, or none can.
HandlerFresh(r) ==
    LET s == events[r.event].sub
    IN  /\ r.at \in {"retrieved", "reading", "writing"}
        /\ Latest(s, r.event) \/ r.seen.status = "canceled"
        => r.seen = stripe[s]

\* What was claimed was emitted, and what was acknowledged has taken effect.
ClaimOK(e) ==
    /\ claim[e] # "new" => e <= Len(events)
    /\ claim[e] = "processed" => Effected(e)

\* A mapping has an event of its subscription, and that event's time.
MappingDated(s) ==
    mapping[s].event # 0 => mapping[s].event \in Delivered(s) /\ events[mapping[s].event].at = mapping[s].at

\* The rows of a mapping that has the newest event, or is cancelled, are what
\* Stripe has.
RowFresh(s) ==
    mapping[s].event # 0 /\ (Latest(s, mapping[s].event) \/ Terminal(mapping[s].status)) =>
        /\ mapping[s].status = mapStripeStatus[stripe[s].status]
        /\ ent[mapping[s].ent].period = stripe[s].period

\* The rows converge to what Stripe has.
FreshInv ==
    /\ HistoryOK
    /\ \A p \in Procs : HandlerDone(job[p]) /\ HandlerFresh(job[p])
    /\ \A e \in EventIds : ClaimOK(e)
    /\ \A s \in Subs : MappingDated(s) /\ RowFresh(s)

-----------------------------------------------------------------------------
(* Types. *)

EventRow == [type : {"updated", "deleted", "paid"}, sub : Subs, at : Clock]
EntRow == [status : Statuses \cup {"absent"}, period : 0..MaxPeriod, ref : Subs \cup {Unbound}]
MapRow == [ent : Ents, status : Statuses \cup {"absent"}, at : Clock, event : 0..MaxEvents]
GrantRow == [ent : Ents, period : 0..MaxPeriod, key : Ents \X (0..MaxPeriod), invoice : 0..MaxEvents]
SeenRow == [status : StripeStatuses, period : 0..MaxPeriod]
JobRow == [at : Stages, event : 0..MaxEvents, ent : Ents, known : BOOLEAN, period : 0..MaxPeriod,
           seen : [status : StripeStatuses, period : 0..MaxPeriod]]

\* A Stripe status maps to a status of an entitlement that is there.
LEMMA StatusMapped ==
    /\ StripeStatuses = {"incomplete", "active", "cancelling", "past_due", "canceled", "none"}
    /\ \A status \in StripeStatuses \ {"none"} : mapStripeStatus[status] \in Statuses
BY DEF StripeStatuses, mapStripeStatus, Statuses

\* A process that is idle, or whose transaction has ended, holds a job's shape.
LEMMA NoJobTyped == NoJob \in JobRow
BY BoundsAssumption, StatusMapped DEF NoJob, JobRow, Stages, Ents

LEMMA RestTyped ==
    ASSUME TypeOK, NEW p \in Procs, NEW stage \in Stages
    PROVE  Rest(p, stage) \in JobRow
<1>1. job[p] \in JobRow
  BY DEF TypeOK, JobRow
<1> QED  BY <1>1, NoJobTyped DEF Rest, JobRow, NoJob

\* Nothing has happened yet.
LEMMA InitTyped == Init => TypeOK
<1> SUFFICES ASSUME Init PROVE TypeOK
  OBVIOUS
<1>1. NoJob \in JobRow
  BY NoJobTyped
<1>2. NoEnt \in EntRow /\ NoMapping \in MapRow
  BY BoundsAssumption DEF NoEnt, EntRow, NoMapping, MapRow, Clock, Ents
<1>3. events \in Seq(EventRow) /\ Len(events) = 0
  BY DEF Init
<1>4. stripe \in [Subs -> SeenRow] /\ paid \in [Subs -> 0..MaxPeriod]
  BY BoundsAssumption, StatusMapped DEF Init, SeenRow
<1>5. ent \in [Ents -> EntRow] /\ mapping \in [Subs -> MapRow] /\ job \in [Procs -> JobRow]
  BY <1>1, <1>2 DEF Init
<1>6. claim \in [EventIds -> {"new", "processing", "processed", "failed"}] /\ faults \in 0..MaxFaults
  BY BoundsAssumption DEF Init
<1>7. customer \in BOOLEAN /\ grants \subseteq GrantRow
  BY DEF Init
<1> QED  BY <1>3, <1>4, <1>5, <1>6, <1>7, BoundsAssumption
         DEF TypeOK, GrantRow, EventRow, SeenRow, JobRow, EntRow, MapRow

\* What Stripe may do to its subscriptions, and the event it emits.
StripeStep(s) == Subscribe(s) \/ Change(s) \/ Renew(s) \/ Pay(s) \/ CancelSubscription(s)

\* The event of a step of Stripe is appended to the history, in time.
LEMMA EventAppended ==
    ASSUME TypeOK, EventsTimed, NEW s \in Subs, StripeStep(s)
    PROVE  \E second \in Clock, type \in {"updated", "deleted", "paid"} :
              /\ events' = Append(events, [type |-> type, sub |-> s, at |-> second])
              /\ second \in 1 .. Len(events) + 1
              /\ Len(events) < MaxEvents
              /\ UNCHANGED handlerVars
<1>1. PICK type \in {"updated", "deleted", "paid"} : Emit(type, s)
  BY DEF StripeStep, Subscribe, Change, Renew, Pay, CancelSubscription
<1>2. PICK second \in Seconds : events' = Append(events, [type |-> type, sub |-> s, at |-> second])
  BY <1>1 DEF Emit
<1>3. Len(events) < MaxEvents /\ UNCHANGED handlerVars
  BY <1>1 DEF Emit
<1>4. second \in 1 .. Len(events) + 1
  <2>1. CASE events = << >>
    BY <1>2, <2>1 DEF Seconds
  <2>2. CASE events # << >>
    <3>1. Len(events) \in DOMAIN events /\ Len(events) \in Nat
      BY <2>2 DEF TypeOK
    <3>2. events[Len(events)].at \in 1 .. Len(events)
      BY <3>1 DEF EventsTimed
    <3> QED  BY <1>2, <2>2, <3>1, <3>2 DEF Seconds
  <2> QED  BY <2>1, <2>2
<1>5. second \in Clock
  BY <1>3, <1>4, BoundsAssumption DEF Clock, TypeOK
<1> QED  BY <1>2, <1>3, <1>4, <1>5

\* A step of Stripe keeps its subscriptions' types, and none goes away.
LEMMA StripeTyped ==
    ASSUME TypeOK, NEW s \in Subs, StripeStep(s)
    PROVE  /\ stripe' \in [Subs -> SeenRow] /\ paid' \in [Subs -> 0..MaxPeriod]
           /\ stripe'[s].status # "none"
           /\ \A t \in Subs : stripe[t].status # "none" => stripe'[t].status # "none"
<1> USE StatusMapped, BoundsAssumption DEF SeenRow
<1>0. /\ stripe \in [Subs -> SeenRow] /\ paid \in [Subs -> 0..MaxPeriod]
      /\ stripe[s] \in SeenRow
  BY DEF TypeOK
<1>1. CASE Subscribe(s)
  BY <1>0, <1>1 DEF Subscribe
<1>2. CASE Change(s)
  <2>1. PICK status \in StripeStatuses : /\ <<stripe[s].status, status>> \in Changes
                                         /\ stripe' = [stripe EXCEPT ![s].status = status]
    BY <1>2 DEF Change
  <2>2. status # "none"
    BY <2>1 DEF Changes
  <2>3. [stripe[s] EXCEPT !.status = status] \in SeenRow
    BY <1>0
  <2> QED  BY <1>0, <1>2, <2>1, <2>2, <2>3 DEF Change
<1>3. CASE Renew(s)
  BY <1>0, <1>3 DEF Renew
<1>4. CASE Pay(s)
  BY <1>0, <1>4 DEF Pay
<1>5. CASE CancelSubscription(s)
  <2>1. [stripe[s] EXCEPT !.status = "canceled"] \in SeenRow
    BY <1>0
  <2> QED  BY <1>0, <1>5, <2>1 DEF CancelSubscription
<1> QED  BY <1>1, <1>2, <1>3, <1>4, <1>5 DEF StripeStep

\* A step of Stripe changes nothing a handler relies on.
LEMMA StripeKeeps == ASSUME IInv, NEW s \in Subs, StripeStep(s) PROVE IInv'
<1> USE DEF IInv, EventsOK
<1>1. PICK second \in Clock, type \in {"updated", "deleted", "paid"} :
        /\ events' = Append(events, [type |-> type, sub |-> s, at |-> second])
        /\ second \in 1 .. Len(events) + 1
        /\ Len(events) < MaxEvents
        /\ UNCHANGED handlerVars
  BY EventAppended
<1>2. /\ stripe' \in [Subs -> SeenRow] /\ paid' \in [Subs -> 0..MaxPeriod]
      /\ stripe'[s].status # "none"
      /\ \A t \in Subs : stripe[t].status # "none" => stripe'[t].status # "none"
  BY StripeTyped
<1>3. events \in Seq(EventRow) /\ Len(events) \in Nat /\ DOMAIN events = 1 .. Len(events)
  BY DEF TypeOK, EventRow
<1>4. /\ events' \in Seq(EventRow) /\ Len(events') = Len(events) + 1
      /\ DOMAIN events' = 1 .. Len(events) + 1
      /\ events'[Len(events) + 1] = [type |-> type, sub |-> s, at |-> second]
      /\ \A i \in DOMAIN events : i \in DOMAIN events' /\ events'[i] = events[i]
  <2>1. [type |-> type, sub |-> s, at |-> second] \in EventRow
    BY DEF EventRow
  <2> QED  BY <1>1, <1>3, <2>1
<1>5. TypeOK'
  <2>1. Len(events') <= MaxEvents
    BY <1>1, <1>3, <1>4, BoundsAssumption
  <2> QED  BY <1>1, <1>2, <1>4, <2>1 DEF TypeOK, EventRow, SeenRow, handlerVars
<1>6. EventsTimed' /\ EventsOfSubs'
  <2>1. \A i \in DOMAIN events' : i \in DOMAIN events \/ i = Len(events) + 1
    BY <1>3, <1>4
  <2>2. ASSUME NEW i \in 1 .. Len(events) PROVE events[i].sub \in Subs
    <3>1. events[i] \in EventRow
      BY <1>3
    <3> QED  BY <3>1 DEF EventRow
  <2>3. EventsTimed'
    BY <1>1, <1>3, <1>4, <2>1 DEF EventsTimed
  <2> QED  BY <1>2, <1>3, <1>4, <2>1, <2>2, <2>3 DEF EventsOfSubs
<1>7. EventTaken' /\ \A p \in Procs : job[p].at \in Handling => Sub(p)' = Sub(p)
  <2>1. \A p \in Procs : job'[p] = job[p] /\ job[p].event \in Nat
    BY <1>1 DEF handlerVars, TypeOK
  <2>2. \A p \in Procs : job[p].at \in Handling => job[p].event \in DOMAIN events
    BY <1>3, <2>1 DEF EventTaken
  <2>3. EventTaken'
    BY <1>3, <1>4, <2>1 DEF EventTaken
  <2> QED  BY <1>4, <2>1, <2>2, <2>3 DEF Sub, Event
<1>8. RowsOK'
  BY <1>1 DEF handlerVars, RowsOK, ServesAlone, Serving, AbsentIsUnbound, MadeIsBound, MappingBinds,
     MappedTogether, UnmappedIsBlank
<1>9. HandlersOK'
  BY <1>1, <1>7 DEF handlerVars, HandlersOK, KnownIsMapped, WritesOwn, BetaForOne, At, Handling
<1> QED  BY <1>5, <1>6, <1>7, <1>8, <1>9

-----------------------------------------------------------------------------
(* Handlers. *)

\* What a handler that has an event knows of it.
LEMMA HandlingFacts ==
    ASSUME TypeOK, EventTaken, NEW p \in Procs, job[p].at \in Handling
    PROVE  /\ job[p].event \in 1 .. Len(events) /\ job[p].event \in 1 .. MaxEvents
           /\ Sub(p) \in Subs /\ Event(p).at \in Clock
           /\ job[p].seen \in SeenRow /\ job[p].seen.status \in StripeStatuses \ {"none"}
<1>1. job[p].event \in 0 .. MaxEvents /\ job[p].seen \in SeenRow
  BY DEF TypeOK, SeenRow
<1>2. Len(events) \in Nat /\ Len(events) <= MaxEvents /\ events \in Seq(EventRow)
  BY DEF TypeOK, EventRow
<1>3. job[p].event \in 1 .. Len(events) /\ job[p].event \in 1 .. MaxEvents
  BY <1>1, <1>2, BoundsAssumption DEF EventTaken
<1>4. Event(p) \in EventRow
  BY <1>2, <1>3 DEF Event
<1> QED  BY <1>1, <1>3, <1>4 DEF EventRow, SeenRow, Sub, EventTaken

\* What the row of a handler's process must say.
RowTaken(r) ==
    /\ r \in JobRow /\ r.event <= Len(events)
    /\ r.at \in Handling => r.event # 0 /\ r.seen.status # "none"

RowReads(p, r) ==
    LET s == events[r.event].sub
    IN  /\ r.at \in {"reading", "writing"} /\ r.known => mapping[s].event # 0
        /\ r.at = "writing" =>
              /\ ent[r.ent].ref \in {s, Unbound}
              /\ r.ent \in Subs => r.ent = s
              /\ r.ent = Beta => \A q \in Procs \ {p} :
                    At(q, "writing") /\ job[q].ent = Beta => Sub(q) = s

\* A step that changes one process's row, and neither an entitlement nor a
\* mapping.
LEMMA HandlerMoves ==
    ASSUME IInv, NEW p \in Procs, NEW r, RowTaken(r), RowReads(p, r),
           job' = [job EXCEPT ![p] = r], UNCHANGED <<stripeVars, customer, ent, mapping>>,
           claim' \in [EventIds -> {"new", "processing", "processed", "failed"}],
           grants' \subseteq GrantRow, faults' \in 0 .. MaxFaults
    PROVE  IInv'
<1> USE DEF IInv, EventsOK
<1>1. UNCHANGED <<events, stripe, paid, ent, mapping, customer>>
  BY DEF stripeVars
<1>2. job \in [Procs -> JobRow] /\ job'[p] = r /\ \A q \in Procs \ {p} : job'[q] = job[q]
  BY DEF TypeOK, JobRow
<1>3. TypeOK'
  <2>1. job' \in [Procs -> JobRow]
    BY <1>2 DEF RowTaken
  <2> QED  BY <1>1, <2>1 DEF TypeOK, JobRow, GrantRow
<1>4. EventsOK' /\ RowsOK'
  BY <1>1 DEF EventsTimed, EventsOfSubs, RowsOK, ServesAlone, Serving, AbsentIsUnbound, MadeIsBound,
     MappingBinds, MappedTogether, UnmappedIsBlank
<1>5. EventTaken'
  BY <1>1, <1>2 DEF EventTaken, RowTaken
<1>6. KnownIsMapped' /\ WritesOwn'
  BY <1>1, <1>2 DEF HandlersOK, KnownIsMapped, WritesOwn, RowReads, At, Sub, Event
<1>7. BetaForOne'
  <2> SUFFICES ASSUME NEW x \in Procs, NEW y \in Procs, At(x, "writing")', At(y, "writing")',
                      job'[x].ent = Beta, job'[y].ent = Beta
               PROVE  Sub(x)' = Sub(y)'
    BY DEF BetaForOne
  <2> QED  BY <1>1, <1>2 DEF HandlersOK, BetaForOne, RowReads, At, Sub, Event
<1> QED  BY <1>3, <1>4, <1>5, <1>6, <1>7 DEF HandlersOK

\* A handler that goes on after its transaction, or gives up.
LEMMA HandlerRests ==
    ASSUME IInv, NEW p \in Procs, NEW stage \in Stages \ Handling, GoTo(p, stage),
           UNCHANGED <<stripeVars, customer, ent, mapping, claim>>,
           grants' \subseteq GrantRow, faults' \in 0 .. MaxFaults
    PROVE  IInv'
<1>1. job[p] \in JobRow /\ job[p].event <= Len(events)
  BY DEF IInv, TypeOK, JobRow, EventTaken
<1>2. Rest(p, stage) \in JobRow
  BY RestTyped DEF IInv
<1>3. Rest(p, stage).at = stage /\ Rest(p, stage).event = job[p].event
  BY DEF Rest, NoJob
<1>4. RowTaken(Rest(p, stage)) /\ RowReads(p, Rest(p, stage))
  BY <1>1, <1>2, <1>3 DEF RowTaken, RowReads, Handling
<1>5. claim' \in [EventIds -> {"new", "processing", "processed", "failed"}]
  BY DEF IInv, TypeOK
<1> QED  BY <1>4, <1>5, HandlerMoves DEF GoTo

\* A claimed event is one that was emitted, and its subscription exists.
LEMMA BeginKeeps ==
    ASSUME IInv, NEW p \in Procs, NEW e \in 1 .. Len(events), beginStripeEvent(p, e)
    PROVE  IInv'
<1> DEFINE r == [NoJob EXCEPT !.at = "retrieved", !.event = e, !.seen = Retrieved(e)]
<1>1. events \in Seq(EventRow) /\ Len(events) \in Nat /\ Len(events) <= MaxEvents
  BY DEF IInv, TypeOK, EventRow
<1>2. events[e] \in EventRow
  BY <1>1
<1>3. Retrieved(e) \in SeenRow /\ Retrieved(e).status # "none"
  <2>1. events[e].sub \in Subs
    BY <1>2 DEF EventRow
  <2>2. stripe \in [Subs -> SeenRow]
    BY DEF IInv, TypeOK, SeenRow
  <2>3. e \in DOMAIN events
    BY <1>1
  <2> QED  BY <2>1, <2>2, <2>3 DEF IInv, EventsOK, EventsOfSubs, Retrieved
<1>4. NoJob \in JobRow /\ e \in 0 .. MaxEvents
  BY <1>1, NoJobTyped, BoundsAssumption
<1>5. r \in JobRow /\ r.at = "retrieved" /\ r.event = e /\ r.seen = Retrieved(e)
  BY <1>3, <1>4 DEF JobRow, SeenRow, NoJob, Stages
<1>6. job' = [job EXCEPT ![p] = r]
  BY DEF beginStripeEvent
<1> HIDE DEF r
<1>7. RowTaken(r) /\ RowReads(p, r)
  BY <1>1, <1>3, <1>5 DEF RowTaken, RowReads
<1>8. /\ claim' \in [EventIds -> {"new", "processing", "processed", "failed"}]
      /\ grants' \subseteq GrantRow /\ faults' \in 0 .. MaxFaults
      /\ UNCHANGED <<stripeVars, customer, ent, mapping>>
  BY DEF beginStripeEvent, IInv, TypeOK, GrantRow
<1> QED  BY <1>6, <1>7, <1>8, HandlerMoves

\* What the grants, the claims and the faults of a step that leaves them are.
LEMMA LedgerTyped ==
    ASSUME IInv
    PROVE  /\ claim \in [EventIds -> {"new", "processing", "processed", "failed"}]
           /\ grants \subseteq GrantRow /\ faults \in 0 .. MaxFaults
BY DEF IInv, TypeOK, GrantRow

LEMMA ReadMappingKeeps == ASSUME IInv, NEW p \in Procs, ReadMapping(p) PROVE IInv'
<1> DEFINE known == mapping[Sub(p)].event # 0
           r == [job[p] EXCEPT !.at = "reading", !.known = known]
<1>1. CASE GoTo(p, AfterApply(p))
  <2>1. AfterApply(p) \in Stages \ Handling
    BY DEF AfterApply, Stages, Handling
  <2> QED  BY <1>1, <2>1, HandlerRests, LedgerTyped DEF ReadMapping
<1>2. CASE job' = [job EXCEPT ![p].at = "reading", ![p].known = known]
  <2>1. job[p] \in JobRow /\ job[p].event <= Len(events) /\ job[p].at \in Handling
    BY DEF IInv, TypeOK, JobRow, EventTaken, ReadMapping, At, Handling
  <2>2. job' = [job EXCEPT ![p] = r]
    BY <1>2 DEF IInv, TypeOK
  <2>3. /\ r \in JobRow /\ r.at = "reading" /\ r.known = known /\ r.event = job[p].event
        /\ r.seen = job[p].seen
    BY <2>1 DEF JobRow, Stages
  <2> HIDE DEF r
  <2>4. RowTaken(r)
    BY <2>1, <2>3 DEF RowTaken, IInv, EventTaken
  <2>5. RowReads(p, r)
    BY <2>3 DEF RowReads, Sub, Event
  <2> QED  BY <2>2, <2>4, <2>5, HandlerMoves, LedgerTyped DEF ReadMapping
<1> QED  BY <1>1, <1>2 DEF ReadMapping

\* The entitlement that a handler finds is its subscription's or nobody's; one
\* made for another subscription is that one's, and the Paid-Beta entitlement
\* is locked while another handler writes it.
LEMMA FoundIsOwn ==
    ASSUME IInv, NEW p \in Procs, At(p, "reading"),
           ~job[p].known =>
              \A q \in Procs \ {p}, e \in Candidates(Sub(p)) : ~LocksEnt(q, e)
    PROVE  /\ EntitlementFor(p) \in Ents
           /\ ent[EntitlementFor(p)].ref \in {Sub(p), Unbound}
           /\ EntitlementFor(p) \in Subs => EntitlementFor(p) = Sub(p)
           /\ EntitlementFor(p) = Beta => \A q \in Procs \ {p} :
                 At(q, "writing") /\ job[q].ent = Beta => Sub(q) = Sub(p)
<1> DEFINE s == Sub(p)
           e == EntitlementFor(p)
<1> USE DEF IInv, RowsOK, HandlersOK
<1>1. s \in Subs /\ \A q \in Procs : At(q, "writing") => Sub(q) \in Subs
  BY HandlingFacts DEF At, Handling
<1>2. CASE job[p].known
  <2>1. mapping[s].event # 0 /\ e = mapping[s].ent
    BY <1>2 DEF KnownIsMapped, EntitlementFor, At
  <2>2. e \in Ents /\ ent[e].ref = s
    BY <1>1, <2>1 DEF MappingBinds, TypeOK
  <2>3. e \in Subs => e = s
    BY <1>1, <2>2, UnboundAssumption DEF AbsentIsUnbound, MadeIsBound
  <2>4. e = Beta => \A q \in Procs \ {p} : At(q, "writing") /\ job[q].ent = Beta => Sub(q) = s
    BY <1>1, <2>2, UnboundAssumption DEF WritesOwn
  <2> QED  BY <2>2, <2>3, <2>4
<1>3. CASE ~job[p].known /\ Candidates(s) # {}
  <2>1. e \in Candidates(s)
    BY <1>3 DEF EntitlementFor, Exact
  <2>2. e \in Ents /\ ent[e].status # "absent" /\ ent[e].ref \in {s, Unbound}
    BY <2>1 DEF Candidates
  <2>3. e \in Subs => e = s
    BY <1>1, <2>2, UnboundAssumption DEF MadeIsBound
  <2>4. \A q \in Procs \ {p} : ~(At(q, "writing") /\ job[q].ent = e)
    BY <1>3, <2>1, <2>2 DEF LocksEnt
  <2> QED  BY <2>2, <2>3, <2>4
<1>4. CASE ~job[p].known /\ Candidates(s) = {}
  <2>1. e = s
    BY <1>4 DEF EntitlementFor, Exact
  <2>2. ent[s].ref \in {s, Unbound}
    BY <1>1 DEF AbsentIsUnbound, MadeIsBound, Ents
  <2> QED  BY <1>1, <2>1, <2>2, BetaAssumption DEF Ents
<1> QED  BY <1>2, <1>3, <1>4

LEMMA FindKeeps == ASSUME IInv, NEW p \in Procs, FindEntitlement(p) PROVE IInv'
<1> DEFINE e == EntitlementFor(p)
           r == [job[p] EXCEPT !.at = "writing", !.ent = e]
<1>1. CASE GoTo(p, "failed")
  BY <1>1, HandlerRests, LedgerTyped DEF FindEntitlement, Stages, Handling
<1>2. CASE job' = [job EXCEPT ![p].at = "writing", ![p].ent = e]
  <2>1. job[p] \in JobRow /\ job[p].event <= Len(events) /\ job[p].at \in Handling
    BY DEF IInv, TypeOK, JobRow, EventTaken, FindEntitlement, At, Handling
  <2>2. job' = [job EXCEPT ![p] = r]
    BY <1>2 DEF IInv, TypeOK
  <2>3. /\ e \in Ents /\ ent[e].ref \in {Sub(p), Unbound}
        /\ e \in Subs => e = Sub(p)
        /\ e = Beta => \A q \in Procs \ {p} : At(q, "writing") /\ job[q].ent = Beta => Sub(q) = Sub(p)
    BY FoundIsOwn DEF FindEntitlement
  <2>4. /\ r \in JobRow /\ r.at = "writing" /\ r.ent = e /\ r.event = job[p].event
        /\ r.seen = job[p].seen /\ r.known = job[p].known
    BY <2>1, <2>3 DEF JobRow, Stages
  <2>5. job[p].known => mapping[Sub(p)].event # 0
    BY DEF IInv, HandlersOK, KnownIsMapped, FindEntitlement, At
  <2> HIDE DEF r, e
  <2>6. RowTaken(r)
    BY <2>1, <2>4 DEF RowTaken, IInv, EventTaken
  <2>7. RowReads(p, r)
    BY <2>3, <2>4, <2>5 DEF RowReads, Sub, Event
  <2> QED  BY <2>2, <2>6, <2>7, HandlerMoves, LedgerTyped DEF FindEntitlement
<1> QED  BY <1>1, <1>2 DEF FindEntitlement

-----------------------------------------------------------------------------
(* The writes of a handler's transaction. *)

\* A mapping only moves to a later event, and stays cancelled.
Onwards ==
    \A s \in Subs :
        /\ mapping'[s].at >= mapping[s].at
        /\ Terminal(mapping[s].status) => Terminal(mapping'[s].status)

\* The indexes and the trigger let a handler write one serving entitlement, of
\* one subscription, for a later event, whatever was committed since it read.
LEMMA StoreKeeps ==
    ASSUME IInv, NEW p \in Procs, At(p, "writing"), CanStore(p), Store(p),
           NEW stage \in Stages \ Handling, GoTo(p, stage),
           UNCHANGED <<stripeVars, customer, claim, grants>>, faults' \in 0 .. MaxFaults
    PROVE  IInv' /\ Onwards
<1> DEFINE s == Sub(p)
           e == job[p].ent
           status == mapStripeStatus[job[p].seen.status]
           entRow == [status |-> status, period |-> job[p].seen.period, ref |-> s]
           mapRow == [ent |-> e, status |-> status, at |-> Event(p).at, event |-> job[p].event]
<1> USE DEF IInv, EventsOK, RowsOK, HandlersOK
<1>1. /\ s \in Subs /\ Event(p).at \in Clock /\ job[p].event \in 1 .. MaxEvents
      /\ job[p].seen \in SeenRow /\ job[p].seen.status \in StripeStatuses \ {"none"}
  BY HandlingFacts DEF At, Handling
<1>2. status \in Statuses /\ e \in Ents
  BY <1>1, StatusMapped DEF TypeOK
<1>3. entRow \in EntRow /\ mapRow \in MapRow
  BY <1>1, <1>2 DEF EntRow, MapRow, SeenRow
<1>4. \A o \in Ents \ {e} : ent[o].ref # s
  BY DEF CanStore, UniqueIndexes
<1>5. mapping \in [Subs -> MapRow] /\ ent \in [Ents -> EntRow]
  BY DEF TypeOK, MapRow, EntRow
<1>6. mapping[s].event # 0 => mapping[s].ent = e
  <2>1. mapping[s].ent \in Ents
    BY <1>1, <1>5 DEF MapRow
  <2> QED  BY <1>1, <1>4, <2>1 DEF MappingBinds
<1>7. ent' = [ent EXCEPT ![e] = entRow] /\ mapping' = [mapping EXCEPT ![s] = mapRow]
  BY <1>1, <1>5, <1>6 DEF Store
<1>8. \A q \in Procs : At(q, "writing") /\ job[q].ent = e => Sub(q) = s
  <2>1. CASE e \in Subs
    BY <2>1 DEF WritesOwn
  <2>2. CASE e = Beta
    BY <2>2 DEF BetaForOne
  <2> QED  BY <1>2, <2>1, <2>2 DEF Ents
<1>9. /\ entRow.status = status /\ entRow.ref = s
      /\ mapRow.ent = e /\ mapRow.status = status /\ mapRow.at = Event(p).at /\ mapRow.event # 0
  BY <1>1
<1>10. ent[e].ref \in {s, Unbound} /\ (e \in Subs => e = s)
  BY DEF WritesOwn
<1>11. status \in Entitled => Serving \ {e} = {}
  BY DEF CanStore, UniqueIndexes
<1>12. Onwards
  <2>1. ASSUME mapping[s].event # 0
        PROVE  Event(p).at >= mapping[s].at /\ (Terminal(mapping[s].status) => Terminal(status))
    BY <2>1 DEF CanStore, SubscriptionTrigger, Event
  <2>2. ASSUME mapping[s].event = 0
        PROVE  Event(p).at >= mapping[s].at /\ ~Terminal(mapping[s].status)
    BY <1>1, <2>2 DEF UnmappedIsBlank, Terminal, Clock
  <2>3. \A t \in Subs : mapping[t].at \in Clock
    BY <1>5 DEF MapRow
  <2> HIDE DEF mapRow, entRow, status
  <2> QED  BY <1>1, <1>5, <1>7, <1>9, <2>1, <2>2, <2>3 DEF Onwards, Clock
<1> HIDE DEF s, e, status, entRow, mapRow
<1>13. UNCHANGED <<events, stripe, paid, customer>>
  BY DEF stripeVars
<1>14. /\ job' \in [Procs -> JobRow] /\ job'[p].at = stage /\ job'[p].event = job[p].event
       /\ \A q \in Procs \ {p} : job'[q] = job[q]
  <2>1. Rest(p, stage) \in JobRow /\ Rest(p, stage).at = stage /\ Rest(p, stage).event = job[p].event
    BY RestTyped DEF Rest, NoJob
  <2>2. job \in [Procs -> JobRow]
    BY DEF TypeOK, JobRow
  <2> QED  BY <2>1, <2>2 DEF GoTo
<1>15. ent' \in [Ents -> EntRow] /\ mapping' \in [Subs -> MapRow]
  BY <1>3, <1>5, <1>7
<1>16. TypeOK'
  BY <1>13, <1>14, <1>15 DEF TypeOK, JobRow, EntRow, MapRow
<1>17. EventsOK' /\ EventTaken'
  BY <1>13, <1>14 DEF EventsTimed, EventsOfSubs, EventTaken, Handling
<1>18. /\ ent'[e] = entRow /\ \A o \in Ents \ {e} : ent'[o] = ent[o]
       /\ mapping'[s] = mapRow /\ \A t \in Subs \ {s} : mapping'[t] = mapping[t]
  BY <1>1, <1>2, <1>5, <1>7 DEF s, e
<1>19. RowsOK'
  <2>1. ServesAlone'
    <3>1. CASE status \in Entitled
      BY <1>9, <1>11, <1>18, <3>1 DEF Serving, ServesAlone
    <3>2. CASE status \notin Entitled
      BY <1>9, <1>18, <3>2 DEF Serving, ServesAlone
    <3> QED  BY <3>1, <3>2
  <2>2. AbsentIsUnbound' /\ MadeIsBound'
    <3>1. status # "absent"
      BY <1>2 DEF Statuses
    <3> QED  BY <1>9, <1>10, <1>18, <3>1, UnboundAssumption DEF AbsentIsUnbound, MadeIsBound, Ents
  <2>3. MappingBinds'
    <3> SUFFICES ASSUME NEW t \in Subs, mapping'[t].event # 0 PROVE ent'[mapping'[t].ent].ref = t
      BY DEF MappingBinds
    <3>1. CASE t = s
      BY <1>9, <1>18, <3>1
    <3>2. CASE t # s
      <4>1. ent[mapping[t].ent].ref = t /\ mapping'[t] = mapping[t] /\ mapping[t].ent \in Ents
        BY <1>5, <1>18, <3>2 DEF MappingBinds, MapRow
      <4>2. mapping[t].ent # e
        BY <1>10, <3>2, <4>1, UnboundAssumption
      <4> QED  BY <1>18, <4>1, <4>2
    <3> QED  BY <3>1, <3>2
  <2>4. MappedTogether'
    <3> SUFFICES ASSUME NEW o \in Ents, ent'[o].ref # Unbound
                 PROVE  /\ mapping'[ent'[o].ref].ent = o
                        /\ mapping'[ent'[o].ref].status = ent'[o].status
      BY DEF MappedTogether
    <3>1. CASE o = e
      BY <1>9, <1>18, <3>1
    <3>2. CASE o # e
      <4>1. ent'[o] = ent[o] /\ ent[o].ref \in Subs \ {s}
        BY <1>4, <1>5, <1>18, <3>2 DEF s, e, EntRow
      <4> QED  BY <1>18, <4>1 DEF MappedTogether
    <3> QED  BY <3>1, <3>2
  <2>5. UnmappedIsBlank'
    BY <1>9, <1>18 DEF UnmappedIsBlank
  <2> QED  BY <2>1, <2>2, <2>3, <2>4, <2>5
<1>20. HandlersOK'
  <2>1. \A q \in Procs : q # p => Sub(q)' = Sub(q) /\ job'[q] = job[q]
    BY <1>13, <1>14 DEF Sub, Event
  <2>2. \A q \in Procs : job'[q].at \in {"reading", "writing"} => q # p
    BY <1>14 DEF Handling
  <2>3. \A q \in Procs : job[q].at \in {"reading", "writing"} => Sub(q) \in Subs
    BY HandlingFacts DEF Handling
  <2>4. KnownIsMapped'
    BY <1>9, <1>18, <2>1, <2>2, <2>3 DEF KnownIsMapped
  <2>5. WritesOwn'
    <3> SUFFICES ASSUME NEW q \in Procs, job'[q].at = "writing"
                 PROVE  /\ ent'[job'[q].ent].ref \in {Sub(q)', Unbound}
                        /\ job'[q].ent \in Subs => job'[q].ent = Sub(q)'
      BY DEF WritesOwn, At
    <3>1. q # p /\ job'[q] = job[q] /\ Sub(q)' = Sub(q) /\ At(q, "writing") /\ job[q].ent \in Ents
      BY <2>1, <2>2 DEF At, TypeOK
    <3>2. CASE job[q].ent = e
      BY <1>8, <1>9, <1>18, <3>1, <3>2 DEF WritesOwn
    <3>3. CASE job[q].ent # e
      BY <1>18, <3>1, <3>3 DEF WritesOwn
    <3> QED  BY <3>2, <3>3
  <2>6. BetaForOne'
    BY <2>1, <2>2 DEF BetaForOne, At
  <2> QED  BY <2>4, <2>5, <2>6
<1> QED  BY <1>12, <1>16, <1>17, <1>19, <1>20

-----------------------------------------------------------------------------
(* The other steps of a process. *)

\* A step that leaves the mappings alone moves none of them back.
LEMMA UntouchedOnwards == ASSUME TypeOK, UNCHANGED mapping PROVE Onwards
<1>1. \A s \in Subs : mapping[s].at \in Nat
  BY BoundsAssumption DEF TypeOK, Clock
<1> QED  BY <1>1 DEF Onwards

\* The entry of a grant names an entitlement and a period, and its key the
\* subscription and period of the invoice, or activation.
LEMMA EntryTyped == ASSUME IInv, NEW p \in Procs PROVE Entry(p) \in GrantRow
<1>1. job[p] \in JobRow /\ job[p].event <= Len(events) /\ job[p].seen.period \in 0 .. MaxPeriod
  BY DEF IInv, TypeOK, JobRow, EventTaken
<1>2. CASE job[p].event = 0
  BY <1>1, <1>2, BoundsAssumption DEF Entry, GrantRow, JobRow, Ents
<1>3. CASE job[p].event # 0
  <2>1. events \in Seq(EventRow) /\ Len(events) \in Nat
    BY DEF IInv, TypeOK, EventRow
  <2>2. job[p].event \in 1 .. Len(events)
    BY <1>1, <1>3, <2>1, BoundsAssumption DEF JobRow
  <2>3. Event(p) \in EventRow
    BY <2>1, <2>2 DEF Event
  <2>4. Sub(p) \in Ents
    BY <2>3 DEF Sub, EventRow, Ents
  <2> QED  BY <1>1, <1>3, <2>4 DEF Entry, GrantRow, JobRow
<1> QED  BY <1>2, <1>3

\* A row without an event, in whose transaction nothing is read or written.
LEMMA BlankKeeps ==
    ASSUME IInv, NEW p \in Procs, NEW r \in JobRow, r.at \notin Handling, r.event = 0,
           job' = [job EXCEPT ![p] = r], UNCHANGED <<stripeVars, customer, ent, mapping>>,
           claim' \in [EventIds -> {"new", "processing", "processed", "failed"}],
           grants' \subseteq GrantRow, faults' \in 0 .. MaxFaults
    PROVE  IInv'
<1>1. Len(events) \in Nat
  BY DEF IInv, TypeOK
<1>2. RowTaken(r) /\ RowReads(p, r)
  BY <1>1 DEF RowTaken, RowReads, Handling
<1> QED  BY <1>2, HandlerMoves

LEMMA FinishKeeps ==
    ASSUME IInv, NEW p \in Procs, completeStripeEvent(p) \/ abandonStripeEvent(p) \/ Crash(p)
    PROVE  IInv'
<1>1. NoJob \in JobRow /\ NoJob.at \notin Handling /\ NoJob.event = 0
  BY NoJobTyped DEF NoJob, Handling
<1>2. claim' \in [EventIds -> {"new", "processing", "processed", "failed"}]
  BY LedgerTyped DEF completeStripeEvent, abandonStripeEvent, Finish, Crash
<1>3. faults' \in 0 .. MaxFaults
  BY LedgerTyped, BoundsAssumption DEF completeStripeEvent, abandonStripeEvent, Finish, Crash
<1>4. /\ job' = [job EXCEPT ![p] = NoJob] /\ UNCHANGED grants
      /\ UNCHANGED <<stripeVars, customer, ent, mapping>>
  BY DEF completeStripeEvent, abandonStripeEvent, Finish, Crash
<1> QED  BY <1>1, <1>2, <1>3, <1>4, BlankKeeps, LedgerTyped

LEMMA ActiveKeeps == ASSUME IInv, NEW p \in Procs, ReadActiveEntitlement(p) PROVE IInv'
<1>1. CASE GoTo(p, "failed")
  BY <1>1, HandlerRests, LedgerTyped DEF ReadActiveEntitlement, Stages, Handling
<1>2. CASE \E e \in Serving :
             job' = [job EXCEPT ![p].at = "granting", ![p].ent = e, ![p].period = ent[e].period]
  <2>1. PICK e \in Serving :
           job' = [job EXCEPT ![p].at = "granting", ![p].ent = e, ![p].period = ent[e].period]
    BY <1>2
  <2> DEFINE r == [job[p] EXCEPT !.at = "granting", !.ent = e, !.period = ent[e].period]
  <2>2. job[p] \in JobRow /\ job[p].event <= Len(events)
    BY DEF IInv, TypeOK, JobRow, EventTaken
  <2>3. e \in Ents /\ ent[e].period \in 0 .. MaxPeriod
    BY DEF Serving, IInv, TypeOK
  <2>4. job' = [job EXCEPT ![p] = r]
    BY <2>1 DEF IInv, TypeOK
  <2>5. r \in JobRow /\ r.at = "granting" /\ r.event = job[p].event
    BY <2>2, <2>3 DEF JobRow, Stages
  <2> HIDE DEF r
  <2>6. RowTaken(r) /\ RowReads(p, r)
    BY <2>2, <2>5 DEF RowTaken, RowReads, Handling
  <2> QED  BY <2>4, <2>6, HandlerMoves, LedgerTyped DEF ReadActiveEntitlement
<1> QED  BY <1>1, <1>2 DEF ReadActiveEntitlement

LEMMA AppendKeeps == ASSUME IInv, NEW p \in Procs, AppendGrant(p) PROVE IInv'
<1>1. grants' \subseteq GrantRow
  BY EntryTyped, LedgerTyped DEF AppendGrant
<1>2. PICK stage \in {"complete", "failed"} : GoTo(p, stage)
  BY DEF AppendGrant
<1> QED  BY <1>1, <1>2, HandlerRests, LedgerTyped DEF AppendGrant, Stages, Handling

\* Activation makes its entitlement when none serves, and nobody's mapping
\* names an entitlement that is not there.
LEMMA ProvisionKeeps == ASSUME IInv, NEW p \in Procs, ProvisionPaidBeta(p) PROVE IInv'
<1> USE DEF IInv, RowsOK, HandlersOK
<1>0. /\ [NoJob EXCEPT !.at = "grant"] \in JobRow
      /\ [NoJob EXCEPT !.at = "grant"].at = "grant" /\ [NoJob EXCEPT !.at = "grant"].event = 0
  BY NoJobTyped DEF NoJob, JobRow, Stages
<1>1. CASE UNCHANGED ent
  BY <1>0, <1>1, BlankKeeps, LedgerTyped DEF ProvisionPaidBeta, Handling
<1>2. CASE /\ ent[Beta].status = "absent" /\ Serving = {}
           /\ ent' = [ent EXCEPT ![Beta] = [NoEnt EXCEPT !.status = "active"]]
  <2> DEFINE row == [NoEnt EXCEPT !.status = "active"]
             r == [NoJob EXCEPT !.at = "grant"]
  <2>1. row \in EntRow /\ row.status = "active" /\ row.ref = Unbound
    BY BoundsAssumption DEF NoEnt, EntRow, Statuses
  <2>2. ent \in [Ents -> EntRow] /\ Beta \in Ents /\ mapping \in [Subs -> MapRow]
    BY DEF TypeOK, EntRow, MapRow, Ents
  <2>3. ent' \in [Ents -> EntRow] /\ ent'[Beta] = row /\ \A e \in Ents \ {Beta} : ent'[e] = ent[e]
    BY <1>2, <2>1, <2>2
  <2>4. ent[Beta].ref = Unbound
    BY <1>2, <2>2 DEF AbsentIsUnbound
  <2>5. r \in JobRow /\ r.at = "grant" /\ r.event = 0 /\ Len(events) \in Nat
    BY <1>0 DEF TypeOK
  <2>6. job \in [Procs -> JobRow] /\ job' = [job EXCEPT ![p] = r]
    BY DEF ProvisionPaidBeta, TypeOK, JobRow
  <2>7. /\ UNCHANGED <<events, stripe, paid, customer, claim, mapping, grants, faults>>
    BY DEF ProvisionPaidBeta, stripeVars
  <2> HIDE DEF row, r
  <2>8. job' \in [Procs -> JobRow] /\ job'[p] = r /\ \A q \in Procs \ {p} : job'[q] = job[q]
    BY <2>5, <2>6
  <2>9. TypeOK'
    BY <2>3, <2>7, <2>8 DEF TypeOK, EntRow, JobRow
  <2>10. EventsOK' /\ EventTaken'
    BY <2>5, <2>7, <2>8 DEF EventsOK, EventsTimed, EventsOfSubs, EventTaken, Handling
  <2>11. RowsOK'
    <3>1. ServesAlone'
      BY <1>2, <2>3 DEF Serving, ServesAlone
    <3>2. AbsentIsUnbound' /\ MadeIsBound' /\ UnmappedIsBlank'
      BY <2>1, <2>3, <2>7, BetaAssumption DEF AbsentIsUnbound, MadeIsBound, UnmappedIsBlank, Ents
    <3>3. MappingBinds'
      <4> SUFFICES ASSUME NEW t \in Subs, mapping[t].event # 0 PROVE ent'[mapping[t].ent].ref = t
        BY <2>7 DEF MappingBinds
      <4>1. ent[mapping[t].ent].ref = t /\ mapping[t].ent \in Ents
        BY <2>2 DEF MappingBinds, MapRow
      <4>2. mapping[t].ent # Beta
        BY <2>4, <4>1, UnboundAssumption
      <4> QED  BY <2>3, <4>1, <4>2
    <3>4. MappedTogether'
      BY <2>1, <2>3, <2>7 DEF MappedTogether
    <3> QED  BY <3>1, <3>2, <3>3, <3>4
  <2>12. HandlersOK'
    <3>1. \A q \in Procs : job'[q].at \in {"reading", "writing"} => job'[q] = job[q] /\ Sub(q)' = Sub(q)
      BY <2>5, <2>7, <2>8 DEF Sub, Event
    <3>2. KnownIsMapped' /\ BetaForOne'
      BY <2>7, <3>1 DEF KnownIsMapped, BetaForOne, At
    <3>3. WritesOwn'
      <4>1. \A q \in Procs : job[q].ent \in Ents
        BY DEF TypeOK
      <4> QED  BY <2>1, <2>3, <3>1, <4>1 DEF WritesOwn, At
    <3> QED  BY <3>2, <3>3
  <2> QED  BY <2>9, <2>10, <2>11, <2>12
<1> QED  BY <1>1, <1>2 DEF ProvisionPaidBeta

LEMMA FaultKeeps == ASSUME IInv, NEW p \in Procs, Fault(p) PROVE IInv' /\ Onwards
<1>1. faults' \in 0 .. MaxFaults /\ "failed" \in Stages \ Handling /\ GoTo(p, "failed")
  BY LedgerTyped, BoundsAssumption DEF Fault, Stages, Handling
<1>2. CASE At(p, "writing") /\ CanStore(p) /\ Store(p) /\ UNCHANGED grants
  BY <1>1, <1>2, StoreKeeps DEF Fault
<1>3. CASE UNCHANGED <<ent, mapping>> /\ (UNCHANGED grants \/ grants' = grants \cup {Entry(p)})
  <2>1. grants' \subseteq GrantRow
    BY <1>3, EntryTyped, LedgerTyped
  <2>2. IInv'
    BY <1>1, <1>3, <2>1, HandlerRests DEF Fault
  <2> QED  BY <1>3, <2>2, UntouchedOnwards DEF IInv
<1> QED  BY <1>2, <1>3 DEF Fault

LEMMA WriteKeeps == ASSUME IInv, NEW p \in Procs, WriteState(p) PROVE IInv' /\ Onwards
<1>1. CASE CanStore(p) /\ Store(p) /\ GoTo(p, AfterApply(p))
  <2>1. AfterApply(p) \in Stages \ Handling
    BY DEF AfterApply, Stages, Handling
  <2> QED  BY <1>1, <2>1, StoreKeeps, LedgerTyped DEF WriteState
<1>2. CASE UNCHANGED <<ent, mapping>> /\ GoTo(p, "failed")
  BY <1>2, HandlerRests, LedgerTyped, UntouchedOnwards DEF WriteState, Stages, Handling, IInv
<1> QED  BY <1>1, <1>2 DEF WriteState

\* The tenant's checkout makes its customer.
LEMMA CustomerKeeps == ASSUME IInv, CustomerForTenant PROVE IInv'
<1>1. UNCHANGED <<stripe, paid, events, claim, ent, mapping, grants, job, faults>> /\ customer' = TRUE
  BY DEF CustomerForTenant, stripeVars
<1>2. TypeOK'
  BY <1>1 DEF IInv, TypeOK
<1> QED  BY <1>1, <1>2 DEF IInv, EventsOK, EventsTimed, EventsOfSubs, EventTaken, RowsOK, ServesAlone,
         Serving, AbsentIsUnbound, MadeIsBound, MappingBinds, MappedTogether, UnmappedIsBlank,
         HandlersOK, KnownIsMapped, WritesOwn, BetaForOne, At, Sub, Event

\* Every step of a process keeps the rows and what the handlers rely on, and
\* moves no mapping back.
LEMMA HandleKeeps == ASSUME IInv, NEW p \in Procs, Handle(p) PROVE IInv' /\ Onwards
<1>1. CASE \E e \in 1 .. Len(events) : beginStripeEvent(p, e)
  BY <1>1, BeginKeeps, UntouchedOnwards DEF beginStripeEvent, IInv
<1>2. CASE ReadMapping(p)
  BY <1>2, ReadMappingKeeps, UntouchedOnwards DEF ReadMapping, IInv
<1>3. CASE FindEntitlement(p)
  BY <1>3, FindKeeps, UntouchedOnwards DEF FindEntitlement, IInv
<1>4. CASE WriteState(p)
  BY <1>4, WriteKeeps
<1>5. CASE ReadActiveEntitlement(p)
  BY <1>5, ActiveKeeps, UntouchedOnwards DEF ReadActiveEntitlement, IInv
<1>6. CASE AppendGrant(p)
  BY <1>6, AppendKeeps, UntouchedOnwards DEF AppendGrant, IInv
<1>7. CASE completeStripeEvent(p) \/ abandonStripeEvent(p) \/ Crash(p)
  BY <1>7, FinishKeeps, UntouchedOnwards DEF completeStripeEvent, abandonStripeEvent, Finish, Crash, IInv
<1>8. CASE ProvisionPaidBeta(p)
  BY <1>8, ProvisionKeeps, UntouchedOnwards DEF ProvisionPaidBeta, IInv
<1>9. CASE Fault(p)
  BY <1>9, FaultKeeps
<1> QED  BY <1>1, <1>2, <1>3, <1>4, <1>5, <1>6, <1>7, <1>8, <1>9 DEF Handle

-----------------------------------------------------------------------------
(* What Stripe has, and what the handlers and the rows have of it. *)

LEMMA FreshInitially == Init => FreshInv
<1> SUFFICES ASSUME Init PROVE FreshInv
  OBVIOUS
<1>1. DOMAIN events = {} /\ \A s \in Subs : Delivered(s) = {}
  BY DEF Init, Delivered
<1>2. HistoryOK
  BY <1>1 DEF HistoryOK
<1>3. \A p \in Procs : HandlerDone(job[p]) /\ HandlerFresh(job[p])
  BY DEF Init, HandlerDone, HandlerFresh, NoJob
<1>4. \A e \in EventIds : ClaimOK(e)
  BY DEF Init, ClaimOK
<1>5. \A s \in Subs : MappingDated(s) /\ RowFresh(s)
  BY DEF Init, MappingDated, RowFresh, NoMapping
<1> QED  BY <1>2, <1>3, <1>4, <1>5 DEF FreshInv

\* Stripe changes a subscription that is not cancelled, no other one, and tells
\* of it with an event that is the subscription's latest.
LEMMA StripeTells ==
    ASSUME IInv, HistoryOK, NEW s \in Subs, StripeStep(s), NEW n, n = Len(events) + 1
    PROVE  /\ UNCHANGED handlerVars /\ n \in Nat
           /\ DOMAIN events = 1 .. n - 1 /\ DOMAIN events' = 1 .. n
           /\ \A i \in 1 .. n - 1 : events'[i] = events[i] /\ events'[n].at >= events[i].at
           /\ events'[n].sub = s
           /\ \A t \in Subs \ {s} : stripe'[t] = stripe[t]
           /\ stripe[s].status # "canceled"
<1>1. PICK type \in {"updated", "deleted", "paid"} : Emit(type, s)
  BY DEF StripeStep, Subscribe, Change, Renew, Pay, CancelSubscription
<1>2. PICK second \in Seconds : events' = Append(events, [type |-> type, sub |-> s, at |-> second])
  BY <1>1 DEF Emit
<1>3. UNCHANGED handlerVars
  BY <1>1 DEF Emit
<1>4. events \in Seq(EventRow) /\ Len(events) \in Nat
  BY DEF IInv, TypeOK, EventRow
<1>5. DOMAIN events = 1 .. n - 1 /\ n \in Nat
  BY <1>4
<1>6. second \in Nat /\ \A i \in 1 .. n - 1 : second >= events[i].at
  <2>0. \A i \in 1 .. n - 1 : events[i].at \in Nat
    <3> SUFFICES ASSUME NEW i \in 1 .. n - 1 PROVE events[i].at \in Nat
      OBVIOUS
    <3>1. events[i] \in EventRow
      BY <1>4, <1>5
    <3> QED  BY <3>1, BoundsAssumption DEF EventRow, Clock
  <2>1. CASE events = << >>
    BY <1>2, <1>4, <2>1 DEF Seconds
  <2>2. CASE events # << >>
    <3>1. n - 1 \in 1 .. n - 1 /\ n - 1 = Len(events)
      BY <1>4, <1>5, <2>2
    <3>2. \A i \in 1 .. n - 1 : events[i].at <= events[n - 1].at
      BY <1>5, <3>1 DEF HistoryOK
    <3> QED  BY <1>2, <2>0, <2>2, <3>1, <3>2 DEF Seconds
  <2> QED  BY <2>1, <2>2
<1>7. [type |-> type, sub |-> s, at |-> second].sub = s /\ [type |-> type, sub |-> s, at |-> second].at = second
  OBVIOUS
<1>8. /\ DOMAIN events' = 1 .. n
      /\ \A i \in 1 .. n - 1 : events'[i] = events[i]
      /\ events'[n] = [type |-> type, sub |-> s, at |-> second]
  BY <1>2, <1>4, <1>5
<1>9. stripe \in [Subs -> SeenRow]
  BY DEF IInv, TypeOK, SeenRow
<1>10. \A t \in Subs \ {s} : stripe'[t] = stripe[t]
  BY <1>9 DEF StripeStep, Subscribe, Change, Renew, Pay, CancelSubscription
<1>11. stripe[s].status # "canceled"
  BY DEF StripeStep, Subscribe, Change, Changes, Renew, Pay, CancelSubscription
<1> QED  BY <1>3, <1>5, <1>6, <1>7, <1>8, <1>10, <1>11

LEMMA CancelledIsFinal ==
    ASSUME NEW status \in StripeStatuses \ {"none"}
    PROVE  Terminal(mapStripeStatus[status]) <=> status = "canceled"
BY StatusMapped DEF mapStripeStatus, Terminal

\* A mapping's and a handler's event is one that was emitted.
LEMMA EventsKnown ==
    ASSUME IInv, FreshInv
    PROVE  /\ \A p \in Procs : job[p].event # 0 => job[p].event \in 1 .. Len(events)
           /\ \A s \in Subs : mapping[s].event # 0 => /\ mapping[s].event \in 1 .. Len(events)
                                                      /\ events[mapping[s].event].sub = s
                                                      /\ stripe[s].status \in StripeStatuses \ {"none"}
           /\ \A i \in 1 .. Len(events) : events[i].sub \in Subs
           /\ \A p \in Procs : job[p].at \in Handling => job[p].event # 0
<1>1. events \in Seq(EventRow) /\ DOMAIN events = 1 .. Len(events) /\ Len(events) \in Nat
  BY DEF IInv, TypeOK, EventRow
<1>2. \A p \in Procs : job[p].event # 0 => job[p].event \in 1 .. Len(events)
  BY <1>1, BoundsAssumption DEF IInv, TypeOK, EventTaken
<1>3. \A i \in 1 .. Len(events) : events[i].sub \in Subs
  <2> SUFFICES ASSUME NEW i \in 1 .. Len(events) PROVE events[i].sub \in Subs
    OBVIOUS
  <2>1. events[i] \in EventRow
    BY <1>1
  <2> QED  BY <2>1 DEF EventRow
<1>4. \A s \in Subs : mapping[s].event # 0 => /\ mapping[s].event \in 1 .. Len(events)
                                              /\ events[mapping[s].event].sub = s
  BY <1>1 DEF FreshInv, MappingDated, Delivered
<1>5. \A s \in Subs : stripe[s].status \in StripeStatuses
  BY DEF IInv, TypeOK
<1> QED  BY <1>1, <1>2, <1>3, <1>4, <1>5 DEF IInv, EventsOK, EventsOfSubs, EventTaken

LEMMA StripeStaysFresh ==
    ASSUME IInv, FreshInv, NEW s \in Subs, StripeStep(s), NEW n, n = Len(events) + 1
    PROVE  FreshInv'
<1>1. /\ UNCHANGED handlerVars /\ n \in Nat
      /\ DOMAIN events = 1 .. n - 1 /\ DOMAIN events' = 1 .. n
      /\ \A i \in 1 .. n - 1 : events'[i] = events[i] /\ events'[n].at >= events[i].at
      /\ events'[n].sub = s
      /\ \A t \in Subs \ {s} : stripe'[t] = stripe[t]
      /\ stripe[s].status # "canceled"
  BY StripeTells DEF FreshInv
<1>2. /\ \A p \in Procs : job[p].event # 0 => job[p].event \in 1 .. n - 1
      /\ \A t \in Subs : mapping[t].event # 0 => /\ mapping[t].event \in 1 .. n - 1
                                                 /\ events[mapping[t].event].sub = t
                                                 /\ stripe[t].status \in StripeStatuses \ {"none"}
      /\ \A i \in 1 .. n - 1 : events[i].sub \in Subs
      /\ \A p \in Procs : job[p].at \in Handling => job[p].event # 0
  <2>1. Len(events) = n - 1
    BY DEF IInv, TypeOK
  <2> QED  BY <2>1, EventsKnown
<1>2a. n = Len(events) + 1 /\ Len(events) \in Nat /\ Len(events') = n
  BY <1>1 DEF IInv, TypeOK
<1>3. /\ \A t \in Subs \ {s} : Delivered(t)' = Delivered(t)
      /\ Delivered(s)' = Delivered(s) \cup {n}
  <2>1. \A t \in Subs, e \in 1 .. n - 1 : e \in Delivered(t)' <=> e \in Delivered(t)
    BY <1>1 DEF Delivered
  <2>2. \A t \in Subs : n \in Delivered(t)' <=> t = s
    <3>1. n \in 1 .. n
      BY <1>2a
    <3> QED  BY <1>1, <3>1 DEF Delivered
  <2>3. \A t \in Subs : Delivered(t) \subseteq 1 .. n - 1 /\ Delivered(t)' \subseteq 1 .. n
    BY <1>1 DEF Delivered
  <2>4. \A e \in 1 .. n : e \in 1 .. n - 1 \/ e = n
    BY <1>1
  <2>5. n \notin 1 .. n - 1
    BY <1>1
  <2> QED  BY <2>1, <2>2, <2>3, <2>4, <2>5
<1>4. /\ \A t \in Subs \ {s}, e \in 1 .. n - 1 : Latest(t, e)' <=> Latest(t, e)
      /\ \A e \in 1 .. n - 1 : ~Latest(s, e)'
      /\ Latest(s, n)'
  <2>1. \A e \in Delivered(s) : e \in 1 .. n - 1
    BY <1>1 DEF Delivered
  <2>0. n \in Nat /\ n \in Delivered(s)' /\ \A e \in Delivered(s)' : e \in 1 .. n
    <3>1. \A e \in 1 .. n - 1 : e \in 1 .. n
      BY <1>2a
    <3>2. n \in 1 .. n /\ n \in Nat
      BY <1>2a
    <3> QED  BY <1>3, <2>1, <3>1, <3>2
  <2>2. \A e \in 1 .. n - 1 : ~Latest(s, e)'
    BY <2>0 DEF Latest
  <2>3. Latest(s, n)'
    <3>1. \A e \in Delivered(s)' : e <= n
      BY <2>0
    <3> QED  BY <2>0, <3>1 DEF Latest
  <2>4. \A t \in Subs \ {s}, e \in 1 .. n - 1 : Latest(t, e)' <=> Latest(t, e)
    BY <1>3 DEF Latest
  <2> QED  BY <2>2, <2>3, <2>4
<1>5. HistoryOK'
  <2>1. ASSUME NEW t \in Subs, Delivered(t)' # {} PROVE \E e \in DOMAIN events' : Latest(t, e)'
    <3>1. CASE t = s
      BY <1>1, <1>4, <3>1
    <3>2. CASE t # s
      <4>1. PICK e \in 1 .. n - 1 : Latest(t, e)
        BY <1>1, <1>3, <2>1, <3>2 DEF FreshInv, HistoryOK
      <4>2. e \in 1 .. n
        BY <1>2a
      <4>3. DOMAIN events' = 1 .. n
        BY <1>1
      <4> QED  BY <1>4, <3>2, <4>1, <4>2, <4>3
    <3> QED  BY <3>1, <3>2
  <2>2. ASSUME NEW i \in 1 .. n, NEW j \in 1 .. n, i <= j PROVE events'[i].at <= events'[j].at
    <3>0. \A k \in 1 .. n - 1 : events[k].at \in Nat
      <4> SUFFICES ASSUME NEW k \in 1 .. n - 1 PROVE events[k].at \in Nat
        OBVIOUS
      <4>1. events \in Seq(EventRow) /\ k \in 1 .. Len(events)
        BY <1>2a DEF IInv, TypeOK, EventRow
      <4>2. events[k] \in EventRow
        BY <4>1
      <4> QED  BY <4>2, BoundsAssumption DEF EventRow, Clock
    <3>1. CASE j # n
      <4>1. i \in 1 .. n - 1 /\ j \in 1 .. n - 1
        BY <1>1, <2>2, <3>1
      <4> QED  BY <1>1, <2>2, <4>1 DEF FreshInv, HistoryOK
    <3>2. CASE j = n /\ i # n
      <4>1. i \in 1 .. n - 1
        BY <1>1, <2>2, <3>2
      <4>2. events'[i].at = events[i].at /\ events'[n].at >= events[i].at
        BY <1>1, <4>1
      <4> QED  BY <3>2, <4>2
    <3>3. CASE j = n /\ i = n
      <4>1. events' \in Seq(EventRow) /\ n \in 1 .. Len(events')
        <5>1. IInv'
          BY StripeKeeps
        <5> QED  BY <1>1, <1>2a, <5>1 DEF IInv, TypeOK, EventRow
      <4>2. events'[n] \in EventRow
        BY <4>1
      <4>3. events'[n].at \in Nat
        BY <4>2, BoundsAssumption DEF EventRow, Clock
      <4> QED  BY <3>3, <4>3
    <3> QED  BY <3>1, <3>2, <3>3
  <2> QED  BY <1>1, <2>1, <2>2 DEF HistoryOK
<1>6. UNCHANGED <<claim, ent, mapping, grants, job>>
  BY <1>1 DEF handlerVars
<1>7. \A e \in 1 .. n - 1 : (Taken(e)' <=> Taken(e)) /\ (Effected(e)' <=> Effected(e))
  BY <1>1, <1>6 DEF Taken, TakenIn, Effected
<1>8. ASSUME NEW p \in Procs PROVE HandlerDone(job[p])' /\ HandlerFresh(job[p])'
  <2>1. HandlerDone(job[p])'
    BY <1>2, <1>6, <1>7 DEF FreshInv, HandlerDone
  <2>2. HandlerFresh(job[p])'
    <3> SUFFICES ASSUME job[p].at \in Handling
                 PROVE  HandlerFresh(job[p])'
      BY <1>6 DEF HandlerFresh, Handling
    <3>1. job[p].event \in 1 .. n - 1 /\ events'[job[p].event] = events[job[p].event]
      BY <1>1, <1>2
    <3>2. events[job[p].event].sub \in Subs
      BY <1>2, <3>1
    <3> QED  BY <1>1, <1>4, <1>6, <3>1, <3>2 DEF FreshInv, HandlerFresh
  <2> QED  BY <2>1, <2>2
<1>9. ASSUME NEW e \in EventIds PROVE ClaimOK(e)'
  <2>1. e \in Nat /\ e >= 1
    BY BoundsAssumption DEF EventIds
  <2> QED  BY <1>2a, <1>6, <1>7, <2>1 DEF FreshInv, ClaimOK
<1>10. ASSUME NEW t \in Subs PROVE MappingDated(t)' /\ RowFresh(t)'
  <2>1. MappingDated(t)'
    BY <1>1, <1>2, <1>3, <1>6 DEF FreshInv, MappingDated
  <2>2. RowFresh(t)'
    <3>1. CASE t # s
      BY <1>1, <1>2, <1>4, <1>6, <3>1 DEF FreshInv, RowFresh
    <3>2. CASE t = s
      <4>1. mapping[s].event # 0 => ~Latest(s, mapping[s].event)'
        BY <1>2, <1>4, <1>6
      <4>2. mapping[s].event # 0 => ~Terminal(mapping[s].status)
        BY <1>1, <1>2, CancelledIsFinal DEF FreshInv, RowFresh
      <4> QED  BY <1>6, <3>2, <4>1, <4>2 DEF RowFresh
    <3> QED  BY <3>1, <3>2
  <2> QED  BY <2>1, <2>2
<1> QED  BY <1>5, <1>8, <1>9, <1>10, <1>6 DEF FreshInv

\* A handler's step, or a checkout's: Stripe, and the history, stand still.
LEMMA StaysFresh ==
    ASSUME IInv, FreshInv, UNCHANGED <<events, stripe>>, Onwards, TypeOK', grants \subseteq grants',
           \A s \in Subs : mapping[s].event # 0 => mapping'[s].event # 0,
           \A s \in Subs : MappingDated(s)' /\ RowFresh(s)',
           \A p \in Procs : \/ job'[p] = job[p]
                            \/ HandlerDone(job[p])' /\ HandlerFresh(job[p])',
           \A e \in EventIds : claim'[e] = claim[e] \/ ClaimOK(e)'
    PROVE  FreshInv'
<1>1. HistoryOK'
  BY DEF FreshInv, HistoryOK, Delivered, Latest
<1>2. \A s \in Subs, e \in DOMAIN events : Latest(s, e)' <=> Latest(s, e)
  BY DEF Latest, Delivered
<1>3. \A e \in 1 .. Len(events) : (Taken(e) => Taken(e)') /\ (Effected(e) => Effected(e)')
  <2> SUFFICES ASSUME NEW e \in 1 .. Len(events)
               PROVE  (Taken(e) => Taken(e)') /\ (Effected(e) => Effected(e)')
    OBVIOUS
  <2>1. events[e].sub \in Subs
    BY EventsKnown
  <2>2. Taken(e) => Taken(e)'
    <3>0. events \in Seq(EventRow)
      BY DEF IInv, TypeOK, EventRow
    <3>1. events[e] \in EventRow
      BY <3>0
    <3>a. events[e].at \in Nat
      BY <3>1, BoundsAssumption DEF EventRow, Clock
    <3>b. \A s \in Subs : mapping[s].at \in Nat /\ mapping'[s].at \in Nat
      <4>1. mapping \in [Subs -> MapRow]
        BY DEF IInv, TypeOK, MapRow
      <4>2. mapping' \in [Subs -> MapRow]
        BY DEF TypeOK, MapRow
      <4>3. \A m \in MapRow : m.at \in Nat
        BY BoundsAssumption DEF MapRow, Clock
      <4> QED  BY <4>1, <4>2, <4>3
    <3>3. /\ mapping'[events[e].sub].at >= mapping[events[e].sub].at
          /\ Terminal(mapping[events[e].sub].status) => Terminal(mapping'[events[e].sub].status)
      BY <2>1 DEF Onwards
    <3> QED  BY <2>1, <3>a, <3>b, <3>3 DEF Taken, TakenIn, Onwards
  <2> QED  BY <2>2 DEF Effected
<1>4. ASSUME NEW p \in Procs PROVE HandlerDone(job[p])' /\ HandlerFresh(job[p])'
  <2> SUFFICES ASSUME job'[p] = job[p] PROVE HandlerDone(job[p])' /\ HandlerFresh(job[p])'
    OBVIOUS
  <2>1. HandlerDone(job[p])'
    BY <1>3, EventsKnown DEF FreshInv, HandlerDone
  <2>2. HandlerFresh(job[p])'
    BY DEF FreshInv, HandlerFresh, Latest, Delivered
  <2> QED  BY <2>1, <2>2
<1>5. ASSUME NEW e \in EventIds PROVE ClaimOK(e)'
  <2> SUFFICES ASSUME claim'[e] = claim[e] PROVE ClaimOK(e)'
    BY <1>5
  <2>1. claim[e] # "new" => e \in 1 .. Len(events)
    BY BoundsAssumption DEF FreshInv, ClaimOK, EventIds, IInv, TypeOK
  <2> QED  BY <1>3, <2>1 DEF FreshInv, ClaimOK
<1> QED  BY <1>1, <1>4, <1>5 DEF FreshInv

\* The rows stay fresh when no mapping changes, and no mapped entitlement.
LEMMA MappingsKept ==
    ASSUME FreshInv, UNCHANGED <<events, stripe, mapping>>,
           \A s \in Subs : mapping[s].event # 0 => ent'[mapping[s].ent].period = ent[mapping[s].ent].period
    PROVE  \A s \in Subs : MappingDated(s)' /\ RowFresh(s)'
BY DEF FreshInv, MappingDated, RowFresh, Latest, Delivered

\* A step of one process that commits nothing to the mappings.
LEMMA QuietStep ==
    ASSUME IInv, FreshInv, IInv', UNCHANGED <<events, stripe, mapping, ent>>, grants \subseteq grants',
           NEW p \in Procs, NEW r, job' = [job EXCEPT ![p] = r],
           HandlerDone(r)', HandlerFresh(r),
           \A e \in EventIds : claim'[e] = claim[e] \/ ClaimOK(e)'
    PROVE  FreshInv'
<1>1. Onwards
  BY UntouchedOnwards DEF IInv
<1>2. job'[p] = r /\ \A q \in Procs \ {p} : job'[q] = job[q]
  BY DEF IInv, TypeOK
<1>3. HandlerFresh(r)'
  BY DEF HandlerFresh, Latest, Delivered
<1>4. HandlerDone(job[p])' /\ HandlerFresh(job[p])'
  BY <1>2, <1>3 DEF HandlerDone, HandlerFresh
<1>5. \A s \in Subs : MappingDated(s)' /\ RowFresh(s)'
  BY MappingsKept
<1>6. \A q \in Procs : \/ job'[q] = job[q]
                       \/ HandlerDone(job[q])' /\ HandlerFresh(job[q])'
  BY <1>2, <1>4
<1> QED  BY <1>1, <1>5, <1>6, StaysFresh DEF IInv

LEMMA BeginStaysFresh ==
    ASSUME IInv, FreshInv, NEW p \in Procs, NEW e \in 1 .. Len(events), beginStripeEvent(p, e)
    PROVE  FreshInv'
<1>1. PICK r : r = [NoJob EXCEPT !.at = "retrieved", !.event = e, !.seen = Retrieved(e)]
  OBVIOUS
<1>2. r.at = "retrieved" /\ r.event = e /\ r.seen = stripe[events[e].sub]
  BY <1>1 DEF NoJob, Retrieved
<1>3. HandlerDone(r)' /\ HandlerFresh(r)
  BY <1>2 DEF HandlerDone, HandlerFresh
<1>4. /\ job' = [job EXCEPT ![p] = r] /\ claim' = [claim EXCEPT ![e] = "processing"]
      /\ UNCHANGED <<events, stripe, mapping, ent, grants>>
  BY <1>1 DEF beginStripeEvent, stripeVars
<1>5. \A f \in EventIds : claim'[f] = claim[f] \/ ClaimOK(f)'
  BY <1>4 DEF ClaimOK, IInv, TypeOK
<1> QED  BY <1>3, <1>4, <1>5, BeginKeeps, QuietStep

\* What a handler still holds when it goes on.
LEMMA RestHolds ==
    ASSUME NEW p \in Procs, NEW stage \in Stages \ Handling, NEW r, r = Rest(p, stage)
    PROVE  r.at = stage /\ r.event = job[p].event /\ HandlerFresh(r)
BY DEF Rest, NoJob, HandlerFresh, Handling

\* A handler whose transaction ends without a change.
LEMMA RestStaysFresh ==
    ASSUME IInv, FreshInv, IInv', UNCHANGED <<events, stripe, mapping, ent, claim>>, grants \subseteq grants',
           NEW p \in Procs, NEW stage \in Stages \ Handling, GoTo(p, stage),
           NEW r, r = Rest(p, stage), HandlerDone(r)'
    PROVE  FreshInv'
<1>1. HandlerFresh(r) /\ job' = [job EXCEPT ![p] = r]
  BY RestHolds DEF GoTo
<1> QED  BY <1>1, QuietStep

\* A handler leaves an event as it is when its mapping is as new, or cancelled.
LEMMA StaleIsTaken ==
    ASSUME IInv, FreshInv, NEW p \in Procs, At(p, "retrieved"), NEW m, m = mapping[Sub(p)],
           m.event # 0, Stale(m, job[p].event, mapStripeStatus[job[p].seen.status])
    PROVE  Taken(job[p].event)
<1> DEFINE k == job[p].event
<1>1. k \in 1 .. Len(events) /\ Sub(p) \in Subs /\ events[k].at \in Nat
  BY HandlingFacts, BoundsAssumption DEF IInv, At, Handling, Event, Clock
<1>2. m \in MapRow
  BY <1>1 DEF IInv, TypeOK, MapRow
<1>3. m.at \in Nat /\ m.event \in Nat
  BY <1>2, BoundsAssumption DEF MapRow, Clock
<1>4. events[m.event].at = m.at
  BY <1>1 DEF FreshInv, MappingDated
<1>5. m.at >= events[k].at \/ Terminal(m.status)
  BY <1>1, <1>3, <1>4 DEF Stale
<1> QED  BY <1>5 DEF Taken, TakenIn, Sub, Event

LEMMA ReadMappingStaysFresh ==
    ASSUME IInv, FreshInv, NEW p \in Procs, ReadMapping(p)
    PROVE  FreshInv'
<1>1. UNCHANGED <<events, stripe, mapping, ent, claim, grants>> /\ IInv'
  BY ReadMappingKeeps DEF ReadMapping, stripeVars
<1>2. CASE /\ mapping[Sub(p)].event # 0
           /\ Stale(mapping[Sub(p)], job[p].event, mapStripeStatus[job[p].seen.status])
           /\ GoTo(p, AfterApply(p))
  <2>1. Taken(job[p].event)
    BY <1>2, StaleIsTaken DEF ReadMapping
  <2>2. PICK stage \in {"grant", "complete"} :
           stage = AfterApply(p) /\ (stage = "complete" => events[job[p].event].type # "paid")
    BY DEF AfterApply, Event
  <2>3. PICK r : r = Rest(p, stage)
    OBVIOUS
  <2>4. stage \in Stages \ Handling
    BY DEF Stages, Handling
  <2>5. r.at = stage /\ r.event = job[p].event
    BY <2>3, <2>4, RestHolds
  <2>6. HandlerDone(r)'
    <3>1. PICK k : k = job[p].event
      OBVIOUS
    <3>2. Taken(k)' /\ (r.at = "complete" => Effected(k)')
      BY <1>1, <2>1, <2>2, <2>5, <3>1 DEF Effected, Taken, TakenIn
    <3> QED  BY <2>5, <3>1, <3>2 DEF HandlerDone
  <2> QED  BY <1>1, <1>2, <2>2, <2>3, <2>4, <2>6, RestStaysFresh
<1>3. CASE job' = [job EXCEPT ![p].at = "reading", ![p].known = (mapping[Sub(p)].event # 0)]
  <2>1. PICK r : r = [job[p] EXCEPT !.at = "reading", !.known = (mapping[Sub(p)].event # 0)]
    OBVIOUS
  <2>2. job[p] \in JobRow
    BY DEF IInv, TypeOK, JobRow
  <2>3. r.at = "reading" /\ r.event = job[p].event /\ r.seen = job[p].seen
    BY <2>1, <2>2 DEF JobRow
  <2>4. job' = [job EXCEPT ![p] = r]
    BY <1>3, <2>1 DEF IInv, TypeOK
  <2>5. HandlerFresh(r)
    BY <2>3 DEF FreshInv, HandlerFresh, ReadMapping, At
  <2>6. HandlerDone(r)'
    BY <2>3 DEF HandlerDone
  <2> QED  BY <1>1, <2>4, <2>5, <2>6, QuietStep
<1> QED  BY <1>2, <1>3 DEF ReadMapping

\* A handler gives up.
LEMMA FailureStaysFresh ==
    ASSUME IInv, FreshInv, IInv', UNCHANGED <<events, stripe, mapping, ent, claim>>,
           grants \subseteq grants', NEW p \in Procs, GoTo(p, "failed")
    PROVE  FreshInv'
<1>1. PICK r : r = Rest(p, "failed")
  OBVIOUS
<1>2. "failed" \in Stages \ Handling
  BY DEF Stages, Handling
<1>3. r.at = "failed"
  BY <1>1, <1>2, RestHolds
<1>4. HandlerDone(r)'
  BY <1>3 DEF HandlerDone
<1> QED  BY <1>1, <1>2, <1>4, RestStaysFresh

LEMMA FindStaysFresh ==
    ASSUME IInv, FreshInv, NEW p \in Procs, FindEntitlement(p)
    PROVE  FreshInv'
<1>1. UNCHANGED <<events, stripe, mapping, ent, claim, grants>> /\ IInv'
  BY FindKeeps DEF FindEntitlement, stripeVars
<1>2. CASE GoTo(p, "failed")
  BY <1>1, <1>2, FailureStaysFresh
<1>3. CASE job' = [job EXCEPT ![p].at = "writing", ![p].ent = EntitlementFor(p)]
  <2>1. PICK r : r = [job[p] EXCEPT !.at = "writing", !.ent = EntitlementFor(p)]
    OBVIOUS
  <2>2. job[p] \in JobRow
    BY DEF IInv, TypeOK, JobRow
  <2>3. r.at = "writing" /\ r.event = job[p].event /\ r.seen = job[p].seen
    BY <2>1, <2>2 DEF JobRow
  <2>4. job' = [job EXCEPT ![p] = r]
    BY <1>3, <2>1 DEF IInv, TypeOK
  <2>5. HandlerFresh(r)
    BY <2>3 DEF FreshInv, HandlerFresh, FindEntitlement, At
  <2>6. HandlerDone(r)'
    BY <2>3 DEF HandlerDone
  <2> QED  BY <1>1, <2>4, <2>5, <2>6, QuietStep
<1> QED  BY <1>2, <1>3 DEF FindEntitlement

\* What a handler's writes leave: the row it retrieved, under its own event.
LEMMA StoreWrites ==
    ASSUME IInv, IInv', NEW p \in Procs, At(p, "writing"), CanStore(p), Store(p),
           NEW s, s = Sub(p), NEW e, e = job[p].ent
    PROVE  /\ s \in Subs /\ job[p].event \in 1 .. Len(events)
           /\ job[p].seen.status \in StripeStatuses \ {"none"}
           /\ mapping'[s].event = job[p].event /\ mapping'[s].at = events[job[p].event].at
           /\ mapping'[s].status = mapStripeStatus[job[p].seen.status]
           /\ ent'[mapping'[s].ent].period = job[p].seen.period
           /\ \A t \in Subs \ {s} : mapping'[t] = mapping[t]
           /\ \A t \in Subs \ {s} : mapping[t].event # 0 => ent'[mapping[t].ent] = ent[mapping[t].ent]
<1> USE DEF IInv, RowsOK, HandlersOK
<1>1. /\ s \in Subs /\ job[p].event \in 1 .. Len(events)
      /\ job[p].event \in 1 .. MaxEvents /\ job[p].seen.status \in StripeStatuses \ {"none"}
  BY HandlingFacts DEF At, Handling
<1>2. mapping \in [Subs -> MapRow] /\ ent \in [Ents -> EntRow] /\ e \in Ents
  BY DEF TypeOK, MapRow, EntRow
<1>3. mapping[s].event # 0 => mapping[s].ent = e
  <2>1. \A o \in Ents \ {e} : ent[o].ref # s
    BY DEF CanStore, UniqueIndexes
  <2>2. mapping[s].ent \in Ents
    BY <1>1, <1>2 DEF MapRow
  <2> QED  BY <1>1, <2>1, <2>2 DEF MappingBinds
<1> DEFINE status == mapStripeStatus[job[p].seen.status]
           entRow == [status |-> status, period |-> job[p].seen.period, ref |-> s]
           mapRow == [ent |-> e, status |-> status, at |-> Event(p).at, event |-> job[p].event]
<1>4. ent' = [ent EXCEPT ![e] = entRow] /\ mapping' = [mapping EXCEPT ![s] = mapRow]
  BY <1>1, <1>2, <1>3 DEF Store
<1>5. /\ entRow.period = job[p].seen.period
      /\ mapRow.ent = e /\ mapRow.status = status /\ mapRow.at = events[job[p].event].at
      /\ mapRow.event = job[p].event
  BY DEF Event
<1> HIDE DEF status, entRow, mapRow
<1>6. /\ ent'[e] = entRow /\ \A o \in Ents \ {e} : ent'[o] = ent[o]
      /\ mapping'[s] = mapRow /\ \A t \in Subs \ {s} : mapping'[t] = mapping[t]
  BY <1>1, <1>2, <1>4
<1>7. ASSUME NEW t \in Subs \ {s}, mapping[t].event # 0 PROVE ent'[mapping[t].ent] = ent[mapping[t].ent]
  <2>1. ent[mapping[t].ent].ref = t /\ mapping[t].ent \in Ents
    BY <1>2, <1>7 DEF MappingBinds, MapRow
  <2>2. ent[e].ref \in {s, Unbound}
    BY DEF WritesOwn
  <2> QED  BY <1>6, <2>1, <2>2, UnboundAssumption
<1> QED  BY <1>1, <1>5, <1>6, <1>7 DEF status

LEMMA StoreStaysFresh ==
    ASSUME IInv, FreshInv, IInv', Onwards, NEW p \in Procs, At(p, "writing"), CanStore(p), Store(p),
           NEW stage \in Stages \ Handling, GoTo(p, stage),
           stage = "complete" => events[job[p].event].type # "paid", stage # "granting",
           UNCHANGED <<events, stripe, claim, grants>>
    PROVE  FreshInv'
<1> DEFINE k == job[p].event
<1>1. PICK s : s = Sub(p)
  OBVIOUS
<1>2. PICK seen : seen = job[p].seen
  OBVIOUS
<1>3. /\ s \in Subs /\ k \in 1 .. Len(events) /\ seen.status \in StripeStatuses \ {"none"}
      /\ mapping'[s].event = k /\ mapping'[s].at = events[k].at
      /\ mapping'[s].status = mapStripeStatus[seen.status]
      /\ ent'[mapping'[s].ent].period = seen.period
      /\ \A t \in Subs \ {s} : mapping'[t] = mapping[t]
      /\ \A t \in Subs \ {s} : mapping[t].event # 0 => ent'[mapping[t].ent] = ent[mapping[t].ent]
  BY <1>1, <1>2, StoreWrites
<1>4. events[k].sub = s /\ k # 0 /\ DOMAIN events = 1 .. Len(events)
  <2>1. Len(events) \in Nat /\ DOMAIN events = 1 .. Len(events)
    BY DEF IInv, TypeOK
  <2>2. events[k].sub = s
    BY <1>1 DEF Sub, Event
  <2> QED  BY <1>3, <2>1, <2>2
<1>5. \A t \in Subs, f \in DOMAIN events : Latest(t, f)' <=> Latest(t, f)
  BY DEF Latest, Delivered
<1>6. MappingDated(s)' /\ RowFresh(s)'
  <2>1. MappingDated(s)'
    BY <1>3, <1>4 DEF MappingDated, Delivered
  <2>2. Latest(s, k) \/ seen.status = "canceled" => seen = stripe[s]
    BY <1>2, <1>4 DEF FreshInv, HandlerFresh, At
  <2>3. Terminal(mapping'[s].status) <=> seen.status = "canceled"
    BY <1>3, CancelledIsFinal
  <2>4. Latest(s, mapping[s].event)' <=> Latest(s, k)
    <3>1. PICK f : f = k
      OBVIOUS
    <3> QED  BY <1>3, <1>4, <1>5, <3>1
  <2>5. RowFresh(s)'
    BY <1>3, <1>4, <2>2, <2>3, <2>4 DEF RowFresh
  <2> QED  BY <2>1, <2>5
<1>7. ASSUME NEW t \in Subs \ {s} PROVE MappingDated(t)' /\ RowFresh(t)'
  <2>1. mapping'[t] = mapping[t]
    BY <1>3
  <2>2. MappingDated(t)'
    BY <2>1 DEF FreshInv, MappingDated, Delivered
  <2>3. RowFresh(t)'
    BY <1>3, <2>1 DEF FreshInv, RowFresh, Latest, Delivered
  <2> QED  BY <2>2, <2>3
<1>8. PICK r : r = Rest(p, stage)
  OBVIOUS
<1>9. r.at = stage /\ r.event = k /\ HandlerFresh(r) /\ job' = [job EXCEPT ![p] = r]
  BY <1>8, RestHolds DEF GoTo
<1>10. job'[p] = r /\ \A q \in Procs \ {p} : job'[q] = job[q]
  BY <1>9 DEF IInv, TypeOK
<1>11. \A q \in Procs : \/ job'[q] = job[q]
                        \/ HandlerDone(job[q])' /\ HandlerFresh(job[q])'
  <2>1. HandlerDone(r)'
    <3>1. PICK f : f = k
      OBVIOUS
    <3>2. TakenIn(mapping[s], f)'
      <4>1. events[k].at \in Nat
        BY HandlingFacts, BoundsAssumption DEF At, Handling, Event, Clock, IInv
      <4> QED  BY <1>3, <1>4, <3>1, <4>1 DEF TakenIn
    <3>3. Taken(f)'
      BY <1>4, <3>1, <3>2 DEF Taken, TakenIn
    <3>4. r.at = "complete" => Effected(f)'
      BY <1>9, <3>1, <3>3 DEF Effected
    <3> QED  BY <1>9, <3>1, <3>3, <3>4 DEF HandlerDone
  <2>2. HandlerFresh(r)'
    BY <1>9 DEF HandlerFresh, Latest, Delivered
  <2> QED  BY <1>10, <2>1, <2>2 DEF HandlerDone, HandlerFresh
<1>12. \A t \in Subs : mapping[t].event # 0 => mapping'[t].event # 0
  BY <1>3, <1>4
<1>13. \A t \in Subs : MappingDated(t)' /\ RowFresh(t)'
  BY <1>6, <1>7
<1> QED  BY <1>11, <1>12, <1>13, StaysFresh DEF IInv

LEMMA WriteStaysFresh == ASSUME IInv, FreshInv, NEW p \in Procs, WriteState(p) PROVE FreshInv'
<1>1. IInv' /\ Onwards /\ UNCHANGED <<events, stripe, claim, grants>>
  BY WriteKeeps DEF WriteState, stripeVars
<1>2. CASE CanStore(p) /\ Store(p) /\ GoTo(p, AfterApply(p))
  <2>1. PICK stage \in {"grant", "complete"} :
           stage = AfterApply(p) /\ (stage = "complete" => events[job[p].event].type # "paid")
    BY DEF AfterApply, Event
  <2>2. stage \in Stages \ Handling /\ stage # "granting" /\ GoTo(p, stage)
    BY <1>2, <2>1 DEF Stages, Handling
  <2> QED  BY <1>1, <1>2, <2>1, <2>2, StoreStaysFresh DEF WriteState
<1>3. CASE UNCHANGED <<ent, mapping>> /\ GoTo(p, "failed")
  BY <1>1, <1>3, FailureStaysFresh
<1> QED  BY <1>2, <1>3 DEF WriteState

LEMMA ActiveStaysFresh == ASSUME IInv, FreshInv, NEW p \in Procs, ReadActiveEntitlement(p) PROVE FreshInv'
<1>1. UNCHANGED <<events, stripe, mapping, ent, claim, grants>> /\ IInv'
  BY ActiveKeeps DEF ReadActiveEntitlement, stripeVars
<1>2. CASE GoTo(p, "failed")
  BY <1>1, <1>2, FailureStaysFresh
<1>3. CASE \E e \in Serving :
             job' = [job EXCEPT ![p].at = "granting", ![p].ent = e, ![p].period = ent[e].period]
  <2>1. PICK e \in Serving :
           job' = [job EXCEPT ![p].at = "granting", ![p].ent = e, ![p].period = ent[e].period]
    BY <1>3
  <2>2. PICK r : r = [job[p] EXCEPT !.at = "granting", !.ent = e, !.period = ent[e].period]
    OBVIOUS
  <2>3. job[p] \in JobRow
    BY DEF IInv, TypeOK, JobRow
  <2>4. r.at = "granting" /\ r.event = job[p].event
    BY <2>2, <2>3 DEF JobRow
  <2>5. job' = [job EXCEPT ![p] = r]
    BY <2>1, <2>2 DEF IInv, TypeOK
  <2>6. HandlerFresh(r)
    BY <2>4 DEF HandlerFresh
  <2>7. HandlerDone(r)'
    <3>1. PICK k : k = job[p].event
      OBVIOUS
    <3>2. k # 0 => Taken(k)
      BY <3>1 DEF FreshInv, HandlerDone, ReadActiveEntitlement, At
    <3>3. k # 0 => Taken(k)'
      BY <1>1, <3>2 DEF Taken, TakenIn
    <3> QED  BY <2>4, <3>1, <3>3 DEF HandlerDone
  <2> QED  BY <1>1, <2>5, <2>6, <2>7, QuietStep
<1> QED  BY <1>2, <1>3 DEF ReadActiveEntitlement

\* A payment's handler goes on to complete when there is a grant.
LEMMA AppendStaysFresh == ASSUME IInv, FreshInv, NEW p \in Procs, AppendGrant(p) PROVE FreshInv'
<1>1. UNCHANGED <<events, stripe, mapping, ent, claim>> /\ IInv' /\ grants \subseteq grants'
  BY AppendKeeps DEF AppendGrant, stripeVars
<1>2. CASE GoTo(p, "failed")
  BY <1>1, <1>2, FailureStaysFresh
<1>3. CASE GoTo(p, "complete") /\ grants' # {}
  <2>1. PICK r : r = Rest(p, "complete")
    OBVIOUS
  <2>2. "complete" \in Stages \ Handling
    BY DEF Stages, Handling
  <2>3. r.at = "complete" /\ r.event = job[p].event
    BY <2>1, <2>2, RestHolds
  <2>4. HandlerDone(r)'
    <3>1. PICK k : k = job[p].event
      OBVIOUS
    <3>2. k # 0 => Taken(k)
      BY <3>1 DEF FreshInv, HandlerDone, AppendGrant, At
    <3>3. k # 0 => Taken(k)' /\ Effected(k)'
      BY <1>1, <1>3, <3>2 DEF Taken, TakenIn, Effected
    <3> QED  BY <2>3, <3>1, <3>3 DEF HandlerDone
  <2> QED  BY <1>1, <1>3, <2>1, <2>2, <2>4, RestStaysFresh
<1>4. NothingToGrant(p) => grants # {}
  BY DEF NothingToGrant, Granted
<1> QED  BY <1>2, <1>3, <1>4 DEF AppendGrant

\* A handler that ends: its event is acknowledged when it has taken effect.
LEMMA EndStaysFresh ==
    ASSUME IInv, FreshInv, NEW p \in Procs, completeStripeEvent(p) \/ abandonStripeEvent(p) \/ Crash(p)
    PROVE  FreshInv'
<1>1. UNCHANGED <<events, stripe, mapping, ent, grants>> /\ IInv' /\ job' = [job EXCEPT ![p] = NoJob]
  BY FinishKeeps DEF completeStripeEvent, abandonStripeEvent, Finish, Crash, stripeVars
<1>2. PICK r : r = NoJob
  OBVIOUS
<1>3. r.at = "idle" /\ r.event = 0
  BY <1>2 DEF NoJob
<1>4. HandlerDone(r)' /\ HandlerFresh(r)
  BY <1>3 DEF HandlerDone, HandlerFresh
<1>5. ASSUME NEW e \in EventIds PROVE claim'[e] = claim[e] \/ ClaimOK(e)'
  <2>1. CASE Crash(p)
    BY <2>1 DEF Crash
  <2>2. CASE (completeStripeEvent(p) \/ abandonStripeEvent(p)) /\ e = job[p].event
    <3>1. e <= Len(events) /\ e # 0
      BY <2>2, BoundsAssumption DEF IInv, EventTaken, EventIds
    <3>2. CASE completeStripeEvent(p)
      <4>1. Effected(e)
        BY <2>2, <3>1, <3>2 DEF FreshInv, HandlerDone, completeStripeEvent, At
      <4>2. Effected(e)'
        BY <1>1, <4>1 DEF Effected, Taken, TakenIn
      <4> QED  BY <1>1, <3>1, <4>2 DEF ClaimOK
    <3>3. CASE abandonStripeEvent(p)
      BY <1>1, <2>2, <3>1, <3>3 DEF ClaimOK, abandonStripeEvent, Finish
    <3> QED  BY <2>2, <3>2, <3>3
  <2>3. CASE (completeStripeEvent(p) \/ abandonStripeEvent(p)) /\ e # job[p].event
    BY <2>3 DEF completeStripeEvent, abandonStripeEvent, Finish
  <2> QED  BY <2>1, <2>2, <2>3
<1> QED  BY <1>1, <1>2, <1>4, <1>5, QuietStep

\* No mapping names an entitlement that is not there.
LEMMA ProvisionStaysFresh == ASSUME IInv, FreshInv, NEW p \in Procs, ProvisionPaidBeta(p) PROVE FreshInv'
<1>1. UNCHANGED <<events, stripe, mapping, claim, grants>> /\ IInv'
  BY ProvisionKeeps DEF ProvisionPaidBeta, stripeVars
<1>2. PICK r : r = [NoJob EXCEPT !.at = "grant"]
  OBVIOUS
<1>3. r.at = "grant" /\ r.event = 0 /\ job' = [job EXCEPT ![p] = r]
  BY <1>2 DEF NoJob, ProvisionPaidBeta
<1>4. HandlerDone(r)' /\ HandlerFresh(r)'
  BY <1>3 DEF HandlerDone, HandlerFresh
<1>5. ASSUME NEW s \in Subs, mapping[s].event # 0
      PROVE  ent'[mapping[s].ent].period = ent[mapping[s].ent].period
  <2>1. mapping \in [Subs -> MapRow] /\ Beta \in Ents /\ ent \in [Ents -> EntRow]
    BY DEF IInv, TypeOK, MapRow, EntRow, Ents
  <2>2. mapping[s].ent \in Ents /\ ent[mapping[s].ent].ref = s
    BY <1>5, <2>1 DEF MapRow, IInv, RowsOK, MappingBinds
  <2>3. ent[Beta].status = "absent" => mapping[s].ent # Beta
    BY <2>1, <2>2, UnboundAssumption DEF IInv, RowsOK, AbsentIsUnbound
  <2> QED  BY <2>1, <2>2, <2>3 DEF ProvisionPaidBeta
<1>6. \A s \in Subs : MappingDated(s)' /\ RowFresh(s)'
  BY <1>1, <1>5, MappingsKept
<1>7. job'[p] = r /\ \A q \in Procs \ {p} : job'[q] = job[q]
  BY <1>3 DEF IInv, TypeOK
<1>8. \A q \in Procs : job'[q] = job[q] \/ (HandlerDone(job[q])' /\ HandlerFresh(job[q])')
  BY <1>4, <1>7 DEF HandlerDone, HandlerFresh
<1>9. Onwards
  BY <1>1, UntouchedOnwards DEF IInv
<1> QED  BY <1>1, <1>6, <1>8, <1>9, StaysFresh DEF IInv

\* What a handler committed before it learnt of it stays; its event is retried.
LEMMA FaultStaysFresh == ASSUME IInv, FreshInv, NEW p \in Procs, Fault(p) PROVE FreshInv'
<1>1. IInv' /\ Onwards /\ UNCHANGED <<events, stripe, claim>> /\ GoTo(p, "failed")
  BY FaultKeeps DEF Fault, stripeVars
<1>2. CASE At(p, "writing") /\ CanStore(p) /\ Store(p) /\ UNCHANGED grants
  BY <1>1, <1>2, StoreStaysFresh DEF Stages, Handling
<1>3. CASE UNCHANGED <<ent, mapping>> /\ grants \subseteq grants'
  BY <1>1, <1>3, FailureStaysFresh
<1> QED  BY <1>2, <1>3 DEF Fault

LEMMA HandleStaysFresh == ASSUME IInv, FreshInv, NEW p \in Procs, Handle(p) PROVE FreshInv'
BY BeginStaysFresh, ReadMappingStaysFresh, FindStaysFresh, WriteStaysFresh, ActiveStaysFresh,
   AppendStaysFresh, EndStaysFresh, ProvisionStaysFresh, FaultStaysFresh DEF Handle

\* A step of anyone else, or none.
LEMMA IdleStaysFresh ==
    ASSUME FreshInv, UNCHANGED <<stripe, events, claim, ent, mapping, grants, job>>
    PROVE  FreshInv'
BY DEF FreshInv, HistoryOK, HandlerDone, HandlerFresh, ClaimOK, MappingDated, RowFresh, Effected, Taken,
       TakenIn, Latest, Delivered

\* An emitted event is one of the bounded ones.
LEMMA EmittedBounded == ASSUME TypeOK PROVE DOMAIN events \subseteq EventIds /\ DOMAIN events \subseteq Nat
<1>1. Len(events) \in Nat /\ Len(events) <= MaxEvents /\ DOMAIN events = 1 .. Len(events)
  BY DEF TypeOK
<1> QED  BY <1>1, BoundsAssumption DEF EventIds

-----------------------------------------------------------------------------
(* The repository in memory. *)

\* The entitlement of a subscription is found alike: by its mapping, or bound to
\* nobody.
LEMMA FoundAlike ==
    ASSUME TypeOK, RowsOK, NEW s \in Subs
    PROVE  /\ ~(Cardinality(MemoryEntitlements(s)) > 1)
           /\ (IF MemoryEntitlements(s) = {} THEN s ELSE CHOOSE c \in MemoryEntitlements(s) : TRUE)
                 = DurableEntitlement(s)
           /\ \A o \in Ents \ {DurableEntitlement(s)} : ent[o].ref # s
<1> USE DEF RowsOK
<1> DEFINE bound == {e \in Ents : ent[e].ref = s}
           free == {e \in Ents : ent[e].status # "absent" /\ Policy[e] = Policy[s] /\ ent[e].ref = Unbound}
<1>1. MemoryEntitlements(s) = IF bound # {} THEN bound ELSE free
  BY DEF MemoryEntitlements
<1>2. \A e \in bound : mapping[s].ent = e /\ ent[e].status = mapping[s].status
  BY UnboundAssumption DEF MappedTogether
<1>3. CASE Known(s)
  <2>1. mapping[s].ent \in bound
    BY <1>3 DEF Known, MappingBinds, TypeOK
  <2>2. bound = {mapping[s].ent}
    BY <1>2, <2>1
  <2>3. MemoryEntitlements(s) = {mapping[s].ent}
    BY <1>1, <2>2
  <2>4. Cardinality(MemoryEntitlements(s)) = 1
    BY <2>3, FS_Singleton
  <2>5. DurableEntitlement(s) = mapping[s].ent
    BY <1>3 DEF DurableEntitlement
  <2>6. (CHOOSE c \in MemoryEntitlements(s) : TRUE) = mapping[s].ent
    BY <2>3
  <2> QED  BY <2>2, <2>3, <2>4, <2>5, <2>6
<1>4. CASE ~Known(s)
  <2>1. bound = {}
    <3> SUFFICES ASSUME NEW e \in bound PROVE FALSE
      OBVIOUS
    <3>1. ent[e].status = "absent"
      BY <1>2, <1>4 DEF Known, UnmappedIsBlank
    <3> QED  BY <3>1, UnboundAssumption DEF AbsentIsUnbound
  <2>2. MemoryEntitlements(s) = free
    BY <1>1, <2>1
  <2>3. free \subseteq {Beta}
    BY UnboundAssumption DEF MadeIsBound, Ents
  <2>4. ~(Cardinality(free) > 1)
    <3>1. free = {} \/ free = {Beta}
      BY <2>3
    <3>2. Cardinality(free) = 0 \/ Cardinality(free) = 1
      BY <3>1, FS_EmptySet, FS_Singleton
    <3> QED  BY <3>2
  <2>5. Exact(s) = {} /\ Candidates(s) = free
    BY <2>1 DEF Exact, Candidates
  <2>6. DurableEntitlement(s) = IF free = {} THEN s ELSE CHOOSE c \in free : TRUE
    BY <1>4, <2>5 DEF DurableEntitlement
  <2> QED  BY <2>1, <2>2, <2>4, <2>6
<1> QED  BY <1>3, <1>4

\* Both leave the same events as they are, and the trigger passes the others.
LEMMA StaleAlike ==
    ASSUME IInv, NEW s \in Subs, Known(s), NEW e \in DOMAIN events, NEW status
    PROVE  /\ MemoryStale(s, e, status) # "" <=> Stale(mapping[s], e, status)
           /\ ~Stale(mapping[s], e, status) => SubscriptionTrigger(mapping[s], e, status)
<1>1. ent[mapping[s].ent].status = mapping[s].status
  <2>1. mapping[s].ent \in Ents
    BY DEF IInv, TypeOK
  <2> QED  BY <2>1, UnboundAssumption DEF IInv, RowsOK, MappingBinds, MappedTogether, Known
<1>2. events[e].at \in Nat /\ mapping[s].at \in Nat
  <2>1. events \in Seq(EventRow) /\ mapping \in [Subs -> MapRow]
    BY DEF IInv, TypeOK, EventRow, MapRow
  <2>2. events[e] \in EventRow /\ mapping[s] \in MapRow
    BY <2>1
  <2> QED  BY <2>2, BoundsAssumption DEF EventRow, MapRow, Clock
<1>3. MemoryStale(s, e, status) # "" <=> Stale(mapping[s], e, status)
  BY <1>1, <1>2 DEF MemoryStale, Stale
<1>4. ~Stale(mapping[s], e, status) => SubscriptionTrigger(mapping[s], e, status)
  BY <1>2 DEF Stale, SubscriptionTrigger
<1> QED  BY <1>3, <1>4

-----------------------------------------------------------------------------
(* Theorems. *)

LEMMA StepKeeps == ASSUME IInv, Next PROVE IInv' /\ Onwards
<1>1. CASE CustomerForTenant
  BY <1>1, CustomerKeeps, UntouchedOnwards DEF CustomerForTenant, IInv
<1>2. ASSUME NEW s \in Subs, StripeStep(s) PROVE IInv' /\ Onwards
  <2>1. UNCHANGED mapping
    BY <1>2 DEF StripeStep, Subscribe, Change, Renew, Pay, CancelSubscription, Emit, handlerVars
  <2> QED  BY <1>2, <2>1, StripeKeeps, UntouchedOnwards DEF IInv
<1>3. ASSUME NEW p \in Procs, Handle(p) PROVE IInv' /\ Onwards
  BY <1>3, HandleKeeps
<1> QED  BY <1>1, <1>2, <1>3 DEF Next, StripeStep

\* The rows agree with each other, and with what every handler has read and is
\* about to write, in every reachable state.
THEOREM StripeInvariant == Spec => []IInv
<1>1. Init => IInv
  <2> SUFFICES ASSUME Init PROVE EventsOK /\ EventTaken /\ RowsOK /\ HandlersOK
    BY InitTyped DEF IInv
  <2> USE DEF Init
  <2>1. EventsOK /\ EventTaken
    BY DEF EventsOK, EventsTimed, EventsOfSubs, EventTaken, NoJob, Handling
  <2>2. RowsOK
    <3>1. Serving = {} /\ NoEnt.ref = Unbound /\ NoEnt.status = "absent"
      BY DEF Serving, NoEnt, Entitled
    <3> QED  BY <3>1 DEF RowsOK, ServesAlone, AbsentIsUnbound, MadeIsBound, MappingBinds, MappedTogether,
             UnmappedIsBlank, NoMapping, Ents
  <2>3. HandlersOK
    BY DEF HandlersOK, KnownIsMapped, WritesOwn, BetaForOne, At, NoJob
  <2> QED  BY <2>1, <2>2, <2>3
<1>2. IInv /\ [Next]_vars => IInv'
  <2> SUFFICES ASSUME IInv, [Next]_vars PROVE IInv'
    OBVIOUS
  <2>1. CASE Next
    BY <2>1, StepKeeps
  <2>2. CASE UNCHANGED vars
    <3>1. TypeOK'
      BY <2>2 DEF vars, IInv, TypeOK
    <3> QED  BY <2>2, <3>1 DEF vars, IInv, EventsOK, EventsTimed, EventsOfSubs, EventTaken, RowsOK,
             ServesAlone, Serving, AbsentIsUnbound, MadeIsBound, MappingBinds, MappedTogether,
             UnmappedIsBlank, HandlersOK, KnownIsMapped, WritesOwn, BetaForOne, At, Sub, Event
  <2> QED  BY <2>1, <2>2
<1> QED  BY <1>1, <1>2, PTL DEF Spec

\* The subscriptions, events, rows and handlers keep their types.
THEOREM TypeCorrect == Spec => []TypeOK
<1>1. IInv => TypeOK
  BY DEF IInv
<1> QED  BY <1>1, StripeInvariant, PTL

\* The tenant never has two serving entitlements, whichever checkouts,
\* activations and handlers race.
THEOREM OneServingAlways == Spec => []OneServing
<1>1. ASSUME IInv PROVE OneServing
  <2>1. CASE Serving = {}
    <3>1. Cardinality(Serving) = 0
      BY <2>1, FS_EmptySet
    <3> QED  BY <3>1 DEF OneServing
  <2>2. CASE Serving # {}
    <3>1. PICK e \in Serving : TRUE
      BY <2>2
    <3>2. Serving = {e}
      BY <1>1, <3>1 DEF IInv, RowsOK, ServesAlone
    <3>3. Cardinality(Serving) = 1
      BY <3>2, FS_Singleton
    <3> QED  BY <3>3 DEF OneServing
  <2> QED  BY <2>1, <2>2
<1>2. IInv => OneServing
  BY <1>1
<1> QED  BY <1>2, StripeInvariant, PTL

\* An entitlement and the mapping of its subscription agree, and no
\* subscription holds two entitlements.
THEOREM MappedTogetherAlways == Spec => []MappedTogether
<1>1. IInv => MappedTogether
  BY DEF IInv, RowsOK
<1> QED  BY <1>1, StripeInvariant, PTL

\* A cancelled subscription stays cancelled and no mapping goes back to an
\* older event, whatever a handler had read before it wrote.
THEOREM NeverRevivedAlways == Spec => NeverRevived
<1>1. IInv /\ [Next]_vars => [Onwards]_vars
  BY StepKeeps
<1>2. Onwards <=>
        \A s \in Subs :
          /\ mapping'[s].at >= mapping[s].at
          /\ Terminal(mapping[s].status) => Terminal(mapping'[s].status)
  BY DEF Onwards
<1> QED  BY <1>1, <1>2, StripeInvariant, PTL DEF Spec, NeverRevived

\* What the handlers know of their events, and what is left of it in the rows,
\* holds in every reachable state.
THEOREM FreshInvariant == Spec => [](IInv /\ FreshInv)
<1>1. IInv /\ FreshInv /\ [Next]_vars => FreshInv'
  <2> SUFFICES ASSUME IInv, FreshInv, [Next]_vars PROVE FreshInv'
    OBVIOUS
  <2>1. CASE CustomerForTenant
    BY <2>1, IdleStaysFresh DEF CustomerForTenant, stripeVars
  <2>2. CASE \E s \in Subs : StripeStep(s)
    BY <2>2, StripeStaysFresh
  <2>3. CASE \E p \in Procs : Handle(p)
    BY <2>3, HandleStaysFresh
  <2>4. CASE UNCHANGED vars
    BY <2>4, IdleStaysFresh DEF vars
  <2> QED  BY <2>1, <2>2, <2>3, <2>4 DEF Next, StripeStep
<1> QED  BY <1>1, FreshInitially, StripeInvariant, PTL DEF Spec

\* An acknowledged event has taken effect: its subscription's mapping is at
\* least as new or cancelled, and a payment has met a grant.
THEOREM AcknowledgedAlwaysApplied == Spec => []AcknowledgedIsApplied
<1>1. ASSUME IInv, FreshInv PROVE AcknowledgedIsApplied
  <2> SUFFICES ASSUME NEW e \in DOMAIN events, claim[e] = "processed" PROVE Effected(e)
    BY DEF AcknowledgedIsApplied, Effected, Taken, TakenIn
  <2>0. DOMAIN events \subseteq EventIds
    BY <1>1, EmittedBounded DEF IInv
  <2>1. e \in EventIds
    BY <2>0
  <2> QED  BY <1>1, <2>1 DEF FreshInv, ClaimOK
<1>2. IInv /\ FreshInv => AcknowledgedIsApplied
  BY <1>1
<1> QED  BY <1>2, FreshInvariant, PTL

\* When all events of a subscription are acknowledged and no two were created in
\* one second, its entitlement is what Stripe has, in whichever order, by
\* whichever processes and however often the events were handled.
THEOREM ConvergedAlways == Spec => []Converged
<1>1. ASSUME IInv, FreshInv PROVE Converged
  <2> SUFFICES ASSUME NEW s \in Subs, Delivered(s) # {}, \A e \in Delivered(s) : claim[e] = "processed",
                      \A e, f \in Delivered(s) : events[e].at = events[f].at => e = f
               PROVE  /\ ent[mapping[s].ent].status = mapStripeStatus[stripe[s].status]
                      /\ ent[mapping[s].ent].period = stripe[s].period
    BY DEF Converged
  <2>1. PICK e \in DOMAIN events : Latest(s, e)
    BY <1>1 DEF FreshInv, HistoryOK
  <2>2. e \in Delivered(s) /\ events[e].sub = s /\ e \in EventIds /\ DOMAIN events \subseteq Nat
    BY <1>1, <2>1, EmittedBounded DEF Latest, Delivered, IInv
  <2>3. mapping[s].event # 0 /\ (mapping[s].at >= events[e].at \/ Terminal(mapping[s].status))
    BY <1>1, <2>2 DEF FreshInv, ClaimOK, Effected, Taken, TakenIn
  <2>4. mapping[s].event \in Delivered(s) /\ events[mapping[s].event].at = mapping[s].at
    BY <1>1, <2>3 DEF FreshInv, MappingDated
  <2>5. Latest(s, mapping[s].event) \/ Terminal(mapping[s].status)
    <3> SUFFICES ASSUME mapping[s].at >= events[e].at PROVE mapping[s].event = e
      BY <2>1, <2>3
    <3>1. mapping[s].event <= e /\ mapping[s].event \in DOMAIN events
      BY <2>1, <2>4 DEF Latest, Delivered
    <3>2. mapping[s].at <= events[e].at
      BY <1>1, <2>4, <3>1 DEF FreshInv, HistoryOK
    <3>3. mapping[s].at \in Nat /\ events[e].at \in Nat
      <4>1. events \in Seq(EventRow) /\ mapping \in [Subs -> MapRow]
        BY <1>1 DEF IInv, TypeOK, EventRow, MapRow
      <4>2. events[e] \in EventRow /\ mapping[s] \in MapRow
        BY <4>1
      <4> QED  BY <4>2, BoundsAssumption DEF EventRow, MapRow, Clock
    <3> QED  BY <2>2, <2>4, <3>2, <3>3
  <2>6. /\ mapping[s].status = mapStripeStatus[stripe[s].status]
        /\ ent[mapping[s].ent].period = stripe[s].period
    BY <1>1, <2>3, <2>5 DEF FreshInv, RowFresh
  <2>7. ent[mapping[s].ent].ref = s /\ mapping[s].ent \in Ents
    BY <1>1, <2>3 DEF IInv, TypeOK, RowsOK, MappingBinds
  <2>8. ent[mapping[s].ent].status = mapping[s].status
    BY <1>1, <2>7, UnboundAssumption DEF IInv, RowsOK, MappedTogether
  <2> QED  BY <2>6, <2>8
<1>2. IInv /\ FreshInv => Converged
  BY <1>1
<1> QED  BY <1>2, FreshInvariant, PTL

\* Whatever rows the processes have left, the repository in memory does with any
\* event what the durable one does: neither the indexes nor the trigger refuse
\* what the checks in memory let through.
THEOREM DoubleAppliesAlikeAlways == Spec => []DoubleAppliesAlike
<1>1. ASSUME IInv PROVE DoubleAppliesAlike
  <2> SUFFICES ASSUME NEW e \in DOMAIN events
               PROVE  /\ MemoryBegin(e) = DurableBegin(e)
                      /\ \A status \in DOMAIN mapStripeStatus :
                            MemoryApply(events[e].sub, e, Seen(status, events[e].sub))
                               = DurableApply(events[e].sub, e, Seen(status, events[e].sub))
    BY DEF DoubleAppliesAlike
  <2>1. MemoryBegin(e) = DurableBegin(e)
    <3>1. e \in EventIds
      BY <1>1, EmittedBounded DEF IInv
    <3>2. claim[e] \in {"new", "processing", "processed", "failed"}
      BY <1>1, <3>1 DEF IInv, TypeOK
    <3> QED  BY <3>2 DEF MemoryBegin, DurableBegin
  <2>2. ASSUME NEW status \in DOMAIN mapStripeStatus
        PROVE  MemoryApply(events[e].sub, e, Seen(status, events[e].sub))
                  = DurableApply(events[e].sub, e, Seen(status, events[e].sub))
    <3>1. PICK s \in Subs : s = events[e].sub
      <4>1. events \in Seq(EventRow)
        BY <1>1 DEF IInv, TypeOK, EventRow
      <4>2. events[e] \in EventRow
        BY <4>1
      <4> QED  BY <4>2 DEF EventRow
    <3>2. PICK seen : seen = Seen(status, s)
      OBVIOUS
    <3>3. PICK mapped : mapped = mapStripeStatus[seen.status]
      OBVIOUS
    <3>4. PICK d : d = DurableEntitlement(s)
      OBVIOUS
    <3>5. /\ ~(Cardinality(MemoryEntitlements(s)) > 1)
          /\ (IF MemoryEntitlements(s) = {} THEN s ELSE CHOOSE c \in MemoryEntitlements(s) : TRUE) = d
          /\ \A o \in Ents \ {d} : ent[o].ref # s
      BY <1>1, <3>4, FoundAlike DEF IInv
    <3>6. (Known(s) /\ MemoryStale(s, e, mapped) # "") <=> (Known(s) /\ Stale(mapping[s], e, mapped))
      BY <1>1, StaleAlike
    <3>7. OtherServes(d, seen.status) <=> mapped \in Entitled /\ {o \in Ents \ {d} : ent[o].status \in Entitled} # {}
      BY <3>3 DEF OtherServes, Serving
    <3>8. ~OtherServes(d, seen.status) => UniqueIndexes(d, s, mapped)
      BY <3>3, <3>5 DEF OtherServes, UniqueIndexes
    <3>9. ~(Known(s) /\ Stale(mapping[s], e, mapped)) => SubscriptionTrigger(mapping[s], e, mapped)
      <4>1. CASE Known(s)
        BY <1>1, <4>1, StaleAlike
      <4>2. CASE ~Known(s)
        BY <4>2 DEF Known, SubscriptionTrigger
      <4> QED  BY <4>1, <4>2
    <3>10. MemoryApply(s, e, seen) =
             IF Known(s) /\ MemoryStale(s, e, mapped) # "" THEN Left("stale")
             ELSE IF mapped \in Entitled /\ {o \in Ents \ {d} : ent[o].status \in Entitled} # {} THEN Left("conflict")
             ELSE Applied(s, e, d, seen)
      BY <3>3, <3>5 DEF MemoryApply
    <3>11. DurableApply(s, e, seen) =
             IF Known(s) /\ Stale(mapping[s], e, mapped) THEN Left("stale")
             ELSE IF OtherServes(d, seen.status) THEN Left("conflict")
             ELSE Applied(s, e, d, seen)
      BY <3>3, <3>4, <3>8, <3>9 DEF DurableApply
    <3>12. MemoryApply(s, e, seen) = DurableApply(s, e, seen)
      <4>1. CASE Known(s) /\ Stale(mapping[s], e, mapped)
        BY <3>6, <3>10, <3>11, <4>1
      <4>2. CASE ~(Known(s) /\ Stale(mapping[s], e, mapped)) /\ OtherServes(d, seen.status)
        BY <3>6, <3>7, <3>10, <3>11, <4>2
      <4>3. CASE ~(Known(s) /\ Stale(mapping[s], e, mapped)) /\ ~OtherServes(d, seen.status)
        BY <3>6, <3>7, <3>10, <3>11, <4>3
      <4> QED  BY <4>1, <4>2, <4>3
    <3> QED  BY <3>1, <3>2, <3>12
  <2> QED  BY <2>1, <2>2
<1>2. IInv => DoubleAppliesAlike
  BY <1>1
<1> QED  BY <1>2, StripeInvariant, PTL

=============================================================================
