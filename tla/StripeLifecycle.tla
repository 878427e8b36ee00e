--------------------------- MODULE StripeLifecycle ---------------------------
(***************************************************************************)
(* One tenant's Stripe subscriptions: the webhook events Stripe keeps      *)
(* sending until they are acknowledged, the processes that claim, apply    *)
(* and acknowledge them, the entitlement that serves the tenant, and the   *)
(* monthly grants a paid invoice makes.  A handler is a sequence of        *)
(* separate transactions, and the subscription it applies is the one it    *)
(* retrieved before the transaction that applies it.  Paid-Beta activation *)
(* runs beside the handlers and makes an entitlement no subscription owns. *)
(***************************************************************************)
EXTENDS Integers, Sequences, FiniteSets

CONSTANTS
    Subs,          \* Stripe subscriptions of the tenant's customer
    Beta,          \* the Paid-Beta entitlement
    Policy,        \* the commercial policy of each subscription and of Beta
    Procs,         \* API processes
    MaxEvents,     \* bound: events Stripe emits
    MaxPeriod,     \* bound: billing periods of a subscription
    MaxFaults      \* bound: crashes, failed statements, lost commit acknowledgements

ASSUME BetaAssumption == Beta \notin Subs
ASSUME BoundsAssumption == MaxEvents \in Nat /\ MaxPeriod \in Nat \ {0} /\ MaxFaults \in Nat

VARIABLES
    customer,      \* whether the tenant's customer mapping exists
    stripe,        \* Stripe's subscriptions: their status and billing period
    paid,          \* the last period of each subscription that was paid
    events,        \* the events Stripe emitted, in the order it created them
    claim,         \* stripe_webhook_events.status by event
    ent,           \* tenant_entitlements; a subscription names the one made for it
    mapping,       \* stripe_subscription_mappings
    grants,        \* the ledger's monthly_grant entries
    job,           \* what each process is handling
    faults         \* faults spent

stripeVars == <<stripe, paid, events>>
handlerVars == <<customer, claim, ent, mapping, grants, job, faults>>
vars == <<customer, stripe, paid, events, claim, ent, mapping, grants, job, faults>>

Ents == Subs \cup {Beta}
EventIds == 1..MaxEvents
Statuses == {"active", "inactive", "grace", "cancel_pending", "cancelled"}
Entitled == {"active", "grace", "cancel_pending"}
Clock == 0..MaxEvents

\* Unpaid, incomplete_expired and paused subscriptions map as incomplete ones
\* do and trialing ones as active ones; "cancelling" is an active subscription
\* with a cancellation scheduled.
mapStripeStatus ==
    [incomplete |-> "inactive", active |-> "active", cancelling |-> "cancel_pending",
     past_due |-> "grace", canceled |-> "cancelled"]
StripeStatuses == DOMAIN mapStripeStatus \cup {"none"}

Unbound == "unbound"
ASSUME UnboundAssumption == Unbound \notin Subs \cup {Beta}

NoEnt == [status |-> "absent", period |-> 0, ref |-> Unbound]
NoMapping == [ent |-> Beta, status |-> "absent", at |-> 0, event |-> 0]
NoJob == [at |-> "idle", event |-> 0, seen |-> [status |-> "none", period |-> 0],
          known |-> FALSE, ent |-> Beta, period |-> 0]

Stages == {"idle", "retrieved", "reading", "writing", "grant", "granting", "complete", "failed"}

TypeOK ==
    /\ customer \in BOOLEAN
    /\ stripe \in [Subs -> [status : StripeStatuses, period : 0..MaxPeriod]]
    /\ paid \in [Subs -> 0..MaxPeriod]
    /\ events \in Seq([type : {"updated", "deleted", "paid"}, sub : Subs, at : Clock])
    /\ Len(events) <= MaxEvents
    /\ claim \in [EventIds -> {"new", "processing", "processed", "failed"}]
    /\ ent \in [Ents -> [status : Statuses \cup {"absent"}, period : 0..MaxPeriod, ref : Subs \cup {Unbound}]]
    /\ mapping \in [Subs -> [ent : Ents, status : Statuses \cup {"absent"}, at : Clock, event : 0..MaxEvents]]
    /\ grants \subseteq [ent : Ents, period : 0..MaxPeriod, key : Ents \X (0..MaxPeriod), invoice : 0..MaxEvents]
    /\ job \in [Procs -> [at : Stages, event : 0..MaxEvents, ent : Ents, known : BOOLEAN, period : 0..MaxPeriod,
                          seen : [status : StripeStatuses, period : 0..MaxPeriod]]]
    /\ faults \in 0..MaxFaults

Init ==
    /\ customer = FALSE
    /\ stripe = [s \in Subs |-> [status |-> "none", period |-> 0]]
    /\ paid = [s \in Subs |-> 0]
    /\ events = << >>
    /\ claim = [e \in EventIds |-> "new"]
    /\ ent = [e \in Ents |-> NoEnt]
    /\ mapping = [s \in Subs |-> NoMapping]
    /\ grants = {}
    /\ job = [p \in Procs |-> NoJob]
    /\ faults = 0

-----------------------------------------------------------------------------
(* Stripe.  An event is created in the second of the one before it or in a *)
(* later one.                                                              *)

Seconds == IF events = << >> THEN {1} ELSE {events[Len(events)].at, events[Len(events)].at + 1}

Emit(type, s) ==
    /\ Len(events) < MaxEvents
    /\ \E second \in Seconds :
          events' = Append(events, [type |-> type, sub |-> s, at |-> second])
    /\ UNCHANGED handlerVars

\* The tenant's checkout creates the customer and its mapping once; the
\* customer may then subscribe, more than once too.
CustomerForTenant ==
    /\ ~customer /\ customer' = TRUE
    /\ UNCHANGED <<stripeVars, claim, ent, mapping, grants, job, faults>>

Subscribe(s) ==
    /\ customer /\ stripe[s].status = "none"
    /\ stripe' = [stripe EXCEPT ![s] = [status |-> "incomplete", period |-> 1]]
    /\ Emit("updated", s) /\ UNCHANGED paid

Changes == {<<"incomplete", "active">>, <<"active", "past_due">>, <<"past_due", "active">>,
            <<"active", "cancelling">>, <<"cancelling", "active">>}

Change(s) ==
    /\ \E status \in StripeStatuses :
          /\ <<stripe[s].status, status>> \in Changes
          /\ stripe' = [stripe EXCEPT ![s].status = status]
    /\ Emit("updated", s) /\ UNCHANGED paid

Renew(s) ==
    /\ stripe[s].status = "active" /\ stripe[s].period < MaxPeriod
    /\ stripe' = [stripe EXCEPT ![s].period = @ + 1]
    /\ Emit("updated", s) /\ UNCHANGED paid

\* The invoice of the first or of a later period is paid.
Pay(s) ==
    /\ stripe[s].status \in {"incomplete", "active", "past_due", "cancelling"}
    /\ paid[s] < stripe[s].period
    /\ paid' = [paid EXCEPT ![s] = stripe[s].period]
    /\ Emit("paid", s) /\ UNCHANGED stripe

CancelSubscription(s) ==
    /\ stripe[s].status \notin {"none", "canceled"}
    /\ stripe' = [stripe EXCEPT ![s].status = "canceled"]
    /\ Emit("deleted", s) /\ UNCHANGED paid

-----------------------------------------------------------------------------
(* A handler.                                                              *)

At(p, stage) == job[p].at = stage
Event(p) == events[job[p].event]
Sub(p) == Event(p).sub
\* What a handler still needs once its transaction has ended.
Rest(p, stage) ==
    [NoJob EXCEPT !.at = stage, !.event = job[p].event,
                  !.seen = IF stage = "grant" THEN job[p].seen ELSE @]
GoTo(p, stage) == job' = [job EXCEPT ![p] = Rest(p, stage)]
Serving == {e \in Ents : ent[e].status \in Entitled}

\* The subscription a handler applies, as Stripe has it when it is retrieved; a
\* deletion carries its own, which no longer changes.
Retrieved(e) == stripe[events[e].sub]

\* beginStripeEvent, for the first delivery or one after a failed attempt, and
\* the retrieval after it, which looks at nothing another handler changes.  A
\* delivery of a processed event is answered with its result, and one of an
\* event in processing is refused: neither changes anything.
beginStripeEvent(p, e) ==
    /\ At(p, "idle") /\ customer /\ claim[e] \in {"new", "failed"}
    /\ claim' = [claim EXCEPT ![e] = "processing"]
    /\ job' = [job EXCEPT ![p] = [NoJob EXCEPT !.at = "retrieved", !.event = e, !.seen = Retrieved(e)]]
    /\ UNCHANGED <<stripeVars, customer, ent, mapping, grants, faults>>

\* The rows a handler's transaction holds locked.
InTransaction(p) == job[p].at \in {"reading", "writing"}
LocksMapping(p, s) == InTransaction(p) /\ job[p].known /\ Sub(p) = s
LocksEnt(p, e) ==
    \/ InTransaction(p) /\ job[p].known /\ mapping[Sub(p)].ent = e
    \/ At(p, "writing") /\ job[p].ent = e /\ ent[e].status # "absent"

Terminal(status) == status = "cancelled"

\* Mutant: an inactive subscription is as final as a cancelled one.
Stale_InactiveIsFinal(m, e, status) ==
    \/ e = m.event \/ events[e].at < m.at
    \/ events[e].at = m.at /\ (Terminal(m.status) \/ ~Terminal(status))
    \/ m.status \notin Entitled /\ ~Terminal(status)

\* What applyStripeSubscriptionState leaves as it is: the event the mapping
\* has, an older one, one of the same second unless it cancels, and anything
\* but a cancellation of a cancelled subscription.
Stale(m, e, status) ==
    \/ e = m.event
    \/ events[e].at < m.at
    \/ events[e].at = m.at /\ (Terminal(m.status) \/ ~Terminal(status))
    \/ Terminal(m.status) /\ ~Terminal(status)

AfterApply(p) == IF Event(p).type = "paid" THEN "grant" ELSE "complete"

ReadMapping(p) ==
    /\ At(p, "retrieved")
    /\ LET s == Sub(p)
           m == mapping[s]
           known == m.event # 0
           others == Procs \ {p}
           stale == known /\ Stale(m, job[p].event, mapStripeStatus[job[p].seen.status])
       IN  /\ known => \A q \in others : ~LocksMapping(q, s) /\ ~LocksEnt(q, m.ent)
           /\ \/ stale /\ GoTo(p, AfterApply(p))
              \/ ~stale /\ job' = [job EXCEPT ![p].at = "reading", ![p].known = known]
    /\ UNCHANGED <<stripeVars, customer, claim, ent, mapping, grants, faults>>

\* Mutant: an entitlement of the policy is taken whoever it is bound to.
Candidates_AnyRef(s) == {e \in Ents : ent[e].status # "absent" /\ Policy[e] = Policy[s]}

Candidates(s) ==
    {e \in Ents : ent[e].status # "absent" /\ Policy[e] = Policy[s] /\ ent[e].ref \in {s, Unbound}}
Exact(s) == {e \in Candidates(s) : ent[e].ref = s}

\* The entitlement of a subscription: the mapped one, else the one bound to
\* it, else an unbound one of its policy, else a new one.
EntitlementFor(p) ==
    LET s == Sub(p)
    IN  IF job[p].known THEN mapping[s].ent
        ELSE IF Exact(s) # {} THEN CHOOSE e \in Exact(s) : TRUE
        ELSE IF Candidates(s) # {} THEN CHOOSE e \in Candidates(s) : TRUE
        ELSE s

OtherServes(e, status) == mapStripeStatus[status] \in Entitled /\ Serving \ {e} # {}

FindEntitlement(p) ==
    /\ At(p, "reading")
    /\ ~job[p].known =>
          \A q \in Procs \ {p}, e \in Candidates(Sub(p)) : ~LocksEnt(q, e)
    /\ LET e == EntitlementFor(p)
       IN  \/ OtherServes(e, job[p].seen.status) /\ GoTo(p, "failed")
           \/ /\ ~OtherServes(e, job[p].seen.status)
              /\ job' = [job EXCEPT ![p].at = "writing", ![p].ent = e]
    /\ UNCHANGED <<stripeVars, customer, claim, ent, mapping, grants, faults>>

\* Mutant: there is no trigger.
SubscriptionTrigger_None(m, e, status) == TRUE

\* protect_stripe_subscription_identity, when the mapping's row is updated.
SubscriptionTrigger(m, e, status) ==
    m.event # 0 =>
        /\ events[e].at >= m.at
        /\ events[e].at = m.at /\ e # m.event => ~Terminal(m.status) /\ Terminal(status)
        /\ Terminal(m.status) => Terminal(status)

\* Mutant: no index keeps a second entitlement from serving.
UniqueIndexes_NotServing(e, s, status) == \A o \in Ents \ {e} : ent[o].ref # s

\* tenant_entitlements_one_serving_idx, ..._stripe_subscription_unique.
UniqueIndexes(e, s, status) ==
    /\ status \in Entitled => Serving \ {e} = {}
    /\ \A o \in Ents \ {e} : ent[o].ref # s

CanStore(p) ==
    LET s == Sub(p)
        status == mapStripeStatus[job[p].seen.status]
    IN  /\ UniqueIndexes(job[p].ent, s, status)
        /\ SubscriptionTrigger(mapping[s], job[p].event, status)

Store(p) ==
    LET s == Sub(p)
        status == mapStripeStatus[job[p].seen.status]
    IN  /\ ent' = [ent EXCEPT ![job[p].ent] = [status |-> status, period |-> job[p].seen.period, ref |-> s]]
        /\ mapping' = [mapping EXCEPT ![s] =
               [ent |-> IF @.event = 0 THEN job[p].ent ELSE @.ent,
                status |-> status, at |-> Event(p).at, event |-> job[p].event]]

\* The transaction's writes, then its commit.
WriteState(p) ==
    /\ At(p, "writing")
    /\ \/ CanStore(p) /\ Store(p) /\ GoTo(p, AfterApply(p))
       \/ ~CanStore(p) /\ UNCHANGED <<ent, mapping>> /\ GoTo(p, "failed")
    /\ UNCHANGED <<stripeVars, customer, claim, grants, faults>>

\* grantMonthlyCredits: for the entitlement that serves the tenant now, and the
\* period that entitlement has now.  Activation takes only its own.
ReadActiveEntitlement(p) ==
    /\ At(p, "grant")
    /\ \/ \E e \in Serving :
             /\ job[p].event = 0 => e = Beta
             /\ job' = [job EXCEPT ![p].at = "granting", ![p].ent = e, ![p].period = ent[e].period]
       \/ (IF job[p].event = 0 THEN Beta \notin Serving ELSE Serving = {}) /\ GoTo(p, "failed")
    /\ UNCHANGED <<stripeVars, customer, claim, ent, mapping, grants, faults>>

Entry(p) ==
    [ent |-> job[p].ent, period |-> job[p].period, invoice |-> job[p].event,
     key |-> IF job[p].event = 0 THEN <<Beta, 0>> ELSE <<Sub(p), job[p].seen.period>>]

\* validate_credit_ledger_authority, for a monthly grant.
HasAuthority(g) == g.ent \in Serving /\ ent[g.ent].period = g.period

SameKey(g) == {h \in grants : h.key = g.key}
Granted(g) == \E h \in grants : h.ent = g.ent /\ h.period = g.period
\* A replay answers; a period granted before is a duplicate, which an invoice
\* accepts and activation does not; a key used for another entry is a conflict.
NothingToGrant(p) ==
    \/ Entry(p) \in grants
    \/ SameKey(Entry(p)) = {} /\ Granted(Entry(p)) /\ job[p].event # 0
CanGrant(g) == SameKey(g) = {} /\ ~Granted(g) /\ HasAuthority(g)

AppendGrant(p) ==
    /\ At(p, "granting")
    /\ \/ NothingToGrant(p) /\ UNCHANGED grants /\ GoTo(p, "complete")
       \/ CanGrant(Entry(p)) /\ grants' = grants \cup {Entry(p)} /\ GoTo(p, "complete")
       \/ ~NothingToGrant(p) /\ ~CanGrant(Entry(p)) /\ UNCHANGED grants /\ GoTo(p, "failed")
    /\ UNCHANGED <<stripeVars, customer, claim, ent, mapping, faults>>

Finish(p, status) ==
    /\ claim' = [e \in EventIds |-> IF e = job[p].event THEN status ELSE claim[e]]
    /\ job' = [job EXCEPT ![p] = NoJob]
    /\ UNCHANGED <<stripeVars, customer, ent, mapping, grants, faults>>

completeStripeEvent(p) == At(p, "complete") /\ Finish(p, "processed")

\* Mutant: an event that failed is acknowledged.
abandonStripeEvent_Acknowledges(p) == At(p, "failed") /\ Finish(p, "processed")

abandonStripeEvent(p) == At(p, "failed") /\ Finish(p, "failed")

\* activatePaidBetaStandardV1: the provisioning transaction makes the
\* entitlement or finds it with its period, then its grant follows.  It is
\* repeated until the grant is made.
ProvisionPaidBeta(p) ==
    /\ At(p, "idle") /\ \A g \in grants : g.ent # Beta
    /\ \/ ent[Beta].status = "absent" /\ Serving = {}
          /\ ent' = [ent EXCEPT ![Beta] = [NoEnt EXCEPT !.status = "active"]]
       \/ ent[Beta].status # "absent" /\ ent[Beta].period = 0 /\ UNCHANGED ent
    /\ job' = [job EXCEPT ![p] = [NoJob EXCEPT !.at = "grant"]]
    /\ UNCHANGED <<stripeVars, customer, claim, mapping, grants, faults>>

\* A statement or a call of Stripe fails, or a commit is not acknowledged.
Fault(p) ==
    /\ faults < MaxFaults /\ faults' = faults + 1
    /\ job[p].at \notin {"idle", "failed"}
    /\ \/ UNCHANGED <<ent, mapping, grants>>
       \/ At(p, "writing") /\ CanStore(p) /\ Store(p) /\ UNCHANGED grants
       \/ At(p, "granting") /\ CanGrant(Entry(p)) /\ grants' = grants \cup {Entry(p)} /\ UNCHANGED <<ent, mapping>>
    /\ GoTo(p, "failed")
    /\ UNCHANGED <<stripeVars, customer, claim>>

\* The process dies: its claim stays in processing.
Crash(p) ==
    /\ faults < MaxFaults /\ faults' = faults + 1
    /\ ~At(p, "idle") /\ job' = [job EXCEPT ![p] = NoJob]
    /\ UNCHANGED <<stripeVars, customer, claim, ent, mapping, grants>>

Handle(p) ==
    \/ \E e \in 1..Len(events) : beginStripeEvent(p, e)
    \/ ReadMapping(p) \/ FindEntitlement(p) \/ WriteState(p)
    \/ ReadActiveEntitlement(p) \/ AppendGrant(p)
    \/ completeStripeEvent(p) \/ abandonStripeEvent(p)
    \/ ProvisionPaidBeta(p) \/ Fault(p) \/ Crash(p)

Next ==
    \/ CustomerForTenant
    \/ \E s \in Subs : Subscribe(s) \/ Change(s) \/ Renew(s) \/ Pay(s) \/ CancelSubscription(s)
    \/ \E p \in Procs : Handle(p)

Spec == Init /\ [][Next]_vars

-----------------------------------------------------------------------------
(* Properties. *)

\* The tenant never has two serving entitlements, though two checkouts, a
\* Paid-Beta activation and handlers in several processes each make one after
\* finding none.
OneServing == Cardinality(Serving) <= 1

\* A cancelled subscription stays cancelled and a mapping never goes back to an
\* older event, though a handler may have read that there was no mapping before
\* another one's transaction committed it.
NeverRevived ==
    [][\A s \in Subs :
          /\ mapping'[s].at >= mapping[s].at
          /\ Terminal(mapping[s].status) => Terminal(mapping'[s].status)]_vars

\* An entitlement and the mapping of its subscription agree, and no
\* subscription holds two entitlements.
MappedTogether ==
    \A e \in Ents : ent[e].ref # Unbound =>
        /\ mapping[ent[e].ref].ent = e
        /\ mapping[ent[e].ref].status = ent[e].status

Delivered(s) == {e \in DOMAIN events : events[e].sub = s}

\* When every event of a subscription is acknowledged and no two of them were
\* created in one second, the tenant's entitlement is what Stripe has, in
\* whichever order and however often the events were handled.
Converged ==
    \A s \in Subs :
        /\ Delivered(s) # {} /\ \A e \in Delivered(s) : claim[e] = "processed"
        /\ \A e, f \in Delivered(s) : events[e].at = events[f].at => e = f
        => LET row == ent[mapping[s].ent]
           IN  row.status = mapStripeStatus[stripe[s].status] /\ row.period = stripe[s].period

\* An acknowledged event has taken effect: its subscription's mapping is at
\* least as new or cancelled, and a payment has made its grant or met another.
AcknowledgedIsApplied ==
    \A e \in DOMAIN events : claim[e] = "processed" =>
        /\ mapping[events[e].sub].event # 0
        /\ mapping[events[e].sub].at >= events[e].at \/ Terminal(mapping[events[e].sub].status)
        /\ events[e].type = "paid" => grants # {}

\* What STRIPE_SUBSCRIPTION_LIFECYCLE.md says of replay, redelivery and retry:
\* a paid invoice makes no second monthly grant.
GrantedOncePerInvoice ==
    \A g, h \in grants : g.invoice = h.invoice => g = h

=============================================================================
