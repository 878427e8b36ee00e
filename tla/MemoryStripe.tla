----------------------------- MODULE MemoryStripe -----------------------------
(***************************************************************************)
(* The Stripe half of InMemoryBillingRepository, against which the Stripe  *)
(* tests run.  It has neither the transactions nor the indexes and the     *)
(* trigger of the database: its checks alone decide.  On every state the   *)
(* durable repository reaches, also in several processes, both are asked   *)
(* what an event would do.                                                 *)
(***************************************************************************)
EXTENDS StripeLifecycle

Known(s) == mapping[s].event # 0

Seen(status, s) == [status |-> status, period |-> stripe[s].period]

\* What is left of an event: a reason to leave all as it is, a conflict, or the
\* rows of the entitlement and of the mapping.
Left(answer) == [answer |-> answer, ent |-> ent, mapping |-> mapping]

Applied(s, e, d, seen) ==
    LET status == mapStripeStatus[seen.status]
    IN  [answer |-> "applied",
         ent |-> [ent EXCEPT ![d] = [status |-> status, period |-> seen.period, ref |-> s]],
         mapping |-> [mapping EXCEPT ![s] = [ent |-> d, status |-> status,
                                             at |-> events[e].at, event |-> e]]]

-----------------------------------------------------------------------------
(* The repository in memory. *)

\* The reasons of staleResult; "" is none.  The mapping's Stripe status is
\* canceled when its entitlement's is cancelled.
MemoryStale(s, e, status) ==
    LET m == mapping[s]
        existingTerminal == Terminal(m.status) \/ Terminal(ent[m.ent].status)
    IN  IF e = m.event THEN "same_event"
        ELSE IF events[e].at < m.at THEN "older_event"
        ELSE IF existingTerminal /\ (events[e].at = m.at \/ ~Terminal(status)) THEN "terminal_state"
        ELSE IF events[e].at = m.at /\ ~Terminal(status) THEN "same_second_ambiguous"
        ELSE ""

\* Mutant: a bound entitlement is only found among those of its policy that no
\* subscription has.
MemoryEntitlements_Unbound(s) ==
    {e \in Ents : ent[e].status # "absent" /\ Policy[e] = Policy[s] /\ ent[e].ref = Unbound}

\* The entitlement bound to the subscription, whatever its mapping says, else
\* the unbound ones of its policy.
MemoryEntitlements(s) ==
    LET bound == {e \in Ents : ent[e].ref = s}
    IN  IF bound # {} THEN bound
        ELSE {e \in Ents : ent[e].status # "absent" /\ Policy[e] = Policy[s] /\ ent[e].ref = Unbound}

\* applyStripeSubscriptionState.
MemoryApply(s, e, seen) ==
    LET status == mapStripeStatus[seen.status]
        candidates == MemoryEntitlements(s)
        d == IF candidates = {} THEN s ELSE CHOOSE c \in candidates : TRUE
        otherServing == {o \in Ents \ {d} : ent[o].status \in Entitled}
    IN  IF Known(s) /\ MemoryStale(s, e, status) # "" THEN Left("stale")
        ELSE IF Cardinality(candidates) > 1 THEN Left("conflict")
        ELSE IF status \in Entitled /\ otherServing # {} THEN Left("conflict")
        ELSE Applied(s, e, d, seen)

\* beginStripeEvent.
MemoryBegin(e) ==
    CASE claim[e] = "processed" -> "replay"
      [] claim[e] = "processing" -> "in progress"
      [] OTHER -> "begun"

-----------------------------------------------------------------------------
(* The durable repository, when no other transaction is open. *)

DurableEntitlement(s) ==
    CASE Known(s) -> mapping[s].ent
      [] ~Known(s) /\ Exact(s) # {} -> CHOOSE e \in Exact(s) : TRUE
      [] ~Known(s) /\ Exact(s) = {} ->
             IF Candidates(s) = {} THEN s ELSE CHOOSE e \in Candidates(s) : TRUE

DurableApply(s, e, seen) ==
    LET status == mapStripeStatus[seen.status]
        d == DurableEntitlement(s)
    IN  IF Known(s) /\ Stale(mapping[s], e, status) THEN Left("stale")
        ELSE IF OtherServes(d, seen.status) THEN Left("conflict")
        ELSE IF ~UniqueIndexes(d, s, status) \/ ~SubscriptionTrigger(mapping[s], e, status)
             THEN Left("conflict")
        ELSE Applied(s, e, d, seen)

DurableBegin(e) ==
    IF claim[e] \in {"new", "failed"} THEN "begun"
    ELSE IF claim[e] = "processed" THEN "replay" ELSE "in progress"

-----------------------------------------------------------------------------
\* Whatever rows the processes have left on the durable repository, the one in
\* memory does with any event what the durable one does: neither the database's
\* indexes nor its trigger refuse what the checks in memory let through, and
\* both make the same rows.
DoubleAppliesAlike ==
    (\A p \in Procs : ~InTransaction(p)) =>
        \A e \in DOMAIN events :
            /\ MemoryBegin(e) = DurableBegin(e)
            /\ \A status \in DOMAIN mapStripeStatus :
                  LET s == events[e].sub
                  IN  MemoryApply(s, e, Seen(status, s)) = DurableApply(s, e, Seen(status, s))

=============================================================================
