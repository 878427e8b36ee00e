# Verification of the BizGenie API

TLA+ models of the `bizgenie-api` server (Node/Express on several processes
above PostgreSQL), the TLC runs that check them, and the TLAPS proofs about
them. Source paths are relative to the repository.

## The system

A tenant buys credits (Stripe), a customer asks for a generation (text, image,
video, campaign copy), the request becomes an immutable generation job, the
job's price is reserved on the tenant's credit ledger, the provider runs, and
the reservation becomes a debit or is released. Everything that has to survive
a restart is in PostgreSQL; the processes share nothing else.

| Component | State | Operations | Interacts with | Hard behaviour | What makes it correct |
|---|---|---|---|---|---|
| Credit ledger (`src/billing`, ledger SQL) | append-only `credit_ledger`, account status, entitlement and policy | grant, bolt-on, reserve, release, debit, refund, adjust, expire, read | called by the orchestrator and Stripe | row lock and unique keys, lost acknowledgements, stale prices | solvent, exact reserve, effects once, settlements repeat their origin, retries answered alike |
| Generation billing orchestrator (`src/generation-billing`) | a `Map` of promises per job in each process | begin, execute, settle, release, refund | ledger, routers, campaign generation | shared promises, several processes, crash loses the Map | nothing delivered uncharged, memory agrees with the ledger, charged for success only |
| Generation jobs (`src/generation-jobs`) | immutable `generation_jobs` rows | authorize-and-create, require existing | every generation route | find-then-create race | one job per key, only for the same request |
| Video generation (`src/video-generation`) | durable record with status compare-and-set | submit, poll, get | provider, asset store, orchestrator | crash between submit and update, concurrent polls, redelivery | one asset, no terminal state left, hold settled according to the record |
| Stripe lifecycle (`src/billing/stripe`) | event claims, subscriptions, entitlements | webhook, checkout, grants | ledger | redelivery, reordering, crash inside a claim | newest event wins, one grant per period, events end |
| Campaign spine (`src/campaigns`) | campaign aggregate, command receipts, revisions | commands of the variant workflow | generation | version races, replays | serial versions, a receipt per command, legal workflow |
| Campaign generation (`src/campaigns/generation.js`) | none of its own | generate, settlement-only replay | jobs, orchestrator, spine | partial failure between save and debit | saved draft settled once, no second draft |
| Campaign registries and projection | append-only records | register, read | spine | idempotent registration | records match the revision they name |
| Workspace, scope, brand brain | workspace rows, `app_metadata`, tokens, versioned brand brain | bootstrap, add, select, correct, replace, authorize and compose a generation | authentication, text generation | concurrent bootstrap, read-modify-write, a brand withdrawn meanwhile | a scope is one whole workspace, only approved brands reach a prompt, a brand keeps its project |
| Media (`src/media`) | objects and rows | save, load | images, video, campaigns | object stored, row refused | a charged asset has its row and its object |
| Paid beta (`src/paid-beta`) | rate windows, captures | capture | none | concurrent attempts | at most the limit, one capture per key |
| Image generation (`src/image-generation`) | a record per generation id, in each process | generate | jobs, orchestrator, provider, media | restart, two jobs with one id, retries of the provider | what is charged is stored, records belong to one job, the provider is asked within its attempts |
| In-memory repositories | the same records without a database | as the durable ones | the test suites | rules written twice drift apart | answers what the durable one answers |
| Authentication, authorization, principals | configuration | verify, decide | all routes | decisions on rows that may change before they are used | what a passed boundary still guarantees later (with the workspace) |
| Prompts, text provider, mission control, wiring | none or configuration | compile, route | all | none | scripts are complete when they are charged; the rest is out of scope |

## Modules

| Module | Models | State and actions |
|---|---|---|
| `CreditAccount` | what the ledger promises | `balance`, `reserved`, `phase` and `held` per job; `Deposit`, `Withdraw`, `Hold`, `Release`, `Debit`, `Refund` |
| `CreditLedger` | `BillingService` and `PostgresBillingRepository`, one step per transaction | `ledger` is `credit_ledger`; an entry is its intent; `AppendLocked` is `appendLocked` with its checks in order; `terms` is the serving entitlement with its policy |
| `LedgerTables` | checks, indexes and triggers of `credit_ledger` | what the SQL demands of an entry, type by type |
| `MemoryLedger` | the in-memory repository's ledger, and `reconcileAccount` of both | `entries` grows beside `ledger`; an operator per operation, for either repository |
| `LedgerSessions` | the ledger's transactions, statement by statement | `session[s].at` is the next statement of a connection: `Lock` (`requireLockedAccount`), `FindReplay`, `Verify`, `Insert`, `Commit`, `Acknowledge`; `Refuse` and `Break` roll back |
| `GenerationBilling` | `GenerationBillingOrchestrator` in several processes | `state[p][j]` is `this.states` of process `p`; `call[c].at` is the promise a call awaits; a step is what runs between two awaits |
| `CampaignSpine` | the commands of `CampaignTransaction`, `projection.js`, the preview registry | an action per command; `variant[v]` is the variant's row with the records its columns point to; `rebuilt` and `stage` are the folds that the projection and the commit trigger make of the events |
| `CampaignTables` | constraints and triggers of the campaign tables | what is demanded of a row that a command inserts, and of the projection it leaves |
| `CampaignGeneration` | `POST .../generate` from the request to its answer | `job[j]` is the row that binds an idempotency key to a request, `receipt[j]` the command receipt; `execution[p][j]` the promise that a process's calls share; a call advances with `Resume`, an operation with `Generate` and `Save` |
| `ImmediateGeneration` | `POST /customer/generate-image` and `.../generate-script`, the image service, its provider and its asset store | `record[p][g]` is a process's image record, `objects` and `rows` the bucket and `media_assets`, `asked` the provider's requests |
| `VideoGeneration` | the video router, service, compare-and-set repository, asset store and billing | `record[j]` is the durable record, `call[c].seen` what an update has read |
| `StripeLifecycle` | webhook claims, `reconcileStripeSubscription`, monthly grants, Paid-Beta activation | `events` are what Stripe has sent, `claim` the rows of the webhook table, `mapping` and `ent` the subscription and entitlement rows, `job[p]` the handler a process runs |
| `MemoryStripe` | the same operations on the in-memory repository | two operators per operation, no state of its own |
| `CustomerWorkspace` | workspace service, scope provisioner, brand brain repository and administration, the generation boundary and the brand context of a prompt | `roles`, `projects`, `brands` are the tables; `metadata[u]` the scope in `app_metadata`, `claims[u]` the one in the customer's token; `calls[c].at` is the await a request is at |

The `MC` modules and `.cfg` files give the constants their values. The proofs
are in `CreditLedgerProofs` (of `LedgerTables`, `MemoryLedger` and
`LedgerSessions` too), `GenerationBillingProofs` (of `CreditAccount` too),
`CampaignSpineProofs` (of `CampaignTables` too), `CampaignGenerationProofs`,
`ImmediateGenerationProofs`, `VideoGenerationProofs`, `StripeLifecycleProofs`
(of `MemoryStripe` too) and `CustomerWorkspaceProofs`.

How they fit together. `CreditLedger` instantiates `CreditAccount` with
balances summed from the ledger and phases read from a job's entries
(`ImplementsCreditAccount`); `LedgerSessions` extends `CreditLedger`, and the
same refinement holds of what it commits. `GenerationBilling` extends
`CreditAccount` and performs its actions as the database side of a promise, so
what it relies on is what the ledger is proved to implement; that memory
agrees with the ledger is proved there. `CampaignGeneration`,
`ImmediateGeneration` and `VideoGeneration` build on both facts: their calls
are answered by the account itself, as one step, and their own variables are
the rest of the route. `CampaignTables` and `LedgerTables` sit below the
modules they extend: they add no step, and say what the database would refuse
of the steps there are. `MemoryLedger` runs beside `CreditLedger`, and
`MemoryStripe` asks both repositories about every state of `StripeLifecycle`.
`CustomerWorkspace` stands beside the others: it ends where a generation has
its prompt's context, and what a generation costs is no part of it.

Definitions whose comment begins with `Mutant` are wrong variants of the
definition that follows. Nothing uses them; each shows that a property would
notice the bug.

## Runs

| Run | Instance | Checks | States |
|---|---|---|---|
| `ledger` | one account, two jobs, four keys, two terms, one of them without bolt-ons | `ReservedIsOutstanding`, `SettlementsMatchOrigin`, `EffectsHappenOnce`, `HoldsStaySettleable`, `DatabaseAcceptsEntries`, `DoubleAnswersAlike`, `OnlyStaleHoldsReported`, `ImplementsCreditAccount` | 16,146 |
| `sessions` | two connections, two accounts, nine requests on four keys, one of each operation | `KeysAreGlobal`, `AnswersAreDurable`, `ImplementsCreditAccount`, `EveryCallEnds` | 145,644 |
| `generation_billing` | two processes, two jobs, two calls, one crash, two faults | `DeliveredIsCharged`, `PromisesAgreeWithLedger`, `SettledAsEarned`, `ProviderRunsReserved`, `CallsEnd`, `HoldsEnd` | 15,846 |
| `campaign_spine` | two owners, an image and a text variant, two revisions of each, two receipts, two previews, one correction | `ProjectionIsReplayed`, `PublishedAsPreviewed`, `ArchivedIsIdle`, `FrozenWhileAttempted`, `DatabaseAcceptsCommands` | 959,848 |
| `campaign_generation` | two processes, three calls, one key, two briefs, two texts, two versions, one crash, two faults | `ChargedIsSaved`, `DeliveredAsRequested` | 441,863 |
| `immediate_generation` | two processes, three calls, two jobs, one generation id, two attempts, one crash, one fault | `DeliveredIsCharged`, `RecordsAreOwn`, `AskedWithinAttempts` | 1,386,408 |
| `video_generation` | two processes, three calls, one video, one crash, two faults | `SubmittedOnce`, `DeliveredIsCharged`, `EndedIsFinal` | 286,378 |
| `stripe` | two subscriptions, Paid Beta, two processes, three events, two periods, one fault | `OneServing`, `MappedTogether`, `Converged`, `AcknowledgedIsApplied`, `DoubleAppliesAlike`, `NeverRevived` | 1,149,365 |
| `customer_workspace` | two customers, two requests at once and five in all, a workspace each and one more, two versions | `ScopesAreWorkspaces`, `ContextIsOwnAndApproved`, `BrandsChangeByOwnCommands` | 892,791 |
| `billing_rerun` | one process, one crash, two calls | violates `SettledJobIsNotRerun` | |
| `video_redelivered` | as `video_generation`, one fault | violates `ReleasedHasFailed` | |
| `stripe_redelivery` | one subscription, one process, four events | violates `GrantedOncePerInvoice` | |

What they show, beyond the statements of the properties themselves: the ledger
stays exact under every order of operations, and its operations can be
interleaved statement by statement; the orchestrators of several processes
cannot charge for a failure or deliver without a charge; on every generation
route what is charged has been kept (a draft committed, an image or a video
stored and registered); a variant is published only as its approver saw it,
and neither the domain's rules nor the database's refuse what the other has
accepted; one entitlement serves a tenant whichever events race; a customer's
scope is one whole workspace whichever selections race, and a brand brain that
is withdrawn while a request is on its way does not reach the prompt.

Bounds. `ledger` is bounded by its keys: four entries are enough for a grant,
a hold, its settlement and its refund, or for two holds that compete for the
same credits. One account is enough there, since its properties concern an
account's own entries; what accounts share, the keys, is the subject of
`sessions`, where two accounts use one key. `sessions` has no bound on
retries: a connection starts any request again as often as it likes, and the
keys bound what can be committed. In `generation_billing` and the routes two
processes are enough for a stale memory; the routes have three calls, two that
race and one that comes later. `generation_billing` has two, because its
liveness is checked too; its four safety properties are theorems, which bound
neither calls nor processes. `MaxCrashes` and `MaxFaults` bound the failures and each
call is made once. `campaign_spine` has two revisions, so that an approval can
be outdated, two receipts and previews, so that the wrong one can be bound,
and one correction of a profile or a medium (`MaxRevisions`, `MaxReceipts`,
`MaxPreviews`, `MaxCorrections`). `campaign_generation` has two versions, so
that an edit can come between a request and its save (`MaxVersion`).
`immediate_generation` gives both jobs one generation id, so that every two
images contend for it, and two attempts of the provider (`MaxAttempts`; the
code's default is two as well). `stripe` has three events (`MaxEvents`) in two
periods (`MaxPeriod`): enough for an event that overtakes another, and for one
of another subscription between them. A redelivery needs no event: Stripe
repeats each until it is acknowledged. `customer_workspace` has five requests
(`MaxRequests`), two at a time: two to establish the workspaces, and three that
select, correct, replace or generate beside each other; `MaxVersion` is the
schema's bound on versions, reached by one correction or given by the
administrator; `Members`, `Asked` and
`Replaced` name the member row an operator inserts, the scopes that are asked
for (two of one tenant, another's, a mixed one) and the brands an administrator
replaces. Processes, calls, keys, jobs, subscriptions and owners are symmetric
in the runs that check safety only;
action properties are checked with symmetry as well, and none of them names a
member of a symmetric set.

Deadlock is not checked: a ledger whose keys are used up, a variant that is
published, requests that are used up, or a server nobody calls may stop.

Fairness. `FairSessionSpec` assumes that a call which can advance again and
again does: PostgreSQL queues the waiters of a row lock and of a unique key.
`FairSpec` of `GenerationBilling` assumes that the event loop runs a ready
continuation, and that the database and the provider answer (providers have
timeouts). No caller, crash, fault or change of terms is ever assumed to
happen. The other modules state safety only: a campaign waits for its owner, a
video for a poll, and a Stripe event that a crash has left in processing is
refused for good (see the observations), so nothing need ever happen there.

## Proofs

The theorems hold for every value of the constants that satisfies the named
assumptions: credits are positive integers, every job has an account and a
price, openings are not negative, bounds are natural numbers, a variant has
room for its first revision, an image is asked
for one to three times (`MaxAttempts`), the server processes of
`GenerationBilling` and the customers and names of `CustomerWorkspace` are
finitely many and apart, `Beta` and `Unbound` are not subscriptions, `NoTerms`
and `NoOrigin` are not terms or jobs, and the `None` of a workspace is neither a
brand brain nor a role (`NoneIsNoRow`). The requests of `LedgerSessions` reserve
for the tenant of a job and name a job only where the operation is about one
(`JobRequestsAssumption`), as the methods of `BillingService` do. Ledgers are of
any length.

| Theorem | States | Argument |
|---|---|---|
| `AccountTypeCorrect`, `NeverOverspentAlways` | balances stay integers; available credits never go below zero | induction on the six operations; a hold is one of the credit amounts, so a natural number |
| `LedgerTypeCorrect` | every appended entry is well formed | `StepsAppend`: a step on the ledger appends one intent, new under its key and its effect, that refers back to an earlier entry |
| `KeysStayGlobal`, `EffectsStayOnce`, `SettlementsStayMatched` | one entry per key; one effect per job, reservation, debit, period and payment; settlements repeat their origin | each is inductive with the type invariant, from `StepsAppend` and what an append leaves and adds (`AppendedLedger`) |
| `ReserveStaysOutstanding`, `HoldsCanAlwaysBeSettled` | the reserved balance is the sum of the open reservations; each of them can be settled | `HistoryInv`, below |
| `LedgerImplementsAccount` | the ledger is a `CreditAccount` whose balances are sums and whose phases are read from entries | `HistoryInv`; one lemma per operation of the account |
| `DatabaseAlwaysAccepts` | the SQL's checks, indexes and triggers refuse no entry | what an append establishes, entry type by entry type |
| `DoubleAlwaysAnswersAlike`, `OnlyStaleHoldsAreReported` | the repository in memory answers as the durable one; reconciliation of either reports stale holds only | `MemoryInv`, below |
| `KeysStayGlobalAcrossSessions`, `AnswersStayDurable`, `SessionsImplementAccount`, `SessionsNeverOverspend` | the same ledger when transactions are interleaved statement by statement; what a caller is told is committed and its own; no account is overspent | `SessionInv`, below |
| `BillingImplementsAccount`, `BillingNeverOverspends` | the orchestrators of all processes are one client of `CreditAccount` | `Commit` is the only action on the ledger's variables, and is an operation or a replay |
| `BillingTypeCorrect` | the orchestrator's state is well formed | `OrchestratorTypeOK`, one step per action, a lemma per operator on a job's state |
| `MemoryIsTrue` | a process believes nothing of a job that the ledger refutes | phases only advance (`PhasesAdvance`), and each operator on a job's state keeps `RemembersTruly` |
| `DeliveryIsCharged` | no result leaves before its debit | only `Debited` delivers, on a debit that memory is right about, and charges are never undone |
| `SettlementIsEarned` | charged for success, released for failure | `Earned`, below |
| `ProviderRunsAreReserved` | the provider runs reserved jobs, once per incarnation of a process | `runs[j]` is at most the processes that remember a start plus the crashes; a start adds one process to them, a crash moves one to the crashes |
| `PublishedAsPreviewedAlways`, `ArchivedIsIdleAlways`, `FrozenWhileAttemptedAlways`, `DatabaseAcceptsCommandsAlways` | what is published was previewed and approved as it is; archives are idle; an attempt freezes its variant; the tables accept every command | `SpineInvariant`, below |
| `ProjectionAlwaysReplayed` | the projection a command leaves is the fold of the events it commits | `SpineInvariant`, and the fold unfolded for the at most three events of a command, below |
| `ChargedIsSavedAlways`, `DeliveredAsRequestedAlways` | a charged generation has its draft saved for the request of its job; success is told to those who sent that request | `GenerationInvariant`, below |
| `DeliveredIsChargedAlways` of `ImmediateGenerationProofs`, `RecordsAreOwnAlways`, `AskedWithinAttemptsAlways` | what is delivered is charged and stored; a record tells its own job's outcome; the provider is asked within its attempts | `ImmediateInvariant`, below |
| `GenerationImplementsAccount`, `ImmediateImplementsAccount`, `VideoImplementsAccount` | the routes make operations of `CreditAccount` only, each under its guard, so `AccountTypeCorrect` and `NeverOverspentAlways` hold of them | the route's invariant: who reserves has a job, and the job a price |
| `SubmittedOnceAlways`, `DeliveredIsChargedAlways`, `EndedIsFinalAlways` | a video is submitted once; a delivered video is charged, a charged one has its asset; an ended video keeps its status | `VideoInvariant`, below |
| `OneServingAlways`, `MappedTogetherAlways`, `NeverRevivedAlways` | one entitlement serves; it agrees with its mapping; no cancelled subscription comes back and no mapping goes back | `StripeInvariant`, below |
| `AcknowledgedAlwaysApplied`, `ConvergedAlways`, `DoubleAppliesAlikeAlways` | an acknowledged event has taken effect; when all are acknowledged the entitlement is what Stripe has; both repositories do the same with any event | `FreshInvariant`, below |
| `WorkspaceTypeCorrect`, `ScopesStayWorkspaces`, `ContextStaysOwnAndApproved`, `BrandsStayOwn` | a scope is one whole workspace of its customer; a prompt gets an approved brand brain of that workspace; a brand brain changes by commands that name it | `WorkspaceInv`, below |
| `TypeCorrect` (four modules) | types, including the record shapes that the video schema demands and the bound on campaign versions | a part of the four invariants |

The inductive invariants.

`HistoryInv` of the ledger. Balances are sums over sets of entries that grow
without bound. `SumFunctionOnSet` takes elements out of a set by choice, so that
a sum is there and moves by what is added has to be shown first, by induction
over finite sets. The provers cannot instantiate the library's induction
theorems that take an operator, so the induction is over a set that stands for
what is to be shown (`NatSetInduction`, from well-foundedness, and
`SubsetInduction`). From there `AppendedBalances` says what an append does to
both balances. `ReservedIsOutstanding` needs that a settlement takes away what
its reservation put there, which is `SettlementsMatchOrigin`, and takes it away
once, which is `EffectsHappenOnce`; `Solvent` (no account in debt, no reserve
below zero) is inductive beside them, as `Affordable` looks at the sums only. A
hold can be settled because the other open holds add up to something that is not
negative. The refinement reads a job's phase from its entries, and the same
facts say which of the account's guards hold.

`MemoryInv`. The repository in memory keeps maps of keys and of effects beside
its entries; they are what the durable repository would find by query
(`EffectsAlike`), and its answers follow.

`SessionInv`. `Established` says, per statement of a transaction, what it has
read and still relies on: no entry with its effect (`verify`), credits enough
(`insert`), no entry under its key (`commit`); after the commit, that the entry
it tells of is there. `Apart` is what the locks are for: of any two
transactions, the accounts differ, and so do the keys of inserted rows. Another's
commit then touches neither the account nor the key, and what was established
stays so (`EstablishedStays`); a commit is therefore an append in the sense of
`HistoryInv` (`CommitAppends`), and all that is proved of appends holds of it.

`Earned`. `SettledAsEarned` is not inductive: the commit of a pending debit
says nothing about why the debit was asked for. `Earned` adds the evidence
behind every pending promise (`JobEarned`: a debit is only promised for a job
with an asset, a release for a job with a failure, an outcome is one that
happened) and behind every call (`CallEarned`: who settles has an asset, who
releases has a failure), and evidence only accumulates (`EvidenceStays`).
`PromisesAgreeWithLedger` is needed as well: a debit rebuilt from the ledger is
earned because the ledger's debit was.

`SpineInvariant`. `PublishedAsPreviewed` is about a content, and `approve`
compares revisions: what ties them is that a revision has one content, whoever
has read it and whenever (`Written`, of every receipt in `ReceiptsOK` and of
every render under way in `RenderingOK`), and that previews are of receipts
(`PreviewsOK`). `RowOK` says which records a row of each stage points to, and
that they are of its revision and its approval; `ArchivedIsIdle` and
`ItemsHaveVariants` complete it. Every command is an instance of `CommitKeeps`,
nearly all by way of `UpdateKeeps`, which also prove what the tables demand of
the step (`RowsAccepted`); the constraints on the row itself follow from `RowOK`.
That the projection is the fold of the events is a statement about `FoldLeft`,
which is defined by recursion over the indices. A command commits at most three
events, so the recursion is unfolded three times: the iteration exists
(`IterationExists`, one index more at a time) and its last value is the events
applied one after the other (`FoldsUnfold`). The rest is one lemma per command:
the row it writes is what `ReplayEvent` and `StageAfter` make of its events.

`GenerationInvariant` of `CampaignGeneration`. The draft and its debit are
committed by different transactions and, after a crash, by different
processes, so what the debiting call knows has to be tied to what the saving
operation did. Per job: a receipt is for the job's request (`ReceiptOfJob`), an
execution is of a job that exists (`ExecutionOfJob`), one that resolved well
has saved (`OkIsSaved`), and a debited job is saved (`DebitedIsSaved`). Per
call: it is bound to the job's request once it has passed the job
(`CallBound`), what it settles is saved (`CallSaved`), and whoever is done was
debited (`DoneIsDebited`).

`ImmediateInvariant`. Calls of one job share an execution, and requests of
several jobs may carry one generation id, so a record says nothing by itself
about the call that finds it. Per call (`CallsOK`): the job it works for is of
its kind (`Classed`); a call inside the operation is the one that runs the
execution, and past `create` the record is its own (`Owns`); the object and the
row it is about to build on are there (`Stored`); the requests of its process
are those it counts itself (`Attempts`); and what it debits succeeded, what it
delivered is debited (`Outcome`). `JobsOK` holds every job at the price of its
class and a kept asset for every charged image, `ExecutionsOK` the same for
every execution that ended well, and `RecordsOK` ties a record to the call that
created it. An asset is kept (`Kept`) from the end of its operation on, since
only a running operation deletes, and only its own object. `Crash` forgets the
executions and records of a process and fails its calls, which then rely on
nothing.

`VideoInvariant`. An update is written after the record it was computed from
was read, and only the status is compared. `CallFacts` ties what each call has
seen to the record as it now is: statuses only advance, so an unchanged status
means an unchanged record where it matters. `SubmitsAlone` keeps the
submission to the call that created the record, `NewIsUnsubmitted` has no
provider request before a record, `AssetIsKept` keeps row and object of every
completed record (only a call whose own update failed deletes, and only its
own), and `ChargedIsComplete` says that a debit follows the completion.

`StripeInvariant`. A handler reads its subscription from Stripe, then the
mapping, then entitlements, then writes; others write in between. `EventsOK`
(`EventsTimed`, `EventsOfSubs`) and `EventTaken` describe what is delivered;
`RowsOK` (`UnmappedIsBlank`, `ServesAlone`, `AbsentIsUnbound`, `MadeIsBound`,
`MappingBinds`, `MappedTogether`) ties entitlements to mappings; and
`HandlersOK` (`KnownIsMapped`, `WritesOwn`, `BetaForOne`) says what a handler in
its transaction still knows of the rows it has locked or has yet to insert. The
two unique indexes and the row locks are what makes it inductive.

`FreshInvariant`. That rows converge is about what Stripe had when a handler
asked, while others ask and write. `HandlerFresh` has what a handler retrieved
be what Stripe still has, provided that no event of the subscription followed or
that it is cancelled, after which nothing follows; `RowFresh` says the same of
the rows under a mapping, and `MappingDated` and `HistoryOK` date them: a mapping
carries the time of one of its own events, and events are numbered in the order
of their times. `HandlerDone` and `ClaimOK` carry an event from the write to its
acknowledgement. A handler that finds a mapping newer than its event writes
nothing, so of two events of different times the newer one stays, whichever is
handled last.

`WorkspaceInv`. A request awaits the database, the authentication service or a
generation, so what it has read may be outdated: `Relies` says, per await, what
it has found and still needs. That it still holds is because no step takes a
workspace away from a customer (`WorkspacesGrow`): rows are added and changed,
not deleted, and a row keeps its tenant and its project (`RowsKept`). The status
of a brand brain may change, so `Relies` has nothing to say of it before the row
is read for the prompt.

Type invariants. Those of `CreditLedger`, `GenerationBilling`,
`CampaignGeneration`, `ImmediateGeneration`, `VideoGeneration`,
`StripeLifecycle` and `CustomerWorkspace` are proved, that of `CampaignSpine` but
for the types of its two folds (`SpineTypeOK`), which equal the columns they
rebuild; none of them is run any more.

Only model-checked: `EveryCallEnds`, `CallsEnd` and `HoldsEnd`, which are
liveness properties under fairness, out of the prover's reach. Every safety
property and action property of a run that must pass is a theorem. The three
runs that must fail show where the code departs from its documentation.

## Findings

- `billing_rerun`: `beginExecution` does not read the settlement, so a new
  process runs the provider of a debited job again, while
  `docs/billing/DURABLE_POSTGRES_BILLING.md:30-31` says that it does not. The
  customer is still charged once (`CreditAccount`), the provider's cost is
  paid twice.
- `video_redelivered`: a submission that reaches a process which has not run
  the job conflicts on the record, outside the service's `try`, and the
  orchestrator releases the hold of a video that is under way;
  `docs/billing/GENERATION_CREDIT_ACCOUNTING.md:94-96` promises a release after
  a terminal failure. The completed video can then never be charged.
- `stripe_redelivery`: the retry of a paid invoice whose grant was committed
  grants the next period too, when the subscription has renewed meanwhile;
  `docs/billing/STRIPE_SUBSCRIPTION_LIFECYCLE.md:171-172` excludes a second
  grant.

Observations made while modelling, of which no run makes a finding:

- A retried reservation is priced before its replay is looked for
  (`src/src/billing/service.js:221`), so a retry after a lapse or a change of
  price is refused, while `docs/billing/DURABLE_POSTGRES_BILLING.md:28-30` has
  it return the committed effect. The hold of the first attempt stays, and can
  be settled.
- When the commit of a draft is not acknowledged, its operation counts as
  failed and the hold of a saved draft is released, against
  `docs/bizgenie/BG-181-BILLING-RECOVERY-POLICY.md:7`.
- An update of a video from completed to completed passes the compare-and-set:
  the later of two polls replaces the asset and resets the approval, against
  `docs/video-generation.md:63`.
- A crash between a webhook's claim and its completion leaves the claim in
  processing, and every redelivery is refused from then on.
- Of two subscription events of one second the second is taken as ambiguous
  and lost, unless it cancels; `Converged` leaves such events out.
- An acknowledged invoice need not have a grant of its own: one that finds the
  period of the serving entitlement granted already, by an activation or by
  another invoice, adds nothing and leaves no record of it. So
  `AcknowledgedIsApplied` asks for a grant, and not for one of that invoice.
- A second checkout opens a second paid subscription, whose events are refused
  for as long as the first one serves.
- Paid-Beta provisioning of the in-memory repository
  (`src/src/billing/repository.js:245-260`) adds a serving entitlement beside
  another, where the database's index refuses the second.
- Image and script requests with one execution id share an operation, so
  another request under that id is answered with the first one's result.
- The image records that make generation ids create-only (`README.md:688`)
  live in one process and end with it.
- When the row of an asset is committed and its acknowledgement lost, the
  cleanup deletes the object and leaves an active row without one.
- A preview that is rendered again under its idempotency key is always
  refused: the time of rendering enters the hash that must repeat
  (`src/src/campaigns/previewRegistry.js:270-330`).
- The upsert of a brand brain compares no version: of two corrections of one
  version one is lost, a version can go back, and a correction that was read
  before an administrator archived the brand writes the old status back.
- A repeated bootstrap provisions a workspace whose brand is a draft
  (`src/src/customer-workspace/service.js:47-56`), and one whose brand is
  archived, as the transaction reads its workspace back without regard to the
  status (`src/src/customer-workspace/postgresRepository.js:129`), while
  `docs/security/CUSTOMER_TOKEN_VERIFICATION.md:86-88` speaks of approved
  records. Generations find such a brand and refuse it, or compose without it.
- `app_metadata` is written back as it was read, with the scope laid over it:
  what another writer put there in between may be lost.

## Order of work, and what is left

The modules were written from the money outwards: ledger, orchestrator,
campaign spine and generation, video, Stripe, then the immediate routes, the
database's own rules, the in-memory repositories and the workspace.
What is left is to show `GenerationBilling` to be what the routes assume of it,
as a refinement of an orchestrator that is answered by the account at once.

## Not modelled

- Paid-beta capture: a rate window and an idempotent insert.
- Of authentication and authorization, the signature of a token, service
  principals, and the boundaries of checkout and of a video's status: pure
  decisions over one request. The models' callers are those who pass them.
- Of the workspace, the in-memory doubles of its repositories, the reads that
  change nothing (`getWorkspace`, `getSelectedBrandBrain`), and what a brand
  brain says: its version stands for it.
- Measurements and goal recommendations: append-only records beside the
  workflow. Renaming, details and the strategy validators of a campaign: no
  property tells their values apart.
- Prompt composition, providers' request formats, mission control, startup
  validation, HTTP and logging.
- Of reconciliation, `monthly_grant_mismatches`; of Stripe, bolt-on payment
  evidence, past-due grace windows and `invoice.payment_failed`, which is a
  subscription event without a grant.
- Of the in-memory repositories, the promise chain that stands for the
  account's lock, customer mappings, Paid-Beta provisioning and evidence of
  payments.

Abstractions. No code under `src/` freezes or closes an account, so its status
is fixed from the beginning of a behaviour. Amounts are unbounded integers;
`toSafeInteger` refuses sums beyond 2^53, which no account reaches. The doc's
row lock on the original reservation is not in the code (`requireRelatedEntry`
reads without it); the account's lock covers it. A debit promise that
`reconstruct` replaces while it is under way goes on being awaited in
`GenerationBilling`, also by later calls, which in the code get the entry that
was found at once: the model lets those calls fail where the code does not.
`CampaignTables` looks for a referenced row among the current ones, so what it
accepts the database, which keeps the old ones too, accepts as well. Contents,
briefs and texts are model values, hashes are what they are hashes of, and
identifiers are the members of the sets that the modules are given.
