------------------------ MODULE CustomerWorkspaceProofs ------------------------
(* Scopes are whole workspaces of their customers, prompts get approved brand *)
(* brains of their own, and brand brains change by the commands that name     *)
(* them, for every number of customers, workspaces, requests and names.       *)
EXTENDS CustomerWorkspace, TLAPS

-----------------------------------------------------------------------------
(* The inductive invariant. *)

Targets == [tenant : Users \cup {None}, project : Names, brand : Names]

Stages == {"idle", "list", "create", "choose", "metadata", "provision", "fetch", "upsert",
           "authorize", "resolve", "generated"}
Seen == Brand \cup Scope \cup {NoScope, None}

Requests == [op : {"none", "bootstrap", "additional", "select", "correct", "generate", "replace"},
             user : Users \cup {None},
             at : Stages,
             target : Targets,
             seen : Seen]

WorkspaceTypeOK ==
    /\ roles \in [Users -> [Users -> {"owner", "member", None}]]
    /\ projects \in [Suffixes -> Users \cup {None}]
    /\ brands \in [Suffixes -> Brand \cup {None}]
    /\ metadata \in [Users -> Scope \cup {NoScope}]
    /\ claims \in [Users -> Scope \cup {NoScope}]
    /\ calls \in [Calls -> Requests]

\* What a request has found out at each of its awaits and relies on after it.
Relies(call) ==
    /\ call.op \in {"bootstrap", "additional", "select", "correct", "generate"} => call.user \in Users
    /\ call.at \in {"metadata", "provision", "authorize", "resolve", "generated"} =>
          call.user \in Users
    /\ call.op = "additional" => call.target.tenant \in Users
    /\ call.op = "replace" => call.target.brand \in Suffixes /\ call.at \in {"fetch", "upsert"}
    /\ call.at \in {"metadata", "provision", "authorize"} =>
          call.target \in WorkspacesOf(call.user)
    /\ call.at = "provision" => call.seen \in Scope \cup {NoScope}
    /\ call.op = "correct" => call.target \in WorkspacesOf(call.user)
    /\ call.at = "resolve" => call.target.brand = None \/ call.target \in WorkspacesOf(call.user)
    /\ call.at = "generated" /\ call.seen # None =>
          call.seen.status = "approved" /\ call.target \in WorkspacesOf(call.user)

WorkspaceInv ==
    /\ WorkspaceTypeOK
    /\ ScopesAreWorkspaces
    /\ \A c \in Calls : Relies(calls[c])

LEMMA NoneIsNoName ==
    /\ None \notin Users /\ None \notin Suffixes /\ Users \subseteq Suffixes
    /\ NoScope \notin Scope
    /\ Scope \subseteq Targets /\ NoScope \in Targets
BY NamesAreApart DEF Suffixes, NoScope, Scope, Targets, Names

LEMMA IdleRelies == Idle \in Requests /\ Relies(Idle)
BY NoneIsNoName DEF Idle, Requests, Stages, Seen, Relies

LEMMA WorkspaceInitially == Init => WorkspaceInv
<1> SUFFICES ASSUME Init PROVE WorkspaceInv
  OBVIOUS
<1>1. WorkspaceTypeOK
  BY IdleRelies DEF Init, WorkspaceTypeOK
<1>2. ScopesAreWorkspaces
  BY DEF Init, ScopesAreWorkspaces
<1>3. \A c \in Calls : Relies(calls[c])
  BY IdleRelies DEF Init
<1> QED  BY <1>1, <1>2, <1>3 DEF WorkspaceInv

\* No step takes a workspace away from a customer.
WorkspacesGrow == \A u \in Users : WorkspacesOf(u) \subseteq WorkspacesOf(u)'

LEMMA ReliesStays ==
    ASSUME WorkspacesGrow, NEW call, Relies(call), call \in Requests
    PROVE  Relies(call)'
BY DEF Relies, WorkspacesGrow

\* The tables keep every row: roles stay, projects keep their tenant and brands
\* their project.
RowsKept ==
    /\ \A t, u \in Users : roles[t][u] # None => roles'[t][u] # None
    /\ \A p \in Suffixes : projects[p] # None => projects'[p] = projects[p]
    /\ \A b \in Suffixes : brands[b] # None =>
          brands'[b] # None /\ brands'[b].project = brands[b].project

LEMMA RowsKeptGrow == ASSUME RowsKept PROVE WorkspacesGrow
BY NoneIsNoName DEF RowsKept, WorkspacesGrow, WorkspacesOf, WorkspacesIn, Scope, Suffixes

LEMMA SameTables == ASSUME UNCHANGED tables PROVE WorkspacesGrow
BY DEF tables, WorkspacesGrow, WorkspacesOf

\* A step moves one request at most, whatever becomes of the tables.
LEMMA RequestMoves ==
    ASSUME WorkspaceInv, WorkspacesGrow, NEW c \in Calls, NEW d \in Requests, Advance(c, d), Relies(d)'
    PROVE  /\ calls' \in [Calls -> Requests]
           /\ \A b \in Calls : Relies(calls[b])'
<1>1. calls' \in [Calls -> Requests]
  BY DEF WorkspaceInv, WorkspaceTypeOK, Advance
<1>2. ASSUME NEW b \in Calls PROVE Relies(calls[b])'
  <2>1. CASE b = c
    <3>1. calls'[b] = d
      BY <2>1 DEF WorkspaceInv, WorkspaceTypeOK, Advance
    <3> QED  BY <3>1 DEF Relies
  <2>2. CASE b # c
    <3>1. PICK call \in Requests : call = calls[b] /\ call = calls'[b] /\ Relies(call)
      BY <2>2 DEF WorkspaceInv, WorkspaceTypeOK, Advance
    <3>2. Relies(call)'
      BY <3>1, ReliesStays
    <3> QED  BY <3>1, <3>2 DEF Relies
  <2> QED  BY <2>1, <2>2
<1> QED  BY <1>1, <1>2

LEMMA OnlyRequestMoves ==
    ASSUME WorkspaceInv, NEW c \in Calls, NEW d \in Requests, Advance(c, d), Relies(d),
           UNCHANGED <<tables, metadata, claims>>
    PROVE  WorkspaceInv'
<1>1. WorkspacesGrow /\ Relies(d)'
  BY SameTables, ReliesStays
<1>2. ScopesAreWorkspaces'
  BY <1>1 DEF WorkspaceInv, ScopesAreWorkspaces, WorkspacesGrow
<1> QED  BY <1>1, <1>2, RequestMoves DEF WorkspaceInv, WorkspaceTypeOK, tables

LEMMA RowsAdded ==
    ASSUME WorkspaceInv, RowsKept, NEW c \in Calls, NEW d \in Requests, Advance(c, d), Relies(d)',
           UNCHANGED <<metadata, claims>>,
           roles' \in [Users -> [Users -> {"owner", "member", None}]],
           projects' \in [Suffixes -> Users \cup {None}],
           brands' \in [Suffixes -> Brand \cup {None}]
    PROVE  WorkspaceInv'
<1>1. WorkspacesGrow
  BY RowsKeptGrow
<1>2. ScopesAreWorkspaces'
  BY <1>1 DEF WorkspaceInv, ScopesAreWorkspaces, WorkspacesGrow
<1> QED  BY <1>1, <1>2, RequestMoves DEF WorkspaceInv, WorkspaceTypeOK

LEMMA EndKeeps ==
    ASSUME WorkspaceInv, NEW c \in Calls, End(c), UNCHANGED <<tables, metadata, claims>>
    PROVE  WorkspaceInv'
BY IdleRelies, OnlyRequestMoves DEF End

-----------------------------------------------------------------------------
(* The steps. *)

LEMMA BeginKeeps ==
    ASSUME WorkspaceInv, NEW c \in Calls,
           NEW op \in {"bootstrap", "additional", "select", "correct", "generate", "replace"},
           NEW u \in Users \cup {None},
           NEW at \in {"list", "create", "choose", "fetch", "authorize", "resolve"},
           NEW target \in Targets, Begin(c, op, u, at, target),
           op = "replace" => at = "fetch" /\ target.brand \in Suffixes,
           op = "additional" => target.tenant \in Users,
           op = "correct" \/ at = "authorize" => target \in WorkspacesOf(u),
           at = "resolve" => target.brand = None \/ target \in WorkspacesOf(u),
           op # "replace" => u \in Users
    PROVE  WorkspaceInv'
<1> DEFINE d == [Idle EXCEPT !.op = op, !.user = u, !.at = at, !.target = target]
<1>1. /\ d \in Requests
      /\ d.op = op /\ d.user = u /\ d.at = at /\ d.target = target /\ d.seen = None
  BY NoneIsNoName DEF Idle, Requests, Stages, Seen
<1>2. Advance(c, d) /\ UNCHANGED <<tables, metadata, claims>>
  BY DEF Begin
<1> HIDE DEF d
<1>3. Relies(d)
  BY <1>1 DEF Relies
<1> QED  BY <1>1, <1>2, <1>3, OnlyRequestMoves

\* The token's scope is a workspace of the customer.
LEMMA TokenScope ==
    ASSUME WorkspaceInv, NEW u \in Users, verifyAccessToken(u)
    PROVE  claims[u] \in WorkspacesOf(u) /\ claims[u] \in Scope
BY NoneIsNoName DEF WorkspaceInv, ScopesAreWorkspaces, verifyAccessToken, trustedScopeFromClaims

LEMMA BeginningsKeep ==
    ASSUME WorkspaceInv, NEW c \in Calls, NEW u \in Users,
           \/ BeginBootstrap(c, u)
           \/ \E t \in Users : BeginAdditional(c, u, t)
           \/ \E scope \in Asked : BeginSelect(c, u, scope)
           \/ BeginCorrect(c, u)
    PROVE  WorkspaceInv'
<1>1. CASE BeginBootstrap(c, u)
  BY <1>1, NoneIsNoName, BeginKeeps DEF BeginBootstrap
<1>2. ASSUME NEW t \in Users, BeginAdditional(c, u, t) PROVE WorkspaceInv'
  <2> DEFINE w == [NoScope EXCEPT !.tenant = t]
  <2>1. w \in Targets /\ w.tenant = t
    BY NoneIsNoName DEF Targets, NoScope, Names
  <2>2. Begin(c, "additional", u, "create", w)
    BY <1>2 DEF BeginAdditional
  <2> HIDE DEF w
  <2> QED  BY <2>1, <2>2, BeginKeeps
<1>3. ASSUME NEW scope \in Asked, BeginSelect(c, u, scope) PROVE WorkspaceInv'
  <2>1. scope \in Targets
    BY NoneIsNoName, NamesAreApart
  <2> QED  BY <1>3, <2>1, BeginKeeps DEF BeginSelect
<1>4. CASE BeginCorrect(c, u)
  <2>1. claims[u] \in WorkspacesOf(u) /\ claims[u] \in Targets
    BY <1>4, TokenScope, NoneIsNoName DEF BeginCorrect
  <2> QED  BY <1>4, <2>1, BeginKeeps DEF BeginCorrect, trustedScopeFromClaims
<1> QED  BY <1>1, <1>2, <1>3, <1>4

LEMMA BeginGenerationKeeps ==
    ASSUME WorkspaceInv, NEW c \in Calls, NEW u \in Users, NEW t \in Users, NEW p \in Suffixes,
           NEW b \in Names, BeginGeneration(c, u, [tenant |-> t, project |-> p, brand |-> b])
    PROVE  WorkspaceInv'
<1> DEFINE w == [tenant |-> t, project |-> p, brand |-> b]
<1>1. w \in Targets /\ w.tenant = t /\ w.project = p /\ w.brand = b
  BY NoneIsNoName DEF Targets, Names
<1>2. claims[u] \in WorkspacesOf(u) /\ claims[u] \in Scope
  BY TokenScope DEF BeginGeneration
<1>3. t = claims[u].tenant /\ p = claims[u].project /\ b \in {None, claims[u].brand}
  BY DEF BeginGeneration, ScopeMismatch, trustedScopeFromClaims
<1>4. b # None => w = claims[u]
  BY <1>2, <1>3 DEF Scope
<1>5. Begin(c, "generate", u, IF b = None THEN "resolve" ELSE "authorize", w)
  BY DEF BeginGeneration
<1> HIDE DEF w
<1>6. CASE b = None
  BY <1>1, <1>5, <1>6, BeginKeeps
<1>7. CASE b # None
  BY <1>1, <1>2, <1>4, <1>5, <1>7, BeginKeeps
<1> QED  BY <1>6, <1>7

LEMMA BeginReplaceKeeps ==
    ASSUME WorkspaceInv, NEW c \in Calls, NEW p \in Suffixes, NEW b \in Suffixes, BeginReplace(c, p, b)
    PROVE  WorkspaceInv'
<1> DEFINE w == [NoScope EXCEPT !.project = p, !.brand = b]
<1>1. w \in Targets /\ w.brand = b
  BY NoneIsNoName DEF Targets, NoScope, Names
<1>2. Begin(c, "replace", None, "fetch", w)
  BY DEF BeginReplace
<1> HIDE DEF w
<1> QED  BY <1>1, <1>2, BeginKeeps

\* The awaits that write nothing: what the request was, and what it becomes.
Reads(c) ==
    \/ List(c) \/ AdditionalRefused(c) \/ Select(c) \/ ReadMetadata(c)
    \/ ConfirmSelected(c) \/ FetchSelected(c) \/ FetchReplaced(c)
    \/ AuthorizeBrand(c) \/ ResolveContext(c) \/ CutOff(c)

LEMMA ReadsMove ==
    ASSUME WorkspaceInv, NEW c \in Calls, NEW call, call = calls[c]
    PROVE  /\ call \in Requests /\ Relies(call)
           /\ call.user \in Users \cup {None} /\ call.target \in Targets
BY DEF WorkspaceInv, WorkspaceTypeOK, Requests

LEMMA ListMoves ==
    ASSUME WorkspaceInv, NEW c \in Calls, NEW call, call = calls[c], List(c), ~End(c)
    PROVE  \E d \in Requests : Advance(c, d) /\ Relies(d)
<1>1. call \in Requests /\ Relies(call)
  BY ReadsMove
<1>2. call.op = "bootstrap" /\ call.user \in Users
  BY <1>1 DEF List, At, Relies
<1>3. CASE Advance(c, [call EXCEPT !.at = "create"])
  <2> DEFINE d == [call EXCEPT !.at = "create"]
  <2>1. /\ d \in Requests
        /\ d.op = call.op /\ d.user = call.user /\ d.at = "create"
        /\ d.target = call.target /\ d.seen = call.seen
    BY <1>1 DEF Requests, Stages
  <2>2. Advance(c, d)
    BY <1>3
  <2> HIDE DEF d
  <2>3. Relies(d)
    BY <1>2, <2>1 DEF Relies
  <2> QED  BY <2>1, <2>2, <2>3
<1>4. CASE \E w \in listWorkspacesForAuthUserId(call.user) : Provision(c, w)
  <2>1. PICK w \in WorkspacesOf(call.user) : Advance(c, [call EXCEPT !.at = "metadata", !.target = w])
    BY <1>4 DEF listWorkspacesForAuthUserId, Provision
  <2>2. w \in Targets
    BY NoneIsNoName DEF WorkspacesOf, WorkspacesIn
  <2> DEFINE d == [call EXCEPT !.at = "metadata", !.target = w]
  <2>3. /\ d \in Requests
        /\ d.op = call.op /\ d.user = call.user /\ d.at = "metadata"
        /\ d.target = w /\ d.seen = call.seen
    BY <1>1, <2>2 DEF Requests, Stages
  <2>4. Advance(c, d)
    BY <2>1
  <2> HIDE DEF d
  <2>5. Relies(d)
    BY <1>2, <2>1, <2>3 DEF Relies
  <2> QED  BY <2>3, <2>4, <2>5
<1> QED  BY <1>3, <1>4 DEF List

LEMMA SelectMoves ==
    ASSUME WorkspaceInv, NEW c \in Calls, NEW call, call = calls[c], Select(c), ~End(c)
    PROVE  \E d \in Requests : Advance(c, d) /\ Relies(d)
<1> DEFINE w == call.target
           d == [call EXCEPT !.at = "metadata", !.target = w]
<1>1. call \in Requests /\ Relies(call) /\ w \in Targets
  BY ReadsMove
<1>2. call.op = "select" /\ call.user \in Users /\ w \in WorkspacesOf(call.user) /\ Advance(c, d)
  BY <1>1 DEF Select, At, Relies, getAuthorizedWorkspaceSelection, Provision
<1> HIDE DEF w
<1>3. /\ d \in Requests
      /\ d.op = call.op /\ d.user = call.user /\ d.at = "metadata"
      /\ d.target = w /\ d.seen = call.seen
  BY <1>1 DEF Requests, Stages
<1> HIDE DEF d
<1>4. Relies(d)
  BY <1>2, <1>3 DEF Relies
<1> QED  BY <1>2, <1>3, <1>4

LEMMA ReadMetadataMoves ==
    ASSUME WorkspaceInv, NEW c \in Calls, NEW call, call = calls[c], ReadMetadata(c)
    PROVE  \E d \in Requests : Advance(c, d) /\ Relies(d)
<1> DEFINE x == metadata[call.user]
           d == [call EXCEPT !.at = "provision", !.seen = x]
<1>1. call \in Requests /\ Relies(call)
  BY ReadsMove
<1>2. /\ call.at = "metadata" /\ call.user \in Users /\ call.target \in WorkspacesOf(call.user)
      /\ call.op # "replace" /\ Advance(c, d)
  BY <1>1 DEF ReadMetadata, Relies
<1>3. x \in Scope \cup {NoScope}
  BY <1>2 DEF WorkspaceInv, WorkspaceTypeOK
<1> HIDE DEF x
<1>4. x \in Seen
  BY <1>3 DEF Seen
<1>5. /\ d \in Requests
      /\ d.op = call.op /\ d.user = call.user /\ d.at = "provision"
      /\ d.target = call.target /\ d.seen = x
  BY <1>1, <1>4 DEF Requests, Stages
<1> HIDE DEF d
<1>6. Relies(d)
  BY <1>1, <1>2, <1>3, <1>5 DEF Relies
<1> QED  BY <1>2, <1>5, <1>6

LEMMA ConfirmationMoves ==
    ASSUME WorkspaceInv, NEW c \in Calls, NEW call, call = calls[c],
           ConfirmSelected(c) \/ AuthorizeBrand(c), ~End(c)
    PROVE  \E d \in Requests : Advance(c, d) /\ Relies(d)
<1>1. call \in Requests /\ Relies(call)
  BY ReadsMove
<1>2. PICK at \in {"fetch", "resolve"} :
         /\ Advance(c, [call EXCEPT !.at = at])
         /\ at = "fetch" => call.op = "correct"
         /\ at = "resolve" => call.op = "generate" /\ call.at = "authorize"
  BY DEF ConfirmSelected, AuthorizeBrand, At
<1> DEFINE d == [call EXCEPT !.at = at]
<1>3. /\ d \in Requests
      /\ d.op = call.op /\ d.user = call.user /\ d.at = at
      /\ d.target = call.target /\ d.seen = call.seen
  BY <1>1 DEF Requests, Stages
<1>4. Advance(c, d)
  BY <1>2
<1> HIDE DEF d
<1>5. Relies(d)
  BY <1>1, <1>2, <1>3 DEF Relies
<1> QED  BY <1>3, <1>4, <1>5

LEMMA BrandRead ==
    ASSUME WorkspaceInv, NEW p, NEW b \in Names
    PROVE  /\ getByProjectAndBrand(p, b) \in Brand \cup {None}
           /\ b = None => getByProjectAndBrand(p, b) = None
BY DEF getByProjectAndBrand, WorkspaceInv, WorkspaceTypeOK, Names

LEMMA FetchMoves ==
    ASSUME WorkspaceInv, NEW c \in Calls, NEW call, call = calls[c],
           FetchSelected(c) \/ FetchReplaced(c), ~End(c)
    PROVE  \E d \in Requests : Advance(c, d) /\ Relies(d)
<1>1. call \in Requests /\ Relies(call) /\ call.target.brand \in Names
  BY ReadsMove DEF Targets
<1>2. PICK x \in Brand \cup {None} :
         /\ call.op \in {"correct", "replace"}
         /\ Advance(c, [call EXCEPT !.at = "upsert", !.seen = x])
  <2>1. CASE FetchSelected(c)
    BY <1>1, <2>1, BrandRead DEF FetchSelected, At
  <2>2. CASE FetchReplaced(c)
    <3>1. brands[call.target.brand] \in Brand \cup {None}
      BY <1>1, <2>2 DEF FetchReplaced, At, Relies, WorkspaceInv, WorkspaceTypeOK
    <3> QED  BY <2>2, <3>1 DEF FetchReplaced, At, getByBrandId
  <2> QED  BY <2>1, <2>2
<1>3. x \in Seen
  BY DEF Seen
<1> DEFINE d == [call EXCEPT !.at = "upsert", !.seen = x]
<1>4. /\ d \in Requests
      /\ d.op = call.op /\ d.user = call.user /\ d.at = "upsert"
      /\ d.target = call.target /\ d.seen = x
  BY <1>1, <1>3 DEF Requests, Stages
<1>5. Advance(c, d)
  BY <1>2
<1> HIDE DEF d
<1>6. Relies(d)
  BY <1>1, <1>2, <1>4 DEF Relies
<1> QED  BY <1>4, <1>5, <1>6

LEMMA ResolveMoves ==
    ASSUME WorkspaceInv, NEW c \in Calls, NEW call, call = calls[c], ResolveContext(c), ~End(c)
    PROVE  \E d \in Requests : Advance(c, d) /\ Relies(d)
<1> DEFINE record == getByProjectAndBrand(call.target.project, call.target.brand)
<1>1. /\ call \in Requests /\ Relies(call) /\ call.target.brand \in Names
      /\ call.op = "generate" /\ call.at = "resolve"
  BY ReadsMove DEF Targets, ResolveContext, At
<1>2. record \in Brand \cup {None} /\ (call.target.brand = None => record = None)
  BY <1>1, BrandRead
<1>3. PICK x \in {record, None} :
         /\ Advance(c, [call EXCEPT !.at = "generated", !.seen = x])
         /\ x # None => record # None /\ record.status = "approved"
  BY DEF ResolveContext, compileBrandContext
<1> HIDE DEF record
<1>4. x \in Seen
  BY <1>2 DEF Seen
<1> DEFINE d == [call EXCEPT !.at = "generated", !.seen = x]
<1>5. /\ d \in Requests
      /\ d.op = call.op /\ d.user = call.user /\ d.at = "generated"
      /\ d.target = call.target /\ d.seen = x
  BY <1>1, <1>4 DEF Requests, Stages
<1>6. Advance(c, d)
  BY <1>3
<1> HIDE DEF d
<1>7. Relies(d)
  BY <1>1, <1>2, <1>3, <1>5 DEF Relies
<1> QED  BY <1>5, <1>6, <1>7

LEMMA ReadsKeep ==
    ASSUME WorkspaceInv, NEW c \in Calls, Reads(c)
    PROVE  WorkspaceInv'
<1>1. UNCHANGED <<tables, metadata, claims>>
  BY DEF Reads, List, AdditionalRefused, Select, ReadMetadata, ConfirmSelected, FetchSelected,
     FetchReplaced, AuthorizeBrand, ResolveContext, CutOff
<1>2. CASE End(c)
  BY <1>1, <1>2, EndKeeps
<1>3. CASE ~End(c)
  <2>1. \E d \in Requests : Advance(c, d) /\ Relies(d)
    <3>1. CASE AdditionalRefused(c) \/ CutOff(c)
      BY <1>3, <3>1 DEF AdditionalRefused, CutOff
    <3> QED  BY <1>3, <3>1, ListMoves, SelectMoves, ReadMetadataMoves, ConfirmationMoves,
                FetchMoves, ResolveMoves DEF Reads
  <2> QED  BY <1>1, <2>1, OnlyRequestMoves
<1> QED  BY <1>2, <1>3

\* The transactions that add rows, and the one that rewrites a brand brain.
LEMMA Provisioned ==
    ASSUME NEW call \in Requests, call.user \in Users, call.op \in {"bootstrap", "additional"},
           NEW w \in Targets, w \in WorkspacesOf(call.user)', w.tenant \in Users,
           NEW d, d = [call EXCEPT !.at = "metadata", !.target = w]
    PROVE  d \in Requests /\ Relies(d)'
<1>1. /\ d \in Requests
      /\ d.op = call.op /\ d.user = call.user /\ d.at = "metadata"
      /\ d.target = w /\ d.seen = call.seen
  BY DEF Requests, Stages
<1> QED  BY <1>1 DEF Relies

LEMMA BootstrapKeeps ==
    ASSUME WorkspaceInv, NEW c \in Calls, NEW call, call = calls[c], BootstrapTransaction(c)
    PROVE  /\ WorkspaceInv' /\ RowsKept
           /\ \A b \in Suffixes : brands[b] # None => brands'[b] = brands[b]
<1> DEFINE u == call.user
           ids == [tenant |-> u, project |-> u, brand |-> u]
           owned == Keeping(roles[u], u, "owner")
<1>1. /\ call \in Requests /\ u \in Users /\ u \in Suffixes /\ call.op = "bootstrap"
      /\ UNCHANGED <<metadata, claims>>
  BY NoneIsNoName DEF WorkspaceInv, WorkspaceTypeOK, BootstrapTransaction, At, Relies
<1>2. CASE End(c) /\ UNCHANGED tables
  BY <1>1, <1>2, EndKeeps DEF RowsKept, tables
<1>3. CASE /\ ids \in WorkspacesOf(u)' /\ Provision(c, ids)
           /\ roles' = [roles EXCEPT ![u] = owned]
           /\ projects' = Keeping(projects, u, u)
           /\ brands' = Keeping(brands, u, NewBrand(u))
  <2>1. ids \in Targets /\ ids.tenant \in Users
    BY <1>1, NoneIsNoName DEF Targets, Names
  <2> DEFINE d == [call EXCEPT !.at = "metadata", !.target = ids]
  <2>2. Advance(c, d)
    BY <1>3 DEF Provision
  <2>3. d \in Requests /\ Relies(d)'
    <3> HIDE DEF ids
    <3> QED  BY <1>1, <1>3, <2>1, Provisioned
  <2>4. NewBrand(u) \in Brand
    BY <1>1, NamesAreApart DEF NewBrand, Brand, Statuses
  <2> HIDE DEF d, ids, owned, u
  <2>5. /\ owned \in [Users -> {"owner", "member", None}]
        /\ \A t \in Users : roles[u][t] # None => owned[t] = roles[u][t]
    <3>1. roles[u] \in [Users -> {"owner", "member", None}]
      BY <1>1 DEF WorkspaceInv, WorkspaceTypeOK
    <3> QED  BY <1>1, <3>1 DEF owned, Keeping
  <2>6. /\ projects' \in [Suffixes -> Users \cup {None}]
        /\ \A k \in Suffixes : projects[k] # None => projects'[k] = projects[k]
    <3>1. projects \in [Suffixes -> Users \cup {None}]
      BY DEF WorkspaceInv, WorkspaceTypeOK
    <3> QED  BY <1>1, <1>3, <3>1 DEF Keeping
  <2>7. /\ brands' \in [Suffixes -> Brand \cup {None}]
        /\ \A k \in Suffixes : brands[k] # None => brands'[k] = brands[k]
    <3>1. brands \in [Suffixes -> Brand \cup {None}]
      BY DEF WorkspaceInv, WorkspaceTypeOK
    <3> QED  BY <1>1, <1>3, <2>4, <3>1 DEF Keeping
  <2>8. /\ roles' \in [Users -> [Users -> {"owner", "member", None}]]
        /\ \A s, t \in Users : roles[s][t] # None => roles'[s][t] # None
    BY <1>1, <1>3, <2>5 DEF WorkspaceInv, WorkspaceTypeOK
  <2>9. RowsKept
    BY <2>6, <2>7, <2>8 DEF RowsKept
  <2> QED  BY <1>1, <2>2, <2>3, <2>6, <2>7, <2>8, <2>9, RowsAdded
<1>4. \/ End(c) /\ UNCHANGED tables
      \/ /\ ids \in WorkspacesOf(u)' /\ Provision(c, ids)
         /\ roles' = [roles EXCEPT ![u] = owned]
         /\ projects' = Keeping(projects, u, u)
         /\ brands' = Keeping(brands, u, NewBrand(u))
  BY DEF BootstrapTransaction, WorkspacesOf
<1> QED  BY <1>2, <1>3, <1>4 DEF tables

LEMMA AdditionalKeeps ==
    ASSUME WorkspaceInv, NEW c \in Calls, NEW call, call = calls[c], NEW s \in Extra,
           AdditionalTransaction(c, s)
    PROVE  /\ WorkspaceInv' /\ RowsKept
           /\ \A b \in Suffixes : brands[b] # None => brands'[b] = brands[b]
<1> DEFINE t == call.target.tenant
           ids == [tenant |-> t, project |-> s, brand |-> s]
           d == [call EXCEPT !.at = "metadata", !.target = ids]
<1>1. /\ call \in Requests /\ call.user \in Users /\ call.op = "additional" /\ t \in Users
      /\ UNCHANGED <<roles, metadata, claims>> /\ s \in Suffixes
      /\ projects[s] = None /\ brands[s] = None /\ roles[t][call.user] = "owner"
      /\ projects' = [projects EXCEPT ![s] = t] /\ brands' = [brands EXCEPT ![s] = NewBrand(s)]
      /\ Advance(c, d)
  BY DEF WorkspaceInv, WorkspaceTypeOK, AdditionalTransaction, At, Relies, Suffixes, Provision
<1>2. NewBrand(s) \in Brand /\ NewBrand(s).project = s /\ NewBrand(s) # None
  BY <1>1, NoneIsNoRow, NamesAreApart DEF NewBrand, Brand, Statuses
<1>3. ids \in Targets /\ ids \in Scope /\ ids.tenant \in Users
  BY <1>1, NoneIsNoName DEF Targets, Names, Scope, Suffixes
<1>4. /\ roles' \in [Users -> [Users -> {"owner", "member", None}]]
      /\ projects' \in [Suffixes -> Users \cup {None}]
      /\ brands' \in [Suffixes -> Brand \cup {None}]
  BY <1>1, <1>2 DEF WorkspaceInv, WorkspaceTypeOK
<1>5. ids \in WorkspacesOf(call.user)'
  <2>1. projects'[s] = t /\ brands'[s] = NewBrand(s) /\ roles'[t][call.user] # None
    BY <1>1, NoneIsNoRow DEF WorkspaceInv, WorkspaceTypeOK
  <2>2. ids.tenant = t /\ ids.project = s /\ ids.brand = s
    OBVIOUS
  <2> HIDE DEF t, ids
  <2> QED  BY <1>2, <1>3, <2>1, <2>2 DEF WorkspacesOf, WorkspacesIn
<1>6. d \in Requests /\ Relies(d)'
  <2> HIDE DEF ids
  <2> QED  BY <1>1, <1>3, <1>5, Provisioned
<1>7. RowsKept /\ \A b \in Suffixes : brands[b] # None => brands'[b] = brands[b]
  BY <1>1 DEF RowsKept, WorkspaceInv, WorkspaceTypeOK
<1> HIDE DEF d
<1> QED  BY <1>1, <1>4, <1>6, <1>7, RowsAdded

LEMMA UpsertKeeps ==
    ASSUME WorkspaceInv, NEW c \in Calls, Upsert(c)
    PROVE  /\ WorkspaceInv' /\ RowsKept
           /\ \A b \in Suffixes : brands'[b] # brands[b] => b = calls[c].target.brand
<1> DEFINE b == calls[c].target.brand
<1>1. Advance(c, Idle) /\ UNCHANGED <<roles, projects, metadata, claims>>
  BY DEF Upsert, End
<1>2. \/ UNCHANGED brands
      \/ \E record \in Brand : Accepts(b, record) /\ brands' = [brands EXCEPT ![b] = record]
  BY DEF Upsert
<1>3. brands' \in [Suffixes -> Brand \cup {None}]
  BY <1>2 DEF WorkspaceInv, WorkspaceTypeOK
<1>4. RowsKept
  BY <1>1, <1>2, NoneIsNoRow DEF RowsKept, Accepts, WorkspaceInv, WorkspaceTypeOK
<1>5. Relies(Idle)' /\ Idle \in Requests
  BY IdleRelies DEF Relies, Idle
<1>6. /\ roles' \in [Users -> [Users -> {"owner", "member", None}]]
      /\ projects' \in [Suffixes -> Users \cup {None}]
  BY <1>1 DEF WorkspaceInv, WorkspaceTypeOK
<1>7. \A k \in Suffixes : brands'[k] # brands[k] => k = b
  BY <1>2 DEF WorkspaceInv, WorkspaceTypeOK
<1> QED  BY <1>1, <1>3, <1>4, <1>5, <1>6, <1>7, RowsAdded

\* The three fields of the scope are all there is to the trusted metadata.
LEMMA WholeScopeIsLaidOver ==
    ASSUME NEW existing \in Scope \cup {NoScope}, NEW scope \in Scope
    PROVE  trustedAppMetadata(existing, scope) = scope
BY DEF trustedAppMetadata, Scope, NoScope

LEMMA WriteMetadataKeeps ==
    ASSUME WorkspaceInv, NEW c \in Calls, WriteMetadata(c)
    PROVE  WorkspaceInv'
<1>1. PICK call \in Requests : call = calls[c] /\ Relies(call)
  BY DEF WorkspaceInv, WorkspaceTypeOK
<1>2. /\ call.user \in Users /\ call.seen \in Scope \cup {NoScope}
      /\ call.target \in WorkspacesOf(call.user) /\ call.target \in Scope
  BY <1>1 DEF WriteMetadata, Relies, WorkspacesOf, WorkspacesIn
<1>3. metadata' = [metadata EXCEPT ![call.user] = call.target]
  BY <1>1, <1>2, WholeScopeIsLaidOver DEF WriteMetadata
<1>4. WorkspacesGrow /\ UNCHANGED <<tables, claims>>
  BY SameTables DEF WriteMetadata
<1>5. metadata' \in [Users -> Scope \cup {NoScope}]
  BY <1>2, <1>3 DEF WorkspaceInv, WorkspaceTypeOK
<1>6. ScopesAreWorkspaces'
  <2> SUFFICES ASSUME NEW u \in Users
               PROVE  {metadata'[u], claims'[u]} \subseteq {NoScope} \cup WorkspacesOf(u)'
    BY DEF ScopesAreWorkspaces
  <2>1. {metadata[u], claims[u]} \subseteq {NoScope} \cup WorkspacesOf(u)'
    BY <1>4 DEF WorkspacesGrow, WorkspaceInv, ScopesAreWorkspaces
  <2>2. CASE u = call.user
    <3>1. metadata'[u] = call.target
      BY <1>3, <2>2 DEF WorkspaceInv, WorkspaceTypeOK
    <3>2. call.target \in WorkspacesOf(u)'
      BY <1>2, <1>4, <2>2 DEF WorkspacesGrow
    <3> QED  BY <1>4, <2>1, <3>1, <3>2
  <2>3. CASE u # call.user
    BY <1>3, <1>4, <2>1, <2>3 DEF WorkspaceInv, WorkspaceTypeOK
  <2> QED  BY <2>2, <2>3
<1>7. Relies(Idle)' /\ Idle \in Requests /\ Advance(c, Idle)
  BY IdleRelies DEF Relies, Idle, WriteMetadata, End
<1>8. calls' \in [Calls -> Requests] /\ \A b \in Calls : Relies(calls[b])'
  BY <1>4, <1>7, RequestMoves
<1> QED  BY <1>4, <1>5, <1>6, <1>8 DEF WorkspaceInv, WorkspaceTypeOK, tables

LEMMA RefreshKeeps ==
    ASSUME WorkspaceInv, NEW u \in Users, RefreshSession(u)
    PROVE  WorkspaceInv'
<1>1. UNCHANGED <<tables, metadata, calls>> /\ claims' = [claims EXCEPT ![u] = metadata[u]]
  BY DEF RefreshSession
<1>2. claims' \in [Users -> Scope \cup {NoScope}]
  BY <1>1 DEF WorkspaceInv, WorkspaceTypeOK
<1>3. \A v \in Users : WorkspacesOf(v)' = WorkspacesOf(v)
  BY <1>1 DEF WorkspacesOf, tables
<1>4. ScopesAreWorkspaces'
  BY <1>1, <1>3 DEF WorkspaceInv, WorkspaceTypeOK, ScopesAreWorkspaces
<1>5. \A c \in Calls : Relies(calls[c])'
  BY <1>1 DEF WorkspaceInv, Relies, WorkspacesOf, tables
<1> QED  BY <1>1, <1>2, <1>4, <1>5 DEF WorkspaceInv, WorkspaceTypeOK, tables

LEMMA AddMemberKeeps ==
    ASSUME WorkspaceInv, NEW t \in Users, NEW u \in Users, AddMember(t, u)
    PROVE  WorkspaceInv' /\ UNCHANGED brands
<1>1. /\ UNCHANGED <<projects, brands, metadata, claims, calls>>
      /\ roles' = [roles EXCEPT ![t][u] = "member"]
  BY DEF AddMember
<1>2. roles' \in [Users -> [Users -> {"owner", "member", None}]]
  BY <1>1 DEF WorkspaceInv, WorkspaceTypeOK
<1>3. RowsKept
  <2>1. \A s, v \in Users : roles[s][v] # None => roles'[s][v] # None
    BY <1>1, NoneIsNoRow DEF WorkspaceInv, WorkspaceTypeOK
  <2> QED  BY <1>1, <2>1 DEF RowsKept
<1>4. WorkspacesGrow
  BY <1>3, RowsKeptGrow
<1>5. ScopesAreWorkspaces'
  BY <1>1, <1>4 DEF WorkspaceInv, ScopesAreWorkspaces, WorkspacesGrow
<1>6. ASSUME NEW c \in Calls PROVE Relies(calls[c])'
  <2>1. PICK call \in Requests : call = calls[c] /\ Relies(call)
    BY DEF WorkspaceInv, WorkspaceTypeOK
  <2>2. Relies(call)'
    BY <1>4, <2>1, ReliesStays
  <2> QED  BY <1>1, <2>1, <2>2 DEF Relies
<1> QED  BY <1>1, <1>2, <1>5, <1>6 DEF WorkspaceInv, WorkspaceTypeOK

LEMMA NextKeeps == WorkspaceInv /\ [Next]_vars => WorkspaceInv'
<1> SUFFICES ASSUME WorkspaceInv, [Next]_vars PROVE WorkspaceInv'
  OBVIOUS
<1>1. CASE UNCHANGED vars
  BY <1>1 DEF WorkspaceInv, WorkspaceTypeOK, ScopesAreWorkspaces, Relies, WorkspacesOf, vars, tables
<1>2. ASSUME NEW c \in Calls, NEW u \in Users,
             \/ BeginBootstrap(c, u)
             \/ \E t \in Users : BeginAdditional(c, u, t)
             \/ \E scope \in Asked : BeginSelect(c, u, scope)
             \/ BeginCorrect(c, u)
      PROVE  WorkspaceInv'
  BY <1>2, BeginningsKeep
<1>3. ASSUME NEW c \in Calls, NEW u \in Users, NEW t \in Users, NEW p \in Suffixes, NEW b \in Names,
             BeginGeneration(c, u, [tenant |-> t, project |-> p, brand |-> b])
      PROVE  WorkspaceInv'
  BY <1>3, BeginGenerationKeeps
<1>4. ASSUME NEW c \in Calls, NEW p \in Suffixes, NEW b \in Suffixes, BeginReplace(c, p, b)
      PROVE  WorkspaceInv'
  BY <1>4, BeginReplaceKeeps
<1>5. ASSUME NEW c \in Calls, Reads(c) PROVE WorkspaceInv'
  BY <1>5, ReadsKeep
<1>6. ASSUME NEW c \in Calls,
             \/ BootstrapTransaction(c) \/ WriteMetadata(c) \/ Upsert(c)
             \/ \E s \in Extra : AdditionalTransaction(c, s)
      PROVE  WorkspaceInv'
  BY <1>6, BootstrapKeeps, WriteMetadataKeeps, UpsertKeeps, AdditionalKeeps
<1>7. ASSUME NEW u \in Users, RefreshSession(u) \/ \E t \in Users : AddMember(t, u)
      PROVE  WorkspaceInv'
  BY <1>7, RefreshKeeps, AddMemberKeeps
<1> QED  BY <1>1, <1>2, <1>3, <1>4, <1>5, <1>6, <1>7 DEF Next, Reads

\* The steps that change a brand brain.
LEMMA BrandsChange == WorkspaceInv /\ [Next]_vars => \A b \in Suffixes : BrandKept(b)
<1> SUFFICES ASSUME WorkspaceInv, [Next]_vars, NEW b \in Suffixes PROVE BrandKept(b)
  OBVIOUS
<1>1. CASE UNCHANGED brands
  BY <1>1 DEF BrandKept
<1>2. ASSUME NEW c \in Calls, BootstrapTransaction(c) \/ \E s \in Extra : AdditionalTransaction(c, s)
      PROVE  BrandKept(b)
  BY <1>2, BootstrapKeeps, AdditionalKeeps DEF BrandKept
<1>3. ASSUME NEW c \in Calls, Upsert(c) PROVE BrandKept(b)
  <2>1. RowsKept /\ (brands'[b] # brands[b] => calls[c].target.brand = b)
    BY <1>3, UpsertKeeps
  <2>2. At(c, {"correct", "replace"}, "upsert") /\ calls'[c] = Idle
    BY <1>3 DEF Upsert, End, Advance, WorkspaceInv, WorkspaceTypeOK
  <2>3. calls[c].op = "correct" => calls[c].target \in WorkspacesOf(calls[c].user)
    BY DEF WorkspaceInv, Relies
  <2> QED  BY <2>1, <2>2, <2>3 DEF BrandKept, OwnCommand, RowsKept
<1>4. CASE ~ \E c \in Calls : \/ BootstrapTransaction(c) \/ Upsert(c)
                              \/ \E s \in Extra : AdditionalTransaction(c, s)
  <2>1. ASSUME NEW c \in Calls, NEW op, NEW u, NEW at, NEW target, Begin(c, op, u, at, target)
        PROVE  UNCHANGED brands
    BY <2>1 DEF Begin, tables
  <2>2. ASSUME NEW c \in Calls, NEW u \in Users, NEW t, NEW w,
               \/ BeginBootstrap(c, u) \/ BeginAdditional(c, u, t) \/ BeginSelect(c, u, w)
               \/ BeginCorrect(c, u) \/ BeginGeneration(c, u, w)
        PROVE  UNCHANGED brands
    BY <2>1, <2>2 DEF BeginBootstrap, BeginAdditional, BeginSelect, BeginCorrect, BeginGeneration
  <2>3. ASSUME NEW c \in Calls, NEW p, NEW k, BeginReplace(c, p, k) PROVE UNCHANGED brands
    BY <2>1, <2>3 DEF BeginReplace
  <2>4. ASSUME NEW c \in Calls, Reads(c) \/ WriteMetadata(c) PROVE UNCHANGED brands
    BY <2>4 DEF tables, Reads, List, AdditionalRefused, Select, ReadMetadata, WriteMetadata,
       ConfirmSelected, FetchSelected, FetchReplaced, AuthorizeBrand, ResolveContext, CutOff
  <2>5. ASSUME NEW u, NEW t, RefreshSession(u) \/ AddMember(t, u) PROVE UNCHANGED brands
    BY <2>5 DEF tables, RefreshSession, AddMember
  <2>6. UNCHANGED vars => UNCHANGED brands
    BY DEF vars
  <2>7. UNCHANGED brands
    BY <1>4, <2>2, <2>3, <2>4, <2>5, <2>6 DEF Next, Reads
  <2> QED  BY <1>1, <2>7
<1> QED  BY <1>2, <1>3, <1>4

-----------------------------------------------------------------------------
(* The theorems. *)

LEMMA WorkspaceInvariant == Spec => []WorkspaceInv
<1> QED  BY WorkspaceInitially, NextKeeps, PTL DEF Spec

\* Roles, projects, brand brains, scopes, tokens and requests keep their types:
\* no brand brain leaves the schema's bound, and no request is given a scope that
\* is neither whole nor none.
THEOREM WorkspaceTypeCorrect == Spec => []WorkspaceTypeOK
<1>1. WorkspaceInv => WorkspaceTypeOK
  BY DEF WorkspaceInv
<1> QED  BY <1>1, WorkspaceInvariant, PTL

\* The scope in a customer's metadata, and the one in the token, old or new, is
\* none or one whole workspace of a tenant the customer belongs to, however the
\* requests that select, bootstrap and add workspaces overlap.
THEOREM ScopesStayWorkspaces == Spec => []ScopesAreWorkspaces
<1>1. WorkspaceInv => ScopesAreWorkspaces
  BY DEF WorkspaceInv
<1> QED  BY <1>1, WorkspaceInvariant, PTL

\* A prompt is given the brand brain of a workspace of the customer who asked, and
\* only as approved, whatever happened between the boundary and the operation.
THEOREM ContextStaysOwnAndApproved == Spec => []ContextIsOwnAndApproved
<1>1. WorkspaceInv => ContextIsOwnAndApproved
  BY DEF WorkspaceInv, Relies, ContextIsOwnAndApproved
<1> QED  BY <1>1, WorkspaceInvariant, PTL

\* A brand brain that exists stays in its project and is changed by a correction
\* of a customer whose workspace it is, or by a replacement that names it, alone.
THEOREM BrandsStayOwn == Spec => BrandsChangeByOwnCommands
<1>1. WorkspaceInv /\ [Next]_vars => [\A b \in Suffixes : BrandKept(b)]_vars
  BY BrandsChange
<1> QED  BY <1>1, WorkspaceInvariant, PTL DEF Spec, BrandsChangeByOwnCommands

=============================================================================
