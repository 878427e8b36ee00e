--------------------------- MODULE CustomerWorkspace ---------------------------
(* What a signed-in customer may work on: the tenants, projects and brand     *)
(* brains in the database, the trusted scope the server writes into the       *)
(* app_metadata of the customer's Auth account, the claims of the access      *)
(* token that carries it, and the requests that establish, select, correct    *)
(* and use a workspace beside an administrator who replaces brand brains.     *)
(*                                                                            *)
(* A request is a record that advances from one await to the next; it may be  *)
(* cut off at any of them (a failed call, a lost answer, a crash).  The       *)
(* identifiers tenant_<x>, project_<x> and brand_<x> of                       *)
(* defaultWorkspaceIds and additionalWorkspaceIds are all named by x.  A      *)
(* transaction is one step.  The three reads of authorizeTenant and the       *)
(* project's are one step too: no code changes or deletes what they read.     *)
(* What a brand brain says is left out, its version stands for it.            *)
EXTENDS Naturals, FiniteSets

CONSTANTS
    Users,       \* customers, and the suffixes of their default workspaces
    Extra,       \* the suffixes randomUUID has in store
    Calls,       \* requests under way at once
    Members,     \* <<tenant, user>>: member rows an operator may insert
    Asked,       \* the scopes customers ask to select
    Replaced,    \* <<project, brand>>: what the administrator replaces
    MaxVersion,  \* the bound of the schema, 1000000 in the code
    MaxRequests, \* how many requests are made
    None

Scope == [tenant : Users, project : Users \cup Extra, brand : Users \cup Extra]

ASSUME NamesAreApart ==
    /\ IsFiniteSet(Users \cup Extra) /\ Users \cap Extra = {}
    /\ None \notin Users \cup Extra
    /\ Members \subseteq Users \X Users /\ Asked \subseteq Scope
    /\ Replaced \subseteq (Users \cup Extra) \X (Users \cup Extra)
    /\ MaxVersion \in Nat \ {0} /\ MaxRequests \in Nat

VARIABLES
    roles,     \* [tenant][user]: the role of tenant_memberships, or None;
               \* a row refers to a tenant and to a profile that are there
    projects,  \* [project]: its tenant, or None
    brands,    \* [brand]: its row, or None
    metadata,  \* [user]: the scope in app_metadata
    claims,    \* [user]: the scope in the access token the customer holds
    calls,
    requests   \* how many were made

tables == <<roles, projects, brands>>
vars == <<roles, projects, brands, metadata, claims, calls, requests>>

Suffixes == Users \cup Extra
Names == Suffixes \cup {None}
Statuses == {"draft", "approved", "archived"}
Brand == [project : Suffixes, version : 1 .. MaxVersion, status : Statuses]
NoScope == [tenant |-> None, project |-> None, brand |-> None]

\* A row that is not there is no row, and no role.
ASSUME NoneIsNoRow == None \notin Brand \cup {"owner", "member"}

Idle == [op |-> "none", user |-> None, at |-> "idle", target |-> NoScope, seen |-> None]

\* WORKSPACE_SELECT: the four tables joined.
WorkspacesIn(u, role, project, brand) ==
    {w \in Scope : /\ role[w.tenant][u] # None
                   /\ project[w.project] = w.tenant
                   /\ brand[w.brand] # None
                   /\ brand[w.brand].project = w.project}

WorkspacesOf(u) == WorkspacesIn(u, roles, projects, brands)

listWorkspacesForAuthUserId(u) ==
    {w \in WorkspacesOf(u) : brands[w.brand].status \in {"approved", "draft"}}

getAuthorizedWorkspaceSelection(u, scope) ==
    scope \in WorkspacesOf(u) /\ brands[scope.brand].status = "approved"

getByBrandId(b) == brands[b]

getByProjectAndBrand(p, b) ==
    IF b # None /\ brands[b] # None /\ brands[b].project = p THEN brands[b] ELSE None

-----------------------------------------------------------------------------
(* Requests *)

Advance(c, call) == calls' = [calls EXCEPT ![c] = call]
End(c) == Advance(c, Idle)
At(c, op, at) == calls[c].op \in op /\ calls[c].at = at

Init ==
    /\ roles = [t \in Users |-> [u \in Users |-> None]]
    /\ projects = [p \in Suffixes |-> None]
    /\ brands = [b \in Suffixes |-> None]
    /\ metadata = [u \in Users |-> NoScope]
    /\ claims = [u \in Users |-> NoScope]
    /\ calls = [c \in Calls |-> Idle]
    /\ requests = 0

Begin(c, op, u, at, target) ==
    /\ calls[c] = Idle
    /\ requests < MaxRequests /\ requests' = requests + 1
    /\ Advance(c, [Idle EXCEPT !.op = op, !.user = u, !.at = at, !.target = target])
    /\ UNCHANGED <<tables, metadata, claims>>

\* actorForRequest: an identity token is enough, whatever scope it carries.
BeginBootstrap(c, u) ==
    Begin(c, "bootstrap", u, "list", NoScope)
BeginAdditional(c, u, t) ==
    Begin(c, "additional", u, "create", [NoScope EXCEPT !.tenant = t])
BeginSelect(c, u, scope) ==
    Begin(c, "select", u, "choose", scope)

\* A token that is not verified, or carries no whole scope, is refused.
trustedScopeFromClaims(u) == claims[u]
verifyAccessToken(u) == trustedScopeFromClaims(u) \in Scope

\* scopedActorForRequest
BeginCorrect(c, u) ==
    /\ verifyAccessToken(u)
    /\ Begin(c, "correct", u, "choose", trustedScopeFromClaims(u))

\* scopeMismatch: the scope the body asks for is compared, field by field
\* where the body has one, with the scope of the token.
ScopeMismatch(trusted, asked) ==
    \/ asked.tenant # trusted.tenant
    \/ asked.project # trusted.project
    \/ asked.brand \notin {None, trusted.brand}

\* Owners and members may both create generations.
roleAllows(role) == role \in {"owner", "member"}

getTenantMembership(t, u) == roles[t][u]
getProjectById(p) == projects[p]

authorizeTenant(u, t) == roleAllows(getTenantMembership(t, u))
authorizeProject(u, t, p) == authorizeTenant(u, t) /\ getProjectById(p) = t

\* createCustomerGenerationBoundary: the token is verified and the tenant, its
\* member and the project are found for what the body asks.
BeginGeneration(c, u, asked) ==
    /\ verifyAccessToken(u)
    /\ ~ScopeMismatch(trustedScopeFromClaims(u), asked)
    /\ authorizeProject(u, asked.tenant, asked.project)
    /\ Begin(c, "generate", u, IF asked.brand = None THEN "resolve" ELSE "authorize", asked)

\* PUT /_admin/brand-brains/:brandId
BeginReplace(c, p, b) ==
    Begin(c, "replace", None, "fetch", [NoScope EXCEPT !.project = p, !.brand = b])

-----------------------------------------------------------------------------
(* CustomerWorkspaceService: bootstrap, additional, select *)

\* The workspace a request ends up with is made the customer's trusted scope.
Provision(c, w) == Advance(c, [calls[c] EXCEPT !.at = "metadata", !.target = w])

\* bootstrapWorkspace lists what there is: one workspace is provisioned again,
\* none is created, and of several the customer has to select.
List(c) ==
    /\ At(c, {"bootstrap"}, "list")
    /\ LET existing == listWorkspacesForAuthUserId(calls[c].user)
       IN  \/ /\ existing = {}
              /\ Advance(c, [calls[c] EXCEPT !.at = "create"])
           \/ /\ Cardinality(existing) = 1
              /\ \E w \in existing : Provision(c, w)
           \/ /\ Cardinality(existing) > 1
              /\ End(c)
    /\ UNCHANGED <<tables, metadata, claims, requests>>

\* Mutant: ON CONFLICT DO UPDATE.
Keeping_Overwrites(table, key, row) == [table EXCEPT ![key] = row]

\* INSERT ... ON CONFLICT DO NOTHING
Keeping(table, key, row) == IF table[key] = None THEN [table EXCEPT ![key] = row] ELSE table

NewBrand(p) == [project |-> p, version |-> 1, status |-> "approved"]

\* The transaction of the repository's bootstrapWorkspace.  A row that is
\* there is kept; the workspace is read back without regard to the brand's
\* status, and where the brand belongs elsewhere the transaction is undone.
BootstrapTransaction(c) ==
    /\ At(c, {"bootstrap"}, "create")
    /\ LET u == calls[c].user
           owned == Keeping(roles[u], u, "owner")
           role == [roles EXCEPT ![u] = owned]
           project == Keeping(projects, u, u)
           brand == Keeping(brands, u, NewBrand(u))
           ids == [tenant |-> u, project |-> u, brand |-> u]
       IN  \/ /\ ids \in WorkspacesIn(u, role, project, brand)
              /\ roles' = role /\ projects' = project /\ brands' = brand
              /\ Provision(c, ids)
           \/ /\ ids \notin WorkspacesIn(u, role, project, brand)
              /\ End(c)
              /\ UNCHANGED tables
    /\ UNCHANGED <<metadata, claims, requests>>

\* createAdditionalWorkspace: an owner gets a project and a brand of new names.
AdditionalTransaction(c, s) ==
    /\ At(c, {"additional"}, "create")
    /\ projects[s] = None /\ brands[s] = None
    /\ LET t == calls[c].target.tenant
       IN  /\ roles[t][calls[c].user] = "owner"
           /\ projects' = [projects EXCEPT ![s] = t]
           /\ brands' = [brands EXCEPT ![s] = NewBrand(s)]
           /\ Provision(c, [tenant |-> t, project |-> s, brand |-> s])
    /\ UNCHANGED <<roles, metadata, claims, requests>>

AdditionalRefused(c) ==
    /\ At(c, {"additional"}, "create")
    /\ roles[calls[c].target.tenant][calls[c].user] # "owner"
    /\ End(c)
    /\ UNCHANGED <<tables, metadata, claims, requests>>

\* selectWorkspace
Select(c) ==
    /\ At(c, {"select"}, "choose")
    /\ IF getAuthorizedWorkspaceSelection(calls[c].user, calls[c].target)
         THEN Provision(c, calls[c].target)
         ELSE End(c)
    /\ UNCHANGED <<tables, metadata, claims, requests>>

(* CustomerScopeProvisioner *)

\* getUserById
ReadMetadata(c) ==
    /\ calls[c].at = "metadata"
    /\ Advance(c, [calls[c] EXCEPT !.at = "provision", !.seen = metadata[calls[c].user]])
    /\ UNCHANGED <<tables, metadata, claims, requests>>

\* Mutant: what the metadata has is kept where it has something.
trustedAppMetadata_KeepsExisting(existing, scope) ==
    [field \in DOMAIN existing |->
        IF field = "brand" /\ existing[field] # None THEN existing[field] ELSE scope[field]]

\* The three fields of the scope are laid over the metadata that was read.
trustedAppMetadata(existing, scope) ==
    [existing EXCEPT !.tenant = scope.tenant, !.project = scope.project, !.brand = scope.brand]

\* updateUserById
WriteMetadata(c) ==
    /\ calls[c].at = "provision"
    /\ metadata' = [metadata EXCEPT
                      ![calls[c].user] = trustedAppMetadata(calls[c].seen, calls[c].target)]
    /\ End(c)
    /\ UNCHANGED <<tables, claims, requests>>

-----------------------------------------------------------------------------
(* Brand brains: a customer's correction and an administrator's replacement *)

\* correctSelectedBrandBrain looks the scope of the token up anew.
ConfirmSelected(c) ==
    /\ At(c, {"correct"}, "choose")
    /\ IF getAuthorizedWorkspaceSelection(calls[c].user, calls[c].target)
         THEN Advance(c, [calls[c] EXCEPT !.at = "fetch"])
         ELSE End(c)
    /\ UNCHANGED <<tables, metadata, claims, requests>>

FetchSelected(c) ==
    /\ At(c, {"correct"}, "fetch")
    /\ LET existing == getByProjectAndBrand(calls[c].target.project, calls[c].target.brand)
       IN  IF existing = None
             THEN End(c)
             ELSE Advance(c, [calls[c] EXCEPT !.at = "upsert", !.seen = existing])
    /\ UNCHANGED <<tables, metadata, claims, requests>>

\* The administrator's route reads by the brand alone.
FetchReplaced(c) ==
    /\ At(c, {"replace"}, "fetch")
    /\ Advance(c, [calls[c] EXCEPT !.at = "upsert", !.seen = getByBrandId(calls[c].target.brand)])
    /\ UNCHANGED <<tables, metadata, claims, requests>>

\* The correction builds on the record it read: the next version of the same
\* status.  A version over the bound does not pass BrandBrainSchema.
Correction(c) ==
    {[project |-> calls[c].target.project, version |-> calls[c].seen.version + 1,
      status |-> calls[c].seen.status]}

\* The administrator may give any version the schema admits and any status;
\* one not given is the one that was read, or the first and approved.
Replacement(c) ==
    [project : {calls[c].target.project}, version : 1 .. MaxVersion, status : Statuses]

\* INSERT ... ON CONFLICT (brand_id) DO UPDATE ... WHERE project_id is the same:
\* the columns it sets do not include the project.
Accepts(b, record) ==
    IF brands[b] = None THEN projects[record.project] # None
    ELSE brands[b].project = record.project

Upsert(c) ==
    /\ At(c, {"correct", "replace"}, "upsert")
    /\ \E record \in IF calls[c].op = "correct" THEN Correction(c) ELSE Replacement(c) :
         IF record \in Brand /\ Accepts(calls[c].target.brand, record)
           THEN brands' = [brands EXCEPT ![calls[c].target.brand] = record]
           ELSE UNCHANGED brands
    /\ End(c)
    /\ UNCHANGED <<roles, projects, metadata, claims, requests>>

-----------------------------------------------------------------------------
(* A generation: the boundary's last check, then the context it is given *)

getBrandByProjectAndBrand(p, b) == getByProjectAndBrand(p, b)

\* authorizeProjectBrand
AuthorizeBrand(c) ==
    /\ At(c, {"generate"}, "authorize")
    /\ LET brand == getBrandByProjectAndBrand(calls[c].target.project, calls[c].target.brand)
       IN  IF brand # None /\ brand.status = "approved"
             THEN Advance(c, [calls[c] EXCEPT !.at = "resolve"])
             ELSE End(c)
    /\ UNCHANGED <<tables, metadata, claims, requests>>

\* Mutant: the boundary is trusted to have seen to the status.
ResolveContext_TrustsBoundary(c) ==
    /\ At(c, {"generate"}, "resolve")
    /\ Advance(c, [calls[c] EXCEPT !.at = "generated",
                     !.seen = getByProjectAndBrand(calls[c].target.project, calls[c].target.brand)])
    /\ UNCHANGED <<tables, metadata, claims, requests>>

\* The optional sections are dropped until the context keeps to its budget;
\* required ones that exceed it are an error, whose outcome is None here.
compileBrandContext(record) == {record, None}

\* resolveBrandBrainContext, when the operation of the job runs: the record is
\* read again, and what is not approved leaves the placeholder in the prompt.
ResolveContext(c) ==
    /\ At(c, {"generate"}, "resolve")
    /\ LET record == getByProjectAndBrand(calls[c].target.project, calls[c].target.brand)
       IN  IF record # None /\ record.status = "approved"
             THEN \E context \in compileBrandContext(record) :
                    IF context = None
                      THEN End(c)
                      ELSE Advance(c, [calls[c] EXCEPT !.at = "generated", !.seen = context])
             ELSE Advance(c, [calls[c] EXCEPT !.at = "generated", !.seen = None])
    /\ UNCHANGED <<tables, metadata, claims, requests>>

-----------------------------------------------------------------------------
(* Around the requests *)

\* The customer's session is refreshed: the new token carries the metadata.
RefreshSession(u) ==
    /\ claims[u] # metadata[u]
    /\ claims' = [claims EXCEPT ![u] = metadata[u]]
    /\ UNCHANGED <<tables, metadata, calls, requests>>

\* No route writes a member's row; an operator does.
AddMember(t, u) ==
    /\ <<t, u>> \in Members
    /\ roles[t][t] # None /\ roles[u][u] # None /\ roles[t][u] = None
    /\ roles' = [roles EXCEPT ![t][u] = "member"]
    /\ UNCHANGED <<projects, brands, metadata, claims, calls, requests>>

\* The answer is sent, or a call fails, or the process dies.
CutOff(c) ==
    /\ calls[c] # Idle
    /\ End(c)
    /\ UNCHANGED <<tables, metadata, claims, requests>>

Next ==
    \/ \E c \in Calls, u \in Users :
         \/ BeginBootstrap(c, u)
         \/ \E t \in Users : BeginAdditional(c, u, t)
         \/ \E scope \in Asked : BeginSelect(c, u, scope)
         \/ BeginCorrect(c, u)
         \/ \E t \in Users, p \in Suffixes, b \in Names :
              BeginGeneration(c, u, [tenant |-> t, project |-> p, brand |-> b])
    \/ \E c \in Calls, p \in Suffixes, b \in Suffixes : <<p, b>> \in Replaced /\ BeginReplace(c, p, b)
    \/ \E c \in Calls :
         \/ List(c) \/ BootstrapTransaction(c) \/ AdditionalRefused(c) \/ Select(c)
         \/ \E s \in Extra : AdditionalTransaction(c, s)
         \/ ReadMetadata(c) \/ WriteMetadata(c)
         \/ ConfirmSelected(c) \/ FetchSelected(c) \/ FetchReplaced(c) \/ Upsert(c)
         \/ AuthorizeBrand(c) \/ ResolveContext(c)
         \/ CutOff(c)
    \/ \E u \in Users : RefreshSession(u) \/ \E t \in Users : AddMember(t, u)

Spec == Init /\ [][Next]_vars

-----------------------------------------------------------------------------
(* Properties *)

\* The scope in app_metadata, and the scope in a token, old or new, is none or
\* one whole workspace of a tenant the customer belongs to: the requests that
\* select, bootstrap and add workspaces beside each other never leave a brand
\* of one and a project of another, or what a replacement moved elsewhere.
ScopesAreWorkspaces ==
    \A u \in Users : {metadata[u], claims[u]} \subseteq {NoScope} \cup WorkspacesOf(u)

\* A prompt is given the brand brain of a workspace of the customer who asked,
\* the one the customer had selected, and only as approved: also when it was
\* withdrawn after the boundary had let the request pass.
ContextIsOwnAndApproved ==
    \A c \in Calls : calls[c].at = "generated" /\ calls[c].seen # None =>
        /\ calls[c].seen.status = "approved"
        /\ calls[c].target \in WorkspacesOf(calls[c].user)

\* A brand brain that exists stays in its project, and only a correction by a
\* customer whose workspace it is, or a replacement that names it, changes it:
\* never a repeated bootstrap, and never a request about another brand.
OwnCommand(b) ==
    \E c \in Calls :
        /\ At(c, {"correct", "replace"}, "upsert")
        /\ calls[c].target.brand = b
        /\ calls'[c] = Idle
        /\ calls[c].op = "correct" => calls[c].target \in WorkspacesOf(calls[c].user)
BrandKept(b) ==
    brands[b] # None /\ brands'[b] # brands[b] =>
        /\ brands'[b] # None
        /\ brands'[b].project = brands[b].project
        /\ OwnCommand(b)
BrandsChangeByOwnCommands == [][\A b \in Suffixes : BrandKept(b)]_vars

=============================================================================
