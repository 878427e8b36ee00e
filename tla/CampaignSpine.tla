----------------------------- MODULE CampaignSpine -----------------------------
(***************************************************************************)
(* One campaign of the campaign spine: its content items, their platform   *)
(* variants, and the way of a variant from draft to published.             *)
(*                                                                         *)
(* A command is one action: CampaignTransaction changes the projection and *)
(* returns the events that describe the change, and the repository commits *)
(* both together (versions, receipts and concurrent commands are in        *)
(* CampaignGeneration).  rebuilt is the fold of the committed events that    *)
(* projection.js computes, stage the one that the commit trigger computes. *)
(* Previews are rendered beside the commands, from a campaign read before. *)
(*                                                                         *)
(* A revision is <<v, n>>, the n-th of variant v.  An approval, a schedule *)
(* and an attempt are known by what they bind, not by an identifier.       *)
(***************************************************************************)
EXTENDS Integers, Sequences, FiniteSets, SequencesExt

CONSTANTS
    Owners,        \* customers who own the campaign's project
    Items,         \* content items that may be created
    Variants,      \* platform variants that may be created
    FormatOf,      \* [Items -> Formats]
    Assets,        \* media assets
    AssetKind,     \* [Assets -> Formats]: the media kind of an asset
    AssetUses,     \* [Assets -> SUBSET {"campaign.preview", "campaign.publish"}]
    Contents,      \* the contents a customer may write
    Profiles,      \* versions of the preview profile
    MaxRevisions,  \* bound on the revisions of a variant
    MaxReceipts,   \* bound on render receipts
    MaxPreviews,   \* bound on acknowledged previews
    MaxCorrections \* bound on the corrections of a publication

Formats == {"text", "image", "video"}
Uses == {"campaign.preview", "campaign.publish"}
Content == [body : BOOLEAN, primary : SUBSET Assets, supporting : SUBSET Assets]
Workflow == {"draft", "review", "approved", "scheduled", "published"}

ASSUME FormatAssumption == FormatOf \in [Items -> Formats]
ASSUME AssetAssumption ==
    AssetKind \in [Assets -> Formats] /\ AssetUses \in [Assets -> SUBSET Uses]
ASSUME ContentAssumption == Contents \subseteq Content
ASSUME ProfileAssumption == Profiles \subseteq Nat \ {0}
ASSUME BoundAssumption ==
    MaxRevisions \in Nat \ {0} /\ {MaxReceipts, MaxPreviews, MaxCorrections} \subseteq Nat

VARIABLES
    archived,      \* the campaign is archived
    item,          \* [Items -> {"absent", "active", "archived"}]
    variant,       \* [Variants -> row of campaign_platform_variants, or None]
    rebuilt,       \* [Variants -> row]: the rows replayed from the events
    stage,         \* [Variants -> Workflow]: the stage of the last event
    previews,      \* acknowledged preview evidence
    receipts,      \* render receipts of the preview registry
    rendering,     \* [Variants -> campaign read by a render that has not inserted]
    profile,       \* the active version of the preview profile, 0 if none is
    media          \* active media assets

vars == <<archived, item, variant, rebuilt, stage, previews, receipts, rendering, profile, media>>
environment == <<receipts, rendering, profile, media>>

None == [none |-> TRUE]

Revision == Variants \X (1 .. MaxRevisions)
Receipt == [revision : Revision, content : Contents, profile : Profiles]
Preview == [receipt : Receipt, by : Owners]
Approval == [revision : Revision, preview : Preview, by : Owners]
ActiveSchedule == [revision : Revision, approval : Approval]
Attempt == [revision : Revision, approval : Approval, schedule : ActiveSchedule \cup {None}]
Publication == [attempt : Attempt, corrections : 0 .. MaxCorrections]

\* A failed attempt cancels the active schedule, so a schedule that is active
\* after a failure was created after it.
Row == [item : Items, workflow : Workflow, revision : Revision, content : Contents,
        approval : Approval \cup {None},
        schedule : ActiveSchedule \cup {None},
        failed : BOOLEAN,                        \* an attempt has failed
        pending : Attempt \cup {None},
        publication : Publication \cup {None}]

TypeOK ==
    /\ archived \in BOOLEAN
    /\ item \in [Items -> {"absent", "active", "archived"}]
    /\ variant \in [Variants -> Row \cup {None}]
    /\ rebuilt \in [Variants -> Row \cup {None}]
    /\ stage \in [Variants -> Workflow \cup {"none"}]
    /\ previews \subseteq Preview
    /\ receipts \subseteq Receipt
    /\ rendering \in [Variants -> [revision : Revision, content : Contents] \cup {None}]
    /\ profile \in Profiles \cup {0}
    /\ media \subseteq Assets

\* createCampaign: an empty campaign.
Init ==
    /\ archived = FALSE
    /\ item = [i \in Items |-> "absent"]
    /\ variant = [v \in Variants |-> None]
    /\ rebuilt = [v \in Variants |-> None]
    /\ stage = [v \in Variants |-> "none"]
    /\ previews = {}
    /\ receipts = {}
    /\ rendering = [v \in Variants |-> None]
    /\ profile \in Profiles
    /\ media = Assets

Exists(v) == variant[v] # None
FormatOfRow(row) == FormatOf[row.item]

-----------------------------------------------------------------------------
(* The events of a command, and what they do to a replayed row. *)

\* replay: one event of the variant.
ReplayEvent(row, e) ==
    CASE e.type = "variant.created" -> e.row
      [] e.type = "revision.created" ->
            [row EXCEPT !.revision = e.revision, !.content = e.content, !.workflow = "draft"]
      [] e.type = "review.submitted" -> [row EXCEPT !.workflow = "review"]
      [] e.type = "approval.approved" -> [row EXCEPT !.approval = e.approval, !.workflow = "approved"]
      [] e.type = "approval.changes_requested" -> [row EXCEPT !.approval = None, !.workflow = "draft"]
      [] e.type = "approval.revoked" -> [row EXCEPT !.approval = None, !.workflow = "review"]
      [] e.type = "schedule.created" -> [row EXCEPT !.schedule = e.schedule, !.workflow = "scheduled"]
      [] e.type = "schedule.cancelled" -> [row EXCEPT !.schedule = None, !.workflow = "approved"]
      [] e.type = "attempt_started" -> [row EXCEPT !.pending = e.attempt]
      [] e.type = "attempt_cancelled" -> [row EXCEPT !.pending = None]
      [] e.type = "attempt_failed" ->
            [row EXCEPT !.pending = None, !.workflow = "approved", !.schedule = None, !.failed = TRUE]
      [] e.type = "confirmed" ->
            [row EXCEPT !.publication = e.publication, !.pending = None, !.approval = None,
                        !.schedule = None, !.workflow = "published"]
      [] e.type = "corrected" -> [row EXCEPT !.publication.corrections = @ + 1]

\* validate_campaign_commit: the stage of the last event that has one.
StageAfter(s, e) ==
    CASE e.type \in {"revision.created", "approval.changes_requested"} -> "draft"
      [] e.type \in {"review.submitted", "approval.revoked"} -> "review"
      [] e.type \in {"approval.approved", "schedule.cancelled", "attempt_failed"} -> "approved"
      [] e.type = "schedule.created" -> "scheduled"
      [] e.type = "confirmed" -> "published"
      [] OTHER -> s

\* Mutant: the schedule a command cancels has no event.
Cancelled_Unrecorded(row) == <<>>

Cancelled(row) == IF row.schedule = None THEN <<>> ELSE <<[type |-> "schedule.cancelled"]>>

\* The command commits the row of v and the events that describe it.
Commit(v, row, events) ==
    /\ variant' = [variant EXCEPT ![v] = row]
    /\ rebuilt' = [rebuilt EXCEPT ![v] = FoldLeft(ReplayEvent, @, events)]
    /\ stage' = [stage EXCEPT ![v] = FoldLeft(StageAfter, @, events)]

-----------------------------------------------------------------------------
(* Guards shared by the commands. *)

\* ensureWritable, without and with the variant.
WritableItem(v) == Exists(v) /\ ~archived /\ item[variant[v].item] = "active"
Writable(v) == WritableItem(v) /\ variant[v].pending = None

\* media: every reference is an active generated asset of the format, and
\* allows the use.
MediaResolves(c, format, uses) ==
    \A a \in c.primary \cup c.supporting :
        a \in media /\ AssetKind[a] = format /\ uses \subseteq AssetUses[a]

ContentComplete(c, format) ==
    IF format = "text" THEN c.body /\ c.primary = {} ELSE Cardinality(c.primary) = 1

\* validatePreview of the preview registry.
ProfileActive(p) == profile = p

Current(v, r) == variant[v].revision = r

-----------------------------------------------------------------------------
(* Content items and revisions. *)

FirstRow(i, v, c) ==
    [item |-> i, workflow |-> "draft", revision |-> <<v, 1>>, content |-> c, approval |-> None,
     schedule |-> None, failed |-> FALSE, pending |-> None, publication |-> None]

CreateVariant(i, v, c) ==
    /\ ~Exists(v)
    /\ MediaResolves(c, FormatOf[i], {})
    /\ Commit(v, FirstRow(i, v, c),
              <<[type |-> "variant.created", row |-> FirstRow(i, v, c)],
                [type |-> "revision.created", revision |-> <<v, 1>>, content |-> c]>>)
    /\ UNCHANGED <<archived, previews, environment>>

CreateContentItem(i, v, c) ==
    /\ ~archived /\ item[i] = "absent"
    /\ CreateVariant(i, v, c)
    /\ item' = [item EXCEPT ![i] = "active"]

AddVariant(i, v, c) ==
    /\ ~archived /\ item[i] = "active"
    /\ CreateVariant(i, v, c)
    /\ UNCHANGED item

\* A command on v that leaves the items and the evidence alone.
Update(v, row, events) ==
    /\ Commit(v, row, events)
    /\ UNCHANGED <<archived, item, previews, environment>>

Revoked(row) == IF row.approval = None THEN <<>> ELSE <<[type |-> "approval.revoked"]>>

SaveRevision(v, c) ==
    LET row == variant[v]
        next == <<v, row.revision[2] + 1>>
    IN  /\ Writable(v) /\ row.workflow # "published"
        /\ row.revision[2] < MaxRevisions
        /\ MediaResolves(c, FormatOfRow(row), {})
        /\ Update(v, [row EXCEPT !.revision = next, !.content = c, !.workflow = "draft",
                                 !.approval = None, !.schedule = None],
                  Cancelled(row) \o Revoked(row)
                    \o <<[type |-> "revision.created", revision |-> next, content |-> c]>>)

\* Mutant: what is submitted may be incomplete.
SubmitReview_Incomplete(v, r) ==
    LET row == variant[v]
    IN  /\ Writable(v) /\ row.workflow = "draft" /\ Current(v, r)
        /\ MediaResolves(row.content, FormatOfRow(row), {"campaign.preview"})
        /\ Update(v, [row EXCEPT !.workflow = "review"], <<[type |-> "review.submitted"]>>)

SubmitReview(v, r) ==
    LET row == variant[v]
    IN  /\ Writable(v) /\ row.workflow = "draft" /\ Current(v, r)
        /\ MediaResolves(row.content, FormatOfRow(row), {"campaign.preview"})
        /\ ContentComplete(row.content, FormatOfRow(row))
        /\ Update(v, [row EXCEPT !.workflow = "review"], <<[type |-> "review.submitted"]>>)

-----------------------------------------------------------------------------
(* Previews: rendered by the registry, acknowledged and judged by an owner. *)

\* The router reads the campaign; renderPreview checks what was read.
BeginRender(v, r) ==
    /\ Exists(v) /\ rendering[v] = None
    /\ variant[v].workflow = "review" /\ Current(v, r)
    /\ rendering' = [rendering EXCEPT ![v] = [revision |-> r, content |-> variant[v].content]]
    /\ UNCHANGED <<archived, item, variant, rebuilt, stage, previews, receipts, profile, media>>

\* renderPreview's own transaction, later: the receipt, or no active profile.
EndRender(v) ==
    /\ rendering[v] # None
    /\ LET receipt == [revision |-> rendering[v].revision, content |-> rendering[v].content,
                       profile |-> profile]
       IN  IF profile = 0 \/ Cardinality(receipts \cup {receipt}) > MaxReceipts
           THEN UNCHANGED receipts
           ELSE receipts' = receipts \cup {receipt}
    /\ rendering' = [rendering EXCEPT ![v] = None]
    /\ UNCHANGED <<archived, item, variant, rebuilt, stage, previews, profile, media>>

AcknowledgePreview(o, v, r, receipt) ==
    LET row == variant[v]
        preview == [receipt |-> receipt, by |-> o]
    IN  /\ Writable(v) /\ row.workflow = "review" /\ Current(v, r)
        /\ receipt.revision = row.revision /\ receipt.content = row.content
        /\ ProfileActive(receipt.profile)
        /\ Cardinality(previews \cup {preview}) <= MaxPreviews
        /\ previews' = previews \cup {preview}
        /\ UNCHANGED <<archived, item, variant, rebuilt, stage, environment>>

Approve(o, v, r, preview) ==
    LET row == variant[v]
        approval == [revision |-> row.revision, preview |-> preview, by |-> o]
    IN  /\ Writable(v) /\ row.workflow = "review" /\ Current(v, r)
        /\ preview.receipt.revision = row.revision /\ preview.by = o
        /\ MediaResolves(row.content, FormatOfRow(row), {"campaign.preview"})
        /\ ProfileActive(preview.receipt.profile)
        /\ Update(v, [row EXCEPT !.approval = approval, !.workflow = "approved"],
                  <<[type |-> "approval.approved", approval |-> approval]>>)

RequestChanges(v, r) ==
    /\ Writable(v) /\ variant[v].workflow = "review" /\ Current(v, r)
    /\ Update(v, [variant[v] EXCEPT !.workflow = "draft"], <<[type |-> "approval.changes_requested"]>>)

\* Mutant: the schedule of the revoked approval stays.
RevokeApproval_KeepsSchedule(v) ==
    /\ Writable(v) /\ variant[v].workflow \in {"approved", "scheduled"}
    /\ Update(v, [variant[v] EXCEPT !.approval = None, !.workflow = "review"],
              <<[type |-> "approval.revoked"]>>)

RevokeApproval(v) ==
    LET row == variant[v]
    IN  /\ Writable(v) /\ row.workflow \in {"approved", "scheduled"}
        /\ Update(v, [row EXCEPT !.approval = None, !.schedule = None, !.workflow = "review"],
                  Append(Cancelled(row), [type |-> "approval.revoked"]))

-----------------------------------------------------------------------------
(* Schedules. *)

\* _schedule, for a new schedule and for one that replaces another.
PutSchedule(v, r, from, events) ==
    LET row == variant[v]
        schedule == [revision |-> row.revision, approval |-> row.approval]
    IN  /\ Writable(v) /\ row.workflow = from /\ Current(v, r)
        /\ Update(v, [row EXCEPT !.schedule = schedule, !.workflow = "scheduled"],
                  Append(events, [type |-> "schedule.created", schedule |-> schedule]))

Schedule(v, r) == PutSchedule(v, r, "approved", <<>>)
Reschedule(v, r) == PutSchedule(v, r, "scheduled", <<[type |-> "schedule.cancelled"]>>)

Unschedule(v) ==
    /\ Writable(v) /\ variant[v].workflow = "scheduled"
    /\ Update(v, [variant[v] EXCEPT !.schedule = None, !.workflow = "approved"],
              <<[type |-> "schedule.cancelled"]>>)

-----------------------------------------------------------------------------
(* Manual publication. *)

BeginManualPublication(v, r) ==
    LET row == variant[v]
        attempt == [revision |-> row.revision, approval |-> row.approval,
                    schedule |-> row.schedule]
    IN  /\ Writable(v) /\ row.workflow \in {"approved", "scheduled"} /\ Current(v, r)
        /\ row.failed => row.schedule # None
        /\ MediaResolves(row.content, FormatOfRow(row), {"campaign.publish"})
        /\ ProfileActive(row.approval.preview.receipt.profile)
        /\ Update(v, [row EXCEPT !.pending = attempt], <<[type |-> "attempt_started", attempt |-> attempt]>>)

Resolvable(v) == WritableItem(v) /\ variant[v].pending # None

ConfirmManualPublication(v) ==
    LET row == variant[v]
        publication == [attempt |-> row.pending, corrections |-> 0]
    IN  /\ Resolvable(v)
        /\ Update(v, [row EXCEPT !.publication = publication, !.pending = None, !.approval = None,
                                 !.schedule = None, !.workflow = "published"],
                  <<[type |-> "confirmed", publication |-> publication]>>)

FailManualPublication(v) ==
    /\ Resolvable(v)
    /\ Update(v, [variant[v] EXCEPT !.pending = None, !.schedule = None, !.workflow = "approved",
                                    !.failed = TRUE],
              Append(Cancelled(variant[v]), [type |-> "attempt_failed"]))

\* Mutant: giving an attempt up revokes the approval it was made under.
CancelManualPublication_Revokes(v) ==
    /\ Resolvable(v)
    /\ Update(v, [variant[v] EXCEPT !.pending = None, !.approval = None, !.schedule = None,
                                    !.workflow = "review"],
              Cancelled(variant[v]) \o <<[type |-> "attempt_cancelled"], [type |-> "approval.revoked"]>>)

CancelManualPublication(v) ==
    /\ Resolvable(v)
    /\ Update(v, [variant[v] EXCEPT !.pending = None], <<[type |-> "attempt_cancelled"]>>)

CorrectPublication(v) ==
    /\ WritableItem(v) /\ variant[v].workflow = "published"
    /\ variant[v].publication.corrections < MaxCorrections
    /\ Update(v, [variant[v] EXCEPT !.publication.corrections = @ + 1], <<[type |-> "corrected"]>>)

-----------------------------------------------------------------------------
(* Archives. *)

\* Mutant: a schedule does not keep its item from being archived.
Idle_Scheduled(v) == Exists(v) => variant[v].pending = None

Idle(v) == Exists(v) => variant[v].pending = None /\ variant[v].schedule = None

\* _itemArchive, archiving and restoring.
ItemArchive(i, from, to) ==
    /\ ~archived /\ item[i] = from
    /\ \A v \in Variants : Exists(v) /\ variant[v].item = i => Idle(v)
    /\ item' = [item EXCEPT ![i] = to]
    /\ UNCHANGED <<archived, variant, rebuilt, stage, previews, environment>>

ArchiveContentItem(i) == ItemArchive(i, "active", "archived")
RestoreContentItem(i) == ItemArchive(i, "archived", "active")

\* _campaignArchive, archiving and restoring.
CampaignArchive(archive) ==
    /\ archived # archive
    /\ \A v \in Variants : Idle(v)
    /\ archived' = archive
    /\ UNCHANGED <<item, variant, rebuilt, stage, previews, environment>>

ArchiveCampaign == CampaignArchive(TRUE)
RestoreCampaign == CampaignArchive(FALSE)

-----------------------------------------------------------------------------
(* What operators and other services do: a profile is revoked or replaced,  *)
(* a media asset loses its active status.                                   *)

ReplaceProfile ==
    /\ profile # 0
    /\ profile' \in {0} \cup {p \in Profiles : p > profile}
    /\ UNCHANGED <<archived, item, variant, rebuilt, stage, previews, receipts, rendering, media>>

DeactivateAsset(a) ==
    /\ a \in media
    /\ media' = media \ {a}
    /\ UNCHANGED <<archived, item, variant, rebuilt, stage, previews, receipts, rendering, profile>>

VariantCommand(v) ==
    \/ \E i \in Items, c \in Contents : CreateContentItem(i, v, c) \/ AddVariant(i, v, c)
    \/ \E c \in Contents : SaveRevision(v, c)
    \/ \E r \in Revision :
          \/ SubmitReview(v, r)
          \/ BeginRender(v, r)
          \/ \E o \in Owners, receipt \in receipts : AcknowledgePreview(o, v, r, receipt)
          \/ \E o \in Owners, preview \in previews : Approve(o, v, r, preview)
          \/ RequestChanges(v, r)
          \/ Schedule(v, r)
          \/ Reschedule(v, r)
          \/ BeginManualPublication(v, r)
    \/ EndRender(v)
    \/ RevokeApproval(v)
    \/ Unschedule(v)
    \/ ConfirmManualPublication(v)
    \/ FailManualPublication(v)
    \/ CancelManualPublication(v)
    \/ CorrectPublication(v)

Next ==
    \/ \E v \in Variants : VariantCommand(v)
    \/ \E i \in Items : ArchiveContentItem(i) \/ RestoreContentItem(i)
    \/ ArchiveCampaign
    \/ RestoreCampaign
    \/ ReplaceProfile
    \/ \E a \in Assets : DeactivateAsset(a)

Spec == Init /\ [][Next]_vars

-----------------------------------------------------------------------------
(* Properties. *)

\* The projection a command changes in place is the one its events describe:
\* neither projection.verify nor the commit trigger ever refuses a command
\* that the domain accepted.
ProjectionIsReplayed ==
    \A v \in Variants :
        /\ variant[v] = rebuilt[v]
        /\ Exists(v) => variant[v].workflow = stage[v]

\* The evidence behind a publication, and behind an attempt at one: the owner
\* who approved it has acknowledged a preview that the registry rendered of
\* exactly the content that is (being) published, whatever was revised,
\* revoked, rendered or approved before or meanwhile.
Evidenced(attempt, row) ==
    LET approval == attempt.approval
    IN  /\ attempt.revision = row.revision /\ approval.revision = row.revision
        /\ approval.preview \in previews /\ approval.preview.by = approval.by
        /\ approval.preview.receipt \in receipts
        /\ approval.preview.receipt.revision = row.revision
        /\ approval.preview.receipt.content = row.content
        /\ ContentComplete(row.content, FormatOfRow(row))

PublishedAsPreviewed ==
    \A v \in Variants : Exists(v) =>
        /\ variant[v].publication # None => Evidenced(variant[v].publication.attempt, variant[v])
        /\ variant[v].pending # None => Evidenced(variant[v].pending, variant[v])

\* Nothing is left under way in an archive, where no command could end it: an
\* attempt or a schedule is only in an active item of an active campaign.
ArchivedIsIdle ==
    \A v \in Variants :
        Exists(v) /\ (variant[v].pending # None \/ variant[v].schedule # None) =>
            ~archived /\ item[variant[v].item] = "active"

\* What a step may do to a variant with an attempt.
Frozen(v) ==
    Exists(v) /\ variant[v].pending # None /\ variant'[v] # variant[v] =>
        /\ variant'[v].pending = None
        /\ variant'[v].revision = variant[v].revision
        /\ variant'[v].content = variant[v].content
        /\ variant'[v].workflow = "published" \/ variant'[v].approval = variant[v].approval

\* An attempt freezes its variant: whatever is sent meanwhile, the next change
\* is the attempt's resolution, which leaves the revision that is being published
\* and, unless it is published, the approval as they are.
FrozenWhileAttempted == [][\A v \in Variants : Frozen(v)]_vars

=============================================================================
