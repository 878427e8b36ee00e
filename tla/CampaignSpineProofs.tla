-------------------------- MODULE CampaignSpineProofs --------------------------
(* What is published was previewed and approved as it is, nothing is under    *)
(* way in an archive, an attempt freezes its variant, the database accepts    *)
(* every command and the projection is the one the event log describes, for   *)
(* every number of owners, items, variants, assets, contents and profiles.    *)
EXTENDS CampaignTables, TLAPS

\* The types of everything but the folds of the events.
SpineTypeOK ==
    /\ archived \in BOOLEAN
    /\ item \in [Items -> {"absent", "active", "archived"}]
    /\ variant \in [Variants -> Row \cup {None}]
    /\ previews \subseteq Preview
    /\ receipts \subseteq Receipt
    /\ rendering \in [Variants -> [revision : Revision, content : Contents] \cup {None}]
    /\ profile \in Profiles \cup {0}
    /\ media \subseteq Assets

\* An approval is of the revision it is given for, by the owner who has
\* acknowledged a preview of it.
Approved(row, approval) ==
    /\ approval \in Approval
    /\ approval.revision = row.revision
    /\ approval.preview \in previews /\ approval.preview.by = approval.by
    /\ approval.preview.receipt.revision = row.revision

\* The records that a row points to are those its stage calls for, and are of
\* its revision.
RowOK(v, row) ==
    /\ row \in Row
    /\ row.revision[1] = v
    /\ row.workflow # "draft" => ContentComplete(row.content, FormatOfRow(row))
    /\ row.workflow \in {"approved", "scheduled"} <=> row.approval # None
    /\ row.workflow = "scheduled" <=> row.schedule # None
    /\ row.workflow = "published" <=> row.publication # None
    /\ row.approval # None => Approved(row, row.approval)
    /\ row.schedule # None =>
          row.schedule.revision = row.revision /\ row.schedule.approval = row.approval
    /\ row.pending # None =>
          /\ row.approval # None /\ row.pending.approval = row.approval
          /\ row.pending.revision = row.revision
    /\ row.publication # None =>
          /\ row.publication.attempt.revision = row.revision
          /\ Approved(row, row.publication.attempt.approval)

\* Something is under way.
Busy(row) == row.pending # None \/ row.schedule # None

\* A revision has one content, whenever it was read.
Written(revision, content) ==
    LET row == variant[revision[1]]
    IN  /\ Exists(revision[1])
        /\ revision[2] <= row.revision[2]
        /\ row.revision = revision => row.content = content

RowsOK == \A v \in Variants : Exists(v) => RowOK(v, variant[v])
ReceiptsOK == \A receipt \in receipts : Written(receipt.revision, receipt.content)
RenderingOK == \A v \in Variants :
                  rendering[v] # None => Written(rendering[v].revision, rendering[v].content)
PreviewsOK == \A preview \in previews : preview.receipt \in receipts

IInv ==
    /\ SpineTypeOK /\ RowsOK /\ ReceiptsOK /\ RenderingOK /\ PreviewsOK
    /\ ArchivedIsIdle /\ ItemsHaveVariants

\* What the database demands of a step and its new rows do not show.
RowAccepted(v, old, new) == new # None /\ InsertsAccepted(v, old, new) /\ IdentityKept(old, new)
RowsAccepted == \A v \in Variants : variant'[v] # variant[v] => RowAccepted(v, variant[v], variant'[v])

-----------------------------------------------------------------------------
(* Types. *)

\* A record of the spine is never taken for its absence.
LEMMA NoneIsDistinct ==
    None \notin Row /\ None \notin Approval /\ None \notin ActiveSchedule /\ None \notin Attempt
      /\ None \notin Publication /\ None \notin [revision : Revision, content : Contents]
<1>1. "none" \in DOMAIN None
  BY DEF None
<1> QED  BY <1>1 DEF Row, Approval, ActiveSchedule, Attempt, Publication

\* A revision belongs to a variant and has a number.
LEMMA RevisionTyped ==
    ASSUME NEW r \in Revision
    PROVE  r[1] \in Variants /\ r[2] \in Nat /\ r = <<r[1], r[2]>>
BY BoundAssumption DEF Revision

-----------------------------------------------------------------------------
(* The commands on a variant. *)

\* The row a command commits: of the same revision, or of a later one.
Follows(v, row) ==
    Exists(v) => \/ row.revision = variant[v].revision /\ row.content = variant[v].content
                 \/ row.revision[2] > variant[v].revision[2]

\* What a command that commits a row of v owes.
LEMMA CommitKeeps ==
    ASSUME IInv, NEW v \in Variants, NEW row, NEW events, Commit(v, row, events),
           RowOK(v, row), Follows(v, row), RowAccepted(v, variant[v], row),
           Exists(v) => row.item = variant[v].item,
           ~archived', archived' = archived, item' \in [Items -> {"absent", "active", "archived"}],
           item'[row.item] = "active", \A i \in Items : i # row.item => item'[i] = item[i],
           UNCHANGED <<previews, environment>>
    PROVE  IInv' /\ RowsAccepted
<1>1. variant' = [variant EXCEPT ![v] = row]
  BY DEF Commit
<1>2. UNCHANGED <<previews, receipts, rendering, profile, media>>
  BY DEF environment
<1>3. row \in Row /\ row # None /\ row.revision \in Revision
  BY NoneIsDistinct DEF RowOK, Row
<1>4. variant'[v] = row /\ \A w \in Variants \ {v} : variant'[w] = variant[w]
  BY <1>1 DEF IInv, SpineTypeOK
<1>5. SpineTypeOK'
  BY <1>1, <1>2, <1>3 DEF IInv, SpineTypeOK
<1>6. RowsOK'
  <2> SUFFICES ASSUME NEW w \in Variants, variant'[w] # None PROVE RowOK(w, variant[w])'
    BY DEF RowsOK, Exists
  <2>1. RowOK(w, variant'[w])
    BY <1>4 DEF IInv, RowsOK, Exists
  <2> QED  BY <1>2, <2>1 DEF RowOK, Approved
<1>7. ASSUME NEW r \in Revision, NEW c, Written(r, c) PROVE Written(r, c)'
  <2>1. r[1] \in Variants /\ r[2] \in Nat /\ row.revision[2] \in Nat /\ r = <<r[1], r[2]>>
    BY <1>3, RevisionTyped
  <2>2. CASE r[1] # v
    BY <1>4, <1>7, <2>1, <2>2 DEF Written, Exists
  <2>3. CASE r[1] = v
    <3>1. variant[v] \in Row /\ variant[v].revision \in Revision /\ r[2] <= variant[v].revision[2]
          /\ (variant[v].revision = r => variant[v].content = c)
      BY <1>7, <2>3 DEF IInv, SpineTypeOK, Written, Exists, Row
    <3>2. variant[v].revision[2] \in Nat
      BY <3>1, RevisionTyped
    <3>3. r[2] <= row.revision[2] /\ (row.revision = r => row.content = c)
      BY <1>7, <2>1, <2>3, <3>1, <3>2 DEF Follows, Written, Exists
    <3> QED  BY <1>3, <1>4, <2>3, <3>3 DEF Written, Exists
  <2> QED  BY <2>2, <2>3
<1>8. ReceiptsOK'
  BY <1>2, <1>7 DEF IInv, SpineTypeOK, ReceiptsOK, Receipt
<1>9. RenderingOK'
  <2> SUFFICES ASSUME NEW w \in Variants, rendering[w] # None
               PROVE  Written(rendering[w].revision, rendering[w].content)'
    BY <1>2 DEF RenderingOK
  <2>1. rendering[w].revision \in Revision /\ Written(rendering[w].revision, rendering[w].content)
    BY DEF IInv, SpineTypeOK, RenderingOK
  <2> QED  BY <1>2, <1>7, <2>1
<1>10. PreviewsOK'
  BY <1>2 DEF IInv, PreviewsOK
<1>11. ArchivedIsIdle'
  <2> SUFFICES ASSUME NEW w \in Variants, variant'[w] # None, Busy(variant'[w])
               PROVE  ~archived' /\ item'[variant'[w].item] = "active"
    BY DEF ArchivedIsIdle, Exists, Busy
  <2>1. CASE w = v
    BY <1>4, <2>1
  <2>2. CASE w # v
    <3>1. variant'[w] = variant[w] /\ variant[w].item \in Items
      BY <1>4, <2>2 DEF IInv, SpineTypeOK, Row
    <3> QED  BY <3>1 DEF IInv, ArchivedIsIdle, Exists, Busy
  <2> QED  BY <2>1, <2>2
<1>12. ItemsHaveVariants'
  <2> SUFFICES ASSUME NEW i \in Items, item'[i] # "absent"
               PROVE  \E w \in Variants : variant'[w] # None /\ variant'[w].item = i
    BY DEF ItemsHaveVariants, Exists
  <2>1. CASE i = row.item
    BY <1>3, <1>4, <2>1
  <2>2. CASE i # row.item
    <3>1. PICK w \in Variants : Exists(w) /\ variant[w].item = i
      BY <2>2 DEF IInv, ItemsHaveVariants
    <3> QED  BY <1>4, <2>2, <3>1 DEF Exists
  <2> QED  BY <2>1, <2>2
<1>13. RowsAccepted
  BY <1>4 DEF RowsAccepted
<1> QED  BY <1>5, <1>6, <1>8, <1>9, <1>10, <1>11, <1>12, <1>13 DEF IInv

\* The stages a row passes through, with what it points to.
LEMMA RowTyped ==
    ASSUME IInv, NEW v \in Variants, Exists(v)
    PROVE  RowOK(v, variant[v]) /\ variant[v] \in Row /\ variant[v].revision \in Revision
BY DEF IInv, RowsOK, RowOK, Row

\* A new variant is an empty draft.
LEMMA CreateKeeps ==
    ASSUME IInv, NEW v \in Variants, NEW i \in Items, NEW c \in Contents,
           CreateContentItem(i, v, c) \/ AddVariant(i, v, c)
    PROVE  IInv' /\ RowsAccepted
<1> DEFINE row == FirstRow(i, v, c)
<1> DEFINE events == <<[type |-> "variant.created", row |-> row],
                       [type |-> "revision.created", revision |-> <<v, 1>>, content |-> c]>>
<1>1. ~Exists(v) /\ Commit(v, row, events) /\ UNCHANGED <<archived, previews, environment>>
  BY DEF CreateContentItem, AddVariant, CreateVariant
<1>2. /\ item' \in [Items -> {"absent", "active", "archived"}]
      /\ ~archived /\ item'[i] = "active" /\ \A k \in Items : k # i => item'[k] = item[k]
  BY DEF CreateContentItem, AddVariant, IInv, SpineTypeOK
<1>3. <<v, 1>> \in Revision
  BY BoundAssumption DEF Revision
<1>4. row \in Row
  BY <1>3 DEF FirstRow, Row, Workflow
<1>5. RowOK(v, row) /\ row.item = i
  BY <1>4, NoneIsDistinct DEF RowOK, FirstRow
<1>6. Follows(v, row)
  BY <1>1 DEF Follows
<1>7. RowAccepted(v, variant[v], row)
  BY <1>1, <1>4, NoneIsDistinct
     DEF RowAccepted, InsertsAccepted, RevisionAccepted, Inserted, IdentityKept, FirstRow, Exists
<1> HIDE DEF row, events
<1> QED  BY <1>1, <1>2, <1>5, <1>6, <1>7, CommitKeeps

\* A new revision is a draft that nothing refers to yet.
LEMMA SaveKeeps ==
    ASSUME IInv, NEW v \in Variants, NEW c \in Contents, SaveRevision(v, c)
    PROVE  IInv' /\ RowsAccepted
<1> DEFINE next == <<v, variant[v].revision[2] + 1>>
<1> DEFINE row == [variant[v] EXCEPT !.revision = next, !.content = c, !.workflow = "draft",
                                     !.approval = None, !.schedule = None]
<1> DEFINE events == Cancelled(variant[v]) \o Revoked(variant[v])
                       \o <<[type |-> "revision.created", revision |-> next, content |-> c]>>
<1>1. /\ Exists(v) /\ variant[v].pending = None /\ variant[v].workflow # "published"
      /\ variant[v].revision[2] < MaxRevisions /\ ~archived /\ item[variant[v].item] = "active"
      /\ Commit(v, row, events) /\ UNCHANGED <<archived, item, previews, environment>>
  BY DEF SaveRevision, Writable, WritableItem, Update
<1>2. RowOK(v, variant[v]) /\ variant[v] \in Row /\ variant[v].revision[2] \in Nat
  BY <1>1, RowTyped, RevisionTyped
<1>3. next \in Revision /\ next[1] = v /\ next[2] = variant[v].revision[2] + 1
  BY <1>1, <1>2, BoundAssumption DEF Revision
<1> HIDE DEF next
<1>4. row \in Row
  BY <1>2, <1>3 DEF Row, Workflow
<1>5. RowOK(v, row) /\ row.item = variant[v].item
  BY <1>1, <1>2, <1>3, <1>4 DEF RowOK, Row
<1>6. Follows(v, row)
  BY <1>2, <1>3 DEF Follows, Row
<1>7. item' \in [Items -> {"absent", "active", "archived"}]
  BY <1>1 DEF IInv, SpineTypeOK
<1>8. RowAccepted(v, variant[v], row)
  <2>1. row # None /\ variant[v] # None
    BY <1>1, <1>4, NoneIsDistinct DEF Exists
  <2>2. /\ row.revision = next /\ row.approval = None /\ row.schedule = None
        /\ row.pending = None /\ row.publication = variant[v].publication
    BY <1>1, <1>2 DEF Row
  <2>3. InsertsAccepted(v, variant[v], row)
    BY <1>3, <2>1, <2>2 DEF InsertsAccepted, RevisionAccepted, Inserted
  <2>4. IdentityKept(variant[v], row)
    BY <1>1, <1>5 DEF IdentityKept
  <2> QED  BY <2>1, <2>3, <2>4 DEF RowAccepted
<1> HIDE DEF row, events
<1> QED  BY <1>1, <1>5, <1>6, <1>7, <1>8, CommitKeeps

\* What a command on the present revision refers to: an approval for a
\* schedule and for an attempt, the attempt for a publication.
Lawful(old, new) ==
    /\ old.workflow # "published"
    /\ \/ new.schedule \in {None, old.schedule}
       \/ old.approval # None /\ new.approval = old.approval
    /\ \/ new.pending \in {None, old.pending}
       \/ /\ old.approval # None /\ new.approval = old.approval
          /\ new.pending.schedule \in {None, old.schedule}
    /\ \/ new.publication = None
       \/ old.pending # None /\ new.publication.attempt = old.pending

\* What a command on the present revision owes.
LEMMA UpdateKeeps ==
    ASSUME IInv, NEW v \in Variants, WritableItem(v), NEW row, NEW events, Update(v, row, events),
           RowOK(v, row),
           row.revision = variant[v].revision, row.content = variant[v].content, row.item = variant[v].item,
           Lawful(variant[v], row)
    PROVE  IInv' /\ RowsAccepted
<1>1. Commit(v, row, events) /\ UNCHANGED <<archived, item, previews, environment>>
  BY DEF Update
<1>2. Exists(v) /\ ~archived /\ item[row.item] = "active" /\ Follows(v, row)
  BY DEF WritableItem, Follows
<1>3. item' \in [Items -> {"absent", "active", "archived"}]
  BY <1>1 DEF IInv, SpineTypeOK
<1>4. RowAccepted(v, variant[v], row)
  <2>1. RowOK(v, variant[v]) /\ variant[v] \in Row /\ variant[v] # None /\ row # None
    BY <1>2, RowTyped, NoneIsDistinct DEF RowOK
  <2>2. RevisionAccepted(v, variant[v], row)
    BY <2>1 DEF RevisionAccepted, RowOK
  <2>3. \A approval \in Inserted(variant[v], row, "approval") : ApprovalAccepted(approval)
    BY <2>1 DEF Inserted, ApprovalAccepted, RowOK, Approved
  <2>4. \A schedule \in Inserted(variant[v], row, "schedule") : ScheduleAccepted(variant[v], schedule)
    BY <2>1 DEF Inserted, ScheduleAccepted, Lawful, RowOK, Approved
  <2>5. \A attempt \in Inserted(variant[v], row, "pending") : AttemptAccepted(variant[v], attempt)
    BY <2>1 DEF Inserted, AttemptAccepted, Lawful, RowOK, Approved
  <2>6. \A publication \in Inserted(variant[v], row, "publication") : PublicationAccepted(variant[v], publication)
    BY <2>1 DEF Inserted, PublicationAccepted, Lawful, RowOK
  <2>7. IdentityKept(variant[v], row)
    BY DEF IdentityKept, Lawful
  <2> QED  BY <2>1, <2>2, <2>3, <2>4, <2>5, <2>6, <2>7 DEF RowAccepted, InsertsAccepted
<1> QED  BY <1>1, <1>2, <1>3, <1>4, CommitKeeps

\* Review: a draft is submitted when it is complete, and judged.
LEMMA ReviewKeeps ==
    ASSUME IInv, NEW v \in Variants, NEW r \in Revision, SubmitReview(v, r) \/ RequestChanges(v, r)
    PROVE  IInv' /\ RowsAccepted
<1> DEFINE row(to) == [variant[v] EXCEPT !.workflow = to]
<1>1. Exists(v) /\ WritableItem(v) /\ variant[v].pending = None
  BY DEF SubmitReview, RequestChanges, Writable, WritableItem
<1>2. RowOK(v, variant[v]) /\ variant[v] \in Row
  BY <1>1, RowTyped
<1>3. CASE SubmitReview(v, r)
  <2>1. /\ variant[v].workflow = "draft" /\ ContentComplete(variant[v].content, FormatOfRow(variant[v]))
        /\ Update(v, row("review"), <<[type |-> "review.submitted"]>>)
    BY <1>3 DEF SubmitReview
  <2>2. row("review") \in Row
    BY <1>2 DEF Row, Workflow
  <2>3. RowOK(v, row("review"))
    BY <1>1, <1>2, <2>1, <2>2 DEF RowOK, Row, FormatOfRow
  <2>4. /\ row("review").revision = variant[v].revision /\ row("review").content = variant[v].content
        /\ row("review").item = variant[v].item /\ Lawful(variant[v], row("review"))
    BY <1>1, <1>2, <2>1 DEF Row, RowOK, Lawful
  <2> HIDE DEF row
  <2> QED  BY <1>1, <2>1, <2>3, <2>4, UpdateKeeps
<1>4. CASE RequestChanges(v, r)
  <2>1. /\ variant[v].workflow = "review"
        /\ Update(v, row("draft"), <<[type |-> "approval.changes_requested"]>>)
    BY <1>4 DEF RequestChanges
  <2>2. row("draft") \in Row
    BY <1>2 DEF Row, Workflow
  <2>3. RowOK(v, row("draft"))
    BY <1>1, <1>2, <2>1, <2>2 DEF RowOK, Row
  <2>4. /\ row("draft").revision = variant[v].revision /\ row("draft").content = variant[v].content
        /\ row("draft").item = variant[v].item /\ Lawful(variant[v], row("draft"))
    BY <1>1, <1>2, <2>1 DEF Row, RowOK, Lawful
  <2> HIDE DEF row
  <2> QED  BY <1>1, <2>1, <2>3, <2>4, UpdateKeeps
<1> QED  BY <1>3, <1>4

\* Approve compares the preview's revision and its owner.
LEMMA ApproveKeeps ==
    ASSUME IInv, NEW o \in Owners, NEW v \in Variants, NEW r \in Revision, NEW preview \in previews,
           Approve(o, v, r, preview)
    PROVE  IInv' /\ RowsAccepted
<1> DEFINE approval == [revision |-> variant[v].revision, preview |-> preview, by |-> o]
<1> DEFINE row == [variant[v] EXCEPT !.approval = approval, !.workflow = "approved"]
<1> DEFINE events == <<[type |-> "approval.approved", approval |-> approval]>>
<1>1. /\ WritableItem(v) /\ Exists(v) /\ variant[v].pending = None /\ variant[v].workflow = "review"
      /\ preview.receipt.revision = variant[v].revision /\ preview.by = o
      /\ Update(v, row, events)
  BY DEF Approve, Writable, WritableItem
<1>2. RowOK(v, variant[v]) /\ variant[v] \in Row /\ variant[v].revision \in Revision
  BY <1>1, RowTyped
<1>3. approval \in Approval /\ approval # None /\ Approved(variant[v], approval)
  <2>1. approval \in Approval
    BY <1>2 DEF Approval, IInv, SpineTypeOK
  <2> QED  BY <1>1, <2>1, NoneIsDistinct DEF Approved
<1> HIDE DEF approval
<1>4. row \in Row
  BY <1>2, <1>3 DEF Row, Workflow
<1>5. RowOK(v, row)
  BY <1>1, <1>2, <1>3, <1>4 DEF RowOK, Row, Approved, FormatOfRow
<1>6. /\ row.revision = variant[v].revision /\ row.content = variant[v].content
      /\ row.item = variant[v].item /\ Lawful(variant[v], row)
  BY <1>1, <1>2, <1>3 DEF Row, RowOK, Lawful
<1> HIDE DEF row, events
<1> QED  BY <1>1, <1>5, <1>6, UpdateKeeps

\* A revoked approval takes its schedule along.
LEMMA RevokeKeeps == ASSUME IInv, NEW v \in Variants, RevokeApproval(v) PROVE IInv' /\ RowsAccepted
<1> DEFINE row == [variant[v] EXCEPT !.approval = None, !.schedule = None, !.workflow = "review"]
<1> DEFINE events == Append(Cancelled(variant[v]), [type |-> "approval.revoked"])
<1>1. /\ WritableItem(v) /\ Exists(v) /\ variant[v].pending = None
      /\ variant[v].workflow \in {"approved", "scheduled"}
      /\ Update(v, row, events)
  BY DEF RevokeApproval, Writable, WritableItem
<1>2. RowOK(v, variant[v]) /\ variant[v] \in Row
  BY <1>1, RowTyped
<1>3. row \in Row
  BY <1>2 DEF Row, Workflow
<1>4. RowOK(v, row)
  BY <1>1, <1>2, <1>3 DEF RowOK, Row, FormatOfRow
<1>5. /\ row.revision = variant[v].revision /\ row.content = variant[v].content
      /\ row.item = variant[v].item /\ Lawful(variant[v], row)
  BY <1>1, <1>2, <1>3 DEF Row, RowOK, Lawful
<1> HIDE DEF row, events
<1> QED  BY <1>1, <1>4, <1>5, UpdateKeeps

\* A schedule is of the approval that the row has.
LEMMA ScheduleKeeps ==
    ASSUME IInv, NEW v \in Variants, NEW r \in Revision, Schedule(v, r) \/ Reschedule(v, r)
    PROVE  IInv' /\ RowsAccepted
<1> DEFINE schedule == [revision |-> variant[v].revision, approval |-> variant[v].approval]
<1> DEFINE row == [variant[v] EXCEPT !.schedule = schedule, !.workflow = "scheduled"]
<1>1. /\ WritableItem(v) /\ Exists(v) /\ variant[v].pending = None
      /\ variant[v].workflow \in {"approved", "scheduled"}
      /\ \E events : Update(v, row, events)
  BY DEF Schedule, Reschedule, PutSchedule, Writable, WritableItem
<1>2. RowOK(v, variant[v]) /\ variant[v] \in Row /\ variant[v].revision \in Revision
  BY <1>1, RowTyped
<1>3. /\ schedule \in ActiveSchedule /\ schedule # None
      /\ schedule.revision = variant[v].revision /\ schedule.approval = variant[v].approval
  <2>1. schedule \in ActiveSchedule
    BY <1>1, <1>2 DEF RowOK, Approved, ActiveSchedule
  <2> QED  BY <2>1, NoneIsDistinct
<1> HIDE DEF schedule
<1>4. row \in Row
  BY <1>2, <1>3 DEF Row, Workflow
<1>5. RowOK(v, row)
  BY <1>1, <1>2, <1>3, <1>4 DEF RowOK, Row, Approved, FormatOfRow
<1>6. /\ row.revision = variant[v].revision /\ row.content = variant[v].content
      /\ row.item = variant[v].item /\ Lawful(variant[v], row)
  BY <1>1, <1>2, <1>3 DEF Row, RowOK, Lawful
<1> HIDE DEF row
<1> QED  BY <1>1, <1>5, <1>6, UpdateKeeps

LEMMA UnscheduleKeeps == ASSUME IInv, NEW v \in Variants, Unschedule(v) PROVE IInv' /\ RowsAccepted
<1> DEFINE row == [variant[v] EXCEPT !.schedule = None, !.workflow = "approved"]
<1> DEFINE events == <<[type |-> "schedule.cancelled"]>>
<1>1. /\ WritableItem(v) /\ Exists(v) /\ variant[v].pending = None
      /\ variant[v].workflow = "scheduled"
      /\ Update(v, row, events)
  BY DEF Unschedule, Writable, WritableItem
<1>2. RowOK(v, variant[v]) /\ variant[v] \in Row
  BY <1>1, RowTyped
<1>3. row \in Row
  BY <1>2 DEF Row, Workflow
<1>4. RowOK(v, row)
  BY <1>1, <1>2, <1>3 DEF RowOK, Row, Approved, FormatOfRow
<1>5. /\ row.revision = variant[v].revision /\ row.content = variant[v].content
      /\ row.item = variant[v].item /\ Lawful(variant[v], row)
  BY <1>1, <1>2, <1>3 DEF Row, RowOK, Lawful
<1> HIDE DEF row, events
<1> QED  BY <1>1, <1>4, <1>5, UpdateKeeps

\* An attempt is made under the approval that the row has.
LEMMA BeginKeeps ==
    ASSUME IInv, NEW v \in Variants, NEW r \in Revision, BeginManualPublication(v, r)
    PROVE  IInv' /\ RowsAccepted
<1> DEFINE attempt == [revision |-> variant[v].revision, approval |-> variant[v].approval,
                       schedule |-> variant[v].schedule]
<1> DEFINE row == [variant[v] EXCEPT !.pending = attempt]
<1> DEFINE events == <<[type |-> "attempt_started", attempt |-> attempt]>>
<1>1. /\ WritableItem(v) /\ Exists(v) /\ variant[v].workflow \in {"approved", "scheduled"}
      /\ Update(v, row, events)
  BY DEF BeginManualPublication, Writable, WritableItem
<1>2. RowOK(v, variant[v]) /\ variant[v] \in Row /\ variant[v].revision \in Revision
  BY <1>1, RowTyped
<1>3. /\ attempt \in Attempt /\ attempt # None
      /\ attempt.revision = variant[v].revision /\ attempt.approval = variant[v].approval
      /\ attempt.schedule = variant[v].schedule
  <2>1. attempt \in Attempt
    BY <1>1, <1>2 DEF RowOK, Approved, Row, Attempt
  <2> QED  BY <2>1, NoneIsDistinct
<1> HIDE DEF attempt
<1>4. row \in Row
  BY <1>2, <1>3 DEF Row
<1>5. RowOK(v, row)
  BY <1>1, <1>2, <1>3, <1>4 DEF RowOK, Row, Approved, FormatOfRow
<1>6. /\ row.revision = variant[v].revision /\ row.content = variant[v].content
      /\ row.item = variant[v].item /\ Lawful(variant[v], row)
  BY <1>1, <1>2, <1>3 DEF Row, RowOK, Lawful
<1> HIDE DEF row, events
<1> QED  BY <1>1, <1>5, <1>6, UpdateKeeps

\* What an attempt of a row is made under.
LEMMA PendingTyped ==
    ASSUME IInv, NEW v \in Variants, Resolvable(v)
    PROVE  /\ WritableItem(v) /\ Exists(v) /\ RowOK(v, variant[v]) /\ variant[v] \in Row
           /\ variant[v].workflow \in {"approved", "scheduled"}
           /\ variant[v].pending \in Attempt
           /\ variant[v].pending.revision = variant[v].revision
           /\ Approved(variant[v], variant[v].pending.approval)
<1>1. WritableItem(v) /\ Exists(v) /\ variant[v].pending # None
  BY DEF Resolvable, WritableItem
<1>2. RowOK(v, variant[v]) /\ variant[v] \in Row
  BY <1>1, RowTyped
<1> QED  BY <1>1, <1>2 DEF RowOK, Row

\* The attempt becomes the publication.
LEMMA ConfirmKeeps == ASSUME IInv, NEW v \in Variants, ConfirmManualPublication(v) PROVE IInv' /\ RowsAccepted
<1> DEFINE publication == [attempt |-> variant[v].pending, corrections |-> 0]
<1> DEFINE row == [variant[v] EXCEPT !.publication = publication, !.pending = None, !.approval = None,
                                     !.schedule = None, !.workflow = "published"]
<1> DEFINE events == <<[type |-> "confirmed", publication |-> publication]>>
<1>1. Resolvable(v) /\ Update(v, row, events)
  BY DEF ConfirmManualPublication
<1>2. /\ WritableItem(v) /\ RowOK(v, variant[v]) /\ variant[v] \in Row
      /\ variant[v].workflow \in {"approved", "scheduled"} /\ variant[v].pending \in Attempt
      /\ variant[v].pending.revision = variant[v].revision
      /\ Approved(variant[v], variant[v].pending.approval)
  BY <1>1, PendingTyped
<1>3. /\ publication \in Publication /\ publication # None
      /\ publication.attempt = variant[v].pending
  <2>1. MaxCorrections \in Nat
    BY BoundAssumption
  <2>2. publication \in Publication
    BY <1>2, <2>1 DEF Publication
  <2> QED  BY <2>2, NoneIsDistinct
<1> HIDE DEF publication
<1>4. row \in Row
  BY <1>2, <1>3 DEF Row, Workflow
<1>5. RowOK(v, row)
  BY <1>2, <1>3, <1>4 DEF RowOK, Row, Approved, FormatOfRow
<1>6. /\ row.revision = variant[v].revision /\ row.content = variant[v].content
      /\ row.item = variant[v].item /\ Lawful(variant[v], row)
  BY <1>1, <1>2, <1>3 DEF Row, RowOK, Lawful, Resolvable
<1> HIDE DEF row, events
<1> QED  BY <1>1, <1>2, <1>5, <1>6, UpdateKeeps

\* A failed or cancelled attempt leaves the approval.
LEMMA FailKeeps == ASSUME IInv, NEW v \in Variants, FailManualPublication(v) PROVE IInv' /\ RowsAccepted
<1> DEFINE row == [variant[v] EXCEPT !.pending = None, !.schedule = None, !.workflow = "approved",
                                     !.failed = TRUE]
<1> DEFINE events == Append(Cancelled(variant[v]), [type |-> "attempt_failed"])
<1>1. Resolvable(v) /\ Update(v, row, events)
  BY DEF FailManualPublication
<1>2. /\ WritableItem(v) /\ RowOK(v, variant[v]) /\ variant[v] \in Row
      /\ variant[v].workflow \in {"approved", "scheduled"}
  BY <1>1, PendingTyped
<1>3. row \in Row
  BY <1>2 DEF Row, Workflow
<1>4. RowOK(v, row)
  BY <1>2, <1>3 DEF RowOK, Row, Approved, FormatOfRow
<1>5. /\ row.revision = variant[v].revision /\ row.content = variant[v].content
      /\ row.item = variant[v].item /\ Lawful(variant[v], row)
  BY <1>1, <1>2, <1>3 DEF Row, RowOK, Lawful
<1> HIDE DEF row, events
<1> QED  BY <1>1, <1>2, <1>4, <1>5, UpdateKeeps

LEMMA CancelKeeps == ASSUME IInv, NEW v \in Variants, CancelManualPublication(v) PROVE IInv' /\ RowsAccepted
<1> DEFINE row == [variant[v] EXCEPT !.pending = None]
<1> DEFINE events == <<[type |-> "attempt_cancelled"]>>
<1>1. Resolvable(v) /\ Update(v, row, events)
  BY DEF CancelManualPublication
<1>2. /\ WritableItem(v) /\ RowOK(v, variant[v]) /\ variant[v] \in Row
      /\ variant[v].workflow \in {"approved", "scheduled"}
  BY <1>1, PendingTyped
<1>3. row \in Row
  BY <1>2 DEF Row
<1>4. RowOK(v, row)
  BY <1>2, <1>3 DEF RowOK, Row, Approved, FormatOfRow
<1>5. /\ row.revision = variant[v].revision /\ row.content = variant[v].content
      /\ row.item = variant[v].item /\ Lawful(variant[v], row)
  BY <1>1, <1>2, <1>3 DEF Row, RowOK, Lawful
<1> HIDE DEF row, events
<1> QED  BY <1>1, <1>2, <1>4, <1>5, UpdateKeeps

\* A correction leaves the attempt of its publication.
LEMMA CorrectKeeps == ASSUME IInv, NEW v \in Variants, CorrectPublication(v) PROVE IInv' /\ RowsAccepted
<1> DEFINE row == [variant[v] EXCEPT !.publication.corrections = @ + 1]
<1> DEFINE events == <<[type |-> "corrected"]>>
<1>1. /\ WritableItem(v) /\ Exists(v) /\ variant[v].workflow = "published"
      /\ variant[v].publication.corrections < MaxCorrections
      /\ Update(v, row, events)
  BY DEF CorrectPublication, WritableItem
<1>2. RowOK(v, variant[v]) /\ variant[v] \in Row /\ variant[v].publication \in Publication
  BY <1>1, RowTyped DEF RowOK, Row
<1>3. /\ row.publication \in Publication /\ row.publication # None
      /\ row.publication.attempt = variant[v].publication.attempt
      /\ row.publication.corrections = variant[v].publication.corrections + 1
  <2>1. MaxCorrections \in Nat
    BY BoundAssumption
  <2>2. /\ row.publication \in Publication /\ row.publication.attempt = variant[v].publication.attempt
        /\ row.publication.corrections = variant[v].publication.corrections + 1
    BY <1>1, <1>2, <2>1 DEF Publication, Row
  <2> QED  BY <2>2, NoneIsDistinct
<1>4. row \in Row
  BY <1>2, <1>3 DEF Row
<1>5. /\ row.revision = variant[v].revision /\ row.content = variant[v].content /\ row.item = variant[v].item
      /\ row.workflow = variant[v].workflow /\ row.approval = variant[v].approval
      /\ row.schedule = variant[v].schedule /\ row.pending = variant[v].pending
      /\ IdentityKept(variant[v], row)
  <2>1. /\ variant[v].publication.corrections + 1 \in 0 .. MaxCorrections
        /\ row = [variant[v] EXCEPT !.publication.corrections = variant[v].publication.corrections + 1]
    <3>1. MaxCorrections \in Nat
      BY BoundAssumption
    <3> QED  BY <1>1, <1>2, <3>1 DEF Publication
  <2>2. row.item = variant[v].item
    BY <1>2 DEF Row
  <2>3. IdentityKept(variant[v], row)
    BY <2>1, <2>2 DEF IdentityKept
  <2> QED  BY <1>2, <2>3 DEF Row
<1> HIDE DEF row, events
<1>6. RowOK(v, row)
  BY <1>1, <1>2, <1>3, <1>4, <1>5 DEF RowOK, Approved, FormatOfRow
<1>7. RowAccepted(v, variant[v], row)
  <2>1. row # None /\ variant[v] # None /\ variant[v].publication # None
    BY <1>1, <1>2, <1>4, NoneIsDistinct DEF RowOK
  <2>2. InsertsAccepted(v, variant[v], row)
    BY <1>2, <1>3, <1>5, <2>1 DEF InsertsAccepted, RevisionAccepted, CorrectionAccepted, Inserted, RowOK
  <2> QED  BY <1>5, <2>1, <2>2 DEF RowAccepted
<1>8. /\ Commit(v, row, events) /\ UNCHANGED <<archived, item, previews, environment>>
      /\ ~archived /\ item[row.item] = "active" /\ Follows(v, row)
      /\ item' \in [Items -> {"absent", "active", "archived"}]
  BY <1>1, <1>5 DEF Update, WritableItem, Follows, IInv, SpineTypeOK
<1> QED  BY <1>1, <1>5, <1>6, <1>7, <1>8, CommitKeeps

-----------------------------------------------------------------------------
(* Steps beside the rows: previews, archives, profiles and assets. *)

\* Evidence accumulates, and what a render has read stays true of its revision.
LEMMA EvidenceKeeps ==
    ASSUME IInv, UNCHANGED <<archived, item, variant>>,
           previews \subseteq previews', previews' \subseteq Preview,
           \A preview \in previews' : preview.receipt \in receipts',
           receipts \subseteq receipts', receipts' \subseteq Receipt,
           \A receipt \in receipts' : Written(receipt.revision, receipt.content),
           rendering' \in [Variants -> [revision : Revision, content : Contents] \cup {None}],
           \A v \in Variants : rendering'[v] # None => Written(rendering'[v].revision, rendering'[v].content),
           profile' \in Profiles \cup {0}, media' \subseteq Assets
    PROVE  IInv' /\ RowsAccepted
<1>1. SpineTypeOK'
  BY DEF IInv, SpineTypeOK
<1>2. RowsOK'
  <2> SUFFICES ASSUME NEW v \in Variants, variant[v] # None PROVE RowOK(v, variant[v])'
    BY DEF RowsOK, Exists
  <2>1. RowOK(v, variant[v])
    BY DEF IInv, RowsOK, Exists
  <2> QED  BY <2>1 DEF RowOK, Approved
<1>3. ReceiptsOK' /\ RenderingOK'
  BY DEF ReceiptsOK, RenderingOK, Written, Exists
<1>4. PreviewsOK' /\ ArchivedIsIdle'
  BY DEF IInv, PreviewsOK, ArchivedIsIdle, Exists
<1>5. ItemsHaveVariants' /\ RowsAccepted
  BY DEF IInv, ItemsHaveVariants, RowsAccepted, Exists
<1> QED  BY <1>1, <1>2, <1>3, <1>4, <1>5 DEF IInv

\* A render reads the row, and inserts a receipt of what it has read.
LEMMA RenderKeeps ==
    ASSUME IInv, NEW v \in Variants, (\E r \in Revision : BeginRender(v, r)) \/ EndRender(v)
    PROVE  IInv' /\ RowsAccepted
<1>1. CASE \E r \in Revision : BeginRender(v, r)
  <2> DEFINE read == [revision |-> variant[v].revision, content |-> variant[v].content]
  <2>1. /\ Exists(v) /\ rendering' = [rendering EXCEPT ![v] = read]
        /\ UNCHANGED <<archived, item, variant, previews, receipts, profile, media>>
    BY <1>1 DEF BeginRender, Current
  <2>2. variant[v] \in Row /\ variant[v].revision \in Revision /\ variant[v].revision[1] = v
    BY <2>1, RowTyped DEF RowOK
  <2>3. read \in [revision : Revision, content : Contents] /\ Written(read.revision, read.content)
    BY <2>1, <2>2, RevisionTyped DEF Written, Row
  <2> HIDE DEF read
  <2> QED  BY <2>1, <2>3, EvidenceKeeps DEF IInv, SpineTypeOK, ReceiptsOK, RenderingOK, PreviewsOK
<1>2. CASE EndRender(v)
  <2> DEFINE receipt == [revision |-> rendering[v].revision, content |-> rendering[v].content,
                         profile |-> profile]
  <2>1. /\ rendering[v] # None /\ rendering' = [rendering EXCEPT ![v] = None]
        /\ \/ receipts' = receipts
           \/ profile # 0 /\ receipts' = receipts \cup {receipt}
        /\ UNCHANGED <<archived, item, variant, previews, profile, media>>
    BY <1>2 DEF EndRender
  <2>2. /\ rendering[v] \in [revision : Revision, content : Contents]
        /\ Written(rendering[v].revision, rendering[v].content)
    BY <2>1 DEF IInv, SpineTypeOK, RenderingOK
  <2>3. /\ profile # 0 => receipt \in Receipt
        /\ Written(receipt.revision, receipt.content)
    BY <2>2 DEF Receipt, IInv, SpineTypeOK
  <2> HIDE DEF receipt
  <2> QED  BY <2>1, <2>3, EvidenceKeeps DEF IInv, SpineTypeOK, ReceiptsOK, RenderingOK, PreviewsOK
<1> QED  BY <1>1, <1>2

\* An acknowledged preview is of a receipt.
LEMMA AcknowledgeKeeps ==
    ASSUME IInv, NEW o \in Owners, NEW v \in Variants, NEW r \in Revision, NEW receipt \in receipts,
           AcknowledgePreview(o, v, r, receipt)
    PROVE  IInv' /\ RowsAccepted
<1> DEFINE preview == [receipt |-> receipt, by |-> o]
<1>1. /\ previews' = previews \cup {preview}
      /\ UNCHANGED <<archived, item, variant, receipts, rendering, profile, media>>
  BY DEF AcknowledgePreview, environment
<1>2. preview \in Preview /\ preview.receipt \in receipts
  BY DEF Preview, IInv, SpineTypeOK
<1> HIDE DEF preview
<1> QED  BY <1>1, <1>2, EvidenceKeeps DEF IInv, SpineTypeOK, ReceiptsOK, RenderingOK, PreviewsOK

\* An archive is of what is idle.
LEMMA ArchiveKeeps ==
    ASSUME IInv,
           \/ \E i \in Items : ArchiveContentItem(i) \/ RestoreContentItem(i)
           \/ ArchiveCampaign \/ RestoreCampaign
    PROVE  IInv' /\ RowsAccepted
<1>1. UNCHANGED <<variant, previews, receipts, rendering, profile, media>>
  BY DEF ArchiveContentItem, RestoreContentItem, ItemArchive, ArchiveCampaign, RestoreCampaign,
         CampaignArchive, environment
<1>2. archived' \in BOOLEAN /\ item' \in [Items -> {"absent", "active", "archived"}]
  BY DEF ArchiveContentItem, RestoreContentItem, ItemArchive, ArchiveCampaign, RestoreCampaign,
         CampaignArchive, IInv, SpineTypeOK
<1>3. SpineTypeOK'
  BY <1>1, <1>2 DEF IInv, SpineTypeOK
<1>4. RowsOK'
  <2> SUFFICES ASSUME NEW v \in Variants, variant[v] # None PROVE RowOK(v, variant[v])'
    BY <1>1 DEF RowsOK, Exists
  <2>1. RowOK(v, variant[v])
    BY DEF IInv, RowsOK, Exists
  <2> QED  BY <1>1, <2>1 DEF RowOK, Approved
<1>5. ReceiptsOK' /\ RenderingOK' /\ PreviewsOK'
  BY <1>1 DEF IInv, ReceiptsOK, RenderingOK, PreviewsOK, Written, Exists
<1>6. ArchivedIsIdle'
  <2> SUFFICES ASSUME NEW v \in Variants, Exists(v), Busy(variant[v])
               PROVE  ~archived' /\ item'[variant[v].item] = "active"
    BY <1>1 DEF ArchivedIsIdle, Exists, Busy
  <2>1. ~archived /\ item[variant[v].item] = "active" /\ variant[v].item \in Items
    BY RowTyped DEF IInv, ArchivedIsIdle, Busy, Row
  <2>2. ~Idle(v)
    BY DEF Idle, Busy
  <2>3. CASE \E i \in Items : ArchiveContentItem(i) \/ RestoreContentItem(i)
    BY <2>1, <2>2, <2>3 DEF ArchiveContentItem, RestoreContentItem, ItemArchive, IInv, SpineTypeOK
  <2>4. CASE ArchiveCampaign \/ RestoreCampaign
    BY <2>2, <2>4 DEF ArchiveCampaign, RestoreCampaign, CampaignArchive
  <2> QED  BY <2>3, <2>4
<1>7. ItemsHaveVariants' /\ RowsAccepted
  <2>1. \A i \in Items : item'[i] # "absent" => item[i] # "absent"
    BY DEF ArchiveContentItem, RestoreContentItem, ItemArchive, ArchiveCampaign, RestoreCampaign,
           CampaignArchive, IInv, SpineTypeOK
  <2> QED  BY <1>1, <2>1 DEF IInv, ItemsHaveVariants, RowsAccepted, Exists
<1> QED  BY <1>3, <1>4, <1>5, <1>6, <1>7 DEF IInv

\* Profiles are replaced and assets lost without touching a row.
LEMMA EnvironmentKeeps ==
    ASSUME IInv, ReplaceProfile \/ \E a \in Assets : DeactivateAsset(a)
    PROVE  IInv' /\ RowsAccepted
<1>1. /\ UNCHANGED <<archived, item, variant, previews, receipts, rendering>>
      /\ profile' \in Profiles \cup {0} /\ media' \subseteq Assets
  BY DEF ReplaceProfile, DeactivateAsset, IInv, SpineTypeOK
<1> QED  BY <1>1, EvidenceKeeps DEF IInv, SpineTypeOK, ReceiptsOK, RenderingOK, PreviewsOK

-----------------------------------------------------------------------------
(* The theorems. *)

LEMMA CommandKeeps == ASSUME IInv, NEW v \in Variants, VariantCommand(v) PROVE IInv' /\ RowsAccepted
<1>1. ASSUME NEW i \in Items, NEW c \in Contents, CreateContentItem(i, v, c) \/ AddVariant(i, v, c) PROVE IInv' /\ RowsAccepted
  BY <1>1, CreateKeeps
<1>2. ASSUME NEW c \in Contents, SaveRevision(v, c) PROVE IInv' /\ RowsAccepted
  BY <1>2, SaveKeeps
<1>3. ASSUME NEW r \in Revision,
             \/ SubmitReview(v, r) \/ BeginRender(v, r) \/ RequestChanges(v, r)
             \/ Schedule(v, r) \/ Reschedule(v, r) \/ BeginManualPublication(v, r)
      PROVE  IInv' /\ RowsAccepted
  BY <1>3, ReviewKeeps, RenderKeeps, ScheduleKeeps, BeginKeeps
<1>4. ASSUME NEW r \in Revision, NEW o \in Owners, NEW receipt \in receipts, AcknowledgePreview(o, v, r, receipt)
      PROVE  IInv' /\ RowsAccepted
  BY <1>4, AcknowledgeKeeps
<1>5. ASSUME NEW r \in Revision, NEW o \in Owners, NEW preview \in previews, Approve(o, v, r, preview)
      PROVE  IInv' /\ RowsAccepted
  BY <1>5, ApproveKeeps
<1>6. ASSUME \/ EndRender(v) \/ RevokeApproval(v) \/ Unschedule(v) \/ ConfirmManualPublication(v)
             \/ FailManualPublication(v) \/ CancelManualPublication(v) \/ CorrectPublication(v)
      PROVE  IInv' /\ RowsAccepted
  BY <1>6, RenderKeeps, RevokeKeeps, UnscheduleKeeps, ConfirmKeeps, FailKeeps, CancelKeeps, CorrectKeeps
<1> QED  BY <1>1, <1>2, <1>3, <1>4, <1>5, <1>6 DEF VariantCommand

LEMMA NextKeeps == ASSUME IInv, [Next]_vars PROVE IInv' /\ RowsAccepted
<1>1. ASSUME NEW v \in Variants, VariantCommand(v) PROVE IInv' /\ RowsAccepted
  BY <1>1, CommandKeeps
<1>2. CASE \/ \E i \in Items : ArchiveContentItem(i) \/ RestoreContentItem(i)
           \/ ArchiveCampaign \/ RestoreCampaign
  BY <1>2, ArchiveKeeps
<1>3. CASE ReplaceProfile \/ \E a \in Assets : DeactivateAsset(a)
  BY <1>3, EnvironmentKeeps
<1>4. CASE UNCHANGED vars
  <2>1. UNCHANGED <<archived, item, variant, previews, receipts, rendering, profile, media>>
    BY <1>4 DEF vars
  <2> QED  BY <2>1, EvidenceKeeps DEF IInv, SpineTypeOK, ReceiptsOK, RenderingOK, PreviewsOK
<1> QED  BY <1>1, <1>2, <1>3, <1>4 DEF Next

\* Rows point to records of their own stage and revision, and a revision that
\* was read, rendered or previewed has one content, for every campaign.
THEOREM SpineInvariant == Spec => []IInv
<1>1. Init => IInv
  BY DEF Init, IInv, SpineTypeOK, RowsOK, ReceiptsOK, RenderingOK, PreviewsOK, ArchivedIsIdle,
     ItemsHaveVariants, Exists
<1>2. IInv /\ [Next]_vars => IInv'
  BY NextKeeps
<1> QED  BY <1>1, <1>2, PTL DEF Spec

\* Behind a publication, and an attempt at one, is a preview of the very content,
\* rendered by the registry, acknowledged and approved by the same owner.
THEOREM PublishedAsPreviewedAlways == Spec => []PublishedAsPreviewed
<1>1. IInv => PublishedAsPreviewed
  <2> SUFFICES ASSUME IInv, NEW v \in Variants, Exists(v)
               PROVE  /\ variant[v].publication # None => Evidenced(variant[v].publication.attempt, variant[v])
                      /\ variant[v].pending # None => Evidenced(variant[v].pending, variant[v])
    BY DEF PublishedAsPreviewed
  <2>1. RowOK(v, variant[v]) /\ variant[v] \in Row
    BY RowTyped
  <2>2. ASSUME NEW approval, Approved(variant[v], approval)
        PROVE  /\ approval.preview.receipt \in receipts
               /\ approval.preview.receipt.content = variant[v].content
    <3>1. approval.preview.receipt \in receipts /\ approval.preview.receipt.revision = variant[v].revision
      BY <2>2 DEF IInv, PreviewsOK, Approved
    <3> QED  BY <2>1, <3>1 DEF IInv, ReceiptsOK, Written, RowOK
  <2>3. ASSUME variant[v].publication # None PROVE Evidenced(variant[v].publication.attempt, variant[v])
    BY <2>1, <2>2, <2>3 DEF RowOK, Approved, Evidenced
  <2>4. ASSUME variant[v].pending # None PROVE Evidenced(variant[v].pending, variant[v])
    BY <2>1, <2>2, <2>4 DEF RowOK, Approved, Evidenced
  <2> QED  BY <2>3, <2>4
<1> QED  BY <1>1, SpineInvariant, PTL

\* An attempt or a schedule is only in an active item of an active campaign.
THEOREM ArchivedIsIdleAlways == Spec => []ArchivedIsIdle
<1>1. IInv => ArchivedIsIdle
  BY DEF IInv
<1> QED  BY <1>1, SpineInvariant, PTL

\* Only the resolution of an attempt changes its variant.
LEMMA FrozenStep == ASSUME IInv, [Next]_vars, NEW v \in Variants PROVE Frozen(v)
<1> SUFFICES ASSUME Exists(v), variant[v].pending # None, variant'[v] # variant[v]
             PROVE  /\ variant'[v].pending = None
                    /\ variant'[v].revision = variant[v].revision
                    /\ variant'[v].content = variant[v].content
                    /\ variant'[v].workflow = "published" \/ variant'[v].approval = variant[v].approval
  BY DEF Frozen
<1>1. RowOK(v, variant[v]) /\ variant[v] \in Row
  BY RowTyped
<1>2. variant[v].workflow \in {"approved", "scheduled"}
  BY <1>1 DEF RowOK
<1>3. VariantCommand(v)
  <2>1. ASSUME NEW w \in Variants, VariantCommand(w), w # v PROVE variant'[v] = variant[v]
    <3>1. ASSUME NEW row, NEW events, Commit(w, row, events) PROVE variant'[v] = variant[v]
      BY <2>1, <3>1 DEF Commit, IInv, SpineTypeOK
    <3>2. ASSUME NEW row, NEW events, Update(w, row, events) PROVE variant'[v] = variant[v]
      BY <3>1, <3>2 DEF Update
    <3>3. ASSUME NEW i \in Items, NEW c \in Contents, CreateContentItem(i, w, c) \/ AddVariant(i, w, c)
          PROVE  variant'[v] = variant[v]
      BY <3>1, <3>3 DEF CreateContentItem, AddVariant, CreateVariant
    <3>4. ASSUME NEW c \in Contents, SaveRevision(w, c) PROVE variant'[v] = variant[v]
      BY <3>2, <3>4 DEF SaveRevision
    <3>5. ASSUME NEW r \in Revision,
                 \/ SubmitReview(w, r) \/ BeginRender(w, r) \/ RequestChanges(w, r)
                 \/ Schedule(w, r) \/ Reschedule(w, r) \/ BeginManualPublication(w, r)
          PROVE  variant'[v] = variant[v]
      BY <3>2, <3>5 DEF SubmitReview, BeginRender, RequestChanges, Schedule, Reschedule, PutSchedule,
                        BeginManualPublication
    <3>6. ASSUME NEW r \in Revision, NEW o \in Owners,
                 \/ \E receipt \in receipts : AcknowledgePreview(o, w, r, receipt)
                 \/ \E preview \in previews : Approve(o, w, r, preview)
          PROVE  variant'[v] = variant[v]
      BY <3>2, <3>6 DEF AcknowledgePreview, Approve
    <3>7. ASSUME \/ EndRender(w) \/ RevokeApproval(w) \/ Unschedule(w) \/ ConfirmManualPublication(w)
                 \/ FailManualPublication(w) \/ CancelManualPublication(w) \/ CorrectPublication(w)
          PROVE  variant'[v] = variant[v]
      BY <3>2, <3>7 DEF EndRender, RevokeApproval, Unschedule, ConfirmManualPublication,
                        FailManualPublication, CancelManualPublication, CorrectPublication
    <3> QED  BY <2>1, <3>3, <3>4, <3>5, <3>6, <3>7 DEF VariantCommand
  <2>2. variant' # variant
    OBVIOUS
  <2> QED  BY <2>1, <2>2 DEF Next, vars, ArchiveContentItem, RestoreContentItem, ItemArchive, ArchiveCampaign,
              RestoreCampaign, CampaignArchive, ReplaceProfile, DeactivateAsset
<1>4. ConfirmManualPublication(v) \/ FailManualPublication(v) \/ CancelManualPublication(v)
  BY <1>2, <1>3 DEF VariantCommand, CreateContentItem, AddVariant, CreateVariant, SaveRevision, SubmitReview,
       BeginRender, AcknowledgePreview, Approve, RequestChanges, Schedule, Reschedule, PutSchedule,
       BeginManualPublication, EndRender, RevokeApproval, Unschedule, CorrectPublication, Writable
<1> DEFINE new == variant'[v]
<1>5. new = [variant[v] EXCEPT !.publication = [attempt |-> variant[v].pending, corrections |-> 0],
                              !.pending = None, !.approval = None, !.schedule = None, !.workflow = "published"]
      \/ new = [variant[v] EXCEPT !.pending = None, !.schedule = None, !.workflow = "approved", !.failed = TRUE]
      \/ new = [variant[v] EXCEPT !.pending = None]
  BY <1>4 DEF ConfirmManualPublication, FailManualPublication, CancelManualPublication, Update, Commit,
       IInv, SpineTypeOK
<1> QED  BY <1>1, <1>5 DEF Row

\* While an attempt is pending, the next change of its variant is its resolution.
THEOREM FrozenWhileAttemptedAlways == Spec => FrozenWhileAttempted
<1>1. ASSUME IInv, [Next]_vars
      PROVE  [\A v \in Variants : Frozen(v)]_vars
  BY <1>1, FrozenStep
<1> QED  BY <1>1, SpineInvariant, PTL DEF Spec, FrozenWhileAttempted

\* A render inserts a receipt of a revision that is there.
LEMMA ReceiptStep ==
    ASSUME IInv, [Next]_vars, NEW receipt \in receipts' \ receipts PROVE ReceiptAccepted(receipt)
<1>1. PICK v \in Variants : EndRender(v)
  <2>1. ASSUME NEW v \in Variants, VariantCommand(v), ~EndRender(v) PROVE receipts' = receipts
    BY <2>1 DEF VariantCommand, CreateContentItem, AddVariant, CreateVariant, SaveRevision, SubmitReview,
         BeginRender, AcknowledgePreview, Approve, RequestChanges, Schedule, Reschedule, PutSchedule,
         BeginManualPublication, RevokeApproval, Unschedule, ConfirmManualPublication,
         FailManualPublication, CancelManualPublication, CorrectPublication, Update, environment
  <2> QED  BY <2>1 DEF Next, vars, environment, ArchiveContentItem, RestoreContentItem, ItemArchive,
              ArchiveCampaign, RestoreCampaign, CampaignArchive, ReplaceProfile, DeactivateAsset
<1>2. /\ rendering[v] # None /\ profile \in Profiles
      /\ receipt = [revision |-> rendering[v].revision, content |-> rendering[v].content, profile |-> profile]
  BY <1>1 DEF EndRender, IInv, SpineTypeOK
<1>3. rendering[v].revision \in Revision /\ Written(rendering[v].revision, rendering[v].content)
  BY <1>2 DEF IInv, SpineTypeOK, RenderingOK
<1>4. receipt.revision[2] \in Nat \ {0}
  BY <1>2, <1>3, BoundAssumption DEF Revision
<1>5. LET row == variant[receipt.revision[1]]
      IN  row # None /\ receipt.revision[2] <= row.revision[2] /\ row.revision[2] \in Nat
  <2>1. Exists(receipt.revision[1]) /\ receipt.revision[1] \in Variants
    BY <1>2, <1>3, RevisionTyped DEF Written
  <2>2. variant[receipt.revision[1]].revision \in Revision
    BY <2>1, RowTyped
  <2> QED  BY <1>2, <1>3, <2>1, <2>2, RevisionTyped DEF Written, Exists
<1> QED  BY <1>2, <1>4, <1>5 DEF ReceiptAccepted

\* An acknowledged preview is of the present revision and its content.
LEMMA PreviewStep ==
    ASSUME IInv, [Next]_vars, NEW preview \in previews' \ previews PROVE PreviewAccepted(preview)
<1>1. PICK v \in Variants, o \in Owners, r \in Revision, receipt \in receipts :
        AcknowledgePreview(o, v, r, receipt)
  <2>1. ASSUME NEW v \in Variants, VariantCommand(v),
               ~\E o \in Owners, r \in Revision, receipt \in receipts : AcknowledgePreview(o, v, r, receipt)
        PROVE  previews' = previews
    BY <2>1 DEF VariantCommand, CreateContentItem, AddVariant, CreateVariant, SaveRevision, SubmitReview,
         BeginRender, EndRender, Approve, RequestChanges, Schedule, Reschedule, PutSchedule,
         BeginManualPublication, RevokeApproval, Unschedule, ConfirmManualPublication,
         FailManualPublication, CancelManualPublication, CorrectPublication, Update
  <2> QED  BY <2>1 DEF Next, vars, ArchiveContentItem, RestoreContentItem, ItemArchive,
              ArchiveCampaign, RestoreCampaign, CampaignArchive, ReplaceProfile, DeactivateAsset
<1> QED  BY <1>1 DEF AcknowledgePreview, PreviewAccepted, Writable, WritableItem

\* Shape and pointers of a row follow from the invariant, the rest from the step.
LEMMA CommandStep == ASSUME IInv, [Next]_vars PROVE CommandAccepted
<1>1. IInv' /\ RowsAccepted
  BY NextKeeps
<1>2. ASSUME NEW v \in Variants, variant'[v] # variant[v]
      PROVE  /\ variant'[v] # None /\ InsertsAccepted(v, variant[v], variant'[v])
             /\ PointerShape(variant'[v]) /\ ProjectionAccepted(variant'[v])
             /\ IdentityKept(variant[v], variant'[v])
  <2>1. RowAccepted(v, variant[v], variant'[v])
    BY <1>1, <1>2 DEF RowsAccepted
  <2>2. RowOK(v, variant[v])'
    BY <1>1, <2>1 DEF RowAccepted, IInv, RowsOK, Exists
  <2> DEFINE new == variant'[v]
  <2>3. /\ new.workflow \in Workflow
        /\ new.workflow \in {"approved", "scheduled"} <=> new.approval # None
        /\ new.workflow = "scheduled" <=> new.schedule # None
        /\ new.workflow = "published" <=> new.publication # None
        /\ new.pending # None => new.approval # None
    BY <2>2 DEF RowOK, Row
  <2>4. PointerShape(new)
    BY <2>3 DEF PointerShape, Workflow
  <2>5. ProjectionAccepted(new)
    BY <2>2 DEF RowOK, Approved, ProjectionAccepted
  <2> QED  BY <2>1, <2>4, <2>5 DEF RowAccepted
<1> QED  BY <1>1, <1>2, ReceiptStep, PreviewStep DEF CommandAccepted, IInv

\* No command that the domain accepts is refused by the database.
THEOREM DatabaseAcceptsCommandsAlways == Spec => DatabaseAcceptsCommands
<1>1. IInv /\ [Next]_vars => [CommandAccepted]_vars
  BY CommandStep
<1> QED  BY <1>1, SpineInvariant, PTL DEF Spec, DatabaseAcceptsCommands

-----------------------------------------------------------------------------
(* The folds of a command's events: FoldLeft takes the indices of a sequence   *)
(* out of their set one by one, the greatest first.                            *)

\* What an event does to a replayed row, or to the stage.
Folded(kind, x, e) == IF kind = "row" THEN ReplayEvent(x, e) ELSE StageAfter(x, e)

Summand(kind, base, seq, iter, U) ==
    IF U = {} THEN base ELSE Folded(kind, iter[U \ {Max(U)}], seq[Max(U)])

Iterates(kind, base, seq, iter) == iter = [U \in SUBSET DOMAIN seq |-> Summand(kind, base, seq, iter, U)]

RowIterates(base, seq, iter) ==
    iter = [U \in SUBSET DOMAIN seq |->
               IF U = {} THEN base ELSE ReplayEvent(iter[U \ {Max(U)}], seq[Max(U)])]
StageIterates(base, seq, iter) ==
    iter = [U \in SUBSET DOMAIN seq |->
               IF U = {} THEN base ELSE StageAfter(iter[U \ {Max(U)}], seq[Max(U)])]

\* The folds are values of the iterations that FoldLeft defines.
LEMMA FoldsAreIterated ==
    ASSUME NEW base, NEW seq
    PROVE  /\ FoldLeft(ReplayEvent, base, seq) = (CHOOSE iter : RowIterates(base, seq, iter))[DOMAIN seq]
           /\ FoldLeft(StageAfter, base, seq) = (CHOOSE iter : StageIterates(base, seq, iter))[DOMAIN seq]
BY DEF FoldLeft, MapThenFoldSet, RowIterates, StageIterates

LEMMA IterationsOfKind ==
    ASSUME NEW base, NEW seq, NEW iter
    PROVE  /\ RowIterates(base, seq, iter) <=> Iterates("row", base, seq, iter)
           /\ StageIterates(base, seq, iter) <=> Iterates("stage", base, seq, iter)
BY DEF RowIterates, StageIterates, Iterates, Summand, Folded

\* An iteration that is right for the sets of the first n indices.
RightUpTo(kind, base, seq, iter, n) ==
    /\ iter = [U \in SUBSET DOMAIN seq |-> iter[U]]
    /\ \A U \in SUBSET DOMAIN seq : U \subseteq 1 .. n => iter[U] = Summand(kind, base, seq, iter, U)

LEMMA GreatestIsLast ==
    ASSUME NEW n \in Nat, NEW U, U \subseteq 1 .. n + 1
    PROVE  U \ {Max(U)} \subseteq 1 .. n
<1>1. CASE n + 1 \in U
  <2>1. \A x \in U : n + 1 >= x
    OBVIOUS
  <2>2. Max(U) \in U /\ \A x \in U : Max(U) >= x
    BY <1>1, <2>1 DEF Max
  <2>3. Max(U) \in 1 .. n + 1 /\ Max(U) >= n + 1
    BY <1>1, <2>2
  <2>4. Max(U) = n + 1
    BY <2>3
  <2> QED  BY <2>4
<1>2. CASE n + 1 \notin U
  <2>1. \A x \in U : x \in 1 .. n
    BY <1>2
  <2> QED  BY <2>1
<1> QED  BY <1>1, <1>2

LEMMA OneIndexMore ==
    ASSUME NEW kind, NEW base, NEW seq, NEW n \in Nat, NEW iter, RightUpTo(kind, base, seq, iter, n)
    PROVE  \E next : RightUpTo(kind, base, seq, next, n + 1)
<1> DEFINE D == DOMAIN seq
           next == [U \in SUBSET D |-> IF U \subseteq 1 .. n THEN iter[U] ELSE Summand(kind, base, seq, iter, U)]
<1>1. \A U \in SUBSET D : next[U] = Summand(kind, base, seq, iter, U)
  BY DEF RightUpTo
<1>2. ASSUME NEW U \in SUBSET D, U \subseteq 1 .. n + 1
      PROVE  Summand(kind, base, seq, iter, U) = Summand(kind, base, seq, next, U)
  <2>1. U \ {Max(U)} \in SUBSET D /\ U \ {Max(U)} \subseteq 1 .. n
    BY <1>2, GreatestIsLast
  <2>2. next[U \ {Max(U)}] = iter[U \ {Max(U)}]
    BY <2>1
  <2> QED  BY <2>2 DEF Summand
<1>3. next = [U \in SUBSET D |-> next[U]]
  OBVIOUS
<1> HIDE DEF next
<1>4. RightUpTo(kind, base, seq, next, n + 1)
  BY <1>1, <1>2, <1>3 DEF RightUpTo
<1> QED  BY <1>4

\* There is an iteration over the events of a command, which are at most three.
LEMMA IterationExists ==
    ASSUME NEW kind, NEW base, NEW seq, NEW n \in 0 .. 3, DOMAIN seq = 1 .. n
    PROVE  \E iter : Iterates(kind, base, seq, iter)
<1>1. \E iter : RightUpTo(kind, base, seq, iter, 0)
  <2> DEFINE iter == [U \in SUBSET DOMAIN seq |-> base]
  <2>1. \A U \in SUBSET DOMAIN seq : U \subseteq 1 .. 0 => U = {}
    OBVIOUS
  <2>2. \A U \in SUBSET DOMAIN seq : iter[U] = base
    OBVIOUS
  <2>3. iter = [U \in SUBSET DOMAIN seq |-> iter[U]]
    OBVIOUS
  <2> HIDE DEF iter
  <2>4. RightUpTo(kind, base, seq, iter, 0)
    BY <2>1, <2>2, <2>3 DEF RightUpTo, Summand
  <2> QED  BY <2>4
<1>2. \E iter : RightUpTo(kind, base, seq, iter, 0 + 1)
  BY <1>1, OneIndexMore
<1>3. \E iter : RightUpTo(kind, base, seq, iter, 0 + 1 + 1)
  BY <1>2, OneIndexMore
<1>4. \E iter : RightUpTo(kind, base, seq, iter, 0 + 1 + 1 + 1)
  BY <1>3, OneIndexMore
<1>5. PICK iter : RightUpTo(kind, base, seq, iter, 3)
  BY <1>4
<1>6. \A U \in SUBSET DOMAIN seq : iter[U] = Summand(kind, base, seq, iter, U)
  <2>1. \A U \in SUBSET DOMAIN seq : U \subseteq 1 .. 3
    OBVIOUS
  <2> QED  BY <1>5, <2>1 DEF RightUpTo
<1>7. iter = [U \in SUBSET DOMAIN seq |-> Summand(kind, base, seq, iter, U)]
  BY <1>5, <1>6 DEF RightUpTo
<1> QED  BY <1>7 DEF Iterates

\* An iteration over the first n events follows the one over n - 1.
LEMMA IterationUnfolds ==
    ASSUME NEW kind, NEW base, NEW seq, NEW iter, Iterates(kind, base, seq, iter),
           NEW n \in Nat, DOMAIN seq = 1 .. n
    PROVE  /\ iter[{}] = base
           /\ \A k \in 1 .. n : iter[1 .. k] = Folded(kind, iter[1 .. k - 1], seq[k])
<1>1. iter[{}] = base
  BY DEF Iterates, Summand
<1>2. ASSUME NEW k \in 1 .. n PROVE iter[1 .. k] = Folded(kind, iter[1 .. k - 1], seq[k])
  <2>1. k \in 1 .. k /\ \A x \in 1 .. k : k >= x
    OBVIOUS
  <2>2. Max(1 .. k) \in 1 .. k /\ \A x \in 1 .. k : Max(1 .. k) >= x
    BY <2>1 DEF Max
  <2>3. Max(1 .. k) = k
    BY <2>1, <2>2
  <2>4. 1 .. k \in SUBSET DOMAIN seq /\ 1 .. k # {} /\ (1 .. k) \ {k} = 1 .. k - 1
    OBVIOUS
  <2> QED  BY <2>3, <2>4 DEF Iterates, Summand
<1> QED  BY <1>1, <1>2

\* What the events of a command do, one after the other.
Unfolded(kind, base, seq, n) ==
    CASE n = 0 -> base
      [] n = 1 -> Folded(kind, base, seq[1])
      [] n = 2 -> Folded(kind, Folded(kind, base, seq[1]), seq[2])
      [] n = 3 -> Folded(kind, Folded(kind, Folded(kind, base, seq[1]), seq[2]), seq[3])

LEMMA IterationOfThree ==
    ASSUME NEW kind, NEW base, NEW seq, NEW iter, Iterates(kind, base, seq, iter),
           NEW n \in 0 .. 3, DOMAIN seq = 1 .. n
    PROVE  iter[DOMAIN seq] = Unfolded(kind, base, seq, n)
<1>1. /\ iter[{}] = base
      /\ \A k \in 1 .. n : iter[1 .. k] = Folded(kind, iter[1 .. k - 1], seq[k])
  BY IterationUnfolds
<1>2. 1 .. 0 = {}
  OBVIOUS
<1>3. n >= 1 => iter[1 .. 1] = Folded(kind, base, seq[1])
  <2>1. n >= 1 => 1 \in 1 .. n
    OBVIOUS
  <2>2. n >= 1 => iter[1 .. 1] = Folded(kind, iter[1 .. 1 - 1], seq[1])
    BY <1>1, <2>1
  <2>3. 1 .. 1 - 1 = {}
    OBVIOUS
  <2> QED  BY <1>1, <2>2, <2>3
<1>4. n >= 2 => iter[1 .. 2] = Folded(kind, iter[1 .. 1], seq[2])
  <2>1. n >= 2 => 2 \in 1 .. n
    OBVIOUS
  <2>2. n >= 2 => iter[1 .. 2] = Folded(kind, iter[1 .. 2 - 1], seq[2])
    BY <1>1, <2>1
  <2>3. 1 .. 2 - 1 = 1 .. 1
    OBVIOUS
  <2> QED  BY <2>2, <2>3
<1>5. n >= 3 => iter[1 .. 3] = Folded(kind, iter[1 .. 2], seq[3])
  <2>1. n >= 3 => 3 \in 1 .. n
    OBVIOUS
  <2>2. n >= 3 => iter[1 .. 3] = Folded(kind, iter[1 .. 3 - 1], seq[3])
    BY <1>1, <2>1
  <2>3. 1 .. 3 - 1 = 1 .. 2
    OBVIOUS
  <2> QED  BY <2>2, <2>3
<1>6. CASE n = 0
  BY <1>1, <1>2, <1>6 DEF Unfolded
<1>7. CASE n = 1
  BY <1>3, <1>7 DEF Unfolded
<1>8. CASE n = 2
  BY <1>3, <1>4, <1>8 DEF Unfolded
<1>9. CASE n = 3
  BY <1>3, <1>4, <1>5, <1>9 DEF Unfolded
<1> QED  BY <1>6, <1>7, <1>8, <1>9

\* The folds of at most three events.
LEMMA FoldsUnfold ==
    ASSUME NEW base, NEW seq, NEW n \in 0 .. 3, DOMAIN seq = 1 .. n
    PROVE  /\ FoldLeft(ReplayEvent, base, seq) = Unfolded("row", base, seq, n)
           /\ FoldLeft(StageAfter, base, seq) = Unfolded("stage", base, seq, n)
<1>1. FoldLeft(ReplayEvent, base, seq) = Unfolded("row", base, seq, n)
  <2> DEFINE iter == CHOOSE i : RowIterates(base, seq, i)
  <2>1. \E i : RowIterates(base, seq, i)
    BY IterationExists, IterationsOfKind
  <2>2. RowIterates(base, seq, iter)
    BY <2>1
  <2>3. FoldLeft(ReplayEvent, base, seq) = iter[DOMAIN seq]
    BY FoldsAreIterated
  <2> HIDE DEF iter
  <2> QED  BY <2>2, <2>3, IterationsOfKind, IterationOfThree
<1>2. FoldLeft(StageAfter, base, seq) = Unfolded("stage", base, seq, n)
  <2> DEFINE iter == CHOOSE i : StageIterates(base, seq, i)
  <2>1. \E i : StageIterates(base, seq, i)
    BY IterationExists, IterationsOfKind
  <2>2. StageIterates(base, seq, iter)
    BY <2>1
  <2>3. FoldLeft(StageAfter, base, seq) = iter[DOMAIN seq]
    BY FoldsAreIterated
  <2> HIDE DEF iter
  <2> QED  BY <2>2, <2>3, IterationsOfKind, IterationOfThree
<1> QED  BY <1>1, <1>2

-----------------------------------------------------------------------------
(* What the events of each command say of its row.                            *)

\* The rows and the stages that the events describe are those of the commands.
Replayed ==
    /\ rebuilt = variant
    /\ stage = [v \in Variants |-> stage[v]]
    /\ \A v \in Variants : Exists(v) => stage[v] = variant[v].workflow

\* The events describe the row, from the row and the stage before.
Describes(events, n, old, before, row) ==
    /\ n \in 0 .. 3 /\ DOMAIN events = 1 .. n
    /\ Unfolded("row", old, events, n) = row
    /\ Unfolded("stage", before, events, n) = row.workflow

LEMMA CommitReplays ==
    ASSUME IInv, Replayed, NEW v \in Variants, NEW row, NEW events, Commit(v, row, events),
           NEW n, Describes(events, n, variant[v], stage[v], row)
    PROVE  Replayed'
<1>1. FoldLeft(ReplayEvent, variant[v], events) = row /\ FoldLeft(StageAfter, stage[v], events) = row.workflow
  BY FoldsUnfold DEF Describes
<1>2. /\ variant' = [variant EXCEPT ![v] = row]
      /\ rebuilt' = [variant EXCEPT ![v] = row]
      /\ stage' = [stage EXCEPT ![v] = row.workflow]
  BY <1>1 DEF Commit, Replayed
<1>3. variant'[v] = row /\ \A w \in Variants \ {v} : variant'[w] = variant[w]
  BY <1>2 DEF IInv, SpineTypeOK
<1>4. stage'[v] = row.workflow /\ \A w \in Variants \ {v} : stage'[w] = stage[w]
  BY <1>2 DEF Replayed
<1>5. stage' = [w \in Variants |-> stage'[w]]
  BY <1>2 DEF Replayed
<1> QED  BY <1>2, <1>3, <1>4, <1>5 DEF Replayed, Exists

\* One, two or three events that describe a row.
LEMMA OneEvent ==
    ASSUME NEW events, DOMAIN events = 1 .. 1, NEW old, NEW before, NEW row,
           ReplayEvent(old, events[1]) = row, StageAfter(before, events[1]) = row.workflow
    PROVE  Describes(events, 1, old, before, row)
BY DEF Describes, Unfolded, Folded

LEMMA TwoEvents ==
    ASSUME NEW events, DOMAIN events = 1 .. 2, NEW old, NEW before, NEW row,
           ReplayEvent(ReplayEvent(old, events[1]), events[2]) = row,
           StageAfter(StageAfter(before, events[1]), events[2]) = row.workflow
    PROVE  Describes(events, 2, old, before, row)
BY DEF Describes, Unfolded, Folded

LEMMA ThreeEvents ==
    ASSUME NEW events, DOMAIN events = 1 .. 3, NEW old, NEW before, NEW row,
           ReplayEvent(ReplayEvent(ReplayEvent(old, events[1]), events[2]), events[3]) = row,
           StageAfter(StageAfter(StageAfter(before, events[1]), events[2]), events[3]) = row.workflow
    PROVE  Describes(events, 3, old, before, row)
BY DEF Describes, Unfolded, Folded

LEMMA OneReplays ==
    ASSUME IInv, Replayed, NEW v \in Variants, NEW row, NEW e, Commit(v, row, <<e>>),
           ReplayEvent(variant[v], e) = row, StageAfter(stage[v], e) = row.workflow
    PROVE  Replayed'
<1>1. PICK events : events = <<e>>
  OBVIOUS
<1>2. DOMAIN events = 1 .. 1 /\ events[1] = e
  BY <1>1
<1>3. Describes(events, 1, variant[v], stage[v], row)
  BY <1>2, OneEvent
<1> QED  BY <1>1, <1>3, CommitReplays

\* The sequences of events that the commands put together.
LEMMA TwoAppended ==
    ASSUME NEW a, NEW b, NEW s, s = Append(<<a>>, b) \/ s = <<a>> \o <<b>> \/ s = <<a, b>>
    PROVE  DOMAIN s = 1 .. 2 /\ s[1] = a /\ s[2] = b
<1>1. <<a>> \in Seq({a, b}) /\ Len(<<a>>) = 1 /\ <<b>> \in Seq({a, b}) /\ Len(<<b>>) = 1
  OBVIOUS
<1>2. CASE s = Append(<<a>>, b)
  BY <1>1, <1>2
<1>3. CASE s = <<a>> \o <<b>>
  BY <1>1, <1>3
<1>4. CASE s = <<a, b>>
  BY <1>4
<1> QED  BY <1>2, <1>3, <1>4

LEMMA ThreeAppended ==
    ASSUME NEW a, NEW b, NEW c, NEW s, s = <<a>> \o <<b>> \o <<c>>
    PROVE  DOMAIN s = 1 .. 3 /\ s[1] = a /\ s[2] = b /\ s[3] = c
<1>1. PICK t : t = <<a>> \o <<b>>
  OBVIOUS
<1>2. t \in Seq({a, b, c}) /\ Len(t) = 2 /\ t[1] = a /\ t[2] = b
  <2>1. <<a>> \in Seq({a, b, c}) /\ Len(<<a>>) = 1 /\ <<b>> \in Seq({a, b, c}) /\ Len(<<b>>) = 1
    OBVIOUS
  <2>2. t \in Seq({a, b, c})
    BY <1>1, <2>1
  <2>3. DOMAIN t = 1 .. 2 /\ t[1] = a /\ t[2] = b
    BY <1>1, TwoAppended
  <2>4. Len(t) = 2
    BY <2>2, <2>3
  <2> QED  BY <2>2, <2>3, <2>4
<1>3. <<c>> \in Seq({a, b, c}) /\ Len(<<c>>) = 1
  OBVIOUS
<1>4. s = t \o <<c>>
  BY <1>1
<1> QED  BY <1>2, <1>3, <1>4

\* The events that take an approval or a schedule away.
LEMMA EventsApply ==
    ASSUME NEW row \in Row, NEW s
    PROVE  /\ ReplayEvent(row, [type |-> "schedule.cancelled"])
                = [row EXCEPT !.schedule = None, !.workflow = "approved"]
           /\ StageAfter(s, [type |-> "schedule.cancelled"]) = "approved"
           /\ ReplayEvent(row, [type |-> "approval.revoked"])
                = [row EXCEPT !.approval = None, !.workflow = "review"]
           /\ StageAfter(s, [type |-> "approval.revoked"]) = "review"
           /\ ReplayEvent(row, [type |-> "review.submitted"]) = [row EXCEPT !.workflow = "review"]
           /\ StageAfter(s, [type |-> "review.submitted"]) = "review"
           /\ ReplayEvent(row, [type |-> "approval.changes_requested"])
                = [row EXCEPT !.approval = None, !.workflow = "draft"]
           /\ StageAfter(s, [type |-> "approval.changes_requested"]) = "draft"
           /\ ReplayEvent(row, [type |-> "attempt_cancelled"]) = [row EXCEPT !.pending = None]
           /\ StageAfter(s, [type |-> "attempt_cancelled"]) = s
           /\ ReplayEvent(row, [type |-> "attempt_failed"])
                = [row EXCEPT !.pending = None, !.workflow = "approved", !.schedule = None, !.failed = TRUE]
           /\ StageAfter(s, [type |-> "attempt_failed"]) = "approved"
           /\ ReplayEvent(row, [type |-> "corrected"]) = [row EXCEPT !.publication.corrections = @ + 1]
           /\ StageAfter(s, [type |-> "corrected"]) = s
BY DEF ReplayEvent, StageAfter

\* A command that ends a schedule and goes on with another event.
LEMMA CancelledThen ==
    ASSUME NEW row \in Row, NEW s, NEW e, NEW new, NEW events, events = Append(Cancelled(row), e),
           IF row.schedule = None THEN ReplayEvent(row, e) = new /\ StageAfter(s, e) = new.workflow
           ELSE /\ ReplayEvent([row EXCEPT !.schedule = None, !.workflow = "approved"], e) = new
                /\ StageAfter("approved", e) = new.workflow
    PROVE  \E n : Describes(events, n, row, s, new)
<1>1. CASE row.schedule = None
  <2>1. events = <<e>>
    BY <1>1 DEF Cancelled
  <2>2. DOMAIN events = 1 .. 1 /\ events[1] = e
    BY <2>1
  <2> QED  BY <1>1, <2>2, OneEvent
<1>2. CASE row.schedule # None
  <2>1. PICK f : f = [type |-> "schedule.cancelled"]
    OBVIOUS
  <2>2. DOMAIN events = 1 .. 2 /\ events[1] = f /\ events[2] = e
    <3>1. events = Append(<<f>>, e)
      BY <1>2, <2>1 DEF Cancelled
    <3> QED  BY <3>1, TwoAppended
  <2>3. ReplayEvent(row, f) = [row EXCEPT !.schedule = None, !.workflow = "approved"] /\ StageAfter(s, f) = "approved"
    BY <2>1, EventsApply
  <2> QED  BY <1>2, <2>2, <2>3, TwoEvents
<1> QED  BY <1>1, <1>2

\* A new variant is created with its first revision.
LEMMA CreateReplays ==
    ASSUME IInv, Replayed, NEW v \in Variants, NEW i \in Items, NEW c \in Contents,
           CreateContentItem(i, v, c) \/ AddVariant(i, v, c)
    PROVE  Replayed'
<1>1. PICK row : row = FirstRow(i, v, c)
  OBVIOUS
<1>2. PICK e : e = [type |-> "variant.created", row |-> row]
  OBVIOUS
<1>3. PICK f : f = [type |-> "revision.created", revision |-> <<v, 1>>, content |-> c]
  OBVIOUS
<1>4. Commit(v, row, <<e, f>>)
  BY <1>1, <1>2, <1>3 DEF CreateContentItem, AddVariant, CreateVariant
<1>5. ReplayEvent(variant[v], e) = row
  BY <1>2 DEF ReplayEvent
<1>6. row \in Row /\ row.revision = <<v, 1>> /\ row.content = c /\ row.workflow = "draft"
  <2>1. <<v, 1>> \in Revision
    BY BoundAssumption DEF Revision
  <2> QED  BY <1>1, <2>1 DEF FirstRow, Row, Workflow
<1>7. ReplayEvent(row, f) = row /\ StageAfter(StageAfter(stage[v], e), f) = row.workflow
  <2>1. PICK revision : revision = <<v, 1>>
    OBVIOUS
  <2>2. [row EXCEPT !.revision = revision, !.content = c, !.workflow = "draft"] = row
    BY <1>6, <2>1 DEF Row
  <2>3. f = [type |-> "revision.created", revision |-> revision, content |-> c]
    BY <1>3, <2>1
  <2>4. ReplayEvent(row, f) = [row EXCEPT !.revision = revision, !.content = c, !.workflow = "draft"]
    BY <2>3 DEF ReplayEvent
  <2>5. \A s : StageAfter(s, f) = "draft"
    BY <2>3 DEF StageAfter
  <2> QED  BY <1>6, <2>2, <2>4, <2>5
<1>8. PICK events : events = <<e, f>>
  OBVIOUS
<1>9. Describes(events, 2, variant[v], stage[v], row)
  BY <1>5, <1>7, <1>8, TwoAppended, TwoEvents
<1> QED  BY <1>4, <1>8, <1>9, CommitReplays

\* A new revision takes the schedule, then the approval, then the content away.
LEMMA SaveReplays ==
    ASSUME IInv, Replayed, NEW v \in Variants, NEW c \in Contents, SaveRevision(v, c)
    PROVE  Replayed'
<1>1. PICK old : old = variant[v]
  OBVIOUS
<1>2. PICK next : next = <<v, old.revision[2] + 1>>
  OBVIOUS
<1>3. PICK new : new = [old EXCEPT !.revision = next, !.content = c, !.workflow = "draft",
                                   !.approval = None, !.schedule = None]
  OBVIOUS
<1>4. PICK e : e = [type |-> "revision.created", revision |-> next, content |-> c]
  OBVIOUS
<1>5. PICK events : events = Cancelled(old) \o Revoked(old) \o <<e>>
  OBVIOUS
<1>6. Commit(v, new, events) /\ Exists(v)
  BY <1>1, <1>2, <1>3, <1>4, <1>5 DEF SaveRevision, Update, Writable, WritableItem
<1>7. old \in Row /\ RowOK(v, old)
  BY <1>1, <1>6, RowTyped
<1>8. new.workflow = "draft" /\ \A row, s : /\ ReplayEvent(row, e) = [row EXCEPT !.revision = next, !.content = c, !.workflow = "draft"]
                                            /\ StageAfter(s, e) = "draft"
  <2>1. new.workflow = "draft"
    BY <1>3, <1>7 DEF Row
  <2>2. \A row : ReplayEvent(row, e) = [row EXCEPT !.revision = next, !.content = c, !.workflow = "draft"]
    BY <1>4 DEF ReplayEvent
  <2>3. \A s : StageAfter(s, e) = "draft"
    BY <1>4 DEF StageAfter
  <2> QED  BY <2>1, <2>2, <2>3
<1>9. \E n : Describes(events, n, old, stage[v], new)
  <2>1. CASE old.schedule = None /\ old.approval = None
    <3>1. events = <<e>>
      BY <1>5, <2>1 DEF Cancelled, Revoked
    <3>2. [old EXCEPT !.revision = next, !.content = c, !.workflow = "draft"] = new
      BY <1>3, <1>7, <2>1 DEF Row
    <3>3. DOMAIN events = 1 .. 1 /\ events[1] = e
      BY <3>1
    <3> QED  BY <1>8, <3>2, <3>3, OneEvent
  <2>2. CASE old.schedule = None /\ old.approval # None
    <3>0. PICK f : f = [type |-> "approval.revoked"]
      OBVIOUS
    <3>1. DOMAIN events = 1 .. 2 /\ events[1] = f /\ events[2] = e
      <4>1. Cancelled(old) = <<>> /\ Revoked(old) = <<f>>
        BY <2>2, <3>0 DEF Cancelled, Revoked
      <4>2. <<>> \o <<f>> = <<f>>
        OBVIOUS
      <4>3. events = <<f>> \o <<e>>
        BY <1>5, <4>1, <4>2
      <4> QED  BY <4>3, TwoAppended
    <3>2. PICK mid : mid = [old EXCEPT !.approval = None, !.workflow = "review"]
      OBVIOUS
    <3>3. [mid EXCEPT !.revision = next, !.content = c, !.workflow = "draft"] = new
      BY <1>3, <1>7, <2>2, <3>2 DEF Row
    <3>4. ReplayEvent(old, f) = mid
      BY <1>7, <3>0, <3>2, EventsApply
    <3> QED  BY <1>8, <3>1, <3>3, <3>4, TwoEvents
  <2>3. CASE old.schedule # None
    <3>1. old.approval # None
      BY <1>7, <2>3 DEF RowOK
    <3>0. PICK f, g : f = [type |-> "schedule.cancelled"] /\ g = [type |-> "approval.revoked"]
      OBVIOUS
    <3>2. DOMAIN events = 1 .. 3 /\ events[1] = f /\ events[2] = g /\ events[3] = e
      <4>1. Cancelled(old) = <<f>> /\ Revoked(old) = <<g>>
        BY <2>3, <3>0, <3>1 DEF Cancelled, Revoked
      <4> QED  BY <1>5, <4>1, ThreeAppended
    <3>3. PICK first : first = [old EXCEPT !.schedule = None, !.workflow = "approved"]
      OBVIOUS
    <3>4. PICK mid : mid = [first EXCEPT !.approval = None, !.workflow = "review"]
      OBVIOUS
    <3>5. first \in Row
      BY <1>7, <3>3 DEF Row, Workflow
    <3>6. [mid EXCEPT !.revision = next, !.content = c, !.workflow = "draft"] = new
      BY <1>3, <1>7, <3>3, <3>4 DEF Row
    <3>7. ReplayEvent(old, f) = first /\ ReplayEvent(first, g) = mid
      BY <1>7, <3>0, <3>3, <3>4, <3>5, EventsApply
    <3> QED  BY <1>8, <3>2, <3>6, <3>7, ThreeEvents
  <2> QED  BY <2>1, <2>2, <2>3
<1> QED  BY <1>1, <1>6, <1>9, CommitReplays

\* A draft or a row in review has no approval to take away.
LEMMA ReviewReplays ==
    ASSUME IInv, Replayed, NEW v \in Variants, NEW r \in Revision, SubmitReview(v, r) \/ RequestChanges(v, r)
    PROVE  Replayed'
<1>1. Exists(v)
  BY DEF SubmitReview, RequestChanges, Writable, WritableItem
<1>2. RowOK(v, variant[v]) /\ variant[v] \in Row
  BY <1>1, RowTyped
<1>3. CASE SubmitReview(v, r)
  <2>1. PICK row : row = [variant[v] EXCEPT !.workflow = "review"]
    OBVIOUS
  <2>2. PICK e : e = [type |-> "review.submitted"]
    OBVIOUS
  <2>3. Commit(v, row, <<e>>)
    BY <1>3, <2>1, <2>2 DEF SubmitReview, Update
  <2>4. row.workflow = "review"
    BY <1>2, <2>1 DEF Row
  <2>5. ReplayEvent(variant[v], e) = row /\ StageAfter(stage[v], e) = row.workflow
    BY <1>2, <2>1, <2>2, <2>4, EventsApply
  <2> QED  BY <2>3, <2>5, OneReplays
<1>4. CASE RequestChanges(v, r)
  <2>1. PICK row : row = [variant[v] EXCEPT !.workflow = "draft"]
    OBVIOUS
  <2>2. PICK e : e = [type |-> "approval.changes_requested"]
    OBVIOUS
  <2>3. Commit(v, row, <<e>>) /\ variant[v].approval = None
    BY <1>2, <1>4, <2>1, <2>2 DEF RequestChanges, Update, RowOK
  <2>4. row.workflow = "draft" /\ row = [variant[v] EXCEPT !.approval = None, !.workflow = "draft"]
    BY <1>2, <2>1, <2>3 DEF Row
  <2>5. ReplayEvent(variant[v], e) = row /\ StageAfter(stage[v], e) = row.workflow
    BY <1>2, <2>2, <2>4, EventsApply
  <2> QED  BY <2>3, <2>5, OneReplays
<1> QED  BY <1>3, <1>4

LEMMA ApproveReplays ==
    ASSUME IInv, Replayed, NEW o \in Owners, NEW v \in Variants, NEW r \in Revision, NEW preview \in previews,
           Approve(o, v, r, preview)
    PROVE  Replayed'
<1>1. PICK approval : approval = [revision |-> variant[v].revision, preview |-> preview, by |-> o]
  OBVIOUS
<1>2. PICK row : row = [variant[v] EXCEPT !.approval = approval, !.workflow = "approved"]
  OBVIOUS
<1>3. PICK e : e = [type |-> "approval.approved", approval |-> approval]
  OBVIOUS
<1>4. Commit(v, row, <<e>>) /\ Exists(v)
  BY <1>1, <1>2, <1>3 DEF Approve, Update, Writable, WritableItem
<1>5. row.workflow = "approved"
  BY <1>2, <1>4, RowTyped DEF Row
<1>6. ReplayEvent(variant[v], e) = row
  BY <1>2, <1>3 DEF ReplayEvent
<1>7. StageAfter(stage[v], e) = row.workflow
  BY <1>3, <1>5 DEF StageAfter
<1> QED  BY <1>4, <1>6, <1>7, OneReplays

LEMMA RevokeReplays == ASSUME IInv, Replayed, NEW v \in Variants, RevokeApproval(v) PROVE Replayed'
<1>1. PICK old : old = variant[v]
  OBVIOUS
<1>2. PICK row : row = [old EXCEPT !.approval = None, !.schedule = None, !.workflow = "review"]
  OBVIOUS
<1>3. PICK events : events = Append(Cancelled(old), [type |-> "approval.revoked"])
  OBVIOUS
<1>4. Commit(v, row, events) /\ Exists(v)
  BY <1>1, <1>2, <1>3 DEF RevokeApproval, Update, Writable, WritableItem
<1>5. old \in Row
  BY <1>1, <1>4, RowTyped
<1>6. PICK first : first = [old EXCEPT !.schedule = None, !.workflow = "approved"]
  OBVIOUS
<1>7. first \in Row /\ row.workflow = "review"
  BY <1>2, <1>5, <1>6 DEF Row, Workflow
<1>8. /\ old.schedule = None => [old EXCEPT !.approval = None, !.workflow = "review"] = row
      /\ [first EXCEPT !.approval = None, !.workflow = "review"] = row
  BY <1>2, <1>5, <1>6 DEF Row
<1>9. PICK e : e = [type |-> "approval.revoked"]
  OBVIOUS
<1>10. /\ old.schedule = None => ReplayEvent(old, e) = row
       /\ ReplayEvent(first, e) = row /\ \A s : StageAfter(s, e) = row.workflow
  BY <1>5, <1>7, <1>8, <1>9, EventsApply
<1>11. \E n : Describes(events, n, old, stage[v], row)
  BY <1>3, <1>5, <1>6, <1>9, <1>10, CancelledThen
<1> QED  BY <1>1, <1>4, <1>11, CommitReplays

LEMMA ScheduleReplays ==
    ASSUME IInv, Replayed, NEW v \in Variants, NEW r \in Revision, Schedule(v, r) \/ Reschedule(v, r)
    PROVE  Replayed'
<1>1. PICK old : old = variant[v]
  OBVIOUS
<1>2. PICK schedule : schedule = [revision |-> old.revision, approval |-> old.approval]
  OBVIOUS
<1>3. PICK row : row = [old EXCEPT !.schedule = schedule, !.workflow = "scheduled"]
  OBVIOUS
<1>4. PICK e : e = [type |-> "schedule.created", schedule |-> schedule]
  OBVIOUS
<1>5. PICK f : f = [type |-> "schedule.cancelled"]
  OBVIOUS
<1>6. Exists(v) /\ (Commit(v, row, Append(<<>>, e)) \/ Commit(v, row, Append(<<f>>, e)))
  BY <1>1, <1>2, <1>3, <1>4, <1>5 DEF Schedule, Reschedule, PutSchedule, Update, Writable, WritableItem
<1>7. old \in Row
  BY <1>1, <1>6, RowTyped
<1>8. row.workflow = "scheduled"
  BY <1>3, <1>7 DEF Row
<1>9. \A s : StageAfter(s, e) = row.workflow
  BY <1>4, <1>8 DEF StageAfter
<1>10. CASE Commit(v, row, Append(<<>>, e))
  <2>1. Append(<<>>, e) = <<e>>
    OBVIOUS
  <2>2. ReplayEvent(old, e) = row
    BY <1>3, <1>4 DEF ReplayEvent
  <2> QED  BY <1>1, <1>9, <1>10, <2>1, <2>2, OneReplays
<1>11. CASE Commit(v, row, Append(<<f>>, e))
  <2>1. PICK events : events = Append(<<f>>, e)
    OBVIOUS
  <2>2. DOMAIN events = 1 .. 2 /\ events[1] = f /\ events[2] = e
    BY <2>1, TwoAppended
  <2>3. PICK first : first = [old EXCEPT !.schedule = None, !.workflow = "approved"]
    OBVIOUS
  <2>4. [first EXCEPT !.schedule = schedule, !.workflow = "scheduled"] = row
    BY <1>3, <1>7, <2>3 DEF Row
  <2>5. ReplayEvent(old, f) = first
    BY <1>5, <1>7, <2>3, EventsApply
  <2>6. ReplayEvent(first, e) = [first EXCEPT !.schedule = schedule, !.workflow = "scheduled"]
    BY <1>4 DEF ReplayEvent
  <2>7. Describes(events, 2, old, stage[v], row)
    BY <1>9, <2>2, <2>4, <2>5, <2>6, TwoEvents
  <2> QED  BY <1>1, <1>11, <2>1, <2>7, CommitReplays
<1> QED  BY <1>6, <1>10, <1>11

LEMMA UnscheduleReplays == ASSUME IInv, Replayed, NEW v \in Variants, Unschedule(v) PROVE Replayed'
<1>1. PICK row : row = [variant[v] EXCEPT !.schedule = None, !.workflow = "approved"]
  OBVIOUS
<1>2. PICK e : e = [type |-> "schedule.cancelled"]
  OBVIOUS
<1>3. Commit(v, row, <<e>>) /\ Exists(v)
  BY <1>1, <1>2 DEF Unschedule, Update, Writable, WritableItem
<1>4. variant[v] \in Row /\ row.workflow = "approved"
  BY <1>1, <1>3, RowTyped DEF Row
<1>5. ReplayEvent(variant[v], e) = row /\ StageAfter(stage[v], e) = row.workflow
  BY <1>1, <1>2, <1>4, EventsApply
<1> QED  BY <1>3, <1>5, OneReplays

\* An attempt and its end leave the stage, or change it with their event.
LEMMA AttemptReplays ==
    ASSUME IInv, Replayed, NEW v \in Variants,
           (\E r \in Revision : BeginManualPublication(v, r)) \/ CancelManualPublication(v)
    PROVE  Replayed'
<1>1. Exists(v)
  BY DEF BeginManualPublication, CancelManualPublication, Resolvable, Writable, WritableItem
<1>2. variant[v] \in Row /\ stage[v] = variant[v].workflow
  BY <1>1, RowTyped DEF Replayed
<1>3. CASE \E r \in Revision : BeginManualPublication(v, r)
  <2>1. PICK attempt : attempt = [revision |-> variant[v].revision, approval |-> variant[v].approval,
                                  schedule |-> variant[v].schedule]
    OBVIOUS
  <2>2. PICK row : row = [variant[v] EXCEPT !.pending = attempt]
    OBVIOUS
  <2>3. PICK e : e = [type |-> "attempt_started", attempt |-> attempt]
    OBVIOUS
  <2>4. Commit(v, row, <<e>>)
    BY <1>3, <2>1, <2>2, <2>3 DEF BeginManualPublication, Update
  <2>5. row.workflow = stage[v]
    BY <1>2, <2>2 DEF Row
  <2>6. ReplayEvent(variant[v], e) = row
    BY <2>2, <2>3 DEF ReplayEvent
  <2>7. StageAfter(stage[v], e) = row.workflow
    BY <2>3, <2>5 DEF StageAfter
  <2> QED  BY <2>4, <2>6, <2>7, OneReplays
<1>4. CASE CancelManualPublication(v)
  <2>1. PICK row : row = [variant[v] EXCEPT !.pending = None]
    OBVIOUS
  <2>2. PICK e : e = [type |-> "attempt_cancelled"]
    OBVIOUS
  <2>3. Commit(v, row, <<e>>)
    BY <1>4, <2>1, <2>2 DEF CancelManualPublication, Update
  <2>4. row.workflow = stage[v]
    BY <1>2, <2>1 DEF Row
  <2>5. ReplayEvent(variant[v], e) = row /\ StageAfter(stage[v], e) = row.workflow
    BY <1>2, <2>1, <2>2, <2>4, EventsApply
  <2> QED  BY <2>3, <2>5, OneReplays
<1> QED  BY <1>3, <1>4

LEMMA ConfirmReplays == ASSUME IInv, Replayed, NEW v \in Variants, ConfirmManualPublication(v) PROVE Replayed'
<1>1. PICK publication : publication = [attempt |-> variant[v].pending, corrections |-> 0]
  OBVIOUS
<1>2. PICK row : row = [variant[v] EXCEPT !.publication = publication, !.pending = None, !.approval = None,
                                          !.schedule = None, !.workflow = "published"]
  OBVIOUS
<1>3. PICK e : e = [type |-> "confirmed", publication |-> publication]
  OBVIOUS
<1>4. Commit(v, row, <<e>>) /\ Exists(v)
  BY <1>1, <1>2, <1>3 DEF ConfirmManualPublication, Update, Resolvable, WritableItem
<1>5. row.workflow = "published"
  BY <1>2, <1>4, RowTyped DEF Row
<1>6. ReplayEvent(variant[v], e) = row
  BY <1>2, <1>3 DEF ReplayEvent
<1>7. StageAfter(stage[v], e) = row.workflow
  BY <1>3, <1>5 DEF StageAfter
<1> QED  BY <1>4, <1>6, <1>7, OneReplays

LEMMA FailReplays == ASSUME IInv, Replayed, NEW v \in Variants, FailManualPublication(v) PROVE Replayed'
<1>1. PICK old : old = variant[v]
  OBVIOUS
<1>2. PICK row : row = [old EXCEPT !.pending = None, !.schedule = None, !.workflow = "approved", !.failed = TRUE]
  OBVIOUS
<1>3. PICK events : events = Append(Cancelled(old), [type |-> "attempt_failed"])
  OBVIOUS
<1>4. Commit(v, row, events) /\ Exists(v)
  BY <1>1, <1>2, <1>3 DEF FailManualPublication, Update, Resolvable, WritableItem
<1>5. old \in Row
  BY <1>1, <1>4, RowTyped
<1>6. PICK first : first = [old EXCEPT !.schedule = None, !.workflow = "approved"]
  OBVIOUS
<1>7. first \in Row /\ row.workflow = "approved"
  BY <1>2, <1>5, <1>6 DEF Row, Workflow
<1>8. /\ [old EXCEPT !.pending = None, !.workflow = "approved", !.schedule = None, !.failed = TRUE] = row
      /\ [first EXCEPT !.pending = None, !.workflow = "approved", !.schedule = None, !.failed = TRUE] = row
  BY <1>2, <1>5, <1>6 DEF Row
<1>9. PICK e : e = [type |-> "attempt_failed"]
  OBVIOUS
<1>10. /\ ReplayEvent(old, e) = row
       /\ ReplayEvent(first, e) = row /\ \A s : StageAfter(s, e) = row.workflow
  BY <1>5, <1>7, <1>8, <1>9, EventsApply
<1>11. \E n : Describes(events, n, old, stage[v], row)
  BY <1>3, <1>5, <1>6, <1>9, <1>10, CancelledThen
<1> QED  BY <1>1, <1>4, <1>11, CommitReplays

LEMMA CorrectReplays == ASSUME IInv, Replayed, NEW v \in Variants, CorrectPublication(v) PROVE Replayed'
<1>1. PICK row : row = [variant[v] EXCEPT !.publication.corrections = @ + 1]
  OBVIOUS
<1>2. PICK e : e = [type |-> "corrected"]
  OBVIOUS
<1>3. Commit(v, row, <<e>>) /\ Exists(v)
  BY <1>1, <1>2 DEF CorrectPublication, Update, WritableItem
<1>4. variant[v] \in Row /\ stage[v] = variant[v].workflow
  BY <1>3, RowTyped DEF Replayed
<1>5. row.workflow = stage[v]
  BY <1>1, <1>4 DEF Row
<1>6. ReplayEvent(variant[v], e) = row /\ StageAfter(stage[v], e) = row.workflow
  BY <1>1, <1>2, <1>4, <1>5, EventsApply
<1> QED  BY <1>3, <1>6, OneReplays

\* Nothing else changes a row, or commits an event.
LEMMA OthersReplay == ASSUME Replayed, UNCHANGED <<variant, rebuilt, stage>> PROVE Replayed'
BY DEF Replayed, Exists

LEMMA NextReplays == ASSUME IInv, Replayed, [Next]_vars PROVE Replayed'
<1>1. ASSUME NEW v \in Variants, VariantCommand(v) PROVE Replayed'
  <2>1. ASSUME NEW i \in Items, NEW c \in Contents, CreateContentItem(i, v, c) \/ AddVariant(i, v, c) PROVE Replayed'
    BY <2>1, CreateReplays
  <2>2. ASSUME NEW c \in Contents, SaveRevision(v, c) PROVE Replayed'
    BY <2>2, SaveReplays
  <2>3. ASSUME NEW r \in Revision,
               \/ SubmitReview(v, r) \/ RequestChanges(v, r)
               \/ Schedule(v, r) \/ Reschedule(v, r) \/ BeginManualPublication(v, r)
        PROVE  Replayed'
    BY <2>3, ReviewReplays, ScheduleReplays, AttemptReplays
  <2>4. ASSUME NEW r \in Revision, BeginRender(v, r) PROVE Replayed'
    BY <2>4, OthersReplay DEF BeginRender
  <2>5. ASSUME NEW r \in Revision, NEW o \in Owners, NEW receipt \in receipts, AcknowledgePreview(o, v, r, receipt)
        PROVE  Replayed'
    BY <2>5, OthersReplay DEF AcknowledgePreview
  <2>6. ASSUME NEW r \in Revision, NEW o \in Owners, NEW preview \in previews, Approve(o, v, r, preview)
        PROVE  Replayed'
    BY <2>6, ApproveReplays
  <2>7. CASE EndRender(v)
    BY <2>7, OthersReplay DEF EndRender
  <2>8. CASE RevokeApproval(v) \/ Unschedule(v) \/ ConfirmManualPublication(v)
             \/ FailManualPublication(v) \/ CancelManualPublication(v) \/ CorrectPublication(v)
    BY <2>8, RevokeReplays, UnscheduleReplays, ConfirmReplays, FailReplays, AttemptReplays, CorrectReplays
  <2> QED  BY <1>1, <2>1, <2>2, <2>3, <2>4, <2>5, <2>6, <2>7, <2>8 DEF VariantCommand
<1>2. CASE \/ \E i \in Items : ArchiveContentItem(i) \/ RestoreContentItem(i)
           \/ ArchiveCampaign \/ RestoreCampaign
           \/ ReplaceProfile \/ \E a \in Assets : DeactivateAsset(a)
           \/ UNCHANGED vars
  <2>1. UNCHANGED <<variant, rebuilt, stage>>
    BY <1>2 DEF ArchiveContentItem, RestoreContentItem, ItemArchive, ArchiveCampaign, RestoreCampaign,
         CampaignArchive, ReplaceProfile, DeactivateAsset, vars
  <2> QED  BY <2>1, OthersReplay
<1> QED  BY <1>1, <1>2 DEF Next

\* The projection that a command changes in place is the one its events
\* describe: neither projection.verify nor the commit trigger ever refuses a
\* command that the domain accepted.
THEOREM ProjectionAlwaysReplayed == Spec => []ProjectionIsReplayed
<1>1. Init => Replayed
  BY DEF Init, Replayed, Exists
<1>2. IInv /\ Replayed /\ [Next]_vars => Replayed'
  BY NextReplays
<1>3. Replayed => ProjectionIsReplayed
  BY DEF Replayed, ProjectionIsReplayed
<1> QED  BY <1>1, <1>2, <1>3, SpineInvariant, PTL DEF Spec
=============================================================================
