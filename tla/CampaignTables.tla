---------------------------- MODULE CampaignTables ----------------------------
(***************************************************************************)
(* The campaign tables, below the commands of CampaignSpine: what the      *)
(* constraints and triggers of the database demand of the rows a command   *)
(* inserts and of the projection it leaves behind.  The domain decides in  *)
(* memory; what the database refuses after it has accepted is an error the *)
(* customer cannot do anything about.                                      *)
(*                                                                         *)
(* Of the rows that are never removed the model keeps the current ones.  A *)
(* reference to a row inserted earlier is looked for among those, so what  *)
(* is accepted here is accepted by the database.                           *)
(***************************************************************************)
EXTENDS CampaignSpine

\* The record in a column of the row that the command puts there.
Inserted(old, new, column) ==
    IF new[column] = None \/ (old # None /\ old[column] = new[column]) THEN {} ELSE {new[column]}

-----------------------------------------------------------------------------
(* Rows that are inserted and never changed. *)

\* campaign_revisions: the first has no parent, any other follows its parent,
\* and no number is given twice.
RevisionAccepted(v, old, new) ==
    /\ new.revision[1] = v
    /\ IF old = None THEN new.revision[2] = 1
       ELSE old.revision # new.revision => new.revision[2] = old.revision[2] + 1

\* campaign_preview_render_receipts: its revision exists, its profile too.
ReceiptAccepted(receipt) ==
    /\ receipt.profile \in Profiles
    /\ LET row == variant[receipt.revision[1]]
       IN  row # None /\ receipt.revision[2] \in 1 .. row.revision[2]

\* campaign_preview_evidence: of the revision, with its content.
PreviewAccepted(preview) ==
    \E v \in Variants : /\ Exists(v)
                        /\ preview.receipt.revision = variant[v].revision
                        /\ preview.receipt.content = variant[v].content

\* campaign_approval_events: the preview is one of this revision that the
\* approver has acknowledged.
ApprovalAccepted(approval) ==
    /\ approval.preview \in previews
    /\ approval.preview.receipt.revision = approval.revision
    /\ approval.preview.by = approval.by

\* campaign_schedule_entries: of an approval of the same revision, which an
\* earlier command has inserted.
ScheduleAccepted(old, schedule) ==
    /\ old # None /\ old.approval # None
    /\ schedule.approval = old.approval
    /\ schedule.revision = old.approval.revision

\* campaign_manual_attempts: of such an approval too, and of a schedule that is
\* there if there is one.
AttemptAccepted(old, attempt) ==
    /\ old # None /\ old.approval # None
    /\ attempt.approval = old.approval
    /\ attempt.revision = old.approval.revision
    /\ attempt.schedule \in {old.schedule, None}

\* campaign_publications: of the attempt that the command resolves, the only one
\* of the variant and of the attempt.
PublicationAccepted(old, publication) ==
    /\ old # None /\ old.publication = None
    /\ old.pending # None /\ publication.attempt = old.pending

\* campaign_publication_corrections: the chain of one publication does not fork.
CorrectionAccepted(old, publication) ==
    /\ old # None /\ old.publication # None
    /\ publication.attempt = old.publication.attempt
    /\ publication.corrections = old.publication.corrections + 1

InsertsAccepted(v, old, new) ==
    /\ RevisionAccepted(v, old, new)
    /\ \A approval \in Inserted(old, new, "approval") : ApprovalAccepted(approval)
    /\ \A schedule \in Inserted(old, new, "schedule") : ScheduleAccepted(old, schedule)
    /\ \A attempt \in Inserted(old, new, "pending") : AttemptAccepted(old, attempt)
    /\ \A publication \in Inserted(old, new, "publication") :
          \/ PublicationAccepted(old, publication)
          \/ CorrectionAccepted(old, publication)

-----------------------------------------------------------------------------
(* The rows that are updated. *)

\* campaign_platform_variants_pointer_shape.
PointerShape(row) ==
    LET approved == row.approval # None
        scheduled == row.schedule # None
        published == row.publication # None
    IN  CASE row.workflow \in {"draft", "review"} -> ~approved /\ ~scheduled /\ ~published
          [] row.workflow = "approved" -> approved /\ ~scheduled /\ ~published
          [] row.workflow = "scheduled" -> approved /\ scheduled /\ ~published
          [] row.workflow = "published" -> ~approved /\ ~scheduled /\ row.pending = None /\ published

\* validate_campaign_variant_projection: every pointer is to a record of the
\* current revision, a schedule's and an attempt's of the active approval.
ProjectionAccepted(row) ==
    /\ row.approval # None => row.approval.revision = row.revision
    /\ row.schedule # None =>
          row.schedule.revision = row.revision /\ row.schedule.approval = row.approval
    /\ row.pending # None =>
          row.pending.revision = row.revision /\ row.pending.approval = row.approval
    /\ row.publication # None => row.publication.attempt.revision = row.revision

\* validate_projection_identity.
IdentityKept(old, new) ==
    old # None =>
        /\ new.item = old.item
        /\ old.workflow = "published" =>
              \E n \in 0 .. MaxCorrections : new = [old EXCEPT !.publication.corrections = n]

\* validate_campaign_commit: an item has a variant.
ItemsHaveVariants ==
    \A i \in Items : item[i] # "absent" => \E v \in Variants : Exists(v) /\ variant[v].item = i

-----------------------------------------------------------------------------
\* What a step inserts, and the projection it leaves, satisfies the constraints
\* and the triggers.
CommandAccepted ==
    /\ \A v \in Variants : variant'[v] # variant[v] =>
          LET old == variant[v]
              new == variant'[v]
          IN  /\ new # None
              /\ InsertsAccepted(v, old, new)
              /\ PointerShape(new)
              /\ ProjectionAccepted(new)
              /\ IdentityKept(old, new)
    /\ \A receipt \in receipts' \ receipts : ReceiptAccepted(receipt)
    /\ \A preview \in previews' \ previews : PreviewAccepted(preview)
    /\ ItemsHaveVariants'

\* No command that the domain accepts is refused by the database, neither a
\* row it inserts nor the projection it commits, after any sequence of
\* approvals, schedules, attempts, revisions, previews and archives.
DatabaseAcceptsCommands == [][CommandAccepted]_vars

=============================================================================
