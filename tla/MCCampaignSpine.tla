---------------------------- MODULE MCCampaignSpine ----------------------------
(* A small campaign: an image item and a text item, two variants. *)
EXTENDS CampaignTables, TLC

CONSTANTS image, text, a1, o1, o2, v1, v2

MCFormatOf == (image :> "image") @@ (text :> "text")
MCAssetKind == [a \in Assets |-> "image"]
MCAssetUses == [a \in Assets |-> Uses]

\* A text, and an image post.
MCContents == {[body |-> TRUE, primary |-> {}, supporting |-> {}],
               [body |-> FALSE, primary |-> {a1}, supporting |-> {}]}

SpineSymmetry == Permutations(Owners) \cup Permutations(Variants)
=============================================================================
