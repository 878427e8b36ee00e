SPECIFICATION Spec
CONSTANTS
    image = image
    text = text
    a1 = a1
    o1 = o1
    o2 = o2
    v1 = v1
    v2 = v2
    Owners = {o1, o2}
    Items = {image, text}
    Variants = {v1, v2}
    Assets = {a1}
    FormatOf <- MCFormatOf
    AssetKind <- MCAssetKind
    AssetUses <- MCAssetUses
    Contents <- MCContents
    Profiles = {1}
    MaxRevisions = 2
    MaxReceipts = 2
    MaxPreviews = 2
    MaxCorrections = 1
SYMMETRY SpineSymmetry
INVARIANTS
    ProjectionIsReplayed
    PublishedAsPreviewed
    ArchivedIsIdle
PROPERTIES
    FrozenWhileAttempted
    DatabaseAcceptsCommands
CHECK_DEADLOCK FALSE
