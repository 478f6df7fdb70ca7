SPECIFICATION Spec
CONSTANTS
    b1 = b1 b2 = b2 d1 = d1 d2 = d2 k1 = k1 k2 = k2
    NoBundle = NoBundle
    NoDonor = NoDonor
    NoKey = NoKey
    Bundles <- OneBundle
    Donors <- TwoDonors
    Keys <- TwoKeys
    Entities <- BackupEntities
    Collections <- OrderedCollections
    Required <- RequiredCollections
    MaxDocs = 2
    MaxBackups = 2
    MaxLosses = 1
    MaxTroubles = 1
INVARIANTS
    TypeOK
    BundlesAreBack
    NoHalfBundle
    CollectionsAreBack
    NothingIsOverwritten
SYMMETRY Symmetry
