SPECIFICATION Spec
CONSTANTS
    b1 = b1 b2 = b2 c1 = c1 c2 = c2
    NoBundle = NoBundle
    Bundles <- TwoBundles
    Calls <- TwoCalls
    Duration = 20
    MaxOngoing = 1
    MaxChecks = 2
    MaxTroubles = 1
INVARIANTS
    TypeOK
    NothingNeededIsRemoved
    TransfersBounded
    NoBundleIsDropped
SYMMETRY Symmetry
