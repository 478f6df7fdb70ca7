SPECIFICATION FairSpec
CONSTANTS
    w1 = w1 w2 = w2 a1 = a1 a2 = a2 v1 = v1 v2 = v2 b1 = b1 b2 = b2 b3 = b3
    Workers <- TwoWorkers
    NoWorker = NoWorker
    Assets <- TwoAssets
    Events <- TwoEvents
    AssetOf <- AboutFirst
    Timestamp <- Times
    Bundles <- TwoBundles
    NoBundle = NoBundle
    NoStub = NoStub
    ItemsLimit = 2
    MinItems = 2
    MaxSeq = 1
    MaxCrashes = 0
    TTLOutlivesWork = TRUE
INVARIANTS
    TypeOK
    OneWorkerAtATime
    NamedByItsOwnBundle
    NoStrandedStub
PROPERTIES
    ImplementsEntityBundling
    BacklogIsProven
