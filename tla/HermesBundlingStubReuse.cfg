SPECIFICATION Spec
CONSTANTS
    w1 = w1 w2 = w2 a1 = a1 a2 = a2 v1 = v1 v2 = v2 b1 = b1 b2 = b2 b3 = b3
    Workers <- OneWorker
    NoWorker = NoWorker
    Assets <- OneAsset
    Events <- OneEvent
    AssetOf <- AboutFirst
    Timestamp <- Times
    Bundles <- ThreeBundles
    NoBundle = NoBundle
    NoStub = NoStub
    ItemsLimit = 2
    MinItems = 1
    MaxSeq = 3
    MaxCrashes = 1
    TTLOutlivesWork = TRUE
CONSTRAINT
    SeqBelowBound
PROPERTIES
    OthersLeftUntouched
