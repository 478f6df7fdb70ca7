SPECIFICATION Spec
CONSTANTS
    i1 = i1 i2 = i2
    Ids <- TwoIds
    MaxCount = 2
    Step = 2
    OnboardBlock = 2
    MaxBlock = 4
    MaxEvents = 3
    Duration = 1
    MaxRestarts = 2
    MaxBrokenOff = 1
    MaxFailures = 1
INVARIANTS
    TypeOK
    ListIsTheChains
    RestoresWhatIsSheltered
    CopyAgrees
    AddedAtMostOnce
PROPERTIES
    CatchesUp
CHECK_DEADLOCK FALSE
