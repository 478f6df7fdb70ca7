SPECIFICATION FairSpec
CONSTANTS
    m1 = m1 m2 = m2 s1 = s1 s2 = s2
    Migrators <- TwoMigrators
    Apps <- TwoApps
    LastVersion = 3
    Retries = 2
    MaxCrashes = 2
CHECK_DEADLOCK FALSE
INVARIANTS
    TypeOK
    VersionIsHonest
    AppsSeeMigratedDatabase
PROPERTIES
    EveryMigratorEnds
