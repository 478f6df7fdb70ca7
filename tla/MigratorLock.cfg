SPECIFICATION Spec
CONSTANTS
    m1 = m1 m2 = m2 s1 = s1 s2 = s2
    Migrators <- TwoMigrators
    Apps <- TwoApps
    LastVersion = 2
    Retries = 2
    MaxCrashes = 0
CHECK_DEADLOCK FALSE
INVARIANTS
    OneMigrationAtATime
