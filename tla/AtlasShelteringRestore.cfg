SPECIFICATION Spec

CONSTANTS
    c1 = c1
    b1 = b1
    b2 = b2
    Propositions = {c1}
    Bundles = {b1, b2}
    BundleOf <- Single
    MaxDonors = 1
    ChallengeEnd = 2
    ShelterEnd = 3
    MaxTime = 4
    Lost = {b2}
    MaxFiles = 2
    MaxRestarts = 0

PROPERTY OnlyCleanupIsRemoved
