SPECIFICATION FairSpec

CONSTANTS
    c1 = c1
    b1 = b1
    b2 = b2
    Propositions = {c1}
    Bundles = {b1}
    BundleOf <- Single
    MaxDonors = 3
    ChallengeEnd = 2
    ShelterEnd = 3
    MaxTime = 4
    Lost = {}
    MaxFiles = 3
    MaxRestarts = 1

INVARIANT TypeOK
INVARIANT ShelteredIsKept
 

    
