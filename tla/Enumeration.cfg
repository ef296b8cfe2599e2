SPECIFICATION FairSpec
CONSTANTS
    Listings <- MCListings
    Groups = 2
    PageSize = 1
    MaxListed = 3
    MaxPages = 2
    Limit = 3
INVARIANTS
    TypeOK
    EnumerationSound
    DuplicatesAcrossGroups
PROPERTIES
    EnumerationEnds
CHECK_DEADLOCK FALSE
