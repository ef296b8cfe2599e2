SPECIFICATION Spec
CONSTANTS
    p1 = p1
    p2 = p2
    s1 = s1
    s2 = s2
    d1 = d1
    SourceIds = {s1, s2}
    DisIds = {d1, d2}
    MetadataHashes = {"bare"}
    ObservationHashes = {1}
    StatusOf <- MCStatusOf
    LocationOf <- MCLocationOf
    Locations = {"victoria"}
    None = None
    Processes = {p1, p2}
    Manual = {p2}
    Groups = 2
    Matches <- MCUnfiltered
    Limit <- MCLimits
    MaxTime = 2
    MaxRelists = 1
SYMMETRY Interchangeable
CONSTRAINT TwoListings
ACTION_CONSTRAINT WithinBounds
INVARIANTS
    TypeOK
    AbsencesBackedByCoverage
PROPERTIES
    SteadyNeverAbsent
CHECK_DEADLOCK FALSE
