SPECIFICATION Spec
CONSTANTS
    p1 = p1
    p2 = p2
    s1 = s1
    s2 = s2
    d1 = d1
    SourceIds = {s1, s2}
    DisIds = {d1, d2}
    MetadataHashes = {"bare"}
    ObservationHashes = {1}
    StatusOf <- MCStatusOf
    LocationOf <- MCLocationOf
    Locations = {"victoria"}
    None = None
    Processes = {p1, p2}
    Manual = {p2}
    Groups = 1
    Matches <- MCKeyword
    Limit <- MCNoLimits
    MaxTime = 1
    MaxRelists = 0
PROPERTY SteadyNeverAbsent
CHECK_DEADLOCK FALSE
