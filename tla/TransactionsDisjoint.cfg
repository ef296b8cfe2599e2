SPECIFICATION Spec
CONSTANTS
    w1 = w1
    w2 = w2
    s1 = s1
    s2 = s2
    SourceIds = {s1, s2}
    DisIds = {d1, d2}
    MetadataHashes = {"bare"}
    ObservationHashes = {1, 2}
    StatusOf <- MCStatusOf
    LocationOf <- MCLocationOf
    Locations = {"victoria"}
    RunIds = {r1}
    Modes = {"scheduled"}
    Times = {1, 2}
    Counts <- MCCounts
    Coverages = {}
    None = None
    Writers = {w1, w2}
    Owns <- MCOwnsDisjoint
    MaxObservations = 3
CONSTRAINT Bounded
PROPERTY ImplementsRepository
