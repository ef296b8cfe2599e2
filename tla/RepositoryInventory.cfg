SPECIFICATION Spec
CONSTANTS
    SourceIds = {s1, s2}
    DisIds = {d1, d2}
    MetadataHashes = {"bare"}
    ObservationHashes = {1, 2}
    StatusOf <- MCStatusOf
    LocationOf <- MCLocationOf
    Locations = {"victoria"}
    RunIds = {r1, r2, r3}
    Modes = {"scheduled"}
    Times = {1}
    Counts <- MCCounts
    Coverages <- MCCoverages
    None = None
    MaxObservations = 2
    MaxAbsences = 3
CONSTRAINT Bounded
SYMMETRY Interchangeable
INVARIANTS
    IdentityUnique
    InventoryConsistent
PROPERTIES
    InventoryMovesWithCompleteRuns
