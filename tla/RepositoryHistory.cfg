SPECIFICATION Spec
CONSTANTS
    SourceIds = {s1}
    DisIds = {d1}
    MetadataHashes = {"bare", "located"}
    ObservationHashes = {1, 2, 3}
    StatusOf <- MCStatusOf
    LocationOf <- MCLocationOf
    Locations = {"victoria"}
    RunIds = {r1}
    Modes = {"scheduled"}
    Times = {1, 2, 3}
    Counts <- MCCounts
    Coverages <- MCTruncated
    None = None
    MaxObservations = 4
    MaxAbsences = 3
CONSTRAINT Bounded
INVARIANTS
    TypeOK
    CurrentObservationRecorded
    RowsConsistent
    ClosureBacked
PROPERTIES
    TerminalAbsorbing
    HistoryOnlyGrows
