SPECIFICATION BoundedSpec
CONSTANTS
    SourceIds = {1, 2}
    DisIds = {1, 2}
    MetadataHashes = {"bare"}
    ObservationHashes = {1, 2, 3}
    StatusOf <- MCStatusOf
    LocationOf <- MCLocationOf
    Locations = {"victoria"}
    RunIds = {r1, r2}
    Modes = {"detail", "scheduled"}
    Times <- MCTimes
    Counts = {"counts"}
    Coverages <- MCCoverages
    None = None
    ClosingOf <- MCClosingOf
    BidOf <- MCBidOf
    BidCountOf <- MCBidCountOf
    Filters <- MCFilters
    PageSize = 1
    Pages = {1, 2}
    MaximumRun = 1
    Freshness = 1
    MaxTime = 5
    Second = 2
    MaxObservations = 2
    MaxListingTime = 1
    MaxManualTime = 3
SYMMETRY Interchangeable
INVARIANTS
    RequestsTypeOK
    StatusWasTrue
    DeadServiceNoticed
    EndpointsAgree
    PageNeverShort
    PagesPartition
    ViewsAgree
CHECK_DEADLOCK FALSE
