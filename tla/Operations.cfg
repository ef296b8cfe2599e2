SPECIFICATION FairSpec
CONSTANTS
    Schedulers = {k1, k2, k3}
    None = None
INVARIANTS
    ScrapeWatched
    NoOverlapUnlessLost
PROPERTIES
    StopHonoured
    ScrapesKeepComing
CHECK_DEADLOCK FALSE
