SPECIFICATION FairSpec
CONSTANTS
    Urls = {a, b, elsewhere}
    OnHost = {a, b}
    Sessions = {n1, n2}
    MaxRedirects = 2
    MaxRetries = 1
    MinInterval = 2
    RetryBackoff = 1
    MaxBackoff = 2
    MaxRetryAfter = 3
    None = None
INVARIANTS
    TypeOK
    RequestsBounded
    HopsSafe
    MetricsAddUp
    SearchInSession
PROPERTIES
    RequestsSpaced
    TaskEnds
CHECK_DEADLOCK FALSE
