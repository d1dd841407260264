SPECIFICATION Spec
CONSTANTS
    u1 = u1
    u2 = u2
    None = None
    Releases <- MCReleases
    Fallback <- MCFallback
    SwPin <- PinnedSw
    ApiPin <- PinnedApi
    Updaters <- TwoUpdaters
    TTL = 2
    MaxHours = 5
    MaxFailures = 2
\* The clock stops at MaxHours.
CHECK_DEADLOCK FALSE
INVARIANTS
    PairBelongsTogether
    AdvertisedVersionAgrees
    FreshOrRetrying
PROPERTIES
    NeverOlder
