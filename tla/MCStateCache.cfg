SPECIFICATION FairSpec
CONSTANTS
    l1 = l1
    dim = dim
    bright = bright
    r1 = r1
    r2 = r2
    Lights <- OneLight
    Looks <- TwoLooks
    None = None
    Readers <- First
    Writers <- Second
    Commands <- AllCommands
    ChanCap = 1
    InitialDelay = 1
    MaxDelay = 2
    MaxChanges = 2
    MaxDrops = 2
\* Once every request is served and Home Assistant is quiet, nothing happens.
CHECK_DEADLOCK FALSE
INVARIANTS
    EventsCoherent
PROPERTIES
    Resubscribes
    AttributesNeverTurnOn
    ImplementsFeed
