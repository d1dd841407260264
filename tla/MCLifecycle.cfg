SPECIFICATION LFairSpec
CONSTANTS
    t1 = t1
    t2 = t2
    p1 = p1
    p2 = p2
    h1 = h1
    h2 = h2
    c1 = c1
    c2 = c2
    m1 = m1
    m2 = m2
    Tabs <- TwoTabs
    Passwords <- MCPasswords
    Targets <- MCTargets
    None = None
    NoFile = NoFile
    Unreadable = Unreadable
    FirstFiles <- MCFirstFiles
    Conns <- TwoConns
    Macs <- TwoMacs
    FirstMac = m1
    NoCert = NoCert
    Torn = Torn
    Grace = 1
    AfterWizard = FALSE
    MaxReadFailures = 1
    MaxMacChanges = 1
    MaxSubmits = 2
    MaxSaveFailures = 1
    MaxRestarts = 2
\* The bridge that has been set up, or an unreadable file, ends the story.
CHECK_DEADLOCK FALSE
INVARIANTS
    LTypeOK
    DoneMeansPersisted
    SerialIsBridgeID
    AdvertsWithdrawn
PROPERTIES
    OnlyVerifiedIsPersisted
    ChosenPasswordIsPersisted
    SetupEnds
    IdentityStable
    CutOffOnlyAfterGrace
    ShutdownEnds
