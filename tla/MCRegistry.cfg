SPECIFICATION Spec
CONSTANTS
    e1 = e1
    e2 = e2
    t1 = t1
    t2 = t2
    Entities <- TwoEntities
    Tabs <- TwoTabs
    FirstFiles <- MCFirstFiles
    NoFile = NoFile
    MaxId = 4
    MaxGroupId = 2
    MaxSaveFailures = 2
INVARIANTS
    UniqueIds
    DurableIdsNeverReused
    RestartTransparent
PROPERTIES
    NoPhantomMembers
    ImplementsIdBook
