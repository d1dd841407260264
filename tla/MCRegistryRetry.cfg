SPECIFICATION Spec
CONSTANTS
    e1 = e1
    e2 = e2
    t1 = t1
    t2 = t2
    Entities <- TwoEntities
    Tabs <- OneTab
    FirstFiles <- MCFirstFiles
    NoFile = NoFile
    MaxId = 4
    MaxGroupId = 2
    MaxSaveFailures = 1
INVARIANTS
    AckedEntriesSurvive
