SPECIFICATION FairSpec
CONSTANTS
    DayLength = 2
    Never = Never
    NoSchedule = NoSchedule
    NoFile = NoFile
    Unreadable = Unreadable
    FirstFiles <- MCFirstFiles
    MaxId = 2
    MaxMinute = 3
    TickTimeout = 2
    CallTimeout = 1
    MaxClockBacks = 2
    MaxFaults = 2
\* The clock stops at MaxMinute, and with it the system.
CHECK_DEADLOCK FALSE
INVARIANTS
    FiresEveryDay
    IdsNotHandedOutAgain
PROPERTIES
    AtMostOncePerMinute
    TicksEnd
