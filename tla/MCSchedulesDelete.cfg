SPECIFICATION Spec
CONSTANTS
    DayLength = 3
    Never = Never
    NoSchedule = NoSchedule
    NoFile = NoFile
    Unreadable = Unreadable
    FirstFiles <- NoFileYet
    MaxId = 2
    MaxMinute = 4
    TickTimeout = 2
    CallTimeout = 1
    MaxClockBacks = 0
    MaxFaults = 0
\* The clock stops at MaxMinute, and with it the system.
CHECK_DEADLOCK FALSE
PROPERTIES
    DeletedStaysDeleted
