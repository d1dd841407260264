SPECIFICATION Spec
CONSTANTS
    e1 = e1
    e2 = e2
    r1 = r1
    r2 = r2
    None = None
    Odd = Odd
    Other = Other
    Entities <- MCEntities
    Requests <- MCRequests
    FirstRegistries <- MCFirstRegistries
    FirstLights <- MCFirstLights
    Levels <- MCLevels
    Bodies <- MCBodies
    MaxID = 2
    MaxErrors = 1
    MaxSwitches = 1
\* Each goroutine serves one request, after which nothing is left to do.
CHECK_DEADLOCK FALSE
SYMMETRY MCSymmetry
INVARIANTS
    ReportsWereTrue
    OnlyExposedAreCommanded
    EchoIsTrue
