SPECIFICATION PairingSpec
CONSTANTS
    a1 = a1
    a2 = a2
    a3 = a3
    u1 = u1
    u2 = u2
    u3 = u3
    Apps <- MCApps
    Usernames <- MCUsernames
    NoFile = NoFile
    NoEntries <- MCNoEntries
    Window = 2
    MaxTime = 4
    MaxSaveFailures = 2
    MaxRestarts = 2
SYMMETRY MCSymmetry
INVARIANTS
    PairedAppsStayPaired
PROPERTIES
    AcceptedInWindow
