SPECIFICATION Spec
CONSTANTS
    s1 = s1
    s2 = s2
    p1 = p1
    p2 = p2
    d1 = d1
    d2 = d2
    SceneIds <- MCSceneIds
    Posts <- MCPosts
    Deletes <- MCDeletes
    NoFile = NoFile
    NoScenes <- MCNoScenes
    MaxSaveFailures = 2
    MaxMirrorFailures = 2
    MaxRestarts = 1
SYMMETRY MCSymmetry
\* Each goroutine serves one request, after which nothing is left to do.
CHECK_DEADLOCK FALSE
INVARIANTS
    AckedScenesSurvive
    DeletedScenesStayDeleted
    RejectedLeavesNothing
    ScenesAreMirrored
