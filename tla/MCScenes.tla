------------------------------ MODULE MCScenes ------------------------------
(* Small instances of Scenes: two scenes, two requests of each kind.       *)
EXTENDS Scenes, TLC

CONSTANTS s1, s2, p1, p2, d1, d2

MCSceneIds == {s1, s2}
MCPosts == {p1, p2}
MCDeletes == {d1, d2}
\* A value that is no set of ids, and that TLC can compare with one.
MCNoScenes == {"no scenes"}
MCSymmetry == Permutations(MCSceneIds) \cup Permutations(MCPosts)
              \cup Permutations(MCDeletes)
=============================================================================
