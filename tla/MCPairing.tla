----------------------------- MODULE MCPairing -----------------------------
(* A small instance of Pairing: three apps, a window of two seconds.       *)
EXTENDS Pairing, TLC

CONSTANTS a1, a2, a3, u1, u2, u3

MCApps == {a1, a2, a3}
MCUsernames == {u1, u2, u3}
\* A value that is no set of usernames, and that TLC can compare with one.
MCNoEntries == {"no entries"}
MCSymmetry == Permutations(MCApps) \cup Permutations(MCUsernames)
=============================================================================
