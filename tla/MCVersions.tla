----------------------------- MODULE MCVersions -----------------------------
(* Small instances of Versions, with the releases that the code and its    *)
(* tests name.                                                             *)
EXTENDS Versions

CONSTANTS u1, u2

MCReleases == {1949203030, 1968096020, 1970084010}
MCFallback == 1949203030
TwoUpdaters == {u1, u2}
PinnedSw == 1953188020
PinnedApi == <<1, 53>>
=============================================================================
