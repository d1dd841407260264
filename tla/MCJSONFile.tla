----------------------------- MODULE MCJSONFile -----------------------------
(* Three goroutines share one JSONFile, as two setup-form submissions and  *)
(* main's reload of the config do; two different documents tell a lost     *)
(* or mixed-up write apart.                                                *)
EXTENDS JSONFile

CONSTANTS c1, c2, c3, d1, d2

MCCallers == {c1, c2, c3}
MCDocuments == {d1, d2}
=============================================================================
