---------------------------- MODULE MCStateCache ----------------------------
(* Small instances of StateCache: one light, two looks, a channel of one,  *)
(* and as many requests, changes and drops as the question needs.          *)
EXTENDS StateCache

CONSTANTS l1, dim, bright, r1, r2

OneLight == {l1}
TwoLooks == {dim, bright}
Nobody == {}
First == {r1}
Second == {r2}

NoCommands == {}
AllCommands == Desired
=============================================================================
