---------------------------- MODULE MCLifecycle ----------------------------
(* Small instances of Lifecycle: two passwords and two Home Assistants for *)
(* the wizard; two clients and two MAC addresses for the bridge.  The      *)
(* first standalone.json is missing, unreadable, complete, or lacks the    *)
(* password.                                                               *)
EXTENDS Lifecycle, TLC

CONSTANTS t1, t2, p1, p2, h1, h2, c1, c2, m1, m2

TwoTabs == {t1, t2}
MCPasswords == {p1, p2}
MCTargets == {h1, h2}
MCFirstFiles == {NoFile, Unreadable, [target |-> h1, hash |-> None],
                 [target |-> h1, hash |-> p1]}
TwoConns == {c1, c2}
TwoMacs == {m1, m2}
=============================================================================
