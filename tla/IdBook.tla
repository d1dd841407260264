------------------------------- MODULE IdBook -------------------------------
(***************************************************************************)
(* What the registry promises the Hue apps, which remember lights by       *)
(* number: "ids are assigned once and never reused" (registry.go:1-4).     *)
(* The ids that are served and the ids that are saved may differ while     *)
(* saves fail, but an entity only ever gets an id that nothing served now  *)
(* has and nothing saved ever had, and what is served changes by nothing   *)
(* else than one id given, one entity withdrawn, or a return to what was   *)
(* saved last.                                                             *)
(*                                                                         *)
(* Registry implements this with counters that it heals at each start.     *)
(***************************************************************************)

CONSTANT Entries    \* records with an id and an entity

VARIABLES
    served,         \* the entries in force
    saved,          \* the entries a restart would bring back
    book            \* every entry that was ever saved

vars == <<served, saved, book>>

Init == /\ served \in SUBSET Entries
        /\ \A x, y \in served : x.id = y.id \/ x.entity = y.entity => x = y
        /\ saved = served
        /\ book = served

\* What is served now is written to the book, or stays out of it for now.
Write == saved' = served' /\ book' = book \cup served'
MayWrite == Write \/ UNCHANGED <<saved, book>>

Assign(x) == /\ \A y \in served : y.id # x.id /\ y.entity # x.entity
             /\ \A y \in book : y.id # x.id
             /\ served' = served \cup {x}
             /\ MayWrite

Withdraw(x) == /\ x \in served
               /\ served' = served \ {x}
               /\ MayWrite

\* A change of something else is saved, and the entries with it.
Rewrite == UNCHANGED served /\ Write

\* The process restarts.
Reload == /\ served' = saved
          /\ UNCHANGED <<saved, book>>

Next == \/ \E x \in Entries : Assign(x) \/ Withdraw(x)
        \/ Rewrite \/ Reload

Spec == Init /\ [][Next]_vars
=============================================================================
