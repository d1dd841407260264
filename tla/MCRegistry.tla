----------------------------- MODULE MCRegistry -----------------------------
(* Small instances of Registry.  Besides no file at all, the first start   *)
(* may find an empty JSON object, a file from before groups existed whose  *)
(* counter was edited down to the id in use, or a file with a group.       *)
EXTENDS Registry

CONSTANTS e1, e2, t1, t2

TwoEntities == {e1, e2}
OneTab == {t1}
TwoTabs == {t1, t2}

EditedFile == [nextID |-> 2, entries |-> {[id |-> 2, entity |-> e1]},
               nextGroupID |-> 0, groups |-> {}]
GappedFile == [nextID |-> 3, entries |-> {[id |-> 1, entity |-> e2]},
               nextGroupID |-> 2, groups |-> {[id |-> 1, members |-> {e2}]}]
EmptyObject == [nextID |-> 0, entries |-> {}, nextGroupID |-> 0, groups |-> {}]
MCFirstFiles == {EmptyObject, EditedFile, GappedFile}
=============================================================================
