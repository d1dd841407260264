---------------------------- MODULE MCSchedules ----------------------------
(* Small instances of Schedules: days of two or three minutes, so that a   *)
(* schedule comes due twice within the clock's bound.  The first start     *)
(* finds a file whose counter is below the id in use, or none.             *)
EXTENDS Schedules

EditedFile == [nextID |-> 1, at |-> [Empty EXCEPT ![1] = 1]]

NoFileYet == {NoFile}
MCFirstFiles == {EditedFile}
=============================================================================
