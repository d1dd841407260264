------------------------------ MODULE EventFeed ------------------------------
(***************************************************************************)
(* What the subscription promises the snapshot (Subscribe of the Home      *)
(* Assistant backend and cache.Run together): while it lasts, every change *)
(* of a light is queued, and what is queued reaches the snapshot once and  *)
(* in order; when the connection breaks, the newest events may be lost but *)
(* no others; nothing of an old connection comes after a new one has       *)
(* begun.  Between events a request may overwrite an entry.                *)
(*                                                                         *)
(* StateCache implements this with a WebSocket, a reader goroutine, a      *)
(* bounded channel and a loop.                                             *)
(***************************************************************************)
EXTENDS Naturals, Sequences

CONSTANTS
    Lights,       \* entity ids
    States,       \* what a light can be
    Entries       \* what the snapshot can say of one

VARIABLES
    world,        \* world[e]: what light e is
    listening,    \* a subscription is in force
    queue,        \* the changes the snapshot has yet to hear of, oldest first
    snapshot      \* snapshot[e]: at most one entry

vars == <<world, listening, queue, snapshot>>

Init == /\ world \in [Lights -> States]
        /\ listening = FALSE
        /\ queue = <<>>
        /\ snapshot = [e \in Lights |-> {}]

\* A subscription comes into force when nothing of the last one is left.
Listen == /\ ~listening /\ queue = <<>>
          /\ listening' = TRUE
          /\ UNCHANGED <<world, queue, snapshot>>

\* A light changes, and a subscriber is told.
Change(e, s) == /\ s # world[e]
                /\ world' = [world EXCEPT ![e] = s]
                /\ queue' = IF listening
                            THEN Append(queue, [light |-> e, state |-> s])
                            ELSE queue
                /\ UNCHANGED <<listening, snapshot>>

\* The oldest change reaches the snapshot.
Deliver == /\ queue # <<>>
           /\ snapshot' = [snapshot EXCEPT ![Head(queue).light] = {Head(queue).state}]
           /\ queue' = Tail(queue)
           /\ UNCHANGED <<world, listening>>

\* The connection breaks, and takes some of the newest changes with it.
Break == /\ listening
         /\ listening' = FALSE
         /\ \E n \in 0..Len(queue) : queue' = SubSeq(queue, 1, n)
         /\ UNCHANGED <<world, snapshot>>

\* A request fills or patches an entry.
Overwrite(e, s) == /\ snapshot' = [snapshot EXCEPT ![e] = {s}]
                   /\ UNCHANGED <<world, listening, queue>>

Next == \/ Listen \/ Deliver \/ Break
        \/ \E e \in Lights : \/ \E s \in States : Change(e, s)
                             \/ \E s \in Entries : Overwrite(e, s)

Spec == Init /\ [][Next]_vars
=============================================================================
