------------------------------- MODULE MCClip -------------------------------
(* Small instances of Clip: two lights, registered and in a group, or one  *)
(* registered and no group yet; two requests of any kind.                  *)
EXTENDS Clip, TLC

CONSTANTS e1, e2, r1, r2

MCEntities == {e1, e2}
MCRequests == {r1, r2}
MCLevels == {1, 254}
Asked(on, bri) == [on |-> on, bri |-> bri, unread |-> FALSE]
MCBodies == {Asked(FALSE, None), Asked(None, 254), Asked(TRUE, 1), Asked(TRUE, Odd),
             Asked(TRUE, Off), [on |-> Other, bri |-> None, unread |-> TRUE]}
MCFirstRegistries ==
    {[entries |-> {[id |-> 1, entity |-> e1], [id |-> 2, entity |-> e2]}, nextID |-> 3,
      members |-> {e1, e2}],
     [entries |-> {[id |-> 1, entity |-> e1]}, nextID |-> 2, members |-> None]}
MCFirstLights == {[e \in MCEntities |-> IF e = e1 THEN 1 ELSE Off]}
MCSymmetry == Permutations(MCRequests)
=============================================================================
