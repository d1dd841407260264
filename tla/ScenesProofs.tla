---------------------------- MODULE ScenesProofs ----------------------------
(***************************************************************************)
(* Proofs about Scenes, for any number of scenes, requests, failures and   *)
(* restarts.  AckedScenesSurvive is not inductive: while a POST is         *)
(* mirroring its scene, its id is about to be acknowledged and another     *)
(* POST's rollback must not remove it.  IInv says what is known of the     *)
(* scene of every request in progress.                                     *)
(***************************************************************************)
EXTENDS Scenes, TLAPS

Active(r) == req[r].pc \in {"mirror", "rollback", "unmirror", "delete"}

\* Ids that were never drawn occur nowhere.
UsedCovers == mem \cup Saved \cup acked \cup asked \cup deleted \subseteq used

\* A POST in progress is the only one with its id and has not answered; until
\* it rolls the scene back, the scene is stored unless a DELETE came for it.
PostsInProgress ==
    \A p \in Posts : Active(p) =>
        /\ req[p].pc \in {"mirror", "rollback"}
        /\ req[p].id \in used \ acked
        /\ req[p].pc = "mirror" /\ req[p].id \notin asked => req[p].id \in mem \cap Saved
        /\ \A q \in Posts \ {p} : Active(q) => req[q].id # req[p].id

DeletesInProgress ==
    \A d \in Deletes : Active(d) => req[d].id \in asked

IInv == /\ TypeOK /\ UsedCovers /\ PostsInProgress /\ DeletesInProgress
        /\ AckedScenesSurvive /\ DeletedScenesStayDeleted

-----------------------------------------------------------------------------
\* A file that holds a set of scenes is read back as that set (NewSceneStore,
\* scenes.go:35-42).
LEMMA ReadBack == \A S \in SUBSET SceneIds : NewSceneStore(S) = S
  BY ScenesAssumption DEF NewSceneStore

\* Whatever the file is, a set of scenes is read from it.
LEMMA SavedType == TypeOK => Saved \in SUBSET SceneIds
  BY DEF TypeOK, Saved, NewSceneStore

\* What each save does to the scenes a restart would find (scenes.go:59,
\* 69-74): all of memory, or nothing.
LEMMA SaveEffect ==
  ASSUME NEW S \in SUBSET SceneIds, SaveOk(S) \/ SaveError, TypeOK
  PROVE  /\ Saved' \in {S, Saved}
         /\ disk' \in {NoFile, NoScenes} \cup SUBSET SceneIds
         /\ saveFailures' \in 0..MaxSaveFailures
  <1>1. CASE SaveOk(S)
    BY <1>1, ReadBack DEF SaveOk, TypeOK, Saved, NewSceneStore
  <1>2. CASE SaveError
    BY <1>2, ScenesAssumption DEF SaveError, TypeOK, Saved, NewSceneStore
  <1> QED BY <1>1, <1>2

\* The type invariant holds at the start.
LEMMA InitType == Init => TypeOK
  BY ScenesAssumption DEF Init, TypeOK, NewSceneStore, Request, Idle, faults, history

\* What the type invariant says of one request.
LEMMA RequestType ==
  ASSUME TypeOK, NEW r \in Requests
  PROVE  /\ Active(r) => req[r].id \in SceneIds /\ req[r] = At(req[r].pc, req[r].id)
         /\ ~Active(r) => req[r] \in {Idle, Done}
  BY DEF TypeOK, Request, Active, Idle, Done, At

\* A step of one request changes that request only.
LEMMA StepEffect ==
  ASSUME TypeOK, NEW r \in Requests, NEW next \in Request, Step(r, next)
  PROVE  /\ req' \in [Requests -> Request]
         /\ req'[r] = next
         /\ \A q \in Requests \ {r} : req'[q] = req[q]
  BY DEF TypeOK, Step

LEMMA InitInv == Init => IInv
<1> SUFFICES ASSUME Init PROVE IInv
  OBVIOUS
<1>1. TypeOK /\ mem = Saved /\ mem = {}
  BY InitType, ReadBack DEF Init, Saved, NewSceneStore
<1>2. \A r \in Requests : ~Active(r)
  BY DEF Init, Active, Idle
<1> QED
  BY <1>1, <1>2 DEF Init, IInv, UsedCovers, PostsInProgress, DeletesInProgress,
                    AckedScenesSurvive, DeletedScenesStayDeleted, Requests

LEMMA PostCreateInv ==
  ASSUME IInv, NEW p \in Posts, NEW id \in SceneIds, PostCreate(p, id)
  PROVE  IInv'
<1> p \in Requests
  BY DEF Requests
<1>1. mem' = mem \cup {id} /\ mem' \in SUBSET SceneIds /\ used' = used \cup {id} /\ id \notin used
  BY DEF PostCreate, IInv, TypeOK
<1>2. /\ Saved' \in {mem', Saved}
      /\ disk' \in {NoFile, NoScenes} \cup SUBSET SceneIds
      /\ saveFailures' \in 0..MaxSaveFailures
  BY <1>1, SaveEffect DEF PostCreate, IInv
<1>3. PICK next \in {At("mirror", id), Done} :
         /\ Step(p, next)
         /\ next = At("mirror", id) => Saved' = mem'
         /\ rejected' \in SUBSET SceneIds
  <2>1. CASE SaveOk(mem') /\ Step(p, At("mirror", id)) /\ UNCHANGED rejected
    <3>1. Saved' = mem'
      BY <1>1, <2>1, ReadBack DEF SaveOk, Saved
    <3> QED
      BY <2>1, <3>1 DEF IInv, TypeOK
  <2>2. CASE SaveError /\ Step(p, Done) /\ rejected' = rejected \cup {id}
    BY <2>2 DEF IInv, TypeOK, Done, At
  <2> QED
    BY <2>1, <2>2 DEF PostCreate
<1>4. next \in Request
  BY DEF Request, At, Done
<1>5. /\ req' \in [Requests -> Request]
      /\ req'[p] = next
      /\ \A q \in Requests \ {p} : req'[q] = req[q]
  BY <1>3, <1>4, StepEffect DEF IInv
<1>6. UNCHANGED <<ha, mirrorFailures, restarts, acked, asked, deleted>>
  BY DEF PostCreate
<1>7. TypeOK'
  BY <1>1, <1>2, <1>3, <1>5, <1>6 DEF IInv, TypeOK
<1>8. UsedCovers' /\ AckedScenesSurvive' /\ DeletedScenesStayDeleted'
  BY <1>1, <1>2, <1>6 DEF IInv, UsedCovers, AckedScenesSurvive, DeletedScenesStayDeleted
<1>9. PostsInProgress'
  <2>1. next = At("mirror", id) => next.pc = "mirror" /\ next.id = id
    BY DEF At
  <2>2. next = Done => next.pc = "done"
    BY DEF Done
  <2> QED
    BY <1>1, <1>2, <1>3, <1>5, <1>6, <2>1, <2>2
    DEF IInv, UsedCovers, PostsInProgress, Active, Requests
<1>10. DeletesInProgress'
  BY <1>5, <1>6, ScenesAssumption DEF IInv, DeletesInProgress, Active, Requests
<1> QED
  BY <1>7, <1>8, <1>9, <1>10 DEF IInv

LEMMA PostMirrorInv ==
  ASSUME IInv, NEW p \in Posts, PostMirror(p)
  PROVE  IInv'
<1> p \in Requests
  BY DEF Requests
<1> DEFINE id == req[p].id
<1>1. /\ req[p].pc = "mirror" /\ Active(p) /\ id \in SceneIds /\ id \in used
      /\ id \notin asked => id \in mem \cap Saved
  BY RequestType DEF PostMirror, Active, IInv, PostsInProgress
<1>2. PICK next \in {At("rollback", id), Done} :
         /\ Step(p, next)
         /\ acked' = IF next = Done THEN acked \cup {id} ELSE acked
         /\ ha' \in SUBSET SceneIds
         /\ mirrorFailures' \in 0..MaxMirrorFailures
  <2>1. At("rollback", id) # Done
    BY DEF At, Done
  <2>2. ha \in SUBSET SceneIds /\ mirrorFailures \in 0..MaxMirrorFailures
    BY DEF IInv, TypeOK
  <2> QED
    BY <1>1, <2>1, <2>2, ScenesAssumption DEF PostMirror, MirrorFails
<1>3. next \in Request
  BY <1>1 DEF Request, At, Done
<1>4. /\ req' \in [Requests -> Request]
      /\ req'[p] = next
      /\ \A q \in Requests \ {p} : req'[q] = req[q]
  BY <1>2, <1>3, StepEffect DEF IInv
<1>5. UNCHANGED <<mem, disk, Saved, saveFailures, restarts, used, rejected, asked, deleted>>
  BY DEF PostMirror, Saved
<1>6. TypeOK'
  BY <1>1, <1>2, <1>4, <1>5 DEF IInv, TypeOK
<1>7. UsedCovers' /\ AckedScenesSurvive' /\ DeletedScenesStayDeleted'
  BY <1>1, <1>2, <1>5 DEF IInv, UsedCovers, AckedScenesSurvive, DeletedScenesStayDeleted
<1>8. PostsInProgress'
  <2>1. next = At("rollback", id) => next.pc = "rollback" /\ next.id = id /\ next # Done
    BY DEF At, Done
  <2>2. next = Done => next.pc = "done"
    BY DEF Done
  <2>3. \A q \in Posts \ {p} : Active(q) => req[q].id # id
    BY <1>1 DEF IInv, PostsInProgress
  <2> HIDE DEF id
  <2>4. id = req[p].id
    BY DEF id
  <2> QED
    BY <1>1, <1>2, <1>4, <1>5, <2>1, <2>2, <2>3, <2>4
    DEF IInv, PostsInProgress, Active, Requests
<1>9. DeletesInProgress'
  BY <1>4, <1>5, ScenesAssumption DEF IInv, DeletesInProgress, Active, Requests
<1> QED
  BY <1>6, <1>7, <1>8, <1>9 DEF IInv

LEMMA PostRollbackInv ==
  ASSUME IInv, NEW p \in Posts, PostRollback(p)
  PROVE  IInv'
<1> p \in Requests
  BY DEF Requests
<1> DEFINE id == req[p].id
<1>1. /\ Active(p) /\ id \in SceneIds /\ id \in used \ acked
      /\ \A q \in Posts \ {p} : Active(q) => req[q].id # id
  BY RequestType DEF PostRollback, Active, IInv, PostsInProgress
<1>2. mem' = mem \ {id} /\ mem' \in SUBSET SceneIds
  BY DEF PostRollback, IInv, TypeOK
<1>3. /\ Saved' \in {mem', Saved}
      /\ disk' \in {NoFile, NoScenes} \cup SUBSET SceneIds
      /\ saveFailures' \in 0..MaxSaveFailures
  BY <1>2, SaveEffect DEF PostRollback, IInv
<1>4. /\ req' \in [Requests -> Request]
      /\ req'[p] = Done
      /\ \A q \in Requests \ {p} : req'[q] = req[q]
  BY StepEffect DEF PostRollback, IInv, Request
<1>5. /\ UNCHANGED <<ha, mirrorFailures, restarts, used, acked, asked, deleted>>
      /\ rejected' = rejected \cup {id}
  BY DEF PostRollback
<1>6. TypeOK'
  BY <1>1, <1>2, <1>3, <1>4, <1>5 DEF IInv, TypeOK
<1> HIDE DEF id
<1>7. UsedCovers' /\ AckedScenesSurvive' /\ DeletedScenesStayDeleted'
  BY <1>1, <1>2, <1>3, <1>5 DEF IInv, UsedCovers, AckedScenesSurvive, DeletedScenesStayDeleted
<1>8. PostsInProgress'
  BY <1>1, <1>2, <1>3, <1>4, <1>5 DEF IInv, PostsInProgress, Active, Requests, Done
<1>9. DeletesInProgress'
  BY <1>4, <1>5, ScenesAssumption DEF IInv, DeletesInProgress, Active, Requests
<1> QED
  BY <1>6, <1>7, <1>8, <1>9 DEF IInv

LEMMA DeleteGetInv ==
  ASSUME IInv, NEW d \in Deletes, NEW id \in SceneIds, DeleteGet(d, id)
  PROVE  IInv'
<1> d \in Requests
  BY DEF Requests
<1>1. /\ id \in mem /\ asked' = asked \cup {id} /\ Step(d, At("unmirror", id))
      /\ UNCHANGED <<mem, disk, Saved, ha, faults, used, acked, rejected, deleted>>
  BY DEF DeleteGet, Saved
<1>2. /\ At("unmirror", id) \in Request
      /\ At("unmirror", id).id = id
  BY DEF At, Request
<1>3. /\ req' \in [Requests -> Request]
      /\ req'[d] = At("unmirror", id)
      /\ \A q \in Requests \ {d} : req'[q] = req[q]
  BY <1>1, <1>2, StepEffect DEF IInv
<1>4. TypeOK'
  BY <1>1, <1>3 DEF IInv, TypeOK, faults
<1>5. UsedCovers' /\ AckedScenesSurvive' /\ DeletedScenesStayDeleted'
  BY <1>1 DEF IInv, UsedCovers, AckedScenesSurvive, DeletedScenesStayDeleted
<1>6. PostsInProgress'
  BY <1>1, <1>3, ScenesAssumption DEF IInv, PostsInProgress, Active, Requests
<1>7. DeletesInProgress'
  BY <1>1, <1>2, <1>3 DEF IInv, DeletesInProgress, Active, Requests
<1> QED
  BY <1>4, <1>5, <1>6, <1>7 DEF IInv

LEMMA DeleteMirroredInv ==
  ASSUME IInv, NEW d \in Deletes, DeleteMirrored(d)
  PROVE  IInv'
<1> d \in Requests
  BY DEF Requests
<1> DEFINE id == req[d].id
<1>1. /\ Active(d) /\ id \in SceneIds /\ id \in asked
  BY RequestType DEF DeleteMirrored, Active, IInv, DeletesInProgress
<1>2. /\ ha' \in SUBSET SceneIds
      /\ mirrorFailures' \in 0..MaxMirrorFailures
  BY <1>1, ScenesAssumption DEF DeleteMirrored, MirrorFails, IInv, TypeOK
<1>3. /\ UNCHANGED <<mem, disk, Saved, saveFailures, restarts, history>>
      /\ Step(d, At("delete", id))
  BY DEF DeleteMirrored, Saved
<1>4. At("delete", id) \in Request /\ At("delete", id).id = id
  BY <1>1 DEF At, Request
<1>5. /\ req' \in [Requests -> Request]
      /\ req'[d] = At("delete", id)
      /\ \A q \in Requests \ {d} : req'[q] = req[q]
  BY <1>3, <1>4, StepEffect DEF IInv
<1> HIDE DEF id
<1>6. TypeOK'
  BY <1>2, <1>3, <1>5 DEF IInv, TypeOK, history
<1>7. UsedCovers' /\ AckedScenesSurvive' /\ DeletedScenesStayDeleted'
  BY <1>3 DEF IInv, UsedCovers, AckedScenesSurvive, DeletedScenesStayDeleted, history
<1>8. PostsInProgress'
  BY <1>3, <1>5, ScenesAssumption DEF IInv, PostsInProgress, Active, Requests, history
<1>9. DeletesInProgress'
  BY <1>1, <1>3, <1>4, <1>5 DEF IInv, DeletesInProgress, Active, Requests, history
<1> QED
  BY <1>6, <1>7, <1>8, <1>9 DEF IInv

LEMMA DeleteStoredInv ==
  ASSUME IInv, NEW d \in Deletes, DeleteStored(d)
  PROVE  IInv'
<1> d \in Requests
  BY DEF Requests
<1> DEFINE id == req[d].id
<1>1. /\ Active(d) /\ id \in SceneIds /\ id \in asked
  BY RequestType DEF DeleteStored, Active, IInv, DeletesInProgress
<1>2. mem' = mem \ {id} /\ mem' \in SUBSET SceneIds
  BY DEF DeleteStored, IInv, TypeOK
<1>3. /\ Saved' \in {mem', Saved}
      /\ disk' \in {NoFile, NoScenes} \cup SUBSET SceneIds
      /\ saveFailures' \in 0..MaxSaveFailures
  BY <1>2, SaveEffect DEF DeleteStored, IInv
<1>4. \/ Saved' = mem' /\ deleted' = deleted \cup {id}
      \/ UNCHANGED deleted
  BY <1>2, ReadBack DEF DeleteStored, SaveOk, Saved
<1>5. /\ req' \in [Requests -> Request]
      /\ req'[d] = Done
      /\ \A q \in Requests \ {d} : req'[q] = req[q]
  BY StepEffect DEF DeleteStored, IInv, Request
<1>6. UNCHANGED <<ha, mirrorFailures, restarts, used, acked, rejected, asked>>
  BY DEF DeleteStored
<1> HIDE DEF id
<1>7. TypeOK'
  BY <1>1, <1>2, <1>3, <1>4, <1>5, <1>6 DEF IInv, TypeOK
<1>8. UsedCovers' /\ AckedScenesSurvive' /\ DeletedScenesStayDeleted'
  BY <1>1, <1>2, <1>3, <1>4, <1>6
  DEF IInv, UsedCovers, AckedScenesSurvive, DeletedScenesStayDeleted
<1>9. PostsInProgress'
  BY <1>1, <1>2, <1>3, <1>5, <1>6, ScenesAssumption
  DEF IInv, PostsInProgress, Active, Requests
<1>10. DeletesInProgress'
  BY <1>5, <1>6 DEF IInv, DeletesInProgress, Active, Requests, Done
<1> QED
  BY <1>7, <1>8, <1>9, <1>10 DEF IInv

LEMMA RestartInv == IInv /\ Restart => IInv'
<1> SUFFICES ASSUME IInv, Restart PROVE IInv'
  OBVIOUS
<1>1. mem' = Saved /\ mem' \in SUBSET SceneIds /\ restarts' \in 0..MaxRestarts
  BY SavedType, ScenesAssumption DEF Restart, Saved, IInv, TypeOK
<1>2. UNCHANGED <<disk, Saved, ha, saveFailures, mirrorFailures, history>>
  BY DEF Restart, Saved
<1>3. \A r \in Requests : req'[r] \in {Idle, Done} /\ ~Active(r)'
  BY DEF Restart, Active, Idle, Done
<1>4. req' \in [Requests -> Request]
  BY DEF Restart, Request
<1>5. TypeOK'
  BY <1>1, <1>2, <1>4 DEF IInv, TypeOK, history
<1>6. UsedCovers' /\ AckedScenesSurvive' /\ DeletedScenesStayDeleted'
  BY <1>1, <1>2 DEF IInv, UsedCovers, AckedScenesSurvive, DeletedScenesStayDeleted, history
<1>7. PostsInProgress' /\ DeletesInProgress'
  BY <1>3 DEF PostsInProgress, DeletesInProgress, Requests
<1> QED
  BY <1>5, <1>6, <1>7 DEF IInv

\* IInv is inductive: one lemma above for each action.
LEMMA NextInv == IInv /\ [Next]_vars => IInv'
<1> SUFFICES ASSUME IInv, [Next]_vars PROVE IInv'
  OBVIOUS
<1>1. CASE Restart
  BY <1>1, RestartInv
<1>2. ASSUME NEW p \in Posts, NEW id \in SceneIds, PostCreate(p, id) PROVE IInv'
  BY <1>2, PostCreateInv
<1>3. ASSUME NEW p \in Posts, PostMirror(p) PROVE IInv'
  BY <1>3, PostMirrorInv
<1>4. ASSUME NEW p \in Posts, PostRollback(p) PROVE IInv'
  BY <1>4, PostRollbackInv
<1>5. ASSUME NEW d \in Deletes, NEW id \in SceneIds, DeleteGet(d, id) PROVE IInv'
  BY <1>5, DeleteGetInv
<1>6. ASSUME NEW d \in Deletes, DeleteMirrored(d) PROVE IInv'
  BY <1>6, DeleteMirroredInv
<1>7. ASSUME NEW d \in Deletes, DeleteStored(d) PROVE IInv'
  BY <1>7, DeleteStoredInv
<1>8. CASE UNCHANGED vars
  BY <1>8 DEF vars, faults, history, IInv, TypeOK, UsedCovers, PostsInProgress,
              DeletesInProgress, Active, AckedScenesSurvive, DeletedScenesStayDeleted, Saved
<1> QED
  BY <1>1, <1>2, <1>3, <1>4, <1>5, <1>6, <1>7, <1>8 DEF Next

-----------------------------------------------------------------------------
\* The inductive invariant, for every instance of the constants.
THEOREM Inductive == Spec => []IInv
<1> QED
  BY InitInv, NextInv, PTL DEF Spec

\* The type invariant of Scenes.
THEOREM TypeCorrect == Spec => []TypeOK
<1>1. IInv => TypeOK
  BY DEF IInv
<1> QED
  BY <1>1, Inductive, PTL

\* A scene whose id an app was given stays in the store and in the file until
\* a DELETE is received for it, however saves and mirror calls fail, requests
\* interleave and the process restarts (scenes.go:138-215).
THEOREM AckedSurvive == Spec => []AckedScenesSurvive
<1>1. IInv => AckedScenesSurvive
  BY DEF IInv
<1> QED
  BY <1>1, Inductive, PTL

\* A scene reported as deleted is gone from the store and from the file for
\* good (scenes.go:188-215).
THEOREM DeletedStay == Spec => []DeletedScenesStayDeleted
<1>1. IInv => DeletedScenesStayDeleted
  BY DEF IInv
<1> QED
  BY <1>1, Inductive, PTL

-----------------------------------------------------------------------------
(* What holds as long as no save fails: the file has what memory has, and  *)
(* an id that was rejected, drawn once, is in neither.                     *)

FilesAgree == /\ rejected \subseteq used
              /\ saveFailures = 0 => Saved = mem /\ rejected \cap mem = {}

LEMMA FilesInit == Init => FilesAgree
<1> SUFFICES ASSUME Init PROVE FilesAgree
  OBVIOUS
<1>1. mem = Saved /\ rejected = {}
  BY DEF Init, Saved
<1> QED
  BY <1>1 DEF FilesAgree

\* A save that did not fail has taken all of memory.
LEMMA SaveAll ==
  ASSUME NEW S \in SUBSET SceneIds, SaveOk(S) \/ SaveError, TypeOK, saveFailures' = 0
  PROVE  Saved' = S /\ saveFailures = 0
<1>1. saveFailures \in Nat
  BY ScenesAssumption DEF TypeOK
<1>2. ~SaveError
  BY <1>1 DEF SaveError
<1> QED
  BY <1>2, ReadBack DEF SaveOk, Saved

LEMMA FilesNext == IInv /\ FilesAgree /\ [Next]_vars => FilesAgree'
<1> SUFFICES ASSUME IInv, FilesAgree, [Next]_vars PROVE FilesAgree'
  OBVIOUS
<1>1. TypeOK /\ mem \in SUBSET SceneIds /\ mem \subseteq used
  BY DEF IInv, TypeOK, UsedCovers
<1>2. ASSUME UNCHANGED <<rejected, used, saveFailures>>,
             mem' \in {mem, Saved} /\ Saved' = Saved
      PROVE  FilesAgree'
  BY <1>2 DEF FilesAgree
<1>3. ASSUME NEW p \in Posts, NEW id \in SceneIds, PostCreate(p, id) PROVE FilesAgree'
  <2>1. mem' = mem \cup {id} /\ used' = used \cup {id} /\ id \notin used
    BY <1>3 DEF PostCreate
  <2>2. rejected' \subseteq rejected \cup {id}
    BY <1>3 DEF PostCreate
  <2>3. SaveOk(mem') \/ SaveError
    BY <1>3 DEF PostCreate
  <2>4. ASSUME saveFailures' = 0 PROVE Saved' = mem' /\ saveFailures = 0 /\ rejected' = rejected
    <3>1. Saved' = mem' /\ saveFailures = 0
      BY <1>1, <2>1, <2>3, <2>4, SaveAll
    <3>2. ~SaveError
      BY <2>4, <3>1 DEF SaveError
    <3> QED
      BY <1>3, <3>1, <3>2 DEF PostCreate
  <2> QED
    BY <2>1, <2>2, <2>4 DEF FilesAgree
<1>4. ASSUME NEW p \in Posts, PostRollback(p) PROVE FilesAgree'
  <2>1. /\ mem' = mem \ {req[p].id} /\ rejected' = rejected \cup {req[p].id}
        /\ used' = used /\ req[p].id \in used
    BY <1>4 DEF PostRollback, IInv, PostsInProgress, Active
  <2>2. saveFailures' = 0 => Saved' = mem' /\ saveFailures = 0
    BY <1>1, <1>4, <2>1, SaveAll DEF PostRollback
  <2> QED
    BY <2>1, <2>2 DEF FilesAgree
<1>5. ASSUME NEW d \in Deletes, DeleteStored(d) PROVE FilesAgree'
  <2>1. mem' = mem \ {req[d].id} /\ UNCHANGED <<rejected, used>>
    BY <1>5 DEF DeleteStored
  <2>2. saveFailures' = 0 => Saved' = mem' /\ saveFailures = 0
    BY <1>1, <1>5, <2>1, SaveAll DEF DeleteStored
  <2> QED
    BY <2>1, <2>2 DEF FilesAgree
<1>6. ASSUME NEW p \in Posts, PostMirror(p) PROVE FilesAgree'
  BY <1>2, <1>6 DEF PostMirror, Saved
<1>7. ASSUME NEW d \in Deletes, NEW id \in SceneIds, DeleteGet(d, id) PROVE FilesAgree'
  BY <1>2, <1>7 DEF DeleteGet, faults, Saved
<1>8. ASSUME NEW d \in Deletes, DeleteMirrored(d) PROVE FilesAgree'
  BY <1>2, <1>8 DEF DeleteMirrored, history, Saved
<1>9. CASE Restart
  BY <1>2, <1>9 DEF Restart, history, Saved
<1>10. CASE UNCHANGED vars
  BY <1>2, <1>10 DEF vars, faults, history, Saved
<1> QED
  BY <1>3, <1>4, <1>5, <1>6, <1>7, <1>8, <1>9, <1>10 DEF Next

\* A POST that answered with an error has left no scene behind, in memory or
\* in the file, as long as saves work (scenes.go:165-186).
THEOREM RejectedGone == Spec => []RejectedLeavesNothing
<1>1. FilesAgree => RejectedLeavesNothing
  BY DEF FilesAgree, RejectedLeavesNothing
<1>2. Spec => []FilesAgree
  BY Inductive, FilesInit, FilesNext, PTL DEF Spec
<1> QED
  BY <1>1, <1>2, PTL

-----------------------------------------------------------------------------
(* What holds as long as no save fails and the process does not restart: a *)
(* scene that Home Assistant does not have is one that a POST has still to *)
(* mirror or roll back, or that a DELETE is about to take out of the store.*)

InHand(id) == \/ \E p \in Posts : Active(p) /\ req[p].id = id
              \/ \E d \in Deletes : req[d].pc = "delete" /\ req[d].id = id
Mirrored == saveFailures = 0 /\ restarts = 0 => \A id \in mem \ ha : InHand(id)

LEMMA MirroredInit == Init => Mirrored
<1> SUFFICES ASSUME Init PROVE Mirrored
  OBVIOUS
<1>1. mem = {}
  BY DEF Init, NewSceneStore
<1> QED
  BY <1>1 DEF Mirrored

\* Only the request that takes the step can let go of a scene.
LEMMA StillInHand ==
  ASSUME NEW r \in Requests, \A q \in Requests \ {r} : req'[q] = req[q],
         NEW id, InHand(id), ~(Active(r) /\ req[r].id = id)
  PROVE  InHand(id)'
BY DEF InHand, Active, Requests

LEMMA MirroredNext == IInv /\ Mirrored /\ [Next]_vars => Mirrored'
<1> SUFFICES ASSUME IInv, Mirrored, [Next]_vars, saveFailures' = 0, restarts' = 0,
                    NEW x \in mem' \ ha'
             PROVE  InHand(x)'
  BY DEF Mirrored
<1>1. TypeOK /\ saveFailures \in Nat /\ restarts \in Nat /\ mem \in SUBSET SceneIds
  BY ScenesAssumption DEF IInv, TypeOK
<1>2. ASSUME NEW r \in Requests, NEW next \in Request, Step(r, next),
             UNCHANGED <<saveFailures, restarts>>, x \in mem \ ha,
             ~(Active(r) /\ req[r].id = x)
      PROVE  InHand(x)'
  <2>1. InHand(x)
    BY <1>2 DEF Mirrored
  <2>2. \A q \in Requests \ {r} : req'[q] = req[q]
    BY <1>1, <1>2, StepEffect
  <2> QED
    BY <1>2, <2>1, <2>2, StillInHand
<1>3. ASSUME NEW p \in Posts, NEW id \in SceneIds, PostCreate(p, id) PROVE InHand(x)'
  <2>1. p \in Requests /\ ~Active(p) /\ mem' = mem \cup {id} /\ ha' = ha /\ restarts' = restarts
    BY <1>3 DEF PostCreate, Active, Requests
  <2>2. SaveOk(mem') /\ Step(p, At("mirror", id))
    BY <1>1, <1>3 DEF PostCreate, SaveError
  <2>3. At("mirror", id) \in Request /\ At("mirror", id).pc = "mirror" /\ At("mirror", id).id = id
    BY DEF At, Request
  <2>4. req'[p] = At("mirror", id)
    BY <1>1, <2>1, <2>2, <2>3, StepEffect
  <2>5. CASE x = id
    BY <2>3, <2>4, <2>5 DEF InHand, Active
  <2>6. CASE x # id
    BY <1>2, <2>1, <2>2, <2>3, <2>6 DEF SaveOk
  <2> QED
    BY <2>5, <2>6
<1>4. ASSUME NEW p \in Posts, PostMirror(p) PROVE InHand(x)'
  <2> DEFINE id == req[p].id
  <2>1. /\ p \in Requests /\ Active(p) /\ id \in SceneIds
        /\ UNCHANGED <<mem, saveFailures, restarts>>
    BY <1>1, <1>4, RequestType DEF PostMirror, Active, Requests
  <2>2. \/ ha' = ha \cup {id} /\ Step(p, Done)
        \/ ha' \in {ha, ha \cup {id}} /\ Step(p, At("rollback", id))
    BY <1>4 DEF PostMirror
  <2>3. /\ Done \in Request /\ At("rollback", id) \in Request
        /\ At("rollback", id).pc = "rollback" /\ At("rollback", id).id = id
    BY <2>1 DEF At, Request
  <2>4. x \in mem \ ha
    BY <2>1, <2>2
  <2> HIDE DEF id
  <2>5. CASE x = id
    <3>1. Step(p, At("rollback", id))
      BY <2>2, <2>5
    <3>2. req'[p] = At("rollback", id)
      BY <1>1, <2>1, <2>3, <3>1, StepEffect
    <3> QED
      BY <2>3, <2>5, <3>2 DEF InHand, Active
  <2>6. CASE x # id
    BY <1>2, <2>1, <2>2, <2>3, <2>4, <2>6 DEF id
  <2> QED
    BY <2>5, <2>6
<1>5. ASSUME NEW p \in Posts, PostRollback(p) PROVE InHand(x)'
  <2>1. /\ p \in Requests /\ Active(p) /\ mem' = mem \ {req[p].id} /\ ha' = ha
        /\ restarts' = restarts /\ Step(p, Done) /\ Done \in Request
    BY <1>5 DEF PostRollback, Active, Requests, Request
  <2>2. saveFailures' = saveFailures
    BY <1>1, <1>5 DEF PostRollback, SaveOk, SaveError
  <2> QED
    BY <1>2, <2>1, <2>2
<1>6. ASSUME NEW d \in Deletes, NEW id \in SceneIds, DeleteGet(d, id) PROVE InHand(x)'
  <2>1. /\ d \in Requests /\ ~Active(d) /\ UNCHANGED <<mem, ha, saveFailures, restarts>>
        /\ Step(d, At("unmirror", id)) /\ At("unmirror", id) \in Request
    BY <1>6 DEF DeleteGet, faults, Active, Requests, Request, At
  <2> QED
    BY <1>2, <2>1
<1>7. ASSUME NEW d \in Deletes, DeleteMirrored(d) PROVE InHand(x)'
  <2> DEFINE id == req[d].id
  <2>1. /\ d \in Requests /\ req[d].pc = "unmirror" /\ id \in SceneIds
        /\ UNCHANGED <<mem, saveFailures, restarts>>
        /\ Step(d, At("delete", id)) /\ ha' \in {ha, ha \ {id}}
    BY <1>1, <1>7, RequestType DEF DeleteMirrored, Active, Requests
  <2>2. /\ At("delete", id) \in Request
        /\ At("delete", id).pc = "delete" /\ At("delete", id).id = id
    BY <2>1 DEF At, Request
  <2>3. req'[d] = At("delete", id)
    BY <1>1, <2>1, <2>2, StepEffect
  <2> HIDE DEF id
  <2>4. CASE x = id
    BY <2>2, <2>3, <2>4 DEF InHand
  <2>5. CASE x # id
    BY <1>2, <2>1, <2>2, <2>5 DEF id
  <2> QED
    BY <2>4, <2>5
<1>8. ASSUME NEW d \in Deletes, DeleteStored(d) PROVE InHand(x)'
  <2>1. /\ d \in Requests /\ mem' = mem \ {req[d].id} /\ ha' = ha
        /\ restarts' = restarts /\ Step(d, Done) /\ Done \in Request
    BY <1>8 DEF DeleteStored, Requests, Request
  <2>2. saveFailures' = saveFailures
    BY <1>1, <1>8 DEF DeleteStored, SaveOk, SaveError
  <2> QED
    BY <1>2, <2>1, <2>2
<1>9. CASE Restart
  BY <1>1, <1>9 DEF Restart
<1>10. CASE UNCHANGED vars
  BY <1>10 DEF vars, faults, Mirrored, InHand, Active
<1> QED
  BY <1>3, <1>4, <1>5, <1>6, <1>7, <1>8, <1>9, <1>10 DEF Next

\* With no request in progress Home Assistant has every scene of the store, as
\* long as saves work and the process does not restart (scenes.go:165-215).
THEOREM MirroredWhenQuiet == Spec => []ScenesAreMirrored
<1>1. Mirrored => ScenesAreMirrored
  <2> SUFFICES ASSUME Mirrored, saveFailures = 0, restarts = 0, Quiet, NEW id \in mem \ ha
               PROVE  FALSE
    BY DEF ScenesAreMirrored
  <2>1. \A r \in Requests : ~Active(r)
    BY DEF Quiet, Active, Idle, Done
  <2> QED
    BY <2>1 DEF Mirrored, InHand, Active, Requests
<1>2. Spec => []Mirrored
  BY Inductive, MirroredInit, MirroredNext, PTL DEF Spec
<1> QED
  BY <1>1, <1>2, PTL
=============================================================================
