------------------------------- MODULE Scenes -------------------------------
(***************************************************************************)
(* Scenes (internal/hue/scenes.go): the store, and the handlers of POST    *)
(* and DELETE /scenes, which also keep a copy of every scene in Home       *)
(* Assistant (backend.SceneMirror).  A POST changes the store and its file *)
(* in one step and Home Assistant in another, and takes the first back if  *)
(* the second fails; a DELETE goes the other way round.  GET /scenes shows *)
(* a scene to every app as soon as it is in the store, so a DELETE may     *)
(* overtake the POST that creates it.                                      *)
(*                                                                         *)
(* A save is one step and may fail (JSONFile's theorem Refinement).  A     *)
(* call to Home Assistant may fail, or be carried out and its reply lost.  *)
(* Left out: a scene's name, group and captured light states; its id,      *)
(* eight random bytes, is one that was never used.                         *)
(***************************************************************************)
EXTENDS Naturals, FiniteSets

CONSTANTS
    SceneIds,           \* ids; a bound on the number of scenes ever created
    Posts,              \* goroutines that each serve one POST ...
    Deletes,            \* ... or one DELETE
    NoFile,             \* there is no scenes.json ...
    NoScenes,           \* ... or it is a JSON object without "scenes"
    MaxSaveFailures,    \* bound: how many saves fail
    MaxMirrorFailures,  \* bound: how many calls to Home Assistant fail
    MaxRestarts         \* bound: how often the process restarts

ASSUME ScenesAssumption ==
    /\ MaxSaveFailures \in Nat
    /\ MaxMirrorFailures \in Nat
    /\ MaxRestarts \in Nat
    /\ Posts \cap Deletes = {}
    /\ \A S \in SUBSET SceneIds : S \notin {NoFile, NoScenes}

VARIABLES
    mem,        \* SceneStore.state
    disk,       \* scenes.json
    ha,         \* the huebridge_ scenes Home Assistant has
    req,        \* req[r]: how far goroutine r is, and with which scene
    saveFailures, mirrorFailures, restarts,
    \* Bookkeeping that the code does not have:
    used,       \* ids that were drawn
    acked,      \* ids that a POST answered with
    rejected,   \* ids whose POST answered with an error
    asked,      \* ids that a DELETE has been received for
    deleted     \* ids that a DELETE reported as deleted

faults == <<saveFailures, mirrorFailures, restarts>>
history == <<used, acked, rejected, asked, deleted>>
vars == <<mem, disk, ha, req, faults, history>>

Requests == Posts \cup Deletes
Idle == [pc |-> "idle"]
Done == [pc |-> "done"]
At(label, id) == [pc |-> label, id |-> id]
Request == {Idle, Done} \cup [pc : {"mirror", "rollback", "unmirror", "delete"}, id : SceneIds]
Step(r, next) == req' = [req EXCEPT ![r] = next]

\* NewSceneStore: a map that the file leaves nil is made an empty one.
NewSceneStore(file) == IF file \in {NoFile, NoScenes} THEN {} ELSE file

Init == /\ disk \in {NoFile, NoScenes, {}}
        /\ mem = NewSceneStore(disk)
        /\ ha = {}
        /\ req = [r \in Requests |-> Idle]
        /\ saveFailures = 0 /\ mirrorFailures = 0 /\ restarts = 0
        /\ used = {} /\ acked = {} /\ rejected = {} /\ asked = {} /\ deleted = {}

\* s.file.Save(s.state): memory has already changed, and keeps the change.
SaveOk(state) == disk' = state /\ UNCHANGED saveFailures
SaveError == /\ saveFailures < MaxSaveFailures
             /\ saveFailures' = saveFailures + 1
             /\ UNCHANGED disk

MirrorFails == /\ mirrorFailures < MaxMirrorFailures
               /\ mirrorFailures' = mirrorFailures + 1

-----------------------------------------------------------------------------
(* POST /scenes.                                                           *)

\* Seeded bug: the scene is saved after the answer, if at all.
PostCreateUnsaved(p, id) ==
    /\ req[p].pc = "idle"
    /\ id \notin used
    /\ used' = used \cup {id}
    /\ mem' = mem \cup {id}
    /\ Step(p, At("mirror", id))
    /\ UNCHANGED <<disk, ha, faults, acked, rejected, asked, deleted>>

\* SceneStore.Create, after the members' states have been read.  A failed
\* save is answered with an error at once, and is not rolled back.
PostCreate(p, id) ==
    /\ req[p].pc = "idle"
    /\ id \notin used
    /\ used' = used \cup {id}
    /\ mem' = mem \cup {id}
    /\ \/ SaveOk(mem') /\ Step(p, At("mirror", id)) /\ UNCHANGED rejected
       \/ SaveError /\ Step(p, Done) /\ rejected' = rejected \cup {id}
    /\ UNCHANGED <<ha, mirrorFailures, restarts, acked, asked, deleted>>

\* Seeded bug: an error of the mirror is only logged, as in DELETE.
PostMirrorBestEffort(p) ==
    /\ req[p].pc = "mirror"
    /\ \/ ha' = ha \cup {req[p].id} /\ UNCHANGED mirrorFailures
       \/ MirrorFails /\ UNCHANGED ha
    /\ acked' = acked \cup {req[p].id}
    /\ Step(p, Done)
    /\ UNCHANGED <<mem, disk, saveFailures, restarts, used, rejected, asked, deleted>>

\* MirrorScene: on success the app gets the id.
PostMirror(p) ==
    /\ req[p].pc = "mirror"
    /\ \/ /\ ha' = ha \cup {req[p].id}
          /\ acked' = acked \cup {req[p].id}
          /\ Step(p, Done)
          /\ UNCHANGED mirrorFailures
       \/ /\ MirrorFails
          /\ ha' \in {ha, ha \cup {req[p].id}}
          /\ Step(p, At("rollback", req[p].id))
          /\ UNCHANGED acked
    /\ UNCHANGED <<mem, disk, saveFailures, restarts, used, rejected, asked, deleted>>

\* Seeded bug: the rollback leaves the file alone.
PostRollbackUnsaved(p) ==
    /\ req[p].pc = "rollback"
    /\ mem' = mem \ {req[p].id}
    /\ rejected' = rejected \cup {req[p].id}
    /\ Step(p, Done)
    /\ UNCHANGED <<disk, ha, faults, used, acked, asked, deleted>>

\* The rollback's own failure is only logged.
PostRollback(p) ==
    /\ req[p].pc = "rollback"
    /\ mem' = mem \ {req[p].id}
    /\ SaveOk(mem') \/ SaveError
    /\ rejected' = rejected \cup {req[p].id}
    /\ Step(p, Done)
    /\ UNCHANGED <<ha, mirrorFailures, restarts, used, acked, asked, deleted>>

-----------------------------------------------------------------------------
(* DELETE /scenes/{id}.                                                    *)

DeleteGet(d, id) ==
    /\ req[d].pc = "idle"
    /\ id \in mem
    /\ asked' = asked \cup {id}
    /\ Step(d, At("unmirror", id))
    /\ UNCHANGED <<mem, disk, ha, faults, used, acked, rejected, deleted>>

\* DeleteMirroredScene: its failure, carried out or not, is only logged.
DeleteMirrored(d) ==
    /\ req[d].pc = "unmirror"
    /\ \/ ha' = ha \ {req[d].id} /\ UNCHANGED mirrorFailures
       \/ MirrorFails /\ ha' \in {ha, ha \ {req[d].id}}
    /\ Step(d, At("delete", req[d].id))
    /\ UNCHANGED <<mem, disk, saveFailures, restarts, history>>

\* Seeded bug: the error of Delete is ignored, as in DELETE /schedules.
DeleteStoredAnyway(d) ==
    /\ req[d].pc = "delete"
    /\ mem' = mem \ {req[d].id}
    /\ SaveOk(mem') \/ SaveError
    /\ deleted' = deleted \cup {req[d].id}
    /\ Step(d, Done)
    /\ UNCHANGED <<ha, mirrorFailures, restarts, used, acked, rejected, asked>>

\* SceneStore.Delete.
DeleteStored(d) ==
    /\ req[d].pc = "delete"
    /\ mem' = mem \ {req[d].id}
    /\ \/ SaveOk(mem') /\ deleted' = deleted \cup {req[d].id}
       \/ SaveError /\ UNCHANGED deleted
    /\ Step(d, Done)
    /\ UNCHANGED <<ha, mirrorFailures, restarts, used, acked, rejected, asked>>

-----------------------------------------------------------------------------
\* The process stops or dies, with every request in progress, and starts
\* again (NewSceneStore).  Goroutines that have not begun serve later ones.
Restart == /\ restarts < MaxRestarts
           /\ restarts' = restarts + 1
           /\ mem' = NewSceneStore(disk)
           /\ req' = [r \in Requests |-> IF req[r] = Idle THEN Idle ELSE Done]
           /\ UNCHANGED <<disk, ha, saveFailures, mirrorFailures, history>>

Next == \/ \E p \in Posts : \/ \E id \in SceneIds : PostCreate(p, id)
                            \/ PostMirror(p) \/ PostRollback(p)
        \/ \E d \in Deletes : \/ \E id \in SceneIds : DeleteGet(d, id)
                              \/ DeleteMirrored(d) \/ DeleteStored(d)
        \/ Restart

Spec == Init /\ [][Next]_vars

-----------------------------------------------------------------------------
(* Properties.                                                             *)

\* What a restart would find.
Saved == NewSceneStore(disk)

TypeOK == /\ mem \in SUBSET SceneIds
          /\ disk \in {NoFile, NoScenes} \cup SUBSET SceneIds
          /\ ha \in SUBSET SceneIds
          /\ req \in [Requests -> Request]
          /\ saveFailures \in 0..MaxSaveFailures
          /\ mirrorFailures \in 0..MaxMirrorFailures
          /\ restarts \in 0..MaxRestarts
          /\ used \in SUBSET SceneIds /\ acked \in SUBSET SceneIds
          /\ rejected \in SUBSET SceneIds /\ asked \in SUBSET SceneIds
          /\ deleted \in SUBSET SceneIds

\* A scene whose id an app was given, and that no DELETE was ever received
\* for, is in the store and will be after a restart, whatever fails in
\* between and whichever other requests run (scenes.go:165-186).
AckedScenesSurvive == acked \ asked \subseteq mem \cap Saved

\* A scene that an app was told is deleted never comes back, neither by a
\* POST that is still mirroring or rolling it back nor by a restart
\* (scenes.go:207-213, and TestScenes_DeleteRemovesMirroredScene).
DeletedScenesStayDeleted == deleted \cap (mem \cup Saved) = {}

\* A POST that answered with an error has left no scene behind, in memory or
\* in the file: "we roll the scene back out of the store and report CLIP
\* 901, leaving the app free to retry" (scenes.go:171-174).  This needs saves
\* that work: a scene whose save failed stays in memory.
RejectedLeavesNothing ==
    saveFailures = 0 => rejected \cap (mem \cup Saved) = {}

\* "A scene that exists Hue-side with no HA counterpart defeats the point of
\* mirroring" (scenes.go:171-172): with no request in progress there is none,
\* as long as saves work and no restart came between a save and its mirror.
Quiet == \A r \in Requests : req[r] \in {Idle, Done}
ScenesAreMirrored ==
    saveFailures = 0 /\ restarts = 0 /\ Quiet => mem \subseteq ha
=============================================================================
