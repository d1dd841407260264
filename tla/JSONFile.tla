------------------------------ MODULE JSONFile ------------------------------
(***************************************************************************)
(* store.JSONFile (internal/store/jsonfile.go): a JSON document kept in    *)
(* one file.  Save takes the instance's mutex, creates the directory and   *)
(* encodes the value, writes <path>.tmp with os.WriteFile (which first     *)
(* truncates it) and renames it over <path>; Load reads <path> under the   *)
(* same mutex.  Every caller shares the one temporary file, so the mutex   *)
(* is all that keeps a half-written document away from <path>.             *)
(*                                                                         *)
(* File contents are a whole document, Missing (no such file) or Partial   *)
(* (truncated or half written).  The process may die between any two       *)
(* steps: files survive, the mutex and the calls do not.  A loss of power  *)
(* that reorders writes on disk is outside the model: Save does not fsync. *)
(***************************************************************************)


CONSTANTS Callers, Documents, Missing, Nothing,
          Partial,      \* the contents of a file that is not fully written
          Free          \* the mutex when nobody holds it

ASSUME SentinelAssumption ==
    /\ Missing \notin Documents
    /\ Partial \notin Documents
    /\ Partial # Missing
    /\ Free \notin Callers

VARIABLES
    path,         \* contents of the document's file
    tmp,          \* contents of <path>.tmp
    mu,           \* JSONFile.mu: the caller that holds it, or Free
    pc,           \* pc[c]: where caller c is inside Save or Load
    arg           \* arg[c]: Save's argument, or what Load has read

vars == <<path, tmp, mu, pc, arg>>

\* Labels at which the caller holds the mutex.
SaveHeld == {"prepare", "open", "write", "rename", "saved"}
LoadHeld == {"read", "loaded"}
Held == SaveHeld \cup LoadHeld \cup {"failed"}
Labels == {"idle", "save", "load"} \cup Held

Files == Documents \cup {Missing, Partial}

TypeOK == /\ path \in Files
          /\ tmp \in Files
          /\ mu \in Callers \cup {Free}
          /\ pc \in [Callers -> Labels]
          /\ arg \in [Callers -> Documents \cup {Missing, Nothing}]

\* A temporary file may be left over from an earlier, interrupted run.
Init == /\ path \in Documents \cup {Missing}
        /\ tmp \in Files
        /\ mu = Free
        /\ pc = [c \in Callers |-> "idle"]
        /\ arg = [c \in Callers |-> Nothing]

Goto(c, label) == pc' = [pc EXCEPT ![c] = label]

CallSave(c) == /\ pc[c] = "idle"
               /\ \E d \in Documents : arg' = [arg EXCEPT ![c] = d]
               /\ Goto(c, "save")
               /\ UNCHANGED <<path, tmp, mu>>

CallLoad(c) == /\ pc[c] = "idle"
               /\ Goto(c, "load")
               /\ UNCHANGED <<path, tmp, mu, arg>>

\* Seeded bug: Save and Load forget the mutex.
LockIgnored(c) == /\ mu' = c
                  /\ \/ pc[c] = "save" /\ Goto(c, "prepare")
                     \/ pc[c] = "load" /\ Goto(c, "read")
                  /\ UNCHANGED <<path, tmp, arg>>

\* f.mu.Lock(), the first statement of both methods.
Lock(c) == /\ mu = Free
           /\ mu' = c
           /\ \/ pc[c] = "save" /\ Goto(c, "prepare")
              \/ pc[c] = "load" /\ Goto(c, "read")
           /\ UNCHANGED <<path, tmp, arg>>

\* os.MkdirAll and json.MarshalIndent touch neither file.
Prepare(c) == /\ pc[c] = "prepare"
              /\ Goto(c, "open")
              /\ UNCHANGED <<path, tmp, mu, arg>>

\* Seeded bug: the document is written in place.
OpenInPlace(c) == /\ pc[c] = "open"
                  /\ path' = Partial
                  /\ Goto(c, "write")
                  /\ UNCHANGED <<tmp, mu, arg>>

\* os.WriteFile opens the temporary file with O_TRUNC ...
OpenTmp(c) == /\ pc[c] = "open"
              /\ tmp' = Partial
              /\ Goto(c, "write")
              /\ UNCHANGED <<path, mu, arg>>

\* ... and then writes all of it.
WriteTmp(c) == /\ pc[c] = "write"
               /\ tmp' = arg[c]
               /\ Goto(c, "rename")
               /\ UNCHANGED <<path, mu, arg>>

\* Seeded bug: a step after the rename fails, and Save reports that.
RenameThenError(c) == /\ pc[c] = "rename"
                      /\ path' = tmp
                      /\ tmp' = Missing
                      /\ Goto(c, "failed")
                      /\ UNCHANGED <<mu, arg>>

Rename(c) == /\ pc[c] = "rename"
             /\ path' = tmp
             /\ tmp' = Missing
             /\ Goto(c, "saved")
             /\ UNCHANGED <<mu, arg>>

\* Seeded bug: an early return of Save that does not release the mutex.
SaveErrorKeepsLock(c) == /\ pc[c] \in {"prepare", "open", "write", "rename"}
                         /\ arg' = [arg EXCEPT ![c] = Nothing]
                         /\ Goto(c, "idle")
                         /\ UNCHANGED <<path, tmp, mu>>

\* Any system call of Save may fail; a write that fails leaves tmp Partial.
SaveError(c) == /\ pc[c] \in {"prepare", "open", "write", "rename"}
                /\ Goto(c, "failed")
                /\ UNCHANGED <<path, tmp, mu, arg>>

\* Load: a missing file yields the default, a partial one a decode error.
ReadFile(c) == /\ pc[c] = "read"
               /\ path # Partial
               /\ arg' = [arg EXCEPT ![c] = path]
               /\ Goto(c, "loaded")
               /\ UNCHANGED <<path, tmp, mu>>

LoadError(c) == /\ pc[c] = "read"
                /\ Goto(c, "failed")
                /\ UNCHANGED <<path, tmp, mu, arg>>

\* The deferred f.mu.Unlock() and the return.
Unlock(c) == /\ pc[c] \in {"saved", "loaded", "failed"}
             /\ mu' = Free
             /\ arg' = [arg EXCEPT ![c] = Nothing]
             /\ Goto(c, "idle")
             /\ UNCHANGED <<path, tmp>>

Crash == /\ mu' = Free
         /\ pc' = [c \in Callers |-> "idle"]
         /\ arg' = [c \in Callers |-> Nothing]
         /\ UNCHANGED <<path, tmp>>

Proceed(c) == \/ Prepare(c) \/ OpenTmp(c) \/ WriteTmp(c) \/ Rename(c)
              \/ SaveError(c) \/ ReadFile(c) \/ LoadError(c) \/ Unlock(c)

Next == \/ \E c \in Callers : \/ CallSave(c) \/ CallLoad(c)
                              \/ Lock(c) \/ Proceed(c)
        \/ Crash

\* A goroutine inside a call keeps running, and a Go mutex is starvation
\* free: a waiter that finds it unlocked again and again does get it.
Fairness == \A c \in Callers : WF_vars(Proceed(c)) /\ SF_vars(Lock(c))

Spec == Init /\ [][Next]_vars
FairSpec == Spec /\ Fairness

-----------------------------------------------------------------------------
(* Properties.                                                             *)

\* The mutex is held by exactly the caller that is past Lock (the invariant
\* every other property rests on; jsonfile.go:26-27, 49-50).
HolderIsInside == \A c \in Callers : pc[c] \in Held <=> mu = c

\* When a caller is about to rename, the temporary file all callers share
\* holds the whole of that caller's document and nobody else's
\* (jsonfile.go:61-65).
TmpIsMine == \A c \in Callers : pc[c] = "rename" => tmp = arg[c]

\* No interleaving, failed write or crash ever leaves a half-written
\* document where the next Load, or the next start, will look for one.
PathWhole == path # Partial

\* The abstract call a concrete label stands for.
AbstractCall ==
    [c \in Callers |->
        IF pc[c] \in {"save", "prepare", "open", "write", "rename"} THEN "saving"
        ELSE IF pc[c] \in {"load", "read"} THEN "loading"
        ELSE pc[c]]

Document == INSTANCE AtomicDocument
                WITH doc <- path, call <- AbstractCall, value <- arg

\* Save and Load are atomic: "replacing the previous contents atomically"
\* (jsonfile.go:46-47).  A Save that reports an error changed nothing, one
\* that returns success installed its own document, a Load returns a whole
\* document that was in force during the call.
Atomic == Document!Spec

\* No caller waits for the mutex, or inside a call, for ever.
CallsReturn == \A c \in Callers : pc[c] # "idle" ~> pc[c] = "idle"
=============================================================================
