------------------------------- MODULE Setup -------------------------------
(***************************************************************************)
(* The first run of the standalone bridge: runStandalone and               *)
(* runSetupWizard (cmd/huebridge/main.go) and the wizard they serve        *)
(* (internal/setup).  Main loads standalone.json; if that is not complete  *)
(* it serves the wizard, waits until a handler has closed done, shuts the  *)
(* wizard's server down, for at most ten seconds, and loads again.         *)
(* net/http serves every request in a goroutine of its own, and one that   *)
(* outlasts the shutdown goes on while the bridge is already running.      *)
(*                                                                         *)
(* A target is a Home Assistant URL with its token; a password stands for  *)
(* its hash.  Left out: the pages, the discovery that prefills a form, and *)
(* forms with a required field empty, which are shown again.               *)
(***************************************************************************)
EXTENDS Naturals

CONSTANTS
    Tabs,             \* browser tabs on the wizard: one request each at a time
    Passwords, Targets,
    None,             \* an empty field
    NoFile,           \* there is no standalone.json
    Unreadable,       \* standalone.json cannot be read or decoded
    FirstFiles,       \* what standalone.json may be at the first start
    MaxSubmits,       \* bound: forms of the second step that are posted
    MaxSaveFailures,  \* bound: how many calls of Store.Save fail
    MaxRestarts       \* bound: how often the process dies and restarts

Config == [target : Targets \cup {None}, hash : Passwords \cup {None}]
File == {NoFile, Unreadable} \cup Config

ASSUME SetupAssumption ==
    /\ None \notin Passwords \cup Targets
    /\ \A c \in Config : c \notin {NoFile, Unreadable}
    /\ NoFile # Unreadable
    /\ FirstFiles \subseteq File
    /\ {MaxSubmits, MaxSaveFailures, MaxRestarts} \subseteq Nat

\* Config.Complete, of what Load returns for a file that can be read.
Complete(file) == file # NoFile /\ file.target # None /\ file.hash # None

VARIABLES
    main,      \* where the main goroutine is
    cfg,       \* the configuration the bridge runs with
    file,      \* standalone.json
    hash,      \* Wizard.passwordHash, None while passwordIsSet is false
    done,      \* Wizard.done is closed
    req,       \* req[t]: tab t's POST /setup/homeassistant
    submits, saveFailures, restarts,
    \* Bookkeeping that the code does not have:
    verified,  \* targets that Home Assistant has accepted
    chosen     \* the password that was last accepted by this process, None if
               \* a form of the second step was being served at the time

bounds == <<submits, saveFailures, restarts>>
vars == <<main, cfg, file, hash, done, req, bounds, verified, chosen>>

Idle == [pc |-> "idle"]
Labels == {"body", "verify", "save", "chmod", "complete"}
Request == {Idle} \cup [pc : Labels, target : Targets, hash : Passwords]
Step(t, next) == req' = [req EXCEPT ![t] = next]
Goto(t, label) == req' = [req EXCEPT ![t].pc = label]

Init == /\ main = "loading"
        /\ cfg = None
        /\ file \in FirstFiles
        /\ hash = None /\ done = FALSE
        /\ req = [t \in Tabs |-> Idle]
        /\ submits = 0 /\ saveFailures = 0 /\ restarts = 0
        /\ verified = {} /\ chosen = None

-----------------------------------------------------------------------------
(* The main goroutine.                                                     *)

\* log.Fatalf, or the bridge, or the wizard, unless its certificate cannot be
\* made or its port is taken.
Start == /\ main = "loading"
         /\ \/ file = Unreadable /\ main' = "dead" /\ UNCHANGED cfg
            \/ file # Unreadable /\ Complete(file) /\ main' = "running" /\ cfg' = file
            \/ /\ file # Unreadable /\ ~Complete(file)
               /\ main' \in {"wizard", "dead"}
               /\ UNCHANGED cfg
         /\ UNCHANGED <<file, hash, done, req, bounds, verified, chosen>>

\* <-wizard.Done(), and Shutdown closes the listener.
ShutdownStart == /\ main = "wizard" /\ done
                 /\ main' = "draining"
                 /\ UNCHANGED <<cfg, file, hash, done, req, bounds, verified, chosen>>

\* Seeded bug: Shutdown with a context that has no deadline.
ShutdownWaits == /\ main = "draining"
                 /\ \A t \in Tabs : req[t] = Idle
                 /\ main' = "reloading"
                 /\ UNCHANGED <<cfg, file, hash, done, req, bounds, verified, chosen>>

\* Shutdown returns when no request is left, or after shutdownTimeout, which
\* is only logged.
ShutdownEnd == /\ main = "draining"
               /\ main' = "reloading"
               /\ UNCHANGED <<cfg, file, hash, done, req, bounds, verified, chosen>>

\* cfgStore.Load() again, with its two log.Fatalf.
Reload == /\ main = "reloading"
          /\ IF file # Unreadable /\ Complete(file)
             THEN main' = "running" /\ cfg' = file
             ELSE main' = "dead" /\ UNCHANGED cfg
          /\ UNCHANGED <<file, hash, done, req, bounds, verified, chosen>>

\* The process dies, at any point, and the container starts it again.
Restart == /\ restarts < MaxRestarts
           /\ restarts' = restarts + 1
           /\ main' = "loading"
           /\ cfg' = None /\ hash' = None /\ done' = FALSE /\ chosen' = None
           /\ req' = [t \in Tabs |-> Idle]
           /\ UNCHANGED <<file, submits, saveFailures, verified>>

-----------------------------------------------------------------------------
(* The wizard's handlers.  The listener is open while main waits.          *)

\* Seeded bug: only the first password is taken.
PasswordSubmitOnce(t, p) ==
    /\ main = "wizard" /\ req[t] = Idle
    /\ hash' = IF hash = None THEN p ELSE hash
    /\ chosen' = IF \A u \in Tabs : req[u] = Idle THEN p ELSE None
    /\ UNCHANGED <<main, cfg, file, done, req, bounds, verified>>

\* POST /setup/password, with two equal passwords that are not empty.
PasswordSubmit(t, p) ==
    /\ main = "wizard" /\ req[t] = Idle
    /\ hash' = p
    /\ chosen' = IF \A u \in Tabs : req[u] = Idle THEN p ELSE None
    /\ UNCHANGED <<main, cfg, file, done, req, bounds, verified>>

\* Seeded bug: the second form is accepted before the first.
HASubmitUnchecked(t, target) ==
    /\ main = "wizard" /\ req[t] = Idle
    /\ submits < MaxSubmits
    /\ submits' = submits + 1
    /\ Step(t, [pc |-> "body", target |-> target, hash |-> hash])
    /\ UNCHANGED <<main, cfg, file, hash, done, saveFailures, restarts, verified, chosen>>

\* POST /setup/homeassistant takes the password as it is now, and without
\* one sends the browser back to the first form.
HASubmit(t, target) ==
    /\ main = "wizard" /\ req[t] = Idle
    /\ hash # None
    /\ submits < MaxSubmits
    /\ submits' = submits + 1
    /\ Step(t, [pc |-> "body", target |-> target, hash |-> hash])
    /\ UNCHANGED <<main, cfg, file, hash, done, saveFailures, restarts, verified, chosen>>

\* r.ParseForm: the rest of the request arrives, or the client goes away.
Body(t) == /\ req[t].pc = "body"
           /\ Goto(t, "verify") \/ Step(t, Idle)
           /\ UNCHANGED <<main, cfg, file, hash, done, bounds, verified, chosen>>

\* Seeded bug: Home Assistant's refusal is ignored.
VerifyIgnored(t) ==
    /\ req[t].pc = "verify"
    /\ verified' \in {verified, verified \cup {req[t].target}}
    /\ Goto(t, "save")
    /\ UNCHANGED <<main, cfg, file, hash, done, bounds, chosen>>

\* verifyHA, within ten seconds.
Verify(t) ==
    /\ req[t].pc = "verify"
    /\ \/ verified' = verified \cup {req[t].target} /\ Goto(t, "save")
       \/ Step(t, Idle) /\ UNCHANGED verified
    /\ UNCHANGED <<main, cfg, file, hash, done, bounds, chosen>>

SaveFails(t) == /\ saveFailures < MaxSaveFailures
                /\ saveFailures' = saveFailures + 1
                /\ Step(t, Idle)

\* Seeded bug: the error of Store.Save is not looked at.
SaveUnchecked(t) ==
    /\ req[t].pc = "save"
    /\ \/ /\ file' = [target |-> req[t].target, hash |-> req[t].hash]
          /\ UNCHANGED saveFailures
       \/ /\ saveFailures < MaxSaveFailures
          /\ saveFailures' = saveFailures + 1
          /\ UNCHANGED file
    /\ Goto(t, "complete")
    /\ UNCHANGED <<main, cfg, hash, done, submits, restarts, verified, chosen>>

\* Store.Save: the file is replaced ...
Save(t) == /\ req[t].pc = "save"
           /\ \/ /\ file' = [target |-> req[t].target, hash |-> req[t].hash]
                 /\ Goto(t, "chmod")
                 /\ UNCHANGED saveFailures
              \/ SaveFails(t) /\ UNCHANGED file
           /\ UNCHANGED <<main, cfg, hash, done, submits, restarts, verified, chosen>>

\* ... and then its mode is changed; if that fails Save reports an error
\* although the configuration is in place.
Chmod(t) == /\ req[t].pc = "chmod"
            /\ \/ Goto(t, "complete") /\ UNCHANGED saveFailures
               \/ SaveFails(t)
            /\ UNCHANGED <<main, cfg, file, hash, done, submits, restarts, verified, chosen>>

CompleteSetup(t) == /\ req[t].pc = "complete"
                    /\ done' = TRUE
                    /\ Step(t, Idle)
                    /\ UNCHANGED <<main, cfg, file, hash, bounds, verified, chosen>>

Main == Start \/ ShutdownStart \/ ShutdownEnd \/ Reload
Serve(t) == Verify(t) \/ Save(t) \/ Chmod(t) \/ CompleteSetup(t)

Handle(t) == \/ \E p \in Passwords : PasswordSubmit(t, p)
             \/ \E target \in Targets : HASubmit(t, target)
             \/ Body(t) \/ Serve(t)

Next == Main \/ Restart \/ \E t \in Tabs : Handle(t)

Spec == Init /\ [][Next]_vars

\* The goroutines run, and verifyHA and Shutdown have their time limits; a
\* client may take for ever to send its form.
FairSpec == Spec /\ WF_vars(Main) /\ \A t \in Tabs : WF_vars(Serve(t))

-----------------------------------------------------------------------------
(* Properties.                                                             *)

TypeOK == /\ main \in {"loading", "wizard", "draining", "reloading", "running", "dead"}
          /\ cfg \in {None} \cup Config
          /\ file \in File
          /\ hash \in Passwords \cup {None}
          /\ done \in BOOLEAN
          /\ req \in [Tabs -> Request]
          /\ submits \in 0..MaxSubmits
          /\ saveFailures \in 0..MaxSaveFailures
          /\ restarts \in 0..MaxRestarts
          /\ verified \in SUBSET Targets
          /\ chosen \in Passwords \cup {None}

\* "The wizard should never signal Done() without having persisted a
\* complete config" (main.go:198-204), and whatever other requests and
\* restarts do, the complete config is not lost again: so the check that is
\* there belt-and-suspenders never stops the process.
Persisted == file \notin {NoFile, Unreadable} /\ Complete(file)
DoneMeansPersisted == done \/ main \in {"draining", "reloading", "running"} => Persisted

\* "a Home Assistant URL/token step that's verified against HA before
\* anything is persisted" (wizard.go:1-3): what the wizard has put in the
\* file was accepted by Home Assistant first, whoever else is submitting.
OnlyVerifiedIsPersisted ==
    [][file' # file => file'.target \in verified /\ file'.hash # None]_vars

\* When the wizard reports that setup is complete, the password in force is
\* the one the operator chose last (wizard.go:89-94, 106-107, 139-146), unless
\* it was chosen while another tab's second form, which brings the password
\* of its own time, was being served.
ChosenPasswordIsPersisted ==
    [][~done /\ done' /\ chosen # None => file.hash = chosen]_vars

\* Once the wizard is done the bridge starts, even if a client is still
\* sending a form and never finishes (main.go:186-192).
SetupEnds == done ~> main \in {"running", "dead", "loading"}
=============================================================================
