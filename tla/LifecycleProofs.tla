--------------------------- MODULE LifecycleProofs ---------------------------
(***************************************************************************)
(* Proofs about Setup and Lifecycle, for any number of tabs, clients,      *)
(* passwords, targets and interfaces and any bounds.  What Setup promises  *)
(* is proved of its own specification; Lifecycle, whose steps are Setup's  *)
(* or leave Setup's variables alone, implements it.                        *)
(***************************************************************************)
EXTENDS Lifecycle, TLAPS

\* A request whose configuration is in the file.
Saved(t) == req[t].pc \in {"chmod", "complete"}

\* Of the requests in progress: those that saved saw to it that the file is
\* complete, those that verified brought a verified target, and all have the
\* password that was chosen last unless there is none.
SInv ==
    /\ TypeOK
    /\ \/ done
       \/ main \in {"draining", "reloading", "running"}
       \/ \E t \in Tabs : Saved(t)
       => Persisted
    /\ \A t \in Tabs : req[t].pc = "save" \/ Saved(t) => req[t].target \in verified
    /\ chosen # None =>
          /\ hash = chosen
          /\ ~done => \A t \in Tabs : /\ req[t] # Idle => req[t].hash = chosen
                                      /\ Saved(t) => file.hash = chosen

LEMMA RequestKinds ==
  ASSUME TypeOK, NEW t \in Tabs
  PROVE  /\ req[t] \in Request
         /\ req[t].pc = "idle" <=> req[t] = Idle
         /\ req[t] # Idle => /\ req[t] \in [pc : Labels, target : Targets, hash : Passwords]
                             /\ req[t].pc \in Labels
                             /\ req[t].target \in Targets /\ req[t].hash \in Passwords
BY DEF TypeOK, Request, Idle, Labels

\* A configuration that is saved is complete.
LEMMA Complete1 ==
  ASSUME NEW target \in Targets, NEW p \in Passwords, file' = [target |-> target, hash |-> p]
  PROVE  Persisted' /\ file' \in File /\ file'.target = target /\ file'.hash = p
<1>1. target # None /\ p # None /\ file' \in Config
  BY SetupAssumption DEF Config
<1> QED
  BY <1>1, SetupAssumption DEF Persisted, Complete, File

LEMMA IdleIsIdle == Idle.pc = "idle" /\ Idle \in Request
BY DEF Idle, Request

LEMMA SetupInit == Init => SInv
<1> SUFFICES ASSUME Init PROVE SInv
  OBVIOUS
<1>1. TypeOK
  <2>1. submits \in 0..MaxSubmits /\ saveFailures \in 0..MaxSaveFailures /\ restarts \in 0..MaxRestarts
    BY SetupAssumption DEF Init
  <2> QED
    BY <2>1, SetupAssumption, IdleIsIdle DEF Init, TypeOK
<1>2. \A t \in Tabs : req[t].pc = "idle"
  BY IdleIsIdle DEF Init
<1> QED
  BY <1>1, <1>2 DEF Init, SInv, Saved

LEMMA MainInv ==
  ASSUME SInv, Main
  PROVE  SInv'
<1>1. UNCHANGED <<file, hash, done, req, submits, saveFailures, restarts, verified, chosen>>
  BY DEF Main, Start, ShutdownStart, ShutdownEnd, Reload, bounds
<1>2. main' \in {"loading", "wizard", "draining", "reloading", "running", "dead"}
      /\ cfg' \in {None} \cup Config
  BY DEF Main, Start, ShutdownStart, ShutdownEnd, Reload, SInv, TypeOK, File, Complete
<1>3. main' \in {"draining", "reloading", "running"} => Persisted
  BY DEF Main, Start, ShutdownStart, ShutdownEnd, Reload, SInv, Persisted, Complete
<1>4. TypeOK'
  BY <1>1, <1>2 DEF SInv, TypeOK
<1>5. Persisted => Persisted'
  BY <1>1 DEF Persisted
<1> QED
  BY <1>1, <1>3, <1>4, <1>5 DEF SInv, Saved

LEMMA RestartInv ==
  ASSUME SInv, Restart
  PROVE  SInv'
<1>1. restarts' \in 0..MaxRestarts
  BY SetupAssumption DEF Restart, SInv, TypeOK
<1>2. TypeOK'
  BY <1>1, IdleIsIdle DEF Restart, SInv, TypeOK
<1>3. main' = "loading" /\ ~done' /\ chosen' = None /\ \A t \in Tabs : req'[t].pc = "idle"
  BY IdleIsIdle DEF Restart
<1> QED
  BY <1>2, <1>3 DEF SInv, Saved

LEMMA FormInv ==
  ASSUME SInv, NEW t \in Tabs,
         \/ \E p \in Passwords : PasswordSubmit(t, p)
         \/ \E target \in Targets : HASubmit(t, target)
  PROVE  SInv'
<1>1. ASSUME NEW p \in Passwords, PasswordSubmit(t, p)
      PROVE  SInv'
  <2>1. UNCHANGED <<main, cfg, file, done, req, submits, saveFailures, restarts, verified>>
        /\ hash' = p /\ chosen' = IF \A u \in Tabs : req[u] = Idle THEN p ELSE None
    BY <1>1 DEF PasswordSubmit, bounds
  <2>2. TypeOK'
    BY <2>1 DEF SInv, TypeOK
  <2>3. Persisted => Persisted'
    BY <2>1 DEF Persisted
  <2>4. (\A u \in Tabs : req[u] = Idle) => \A u \in Tabs : ~Saved(u)
    BY IdleIsIdle DEF Saved
  <2> QED
    BY <2>1, <2>2, <2>3, <2>4 DEF SInv, Saved
<1>2. ASSUME NEW target \in Targets, HASubmit(t, target)
      PROVE  SInv'
  <2>1. UNCHANGED <<main, cfg, file, hash, done, saveFailures, restarts, verified, chosen>>
        /\ submits' = submits + 1 /\ submits < MaxSubmits /\ hash # None
        /\ req' = [req EXCEPT ![t] = [pc |-> "body", target |-> target, hash |-> hash]]
    BY <1>2 DEF HASubmit, Step
  <2>2. hash \in Passwords
    BY <2>1 DEF SInv, TypeOK
  <2>3. TypeOK'
    <3>1. [pc |-> "body", target |-> target, hash |-> hash] \in Request
      BY <2>2 DEF Request, Labels
    <3>2. submits' \in 0..MaxSubmits
      BY <2>1, SetupAssumption DEF SInv, TypeOK
    <3> QED
      BY <2>1, <3>1, <3>2 DEF SInv, TypeOK
  <2>4. /\ req'[t].pc = "body" /\ req'[t].hash = hash
        /\ \A u \in Tabs : u # t => req'[u] = req[u]
    BY <2>1 DEF SInv, TypeOK
  <2>5. Persisted => Persisted'
    BY <2>1 DEF Persisted
  <2> QED
    BY <2>1, <2>3, <2>4, <2>5 DEF SInv, Saved
<1> QED
  BY <1>1, <1>2

\* A request that ends, and one that goes on to a later step.
LEMMA Ends ==
  ASSUME TypeOK, NEW t \in Tabs, Step(t, Idle)
  PROVE  /\ req' \in [Tabs -> Request]
         /\ req'[t] = Idle /\ \A u \in Tabs : u # t => req'[u] = req[u]
BY DEF Step, TypeOK, Request

LEMMA GoesOn ==
  ASSUME TypeOK, NEW t \in Tabs, req[t] # Idle, NEW label \in Labels, Goto(t, label)
  PROVE  /\ req' \in [Tabs -> Request]
         /\ req'[t].pc = label /\ req'[t].target = req[t].target /\ req'[t].hash = req[t].hash
         /\ \A u \in Tabs : u # t => req'[u] = req[u]
<1>1. req[t] \in [pc : Labels, target : Targets, hash : Passwords]
  BY RequestKinds
<1>2. /\ req' = [req EXCEPT ![t] = [req[t] EXCEPT !.pc = label]]
      /\ [req[t] EXCEPT !.pc = label] \in [pc : Labels, target : Targets, hash : Passwords]
  BY <1>1 DEF Goto
<1> QED
  BY <1>1, <1>2 DEF TypeOK, Request

LEMMA ServeInv ==
  ASSUME SInv, NEW t \in Tabs, Body(t) \/ Serve(t)
  PROVE  SInv'
<1>1. req[t] # Idle /\ req[t].target \in Targets /\ req[t].hash \in Passwords
  BY IdleIsIdle, RequestKinds DEF SInv, Body, Serve, Verify, Save, Chmod, CompleteSetup
<1>2. {"verify", "save", "chmod", "complete"} \subseteq Labels
  BY DEF Labels
<1>3. \A u \in Tabs : Saved(u) => Persisted
  BY DEF SInv
<1>4. UNCHANGED <<main, cfg, hash, submits, restarts, chosen>>
  BY DEF Body, Serve, Verify, Save, Chmod, CompleteSetup, bounds
\* A step that ends the request and leaves the file alone.
<1>5. ASSUME Step(t, Idle), UNCHANGED file, verified' = verified, saveFailures' \in 0..MaxSaveFailures,
             done' = done \/ (Saved(t) /\ done' = TRUE)
      PROVE  SInv'
  <2>1. TypeOK'
    BY <1>4, <1>5, Ends DEF SInv, TypeOK
  <2>2. /\ ~Saved(t)' /\ req'[t] = Idle /\ req'[t].pc = "idle"
        /\ \A u \in Tabs : u # t => req'[u] = req[u]
    BY <1>5, Ends, IdleIsIdle DEF SInv, Saved
  <2>3. Persisted' <=> Persisted
    BY <1>5 DEF Persisted
  <2> QED
    BY <1>3, <1>4, <1>5, <2>1, <2>2, <2>3 DEF SInv, Saved
\* A step that goes on without touching the file.
<1>6. ASSUME NEW label \in {"verify", "save", "complete"}, Goto(t, label), UNCHANGED <<file, done>>,
             label = "complete" => req[t].pc = "chmod",
             verified' = verified \/ verified' = verified \cup {req[t].target},
             label = "save" => req[t].target \in verified',
             saveFailures' = saveFailures
      PROVE  SInv'
  <2>1. /\ req' \in [Tabs -> Request]
        /\ req'[t].pc = label /\ req'[t].target = req[t].target /\ req'[t].hash = req[t].hash
        /\ \A u \in Tabs : u # t => req'[u] = req[u]
    BY <1>1, <1>2, <1>6, GoesOn DEF SInv
  <2>2. TypeOK'
    BY <1>1, <1>4, <1>6, <2>1 DEF SInv, TypeOK
  <2>3. Persisted' <=> Persisted
    BY <1>6 DEF Persisted
  <2>4. \A u \in Tabs : Saved(u)' => Saved(u)
    BY <1>6, <2>1 DEF Saved
  <2> QED
    BY <1>1, <1>3, <1>4, <1>6, <2>1, <2>2, <2>3, <2>4 DEF SInv, Saved
<1>7. ASSUME Save(t), file' = [target |-> req[t].target, hash |-> req[t].hash], Goto(t, "chmod"),
             UNCHANGED <<saveFailures, done, verified>>
      PROVE  SInv'
  <2>1. Persisted' /\ file' \in File /\ file'.hash = req[t].hash
    BY <1>1, <1>7, Complete1
  <2>2. /\ req' \in [Tabs -> Request]
        /\ req'[t].pc = "chmod" /\ req'[t].target = req[t].target /\ req'[t].hash = req[t].hash
        /\ \A u \in Tabs : u # t => req'[u] = req[u]
    BY <1>1, <1>2, <1>7, GoesOn DEF SInv
  <2>3. TypeOK'
    BY <1>4, <1>7, <2>1, <2>2 DEF SInv, TypeOK
  <2>4. chosen # None /\ ~done => file'.hash = chosen
    BY <1>1, <2>1 DEF SInv
  <2>5. \A u \in Tabs : Saved(u)' => u = t \/ Saved(u)
    BY <2>2 DEF Saved
  <2>6. req[t].target \in verified
    BY <1>7 DEF SInv, Save
  <2> QED
    BY <1>1, <1>4, <1>7, <2>1, <2>2, <2>3, <2>4, <2>5, <2>6 DEF SInv, Saved
<1>8. CASE Body(t)
  BY <1>5, <1>6, <1>8 DEF Body, bounds, SInv, TypeOK
<1>9. CASE Verify(t)
  BY <1>5, <1>6, <1>9 DEF Verify, bounds, SInv, TypeOK
<1>10. SaveFails(t) => saveFailures' \in 0..MaxSaveFailures /\ Step(t, Idle)
  BY SetupAssumption DEF SaveFails, SInv, TypeOK
<1>11. CASE Save(t)
  BY <1>5, <1>7, <1>10, <1>11 DEF Save
<1>12. CASE Chmod(t)
  BY <1>5, <1>6, <1>10, <1>12 DEF Chmod
<1>13. CASE CompleteSetup(t)
  BY <1>5, <1>13 DEF CompleteSetup, bounds, SInv, TypeOK, Saved
<1> QED
  BY <1>8, <1>9, <1>11, <1>12, <1>13 DEF Serve

LEMMA SetupNext == SInv /\ [Next]_vars => SInv'
<1>1. CASE UNCHANGED vars
  BY <1>1 DEF vars, bounds, SInv, TypeOK, Saved, Persisted
<1> QED
  BY <1>1, MainInv, RestartInv, FormInv, ServeInv DEF Next, Handle

LEMMA SetupInductive == Spec => []SInv
BY SetupInit, SetupNext, PTL DEF Spec

-----------------------------------------------------------------------------
(* Lifecycle implements Setup.                                             *)

LEMMA RestartIsSetups == LRestart => Restart
BY DEF LRestart

LEMMA StepsAreSetups == [LNext]_allVars => [Next]_vars
<1> SUFFICES ASSUME [LNext]_allVars PROVE [Next]_vars
  OBVIOUS
<1>1. CASE SetupMain \/ LRestart \/ \E t \in Tabs : SetupHandle(t)
  BY <1>1, RestartIsSetups DEF SetupMain, SetupHandle, Next
<1>2. CASE \/ Up \/ Down \/ Signal \/ Pass
           \/ \E s \in Servers : \/ Listen(s) \/ ServerFails(s)
                                 \/ \E c \in Conns : Accept(c, s)
           \/ \E c \in Conns : Answer(c)
  <2>1. UNCHANGED vars
    BY <1>2 DEF Up, RunBridge, LoadRegistry, LoadOrGenerate, TruncateCert, WriteCert,
                ListenAndAdvertise, Serving, Down, Stop, DrainApi, DrainAdmin, DrainPlain, Drain,
                Withdraw, Signal, Pass, Listen, ServerFails, Accept, Answer, outside
  <2> QED
    BY <2>1
<1>3. CASE UNCHANGED allVars
  BY <1>3 DEF allVars
<1> QED
  BY <1>1, <1>2, <1>3 DEF LNext

\* Whatever Setup promises holds of the whole installation.
THEOREM ImplementsSetup == LSpec => Spec
BY StepsAreSetups, PTL DEF LSpec, LInit, Spec

\* The wizard never signals that it is done without a complete configuration in
\* the file, and it is not lost again (main.go:198-204).
THEOREM DonePersisted == LSpec => []DoneMeansPersisted
<1>1. SInv => DoneMeansPersisted
  BY DEF SInv, DoneMeansPersisted
<1> QED
  BY <1>1, ImplementsSetup, SetupInductive, PTL

\* Only what Home Assistant has accepted gets into the file (wizard.go:1-3).
THEOREM VerifiedPersisted == LSpec => OnlyVerifiedIsPersisted
<1>1. SInv /\ [Next]_vars => [file' # file => file'.target \in verified /\ file'.hash # None]_vars
  <2> SUFFICES ASSUME SInv, Next, file' # file
               PROVE  file'.target \in verified /\ file'.hash # None
    OBVIOUS
  <2>1. PICK t \in Tabs : Save(t) /\ file' = [target |-> req[t].target, hash |-> req[t].hash]
    BY DEF Next, Main, Start, ShutdownStart, ShutdownEnd, Reload, Restart, Handle, PasswordSubmit,
           HASubmit, Body, Serve, Verify, Save, Chmod, CompleteSetup
  <2>2. req[t].target \in verified /\ req[t] # Idle
    BY <2>1, IdleIsIdle DEF SInv, Save
  <2>3. req[t].hash \in Passwords
    BY <2>2, RequestKinds DEF SInv
  <2> QED
    BY <2>1, <2>2, <2>3, SetupAssumption
<1> QED
  BY <1>1, ImplementsSetup, SetupInductive, PTL DEF Spec, OnlyVerifiedIsPersisted

\* Setup ends with the password that was chosen last in force, unless another
\* tab's form was being served then (wizard.go:106-107, 139-146).
THEOREM ChosenPersisted == LSpec => ChosenPasswordIsPersisted
<1>1. SInv /\ [Next]_vars => [~done /\ done' /\ chosen # None => file.hash = chosen]_vars
  <2> SUFFICES ASSUME SInv, Next, ~done, done', chosen # None
               PROVE  file.hash = chosen
    OBVIOUS
  <2>1. PICK t \in Tabs : CompleteSetup(t)
    BY DEF Next, Main, Start, ShutdownStart, ShutdownEnd, Reload, Restart, Handle, PasswordSubmit,
           HASubmit, Body, Serve, Verify, Save, Chmod
  <2> QED
    BY <2>1 DEF SInv, CompleteSetup, Saved
<1> QED
  BY <1>1, ImplementsSetup, SetupInductive, PTL DEF Spec, ChosenPasswordIsPersisted

-----------------------------------------------------------------------------
(* The bridge's certificate and its servers.                               *)

Boots == {"off", "registry", "certificate", "save", "write", "listen", "serve", "select",
          "drain api", "drain admin", "drain plain", "withdraw", "exited", "dead"}
States == {"none", "bound", "starting", "listening", "failed", "closed"}

\* Where main is once it has a certificate.
Certified == {"listen", "serve", "select", "drain api", "drain admin", "drain plain", "withdraw",
              "exited"}

BridgeTypes ==
    /\ mode \in Modes /\ boot \in Boots
    /\ catching \in BOOLEAN /\ cancelled \in BOOLEAN
    /\ mac \in Macs
    /\ certFile \in {NoCert, Torn} \cup Cert /\ cert \in {NoCert} \cup Cert
    /\ advertised \in BOOLEAN
    /\ server \in [Servers -> States]
    /\ conn \in [Conns -> {"none"} \cup Servers]
    /\ left \in 0..Grace
    /\ readFailures \in 0..MaxReadFailures /\ macChanges \in 0..MaxMacChanges
    /\ keys \in Nat
    /\ shown \in {NoCert} \cup Cert

\* What is served is what is in the file; and what was shown is, too, as long
\* as the file can be read.
Identity ==
    /\ boot \in Certified => cert \in Cert /\ certFile = cert
    /\ boot \in {"save", "write"} => cert \in Cert
    /\ macChanges = 0 => /\ mac = FirstMac
                         /\ \A c \in {cert, certFile} \cap Cert : c.serial = FirstMac
    /\ readFailures = 0 /\ shown # NoCert => certFile = shown /\ boot \notin {"save", "write"}
    /\ advertised => boot \in Certified \ {"exited"}

\* Only servers that listen or did so have requests; one that was shut down
\* takes no more, and has none left unless the time is over.
Over(s) == server[s] \in {"closed", "failed"}
Drained(s) == Over(s) /\ (left = 0 \/ Quiet(s))
Started ==
    /\ \A s \in Servers : /\ server[s] # "none" => boot \in Certified \ {"listen"}
                          /\ boot = "serve" => server[s] \in {"none", "bound"}
                          /\ server[s] \in {"none", "bound", "starting"} => Quiet(s)
    /\ boot \in Certified \ {"listen", "serve"} => server["api"] # "none" /\ server["admin"] # "none"
InOrder ==
    /\ boot = "drain api" => Over("api")
    /\ boot = "drain admin" => Drained("api") /\ Over("admin")
    /\ boot = "drain plain" => Drained("api") /\ Drained("admin") /\ Over("plain")
    /\ boot = "withdraw" => /\ Drained("api") /\ Drained("admin")
                            /\ Drained("plain") \/ server["plain"] = "none"
Shutdowns == Started /\ InOrder

LInv == BridgeTypes /\ Identity /\ Shutdowns

LEMMA ServerNames == "api" \in Servers /\ "admin" \in Servers /\ "plain" \in Servers
BY DEF Servers

LEMMA BridgeInit == LInit => LInv
<1> SUFFICES ASSUME LInit PROVE LInv
  OBVIOUS
<1>1. 0 \in 0..Grace /\ 0 \in 0..MaxReadFailures /\ 0 \in 0..MaxMacChanges
  BY LifecycleAssumption
<1>2. BridgeTypes
  BY <1>1, LifecycleAssumption DEF LInit, BridgeTypes, Boots, States, NoServer, NoRequest, Servers
<1>3. Identity
  BY LifecycleAssumption DEF LInit, Identity, Certified
<1>4. \A s \in Servers : server[s] = "none" /\ Quiet(s)
  BY DEF LInit, NoServer, NoRequest, Quiet, Servers
<1> QED
  BY <1>2, <1>3, <1>4 DEF LInv, LInit, Shutdowns, Started, InOrder, Certified

\* The actions that Setup owns leave the bridge alone.
LEMMA BridgeStutters == LInv /\ UNCHANGED bridge => LInv'
<1> SUFFICES ASSUME LInv, UNCHANGED bridge PROVE LInv'
  OBVIOUS
<1>1. UNCHANGED <<mode, boot, catching, cancelled, mac, certFile, cert, advertised, server, conn,
                  left, readFailures, macChanges, keys, shown>>
  BY DEF bridge, signals, identity, serving, counters
<1>2. BridgeTypes' /\ Identity'
  BY <1>1 DEF LInv, BridgeTypes, Identity
<1>3. \A s : Quiet(s)' = Quiet(s) /\ Over(s)' = Over(s) /\ Drained(s)' = Drained(s)
  BY <1>1 DEF Quiet, Over, Drained
<1>4. Shutdowns'
  BY <1>1, <1>3 DEF LInv, Shutdowns, Started, InOrder
<1> QED
  BY <1>2, <1>4 DEF LInv

LEMMA UpInv ==
  ASSUME LInv, Up
  PROVE  LInv'
<1>1. /\ boot \in {"off", "registry", "certificate", "save", "write", "listen", "serve"}
      /\ boot' \in Boots \ {"drain api", "drain admin", "drain plain", "withdraw", "exited"}
      /\ UNCHANGED <<mode, cancelled, mac, conn, left, macChanges, shown>>
  BY DEF Up, RunBridge, LoadRegistry, LoadOrGenerate, TruncateCert, WriteCert, ListenAndAdvertise,
         Serving, Boots, signals, identity, serving, counters, outside
<1>2. CASE RunBridge \/ LoadRegistry
  <2>1. /\ boot' \in {"registry", "certificate", "dead"} /\ catching' \in BOOLEAN
        /\ boot \in {"off", "registry"}
        /\ UNCHANGED <<certFile, cert, advertised, server, readFailures, keys>>
    BY <1>2 DEF RunBridge, LoadRegistry, signals, identity, serving, counters, LInv, BridgeTypes
  <2>2. BridgeTypes'
    BY <1>1, <2>1 DEF LInv, BridgeTypes, Boots
  <2>3. Identity'
    BY <1>1, <2>1 DEF LInv, Identity, Certified
  <2>4. Shutdowns'
    BY <1>1, <2>1 DEF LInv, Shutdowns, Started, InOrder, Certified, Quiet
  <2> QED
    BY <2>2, <2>3, <2>4 DEF LInv
<1>3. CASE LoadOrGenerate
  <2>1. /\ boot = "certificate" /\ boot' \in {"listen", "save"}
        /\ UNCHANGED <<catching, certFile, advertised, server>>
    BY <1>3 DEF LoadOrGenerate, signals, serving
  <2>2. \/ /\ certFile \in Cert /\ cert' = certFile /\ boot' = "listen"
           /\ UNCHANGED <<readFailures, keys>>
        \/ /\ cert' = [serial |-> mac, key |-> keys + 1] /\ boot' = "save" /\ keys' = keys + 1
           /\ \/ certFile \notin Cert /\ UNCHANGED readFailures
              \/ readFailures < MaxReadFailures /\ readFailures' = readFailures + 1
    BY <1>3 DEF LoadOrGenerate
  <2>3. cert' \in Cert /\ keys' \in Nat /\ readFailures' \in 0..MaxReadFailures
        /\ (macChanges = 0 => cert'.serial = FirstMac)
    BY <2>2, LifecycleAssumption DEF LInv, BridgeTypes, Identity, Cert
  <2>4. BridgeTypes'
    BY <1>1, <2>1, <2>3 DEF LInv, BridgeTypes
  <2>5. readFailures' = 0 /\ shown # NoCert => certFile = shown /\ boot' = "listen"
    <3> SUFFICES ASSUME readFailures' = 0, shown # NoCert
                 PROVE  certFile = shown /\ boot' = "listen"
      OBVIOUS
    <3>1. readFailures = 0 /\ shown \in Cert
      BY <2>2 DEF LInv, BridgeTypes
    <3>2. certFile = shown /\ certFile \in Cert
      BY <3>1 DEF LInv, Identity
    <3> QED
      BY <2>2, <3>1, <3>2
  <2>6. Identity'
    BY <1>1, <2>1, <2>2, <2>3, <2>5 DEF LInv, Identity, Certified
  <2>7. Shutdowns'
    BY <1>1, <2>1 DEF LInv, Shutdowns, Started, InOrder, Certified, Quiet
  <2> QED
    BY <2>4, <2>6, <2>7 DEF LInv
<1>4. CASE TruncateCert \/ WriteCert
  <2>1. /\ boot \in {"save", "write"} /\ boot' \in {"write", "listen", "dead"}
        /\ boot' = "listen" => certFile' = cert
        /\ certFile' \in {certFile, Torn, cert}
        /\ UNCHANGED <<catching, cert, advertised, server, readFailures, keys>>
    BY <1>4 DEF TruncateCert, WriteCert, signals, serving, counters
  <2>2. cert \in Cert /\ ~(readFailures = 0 /\ shown # NoCert) /\ ~advertised
    BY <2>1 DEF LInv, Identity, Certified
  <2>3. BridgeTypes'
    BY <1>1, <2>1, <2>2 DEF LInv, BridgeTypes
  <2>4. Identity'
    BY <1>1, <2>1, <2>2, LifecycleAssumption DEF LInv, Identity, Certified
  <2>5. Shutdowns'
    BY <1>1, <2>1 DEF LInv, Shutdowns, Started, InOrder, Certified, Quiet
  <2> QED
    BY <2>3, <2>4, <2>5 DEF LInv
<1>5. CASE ListenAndAdvertise
  <2>1. /\ boot = "listen" /\ boot' = "serve" /\ advertised' \in BOOLEAN
        /\ UNCHANGED <<catching, cert, certFile, readFailures, keys>>
    BY <1>5 DEF ListenAndAdvertise, signals, identity, counters
  <2>2. PICK state \in {"none", "bound"} : server' = [server EXCEPT !["plain"] = state]
    BY <1>5 DEF ListenAndAdvertise
  <2>a. \A s \in Servers : server[s] = "none"
    BY <2>1 DEF LInv, Shutdowns, Started
  <2>3. /\ server' \in [Servers -> States]
        /\ \A s \in Servers : server[s] = "none" /\ server'[s] \in {"none", "bound"}
    BY <2>a, <2>2 DEF LInv, BridgeTypes, States
  <2>4. BridgeTypes'
    BY <1>1, <2>1, <2>3 DEF LInv, BridgeTypes
  <2>5. Identity'
    BY <1>1, <2>1 DEF LInv, Identity, Certified
  <2>6. Shutdowns'
    BY <1>1, <2>1, <2>3 DEF LInv, Shutdowns, Started, InOrder, Certified, Quiet
  <2> QED
    BY <2>4, <2>5, <2>6 DEF LInv
<1>6. CASE Serving
  <2>1. /\ boot = "serve" /\ boot' = "select"
        /\ UNCHANGED <<catching, cert, certFile, advertised, readFailures, keys>>
    BY <1>6 DEF Serving, signals, identity, counters
  <2>2. /\ server' \in [Servers -> States]
        /\ \A s \in Servers : server'[s] \in {"none", "starting"} /\ (s # "plain" => server'[s] = "starting")
    BY <1>6 DEF Serving, States
  <2>3. BridgeTypes'
    BY <1>1, <2>1, <2>2 DEF LInv, BridgeTypes
  <2>4. Identity'
    BY <1>1, <2>1 DEF LInv, Identity, Certified
  <2>5. \A s \in Servers : Quiet(s)'
    BY <1>1, <2>1 DEF LInv, Shutdowns, Started, InOrder, Quiet
  <2>6. Shutdowns'
    BY <1>1, <2>1, <2>2, <2>5, ServerNames DEF LInv, Shutdowns, Started, InOrder, Certified
  <2> QED
    BY <2>3, <2>4, <2>6 DEF LInv
<1> QED
  BY <1>2, <1>3, <1>4, <1>5, <1>6 DEF Up

\* Steps that no server goes backwards by.
LEMMA StartedKept ==
  ASSUME Started, UNCHANGED boot \/ {boot, boot'} \subseteq Certified \ {"listen", "serve"},
         \A s \in Servers :
            \/ server'[s] = server[s] /\ (Quiet(s) => Quiet(s)')
            \/ /\ server[s] \notin {"none", "bound"} \/ boot \in Certified \ {"listen", "serve"}
               /\ server'[s] \in {"listening", "closed", "failed"}
  PROVE  Started'
<1>1. ASSUME NEW s \in Servers
      PROVE  /\ server'[s] # "none" => boot' \in Certified \ {"listen"}
             /\ boot' = "serve" => server'[s] \in {"none", "bound"}
             /\ server'[s] \in {"none", "bound", "starting"} => Quiet(s)'
  BY DEF Started
<1>2. boot' \in Certified \ {"listen", "serve"} => server'["api"] # "none" /\ server'["admin"] # "none"
  BY ServerNames DEF Started
<1> QED
  BY <1>1, <1>2 DEF Started

LEMMA OrderKept ==
  ASSUME InOrder, UNCHANGED boot, server["plain"] = "none" => server'["plain"] = "none",
         \A s \in Servers : (Over(s) => Over(s)') /\ (Drained(s) => Drained(s)')
  PROVE  InOrder'
<1>1. /\ Over("api") => Over("api")'
      /\ Over("admin") => Over("admin")'
      /\ Over("plain") => Over("plain")'
      /\ Drained("api") => Drained("api")'
      /\ Drained("admin") => Drained("admin")'
      /\ Drained("plain") => Drained("plain")'
  BY ServerNames
<1> QED
  BY <1>1 DEF InOrder

\* Requests come and go, and servers fail, without undoing a shutdown.
LEMMA ServersInv ==
  ASSUME LInv,
         \/ \E s \in Servers : Listen(s) \/ ServerFails(s) \/ \E c \in Conns : Accept(c, s)
         \/ \E c \in Conns : Answer(c)
  PROVE  LInv'
<1>1. UNCHANGED <<mode, boot, catching, cancelled, mac, certFile, cert, advertised, left,
                  readFailures, macChanges, keys>>
  BY DEF Listen, ServerFails, Accept, Answer, outside, signals, identity, counters
<1>2. ASSUME NEW s \in Servers, Listen(s) \/ ServerFails(s)
      PROVE  LInv'
  <2>1. /\ server[s] \in {"starting", "listening"} /\ UNCHANGED <<conn, shown>>
        /\ server' \in [Servers -> States] /\ server'[s] \in {"listening", "failed"}
        /\ \A other \in Servers : other # s => server'[other] = server[other]
    BY <1>2 DEF Listen, ServerFails, LInv, BridgeTypes, States
  <2>2. BridgeTypes'
    BY <1>1, <2>1 DEF LInv, BridgeTypes
  <2>3. Identity'
    BY <1>1, <2>1 DEF LInv, Identity
  <2>4. \A other \in Servers : /\ Quiet(other)' = Quiet(other)
                               /\ Over(other) => (Over(other)' /\ other # s)
                               /\ Drained(other) => (Drained(other)' /\ other # s)
    BY <1>1, <2>1 DEF Quiet, Over, Drained
  <2>a. \A other \in Servers :
           \/ server'[other] = server[other] /\ (Quiet(other) => Quiet(other)')
           \/ /\ server[other] \notin {"none", "bound"} \/ boot \in Certified \ {"listen", "serve"}
              /\ server'[other] \in {"listening", "closed", "failed"}
    BY <2>1, <2>4 DEF Quiet
  <2>b. \A other \in Servers : (Over(other) => Over(other)') /\ (Drained(other) => Drained(other)')
    BY <1>1, <2>1 DEF Over, Drained, Quiet
  <2>5. Started'
    BY <1>1, <2>a, StartedKept DEF LInv, Shutdowns, Quiet
  <2>6. InOrder'
    BY <1>1, <2>1, <2>b, ServerNames, OrderKept DEF LInv, Shutdowns, Over, Drained, Quiet
  <2> QED
    BY <2>2, <2>3, <2>5, <2>6 DEF LInv, Shutdowns
<1>3. ASSUME NEW s \in Servers, NEW c \in Conns, Accept(c, s)
      PROVE  LInv'
  <2>1. /\ server[s] = "listening" /\ UNCHANGED server /\ conn[c] = "none"
        /\ conn' = [conn EXCEPT ![c] = s] /\ shown' \in {cert, shown}
    BY <1>3 DEF Accept
  <2>2. boot \in Certified \ {"listen"}
    BY <2>1 DEF LInv, Shutdowns, Started, InOrder
  <2>3. cert \in Cert /\ certFile = cert
    BY <2>2 DEF LInv, Identity
  <2>4. BridgeTypes'
    BY <1>1, <2>1, <2>3 DEF LInv, BridgeTypes
  <2>5. Identity'
    BY <1>1, <2>1, <2>2, <2>3 DEF LInv, Identity, Certified
  <2>a. \A other \in Servers : other # "none"
    BY DEF Servers
  <2>6. \A other \in Servers : other # s /\ Quiet(other) => Quiet(other)'
    BY <2>1, <2>a DEF Quiet, LInv, BridgeTypes
  <2>7. \A other \in Servers : Over(other)' = Over(other) /\ (Over(other) => other # s)
    BY <2>1 DEF Over
  <2>8. \A other \in Servers : Drained(other) => Drained(other)'
    BY <1>1, <2>6, <2>7 DEF Drained
  <2>b. \A other \in Servers :
           \/ server'[other] = server[other] /\ (Quiet(other) => Quiet(other)')
           \/ /\ server[other] \notin {"none", "bound"} \/ boot \in Certified \ {"listen", "serve"}
              /\ server'[other] \in {"listening", "closed", "failed"}
    BY <2>1, <2>6 DEF Quiet
  <2>c. \A other \in Servers : (Over(other) => Over(other)') /\ (Drained(other) => Drained(other)')
    BY <2>7, <2>8 DEF Over, Drained, Quiet
  <2>9. Started'
    BY <1>1, <2>b, StartedKept DEF LInv, Shutdowns, Quiet
  <2>10. InOrder'
    BY <1>1, <2>1, <2>c, OrderKept DEF LInv, Shutdowns, Over, Drained, Quiet
  <2> QED
    BY <2>4, <2>5, <2>9, <2>10 DEF LInv, Shutdowns
<1>4. ASSUME NEW c \in Conns, Answer(c)
      PROVE  LInv'
  <2>1. UNCHANGED <<server, shown>> /\ conn' = [conn EXCEPT ![c] = "none"]
    BY <1>4 DEF Answer
  <2>2. BridgeTypes'
    BY <1>1, <2>1 DEF LInv, BridgeTypes
  <2>3. Identity'
    BY <1>1, <2>1 DEF LInv, Identity
  <2>4. \A s \in Servers : s # "none"
    BY DEF Servers
  <2>5. \A s \in Servers : /\ Quiet(s) => Quiet(s)'
                           /\ Over(s)' = Over(s)
                           /\ Drained(s) => Drained(s)'
    BY <1>1, <2>1, <2>4 DEF Quiet, Over, Drained, LInv, BridgeTypes
  <2>a. \A s \in Servers :
           \/ server'[s] = server[s] /\ (Quiet(s) => Quiet(s)')
           \/ /\ server[s] \notin {"none", "bound"} \/ boot \in Certified \ {"listen", "serve"}
              /\ server'[s] \in {"listening", "closed", "failed"}
    BY <2>1, <2>4 DEF Quiet, LInv, BridgeTypes
  <2>b. \A s \in Servers : (Over(s) => Over(s)') /\ (Drained(s) => Drained(s)')
    BY <1>1, <2>1, <2>4 DEF Quiet, Over, Drained, LInv, BridgeTypes
  <2>6. Started'
    BY <1>1, <2>a, StartedKept DEF LInv, Shutdowns, Quiet
  <2>7. InOrder'
    BY <1>1, <2>1, <2>b, OrderKept DEF LInv, Shutdowns, Over, Drained, Quiet
  <2> QED
    BY <2>2, <2>3, <2>6, <2>7 DEF LInv, Shutdowns
<1> QED
  BY <1>2, <1>3, <1>4

\* Closing a server's listener.
LEMMA Closes ==
  ASSUME LInv, NEW s \in Servers, Close(s), UNCHANGED <<conn, left>>
  PROVE  /\ server' \in [Servers -> States] /\ Over(s)'
         /\ \A other \in Servers : other # s => server'[other] = server[other]
         /\ \A other \in Servers : /\ Quiet(other)' = Quiet(other)
                                   /\ Drained(other) => Drained(other)'
<1>1. /\ server' \in [Servers -> States]
      /\ server'[s] = IF server[s] = "failed" THEN "failed" ELSE "closed"
      /\ \A other \in Servers : other # s => server'[other] = server[other]
  BY DEF Close, LInv, BridgeTypes, States
<1>2. \A other \in Servers : Quiet(other)' = Quiet(other)
  BY DEF Quiet
<1> QED
  BY <1>1, <1>2 DEF Over, Drained

LEMMA DrainInv ==
  ASSUME LInv, DrainApi \/ DrainAdmin \/ DrainPlain
  PROVE  LInv'
<1>1. /\ UNCHANGED <<mode, catching, cancelled, mac, certFile, cert, advertised, conn, left,
                     readFailures, macChanges, keys, shown>>
      /\ boot \in Certified \ {"listen", "serve", "exited"}
      /\ boot' \in Certified \ {"listen", "serve", "exited", "drain api"}
  BY DEF DrainApi, DrainAdmin, DrainPlain, Drain, outside, signals, identity, counters, Certified
<1>2. /\ server' \in [Servers -> States]
      /\ \A s \in Servers : server'[s] = server[s] \/ Over(s)'
  BY <1>1, Closes, ServerNames
  DEF DrainApi, DrainAdmin, DrainPlain, Drain, LInv, BridgeTypes
<1>3. BridgeTypes'
  BY <1>1, <1>2 DEF LInv, BridgeTypes, Boots, Certified
<1>4. Identity'
  BY <1>1 DEF LInv, Identity, Certified
<1>5. Started'
  BY <1>1, <1>2, StartedKept DEF LInv, Shutdowns, Over, Quiet
<1>b. \A s \in Servers : Close(s) => /\ Over(s)'
                                     /\ \A other \in Servers : Drained(other) => Drained(other)'
  <2> SUFFICES ASSUME NEW s \in Servers, Close(s)
               PROVE  Over(s)' /\ \A other \in Servers : Drained(other) => Drained(other)'
    OBVIOUS
  <2> QED
    BY <1>1, Closes DEF Over, Drained, Quiet
<1>6. CASE DrainApi
  <2>1. boot = "drain api" /\ boot' = "drain admin" /\ Close("admin") /\ (Quiet("api") \/ left = 0)
    BY <1>6 DEF DrainApi, Drain
  <2>2. Drained("api")
    BY <2>1 DEF LInv, Shutdowns, InOrder, Drained
  <2>3. Drained("api")' /\ Over("admin")'
    BY <1>1, <1>b, <2>1, <2>2, ServerNames DEF Over, Drained, Quiet
  <2> QED
    BY <1>3, <1>4, <1>5, <2>1, <2>3 DEF LInv, Shutdowns, InOrder
<1>7. CASE DrainAdmin
  <2>1. boot = "drain admin" /\ (Quiet("admin") \/ left = 0)
    BY <1>7 DEF DrainAdmin, Drain
  <2>2. Drained("api") /\ Drained("admin")
    BY <2>1 DEF LInv, Shutdowns, InOrder, Drained
  <2>3. CASE server["plain"] = "none" /\ boot' = "withdraw" /\ UNCHANGED server
    <3>1. Drained("api")' /\ Drained("admin")'
      BY <1>1, <2>2, <2>3 DEF Drained, Over, Quiet
    <3> QED
      BY <1>3, <1>4, <1>5, <2>3, <3>1 DEF LInv, Shutdowns, InOrder
  <2>4. CASE boot' = "drain plain" /\ Close("plain")
    <3>1. Drained("api")' /\ Drained("admin")' /\ Over("plain")'
      BY <1>1, <1>b, <2>2, <2>4, ServerNames DEF Over, Drained, Quiet
    <3> QED
      BY <1>3, <1>4, <1>5, <2>4, <3>1 DEF LInv, Shutdowns, InOrder
  <2> QED
    BY <1>7, <2>3, <2>4 DEF DrainAdmin, Drain
<1>8. CASE DrainPlain
  <2>1. /\ boot = "drain plain" /\ boot' = "withdraw" /\ (Quiet("plain") \/ left = 0)
        /\ UNCHANGED server
    BY <1>8 DEF DrainPlain, Drain
  <2>2. Drained("api") /\ Drained("admin") /\ Drained("plain")
    BY <2>1 DEF LInv, Shutdowns, InOrder, Drained
  <2>3. Drained("api")' /\ Drained("admin")' /\ Drained("plain")'
    BY <1>1, <2>1, <2>2 DEF Drained, Over, Quiet
  <2> QED
    BY <1>3, <1>4, <1>5, <2>1, <2>3 DEF LInv, Shutdowns, InOrder
<1> QED
  BY <1>6, <1>7, <1>8

LEMMA StopInv ==
  ASSUME LInv, Stop
  PROVE  LInv'
<1>1. /\ boot = "select" /\ boot' = "drain api" /\ left' = Grace /\ catching' = FALSE
      /\ cancelled' = TRUE
      /\ server' = [server EXCEPT !["api"] = IF @ = "failed" THEN @ ELSE "closed"]
      /\ UNCHANGED <<mode, mac, certFile, cert, advertised, conn, readFailures, macChanges, keys,
                     shown>>
  BY DEF Stop, Close, outside, identity, counters
<1>2. /\ server' \in [Servers -> States] /\ Over("api")'
      /\ \A s \in Servers : server'[s] = server[s] \/ Over(s)'
  BY <1>1, ServerNames DEF LInv, BridgeTypes, States, Over
<1>a. left' \in 0..Grace
  <2>1. Grace \in Nat
    BY LifecycleAssumption
  <2>2. left' = Grace
    BY <1>1
  <2> QED
    BY <2>1, <2>2
<1>3. BridgeTypes'
  BY <1>1, <1>2, <1>a DEF LInv, BridgeTypes, Boots
<1>4. Identity'
  BY <1>1 DEF LInv, Identity, Certified
<1>5. Started'
  BY <1>1, <1>2, StartedKept DEF LInv, Shutdowns, Over, Quiet, Certified
<1> QED
  BY <1>1, <1>2, <1>3, <1>4, <1>5 DEF LInv, Shutdowns, InOrder

LEMMA PassInv ==
  ASSUME LInv, Signal \/ Pass
  PROVE  LInv'
<1>1. /\ UNCHANGED <<mode, boot, catching, mac, certFile, cert, advertised, server, conn,
                     readFailures, macChanges, keys, shown>>
      /\ cancelled' \in BOOLEAN /\ left' \in 0..Grace /\ (left = 0 => left' = 0)
  <2>a. Grace \in Nat
    BY LifecycleAssumption
  <2>1. left \in 0..Grace /\ Grace \in Nat /\ cancelled \in BOOLEAN
    BY <2>a DEF LInv, BridgeTypes
  <2>2. CASE Signal
    BY <2>1, <2>2 DEF Signal, outside, identity, serving, counters
  <2>3. CASE Pass
    <3>1. left > 0 /\ left' = left - 1
      BY <2>3 DEF Pass
    <3>2. left' \in 0..Grace /\ (left = 0 => left' = 0)
      BY <2>1, <3>1
    <3> QED
      BY <2>1, <2>3, <3>2 DEF Pass, outside, identity, serving, signals, counters
  <2> QED
    BY <2>2, <2>3
<1>2. BridgeTypes' /\ Identity'
  BY <1>1 DEF LInv, BridgeTypes, Identity
<1>3. \A s : Quiet(s)' = Quiet(s) /\ Over(s)' = Over(s) /\ (Drained(s) => Drained(s)')
  BY <1>1 DEF Quiet, Over, Drained
<1> QED
  BY <1>1, <1>2, <1>3 DEF LInv, Shutdowns, Started, InOrder

LEMMA WithdrawInv ==
  ASSUME LInv, Withdraw
  PROVE  LInv'
<1>1. /\ boot = "withdraw" /\ boot' = "exited" /\ advertised' = FALSE /\ conn' = NoRequest
      /\ UNCHANGED <<mode, catching, cancelled, mac, certFile, cert, server, left, readFailures,
                     macChanges, keys, shown>>
  BY DEF Withdraw, outside, identity, signals, counters
<1>2. BridgeTypes'
  BY <1>1 DEF LInv, BridgeTypes, Boots, NoRequest
<1>3. Identity'
  BY <1>1 DEF LInv, Identity, Certified
<1>4. \A s \in Servers : Quiet(s)'
  BY <1>1 DEF Quiet, NoRequest, Servers
<1> QED
  BY <1>1, <1>2, <1>3, <1>4 DEF LInv, Shutdowns, Started, InOrder, Certified

LEMMA RestartBridge ==
  ASSUME LInv, LRestart
  PROVE  LInv'
<1>1. /\ boot' = "off" /\ catching' = FALSE /\ cancelled' = FALSE /\ cert' = NoCert
      /\ advertised' = FALSE /\ server' = NoServer /\ conn' = NoRequest /\ left' = 0
      /\ UNCHANGED <<mode, certFile, readFailures, keys, shown>>
      /\ mac' \in Macs /\ macChanges' \in 0..MaxMacChanges
      /\ macChanges' = 0 => macChanges = 0 /\ mac' = mac
  BY LifecycleAssumption DEF LRestart, LInv, BridgeTypes
<1>a. left' \in 0..Grace /\ server' \in [Servers -> States] /\ conn' \in [Conns -> {"none"} \cup Servers]
  BY <1>1, LifecycleAssumption DEF NoRequest, NoServer, States
<1>2. BridgeTypes'
  BY <1>1, <1>a DEF LInv, BridgeTypes, Boots
<1>3. Identity'
  BY <1>1, LifecycleAssumption DEF LInv, Identity, Certified
<1>4. \A s \in Servers : Quiet(s)' /\ server'[s] = "none"
  BY <1>1 DEF Quiet, NoRequest, NoServer, Servers
<1> QED
  BY <1>1, <1>2, <1>3, <1>4 DEF LInv, Shutdowns, Started, InOrder, Certified

LEMMA BridgeNext == LInv /\ [LNext]_allVars => LInv'
<1>1. CASE UNCHANGED allVars
  BY <1>1, BridgeStutters DEF allVars
<1> QED
  BY <1>1, BridgeStutters, UpInv, ServersInv, DrainInv, StopInv, PassInv, WithdrawInv, RestartBridge
  DEF LNext, SetupMain, SetupHandle, Down

LEMMA BridgeInductive == LSpec => []LInv
BY BridgeInit, BridgeNext, PTL DEF LSpec

-----------------------------------------------------------------------------
(* What follows.                                                           *)

\* The types of the whole process.
THEOREM LifecycleTypes == LSpec => []LTypeOK
<1>1. LInv /\ SInv => LTypeOK
  BY DEF LInv, BridgeTypes, Boots, States, SInv, LTypeOK
<1> QED
  BY <1>1, BridgeInductive, ImplementsSetup, SetupInductive, PTL

\* What SSDP and mDNS advertise is the id in the certificate, as long as the
\* first interface is the one cert.pem was made for (cert.go:41-47).
THEOREM SerialAgrees == LSpec => []SerialIsBridgeID
<1>1. LInv => SerialIsBridgeID
  <2> SUFFICES ASSUME LInv, advertised, ~(macChanges > 0) PROVE cert.serial = mac
    BY DEF SerialIsBridgeID
  <2>1. MaxMacChanges \in Nat
    BY LifecycleAssumption
  <2>2. macChanges = 0
    BY <2>1 DEF LInv, BridgeTypes
  <2> QED
    BY <2>2 DEF LInv, Identity
<1> QED
  BY <1>1, BridgeInductive, PTL

\* A bridge that ends has said goodbye (main.go:428-429).
THEOREM Goodbye == LSpec => []AdvertsWithdrawn
<1>1. LInv => AdvertsWithdrawn
  BY DEF LInv, Identity, AdvertsWithdrawn
<1> QED
  BY <1>1, BridgeInductive, PTL

\* As long as cert.pem can be read when it is there, the certificate that
\* clients see never changes (cert.go:80-83).
THEOREM StableIdentity == LSpec => IdentityStable
<1>1. LInv /\ [LNext]_allVars => [shown # NoCert /\ shown' # shown => readFailures > 0]_allVars
  <2> SUFFICES ASSUME LInv, LNext, shown # NoCert, shown' # shown
               PROVE  readFailures > 0
    BY DEF allVars
  <2>1. PICK c \in Conns, s \in Servers : Accept(c, s)
    BY DEF LNext, SetupMain, SetupHandle, Up, Down, RunBridge, LoadRegistry, LoadOrGenerate,
           TruncateCert, WriteCert, ListenAndAdvertise, Serving, Stop, DrainApi, DrainAdmin,
           DrainPlain, Drain, Withdraw, Signal, Pass, LRestart, Listen, ServerFails, Answer, bridge
  <2>2. boot \in Certified \ {"listen"} /\ shown' = cert
    BY <2>1 DEF Accept, LInv, Shutdowns, Started
  <2>a. MaxReadFailures \in Nat
    BY LifecycleAssumption
  <2>3. readFailures \in Nat /\ readFailures # 0
    BY <2>a, <2>2 DEF LInv, BridgeTypes, Identity
  <2> QED
    BY <2>3
<1> QED
  BY <1>1, BridgeInductive, PTL DEF LSpec, IdentityStable

\* Every accepted request gets the ten seconds (main.go:411-427).
THEOREM GraceIsGiven == LSpec => CutOffOnlyAfterGrace
<1>1. LInv /\ [LNext]_allVars =>
         [boot # "exited" /\ boot' = "exited" => left = 0 \/ \A s \in Servers : Quiet(s)]_allVars
  <2> SUFFICES ASSUME LInv, LNext, boot # "exited", boot' = "exited"
               PROVE  left = 0 \/ \A s \in Servers : Quiet(s)
    BY DEF allVars
  <2>1. boot = "withdraw"
    BY DEF LNext, SetupMain, SetupHandle, Up, Down, RunBridge, LoadRegistry, LoadOrGenerate,
           TruncateCert, WriteCert, ListenAndAdvertise, Serving, Stop, DrainApi, DrainAdmin,
           DrainPlain, Drain, Withdraw, Signal, Pass, LRestart, Listen, ServerFails, Accept, Answer,
           bridge
  <2>2. /\ Drained("api") /\ Drained("admin")
        /\ Drained("plain") \/ server["plain"] = "none"
    BY <2>1 DEF LInv, Shutdowns, InOrder
  <2>3. server["plain"] = "none" => Quiet("plain")
    BY ServerNames DEF LInv, Shutdowns, Started
  <2>4. left = 0 \/ (Quiet("api") /\ Quiet("admin") /\ Quiet("plain"))
    BY <2>2, <2>3 DEF Drained
  <2> QED
    BY <2>4 DEF Servers
<1> QED
  BY <1>1, BridgeInductive, PTL DEF LSpec, CutOffOnlyAfterGrace
=============================================================================
