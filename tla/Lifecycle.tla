----------------------------- MODULE Lifecycle -----------------------------
(***************************************************************************)
(* The life of a huebridge process (cmd/huebridge/main.go): which of its   *)
(* two modes it is in, runBridge from the registry to the exit, and the    *)
(* certificate it presents (internal/tls/cert.go).  Standalone mode goes   *)
(* through Setup first, whose state and actions this module extends.       *)
(*                                                                         *)
(* The actors are the main goroutine, the goroutines that serve the three  *)
(* HTTP servers, one goroutine for each request, signals, and time, which  *)
(* matters while main shuts down.  Left out: what the handlers do, the     *)
(* goroutines that end with the context (be.Run, ticker, updater, modelled *)
(* in StateCache, Schedules and Versions), the ports, and the key log.     *)
(***************************************************************************)
EXTENDS Setup

CONSTANTS
    Conns,            \* clients: one request each at a time
    Macs,             \* what the first interface's MAC address may be ...
    FirstMac,         \* ... and is at the first start
    NoCert,           \* there is no cert.pem
    Torn,             \* cert.pem was truncated and not written
    Grace,            \* shutdownTimeout, in units of time
    AfterWizard,      \* bound: FALSE if an installation whose wizard got a form
                      \* is followed to the start of runBridge only
    MaxReadFailures,  \* bound: how often cert.pem is there but not readable
    MaxMacChanges     \* bound: how often a restart finds another interface

Cert == [serial : Macs, key : Nat]

ASSUME LifecycleAssumption ==
    /\ {Grace, MaxReadFailures, MaxMacChanges} \subseteq Nat
    /\ AfterWizard \in BOOLEAN
    /\ FirstMac \in Macs
    /\ NoCert \notin Cert /\ Torn \notin Cert

VARIABLES
    mode,       \* isStandalone: constant as long as the installation lives
    boot,       \* where main is in runBridge
    catching,   \* signal.NotifyContext is in force
    cancelled,  \* ctx.Done() is closed
    mac,        \* what lookupMAC finds, and so the bridge id
    certFile,   \* cert.pem
    cert,       \* the certificate of this process
    advertised, \* SSDP or mDNS or both have been started
    server,     \* server[s]: how far the goroutine of server s is
    conn,       \* conn[c]: the server that is serving c's request
    left,       \* what is left of the shutdown's ten seconds
    readFailures, macChanges,
    \* Bookkeeping that the code does not have:
    keys,       \* how many key pairs were generated
    shown       \* the certificate a client was shown last

outside == <<vars, mode>>
signals == <<catching, cancelled>>
identity == <<mac, certFile, cert>>
serving == <<server, conn>>
counters == <<readFailures, macChanges, keys>>
bridge == <<mode, boot, signals, identity, advertised, serving, left, shown,
            counters>>
allVars == <<vars, bridge>>

Modes == {"addon", "standalone"}
Servers == {"api", "admin", "plain"}

\* What a process has when main starts.
NoServer == [s \in Servers |-> "none"]
NoRequest == [c \in Conns |-> "none"]

\* The channel: it has room for one error of each server.
serverErrs == {s \in Servers : server[s] = "failed"}

LInit == /\ Init
         /\ mode \in Modes /\ (mode = "addon" => file = NoFile)
         /\ boot = "off"
         /\ catching = FALSE /\ cancelled = FALSE
         /\ cert = NoCert
         /\ advertised = FALSE
         /\ server = NoServer
         /\ conn = NoRequest
         /\ left = 0
         /\ mac = FirstMac
         /\ certFile = NoCert
         /\ readFailures = 0 /\ macChanges = 0 /\ keys = 0
         /\ shown = NoCert

-----------------------------------------------------------------------------
(* The way up.                                                             *)

\* runAddon, unless an environment variable is missing, or runStandalone
\* with its configuration.
RunBridge ==
    /\ boot = "off"
    /\ \/ mode = "addon" /\ boot' \in {"registry", "dead"}
       \/ /\ mode = "standalone" /\ main = "running" /\ (submits > 0 => AfterWizard)
          /\ boot' = "registry"
    /\ UNCHANGED <<outside, identity, signals, serving, advertised, left,
                   shown, counters>>

\* lookupMAC and NewRegistry, or their log.Fatal; NotifyContext.
LoadRegistry ==
    /\ boot = "registry"
    /\ \/ boot' = "certificate" /\ catching' = TRUE
       \/ boot' = "dead" /\ UNCHANGED catching
    /\ UNCHANGED <<outside, identity, serving, cancelled, advertised, left,
                   shown, counters>>

\* Seeded bug: the certificate's serial is not made of the bridge id.
LoadOrGenerateSerial ==
    /\ boot = "certificate"
    /\ \/ /\ certFile \in Cert
          /\ cert' = certFile /\ boot' = "listen"
          /\ UNCHANGED <<readFailures, keys>>
       \/ /\ certFile \notin Cert
          /\ keys' = keys + 1
          /\ \E m \in Macs : cert' = [serial |-> m, key |-> keys + 1]
          /\ boot' = "save"
          /\ UNCHANGED readFailures
    /\ UNCHANGED <<outside, signals, serving, mac, certFile, advertised,
                   left, macChanges, shown>>

\* LoadOrGenerateCertificate takes the file if it holds both blocks, whatever
\* MAC address they were made for, and generates a key if it does not or
\* cannot be read.
LoadOrGenerate ==
    /\ boot = "certificate"
    /\ \/ /\ certFile \in Cert
          /\ cert' = certFile /\ boot' = "listen"
          /\ UNCHANGED <<readFailures, keys>>
       \/ /\ \/ certFile \notin Cert /\ UNCHANGED readFailures
             \/ /\ readFailures < MaxReadFailures
                /\ readFailures' = readFailures + 1
          /\ keys' = keys + 1
          /\ cert' = [serial |-> mac, key |-> keys + 1]
          /\ boot' = "save"
    /\ UNCHANGED <<outside, signals, serving, mac, certFile, advertised,
                   left, macChanges, shown>>

\* saveCertificate opens the file, which truncates it ...
TruncateCert ==
    /\ boot = "save"
    /\ \/ boot' = "write" /\ certFile' = Torn
       \/ boot' = "dead" /\ UNCHANGED certFile
    /\ UNCHANGED <<outside, signals, serving, mac, cert, advertised, left,
                   shown, counters>>

\* Seeded bug: a certificate that could not be saved is used all the same.
WriteCertUnchecked ==
    /\ boot = "write"
    /\ boot' = "listen"
    /\ certFile' \in {cert, Torn}
    /\ UNCHANGED <<outside, signals, serving, mac, cert, advertised, left,
                   shown, counters>>

\* ... and writes; an error of either is fatal.
WriteCert ==
    /\ boot = "write"
    /\ \/ boot' = "listen" /\ certFile' = cert
       \/ boot' = "dead" /\ UNCHANGED certFile
    /\ UNCHANGED <<outside, signals, serving, mac, cert, advertised, left,
                   shown, counters>>

\* net.Listen on port 80, which may be taken, and StartSSDP and StartMDNS: all
\* three are best effort.
ListenAndAdvertise ==
    /\ boot = "listen"
    /\ boot' = "serve"
    /\ \E state \in {"none", "bound"} : server' = [server EXCEPT !["plain"] = state]
    /\ advertised' \in BOOLEAN
    /\ UNCHANGED <<outside, identity, signals, conn, left, shown, counters>>

\* The goroutines that serve are started.
Serving ==
    /\ boot = "serve"
    /\ boot' = "select"
    /\ server' = [s \in Servers |-> IF s = "plain" /\ server[s] = "none"
                                    THEN "none" ELSE "starting"]
    /\ UNCHANGED <<outside, identity, signals, advertised, conn, left, shown,
                   counters>>

-----------------------------------------------------------------------------
(* The servers and their clients.                                          *)

Listen(s) ==
    /\ server[s] = "starting"
    /\ server' = [server EXCEPT ![s] = "listening"]
    /\ UNCHANGED <<outside, boot, identity, signals, advertised, conn, left,
                   shown, counters>>

\* The port is taken (port 80 is main's already), or Accept fails.
ServerFails(s) ==
    /\ server[s] \in {"starting", "listening"}
    /\ server' = [server EXCEPT ![s] = "failed"]
    /\ UNCHANGED <<outside, boot, identity, signals, advertised, conn, left,
                   shown, counters>>

Tls(s) == s = "api" \/ (s = "admin" /\ mode = "standalone")

Accept(c, s) ==
    /\ server[s] = "listening" /\ conn[c] = "none"
    /\ conn' = [conn EXCEPT ![c] = s]
    /\ shown' = IF Tls(s) THEN cert ELSE shown
    /\ UNCHANGED <<outside, boot, identity, signals, advertised, server,
                   left, counters>>

Answer(c) ==
    /\ conn[c] # "none"
    /\ conn' = [conn EXCEPT ![c] = "none"]
    /\ UNCHANGED <<outside, boot, identity, signals, advertised, server,
                   left, shown, counters>>

-----------------------------------------------------------------------------
(* The way down.                                                           *)

\* SIGINT or SIGTERM while main catches them; at any other time it kills the
\* process, which is LRestart.
Signal ==
    /\ catching /\ ~cancelled
    /\ cancelled' = TRUE
    /\ UNCHANGED <<outside, boot, identity, serving, catching, advertised,
                   left, shown, counters>>

Quiet(s) == \A c \in Conns : conn[c] # s
Close(s) == server' = [server EXCEPT ![s] = IF @ = "failed" THEN @ ELSE "closed"]

\* Seeded bug: a server error ends the process there and then, as log.Fatal
\* did.
StopFatal ==
    /\ boot = "select"
    /\ serverErrs # {} \/ cancelled
    /\ catching' = FALSE /\ cancelled' = TRUE
    /\ left' = Grace
    /\ IF serverErrs # {} THEN boot' = "exited" /\ UNCHANGED server
                          ELSE boot' = "drain api" /\ Close("api")
    /\ UNCHANGED <<outside, identity, advertised, conn, shown, counters>>

\* The select, stop(), and the first Shutdown, which begins by closing its
\* server's listener.
Stop ==
    /\ boot = "select"
    /\ serverErrs # {} \/ cancelled
    /\ catching' = FALSE /\ cancelled' = TRUE
    /\ left' = Grace
    /\ boot' = "drain api" /\ Close("api")
    /\ UNCHANGED <<outside, identity, advertised, conn, shown, counters>>

\* Seeded bug: Shutdown with context.Background().
DrainForever(s, here, next) ==
    /\ boot = here
    /\ Quiet(s)
    /\ next
    /\ UNCHANGED <<outside, identity, signals, advertised, conn, left, shown,
                   counters>>

\* Shutdown(s) returns: no request is left, or the ten seconds are over.
Drain(s, here, next) ==
    /\ boot = here
    /\ Quiet(s) \/ left = 0
    /\ next
    /\ UNCHANGED <<outside, identity, signals, advertised, conn, left, shown,
                   counters>>

\* One server after the other; port 80 only if it is served.
DrainApi == Drain("api", "drain api", boot' = "drain admin" /\ Close("admin"))

\* Seeded bug: the plain server is forgotten.
DrainAdminOnly ==
    Drain("admin", "drain admin", boot' = "withdraw" /\ UNCHANGED server)

DrainAdmin ==
    Drain("admin", "drain admin",
          IF server["plain"] = "none" THEN boot' = "withdraw" /\ UNCHANGED server
                                      ELSE boot' = "drain plain" /\ Close("plain"))

DrainPlain == Drain("plain", "drain plain", boot' = "withdraw" /\ UNCHANGED server)

Pass ==
    /\ boot \in {"drain api", "drain admin", "drain plain"}
    /\ left > 0
    /\ left' = left - 1
    /\ UNCHANGED <<outside, boot, identity, signals, serving, advertised,
                   shown, counters>>

\* The deferred stops; main returns, and with it the process ends.
Withdraw ==
    /\ boot = "withdraw"
    /\ boot' = "exited"
    /\ advertised' = FALSE
    /\ conn' = NoRequest
    /\ UNCHANGED <<outside, identity, signals, server, left, shown, counters>>

\* The process has ended, or is killed at any point, and starts again, on a
\* host whose first interface may be another one by now.
LRestart ==
    /\ Restart
    /\ boot' = "off"
    /\ catching' = FALSE /\ cancelled' = FALSE
    /\ cert' = NoCert
    /\ advertised' = FALSE
    /\ server' = NoServer
    /\ conn' = NoRequest
    /\ left' = 0
    /\ \/ UNCHANGED <<mac, macChanges>>
       \/ /\ macChanges < MaxMacChanges
          /\ macChanges' = macChanges + 1
          /\ mac' \in Macs \ {mac}
    /\ UNCHANGED <<mode, certFile, readFailures, keys, shown>>

-----------------------------------------------------------------------------
Up == \/ RunBridge \/ LoadRegistry \/ LoadOrGenerate \/ TruncateCert \/ WriteCert
      \/ ListenAndAdvertise \/ Serving
Down == Stop \/ DrainApi \/ DrainAdmin \/ DrainPlain \/ Withdraw

InSetup == mode = "standalone" /\ boot \notin {"dead", "exited"}
SetupMain == InSetup /\ Main /\ UNCHANGED bridge
SetupHandle(t) == InSetup /\ Handle(t) /\ UNCHANGED bridge

LNext == \/ SetupMain \/ LRestart
         \/ \E t \in Tabs : SetupHandle(t)
         \/ Up \/ Down \/ Signal \/ Pass
         \/ \E s \in Servers : \/ Listen(s) \/ ServerFails(s)
                               \/ \E c \in Conns : Accept(c, s)
         \/ \E c \in Conns : Answer(c)

LSpec == LInit /\ [][LNext]_allVars

\* Setup's fairness; main goes on, and the shutdown's context expires.  A
\* request may last for ever.
LFairSpec ==
    /\ LSpec
    /\ WF_allVars(SetupMain)
    /\ \A t \in Tabs : WF_allVars(InSetup /\ Serve(t) /\ UNCHANGED bridge)
    /\ WF_allVars(Up) /\ WF_allVars(Down) /\ WF_allVars(Pass)

-----------------------------------------------------------------------------
(* Properties.                                                             *)

LTypeOK ==
    /\ TypeOK
    /\ mode \in Modes
    /\ boot \in {"off", "registry", "certificate", "save", "write", "listen",
                "serve", "select", "drain api", "drain admin", "drain plain",
                "withdraw", "exited", "dead"}
    /\ catching \in BOOLEAN /\ cancelled \in BOOLEAN
    /\ mac \in Macs
    /\ certFile \in {NoCert, Torn} \cup Cert /\ cert \in {NoCert} \cup Cert
    /\ advertised \in BOOLEAN
    /\ server \in [Servers -> {"none", "bound", "starting", "listening",
                              "failed", "closed"}]
    /\ conn \in [Conns -> {"none"} \cup Servers]
    /\ left \in 0..Grace
    /\ readFailures \in 0..MaxReadFailures /\ macChanges \in 0..MaxMacChanges
    /\ keys \in Nat
    /\ shown \in {NoCert} \cup Cert

\* "Real bridges keep a stable certificate across restarts; generating fresh
\* key material every time makes the bridge look like a different device to
\* any client that remembers what it saw" (cert.go:80-83): no client is shown
\* another certificate than the last one, wherever the process was killed,
\* even while cert.pem was being written, unless an existing cert.pem could
\* not be read, which LoadOrGenerateCertificate takes for a missing one.
IdentityStable ==
    [][shown # NoCert /\ shown' # shown => readFailures > 0]_allVars

\* "The official Hue app verifies the certificate's serial number against the
\* bridge id it discovered via mDNS/SSDP" (cert.go:41-47): what is advertised
\* is the id in the certificate, unless the first interface has changed since
\* cert.pem was made.
SerialIsBridgeID == advertised => cert.serial = mac \/ macChanges > 0

\* A bridge that ends says goodbye, also when it ends because a server failed
\* ("The deferred stopSSDP/stopMDNS run from here, which the previous
\* log.Fatal skipped entirely", main.go:428-429).
AdvertsWithdrawn == boot = "exited" => ~advertised

\* A request that was accepted, by whichever server and even while another one
\* was shutting down already, is cut off only when the shutdown's ten seconds
\* are over (main.go:411-427).
CutOffOnlyAfterGrace ==
    [][boot # "exited" /\ boot' = "exited" =>
          left = 0 \/ \A s \in Servers : Quiet(s)]_allVars

\* A signal, or a server that fails at any time after it was started, ends the
\* process, whatever requests hang (main.go:396-427).
ShutdownEnds ==
    boot = "select" /\ (cancelled \/ serverErrs # {}) ~> boot \in {"exited", "off"}
=============================================================================
