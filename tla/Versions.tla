------------------------------ MODULE Versions ------------------------------
(***************************************************************************)
(* The firmware version that the bridge reports: the package variables of  *)
(* internal/hue/config.go, the VersionUpdater that replaces the built-in   *)
(* fallback by the newest release Signify lists (version_updater.go).      *)
(*                                                                         *)
(* One goroutine, Run, fetches at the start and then looks once an hour    *)
(* whether the last success is too old; each POST /updater fetches in a    *)
(* goroutine of its own.  Nothing orders their answers.  Time is a count   *)
(* of hours; a fetch takes at most ten seconds.  Main starts the SSDP      *)
(* advertiser with the apiversion of that moment (main.go, ssdp.go).       *)
(***************************************************************************)
EXTENDS Integers, FiniteSetsExt

CONSTANTS
    Releases,       \* firmware versions Signify may list, like 1949203030
    Fallback,       \* the built-in swversion
    SwPin, ApiPin,  \* what HUEBRIDGE_SWVERSION and _APIVERSION may be set to
    None,
    Updaters,       \* goroutines that POST /updater starts
    TTL,            \* versionCacheTTL in hours (24 in the code)
    MaxHours,       \* bound: the clock stops here
    MaxFailures     \* bound: how many fetches fail

\* legacyAPIVersion: digit 0 and digits 2-3 of the version, padded to at
\* least five digits ("1968096020" gives 1.68.0).
Leading[v \in Nat] == IF v < 100000 THEN v ELSE Leading[v \div 10]
LegacyAPIVersion(v) == <<Leading[v] \div 10000, (Leading[v] % 1000) \div 10>>

ASSUME VersionsAssumption ==
    /\ Releases \subseteq Nat
    /\ Fallback \in Nat /\ SwPin \in Nat
    /\ TTL \in Nat \ {0}
    /\ MaxHours \in Nat /\ MaxFailures \in Nat
    /\ "run" \notin Updaters

VARIABLES
    pins,       \* swVersionOverridden and apiVersionOverridden, with the
                \* values: None where there is no override
    listed,     \* the releases Signify lists
    served,     \* currentSwVersion and currentAPIVersion
    started,    \* main has come to its servers
    ssdp,       \* the apiversion in the SERVER header of SSDP, as a set that is
                \* empty if SSDP has not started
    lastFetch,  \* VersionUpdater.lastFetch, the hour of it; Never at first
    fetch,      \* fetch[f]: how far goroutine f is with its Refresh
    hour,
    tickDue,    \* Run's ticker has yet to be handled in this hour
    failures,
    \* Bookkeeping that the code does not have:
    appliedAt,  \* the hour in which a fetched version was last applied
    failedAt    \* the hour in which a fetch of Run last failed

clock == <<hour, tickDue>>
history == <<appliedAt, failedAt>>
reported == <<pins, served, started, ssdp>>
vars == <<reported, listed, lastFetch, fetch, clock, failures, history>>

Never == -1
Fetchers == {"run"} \cup Updaters

Waiting == [pc |-> "waiting"]
Done == [pc |-> "done"]
Sent == [pc |-> "sent"]
After(f) == IF f = "run" THEN Waiting ELSE Done
Step(f, next) == fetch' = [fetch EXCEPT ![f] = next]

\* SetVersionOverrides, before anything else runs; Run then begins with a
\* fetch.  Updaters wait for a request.
Init == /\ listed \in SUBSET Releases
        /\ pins \in [sw : {None, SwPin}, api : {None, ApiPin}]
        /\ served = [sw |-> IF pins.sw = None THEN Fallback ELSE pins.sw,
                     api |-> IF pins.api = None THEN LegacyAPIVersion(Fallback)
                                               ELSE pins.api]
        /\ started = FALSE /\ ssdp = {}
        /\ lastFetch = Never
        /\ fetch = [f \in Fetchers |-> IF f = "run" THEN Sent ELSE Waiting]
        /\ hour = 0 /\ tickDue = FALSE
        /\ failures = 0
        /\ appliedAt = Never /\ failedAt = Never

\* Signify (external) releases a version.  None is ever withdrawn here.
Publish(v) == /\ v \notin listed
              /\ listed' = listed \cup {v}
              /\ UNCHANGED <<reported, lastFetch, fetch, clock, failures, history>>

\* Seeded bug: the header has the built-in version, as it once had.
AdvertiseFallback ==
    /\ ~started /\ started' = TRUE
    /\ ssdp' \in {{LegacyAPIVersion(Fallback)}, {}}
    /\ UNCHANGED <<pins, served, listed, lastFetch, fetch, clock, failures, history>>

\* StartSSDP(..., hue.APIVersion()), after Run was started and before any
\* server is.
Advertise ==
    /\ ~started /\ started' = TRUE
    /\ ssdp' \in {{served.api}, {}}
    /\ UNCHANGED <<pins, served, listed, lastFetch, fetch, clock, failures, history>>

-----------------------------------------------------------------------------
(* Refresh.                                                                *)

\* Seeded bug: the lowest version of the list is taken.
FetchLowest(f) ==
    /\ fetch[f] = Sent
    /\ listed # {}
    /\ Step(f, [pc |-> "answered", version |-> Min(listed)])
    /\ UNCHANGED <<reported, listed, lastFetch, clock, failures, history>>

\* fetchLatestSignifyVersion: the highest version of the list.
Fetch(f) ==
    /\ fetch[f] = Sent
    /\ listed # {}
    /\ Step(f, [pc |-> "answered", version |-> Max(listed)])
    /\ UNCHANGED <<reported, listed, lastFetch, clock, failures, history>>

\* Seeded bug: lastFetch is set before the fetch, so also if it fails.
FetchErrorStamped(f) ==
    /\ fetch[f] = Sent
    /\ failures < MaxFailures \/ listed = {}
    /\ failures' = IF listed = {} THEN failures ELSE failures + 1
    /\ lastFetch' = hour
    /\ failedAt' = IF f = "run" THEN hour ELSE failedAt
    /\ Step(f, After(f))
    /\ UNCHANGED <<reported, listed, clock, appliedAt>>

\* An error, a timeout, or an empty list: it is logged.
FetchError(f) ==
    /\ fetch[f] = Sent
    /\ failures < MaxFailures \/ listed = {}
    /\ failures' = IF listed = {} THEN failures ELSE failures + 1
    /\ failedAt' = IF f = "run" THEN hour ELSE failedAt
    /\ Step(f, After(f))
    /\ UNCHANGED <<reported, listed, lastFetch, clock, appliedAt>>

\* u.lastFetch = time.Now(), under u.mu ...
Stamp(f) ==
    /\ fetch[f].pc = "answered"
    /\ lastFetch' = hour
    /\ Step(f, [fetch[f] EXCEPT !.pc = "stamped"])
    /\ UNCHANGED <<reported, listed, clock, failures, history>>

\* Seeded bug: the apiversion is forgotten.
ApplySwOnly(f) ==
    /\ fetch[f].pc = "stamped"
    /\ served' = [served EXCEPT
                      !.sw = IF pins.sw = None THEN fetch[f].version ELSE @]
    /\ appliedAt' = hour
    /\ Step(f, After(f))
    /\ UNCHANGED <<pins, started, ssdp, listed, lastFetch, clock, failures, failedAt>>

\* ... and setDiscoveredVersion, under versionMu.
Apply(f) ==
    /\ fetch[f].pc = "stamped"
    /\ served' = [sw |-> IF pins.sw = None THEN fetch[f].version ELSE served.sw,
                  api |-> IF pins.api = None THEN LegacyAPIVersion(fetch[f].version)
                                           ELSE served.api]
    /\ appliedAt' = hour
    /\ Step(f, After(f))
    /\ UNCHANGED <<pins, started, ssdp, listed, lastFetch, clock, failures, failedAt>>

-----------------------------------------------------------------------------
(* What starts a Refresh.                                                  *)

\* POST /updater: refreshVersionNow.
PostUpdater(u) ==
    /\ fetch[u] = Waiting /\ started
    /\ Step(u, Sent)
    /\ UNCHANGED <<reported, listed, lastFetch, clock, failures, history>>

\* time.Since(u.lastFetch) > versionCacheTTL.  After exactly TTL hours by
\* this clock it depends on the seconds.
Expired == \/ lastFetch = Never
           \/ hour - lastFetch > TTL
MaybeExpired == Expired \/ hour - lastFetch = TTL

\* Run's ticker, and refreshIfExpired.
RunTick == /\ tickDue /\ fetch["run"] = Waiting
           /\ tickDue' = FALSE
           /\ \/ MaybeExpired /\ Step("run", Sent)
              \/ ~Expired /\ UNCHANGED fetch
           /\ UNCHANGED <<reported, listed, lastFetch, hour, failures, history>>

\* No fetch takes an hour.
NextHour == /\ hour < MaxHours /\ ~tickDue /\ started
            /\ \A f \in Fetchers : fetch[f] \in {Waiting, Done}
            /\ hour' = hour + 1
            /\ tickDue' = TRUE
            /\ UNCHANGED <<reported, listed, lastFetch, fetch, failures, history>>

Next == \/ \E v \in Releases : Publish(v)
        \/ \E f \in Fetchers : Fetch(f) \/ FetchError(f) \/ Stamp(f) \/ Apply(f)
        \/ \E u \in Updaters : PostUpdater(u)
        \/ Advertise \/ RunTick \/ NextHour

Spec == Init /\ [][Next]_vars

-----------------------------------------------------------------------------
(* Properties.                                                             *)

Answer == [pc : {"answered", "stamped"}, version : Releases]
TypeOK == /\ pins \in [sw : {None, SwPin}, api : {None, ApiPin}]
          /\ listed \in SUBSET Releases
          /\ served.sw \in Releases \cup {Fallback, SwPin}
          /\ started \in BOOLEAN
          /\ ssdp \subseteq {ApiPin} \cup
                          {LegacyAPIVersion(v) : v \in Releases \cup {Fallback}}
          /\ lastFetch \in {Never} \cup 0..MaxHours
          /\ fetch \in [Fetchers -> {Waiting, Done, Sent} \cup Answer]
          /\ hour \in 0..MaxHours /\ tickDue \in BOOLEAN
          /\ failures \in 0..MaxFailures
          /\ appliedAt \in {Never} \cup 0..MaxHours
          /\ failedAt \in {Never} \cup 0..MaxHours

\* Unless one of them is pinned, the two versions that a config request
\* reports belong to one release, as a real bridge's do (version_updater.go:
\* 14-16, 87-91), whichever fetches run at the same time.
PairBelongsTogether ==
    pins = [sw |-> None, api |-> None] => served.api = LegacyAPIVersion(served.sw)

\* StartSSDP is given the apiversion "so its SERVER header agrees with the
\* CLIP API instead of carrying an independent, driftable version string"
\* (config.go:76-79, ssdp.go:24-28).  The code does not keep that: main.go:365
\* passes a copy, which agrees until the first fetch is applied.  With
\* HUEBRIDGE_APIVERSION, which no fetch may clobber (config.go:34-36), it
\* agrees for good.
AdvertisedVersionAgrees ==
    pins.api # None \/ appliedAt = Never => ssdp \subseteq {served.api}

\* The updater "queries Signify for the newest swversion/apiversion pair and
\* applies it" (version_updater.go:97-98): a release is never replaced by an
\* older one, as long as no POST /updater fetches beside Run and Signify does
\* not withdraw a release.
NeverOlder ==
    [][(\A u \in Updaters : fetch[u] = Waiting) => served.sw' >= served.sw]_vars

TickHandled == /\ ~tickDue /\ fetch["run"] = Waiting
               /\ \A u \in Updaters : fetch[u].pc # "stamped"
\* The version is never older than TTL hours once the hour's tick has been
\* handled, unless the fetch of this very hour failed: a failed fetch is
\* tried again an hour later and not a day later (version_updater.go:141-154).
FreshOrRetrying ==
    TickHandled => \/ appliedAt # Never /\ hour - appliedAt <= TTL
                   \/ failedAt = hour
=============================================================================
