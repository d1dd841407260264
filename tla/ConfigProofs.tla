---------------------------- MODULE ConfigProofs ----------------------------
(***************************************************************************)
(* Proofs about what GET /api/<user>/config answers from: the whitelist    *)
(* and the pairing window, for any number of apps, usernames, failed saves *)
(* and restarts and any length of the window (Pairing); and the firmware   *)
(* version, for any releases, any number of updaters and failing fetches   *)
(* and any lifetime of a fetched version (Versions).                       *)
(***************************************************************************)
EXTENDS Pairing, Versions, WellFoundedInduction, TLAPS

-----------------------------------------------------------------------------
(* The whitelist and the pairing window.                                   *)

Saved == NewWhitelist(disk)

\* The window's deadline is a function of when it was last opened; the zero
\* time is past.
DeadlineKnown == \/ allowedAt = {} /\ deadline = 0
                 \/ \E t \in Nat : allowedAt = {t} /\ deadline = t + Window

\* Memory may be ahead of the file after a failed save, never behind it.
PairingInv == PairingTypeOK /\ Saved \subseteq mem /\ PairedAppsStayPaired /\ DeadlineKnown

\* A file that holds a set of usernames is read back as that set
\* (NewWhitelist, pairing.go:53-60).
LEMMA ReadBack == \A S \in SUBSET Usernames : NewWhitelist(S) = S
  BY PairingAssumption DEF NewWhitelist

LEMMA PairingInitInv == PairingInit => PairingInv
<1> SUFFICES ASSUME PairingInit PROVE PairingInv
  OBVIOUS
<1>1. mem = Saved /\ mem \in SUBSET Usernames
  BY DEF PairingInit, Saved, NewWhitelist
<1> QED
  BY <1>1, PairingAssumption DEF PairingInit, PairingInv, PairingTypeOK, PairedAppsStayPaired, DeadlineKnown

LEMMA PairAddInv ==
  ASSUME PairingInv, NEW a \in Apps, NEW u \in Usernames, PairAdd(a, u)
  PROVE  PairingInv'
<1>1. mem' = mem \cup {u} /\ mem' \in SUBSET Usernames
  BY DEF PairAdd, PairingInv, PairingTypeOK
<1>2. \/ Saved' = mem' /\ disk' = mem' /\ paired' = paired \cup {u} /\ UNCHANGED saveFailures
      \/ UNCHANGED <<disk, Saved, paired>> /\ saveFailures' \in 0..MaxSaveFailures
  BY <1>1, ReadBack, PairingAssumption DEF PairAdd, PairingInv, PairingTypeOK, Saved
<1>3. UNCHANGED <<deadline, now, restarts, allowedAt>>
  BY DEF PairAdd
<1>4. req' \in [Apps -> {"idle", "add", "refused", "done"}] /\ used' \in SUBSET Usernames
  BY DEF PairAdd, PairingInv, PairingTypeOK
<1>5. PairingTypeOK'
  BY <1>1, <1>2, <1>3, <1>4 DEF PairingInv, PairingTypeOK
<1>6. Saved' \subseteq mem' /\ paired' \subseteq mem' \cap Saved'
  BY <1>1, <1>2 DEF PairingInv, PairedAppsStayPaired, Saved
<1> QED
  BY <1>3, <1>5, <1>6 DEF PairingInv, PairedAppsStayPaired, DeadlineKnown, Saved

\* PairingInv is inductive.
LEMMA PairingNextInv == PairingInv /\ [PairingNext]_pairingVars => PairingInv'
<1> SUFFICES ASSUME PairingInv, [PairingNext]_pairingVars PROVE PairingInv'
  OBVIOUS
<1>1. CASE Allow
  <2>1. now \in Nat /\ allowedAt' = {now} /\ deadline' = now + Window
    BY <1>1 DEF Allow, PairingInv, PairingTypeOK
  <2>2. DeadlineKnown'
    BY <2>1 DEF DeadlineKnown
  <2>3. PairingTypeOK'
    BY <1>1, <2>1, PairingAssumption DEF Allow, PairingInv, PairingTypeOK
  <2> QED
    BY <1>1, <2>2, <2>3 DEF Allow, PairingInv, PairedAppsStayPaired, Saved
<1>2. CASE Pass
  BY <1>2, PairingAssumption
  DEF Pass, pairingHistory, PairingInv, PairingTypeOK, PairedAppsStayPaired, DeadlineKnown, Saved
<1>3. CASE Restart
  <2>1. mem' = Saved /\ mem' \in SUBSET Usernames /\ restarts' \in 0..MaxRestarts
    BY <1>3, PairingAssumption DEF Restart, NewWhitelist, Saved, PairingInv, PairingTypeOK
  <2>2. req' \in [Apps -> {"idle", "add", "refused", "done"}]
    BY <1>3 DEF Restart, PairingInv, PairingTypeOK
  <2> QED
    BY <1>3, <2>1, <2>2
    DEF Restart, PairingInv, PairingTypeOK, PairedAppsStayPaired, DeadlineKnown, Saved
<1>4. ASSUME NEW a \in Apps, PairCheck(a) PROVE PairingInv'
  BY <1>4 DEF PairCheck, pairingHistory, PairingInv, PairingTypeOK, PairedAppsStayPaired, DeadlineKnown, Saved
<1>5. ASSUME NEW a \in Apps, NEW u \in Usernames, PairAdd(a, u) PROVE PairingInv'
  BY <1>5, PairAddInv
<1>6. CASE UNCHANGED pairingVars
  BY <1>6 DEF pairingVars, pairingHistory, PairingInv, PairingTypeOK, PairedAppsStayPaired, DeadlineKnown, Saved
<1> QED
  BY <1>1, <1>2, <1>3, <1>4, <1>5, <1>6 DEF PairingNext

-----------------------------------------------------------------------------
\* The inductive invariant, for every instance of the constants.
THEOREM PairingInductive == PairingSpec => []PairingInv
<1> QED
  BY PairingInitInv, PairingNextInv, PTL DEF PairingSpec

\* An app that was given its username is never turned away, now or after a
\* restart, whichever saves fail (pairing.go:62-67, server.go:14-23).
THEOREM PairedStay == PairingSpec => []PairedAppsStayPaired
<1>1. PairingInv => PairedAppsStayPaired
  BY DEF PairingInv
<1> QED
  BY <1>1, PairingInductive, PTL

\* A pairing request is accepted exactly when the page was told to allow it
\* less than a window ago, since the last start (pairing.go:25-35, 92-99).
THEOREM WindowDecides == PairingSpec => AcceptedInWindow
<1>1. PairingInv /\ [PairingNext]_pairingVars =>
        [\A a \in Apps : req[a] = "idle" /\ req'[a] # "idle" =>
            (req'[a] = "add" <=> \E t \in allowedAt : now < t + Window)]_pairingVars
  <2> SUFFICES ASSUME PairingInv, PairingNext, NEW a \in Apps, req[a] = "idle", req'[a] # "idle"
               PROVE  req'[a] = "add" <=> \E t \in allowedAt : now < t + Window
    OBVIOUS
  <2>1. PairCheck(a)
    <3>1. CASE Allow \/ Pass
      BY <3>1 DEF Allow, Pass
    <3>2. CASE Restart
      BY <3>2 DEF Restart, PairingInv, PairingTypeOK
    <3>3. ASSUME NEW b \in Apps, PairCheck(b) PROVE PairCheck(a)
      BY <3>3 DEF PairCheck, PairingInv, PairingTypeOK
    <3>4. ASSUME NEW b \in Apps, NEW u \in Usernames, PairAdd(b, u) PROVE FALSE
      BY <3>4 DEF PairAdd, PairingInv, PairingTypeOK
    <3> QED
      BY <3>1, <3>2, <3>3, <3>4 DEF PairingNext
  <2>2. req'[a] = "add" <=> now < deadline
    BY <2>1 DEF PairCheck, IsOpen, PairingInv, PairingTypeOK
  <2>3. now < deadline <=> \E t \in allowedAt : now < t + Window
    BY DEF PairingInv, PairingTypeOK, DeadlineKnown
  <2> QED
    BY <2>2, <2>3
<1> QED
  BY <1>1, PairingInductive, PTL DEF PairingSpec, AcceptedInWindow

-----------------------------------------------------------------------------
(* The firmware version.                                                   *)

Stamped(f) == fetch[f].pc = "stamped"

\* What an answer looks like.
Shape ==
    /\ fetch = [f \in Fetchers |-> fetch[f]]
    /\ \A f \in Fetchers : fetch[f].pc = "answered" =>
            fetch[f] = [pc |-> "answered", version |-> fetch[f].version]

Hours == /\ hour \in Nat
         /\ lastFetch \in {Never} \cup Nat
         /\ appliedAt \in {Never} \cup Nat

\* An answer is applied in the hour in which it was stamped; so unless one is
\* about to be applied, lastFetch tells how old the version is.
Ages ==
    /\ \A f \in Fetchers : Stamped(f) => lastFetch = hour
    /\ (\A f \in Fetchers : ~Stamped(f)) => appliedAt = lastFetch

\* Once Run has handled the hour's tick, the last success is young enough, or
\* the hour's fetch has failed.
Handled ==
    ~tickDue /\ fetch["run"] = Waiting =>
        \/ lastFetch # Never /\ hour - lastFetch <= TTL
        \/ failedAt = hour

Pair == pins.sw = None /\ pins.api = None => served.api = LegacyAPIVersion(served.sw)

VInv == Shape /\ Hours /\ Ages /\ Handled /\ Pair /\ AdvertisedVersionAgrees

LEMMA Names == "run" \in Fetchers /\ \A u \in Updaters : u \in Fetchers /\ u # "run"
BY VersionsAssumption DEF Fetchers

LEMMA VersionsInit == Init => VInv
<1> SUFFICES ASSUME Init PROVE VInv
  OBVIOUS
<1>1. /\ fetch = [f \in Fetchers |-> IF f = "run" THEN Sent ELSE Waiting]
      /\ hour = 0 /\ lastFetch = Never /\ appliedAt = Never /\ ssdp = {}
  BY DEF Init
<1>2. \A f \in Fetchers : fetch[f].pc \in {"sent", "waiting"}
  BY <1>1 DEF Sent, Waiting
<1>3. Shape /\ Hours /\ Ages
  BY <1>1, <1>2 DEF Shape, Hours, Ages, Stamped
<1>4. Handled
  BY <1>1, Names DEF Handled, Sent, Waiting
<1>5. Pair
  BY DEF Init, Pair
<1>6. AdvertisedVersionAgrees
  BY <1>1 DEF AdvertisedVersionAgrees
<1> QED
  BY <1>3, <1>4, <1>5, <1>6 DEF VInv

\* The steps of a Refresh.
LEMMA RefreshInv ==
  ASSUME VInv, NEW f \in Fetchers, Fetch(f) \/ FetchError(f) \/ Stamp(f) \/ Apply(f)
  PROVE  VInv'
<1>1. /\ UNCHANGED <<pins, started, ssdp, hour, tickDue>>
      /\ \A g \in Fetchers : g # f => fetch'[g] = fetch[g]
      /\ fetch' = [g \in Fetchers |-> fetch'[g]]
  BY DEF Fetch, FetchError, Stamp, Apply, Step, VInv, Shape, reported, clock, history
<1>2. CASE Fetch(f) \/ FetchError(f)
  <2>1. /\ UNCHANGED <<served, lastFetch, appliedAt>> /\ fetch[f] = Sent
        /\ \/ fetch'[f] = [pc |-> "answered", version |-> Max(listed)] /\ UNCHANGED failedAt
           \/ fetch'[f] = After(f) /\ failedAt' = IF f = "run" THEN hour ELSE failedAt
    BY <1>2 DEF Fetch, FetchError, Step, VInv, Shape, reported, clock, history
  <2>2. ~Stamped(f) /\ ~Stamped(f)' /\ (fetch'[f] = Waiting => failedAt' = hour \/ f # "run")
    BY <2>1 DEF Stamped, Sent, After, Waiting, Done
  <2>3. Shape'
    BY <1>1, <2>1 DEF VInv, Shape, After, Waiting, Done
  <2>4. \A g \in Fetchers : Stamped(g)' <=> Stamped(g)
    BY <1>1, <2>2 DEF Stamped
  <2>5. Hours' /\ Ages'
    BY <1>1, <2>1, <2>4 DEF VInv, Hours, Ages, Stamped
  <2>6. Handled'
    <3>1. CASE f = "run"
      BY <1>1, <2>1, <2>2, <3>1 DEF Handled
    <3>2. CASE f # "run"
      BY <1>1, <2>1, <3>2, Names DEF VInv, Handled
    <3> QED
      BY <3>1, <3>2
  <2>7. Pair' /\ AdvertisedVersionAgrees'
    BY <1>1, <2>1 DEF VInv, Pair, AdvertisedVersionAgrees
  <2> QED
    BY <2>3, <2>5, <2>6, <2>7 DEF VInv
<1>3. CASE Stamp(f)
  <2>1. /\ UNCHANGED <<served, appliedAt, failedAt>>
        /\ lastFetch' = hour
        /\ fetch'[f] = [pc |-> "stamped", version |-> fetch[f].version]
    BY <1>3 DEF Stamp, Step, VInv, Shape, reported, clock, history
  <2>2. Shape'
    BY <1>1, <2>1 DEF VInv, Shape
  <2>3. Stamped(f)'
    BY <2>1 DEF Stamped
  <2>4. Hours' /\ Ages'
    BY <1>1, <2>1, <2>3 DEF VInv, Hours, Ages, Stamped
  <2>5. lastFetch' # Never /\ hour' - lastFetch' <= TTL
    BY <1>1, <2>1, VersionsAssumption DEF VInv, Hours, Never
  <2>6. Handled' /\ Pair' /\ AdvertisedVersionAgrees'
    BY <1>1, <2>1, <2>5 DEF VInv, Handled, Pair, AdvertisedVersionAgrees
  <2> QED
    BY <2>2, <2>4, <2>6 DEF VInv
<1>4. CASE Apply(f)
  <2>1. /\ UNCHANGED <<lastFetch, failedAt>>
        /\ Stamped(f) /\ appliedAt' = hour
        /\ fetch'[f] = After(f)
        /\ served' = [sw |-> IF pins.sw = None THEN fetch[f].version ELSE served.sw,
                      api |-> IF pins.api = None THEN LegacyAPIVersion(fetch[f].version)
                                               ELSE served.api]
    BY <1>4 DEF Apply, Step, VInv, Shape, Stamped
  <2>2. Shape'
    BY <1>1, <2>1 DEF VInv, Shape, After, Waiting, Done
  <2>3. lastFetch = hour
    BY <2>1 DEF VInv, Ages
  <2>4. \A g \in Fetchers : Stamped(g)' => Stamped(g)
    BY <1>1, <2>1 DEF Stamped
  <2>5. Hours' /\ Ages'
    BY <1>1, <2>1, <2>3, <2>4 DEF VInv, Hours, Ages, Stamped
  <2>6. lastFetch' # Never /\ hour' - lastFetch' <= TTL
    BY <1>1, <2>1, <2>3, VersionsAssumption DEF VInv, Hours, Never
  <2>7. Handled'
    BY <2>6 DEF Handled
  <2>8. Pair'
    BY <1>1, <2>1 DEF Pair
  <2>9. AdvertisedVersionAgrees'
    BY <1>1, <2>1 DEF VInv, Hours, AdvertisedVersionAgrees, Never
  <2> QED
    BY <2>2, <2>5, <2>7, <2>8, <2>9 DEF VInv
<1> QED
  BY <1>2, <1>3, <1>4

\* What starts a Refresh, and time.
LEMMA OtherInv ==
  ASSUME VInv,
         \/ \E v \in Releases : Publish(v)
         \/ \E u \in Updaters : PostUpdater(u)
         \/ Advertise \/ RunTick \/ NextHour
         \/ UNCHANGED vars
  PROVE  VInv'
<1>1. UNCHANGED <<pins, served, lastFetch, appliedAt, failedAt>>
  BY DEF Publish, PostUpdater, Advertise, RunTick, NextHour, vars, reported, clock, history
<1>2. CASE (\E v \in Releases : Publish(v)) \/ Advertise \/ UNCHANGED vars
  <2>1. UNCHANGED <<fetch, hour, tickDue>>
    BY <1>2 DEF Publish, Advertise, vars, reported, clock, history
  <2>2. ssdp' \in {ssdp, {served.api}, {}}
    BY <1>2 DEF Publish, Advertise, vars, reported
  <2>3. AdvertisedVersionAgrees'
    BY <1>1, <2>2 DEF VInv, AdvertisedVersionAgrees
  <2> QED
    BY <1>1, <2>1, <2>3 DEF VInv, Shape, Hours, Ages, Stamped, Handled, Pair
<1>3. CASE \E u \in Updaters : PostUpdater(u)
  <2>1. PICK u \in Updaters : PostUpdater(u)
    BY <1>3
  <2>2. /\ UNCHANGED <<ssdp, hour, tickDue>> /\ fetch[u] = Waiting /\ fetch'[u] = Sent
        /\ \A g \in Fetchers : g # u => fetch'[g] = fetch[g]
        /\ fetch' = [g \in Fetchers |-> fetch'[g]]
    BY <2>1, Names DEF PostUpdater, Step, VInv, Shape, reported, clock
  <2>3. \A g \in Fetchers : Stamped(g)' <=> Stamped(g)
    BY <2>2 DEF Stamped, Waiting, Sent
  <2>4. fetch'["run"] = fetch["run"]
    BY <2>2, Names
  <2>5. Shape'
    BY <2>2 DEF VInv, Shape, Sent
  <2> QED
    BY <1>1, <2>2, <2>3, <2>4, <2>5
    DEF VInv, Hours, Ages, Stamped, Handled, Pair, AdvertisedVersionAgrees
<1>4. CASE RunTick
  <2>1. /\ UNCHANGED <<ssdp, hour>> /\ fetch["run"] = Waiting
        /\ \A g \in Fetchers : g # "run" => fetch'[g] = fetch[g]
        /\ fetch' = [g \in Fetchers |-> fetch'[g]]
        /\ \/ fetch'["run"] = Sent
           \/ fetch'["run"] = Waiting /\ ~Expired
    BY <1>4, Names DEF RunTick, Step, VInv, Shape, reported
  <2>2. \A g \in Fetchers : Stamped(g)' <=> Stamped(g)
    BY <2>1 DEF Stamped, Waiting, Sent
  <2>3. Shape'
    BY <2>1 DEF VInv, Shape, Sent, Waiting
  <2>4. Handled'
    <3>1. TTL \in Nat
      BY VersionsAssumption
    <3>2. ~Expired => lastFetch # Never /\ hour - lastFetch <= TTL
      BY <3>1 DEF VInv, Hours, Expired, Never
    <3> QED
      BY <1>1, <2>1, <3>2 DEF Handled, Sent, Waiting
  <2> QED
    BY <1>1, <2>1, <2>2, <2>3, <2>4
    DEF VInv, Hours, Ages, Stamped, Pair, AdvertisedVersionAgrees
<1>5. CASE NextHour
  <2>1. /\ UNCHANGED <<ssdp, fetch>> /\ hour' = hour + 1 /\ tickDue' = TRUE
        /\ \A f \in Fetchers : fetch[f] \in {Waiting, Done}
    BY <1>5 DEF NextHour, reported
  <2>2. \A f \in Fetchers : ~Stamped(f)
    BY <2>1 DEF Stamped, Waiting, Done
  <2>3. Hours'
    BY <1>1, <2>1 DEF VInv, Hours
  <2> QED
    BY <1>1, <2>1, <2>2, <2>3
    DEF VInv, Shape, Ages, Stamped, Handled, Pair, AdvertisedVersionAgrees
<1> QED
  BY <1>2, <1>3, <1>4, <1>5

LEMMA VersionsInductive == Spec => []VInv
<1>1. VInv /\ [Next]_vars => VInv'
  BY RefreshInv, OtherInv DEF Next
<1> QED
  BY <1>1, VersionsInit, PTL DEF Spec

-----------------------------------------------------------------------------
(* What follows.                                                           *)

\* Whichever fetches run at the same time, the two versions of a config
\* request belong to one release (version_updater.go:14-16, 87-91).
THEOREM Together == Spec => []PairBelongsTogether
<1>1. VInv => PairBelongsTogether
  BY DEF VInv, Pair, PairBelongsTogether
<1> QED
  BY <1>1, VersionsInductive, PTL

\* SSDP's version is the served one, until the first fetch is applied or for
\* good if it is pinned (config.go:76-79, ssdp.go:24-28).
THEOREM Advertised == Spec => []AdvertisedVersionAgrees
<1>1. VInv => AdvertisedVersionAgrees
  BY DEF VInv
<1> QED
  BY <1>1, VersionsInductive, PTL

\* The version is never older than TTL hours once the hour's tick has been
\* handled, unless the fetch of this very hour failed
\* (version_updater.go:141-154).
THEOREM Fresh == Spec => []FreshOrRetrying
<1>1. VInv => FreshOrRetrying
  <2> SUFFICES ASSUME VInv, TickHandled
               PROVE  (appliedAt # Never /\ hour - appliedAt <= TTL) \/ failedAt = hour
    BY DEF FreshOrRetrying
  <2>1. \A f \in Fetchers : ~Stamped(f)
    BY DEF TickHandled, Fetchers, Stamped, Waiting
  <2>2. appliedAt = lastFetch
    BY <2>1 DEF VInv, Ages
  <2> QED
    BY <2>2 DEF VInv, Handled, TickHandled
<1> QED
  BY <1>1, VersionsInductive, PTL

-----------------------------------------------------------------------------
(* Releases never go backwards.                                            *)

Lone == \A u \in Updaters : fetch[u] = Waiting

\* As long as Run is the only one to fetch, and nothing is pinned, what is
\* served was listed or built in, and an answer of Run is no older.
Newer ==
    /\ listed \subseteq Releases
    /\ Lone /\ pins.sw = None =>
          /\ served.sw \in {Fallback} \cup listed
          /\ fetch["run"].pc \in {"answered", "stamped"} =>
                /\ fetch["run"].version \in listed
                /\ fetch["run"].version >= served.sw
    /\ Lone => served.sw \in Nat

\* A bounded set of numbers has a maximum.
LEMMA Maximum ==
  ASSUME NEW newest \in Nat, NEW S \in SUBSET (0..newest), S # {}
  PROVE  Max(S) \in S /\ \A x \in S : Max(S) >= x
<1> DEFINE Above == {u \in Nat : \A x \in S : x <= u}
<1>1. Above \subseteq Nat /\ newest \in Above
  OBVIOUS
<1>2. \E u \in Above : \A v \in Above : <<v, u>> \notin OpToRel(<, Nat)
  <2> HIDE DEF Above
  <2> QED
    BY <1>1, NatLessThanWellFounded, WFMin
<1>3. PICK u \in Nat : /\ \A x \in S : x <= u
                       /\ \A v \in Nat : (\A x \in S : x <= v) => ~(v < u)
  BY <1>2 DEF OpToRel
<1>4. u \in S
  <2> SUFFICES ASSUME u \notin S PROVE FALSE
    OBVIOUS
  <2>1. u # 0
    <3>a. S \subseteq 0..newest /\ 0..newest \subseteq Nat
      OBVIOUS
    <3>1. PICK x \in S : x \in Nat
      BY <3>a
    <3>2. x <= u /\ x # u
      BY <1>3, <3>1
    <3> QED
      BY <3>1, <3>2
  <2>2. u - 1 \in Nat /\ u - 1 < u /\ \A x \in S : x <= u - 1
    BY <1>3, <2>1
  <2> QED
    BY <1>3, <2>2
<1>5. \A x \in S : u >= x
  BY <1>3
<1> QED
  BY <1>4, <1>5 DEF Max

\* The newest release that Signify lists is no older than one it listed.
LEMMA NewestListed ==
  ASSUME NEW newest \in Nat, Releases \subseteq Fallback..newest, listed \subseteq Releases, listed # {}
  PROVE  Max(listed) \in listed /\ \A v \in {Fallback} \cup listed : Max(listed) >= v
<1>1. Fallback \in Nat
  BY VersionsAssumption
<1>2. listed \subseteq 0..newest
  BY <1>1
<1>3. Max(listed) \in listed /\ \A v \in listed : Max(listed) >= v
  BY <1>2, Maximum
<1>4. Max(listed) >= Fallback
  <2>1. Max(listed) \in Fallback..newest
    BY <1>3
  <2> QED
    BY <1>1, <2>1
<1> QED
  BY <1>3, <1>4

LEMMA NewerInit == Init => Newer
BY Names, VersionsAssumption DEF Init, Newer, Sent, Waiting

\* An updater that has begun never waits again.
LEMMA LoneBefore ==
  ASSUME VInv, Next, Lone'
  PROVE  Lone
<1>1. ASSUME NEW f \in Fetchers, NEW u \in Updaters,
             Fetch(f) \/ FetchError(f) \/ Stamp(f) \/ Apply(f), fetch'[u] = Waiting
      PROVE  fetch[u] = Waiting
  <2>1. \A g \in Fetchers : g # f => fetch'[g] = fetch[g]
    BY <1>1 DEF Fetch, FetchError, Stamp, Apply, Step, VInv, Shape
  <2>2. CASE f = u
    <3>1. \/ fetch'[f] = Done
          \/ fetch'[f].pc \in {"answered", "stamped"}
      BY <1>1, <2>2, Names DEF Fetch, FetchError, Stamp, Apply, Step, VInv, Shape, After
    <3> QED
      BY <1>1, <2>2, <3>1 DEF Done, Waiting
  <2> QED
    BY <1>1, <2>1, <2>2, Names
<1>2. ASSUME NEW v \in Updaters, NEW u \in Updaters, PostUpdater(v), fetch'[u] = Waiting
      PROVE  fetch[u] = Waiting
  BY <1>2, Names DEF PostUpdater, Step, VInv, Shape, Sent, Waiting
<1>3. ASSUME NEW u \in Updaters, RunTick, fetch'[u] = Waiting
      PROVE  fetch[u] = Waiting
  BY <1>3, Names DEF RunTick, Step, VInv, Shape
<1>4. ASSUME (\E v \in Releases : Publish(v)) \/ Advertise \/ NextHour
      PROVE  UNCHANGED fetch
  BY <1>4 DEF Publish, Advertise, NextHour
<1> QED
  BY <1>1, <1>2, <1>3, <1>4 DEF Next, Lone

LEMMA NewerNext ==
  ASSUME NEW newest \in Nat, Releases \subseteq Fallback..newest, VInv, Newer, [Next]_vars
  PROVE  Newer' /\ (Lone => served'.sw >= served.sw)
<1>1. CASE UNCHANGED vars
  BY <1>1 DEF vars, reported, Newer, Lone
<1>2. CASE Next
  <2>1. UNCHANGED pins /\ listed \subseteq listed' /\ listed' \subseteq Releases
    BY <1>2 DEF Next, Publish, Fetch, FetchError, Stamp, Apply, PostUpdater, Advertise, RunTick,
                NextHour, reported, Newer
  <2>2. Fallback \in Nat /\ Releases \subseteq Nat
    BY VersionsAssumption
  <2>3. ASSUME ~\E f \in Fetchers : Fetch(f) \/ Stamp(f) \/ Apply(f)
        PROVE  /\ UNCHANGED served
               /\ fetch'["run"] = fetch["run"] \/ fetch'["run"].pc \notin {"answered", "stamped"}
    <3>1. CASE \E f \in Fetchers : FetchError(f)
      <4>1. PICK f \in Fetchers : FetchError(f)
        BY <3>1
      <4>2. UNCHANGED served /\ fetch'[f] \in {Waiting, Done}
            /\ \A g \in Fetchers : g # f => fetch'[g] = fetch[g]
        BY <4>1 DEF FetchError, Step, After, VInv, Shape, reported
      <4> QED
        BY <4>2, Names DEF Waiting, Done
    <3>2. CASE \E u \in Updaters : PostUpdater(u)
      BY <3>2, Names DEF PostUpdater, Step, VInv, Shape, reported
    <3>3. CASE RunTick
      BY <3>3, Names DEF RunTick, Step, VInv, Shape, reported, Sent
    <3>4. CASE (\E v \in Releases : Publish(v)) \/ Advertise \/ NextHour
      BY <3>4 DEF Publish, Advertise, NextHour, reported
    <3> QED
      BY <1>2, <2>3, <3>1, <3>2, <3>3, <3>4 DEF Next
  <2>4. CASE ~\E f \in Fetchers : Fetch(f) \/ Stamp(f) \/ Apply(f)
    <3>1. UNCHANGED served
      BY <2>3, <2>4
    <3>2. Newer'
      BY <1>2, <2>1, <2>3, <2>4, LoneBefore DEF Newer
    <3>3. Lone => served.sw >= served.sw
      BY DEF Newer
    <3> QED
      BY <3>1, <3>2, <3>3
  <2>5. ASSUME NEW f \in Fetchers, Fetch(f) \/ Stamp(f) \/ Apply(f), ~Lone
        PROVE  Newer' /\ (Lone => served'.sw >= served.sw)
    BY <1>2, <2>1, <2>5, LoneBefore DEF Newer
  <2>6. ASSUME NEW f \in Fetchers, Fetch(f) \/ Stamp(f) \/ Apply(f), Lone
        PROVE  Newer' /\ (Lone => served'.sw >= served.sw)
    <3>1. f = "run"
      <4>1. fetch[f] # Waiting
        BY <2>6 DEF Fetch, Stamp, Apply, Sent, Waiting
      <4> QED
        BY <2>6, <4>1 DEF Lone, Fetchers
    <3>2. CASE Fetch(f)
      <4>1. /\ UNCHANGED <<served, listed>> /\ listed # {}
            /\ fetch'["run"] = [pc |-> "answered", version |-> Max(listed)]
        BY <3>1, <3>2 DEF Fetch, Step, VInv, Shape, reported
      <4>2. Max(listed) \in listed /\ \A v \in {Fallback} \cup listed : Max(listed) >= v
        BY <4>1, NewestListed DEF Newer
      <4> QED
        BY <2>1, <2>6, <4>1, <4>2 DEF Newer
    <3>3. CASE Stamp(f)
      <4>1. /\ UNCHANGED <<served, listed>> /\ fetch["run"].pc = "answered"
            /\ fetch'["run"] = [pc |-> "stamped", version |-> fetch["run"].version]
        BY <3>1, <3>3 DEF Stamp, Step, VInv, Shape, reported
      <4> QED
        BY <2>1, <2>6, <4>1 DEF Newer
    <3>4. CASE Apply(f)
      <4>1. /\ UNCHANGED listed /\ fetch["run"].pc = "stamped" /\ fetch'["run"] = Waiting
            /\ served'.sw = IF pins.sw = None THEN fetch["run"].version ELSE served.sw
        BY <3>1, <3>4 DEF Apply, Step, After, VInv, Shape, reported
      <4>2. fetch'["run"].pc = "waiting"
        BY <4>1 DEF Waiting
      <4>3. /\ pins.sw = None => served'.sw \in listed /\ served'.sw >= served.sw
            /\ served'.sw >= served.sw /\ served'.sw \in Nat
        <5>1. served.sw \in Nat /\ listed \subseteq Nat
          BY <2>2, <2>6 DEF Newer
        <5>2. CASE pins.sw = None
          <6>1. fetch["run"].version \in listed /\ fetch["run"].version >= served.sw
            BY <2>6, <4>1, <5>2 DEF Newer
          <6> QED
            BY <4>1, <5>1, <5>2, <6>1
        <5>3. CASE pins.sw # None
          BY <4>1, <5>1, <5>3
        <5> QED
          BY <5>2, <5>3
      <4>4. Newer'
        BY <2>1, <4>1, <4>2, <4>3 DEF Newer
      <4> QED
        BY <4>1, <4>3, <4>4
    <3> QED
      BY <2>6, <3>2, <3>3, <3>4
  <2> QED
    BY <2>4, <2>5, <2>6
<1> QED
  BY <1>1, <1>2

\* A release is never replaced by an older one as long as no POST /updater
\* fetches beside Run, if the built-in version is no newer than what Signify
\* lists (version_updater.go:97-98).
THEOREM Forward ==
  ASSUME NEW newest \in Nat, Releases \subseteq Fallback..newest
  PROVE  Spec => NeverOlder
<1>1. VInv /\ Newer /\ [Next]_vars =>
         Newer' /\ [(\A u \in Updaters : fetch[u] = Waiting) => served.sw' >= served.sw]_vars
  BY NewerNext DEF Lone
<1>2. VInv /\ [Next]_vars => VInv'
  BY RefreshInv, OtherInv DEF Next
<1> QED
  BY <1>1, <1>2, VersionsInit, NewerInit, PTL DEF Spec, NeverOlder
=============================================================================
