# huebridge in TLA+

huebridge makes Home Assistant entities look like the lights of a Philips Hue
bridge. It is one Go process: HTTP servers for the Hue CLIP API and an admin
page, a few long-lived goroutines, and a handful of JSON files. This directory
holds TLA+ modules of its stateful parts, TLC configurations that check small
instances of them, and TLAPS proofs for every instance. `PROJECT.json` lists
the parts, runs, mutants, hazards and theorems, and maps every definition to
the lines of `src/` it stands for.

    tlc -workers 2 -config MCScenes.cfg MCScenes            # one run
    tlapm ScenesProofs.tla                                  # one module's proofs

## 1. The system

| Component | State | Operations | Talks to |
|---|---|---|---|
| JSON document store, `store/jsonfile.go` | a file, its `.tmp`, a mutex | `Load`, `Save` | every store below |
| Registry, `registry/registry.go` | entries, groups, two id counters, in memory and in `registry.json` | `Add`, `Remove`, `AddGroup`, lookups, `NewRegistry` with self-heal | admin page, CLIP handlers, ticker |
| Admin page, `ingress/` | none; each tab shows a page of some age | forms for entities and groups, "Allow pairing" | registry, pairing window |
| State cache, `backend/cache` | snapshot of light states | `Run`, `GetState`, `SetState` | Home Assistant backend |
| Home Assistant backend | WebSocket, channel of 64 events | REST calls, `Subscribe`, scene mirror | Home Assistant (external) |
| CLIP lights and groups, `hue/lights.go`, `groups.go` | none | GET and PUT | registry, cache |
| Schedules, `hue/schedules.go` | schedules and next id, in memory and file; `lastFired` in memory | POST, DELETE, `Tick` | cache, `runTicker` |
| Scenes, `hue/scenes.go` | scenes, in memory and file | POST, DELETE | cache (state, mirror) |
| Pairing, `hue/pairing.go` | window's deadline; whitelist in memory and file | `Open`, POST /api, lookup | admin page, all of the API |
| Firmware version, `hue/config.go`, `version_updater.go` | version pair, pins, `lastFetch` | hourly refresh, POST /updater | Signify (external), SSDP |
| SSDP and mDNS, `discovery/` | the adverts, with the apiversion of their start | start, stop | main, apps |
| Setup wizard, `setup/` | password hash, `done`, `standalone.json` | two forms, `Store.Save` | Home Assistant, main |
| TLS certificate, `tls/cert.go` | `cert.pem` | load, or generate and save | main, apps that remember it |
| Lifecycle, `cmd/huebridge/main.go` | where main is, three servers, the error channel | start in two modes, wizard, ticker, signal, shutdown | all |

The rest is rendering (types, templates, description.xml), network I/O of
libraries (mDNS, SSDP's socket), logging, and a test double.

What makes it hard:

* **Interleaving.** net/http serves each request in a goroutine. The stores
  lock one method at a time, so every handler that makes two calls can be
  overtaken between them: the scene handlers and the ticker keep a copy across
  a backend call of up to ten seconds; `SetState` reads and then acts;
  GET of a group makes two calls per member.
* **Partial failure.** All stores change memory first and save second, and
  differ in what they do when the save fails.
* **Restarts** at any point, with what the last successful save left.
* **Events against answers.** Three writers put states into the snapshot
  (events, fills, patches after a command) and carry no version.
* **Time.** A pairing window, a ticker that compares wall-clock minutes, an
  exponential backoff, a 24 hour cache, one deadline shared by three shutdowns.
* **Identity.** Apps remember the certificate and the bridge id, so what a
  process that is killed leaves in `cert.pem` matters to the next one.

For each component, what makes it correct:

* store: the file is always one whole document; Save and Load are atomic;
  every call returns.
* registry: ids are unique and never reused; what was acknowledged survives a
  restart; groups have registered members only.
* cache: events arrive whole and in order; once nothing is in progress the
  snapshot agrees with Home Assistant; a lost connection is restored.
* lights and groups: a report was true while it was made; only exposed
  entities are commanded; what a PUT reports as done came about.
* schedules: a schedule fires every day, once per minute at most; a deleted
  one stays deleted; ids are not handed out again.
* scenes: an acknowledged scene survives, a deleted one stays away, a refused
  one leaves nothing, and each has its counterpart in Home Assistant.
* pairing: accepted exactly within the window; a paired app stays paired.
* version: the pair belongs together, SSDP and config agree, pins hold, failed
  fetches are retried, nothing older replaces something newer.
* wizard: only verified configurations are saved, done means saved, and the
  bridge starts.
* lifecycle: a client keeps seeing the same certificate, and it carries the
  advertised id; a shutdown ends, cuts nothing off early, withdraws the adverts.

## 2. Modules and how they correspond to the code

Every Go method that holds its mutex from start to end is one action, and so
is every stretch of a handler between two such calls. An action is named after
the function it models. `SaveOk`/`SaveError` are the two results of
`JSONFile.Save`: that a save is one step is not assumed but proved, by
`Refinement` of `JSONFileProofs`. A `\* Seeded bug` operator before an action
is the mistake that the property named in `PROJECT.json` must catch.

* **AtomicDocument** — what a JSON document promises: a call takes effect in
  one step or reports an error and does nothing.
* **JSONFile** — `Save` and `Load` system call by system call (`mu.Lock`,
  prepare, open with truncation, write, rename), each of which can fail, with a
  process that can die between any two. Implements AtomicDocument.
* **IdBook** — what the registry promises the apps: an id is given to one
  entity, once; what is served and what is saved may differ meanwhile.
* **Registry** — memory, file, and the browser tabs with the page each was
  shown. `NewRegistry` heals the counters. `durable` and `promised` record what
  has reached the file and what the operator has been told. Implements IdBook.
* **EventFeed** — what the subscription promises the snapshot: a queue of the
  changes, of which the oldest is delivered and the newest may be lost.
* **StateCache** — Home Assistant, wire, channel, reader, `Run`, and calls of
  `GetState` and `SetState` in the steps between which others can act. A
  light's brightness and colour are one value. Implements EventFeed.
* **Clip** — the handlers of lights and groups, and the part of POST /scenes
  that reads a group, over a registry and lights that change under them. A
  light is `Off` or its brightness. A body has a value under `on` and `bri`, of
  the right type or not, or none, and perhaps keys that nobody reads; `Desired`
  is what the handler makes of it, with `Uint8` for the conversion, which has any
  result for a number that does not fit, and `Echoed` what it answers. `during`
  records what held at some moment of a request.
* **Schedules** — the store, and `Tick` as the code runs it: snapshot, call,
  write back, one schedule after the other. `spent` is what the calls have used
  of the one context that `runTicker` gives the tick: each takes any time up to
  its own limit, twice that for a body with a brightness only, and from
  `TickTimeout` on nothing is sent. `fired` records what the code takes for fired,
  `sent` for what the backend was called. Time is in minutes of the wall clock,
  which may be set back, by a day too, or pass over a minute without a tick.
* **Scenes** — POST as create, mirror, roll back; DELETE as get, unmirror,
  delete; a Home Assistant call that fails may have been carried out.
* **Pairing** — the window and the check-then-add of POST /api.
* **Versions** — refreshes in four steps (sent, answered, `lastFetch` set,
  applied), the hourly tick, the pins, and the apiversion that SSDP is started
  with. `LegacyAPIVersion` is the digit arithmetic of `legacyAPIVersion`.
* **Setup** — standalone main's way from `Load` to `runBridge`, with the
  wizard's handlers, including those that outlive the wizard.
* **Lifecycle** — extends Setup to the whole process: both modes, `runBridge`
  from the registry and the certificate to the exit, the goroutines of the
  three servers and their requests, the error channel, signals, the deadline.
* **JSONFileProofs, RegistryProofs, StateCacheProofs, ClipProofs,
  SchedulesProofs, ScenesProofs, LifecycleProofs** — theorems about the module
  of that name; **ConfigProofs** — those about Pairing and Versions, the two
  parts that `GET /config` answers from.
* **MC...** — the small instances.

Composition: the stores rest on JSONFile through its refinement theorem; Clip
takes the registry's operations as single steps, which is what its lock makes of
them, and a backend call too, which no lock does: there the snapshot is always
current and a command changes light and snapshot at once. What lies between, the
check before a command, the patch after it and a snapshot left behind, is
StateCache's subject; Scenes and Schedules take a backend call as a step
that may fail at any time after it was carried out, which is what StateCache's
`SetState` does. Lifecycle is Setup with the variables of the bridge added: a
step of Setup leaves those alone, a step of the bridge leaves Setup's alone, and
`LRestart` is Setup's `Restart` and the bridge's together.

## 3. Runs

One run for each module, with everything that can go wrong switched on, and
three for claims of the repository that do not hold: the two that lose or bring
back what an app was told, and the one that leaves the snapshot wrong. The other
claims that hold only in part have a condition instead (below). Every property of a
passing run has a mutant of the code that breaks it.

| Run | Instance | What it shows |
|---|---|---|
| `json_file` | three callers, two documents, failing calls, crashes | the file is always one whole document, calls are atomic, no caller waits for ever |
| `registry` | two tabs, two entities, two failing saves, any number of restarts, edited files | `UniqueIds`, `DurableIdsNeverReused`, `RestartTransparent`, `NoPhantomMembers`; `ImplementsIdBook` |
| `registry_retry` | one tab, one failing save | `AckedEntriesSurvive` is **violated**: the retry of a failed `Add` saves nothing and succeeds |
| `cache` | one light, a read and a write, two changes, two lost connections | `EventsCoherent`, `Resubscribes`, `AttributesNeverTurnOn`; `ImplementsFeed` |
| `cache_gap` | one light, two changes, one lost connection, no request | `CurrentWhenSettled` is **violated**: a change during the gap is never learnt |
| `schedules` | two schedules, one of them in a file with a low counter; calls that use up a tick, any two faults | `AtMostOncePerMinute`, `FiresEveryDay`, `IdsNotHandedOutAgain`, `TicksEnd` |
| `schedules_delete` | no faults | `DeletedStaysDeleted` is **violated**: the tick writes its copy back |
| `scenes` | two POSTs, two DELETEs, two failing saves, two failing calls, a restart | `AckedScenesSurvive`, `DeletedScenesStayDeleted`, `RejectedLeavesNothing`, `ScenesAreMirrored` |
| `lifecycle` | both modes; two tabs, two submits, a failing save; two clients, a failing server, a signal; two restarts, an unreadable `cert.pem`, a new interface | `DoneMeansPersisted`, `OnlyVerifiedIsPersisted`, `ChosenPasswordIsPersisted`, `SetupEnds`; `IdentityStable`, `SerialIsBridgeID`, `AdvertsWithdrawn`, `CutOffOnlyAfterGrace`, `ShutdownEnds` |
| `versions` | three releases, two POST /updater, with and without pins | `PairBelongsTogether`, `AdvertisedVersionAgrees`, `FreshOrRetrying`, `NeverOlder` |
| `pairing` | three apps, failing saves, restarts | `PairedAppsStayPaired`, `AcceptedInWindow` |
| `clip` | two lights with two brightnesses, a group, two requests of any kind, six bodies, a failing call, a switch | `ReportsWereTrue`, `OnlyExposedAreCommanded`, `EchoIsTrue` |

A violated run states what a comment or a test of the repository says; the
finding in `PROJECT.json` quotes it and names the line that disagrees.

### Conditions

Some properties hold only while something does not happen. The condition is
then part of the property, over the counters of faults in the same model, so
that the run still explores the fault and the reader sees where the guarantee
ends:

| Property | Ends with | Because |
|---|---|---|
| `RestartTransparent` | a save that failed last | memory keeps the change; the id is served, and given to another entity after a restart |
| `NoPhantomMembers` | a page older than a removal | `AddGroup` does not look at the entries |
| `OnlyExposedAreCommanded` | a group made on a page older than a removal | its phantom member is commanded with it |
| `AttributesNeverTurnOn` | anything else that changes lights | `SetState` looks, then acts |
| `AtMostOncePerMinute` | a clock set back, together with a restart or by a whole day | `lastFiredDay` is not saved, and it remembers the last minute only |
| `FiresEveryDay` | a restart, a clock set back; a minute without a tick, for that minute; calls for other schedules that take all the time of the tick, two of them if Home Assistant hangs and they set brightness only | the first tick is a minute away, missed minutes are not made up; all calls of a tick share 30 s (main.go:442) |
| `IdsNotHandedOutAgain` | an unreadable `schedules.json` | it is taken for an empty one |
| `RejectedLeavesNothing` | a failed save | it is not rolled back |
| `ScenesAreMirrored` | a failed save, a restart | the scene is saved before it is mirrored |
| `ChosenPasswordIsPersisted` | a password chosen while the other form is served | that form brings the password of its own time |
| `NeverOlder` | a POST /updater; a release that Signify withdraws, which the model leaves out (`listed` only grows) | nothing orders the answers of two refreshes; the newest that is listed is applied, whatever is served |
| `AdvertisedVersionAgrees` | the first fetch that is applied, if `api` is not pinned | SSDP keeps the apiversion it was started with (main.go:365) |
| `EchoIsTrue` | a brightness that no `uint8` holds; a value of the wrong type; `hue`, `sat` and `transitiontime`; `"on": true` with a brightness of 0 | the answer repeats what was asked for, whatever it was converted to and whether it was read; brightness 0 turns the light off |
| `IdentityStable` | a `cert.pem` that is there and cannot be read | any error of loading it counts as a missing file |
| `SerialIsBridgeID` | an interface that changed since `cert.pem` was made | a stored certificate is used for any bridge id |

Two more things the code does are in the models and in no property: the backoff
of `cache.Run` passes its 30 s cap once (cache.go:77), and the bridge may run
with a configuration older than `standalone.json`, if a form outlasts the
wizard's shutdown (main.go:190).

Three of these conditions stand for what the repository says without one: a tick
"fires every schedule due at now" (schedules.go:189), but with no time left it
sends nothing and marks the schedule as fired all the same; SSDP's header "agrees
with the CLIP API" (config.go:76-79), but only until the first fetch; the answer
of a PUT reports a success for what was never applied (lights.go:121-127).

`CurrentWhenSettled` fails in three more ways when requests run, which its run
does not show: a `GetState` whose answer an event has overtaken (cache.go:94), and
a `SetState` whose patch comes after a newer event or after a call that did
nothing (cache.go:106). In each the light stays wrong in the snapshot until it
changes once more; the theorem `Current` says that there is no other way.

### Bounds

Two of a kind are what the hazards need: one actor between two steps of
another, two entities or scenes to mix up. Where three matter there are three:
three callers of one lock (one inside, one that waits, one that overtakes), and
three releases so that "older" is not just "first". Ids go up to one or two more
than there are entities, so that one can be freed and another given. Each
failure can happen once or twice (a first failure and one in its repair), and
each process restarts once or more; twice in Lifecycle, so that a start after a
killed start is followed by one more. There the ten seconds of the shutdown are
one unit of time (`Grace`), which is enough for each of the three servers to be
the one that uses them up, and `AfterWizard` keeps an installation whose wizard
was used from also running the bridge: what the two parts share is the
configuration file, which the bridge does not write. Schedules' days have two minutes, and the
clock runs through two of them, so that a schedule comes due again, and can be
set back by a whole day; a tick has two units of time and a request takes one,
so that one schedule's call can leave none for the other; the
pairing window has two seconds out of four; the version cache two hours out of
five. `ChanCap` is 1 instead of 64: what matters is that the reader finds the
channel full. Symmetry is used for ids and goroutines that no definition tells
apart, and in no run that checks liveness.

`CHECK_DEADLOCK FALSE` is set where a run ends by design: every goroutine of the
instance has served its request, the clock has reached its bound, or main has
left the part of its life that is modelled. The runs of JSONFile, Registry
and Pairing check for deadlock.

### Fairness

* JSONFile: a caller that can go on does so (`WF(Proceed)`), and a waiter gets
  the lock if it is free again and again (`SF(Lock)`): Go's mutex switches to
  its starvation mode after a millisecond.
* StateCache: goroutines run; of repeated subscriptions one succeeds
  (`SF(SubscribeOk)`), that is, Home Assistant is not unreachable for ever.
  Nothing is assumed of the changes it makes or the connections it drops.
* Schedules: the ticker runs, since a tick has a limit of 30 s and a request one
  of 10 s, and the clock goes on.
* Lifecycle: main and the wizard's handlers run, since `verifyHA` has a limit of
  10 s, and the context of a shutdown expires (`WF(Pass)`). Nothing is assumed of
  a client that is sending its form, of a request to the bridge, which may last
  for ever, or of signals.

## 4. Proofs

TLAPS checks these for every value of the constants that the `ASSUME` of the
module admits. The assumptions say that bounds are naturals, that marks such as
`NoFile` are not documents, certificates or passwords, that versions are
numbers, and for the registry what a first file may be.

* **JSONFileProofs** — `AlwaysWhole`, `RenamesOwnDocument`, `Refinement`,
  `TypeCorrect`. The argument is the lock: only its holder is between lock and
  unlock, so the temporary file holds what the holder wrote, and the rename
  installs a whole document. A step of JSONFile is the abstract `Install` when
  it renames, `Fetch` when it reads, and a stutter otherwise. `NobodyStranded`:
  the lock is never left taken, the half of `CallsReturn` that needs no fairness.
* **RegistryProofs** — `AlwaysUniqueIds`, `NeverReused`, `Restartable`,
  `PhantomsNeedStalePages`, `TypeCorrect`. `UniqueIds` is not inductive,
  since a restart takes the file:
  the invariant adds that the counters of the file, once healed, are above all
  ids that ever reached it (`CountersAbove`). The lemmas on `Max` say what the
  self-heal computes. That no step makes a phantom member is an action property:
  it follows step by step, a restart by `RestartTransparent`. `RefinesBook`
  maps what is served to memory's entries, what is saved to what a restart would
  make of the file, and the book to `durable`; that the id of an `Add` is new to
  the book is `CountersAbove`. `SavedSurvive` is `AckedEntriesSurvive` with the
  one condition it lacks.
* **StateCacheProofs** — `Coherence`, `RefinesFeed`, `LeftOff`, `Current`,
  `Backoff`, `CacheTypes`. The channel and the wire behind it are one sequence,
  `Pending`: the reader moves an event from one half to the other and changes
  nothing, Home Assistant appends, `Run` takes the head, a lost connection cuts
  the end. Lemmas on sequences say what each does to the last event about a light
  (`AppendTells`, `TailTells`, `PrefixTells`). A new subscription starts with both
  halves empty because `Run` has drained the channel and the reader the wire
  (`Conn`), so it throws nothing away. `LeftOff` needs that only a call that
  looked posts an attribute (`Looked`). `Current` is what holds in place of
  `CurrentWhenSettled`: at rest the snapshot is right about every light whose last
  change was announced and whose entry no request has overwritten. `Backoff`: the
  delay is the first one, or below twice the maximum.
* **ScenesProofs** — `AckedSurvive`, `DeletedStay`, `RejectedGone`,
  `MirroredWhenQuiet`, `TypeCorrect`. What has to
  be known is the scene of each POST in progress: it is nobody else's, nobody
  was told its id, and until it is rolled back it is in memory and on disk
  unless a DELETE has come for it. Without it a rollback could remove an
  acknowledged scene. For `RejectedGone` file and memory agree while saves work
  (`FilesAgree`); for `MirroredWhenQuiet` a scene that Home Assistant does not
  have is in the hands of its POST, before its mirror or in its rollback, or of a
  DELETE that has told Home Assistant and not yet the store (`Mirrored`).
* **ClipProofs** — `Reports`, `Exposed`, `Echo`. The invariant says of each
  kind of request what it has collected so far: every state in an answer is one
  that the light had in `during`, what is still to do was asked for, and what was
  asked for was registered during the request. `Exposed` needs besides that a
  group has registered members as long as every page was fresh
  (`NoPhantoms`). `Echo` follows from what `Becomes` makes of a light for each
  body (`SetStateLight`). A GET of a group is two calls per member, so the proof keeps
  what the first of them saw apart from what is true at the second.
* **SchedulesProofs** — `NeverHandedOutAgain`, `OncePerMinute`, `EveryDay`,
  `Returns`, `TypeCorrect`. A tick works on a copy, so each part of the invariant speaks of
  three places: memory, the copy, and the entry that is about to be written
  back. `Numbers`: all ids are below the next one, in memory and in what a restart
  would read. `SameTimes`: between restarts a schedule has one time wherever
  it is. `LastFirings` and `Forward`: `lastFired` is the latest firing, and what
  a tick has left has not fired in its minute; two firings of one schedule are
  a day apart (`DayApart`), for which the clock must not have been a whole day
  behind the latest minute it showed (`Clock`). `Firings`: what the ticker has
  passed has fired. `Calls`: what has fired was sent, or its minute's tick has used
  up its time on the calls that were sent in it, each of which took two requests
  at most; with `Firings` that is `EveryDay`.
  `Returns`: a deleted schedule comes back only from the copy of a tick that is
  writing back, which is the way in which `DeletedStaysDeleted` fails, and the only
  one.
* **LifecycleProofs** — `ImplementsSetup` shows that the process with its bridge
  refines Setup, so Setup's invariant `SInv` holds of all of it: until the
  wizard is done its configuration is in the file or on its way there
  (`DonePersisted`, `VerifiedPersisted`, `ChosenPersisted`). For the bridge,
  `Identity` says that what is served is what is in `cert.pem`, and that what a
  client was shown still is there unless a read failed; from it `StableIdentity`
  and `SerialAgrees`. `Shutdowns` says how far each server is at each stage of
  `main`: one whose `Shutdown` has returned accepts nothing and has no request
  left, or the time is over (`Drained`); from it `GraceIsGiven`. `Goodbye`,
  `LifecycleTypes`.
* **ConfigProofs** — of Pairing: `PairedStay` from "the file is never ahead of
  memory", and `WindowDecides`, an action property, from the fact that the
  deadline is the time of the last opening plus the window. Of Versions:
  `Together`, `Advertised`, `Fresh`, `Forward`. An answer
  is stamped and applied within its hour, so unless one is about to be applied,
  `lastFetch` is the age of what is served (`Ages`). `Forward` assumes that the
  built-in version is no newer than what Signify lists, which every release of
  huebridge has to see to; its invariant is that Run's answer is from the list,
  and no older than what is served, as long as no other refresh has begun.

Only model-checked: liveness (`CallsReturn`, `Resubscribes`, `TicksEnd`,
`SetupEnds`, `ShutdownEnds`), which rests on fairness and ENABLED. Every other
property of a passing run is a theorem.
Type invariants are proved and, but for Lifecycle's, left out of the runs: they are
there for the proofs and the reader, and every property of a run fails if a
state is ill-typed where it matters.

## 5. What is not modelled

* **Names, colours, payloads, pages**: the properties do not tell them apart.
  A light's PUT and HA's states treat `xy` and `ct` as `bri`, and `ct` has the
  same unchecked conversion (lights.go:112); a schedule's `bri` too
  (schedules.go:214).
* **Power failure**: `Save` does not sync (jsonfile.go:65). A process that dies
  is modelled, a disk that forgets is not.
* **A silent peer**: the WebSocket has no deadline (websocket.go:34), so a Home
  Assistant that neither answers nor hangs up stops the event loop; StateCache
  assumes that it does one or the other.
* **Unreadable files** other than schedules.json, standalone.json and cert.pem.
* **Home Assistant's inside**: a call takes effect in one step, at the latest
  when its time limit is reached.
* **A clock that is set forward far**: minutes are skipped one at a time.
* **What is advertised and how, logging, supervisor and environment, the search
  for Home Assistant on the wizard's page**: no state that interleaves.

Liveness stays with TLC: the provers do not reach ENABLED and fairness. What a
recursive definition computes for every input is out of their reach as well; the
modules have none.

## 6. Order of the work, and what is left

JSONFile with its abstract document and proofs; Registry and its proofs;
StateCache; Schedules; Scenes with proofs; Setup; Versions; Pairing with proofs;
Clip; then Lifecycle over Setup, brightness and echo in Clip, SSDP in Versions,
minutes without a tick in Schedules, and the proofs of Clip, Schedules, Lifecycle
with Setup, and Versions.

Then the proofs of StateCache and of the last two invariants of Scenes, IdBook
and EventFeed with the proofs that Registry and StateCache implement them, and
for each violated run a theorem that says what does hold (`SavedSurvive`,
`Current`, `Returns`).

Left: a peer that stays silent; the way in which a bridge's running
configuration may differ from its file, as a property.
