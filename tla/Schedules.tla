----------------------------- MODULE Schedules -----------------------------
(***************************************************************************)
(* Schedules (internal/hue/schedules.go): the store that the Hue app's     *)
(* requests edit, and the ticker goroutine that once a minute fires the    *)
(* schedules that are due (runTicker, cmd/huebridge/main.go).  All there   *)
(* is in v1 is "every day, at this wall-clock time".                       *)
(*                                                                         *)
(* A tick works on copies: it takes a snapshot of the store, and for each  *)
(* schedule that is due calls the backend and then writes its copy back.   *)
(* Requests run in between.  All the calls of a tick share one context; a  *)
(* call made after its time is up fails without being sent.  A save is one *)
(* step, as JSONFile's theorem Refinement justifies, and may fail.  The    *)
(* clock counts minutes of the wall clock; days have DayLength of them.    *)
(*                                                                         *)
(* Left out: names, addresses, bodies, and the status, which no request    *)
(* changes from "enabled".                                                 *)
(***************************************************************************)
EXTENDS Naturals, FiniteSetsExt

CONSTANTS
    DayLength,        \* minutes in a day
    Never,            \* lastFiredDay of a schedule that has not fired
    NoSchedule,       \* there is no schedule with this id
    NoFile,           \* there is no schedules.json
    Unreadable,       \* schedules.json cannot be read or decoded
    FirstFiles,       \* contents schedules.json may have at the first start
    MaxId,            \* bound: no id above this is assigned
    MaxMinute,        \* bound: the clock stops here
    TickTimeout,      \* how long the context of a tick lasts (30 s)
    CallTimeout,      \* how long a request to Home Assistant may take (10 s)
    MaxClockBacks,    \* bound: minutes by which the clock is set back in all
    MaxFaults         \* bound: failed saves, restarts, unreadable files, and
                      \* minutes set back or without a tick, taken together

Ids == 1..MaxId
Minutes == 0..MaxMinute
Times == 0..DayLength - 1

\* scheduleFile: at[id] is the localtime of schedule id.
ScheduleFile == [nextID : Nat, at : [Ids -> Times \cup {NoSchedule}]]
Existing(at) == {id \in Ids : at[id] # NoSchedule}

ASSUME SchedulesAssumption ==
    /\ DayLength \in Nat \ {0}
    /\ {MaxId, MaxMinute, MaxClockBacks, MaxFaults} \subseteq Nat
    /\ TickTimeout \in Nat \ {0} /\ CallTimeout \in Nat
    /\ Never \notin Nat
    /\ NoSchedule \notin Nat
    /\ FirstFiles \subseteq ScheduleFile \cup {NoFile, Unreadable}
    /\ NoFile \notin ScheduleFile /\ Unreadable \notin ScheduleFile

VARIABLES
    mem,        \* ScheduleStore.state
    lastFired,  \* lastFiredDay of each schedule: not exported, so not saved
    disk,       \* schedules.json
    tick,       \* the ticker goroutine
    now,        \* the wall clock
    tickDue,    \* runTicker's time.Ticker has yet to fire in this minute
    skipped,    \* minutes of the wall clock in which time.Ticker did not fire
    clockBacks, failures, restarts, spoilt,
    \* Bookkeeping that the code does not have:
    fired,      \* the pairs <<id, minute>> that a tick has fired, as it believes
    sent,       \* those of them whose call was made before the tick's time was up
    expired,    \* the minutes whose tick had its time used up
    furthest,   \* the latest minute that the clock has shown
    dayBack,    \* the clock has been a whole day behind it
    born,       \* born[id]: the minute schedule id was created or first loaded
    acked       \* the ids that a POST answered with

store == <<mem, lastFired, disk>>
clock == <<now, tickDue, skipped, clockBacks, furthest, dayBack>>
faults == <<failures, restarts, spoilt>>
history == <<fired, sent, expired, born, acked>>
vars == <<store, tick, clock, faults, history>>

MoreFaults == failures + restarts + spoilt + clockBacks + Cardinality(skipped) < MaxFaults

Empty == [id \in Ids |-> NoSchedule]

\* Seeded bug: the counter is derived from the schedules that are left.
NewScheduleStoreCounting(file) ==
    IF file \in {NoFile, Unreadable} THEN [nextID |-> 1, at |-> Empty]
    ELSE [file EXCEPT !.nextID = Max({0} \cup Existing(file.at)) + 1]

\* NewScheduleStore: the error of Load is ignored, so a file that cannot be
\* read counts as one that is not there; then NextID is healed.
NewScheduleStore(file) ==
    IF file \in {NoFile, Unreadable} THEN [nextID |-> 1, at |-> Empty]
    ELSE LET maxID == Max({0} \cup Existing(file.at))
         IN  [file EXCEPT !.nextID = IF @ <= maxID THEN maxID + 1 ELSE @]

Idle == [pc |-> "idle"]

Init == /\ disk \in FirstFiles
        /\ mem = NewScheduleStore(disk)
        /\ lastFired = [id \in Ids |-> Never]
        /\ tick = Idle
        /\ now = 0 /\ tickDue = FALSE /\ clockBacks = 0 /\ skipped = {}
        /\ failures = 0 /\ restarts = 0 /\ spoilt = 0
        /\ fired = {} /\ sent = {} /\ expired = {} /\ acked = {}
        /\ furthest = 0 /\ dayBack = FALSE
        /\ born = [id \in Ids |-> IF id \in Existing(mem.at) THEN 0 ELSE Never]

\* s.file.Save: memory has already changed.
SaveOk(state) == disk' = state /\ UNCHANGED failures
SaveError == /\ MoreFaults
             /\ failures' = failures + 1
             /\ UNCHANGED disk

-----------------------------------------------------------------------------
(* Requests.                                                               *)

\* POST /schedules: Create.  If the save fails the app gets an error, but
\* the schedule is in memory and will fire.
Create(t) ==
    /\ mem.nextID <= MaxId
    /\ LET id == mem.nextID
       IN  /\ mem' = [mem EXCEPT !.nextID = id + 1, !.at[id] = t]
           /\ lastFired' = [lastFired EXCEPT ![id] = Never]
           /\ born' = [born EXCEPT ![id] = now]
           /\ \/ SaveOk(mem') /\ acked' = acked \cup {id}
              \/ SaveError /\ UNCHANGED acked
    /\ UNCHANGED <<tick, clock, restarts, spoilt, fired, sent, expired>>

\* DELETE /schedules/{id}: the handler ignores Delete's error.
Delete(id) ==
    /\ id \in Existing(mem.at)
    /\ mem' = [mem EXCEPT !.at[id] = NoSchedule]
    /\ SaveOk(mem') \/ SaveError
    /\ UNCHANGED <<lastFired, tick, clock, restarts, spoilt, history>>

-----------------------------------------------------------------------------
(* The ticker goroutine.                                                   *)

\* Seeded bug: what has already fired in this minute is due again.
DueAgain(at, last) == {id \in Existing(at) : at[id] = now % DayLength}

\* The schedules of the snapshot that pass Tick's three tests.
Due(at, last) == {id \in Existing(at) : last[id] # now /\ at[id] = now % DayLength}

\* <-t.C, a new context, and store.All(): the loop works on what it sees now.
TickStart == /\ tick.pc = "idle" /\ tickDue
             /\ tickDue' = FALSE
             /\ tick' = [pc |-> "loop", today |-> now, at |-> mem.at,
                         left |-> Due(mem.at, lastFired), spent |-> 0]
             /\ UNCHANGED <<store, now, skipped, clockBacks, furthest, dayBack, faults, history>>

\* be.SetState of schedule id, with the tick's context.  A body that sets only
\* a brightness takes two requests, the first to see whether the light is on.
\* The context ends the last of them when its time is up; from then on a call
\* returns at once and nothing is sent.
SetState(id, spent) ==
    \/ /\ tick.spent < TickTimeout
       /\ spent \in tick.spent..(tick.spent + 2 * CallTimeout)
       /\ sent' = sent \cup {<<id, tick.today>>}
       /\ expired' = IF spent = TickTimeout THEN expired \cup {tick.today} ELSE expired
    \/ /\ tick.spent = TickTimeout /\ spent = TickTimeout
       /\ UNCHANGED <<sent, expired>>

\* Seeded bug: a schedule whose call fails is tried again in the same tick.
TickFireRetries(id) ==
    /\ tick.pc = "loop" /\ id \in tick.left
    /\ fired' = fired \cup {<<id, tick.today>>}
    /\ \E spent \in 0..TickTimeout, left \in {tick.left, tick.left \ {id}} :
         /\ SetState(id, spent)
         /\ tick' = [pc |-> "store", today |-> tick.today, at |-> tick.at,
                     left |-> left, spent |-> spent, current |-> id]
    /\ UNCHANGED <<store, clock, faults, born, acked>>

\* One schedule of those that are left, in the map's order, which is any order.
\* An address that resolves to no light is no different: there is no call to
\* make, and the schedule counts as fired.
TickFire(id) ==
    /\ tick.pc = "loop" /\ id \in tick.left
    /\ fired' = fired \cup {<<id, tick.today>>}
    /\ \E spent \in 0..TickTimeout :
         /\ SetState(id, spent)
         /\ tick' = [pc |-> "store", today |-> tick.today, at |-> tick.at,
                     left |-> tick.left \ {id}, spent |-> spent, current |-> id]
    /\ UNCHANGED <<store, clock, faults, born, acked>>

\* Seeded bug: an error of the backend ends the tick.
TickStoreOrAbort ==
    /\ tick.pc = "store"
    /\ mem' = [mem EXCEPT !.at[tick.current] = tick.at[tick.current]]
    /\ lastFired' = [lastFired EXCEPT ![tick.current] = tick.today]
    /\ \E left \in {tick.left, {}} :
         tick' = [pc |-> "loop", today |-> tick.today, at |-> tick.at, left |-> left,
                  spent |-> tick.spent]
    /\ UNCHANGED <<disk, clock, faults, history>>

\* Whether the backend answered, failed, timed out or was not asked, the copy is
\* written back, with lastFiredDay set, wherever the schedule is by now.
TickStore == /\ tick.pc = "store"
             /\ mem' = [mem EXCEPT !.at[tick.current] = tick.at[tick.current]]
             /\ lastFired' = [lastFired EXCEPT ![tick.current] = tick.today]
             /\ tick' = [pc |-> "loop", today |-> tick.today, at |-> tick.at,
                         left |-> tick.left, spent |-> tick.spent]
             /\ UNCHANGED <<disk, clock, faults, history>>

TickEnd == /\ tick.pc = "loop" /\ tick.left = {}
           /\ tick' = Idle
           /\ UNCHANGED <<store, clock, faults, history>>

-----------------------------------------------------------------------------
(* The clock, and what goes wrong.                                         *)

Later(m) == IF m > furthest THEN m ELSE furthest

\* The Go ticker fires once in each minute; a tick, bounded by TickTimeout,
\* is over before the next.
NextMinute == /\ now < MaxMinute /\ ~tickDue
              /\ now' = now + 1
              /\ tickDue' = TRUE
              /\ furthest' = Later(now')
              /\ UNCHANGED <<store, tick, skipped, clockBacks, dayBack, faults, history>>

\* A minute goes by between two of the ticker's: the wall clock is set
\* forward, by hand or for the summer, or it is adjusted and the ticker, whose
\* minutes are monotonic, falls just before it and just after it.
SkipMinute == /\ now < MaxMinute /\ ~tickDue /\ MoreFaults
              /\ now' = now + 1
              /\ skipped' = skipped \cup {now'}
              /\ furthest' = Later(now')
              /\ UNCHANGED <<store, tick, tickDue, clockBacks, dayBack, faults, history>>

\* The wall clock is set back a minute; the ticker follows the monotonic
\* clock, so it may or may not fire in the rest of that minute.
ClockBack == /\ clockBacks < MaxClockBacks /\ MoreFaults /\ now > 0
             /\ clockBacks' = clockBacks + 1
             /\ now' = now - 1
             /\ tickDue' \in BOOLEAN
             /\ dayBack' = (dayBack \/ furthest - now' >= DayLength)
             /\ UNCHANGED <<store, tick, skipped, furthest, faults, history>>

\* The process restarts.  Its first tick is a minute away.
Restart == /\ MoreFaults
           /\ restarts' = restarts + 1
           /\ mem' = NewScheduleStore(disk)
           /\ lastFired' = [id \in Ids |-> Never]
           /\ tick' = Idle
           /\ tickDue' = FALSE
           /\ UNCHANGED <<disk, now, skipped, clockBacks, furthest, dayBack, failures, spoilt,
                          history>>

\* A hand edit leaves invalid JSON, or the medium fails (external).
Spoil == /\ MoreFaults /\ disk # Unreadable
         /\ spoilt' = spoilt + 1
         /\ disk' = Unreadable
         /\ UNCHANGED <<mem, lastFired, tick, clock, failures, restarts, history>>

Tick == TickStart \/ (\E id \in Ids : TickFire(id)) \/ TickStore \/ TickEnd

Next == \/ \E t \in Times : Create(t)
        \/ \E id \in Ids : Delete(id)
        \/ Tick
        \/ NextMinute \/ SkipMinute \/ ClockBack \/ Restart \/ Spoil

Spec == Init /\ [][Next]_vars

\* The ticker goroutine runs; every call it makes returns, because of CallTimeout
\* and TickTimeout, and the clock does not stop.
FairSpec == Spec /\ WF_vars(Tick) /\ WF_vars(NextMinute)

-----------------------------------------------------------------------------
(* Properties.                                                             *)

TickState == {Idle}
    \cup [pc : {"loop"}, today : Minutes, at : [Ids -> Times \cup {NoSchedule}],
          left : SUBSET Ids, spent : 0..TickTimeout]
    \cup [pc : {"store"}, today : Minutes, at : [Ids -> Times \cup {NoSchedule}],
          left : SUBSET Ids, spent : 0..TickTimeout, current : Ids]

TypeOK == /\ mem \in ScheduleFile /\ mem.nextID > 0
          /\ lastFired \in [Ids -> Minutes \cup {Never}]
          /\ disk \in ScheduleFile \cup {NoFile, Unreadable}
          /\ tick \in TickState
          /\ now \in Minutes /\ tickDue \in BOOLEAN /\ skipped \in SUBSET Minutes
          /\ clockBacks \in 0..MaxClockBacks
          /\ {failures, restarts, spoilt} \subseteq 0..MaxFaults
          /\ furthest \in Minutes /\ dayBack \in BOOLEAN
          /\ fired \in SUBSET (Ids \X Minutes) /\ sent \in SUBSET fired
          /\ expired \in SUBSET Minutes
          /\ born \in [Ids -> Minutes \cup {Never}]
          /\ acked \in SUBSET Ids

\* "avoids re-firing a recurring schedule more than once within the same
\* minute across repeated Tick calls" (schedules.go:26-28), also when the
\* store is edited while a tick is running, and when the clock is set back and
\* a minute passes twice or the process restarts in it.  Two things make it
\* fire again: a restart together with a clock set back, as lastFiredDay is not
\* saved, and a clock a whole day behind, as it keeps the last minute only.
AtMostOncePerMinute ==
    [][\A id \in Ids :
          TickFire(id) /\ (clockBacks = 0 \/ (restarts = 0 /\ ~dayBack))
          => <<id, tick.today>> \notin fired]_vars

\* "every day, at this wall-clock time" (schedules.go:78-80): for a schedule
\* that was there before a minute of its time began, and still is after the
\* tick of that minute, the backend was called in it, whatever the file and
\* the app did meanwhile.  The code does miss the minute that a restart happens
\* in, and one in which the ticker does not fire (main.go:435); and a schedule
\* for which the tick had no time left, because the calls for others took all
\* of it (main.go:442): there must be as many of those as that takes.
SentIn(m) == {id \in Ids : <<id, m>> \in sent}
TimeUp(m) == m \in expired /\ 2 * CallTimeout * Cardinality(SentIn(m)) >= TickTimeout
TickOver(m) == (m < now \/ ~tickDue) /\ ~(tick.pc # "idle" /\ tick.today = m)
FiresEveryDay ==
    restarts = 0 /\ clockBacks = 0 =>
        \A id \in Existing(mem.at), m \in Minutes \ skipped :
            born[id] \in Nat /\ born[id] < m /\ m <= now /\ m % DayLength = mem.at[id]
            /\ TickOver(m) => <<id, m>> \in sent \/ TimeUp(m)

\* The id that the next POST will answer with is none that a schedule has or
\* that the app has been given before (schedules.go:49-52), although files
\* are edited, schedules are deleted, saves fail and the process restarts.
\* Only a file that cannot be read makes the ids begin at 1 again.
IdsNotHandedOutAgain ==
    spoilt = 0 => \A id \in acked \cup Existing(mem.at) : id < mem.nextID

\* A schedule that was deleted is gone: while the process runs, the only
\* schedule that ever appears is one that POST creates, with a new id.  The
\* handlers and the ticker share one store so that they do not "silently
\* overwrite each other" (main.go:264-267).
DeletedStaysDeleted ==
    [][restarts' = restarts =>
          \A id \in Existing(mem'.at) \ Existing(mem.at) : id >= mem.nextID]_vars

\* No tick goes on for ever, however the store changes under it.
TicksEnd == tick.pc # "idle" ~> tick.pc = "idle"
=============================================================================
