-------------------------- MODULE SchedulesProofs --------------------------
(***************************************************************************)
(* Proofs about Schedules, for days of any length, any number of           *)
(* schedules and faults, and any clock.                                    *)
(***************************************************************************)
EXTENDS Schedules, Integers, FiniteSetTheorems, WellFoundedInduction, TLAPS

Running == tick.pc # "idle"

Healed(state) == state.nextID > 0 /\ \A id \in Existing(state.at) : id < state.nextID

Fired(id, m) == <<id, m>> \in fired

\* What is in progress has been handed out before.
Numbers ==
    /\ Healed(mem)
    /\ Running => /\ tick.left \subseteq Existing(tick.at)
                  /\ \A id \in Existing(tick.at) : id < mem.nextID
    /\ tick.pc = "store" => tick.current \in Existing(tick.at)
    /\ spoilt = 0 => \A id \in acked : id < mem.nextID /\ id < NewScheduleStore(disk).nextID
    /\ restarts = 0 => \A id \in Ids, m \in Minutes : Fired(id, m) => id < mem.nextID

\* The schedules of at are fired in minutes of their time.
OnTime(at) == \A id \in Existing(at), m \in Minutes : Fired(id, m) => at[id] = m % DayLength

\* Between restarts a schedule has one time, in whichever copy it is.
SameTimes ==
    restarts = 0 =>
        /\ OnTime(mem.at)
        /\ Running => /\ OnTime(tick.at)
                      /\ \A id \in Existing(mem.at) \cap Existing(tick.at) : mem.at[id] = tick.at[id]
                      /\ \A id \in tick.left : tick.at[id] = tick.today % DayLength
        /\ tick.pc = "store" => tick.at[tick.current] = tick.today % DayLength

\* The clock is never ahead of the latest minute it has shown.
Clock == /\ now <= furthest
         /\ ~dayBack => furthest < now + DayLength
         /\ clockBacks = 0 => ~dayBack

\* Between restarts lastFired is the latest minute that a schedule fired in,
\* and a tick fires what has not fired in its minute or after it, as long as the
\* clock is not set back by a day.
LastFirings ==
    restarts = 0 /\ ~dayBack =>
        /\ \A id \in Ids : lastFired[id] # Never => Fired(id, lastFired[id])
        /\ \A id \in Ids, m \in Minutes : Fired(id, m) =>
              /\ m <= furthest
              /\ (tick.pc = "store" /\ tick.current = id)
                 \/ (lastFired[id] # Never /\ m <= lastFired[id])
        /\ Running => /\ tick.today <= furthest
                      /\ \A id \in tick.left, m \in Minutes : Fired(id, m) => m < tick.today
        /\ tick.pc = "store" => /\ Fired(tick.current, tick.today)
                                /\ tick.current \notin tick.left
                                /\ \A m \in Minutes : Fired(tick.current, m) => m <= tick.today

\* As long as the clock goes forward, a tick that is due is the first of its
\* minute.
Forward ==
    clockBacks = 0 =>
        /\ \A id \in Ids, m \in Minutes : Fired(id, m) => m <= now /\ (tickDue => m < now)
        /\ Running => /\ tick.today <= now /\ (tickDue => tick.today < now)
                      /\ \A id \in tick.left : ~Fired(id, tick.today)
        /\ tick.pc = "store" => tick.current \notin tick.left

\* What at holds has been fired in every minute of its time, is being fired, or
\* will be by the tick that is due.
AllFired(at) ==
    \A id \in Existing(at), m \in Minutes \ skipped :
        born[id] \in Nat /\ born[id] < m /\ m <= now /\ m % DayLength = at[id] =>
            \/ m = now /\ tickDue
            \/ Running /\ tick.today = m /\ id \in tick.left
            \/ Fired(id, m)

Firings == restarts = 0 /\ clockBacks = 0 => AllFired(mem.at) /\ (Running => AllFired(tick.at))

\* What the tick has left of its time, and that each call for a schedule took
\* its share of it.
Used(m) == 2 * CallTimeout * Cardinality(SentIn(m))
Calls ==
    restarts = 0 /\ clockBacks = 0 =>
        /\ Running => /\ tick.spent <= Used(tick.today)
                      /\ tick.spent = TickTimeout => tick.today \in expired
        /\ \A id \in Ids, m \in Minutes : Fired(id, m) => <<id, m>> \in sent \/ TimeUp(m)

IInv == TypeOK /\ Numbers /\ SameTimes /\ Clock /\ LastFirings /\ Forward /\ Firings /\ Calls

-----------------------------------------------------------------------------
(* Arithmetic.                                                             *)

\* Two minutes of one time of day are the same, or a day apart.
LEMMA DayApart ==
  ASSUME NEW d \in Nat \ {0}, NEW a \in Nat, NEW b \in Nat, a % d = b % d, a < b + d
  PROVE  a <= b
<1> SUFFICES ASSUME b < a PROVE FALSE
  OBVIOUS
<1>1. /\ a = d * (a \div d) + (a % d) /\ b = d * (b \div d) + (b % d)
      /\ a \div d \in Int /\ b \div d \in Int /\ a % d \in Int
  OBVIOUS
<1>2. \A q, p, r \in Int : a = d * q + r /\ b = d * p + r => FALSE
  <2> SUFFICES ASSUME NEW q \in Int, NEW p \in Int, NEW r \in Int,
                      a = d * q + r, b = d * p + r
               PROVE  FALSE
    OBVIOUS
  <2>1. CASE q <= p
    <3>1. d * q <= d * p
      BY <2>1
    <3> QED
      BY <3>1
  <2>2. CASE q >= p + 1
    <3>1. d * q >= d * (p + 1)
      BY <2>2
    <3>2. d * (p + 1) = d * p + d
      OBVIOUS
    <3> QED
      BY <3>1, <3>2
  <2> QED
    BY <2>1, <2>2
<1> QED
  BY <1>1, <1>2

\* A set of naturals below a bound has a maximum: the least of its upper
\* bounds is in it.
LEMMA Maximum ==
  ASSUME NEW S \in SUBSET Ids
  PROVE  /\ Max({0} \cup S) \in {0} \cup S /\ Max({0} \cup S) \in 0..MaxId
         /\ \A x \in S : x <= Max({0} \cup S)
<1> DEFINE T == {0} \cup S
           Above == {u \in Nat : \A x \in T : x <= u}
<1>1. MaxId \in Nat /\ T \subseteq 0..MaxId
  BY SchedulesAssumption DEF Ids
<1>2. Above \subseteq Nat /\ MaxId \in Above
  BY <1>1
<1>3. \E u \in Above : \A v \in Above : <<v, u>> \notin OpToRel(<, Nat)
  <2> HIDE DEF Above
  <2> QED
    BY <1>2, NatLessThanWellFounded, WFMin
<1>4. PICK u \in Nat : /\ \A x \in T : x <= u
                       /\ \A v \in Nat : (\A x \in T : x <= v) => ~(v < u)
  BY <1>3 DEF OpToRel
<1>5. u \in T
  <2> SUFFICES ASSUME u \notin T PROVE FALSE
    OBVIOUS
  <2>1. u # 0 /\ u - 1 \in Nat /\ u - 1 < u
    OBVIOUS
  <2>2. \A x \in T : x <= u - 1
    BY <1>1, <1>4, <2>1
  <2> QED
    BY <1>4, <2>1, <2>2
<1>6. \A x \in T : u >= x
  BY <1>1, <1>4
<1>7. Max(T) \in T /\ \A x \in T : Max(T) >= x
  BY <1>5, <1>6 DEF Max
<1> HIDE DEF T
<1>8. Max(T) \in T /\ Max(T) \in 0..MaxId /\ \A x \in T : x <= Max(T)
  BY <1>1, <1>7
<1> QED
  BY <1>8 DEF T

\* NewScheduleStore gives every file a counter that no schedule has reached.
LEMMA Loading ==
  /\ \A file \in ScheduleFile \cup {NoFile, Unreadable} :
        NewScheduleStore(file) \in ScheduleFile /\ Healed(NewScheduleStore(file))
  /\ \A file \in ScheduleFile : Healed(file) => NewScheduleStore(file) = file
<1>1. ASSUME NEW file \in ScheduleFile
      PROVE  /\ NewScheduleStore(file) \in ScheduleFile /\ Healed(NewScheduleStore(file))
             /\ Healed(file) => NewScheduleStore(file) = file
  <2> DEFINE m == Max({0} \cup Existing(file.at))
  <2>1. file.nextID \in Nat /\ file.at \in [Ids -> Times \cup {NoSchedule}]
    BY DEF ScheduleFile
  <2>2. Existing(file.at) \in SUBSET Ids /\ MaxId \in Nat
    BY SchedulesAssumption DEF Existing
  <2>3. m \in 0..MaxId /\ \A x \in Existing(file.at) : x <= m
    BY <2>2, Maximum
  <2>4. NewScheduleStore(file) = [file EXCEPT !.nextID = IF @ <= m THEN m + 1 ELSE @]
    BY SchedulesAssumption DEF NewScheduleStore
  <2>5. m = 0 \/ m \in Existing(file.at)
    BY <2>2, Maximum
  <2> HIDE DEF m
  <2>6. Healed(NewScheduleStore(file)) /\ NewScheduleStore(file) \in ScheduleFile
    BY <2>1, <2>2, <2>3, <2>4 DEF Healed, ScheduleFile, Existing, Ids
  <2>7. ASSUME Healed(file)
        PROVE  NewScheduleStore(file) = file
    <3>1. m < file.nextID
      BY <2>1, <2>5, <2>7 DEF Healed
    <3>2. ~ (file.nextID <= m)
      BY <2>1, <2>3, <3>1
    <3> QED
      BY <2>1, <2>4, <3>2 DEF ScheduleFile
  <2> QED
    BY <2>6, <2>7
<1>2. ASSUME NEW file \in {NoFile, Unreadable}
      PROVE  NewScheduleStore(file) \in ScheduleFile /\ Healed(NewScheduleStore(file))
  BY SchedulesAssumption DEF NewScheduleStore, ScheduleFile, Healed, Existing, Empty
<1> QED
  BY <1>1, <1>2

-----------------------------------------------------------------------------
(* Types.                                                                  *)

\* What a tick has, wherever it is.
LEMMA TickKinds ==
  ASSUME TypeOK
  PROVE  /\ tick.pc \in {"idle", "loop", "store"}
         /\ tick.pc = "idle" => tick = Idle
         /\ Running => /\ tick.today \in Minutes /\ tick.left \in SUBSET Ids
                       /\ tick.spent \in 0..TickTimeout
                       /\ tick.at \in [Ids -> Times \cup {NoSchedule}]
         /\ tick.pc = "store" => tick.current \in Ids
BY DEF TypeOK, TickState, Idle, Running

LEMMA FaultsAreBounded ==
  ASSUME TypeOK, MoreFaults
  PROVE  /\ failures + 1 \in 0..MaxFaults /\ restarts + 1 \in 0..MaxFaults
         /\ spoilt + 1 \in 0..MaxFaults
<1>1. MaxMinute \in Int /\ MaxFaults \in Nat /\ MaxClockBacks \in Nat
  BY SchedulesAssumption
<1>2. IsFiniteSet(skipped)
  <2>1. IsFiniteSet(0..MaxMinute)
    BY <1>1, FS_Interval
  <2> QED
    BY <2>1, FS_Subset DEF TypeOK, Minutes
<1>3. Cardinality(skipped) \in Nat
  BY <1>2, FS_CardinalityType
<1> QED
  BY <1>1, <1>3 DEF TypeOK, MoreFaults

LEMMA TypeInit == Init => TypeOK
<1> SUFFICES ASSUME Init PROVE TypeOK
  OBVIOUS
<1>1. mem \in ScheduleFile /\ mem.nextID > 0
  BY Loading, SchedulesAssumption DEF Init, Healed
<1>2. MaxMinute \in Nat /\ MaxFaults \in Nat /\ MaxClockBacks \in Nat
  BY SchedulesAssumption
<1>3. lastFired \in [Ids -> Minutes \cup {Never}] /\ born \in [Ids -> Minutes \cup {Never}]
  BY <1>2 DEF Init, Minutes
<1>4. now \in Minutes /\ furthest \in Minutes /\ clockBacks \in 0..MaxClockBacks
      /\ {failures, restarts, spoilt} \subseteq 0..MaxFaults
  BY <1>2 DEF Init, Minutes
<1> QED
  BY <1>1, <1>3, <1>4, SchedulesAssumption DEF Init, TypeOK, TickState

LEMMA CreateTypes ==
  ASSUME TypeOK, NEW t \in Times, Create(t)
  PROVE  /\ mem.nextID \in Ids
         /\ mem'.nextID = mem.nextID + 1
         /\ mem'.at = [mem.at EXCEPT ![mem.nextID] = t]
         /\ TypeOK'
<1>1. mem.nextID \in Ids
  BY SchedulesAssumption DEF TypeOK, ScheduleFile, Create, Ids
<1>2. mem'.nextID = mem.nextID + 1 /\ mem'.at = [mem.at EXCEPT ![mem.nextID] = t]
  BY DEF Create, TypeOK, ScheduleFile
<1>3. mem' \in ScheduleFile /\ mem'.nextID > 0
  <2>1. [mem.at EXCEPT ![mem.nextID] = t] \in [Ids -> Times \cup {NoSchedule}]
    BY <1>1 DEF TypeOK, ScheduleFile
  <2>2. mem' = [nextID |-> mem.nextID + 1, at |-> [mem.at EXCEPT ![mem.nextID] = t]]
    BY DEF Create, TypeOK, ScheduleFile
  <2> QED
    BY <2>1, <2>2 DEF TypeOK, ScheduleFile
<1>4. failures' \in 0..MaxFaults
  BY FaultsAreBounded DEF Create, SaveOk, SaveError, TypeOK
<1>5. disk' \in ScheduleFile \cup {NoFile, Unreadable}
  BY <1>3 DEF Create, SaveOk, SaveError, TypeOK
<1>6. acked' \in SUBSET Ids
  BY <1>1 DEF Create, TypeOK
<1>7. /\ lastFired' \in [Ids -> Minutes \cup {Never}]
      /\ born' \in [Ids -> Minutes \cup {Never}]
  BY <1>1 DEF Create, TypeOK
<1> QED
  BY <1>1, <1>2, <1>3, <1>4, <1>5, <1>6, <1>7 DEF Create, clock, TypeOK

LEMMA DeleteTypes ==
  ASSUME TypeOK, NEW id \in Ids, Delete(id)
  PROVE  /\ mem'.nextID = mem.nextID
         /\ mem'.at = [mem.at EXCEPT ![id] = NoSchedule]
         /\ TypeOK'
<1>1. mem'.nextID = mem.nextID /\ mem'.at = [mem.at EXCEPT ![id] = NoSchedule]
  BY DEF Delete, TypeOK, ScheduleFile
<1>2. mem' \in ScheduleFile /\ mem'.nextID > 0
  BY DEF Delete, TypeOK, ScheduleFile
<1>3. failures' \in 0..MaxFaults
  BY FaultsAreBounded DEF Delete, SaveOk, SaveError, TypeOK
<1>4. disk' \in ScheduleFile \cup {NoFile, Unreadable}
  BY <1>2 DEF Delete, SaveOk, SaveError, TypeOK
<1> QED
  BY <1>1, <1>2, <1>3, <1>4 DEF Delete, clock, history, TypeOK

LEMMA TickTypes ==
  ASSUME TypeOK, Tick
  PROVE  TypeOK'
<1>1. CASE TickStart
  <2>1. tick' \in TickState
    BY <1>1, SchedulesAssumption DEF TickStart, TypeOK, TickState, ScheduleFile, Due, Existing
  <2> QED
    BY <1>1, <2>1 DEF TickStart, TypeOK, store, faults, history
<1>2. ASSUME NEW id \in Ids, TickFire(id)
      PROVE  TypeOK'
  <2>1. tick' \in TickState /\ fired' \in SUBSET (Ids \X Minutes)
    BY <1>2, TickKinds DEF TickFire, TypeOK, TickState, Running
  <2>2. sent' \in SUBSET fired' /\ expired' \in SUBSET Minutes
    BY <1>2, TickKinds DEF TickFire, SetState, TypeOK, Running
  <2> QED
    BY <1>2, <2>1, <2>2 DEF TickFire, TypeOK, store, clock, faults
<1>3. CASE TickStore
  <2>1. tick' \in TickState
    BY <1>3, TickKinds DEF TickStore, TickState, Running
  <2>2. mem' \in ScheduleFile /\ mem'.nextID > 0
    BY <1>3, TickKinds DEF TickStore, TypeOK, ScheduleFile, Running
  <2>3. lastFired' \in [Ids -> Minutes \cup {Never}]
    BY <1>3, TickKinds DEF TickStore, TypeOK, Running
  <2> QED
    BY <1>3, <2>1, <2>2, <2>3 DEF TickStore, TypeOK, clock, faults, history
<1>4. CASE TickEnd
  BY <1>4 DEF TickEnd, TypeOK, TickState, store, clock, faults, history
<1> QED
  BY <1>1, <1>2, <1>3, <1>4 DEF Tick

LEMMA ClockTypes ==
  ASSUME TypeOK, NextMinute \/ SkipMinute \/ ClockBack
  PROVE  TypeOK'
<1>1. /\ now' \in Minutes /\ skipped' \in SUBSET Minutes /\ clockBacks' \in 0..MaxClockBacks
      /\ furthest' \in Minutes
  <2>1. MaxMinute \in Nat /\ MaxClockBacks \in Nat /\ now \in 0..MaxMinute
        /\ clockBacks \in 0..MaxClockBacks /\ skipped \in SUBSET Minutes /\ furthest \in Minutes
    BY SchedulesAssumption DEF TypeOK, Minutes
  <2>2. CASE NextMinute
    BY <2>1, <2>2 DEF NextMinute, Minutes, Later
  <2>3. CASE SkipMinute
    BY <2>1, <2>3 DEF SkipMinute, Minutes, Later
  <2>4. CASE ClockBack
    BY <2>1, <2>4 DEF ClockBack, Minutes
  <2> QED
    BY <2>2, <2>3, <2>4
<1> QED
  BY <1>1 DEF NextMinute, SkipMinute, ClockBack, TypeOK, store, faults, history

LEMMA FaultTypes ==
  ASSUME TypeOK, Restart \/ Spoil
  PROVE  TypeOK'
<1>1. restarts' \in 0..MaxFaults /\ spoilt' \in 0..MaxFaults
  BY FaultsAreBounded DEF Restart, Spoil, TypeOK
<1>2. mem' \in ScheduleFile /\ mem'.nextID > 0
  BY Loading DEF Restart, Spoil, TypeOK, Healed
<1> QED
  BY <1>1, <1>2 DEF Restart, Spoil, TypeOK, TickState, clock, history

\* The type invariant of Schedules.
THEOREM TypeCorrect == Spec => []TypeOK
<1>1. TypeOK /\ [Next]_vars => TypeOK'
  <2>1. CASE UNCHANGED vars
    BY <2>1 DEF vars, store, clock, faults, history, TypeOK
  <2> QED
    BY <2>1, CreateTypes, DeleteTypes, TickTypes, ClockTypes, FaultTypes DEF Next
<1> QED
  BY TypeInit, <1>1, PTL DEF Spec

-----------------------------------------------------------------------------
(* The invariant, action by action.                                        *)

\* The time that calls for so many schedules take.
LEMMA Counted ==
  ASSUME NEW S \in SUBSET Ids
  PROVE  /\ IsFiniteSet(S) /\ Cardinality(S) \in Nat
         /\ CallTimeout \in Nat /\ 2 * CallTimeout * Cardinality(S) \in Nat
<1>1. CallTimeout \in Nat /\ MaxId \in Nat
  BY SchedulesAssumption
<1>2. IsFiniteSet(Ids)
  BY <1>1, FS_Interval DEF Ids
<1>3. IsFiniteSet(S)
  BY <1>2, FS_Subset
<1>4. Cardinality(S) \in Nat
  BY <1>3, FS_CardinalityType
<1>5. \A n, k \in Nat : 2 * k * n \in Nat
  OBVIOUS
<1> QED
  BY <1>1, <1>3, <1>4, <1>5

\* Calls are not taken back.
LEMMA CallsGrow ==
  ASSUME sent \subseteq sent', expired \subseteq expired', NEW m
  PROVE  Used(m) <= Used(m)' /\ (TimeUp(m) => TimeUp(m)')
<1>1. SentIn(m) \subseteq SentIn(m)' /\ SentIn(m)' \subseteq Ids
  BY DEF SentIn
<1>2. \A S, T \in SUBSET Ids : S \subseteq T =>
        2 * CallTimeout * Cardinality(S) <= 2 * CallTimeout * Cardinality(T)
  <2>1. \A a, b, k \in Nat : a <= b => 2 * k * a <= 2 * k * b
    OBVIOUS
  <2> SUFFICES ASSUME NEW S \in SUBSET Ids, NEW T \in SUBSET Ids, S \subseteq T
               PROVE  2 * CallTimeout * Cardinality(S) <= 2 * CallTimeout * Cardinality(T)
    OBVIOUS
  <2>2. Cardinality(S) <= Cardinality(T)
    BY Counted, FS_Subset
  <2> QED
    BY <2>1, <2>2, Counted
<1>3. 2 * CallTimeout * Cardinality(SentIn(m)) <= 2 * CallTimeout * Cardinality(SentIn(m)')
  BY <1>1, <1>2
<1>4. /\ 2 * CallTimeout * Cardinality(SentIn(m)) \in Nat
      /\ 2 * CallTimeout * Cardinality(SentIn(m)') \in Nat /\ TickTimeout \in Nat
  BY <1>1, Counted, SchedulesAssumption
<1> QED
  BY <1>3, <1>4 DEF Used, TimeUp

\* The call for one more schedule makes room for the time that it takes.
LEMMA OneMoreCall ==
  ASSUME NEW m, NEW c \in Ids, sent' = sent \cup {<<c, m>>}, <<c, m>> \notin sent
  PROVE  Used(m)' = Used(m) + 2 * CallTimeout
<1>1. SentIn(m)' = SentIn(m) \cup {c} /\ c \notin SentIn(m) /\ SentIn(m) \in SUBSET Ids
  BY DEF SentIn
<1>2. Cardinality(SentIn(m)') = Cardinality(SentIn(m)) + 1
  BY <1>1, Counted, FS_AddElement
<1>3. \A n, k \in Nat : 2 * k * (n + 1) = 2 * k * n + 2 * k
  OBVIOUS
<1>4. Cardinality(SentIn(m)) \in Nat /\ CallTimeout \in Nat
  BY <1>1, Counted
<1> QED
  BY <1>2, <1>3, <1>4 DEF Used

\* Only a tick makes calls.
LEMMA CallsKept ==
  ASSUME IInv, UNCHANGED <<tick, fired, sent, expired, restarts, clockBacks>>
  PROVE  Calls'
BY DEF IInv, Calls, Fired, Running, TimeUp, Used, SentIn

\* The counter of a store that was saved is the store's.
LEMMA SavedCounter ==
  ASSUME mem' \in ScheduleFile, Healed(mem)', disk' = mem'
  PROVE  NewScheduleStore(disk').nextID = mem'.nextID
<1>1. \A file \in ScheduleFile : Healed(file) => NewScheduleStore(file) = file
  BY Loading
<1>2. Healed(mem')
  OBVIOUS
<1> QED
  BY <1>1, <1>2

LEMMA CreateInv ==
  ASSUME IInv, NEW t \in Times, Create(t)
  PROVE  IInv'
<1>a. PICK new : new = mem.nextID
  OBVIOUS
<1>1. /\ new \in Ids /\ mem'.nextID = new + 1 /\ mem'.at = [mem.at EXCEPT ![new] = t]
      /\ TypeOK'
  BY <1>a, CreateTypes DEF IInv
<1>2. /\ UNCHANGED <<tick, now, tickDue, skipped, clockBacks, furthest, dayBack, restarts, spoilt,
                     fired, sent, expired>>
      /\ lastFired' = [lastFired EXCEPT ![new] = Never] /\ born' = [born EXCEPT ![new] = now]
  BY <1>a DEF Create, clock
<1>3. mem.at \in [Ids -> Times \cup {NoSchedule}] /\ t # NoSchedule /\ new \in Nat
  BY <1>a, SchedulesAssumption DEF IInv, TypeOK, ScheduleFile, Times
<1>4. /\ Existing(mem'.at) = Existing(mem.at) \cup {new}
      /\ \A id \in Existing(mem.at) : id # new /\ id \in Nat /\ id < new /\ mem'.at[id] = mem.at[id]
      /\ Running => \A id \in Existing(tick.at) : id # new /\ id \in Nat /\ id < new
      /\ restarts = 0 => \A m \in Minutes : ~Fired(new, m)
  <2>1. Existing(mem.at) \subseteq Ids /\ Ids \subseteq Nat /\ new \in Ids
    BY <1>1 DEF Existing, Ids
  <2>2. \A id \in Existing(mem.at) : id < new
    BY <1>a DEF IInv, Numbers, Healed
  <2>3. Running => Existing(tick.at) \subseteq Nat /\ \A id \in Existing(tick.at) : id < new
    BY <1>a, <2>1 DEF IInv, Numbers, Existing
  <2>4. restarts = 0 => \A m \in Minutes : ~Fired(new, m)
    BY <1>a, <1>3, <2>1 DEF IInv, Numbers
  <2>5. /\ Existing(mem'.at) = Existing(mem.at) \cup {new}
        /\ \A id \in Ids : id # new => mem'.at[id] = mem.at[id]
    BY <1>1, <1>3 DEF Existing
  <2>6. \A id \in Nat : id < new => id # new
    BY <1>3
  <2>7. \A id \in Existing(mem.at) : id # new /\ id \in Nat /\ id < new /\ mem'.at[id] = mem.at[id]
    BY <2>1, <2>2, <2>5, <2>6
  <2>8. Running => \A id \in Existing(tick.at) : id # new /\ id \in Nat /\ id < new
    BY <2>3, <2>6
  <2> QED
    BY <2>4, <2>5, <2>7, <2>8
<1>5. Numbers'
  <2>1. Healed(mem)'
    BY <1>1, <1>3, <1>4 DEF Healed
  <2>2. /\ Running' => /\ tick'.left \subseteq Existing(tick'.at)
                       /\ \A id \in Existing(tick'.at) : id < mem'.nextID
        /\ tick'.pc = "store" => tick'.current \in Existing(tick'.at)
    BY <1>1, <1>2, <1>3, <1>4, TickKinds DEF IInv, Numbers, Running
  <2>3. spoilt = 0 => \A id \in acked' : id < mem'.nextID /\ id < NewScheduleStore(disk').nextID
    <3> SUFFICES ASSUME spoilt = 0, NEW id \in acked'
                 PROVE  id < mem'.nextID /\ id < NewScheduleStore(disk').nextID
      OBVIOUS
    <3>1. id \in Nat /\ (id \in acked => id < new)
      BY <1>1, <1>a DEF IInv, TypeOK, Numbers, Ids
    <3>2. CASE SaveOk(mem') /\ acked' = acked \cup {new}
      <4>1. NewScheduleStore(disk').nextID = mem'.nextID
        BY <2>1, <3>2, <1>1, SavedCounter DEF SaveOk, TypeOK
      <4> QED
        BY <1>1, <1>3, <3>1, <3>2, <4>1
    <3>3. CASE SaveError /\ UNCHANGED acked
      BY <1>1, <1>3, <3>1, <3>3 DEF SaveError, IInv, Numbers
    <3> QED
      BY <1>a, <3>2, <3>3 DEF Create
  <2>4. restarts = 0 => \A id \in Ids, m \in Minutes : Fired(id, m)' => id < mem'.nextID
    BY <1>1, <1>2, <1>3, <1>a DEF IInv, Numbers, Fired, Ids
  <2> QED
    BY <1>2, <2>1, <2>2, <2>3, <2>4 DEF Numbers
<1>6. SameTimes'
  BY <1>2, <1>4 DEF IInv, SameTimes, OnTime, Fired, Running
<1>7. LastFirings'
  <2>1. \A id \in Ids : lastFired'[id] = IF id = new THEN Never ELSE lastFired[id]
    BY <1>2 DEF IInv, TypeOK
  <2> QED
    BY <1>2, <1>4, <2>1 DEF IInv, LastFirings, Fired, Running
<1>8. Forward'
  BY <1>2 DEF IInv, Forward, Fired, Running
<1>9. Firings'
  <2>1. born'[new] = now /\ \A id \in Ids : id # new => born'[id] = born[id]
    BY <1>1, <1>2 DEF IInv, TypeOK
  <2>2. now \in Nat /\ \A m \in Minutes : now < m => ~(m <= now)
    BY DEF IInv, TypeOK, Minutes
  <2> QED
    BY <1>2, <1>4, <2>1, <2>2 DEF IInv, Firings, AllFired, Fired, Running, Existing
<1>10. Clock' /\ Calls'
  BY <1>2, CallsKept DEF IInv, Clock
<1> QED
  BY <1>1, <1>5, <1>6, <1>7, <1>8, <1>9, <1>10 DEF IInv

LEMMA DeleteInv ==
  ASSUME IInv, NEW gone \in Ids, Delete(gone)
  PROVE  IInv'
<1>1. /\ mem'.nextID = mem.nextID /\ mem'.at = [mem.at EXCEPT ![gone] = NoSchedule]
      /\ TypeOK'
  BY DeleteTypes DEF IInv
<1>2. UNCHANGED <<tick, now, tickDue, skipped, clockBacks, furthest, dayBack, restarts, spoilt,
                  fired, sent, expired, lastFired, born, acked>>
  BY DEF Delete, clock, history
<1>3. /\ Existing(mem'.at) = Existing(mem.at) \ {gone}
      /\ \A id \in Existing(mem'.at) : mem'.at[id] = mem.at[id]
  BY <1>1 DEF IInv, TypeOK, ScheduleFile, Existing
<1>4. Numbers'
  <2>1. Healed(mem)'
    BY <1>1, <1>3 DEF IInv, Numbers, Healed
  <2>2. NewScheduleStore(disk').nextID \in {mem.nextID, NewScheduleStore(disk).nextID}
    BY <1>1, <2>1, SavedCounter DEF Delete, SaveOk, SaveError, TypeOK
  <2> QED
    BY <1>1, <1>2, <2>1, <2>2 DEF IInv, Numbers, Fired, Running
<1>5. SameTimes'
  BY <1>2, <1>3 DEF IInv, SameTimes, OnTime, Fired, Running
<1>6. LastFirings'
  BY <1>2 DEF IInv, LastFirings, Fired, Running
<1>7. Forward'
  BY <1>2 DEF IInv, Forward, Fired, Running
<1>8. Firings'
  BY <1>2, <1>3 DEF IInv, Firings, AllFired, Fired, Running
<1>9. Clock' /\ Calls'
  BY <1>2, CallsKept DEF IInv, Clock
<1> QED
  BY <1>1, <1>4, <1>5, <1>6, <1>7, <1>8, <1>9 DEF IInv

LEMMA TickStartInv ==
  ASSUME IInv, TickStart
  PROVE  IInv'
<1>1. TypeOK'
  BY TickTypes DEF IInv, Tick
<1>2. /\ ~Running /\ tickDue /\ ~tickDue'
      /\ UNCHANGED <<mem, disk, now, skipped, clockBacks, furthest, dayBack, restarts, spoilt,
                     fired, sent, expired, lastFired, born, acked>>
  BY DEF TickStart, Running, store, faults, history
<1>3. /\ tick'.pc = "loop" /\ tick'.today = now /\ tick'.at = mem.at
      /\ tick'.left = Due(mem.at, lastFired) /\ tick'.spent = 0
  BY DEF TickStart
<1>4. Running' /\ tick'.pc # "store"
  BY <1>3 DEF Running
<1>5. /\ tick'.left \subseteq Existing(mem.at) /\ Existing(mem.at) \subseteq Ids
      /\ \A id \in tick'.left : lastFired[id] # now /\ mem.at[id] = now % DayLength
      /\ \A id \in Existing(mem.at) \ tick'.left : lastFired[id] = now \/ mem.at[id] # now % DayLength
  BY <1>3 DEF Due, Existing
<1>6. Numbers'
  BY <1>2, <1>3, <1>4, <1>5 DEF IInv, Numbers, Healed, Fired
<1>7. SameTimes'
  BY <1>2, <1>3, <1>4, <1>5 DEF IInv, SameTimes, OnTime, Fired, Running
<1>8. now \in Nat /\ furthest \in Nat /\ clockBacks \in Nat /\ DayLength \in Nat \ {0}
      /\ now <= furthest /\ (~dayBack => furthest < now + DayLength)
  BY SchedulesAssumption DEF IInv, TypeOK, Minutes, Clock
<1>9. LastFirings'
  <2>1. ASSUME restarts = 0, ~dayBack, NEW id \in tick'.left, NEW m \in Minutes, Fired(id, m)
        PROVE  m < now
    <3>1. id \in Ids /\ m \in Nat /\ m % DayLength = now % DayLength /\ m < now + DayLength
      BY <1>5, <1>8, <2>1 DEF IInv, SameTimes, OnTime, LastFirings, Minutes
    <3>2. m <= now
      BY <1>8, <3>1, DayApart
    <3>3. lastFired[id] \in Minutes /\ Fired(id, lastFired[id]) /\ m <= lastFired[id]
      BY <1>2, <2>1, <3>1 DEF IInv, LastFirings, Running, TypeOK
    <3>4. lastFired[id] \in Nat /\ lastFired[id] % DayLength = now % DayLength
          /\ lastFired[id] < now + DayLength
      BY <1>5, <1>8, <2>1, <3>1, <3>3 DEF IInv, SameTimes, OnTime, LastFirings, Minutes
    <3>5. lastFired[id] <= now
      BY <1>8, <3>4, DayApart
    <3>6. lastFired[id] # now
      BY <1>5
    <3> QED
      BY <1>8, <3>1, <3>3, <3>4, <3>5, <3>6
  <2>2. ~(tick.pc = "store")
    BY <1>2 DEF Running
  <2> QED
    BY <1>2, <1>3, <1>4, <1>8, <2>1, <2>2 DEF IInv, LastFirings, Fired
<1>10. Forward'
  <2>1. clockBacks = 0 => \A id \in Ids : ~Fired(id, now)
    BY <1>2, <1>8 DEF IInv, Forward, TypeOK
  <2> QED
    BY <1>2, <1>3, <1>4, <1>5, <1>8, <2>1 DEF IInv, Forward, Fired
<1>11. Firings'
  <2> SUFFICES ASSUME restarts = 0, clockBacks = 0, NEW id \in Existing(mem.at),
                      NEW m \in Minutes \ skipped, born[id] \in Nat, born[id] < m, m <= now,
                      m % DayLength = mem.at[id]
               PROVE  (now = m /\ id \in tick'.left) \/ Fired(id, m)
    BY <1>2, <1>3, <1>4 DEF Firings, AllFired, Fired
  <2>1. CASE m = now
    <3>1. id \in tick'.left \/ lastFired[id] = now
      BY <2>1, <1>5
    <3>2. now # Never /\ id \in Ids
      BY <1>5, <1>8, SchedulesAssumption
    <3> QED
      BY <2>1, <3>1, <3>2 DEF IInv, LastFirings, Clock
  <2>2. CASE m # now
    BY <2>2, <1>2 DEF IInv, Firings, AllFired
  <2> QED
    BY <2>1, <2>2
<1>12. Clock'
  BY <1>2 DEF IInv, Clock
<1>13. Calls'
  <2>a. PICK m : m = now
    OBVIOUS
  <2>1. 2 * CallTimeout * Cardinality(SentIn(m)) \in Nat /\ TickTimeout # 0
    BY Counted, SchedulesAssumption DEF SentIn
  <2>2. Used(m)' = 2 * CallTimeout * Cardinality(SentIn(m))
    BY <1>2 DEF Used, SentIn
  <2>3. tick'.today = m /\ tick'.spent <= Used(m)' /\ tick'.spent # TickTimeout
    BY <1>3, <2>a, <2>1, <2>2
  <2>4. restarts = 0 /\ clockBacks = 0 =>
          \A id \in Ids, k \in Minutes : Fired(id, k)' => <<id, k>> \in sent' \/ TimeUp(k)'
    BY <1>2 DEF IInv, Calls, Fired, TimeUp, SentIn
  <2> QED
    BY <1>2, <2>3, <2>4 DEF Calls, Used, SentIn
<1> QED
  BY <1>1, <1>6, <1>7, <1>9, <1>10, <1>11, <1>12, <1>13 DEF IInv

LEMMA TickFireInv ==
  ASSUME IInv, NEW c \in Ids, TickFire(c)
  PROVE  IInv'
<1>1. TypeOK'
  BY TickTypes DEF IInv, Tick
<1>2. /\ tick.pc = "loop" /\ Running /\ c \in tick.left
      /\ UNCHANGED <<mem, disk, now, tickDue, skipped, clockBacks, furthest, dayBack, restarts, spoilt,
                     lastFired, born, acked>>
  BY DEF TickFire, Running, store, clock, faults
<1>3. /\ tick'.pc = "store" /\ tick'.today = tick.today /\ tick'.at = tick.at
      /\ tick'.left = tick.left \ {c} /\ tick'.current = c
      /\ tick'.spent \in 0..TickTimeout /\ SetState(c, tick'.spent)
  BY DEF TickFire
<1>4. Running'
  BY <1>3 DEF Running
<1>5. \A id, m : Fired(id, m)' <=> Fired(id, m) \/ (id = c /\ m = tick.today)
  BY DEF TickFire, Fired
<1>6. /\ tick.today \in Minutes /\ tick.today \in Nat /\ now \in Nat
      /\ tick.at \in [Ids -> Times \cup {NoSchedule}] /\ c \in Existing(tick.at)
  BY <1>2, TickKinds DEF IInv, TypeOK, Minutes, Numbers
<1>7. Numbers'
  BY <1>2, <1>3, <1>4, <1>5, <1>6 DEF IInv, Numbers, Healed
<1>8. SameTimes'
  <2>1. restarts = 0 => /\ tick.at[c] = tick.today % DayLength
                        /\ c \in Existing(mem.at) => mem.at[c] = tick.today % DayLength
    BY <1>2, <1>6 DEF IInv, SameTimes
  <2> QED
    BY <1>2, <1>3, <1>4, <1>5, <2>1 DEF IInv, SameTimes, OnTime
<1>9. LastFirings'
  <2>1. restarts = 0 /\ ~dayBack => \A m \in Minutes : Fired(c, m) => m <= tick.today
    BY <1>2, <1>6 DEF IInv, LastFirings, Minutes
  <2> QED
    BY <1>2, <1>3, <1>4, <1>5, <1>6, <2>1 DEF IInv, LastFirings
<1>10. Forward'
  BY <1>2, <1>3, <1>4, <1>5, <1>6 DEF IInv, Forward
<1>11. Firings'
  BY <1>2, <1>3, <1>4, <1>5 DEF IInv, Firings, AllFired
<1>12. Clock'
  BY <1>2 DEF IInv, Clock
<1>13. Calls'
  <2> SUFFICES ASSUME restarts = 0, clockBacks = 0 PROVE Calls'
    BY <1>2 DEF Calls
  <2>a. PICK m : m = tick.today
    OBVIOUS
  <2>1. /\ sent \subseteq sent' /\ expired \subseteq expired'
        /\ \A k : TimeUp(k) => TimeUp(k)'
        /\ Used(m) <= Used(m)'
    <3>1. sent \subseteq sent' /\ expired \subseteq expired'
      BY <1>3 DEF SetState
    <3> QED
      BY <3>1, CallsGrow
  <2>2. /\ tick.spent <= Used(m) /\ tick.spent \in 0..TickTimeout
        /\ tick.spent = TickTimeout => m \in expired
        /\ <<c, m>> \notin sent
    BY <1>2, <2>a, TickKinds DEF IInv, Calls, Forward, Fired, TypeOK
  <2>3. /\ Used(m) \in Nat /\ Used(m)' \in Nat
        /\ CallTimeout \in Nat /\ TickTimeout \in Nat
    <3>1. SentIn(m) \in SUBSET Ids /\ SentIn(m)' \in SUBSET Ids
      BY DEF SentIn
    <3> QED
      BY <3>1, Counted, SchedulesAssumption DEF Used
  <2>4. CASE tick.spent < TickTimeout
    <3>1. /\ sent' = sent \cup {<<c, m>>}
          /\ tick'.spent <= tick.spent + 2 * CallTimeout
          /\ tick'.spent = TickTimeout => m \in expired'
      BY <1>3, <2>a, <2>2, <2>3, <2>4 DEF SetState
    <3>2. Used(m)' = Used(m) + 2 * CallTimeout
      BY <2>2, <3>1, OneMoreCall
    <3>3. tick'.spent <= Used(m)'
      BY <1>3, <2>2, <2>3, <3>1, <3>2
    <3>4. \A id \in Ids, k \in Minutes : Fired(id, k)' => <<id, k>> \in sent' \/ TimeUp(k)'
      BY <1>5, <2>a, <2>1, <3>1 DEF IInv, Calls
    <3> QED
      BY <1>3, <2>a, <3>1, <3>3, <3>4 DEF Calls, Used, SentIn
  <2>5. CASE tick.spent = TickTimeout
    <3>1. tick'.spent = TickTimeout
      BY <1>3, <2>3, <2>5 DEF SetState
    <3>2. TimeUp(m)
      BY <2>2, <2>3, <2>5 DEF TimeUp, Used
    <3>3. tick'.spent <= Used(m)' /\ m \in expired'
      BY <2>1, <2>2, <2>3, <2>5, <3>1
    <3>4. \A id \in Ids, k \in Minutes : Fired(id, k)' => <<id, k>> \in sent' \/ TimeUp(k)'
      BY <1>5, <2>a, <2>1, <3>2 DEF IInv, Calls
    <3> QED
      BY <1>3, <2>a, <3>3, <3>4 DEF Calls, Used, SentIn
  <2> QED
    BY <2>2, <2>3, <2>4, <2>5
<1> QED
  BY <1>1, <1>7, <1>8, <1>9, <1>10, <1>11, <1>12, <1>13 DEF IInv

LEMMA TickStoreInv ==
  ASSUME IInv, TickStore
  PROVE  IInv'
<1>a. PICK c : c = tick.current
  OBVIOUS
<1>1. TypeOK'
  BY TickTypes DEF IInv, Tick
<1>2. /\ tick.pc = "store" /\ Running
      /\ UNCHANGED <<disk, now, tickDue, skipped, clockBacks, furthest, dayBack, restarts, spoilt,
                     fired, sent, expired, born, acked>>
      /\ lastFired' = [lastFired EXCEPT ![c] = tick.today]
  BY <1>a DEF TickStore, Running, clock, faults, history
<1>3. /\ tick'.pc = "loop" /\ tick'.today = tick.today /\ tick'.at = tick.at
      /\ tick'.left = tick.left /\ tick'.spent = tick.spent /\ Running'
  BY DEF TickStore, Running
<1>4. /\ c \in Existing(tick.at) /\ c \in Ids /\ Existing(tick.at) \subseteq Ids
      /\ tick.today \in Minutes /\ tick.today \in Nat
  BY <1>2, <1>a, TickKinds DEF IInv, Numbers, Minutes, Existing
<1>5. mem'.nextID = mem.nextID /\ mem'.at = [mem.at EXCEPT ![c] = tick.at[c]]
  BY <1>a DEF TickStore, IInv, TypeOK, ScheduleFile
<1>6. /\ Existing(mem'.at) = Existing(mem.at) \cup {c} /\ mem'.at[c] = tick.at[c]
      /\ \A id \in Ids : id # c => mem'.at[id] = mem.at[id]
  BY <1>4, <1>5 DEF IInv, TypeOK, ScheduleFile, Existing
<1>7. lastFired'[c] = tick.today /\ \A id \in Ids : id # c => lastFired'[id] = lastFired[id]
  BY <1>2, <1>4 DEF IInv, TypeOK
<1>8. Existing(mem.at) \subseteq Ids /\ tick.left \subseteq Ids
  BY <1>2, TickKinds DEF Existing, IInv
<1>9. Numbers'
  BY <1>2, <1>3, <1>4, <1>5, <1>6 DEF IInv, Numbers, Healed, Fired
<1>10. SameTimes'
  BY <1>2, <1>3, <1>4, <1>6, <1>8 DEF IInv, SameTimes, OnTime, Fired
<1>11. LastFirings'
  <2>1. tick.today # Never
    BY <1>4, SchedulesAssumption
  <2> QED
    BY <1>2, <1>3, <1>4, <1>7, <1>8, <1>a, <2>1 DEF IInv, LastFirings, Fired
<1>12. Forward'
  BY <1>2, <1>3 DEF IInv, Forward, Fired
<1>13. Firings'
  BY <1>2, <1>3, <1>4, <1>6, <1>8 DEF IInv, Firings, AllFired, Fired
<1>14. Clock' /\ Calls'
  BY <1>2, <1>3 DEF IInv, Clock, Calls, Fired, TimeUp, Used, SentIn
<1> QED
  BY <1>1, <1>9, <1>10, <1>11, <1>12, <1>13, <1>14 DEF IInv

LEMMA TickEndInv ==
  ASSUME IInv, TickEnd
  PROVE  IInv'
<1>1. TypeOK'
  BY TickTypes DEF IInv, Tick
<1>2. /\ tick.pc = "loop" /\ tick.left = {} /\ tick'.pc = "idle" /\ Running /\ ~Running'
      /\ UNCHANGED <<mem, disk, now, tickDue, skipped, clockBacks, furthest, dayBack, restarts, spoilt,
                     fired, sent, expired, lastFired, born, acked>>
  BY DEF TickEnd, Idle, Running, store, clock, faults, history
<1>3. Numbers' /\ SameTimes'
  BY <1>2 DEF IInv, Numbers, Healed, SameTimes, OnTime, Fired
<1>4. LastFirings' /\ Forward'
  BY <1>2 DEF IInv, LastFirings, Forward, Fired
<1>5. Firings'
  BY <1>2 DEF IInv, Firings, AllFired, Fired
<1>6. Clock' /\ Calls'
  BY <1>2 DEF IInv, Clock, Calls, Fired, TimeUp, SentIn
<1> QED
  BY <1>1, <1>3, <1>4, <1>5, <1>6 DEF IInv

LEMMA ClockInv ==
  ASSUME IInv, NextMinute \/ SkipMinute \/ ClockBack
  PROVE  IInv'
<1>1. TypeOK'
  BY ClockTypes DEF IInv
<1>2. UNCHANGED <<mem, disk, tick, restarts, spoilt, fired, sent, expired, lastFired, born, acked>>
  BY DEF NextMinute, SkipMinute, ClockBack, store, faults, history
<1>3. /\ now \in Nat /\ clockBacks \in Nat /\ furthest \in Nat /\ DayLength \in Nat \ {0}
      /\ \A m \in Minutes : m \in Nat
      /\ dayBack \in BOOLEAN
  BY SchedulesAssumption DEF IInv, TypeOK, Minutes
<1>4. /\ furthest' >= furthest /\ now' <= furthest'
      /\ ~dayBack' => ~dayBack /\ furthest' < now' + DayLength
      /\ clockBacks' = 0 => ~dayBack'
      /\ furthest' \in Nat /\ now' \in Nat /\ clockBacks' \in Nat
  <2>1. CASE NextMinute
    BY <1>3, <2>1 DEF NextMinute, Later, IInv, Clock
  <2>2. CASE SkipMinute
    BY <1>3, <2>2 DEF SkipMinute, Later, IInv, Clock
  <2>3. CASE ClockBack
    <3>1. /\ clockBacks' = clockBacks + 1 /\ now > 0 /\ now' = now - 1 /\ furthest' = furthest
          /\ ~dayBack' => ~dayBack /\ ~(furthest - now' >= DayLength)
      BY <1>3, <2>3 DEF ClockBack
    <3> QED
      BY <1>3, <3>1 DEF IInv, Clock
  <2> QED
    BY <2>1, <2>2, <2>3
<1>5. Running => tick.today \in Nat
  BY <1>3, TickKinds DEF IInv
<1>6. Numbers' /\ SameTimes'
  BY <1>2 DEF IInv, Numbers, Healed, SameTimes, OnTime, Fired, Running
<1>7. LastFirings'
  BY <1>2, <1>3, <1>4, <1>5 DEF IInv, LastFirings, Fired, Running
<1>8. clockBacks' = 0 => /\ clockBacks = 0 /\ ~tickDue /\ now' = now + 1
                         /\ \/ tickDue' /\ skipped' = skipped
                            \/ ~tickDue' /\ skipped' = skipped \cup {now + 1}
  <2>1. CASE NextMinute
    BY <2>1 DEF NextMinute
  <2>2. CASE SkipMinute
    BY <2>2 DEF SkipMinute
  <2>3. CASE ClockBack
    BY <1>3, <2>3 DEF ClockBack
  <2> QED
    BY <2>1, <2>2, <2>3
<1>9. Forward'
  BY <1>2, <1>3, <1>5, <1>8 DEF IInv, Forward, Fired, Running
<1>10. Firings'
  BY <1>2, <1>3, <1>8 DEF IInv, Firings, AllFired, Fired, Running
<1>11. Calls'
  BY <1>2, <1>8, <1>3 DEF IInv, Calls, Fired, Running, TimeUp, Used, SentIn
<1>12. Clock'
  BY <1>4 DEF Clock
<1> QED
  BY <1>1, <1>6, <1>7, <1>9, <1>10, <1>11, <1>12 DEF IInv

LEMMA FaultInv ==
  ASSUME IInv, Restart \/ Spoil
  PROVE  IInv'
<1>1. TypeOK' /\ restarts \in Nat /\ spoilt \in Nat
  BY FaultTypes DEF IInv, TypeOK
<1>2. CASE Restart
  <2>1. /\ restarts' # 0 /\ tick'.pc = "idle" /\ ~Running' /\ ~tickDue'
        /\ mem' = NewScheduleStore(disk)
        /\ UNCHANGED <<disk, now, furthest, dayBack, clockBacks, spoilt, fired, born, acked>>
    BY <1>1, <1>2 DEF Restart, Idle, Running, history
  <2>2. Numbers'
    BY <2>1, Loading DEF IInv, TypeOK, Numbers
  <2>3. SameTimes' /\ Clock' /\ LastFirings' /\ Forward' /\ Firings' /\ Calls'
    BY <2>1 DEF IInv, SameTimes, Clock, LastFirings, Forward, Firings, Calls, Fired
  <2> QED
    BY <1>1, <2>2, <2>3 DEF IInv
<1>3. CASE Spoil
  <2>1. /\ spoilt' # 0
        /\ UNCHANGED <<mem, lastFired, tick, now, tickDue, skipped, clockBacks, furthest, dayBack,
                       restarts, fired, sent, expired, born, acked>>
    BY <1>1, <1>3 DEF Spoil, clock, history
  <2>2. Numbers' /\ SameTimes'
    BY <2>1 DEF IInv, Numbers, Healed, SameTimes, OnTime, Fired, Running
  <2>3. LastFirings' /\ Forward'
    BY <2>1 DEF IInv, LastFirings, Forward, Fired, Running
  <2>4. Firings'
    BY <2>1 DEF IInv, Firings, AllFired, Fired, Running
  <2>5. Clock' /\ Calls'
    BY <2>1, CallsKept DEF IInv, Clock
  <2> QED
    BY <1>1, <2>2, <2>3, <2>4, <2>5 DEF IInv
<1> QED
  BY <1>2, <1>3

LEMMA InitInv == Init => IInv
<1> SUFFICES ASSUME Init PROVE IInv
  OBVIOUS
<1>1. TypeOK
  BY TypeInit
<1>2. tick.pc = "idle" /\ ~Running /\ fired = {} /\ acked = {} /\ now = 0 /\ Healed(mem)
  BY Loading, SchedulesAssumption DEF Init, Idle, Running
<1>3. Firings
  BY <1>2 DEF Firings, AllFired, Minutes
<1>4. \A id \in Ids : lastFired[id] = Never
  BY DEF Init
<1>5. Clock /\ Calls
  BY <1>2, SchedulesAssumption DEF Init, Clock, Calls, Fired
<1> QED
  BY <1>1, <1>2, <1>3, <1>4, <1>5 DEF IInv, Numbers, SameTimes, OnTime, LastFirings, Forward, Fired

LEMMA NextInv == IInv /\ [Next]_vars => IInv'
<1>1. CASE UNCHANGED vars
  BY <1>1 DEF vars, store, clock, faults, history, IInv, TypeOK, Numbers, Healed, SameTimes, OnTime,
              Clock, LastFirings, Forward, Firings, AllFired, Calls, TimeUp, Used, SentIn, Fired, Running
<1> QED
  BY <1>1, CreateInv, DeleteInv, TickStartInv, TickFireInv, TickStoreInv, TickEndInv, ClockInv,
     FaultInv DEF Next, Tick

LEMMA Inductive == Spec => []IInv
BY InitInv, NextInv, PTL DEF Spec

-----------------------------------------------------------------------------
\* Ids are new, whatever is deleted, edited into the file or lost by saves and
\* restarts, until a file cannot be read (schedules.go:49-52).
THEOREM NeverHandedOutAgain == Spec => []IdsNotHandedOutAgain
<1>1. IInv => IdsNotHandedOutAgain
  BY DEF IInv, Numbers, Healed, IdsNotHandedOutAgain
<1> QED
  BY <1>1, Inductive, PTL

\* No schedule fires twice in a minute of the wall clock, unless the clock is
\* set back and the process restarts, or the clock is set back by a whole day
\* (schedules.go:26-28).
THEOREM OncePerMinute == Spec => AtMostOncePerMinute
<1>1. ASSUME IInv, NEW id \in Ids, TickFire(id),
             clockBacks = 0 \/ (restarts = 0 /\ ~dayBack)
      PROVE  <<id, tick.today>> \notin fired
  <2>1. tick.pc = "loop" /\ Running /\ id \in tick.left /\ tick.today \in Minutes
    BY <1>1, TickKinds DEF TickFire, Running, IInv
  <2>2. CASE restarts = 0 /\ ~dayBack
    <3>1. Fired(id, tick.today) => tick.today < tick.today
      BY <2>1, <2>2, <1>1 DEF IInv, LastFirings
    <3> QED
      BY <2>1, <3>1 DEF Fired, Minutes
  <2>3. CASE clockBacks = 0
    BY <2>1, <2>3, <1>1 DEF IInv, Forward, Fired
  <2> QED
    BY <1>1, <2>2, <2>3
<1>2. IInv /\ [Next]_vars =>
        [\A id \in Ids : TickFire(id) /\ (clockBacks = 0 \/ (restarts = 0 /\ ~dayBack))
                         => <<id, tick.today>> \notin fired]_vars
  BY <1>1
<1> QED
  BY <1>2, Inductive, PTL DEF Spec, AtMostOncePerMinute

\* For what is due the backend is called, whatever happens to the store and to the
\* file, in every minute that the ticker does not miss and in which the calls for
\* other schedules do not take all the time of the tick.  For that there must be
\* at least TickTimeout / (2 * CallTimeout) of them, with the code's 30 and 10
\* seconds two (schedules.go:78-80, main.go:442).
THEOREM EveryDay == Spec => []FiresEveryDay
<1>1. IInv => FiresEveryDay
  BY DEF IInv, Firings, AllFired, Calls, FiresEveryDay, TickOver, Running, Fired, TypeOK, Minutes,
         Existing
<1> QED
  BY <1>1, Inductive, PTL

\* The one way for a deleted schedule to come back while the process runs, which
\* DeletedStaysDeleted finds: the tick writes back the copy it took before the
\* DELETE (schedules.go:194, 226).  Between ticks nothing comes back.
OnlyTicksRestore ==
    [][restarts' = restarts =>
          \A id \in Existing(mem'.at) \ Existing(mem.at) :
              \/ id >= mem.nextID
              \/ tick.pc = "store" /\ id = tick.current /\ mem'.at[id] = tick.at[id]]_vars

\* See OnlyTicksRestore: nothing but a running tick brings a schedule back.
THEOREM Returns == Spec => OnlyTicksRestore
<1> DEFINE Appears(id) == id \in Existing(mem'.at) \ Existing(mem.at)
           Allowed(id) ==
              \/ id >= mem.nextID
              \/ tick.pc = "store" /\ id = tick.current /\ mem'.at[id] = tick.at[id]
<1>1. ASSUME TypeOK, Next, restarts' = restarts, NEW id, Appears(id) PROVE Allowed(id)
  <2>1. mem \in ScheduleFile /\ id \in Ids
    BY <1>1 DEF TypeOK, Existing
  <2>2. CASE UNCHANGED mem
    BY <1>1, <2>2
  <2>3. ASSUME NEW t \in Times, Create(t) PROVE Allowed(id)
    <3>1. mem'.at = [mem.at EXCEPT ![mem.nextID] = t] /\ mem.nextID \in Nat
      BY <2>1, <2>3 DEF Create, ScheduleFile
    <3>2. id = mem.nextID
      BY <1>1, <2>1, <3>1 DEF Existing, ScheduleFile
    <3> QED
      BY <3>1, <3>2
  <2>4. ASSUME NEW d \in Ids, Delete(d) PROVE Allowed(id)
    <3>1. mem'.at = [mem.at EXCEPT ![d] = NoSchedule]
      BY <2>1, <2>4 DEF Delete, ScheduleFile
    <3> QED
      BY <1>1, <2>1, <3>1 DEF Existing, ScheduleFile
  <2>5. CASE TickStore
    <3>1. tick.pc = "store" /\ mem'.at = [mem.at EXCEPT ![tick.current] = tick.at[tick.current]]
      BY <2>1, <2>5 DEF TickStore, ScheduleFile
    <3>2. id = tick.current
      BY <1>1, <2>1, <3>1 DEF Existing, ScheduleFile
    <3> QED
      BY <2>1, <3>1, <3>2 DEF ScheduleFile
  <2>6. CASE TickStart \/ (\E d \in Ids : TickFire(d)) \/ TickEnd
             \/ NextMinute \/ SkipMinute \/ ClockBack \/ Spoil
    BY <2>2, <2>6 DEF TickStart, TickFire, TickEnd, NextMinute, SkipMinute, ClockBack, Spoil, store
  <2>7. ~Restart
    BY <1>1, FaultsAreBounded DEF Restart, TypeOK
  <2> QED
    BY <1>1, <2>3, <2>4, <2>5, <2>6, <2>7 DEF Next, Tick
<1>2. TypeOK /\ [Next]_vars =>
        [restarts' = restarts => \A id \in Existing(mem'.at) \ Existing(mem.at) :
              \/ id >= mem.nextID
              \/ tick.pc = "store" /\ id = tick.current /\ mem'.at[id] = tick.at[id]]_vars
  BY <1>1
<1> QED
  BY <1>2, TypeCorrect, PTL DEF Spec, OnlyTicksRestore
=============================================================================
