--------------------------- MODULE RegistryProofs ---------------------------
(* The registry's invariants, for every set of entities, tabs and first    *)
(* files and every bound.                                                  *)
EXTENDS Registry, WellFoundedInduction, TLAPS

-----------------------------------------------------------------------------
(* Max, and what the self-heal does to the counters.                       *)

\* A set of naturals below a bound has a maximum.  The least of its upper
\* bounds is in it.
LEMMA MaxOfBounded ==
  ASSUME NEW b \in Nat, NEW S \in SUBSET (0..b), S # {}
  PROVE  Max(S) \in S /\ \A x \in S : x <= Max(S)
<1> DEFINE Uppers == {u \in Nat : \A x \in S : x <= u}
<1>1. Uppers \subseteq Nat /\ b \in Uppers
  OBVIOUS
<1>2. \E u \in Uppers : \A v \in Uppers : ~ (<<v, u>> \in OpToRel(<, Nat))
  <2> HIDE DEF Uppers
  <2> QED
    BY <1>1, NatLessThanWellFounded, WFMin
<1>3. PICK u \in Nat : /\ \A x \in S : x <= u
                       /\ \A v \in Nat : (\A x \in S : x <= v) => ~ (v < u)
  BY <1>2 DEF OpToRel
<1>4. u \in S
  <2> SUFFICES ASSUME u \notin S PROVE FALSE
    OBVIOUS
  <2>1. PICK x \in S : TRUE
    OBVIOUS
  <2>2. x \in Nat /\ x <= u /\ x # u
    BY <1>3, <2>1
  <2>3. u - 1 \in Nat /\ u - 1 < u
    BY <2>2
  <2>4. \A y \in S : y <= u - 1
    BY <1>3
  <2> QED
    BY <1>3, <2>3, <2>4
<1>5. \A y \in S : u >= y
  BY <1>3
<1>6. Max(S) \in S /\ \A y \in S : Max(S) >= y
  BY <1>4, <1>5 DEF Max
<1> QED
  BY <1>3, <1>6

\* Every counter is above every id in use, and ids start at 1.
Healed(state) == /\ state.nextID > 0 /\ state.nextGroupID > 0
                 /\ \A i \in Ids(state.entries) : i < state.nextID
                 /\ \A i \in Ids(state.groups) : i < state.nextGroupID

\* The largest of zero and some ids.
LEMMA MaxOfIds ==
  ASSUME NEW b \in Nat, NEW S \in SUBSET (1..b)
  PROVE  /\ Max({0} \cup S) \in Nat
         /\ Max({0} \cup S) \in {0} \cup S
         /\ \A x \in S : x \in Nat /\ x <= Max({0} \cup S)
<1>1. {0} \cup S \in SUBSET (0..b) /\ {0} \cup S # {}
  OBVIOUS
<1>2. /\ Max({0} \cup S) \in {0} \cup S
      /\ \A x \in {0} \cup S : x <= Max({0} \cup S)
  BY <1>1, MaxOfBounded
<1> QED
  <2> DEFINE m == Max({0} \cup S)
  <2>1. m \in {0} \cup S /\ \A x \in {0} \cup S : x <= m
    BY <1>2
  <2> HIDE DEF m
  <2>2. m \in Nat /\ m \in {0} \cup S /\ \A x \in S : x \in Nat /\ x <= m
    BY <2>1
  <2> QED
    BY <2>2 DEF m

LEMMA HealHeals ==
  ASSUME NEW s \in FileFormat
  PROVE  /\ Heal(s) \in FileFormat
         /\ Heal(s).entries = s.entries
         /\ Heal(s).groups = s.groups
         /\ Healed(Heal(s))
         /\ Healed(s) => Heal(s) = s
<1> DEFINE m == Max({0} \cup Ids(s.entries))
           n == Max({0} \cup Ids(s.groups))
<1>1. /\ Heal(s) = [s EXCEPT !.nextID = IF @ <= m THEN m + 1 ELSE @,
                             !.nextGroupID = IF @ <= n THEN n + 1 ELSE @]
  BY DEF Heal
<1>2. Ids(s.entries) \in SUBSET (1..MaxId) /\ Ids(s.groups) \in SUBSET (1..MaxGroupId)
  BY DEF FileFormat, Entry, Group, Ids
<1>3. m \in Nat /\ m \in {0} \cup Ids(s.entries)
      /\ \A i \in Ids(s.entries) : i \in Nat /\ i <= m
  BY <1>2, MaxOfIds, RegistryAssumption
<1>4. n \in Nat /\ n \in {0} \cup Ids(s.groups)
      /\ \A i \in Ids(s.groups) : i \in Nat /\ i <= n
  BY <1>2, MaxOfIds, RegistryAssumption
<1> HIDE DEF m, n
<1>5. s.nextID \in Nat /\ s.nextGroupID \in Nat
  BY DEF FileFormat
<1>6. Heal(s) \in FileFormat
  <2>1. /\ (IF s.nextID <= m THEN m + 1 ELSE s.nextID) \in Nat
        /\ (IF s.nextGroupID <= n THEN n + 1 ELSE s.nextGroupID) \in Nat
    BY <1>3, <1>4, <1>5
  <2> QED
    BY <1>1, <2>1 DEF FileFormat
<1>7. Heal(s).entries = s.entries /\ Heal(s).groups = s.groups
  BY <1>1 DEF FileFormat
<1>8. /\ Heal(s).nextID = IF s.nextID <= m THEN m + 1 ELSE s.nextID
      /\ Heal(s).nextGroupID = IF s.nextGroupID <= n THEN n + 1 ELSE s.nextGroupID
  BY <1>1 DEF FileFormat
<1>9. Healed(Heal(s))
  BY <1>3, <1>4, <1>5, <1>7, <1>8 DEF Healed
<1>10. ASSUME Healed(s) PROVE Heal(s) = s
  <2>1. ~(s.nextID <= m) /\ ~(s.nextGroupID <= n)
    BY <1>3, <1>4, <1>5, <1>10 DEF Healed
  <2> QED
    BY <2>1, <1>1 DEF FileFormat
<1> QED
  BY <1>6, <1>7, <1>9, <1>10

LEMMA FreshIsFile == Fresh \in FileFormat /\ Distinct(Fresh)
  BY DEF Fresh, FileFormat, Distinct

\* What a start makes of any file.
LEMMA StartHeals ==
  ASSUME NEW file \in FileFormat \cup {NoFile}, file # NoFile => Distinct(file)
  PROVE  /\ NewRegistry(file) \in FileFormat
         /\ Healed(NewRegistry(file))
         /\ Distinct(NewRegistry(file))
<1>1. CASE file = NoFile
  BY <1>1, FreshIsFile, HealHeals DEF NewRegistry, Distinct
<1>2. CASE file # NoFile
  BY <1>2, HealHeals DEF NewRegistry, Distinct
<1> QED
  BY <1>1, <1>2

\* A start on what a healed memory saved brings that memory back.
LEMMA StartRestores ==
  ASSUME NEW s \in FileFormat, Healed(s)
  PROVE  NewRegistry(s) = s
  BY HealHeals, RegistryAssumption DEF NewRegistry

-----------------------------------------------------------------------------
(* The inductive invariant.                                                *)

\* Why an id that reached the file is never given away again: the counter a
\* restart would begin with is above all of them, and memory's counter is
\* never below it.
CountersAbove == /\ \A x \in durable : x.id < NewRegistry(disk).nextID
                 /\ NewRegistry(disk).nextID <= mem.nextID

IInv == /\ TypeOK
        /\ Distinct(mem) /\ Healed(mem)
        /\ disk # NoFile => Distinct(disk)
        /\ NewRegistry(disk).entries \subseteq durable
        /\ CountersAbove
        /\ DurableIdsNeverReused
        /\ RestartTransparent

LEMMA InitIInv == Init => IInv
<1> SUFFICES ASSUME Init PROVE IInv
  OBVIOUS
<1>1. disk \in FileFormat \cup {NoFile} /\ (disk # NoFile => Distinct(disk))
  BY RegistryAssumption DEF Init
<1>2. mem \in FileFormat /\ Healed(mem) /\ Distinct(mem)
  BY <1>1, StartHeals DEF Init
<1>3. mem.entries \in SUBSET Entry /\ mem.nextID \in Nat
  BY <1>2 DEF FileFormat
<1>4. TypeOK
  <2>1. page \in [Tabs -> SUBSET Entities] /\ unsaved \in BOOLEAN
    BY DEF Init
  <2>2. failures \in 0..MaxSaveFailures
    BY RegistryAssumption DEF Init
  <2>3. durable \in SUBSET Entry /\ promised \in SUBSET Entry
    BY <1>3 DEF Init
  <2> QED
    BY <1>1, <1>2, <2>1, <2>2, <2>3 DEF TypeOK
<1>5. CountersAbove
  BY <1>2, <1>3 DEF Init, CountersAbove, Healed, Ids
<1>6. DurableIdsNeverReused
  BY <1>2 DEF Init, DurableIdsNeverReused, OneEntityPerId, Distinct
<1>7. NewRegistry(disk).entries \subseteq durable /\ RestartTransparent
  BY DEF Init, RestartTransparent
<1> QED
  BY <1>1, <1>2, <1>4, <1>5, <1>6, <1>7 DEF IInv

\* Every method that changes memory gives ids only from the counter up and
\* then saves: whether the save succeeds or not, that keeps the invariant.
LEMMA SaveKeeps ==
  ASSUME IInv, NEW s \in FileFormat, Distinct(s), Healed(s),
         s.nextID >= mem.nextID,
         \A x \in s.entries : x \in mem.entries \/ x.id >= mem.nextID,
         mem' = s, Save(s),
         page' \in [Tabs -> SUBSET Entities],
         promised' \in SUBSET Entry
  PROVE  IInv'
<1>1. /\ NewRegistry(s) = s /\ s.entries \in SUBSET Entry /\ s.nextID \in Nat
      /\ \A x \in s.entries : x.id < s.nextID
  BY StartRestores DEF FileFormat, Healed, Ids
<1>2. NewRegistry(disk).nextID \in Nat /\ mem.nextID \in Nat
  BY StartHeals DEF IInv, TypeOK, FileFormat
<1>3. \A x \in Entry : x.id \in Nat
  BY RegistryAssumption DEF Entry
<1>4. durable \in SUBSET Entry
  BY DEF IInv, TypeOK
<1>5. OneEntityPerId(durable \cup s.entries)
  <2>1. \A x \in durable : x.id < mem.nextID
    BY <1>2, <1>3, <1>4 DEF IInv, CountersAbove
  <2>2. ASSUME NEW x \in s.entries, NEW y \in s.entries, x.id = y.id
        PROVE  x.entity = y.entity
    BY <2>2 DEF Distinct
  <2>3. ASSUME NEW x \in s.entries, NEW y \in durable, x.id = y.id
        PROVE  x.entity = y.entity
    <3>1. x \in mem.entries
      BY <1>1, <1>2, <1>3, <2>1, <2>3
    <3> QED
      BY <2>3, <3>1 DEF IInv, DurableIdsNeverReused, OneEntityPerId
  <2>4. ASSUME NEW x \in durable, NEW y \in durable, x.id = y.id
        PROVE  x.entity = y.entity
    BY <2>4 DEF IInv, DurableIdsNeverReused, OneEntityPerId
  <2> QED
    BY <2>2, <2>3, <2>4 DEF OneEntityPerId
<1>6. CASE disk' = s /\ unsaved' = FALSE /\ durable' = durable \cup s.entries
           /\ failures' = failures
  <2>1. TypeOK'
    BY <1>1, <1>6 DEF IInv, TypeOK
  <2>2. CountersAbove'
    BY <1>1, <1>2, <1>3, <1>4, <1>6 DEF IInv, CountersAbove
  <2>3. DurableIdsNeverReused'
    BY <1>5, <1>6 DEF DurableIdsNeverReused, OneEntityPerId
  <2> QED
    BY <1>1, <1>6, <2>1, <2>2, <2>3 DEF IInv, RestartTransparent
<1>7. CASE /\ failures < MaxSaveFailures /\ failures' = failures + 1
           /\ unsaved' = TRUE /\ UNCHANGED <<disk, durable>>
  <2>1. TypeOK'
    BY <1>7, RegistryAssumption DEF IInv, TypeOK
  <2>2. CountersAbove'
    BY <1>1, <1>2, <1>7 DEF IInv, CountersAbove
  <2>3. DurableIdsNeverReused'
    BY <1>5, <1>7 DEF DurableIdsNeverReused, OneEntityPerId
  <2> QED
    BY <1>7, <2>1, <2>2, <2>3 DEF IInv, RestartTransparent
<1> QED
  BY <1>6, <1>7 DEF Save

LEMMA AddKeeps ==
  ASSUME IInv, NEW t \in Tabs, NEW e \in Entities, Add(t, e)
  PROVE  IInv'
<1>1. page' \in [Tabs -> SUBSET Entities]
  BY DEF Add, LeavePage, IInv, TypeOK
<1>2. mem.entries \in SUBSET Entry /\ mem.nextID \in Nat /\ promised \in SUBSET Entry
      /\ mem.nextID > 0
  BY DEF IInv, TypeOK, FileFormat, Healed
<1>3. CASE e \in Registered(mem)
  <2>1. Unchanged /\ promised' = promised \cup {x \in mem.entries : x.entity = e}
    BY <1>3 DEF Add
  <2> QED
    BY <1>1, <1>2, <2>1
    DEF Unchanged, IInv, TypeOK, CountersAbove, DurableIdsNeverReused, RestartTransparent
<1>4. CASE e \notin Registered(mem)
  <2> DEFINE entry == [id |-> mem.nextID, entity |-> e]
             s == [mem EXCEPT !.nextID = @ + 1, !.entries = @ \cup {entry}]
  <2>1. /\ mem' = s /\ Save(s) /\ mem.nextID <= MaxId
        /\ promised' = IF unsaved' THEN promised ELSE promised \cup {entry}
    BY <1>4 DEF Add
  <2>2. entry \in Entry
    BY <1>2, <2>1, RegistryAssumption DEF Entry
  <2>3. /\ s.nextID = mem.nextID + 1
        /\ s.entries = mem.entries \cup {entry}
        /\ s.nextGroupID = mem.nextGroupID
        /\ s.groups = mem.groups
    BY DEF IInv, TypeOK, FileFormat
  <2>4. s \in FileFormat
    <3>1. mem.nextID + 1 \in Nat /\ mem.entries \cup {entry} \in SUBSET Entry
      BY <1>2, <2>2
    <3> HIDE DEF entry
    <3> QED
      BY <3>1 DEF IInv, TypeOK, FileFormat
  <2>5. Healed(s)
    BY <1>2, <2>3, RegistryAssumption DEF IInv, Healed, Ids, Entry
  <2>6. \A x \in mem.entries : x.id < mem.nextID /\ x.entity # e
    BY <1>4 DEF IInv, Healed, Ids, Registered
  <2>7. Distinct(s)
    BY <1>2, <2>3, <2>6, RegistryAssumption DEF IInv, Distinct, Entry
  <2>8. \A x \in s.entries : x \in mem.entries \/ x.id >= mem.nextID
    BY <1>2, <2>3
  <2>9. promised' \in SUBSET Entry
    BY <1>2, <2>1, <2>2, <2>3
  <2>10. s.nextID >= mem.nextID
    BY <1>2, <2>3
  <2> HIDE DEF s
  <2> QED
    BY <1>1, <2>1, <2>4, <2>5, <2>7, <2>8, <2>9, <2>10, SaveKeeps
<1> QED
  BY <1>3, <1>4

LEMMA RemoveKeeps ==
  ASSUME IInv, NEW t \in Tabs, NEW e \in Entities, Remove(t, e)
  PROVE  IInv'
<1>1. page' \in [Tabs -> SUBSET Entities]
  BY DEF Remove, LeavePage, IInv, TypeOK
<1>2. promised' \in SUBSET Entry
  BY DEF Remove, IInv, TypeOK
<1>3. CASE e \notin Registered(mem)
  <2>1. Unchanged
    BY <1>3 DEF Remove
  <2> QED
    BY <1>1, <1>2, <2>1
    DEF Unchanged, IInv, TypeOK, CountersAbove, DurableIdsNeverReused, RestartTransparent
<1>4. CASE e \in Registered(mem)
  <2> DEFINE kept == {x \in mem.entries : x.entity # e}
             stripped == {[g EXCEPT !.members = @ \ {e}] : g \in mem.groups}
             s == [mem EXCEPT !.entries = {x \in @ : x.entity # e},
                     !.groups = {[g EXCEPT !.members = @ \ {e}] : g \in @}]
  <2>1. mem' = s /\ Save(s)
    BY <1>4 DEF Remove
  <2>2. /\ s.nextID = mem.nextID /\ s.entries = kept
        /\ s.nextGroupID = mem.nextGroupID /\ s.groups = stripped
    BY DEF IInv, TypeOK, FileFormat
  <2>3. mem.groups \in SUBSET Group /\ mem.entries \in SUBSET Entry
        /\ mem.nextID \in Nat
    BY DEF IInv, TypeOK, FileFormat
  <2>4. \A g \in Group : /\ [g EXCEPT !.members = @ \ {e}] \in Group
                         /\ [g EXCEPT !.members = @ \ {e}].id = g.id
    BY DEF Group
  <2>5. kept \in SUBSET Entry /\ stripped \in SUBSET Group
    BY <2>3, <2>4
  <2>6. s \in FileFormat
    <3> HIDE DEF kept, stripped
    <3>1. s = [mem EXCEPT !.entries = kept, !.groups = stripped]
      BY DEF kept, stripped, IInv, TypeOK, FileFormat
    <3> QED
      BY <2>5, <3>1 DEF IInv, TypeOK, FileFormat
  <2>7. Healed(s)
    <3>1. Ids(s.entries) \subseteq Ids(mem.entries)
      BY <2>2 DEF Ids
    <3>2. Ids(s.groups) \subseteq Ids(mem.groups)
      BY <2>2, <2>3, <2>4 DEF Ids
    <3> QED
      BY <2>2, <3>1, <3>2 DEF IInv, Healed
  <2>8. Distinct(s)
    <3>1. \A x, y \in s.entries : x.id = y.id \/ x.entity = y.entity => x = y
      BY <2>2 DEF IInv, Distinct
    <3>2. ASSUME NEW g \in s.groups, NEW h \in s.groups, g.id = h.id PROVE g = h
      <4>1. PICK g0 \in mem.groups : g = [g0 EXCEPT !.members = @ \ {e}]
        BY <2>2
      <4>2. PICK h0 \in mem.groups : h = [h0 EXCEPT !.members = @ \ {e}]
        BY <2>2
      <4>3. g0.id = h0.id
        BY <2>3, <2>4, <3>2, <4>1, <4>2
      <4> QED
        BY <4>1, <4>2, <4>3 DEF IInv, Distinct
    <3> QED
      BY <3>1, <3>2 DEF Distinct
  <2>9. s.nextID >= mem.nextID
    BY <2>2, <2>3
  <2>10. \A x \in s.entries : x \in mem.entries \/ x.id >= mem.nextID
    BY <2>2
  <2> HIDE DEF s
  <2> QED
    BY <1>1, <1>2, <2>1, <2>6, <2>7, <2>8, <2>9, <2>10, SaveKeeps
<1> QED
  BY <1>3, <1>4

LEMMA AddGroupKeeps ==
  ASSUME IInv, NEW t \in Tabs, NEW members \in SUBSET Entities,
         AddGroup(t, members)
  PROVE  IInv'
<1> DEFINE id == IF mem.nextGroupID = 0 THEN 1 ELSE mem.nextGroupID
           group == [id |-> id, members |-> members]
           s == [mem EXCEPT !.nextGroupID = id + 1, !.groups = @ \cup {group}]
<1>1. page' \in [Tabs -> SUBSET Entities]
  BY DEF AddGroup, LeavePage, IInv, TypeOK
<1>2. promised' \in SUBSET Entry
  BY DEF AddGroup, IInv, TypeOK
<1>3. mem' = s /\ Save(s) /\ mem.nextGroupID <= MaxGroupId
  BY DEF AddGroup
<1>4. /\ mem.nextGroupID \in Nat /\ mem.nextGroupID > 0 /\ mem.nextID \in Nat
      /\ mem.groups \in SUBSET Group
  BY DEF IInv, TypeOK, FileFormat, Healed
<1>5. id = mem.nextGroupID /\ id \in 1..MaxGroupId
  BY <1>3, <1>4, RegistryAssumption
<1>6. group \in Group
  BY <1>5 DEF Group
<1>7. /\ s.nextID = mem.nextID /\ s.entries = mem.entries
      /\ s.nextGroupID = id + 1 /\ s.groups = mem.groups \cup {group}
  BY DEF IInv, TypeOK, FileFormat
<1>8. s \in FileFormat
  <2>1. id + 1 \in Nat /\ mem.groups \cup {group} \in SUBSET Group
    BY <1>4, <1>5, <1>6
  <2> HIDE DEF id, group
  <2> QED
    BY <2>1 DEF IInv, TypeOK, FileFormat
<1>9. \A g \in mem.groups : g.id \in Nat /\ g.id < id
  BY <1>4, <1>5, RegistryAssumption DEF IInv, Healed, Ids, Group
<1>10. Healed(s)
  BY <1>4, <1>5, <1>7, <1>9 DEF IInv, Healed, Ids
<1>11. Distinct(s)
  BY <1>5, <1>7, <1>9 DEF IInv, Distinct
<1>12. s.nextID >= mem.nextID
       /\ \A x \in s.entries : x \in mem.entries \/ x.id >= mem.nextID
  BY <1>4, <1>7
<1> HIDE DEF s
<1> QED
  BY <1>1, <1>2, <1>3, <1>8, <1>10, <1>11, <1>12, SaveKeeps

LEMMA RestartKeeps == IInv /\ Restart => IInv'
<1> SUFFICES ASSUME IInv, Restart PROVE IInv'
  OBVIOUS
<1>1. disk \in FileFormat \cup {NoFile} /\ (disk # NoFile => Distinct(disk))
  BY DEF IInv, TypeOK
<1>2. mem' \in FileFormat /\ Healed(mem') /\ Distinct(mem')
  BY <1>1, StartHeals DEF Restart
<1>3. mem'.entries \in SUBSET Entry /\ mem'.nextID \in Nat
  BY <1>2 DEF FileFormat
<1>4. TypeOK'
  BY <1>2, <1>3 DEF IInv, TypeOK, Restart
<1>5. CountersAbove'
  BY <1>3 DEF IInv, CountersAbove, Restart
<1>6. DurableIdsNeverReused'
  BY DEF IInv, DurableIdsNeverReused, OneEntityPerId, Restart
<1> QED
  BY <1>2, <1>4, <1>5, <1>6 DEF IInv, Restart, RestartTransparent

LEMMA NextIInv == IInv /\ [Next]_vars => IInv'
<1> SUFFICES ASSUME IInv, [Next]_vars PROVE IInv'
  OBVIOUS
<1>1. ASSUME NEW t \in Tabs, OpenPage(t) PROVE IInv'
  <2>1. Registered(mem) \in SUBSET Entities
    BY DEF IInv, TypeOK, FileFormat, Entry, Registered
  <2>2. page' \in [Tabs -> SUBSET Entities]
    BY <1>1, <2>1 DEF OpenPage, IInv, TypeOK
  <2> QED
    BY <1>1, <2>2 DEF OpenPage, Unchanged, IInv, TypeOK, CountersAbove,
                      DurableIdsNeverReused, RestartTransparent
<1>2. ASSUME NEW t \in Tabs, NEW e \in Entities, Add(t, e) \/ Remove(t, e)
      PROVE  IInv'
  BY <1>2, AddKeeps, RemoveKeeps
<1>3. ASSUME NEW t \in Tabs, NEW members \in SUBSET Entities, AddGroup(t, members)
      PROVE  IInv'
  BY <1>3, AddGroupKeeps
<1>4. CASE Restart
  BY <1>4, RestartKeeps
<1>5. CASE UNCHANGED vars
  BY <1>5 DEF vars, IInv, TypeOK, CountersAbove, DurableIdsNeverReused,
              RestartTransparent
<1> QED
  BY <1>1, <1>2, <1>3, <1>4, <1>5 DEF Next

LEMMA InvariantIInv == Spec => []IInv
  BY InitIInv, NextIInv, PTL DEF Spec

-----------------------------------------------------------------------------
(* Refinement: Registry implements IdBook.                                 *)

LEMMA BookInit == Init => Book!Init
<1> SUFFICES ASSUME Init PROVE Book!Init
  OBVIOUS
<1>1. mem \in FileFormat /\ Distinct(mem)
  BY StartHeals, RegistryAssumption DEF Init
<1> QED
  BY <1>1 DEF Init, Book!Init, Distinct, FileFormat

\* What a save does to the book, when memory is healed, as it always is.
LEMMA SaveWrites ==
  ASSUME NEW s \in FileFormat, Healed(s), mem' = s, Save(s)
  PROVE  Book!MayWrite
<1>1. NewRegistry(s) = s
  BY StartRestores
<1>2. CASE disk' = s /\ durable' = durable \cup s.entries
  BY <1>1, <1>2 DEF Book!MayWrite, Book!Write
<1>3. CASE UNCHANGED <<disk, durable>>
  BY <1>3 DEF Book!MayWrite
<1> QED
  BY <1>2, <1>3 DEF Save

LEMMA BookNext ==
  ASSUME IInv, [Next]_vars
  PROVE  [Book!Next]_(Book!vars)
<1>1. mem \in FileFormat /\ mem.entries \in SUBSET Entry /\ mem.nextID \in Nat
  BY DEF IInv, TypeOK, FileFormat
<1>2. mem' \in FileFormat /\ Healed(mem')
  BY NextIInv DEF IInv, TypeOK
<1>3. ASSUME Save(mem') PROVE Book!MayWrite
  BY <1>2, <1>3, SaveWrites
<1>4. ASSUME UNCHANGED <<mem, disk, durable>> PROVE UNCHANGED Book!vars
  BY <1>4 DEF Book!vars
<1>5. ASSUME NEW t \in Tabs, OpenPage(t) PROVE UNCHANGED Book!vars
  BY <1>4, <1>5 DEF OpenPage, Unchanged
<1>6. ASSUME NEW t \in Tabs, NEW e \in Entities, Add(t, e)
      PROVE  [Book!Next]_(Book!vars)
  <2>1. CASE e \in Registered(mem)
    BY <1>4, <1>6, <2>1 DEF Add, Unchanged
  <2>2. CASE e \notin Registered(mem)
    <3> DEFINE entry == [id |-> mem.nextID, entity |-> e]
    <3>1. /\ mem' = [mem EXCEPT !.nextID = @ + 1, !.entries = @ \cup {entry}]
          /\ Save(mem') /\ mem.nextID <= MaxId
      BY <1>6, <2>2 DEF Add
    <3>2. mem'.entries = mem.entries \cup {entry}
      BY <1>1, <3>1 DEF FileFormat
    <3>3. entry \in Entry /\ entry.id = mem.nextID /\ entry.entity = e
      <4>1. mem.nextID \in 1..MaxId
        BY <1>1, <3>1, RegistryAssumption DEF IInv, Healed
      <4> QED
        BY <4>1 DEF Entry
    <3>4. \A y \in mem.entries : y.id # mem.nextID /\ y.entity # e
      <4>1. \A y \in Entry : y.id \in Nat
        BY RegistryAssumption DEF Entry
      <4>2. \A y \in mem.entries : y.id < mem.nextID
        BY DEF IInv, Healed, Ids
      <4>3. \A y \in mem.entries : y.entity # e
        BY <2>2 DEF Registered
      <4> QED
        BY <1>1, <4>1, <4>2, <4>3
    <3>5. \A y \in durable : y.id # mem.nextID
      <4>1. \A y \in Entry : y.id \in Nat
        BY RegistryAssumption DEF Entry
      <4>2. durable \in SUBSET Entry /\ NewRegistry(disk).nextID \in Nat
        BY StartHeals DEF IInv, TypeOK, FileFormat
      <4> QED
        BY <1>1, <4>1, <4>2 DEF IInv, CountersAbove
    <3> HIDE DEF entry
    <3>6. Book!Assign(entry)
      BY <1>3, <3>1, <3>2, <3>3, <3>4, <3>5 DEF Book!Assign
    <3> QED
      BY <3>3, <3>6 DEF Book!Next
  <2> QED
    BY <2>1, <2>2
<1>7. ASSUME NEW t \in Tabs, NEW e \in Entities, Remove(t, e)
      PROVE  [Book!Next]_(Book!vars)
  <2>1. CASE e \notin Registered(mem)
    BY <1>4, <1>7, <2>1 DEF Remove, Unchanged
  <2>2. CASE e \in Registered(mem)
    <3>1. mem'.entries = {x \in mem.entries : x.entity # e} /\ Save(mem')
      BY <1>1, <1>7, <2>2 DEF Remove, FileFormat
    <3>2. PICK x \in mem.entries : x.entity = e
      BY <2>2 DEF Registered
    <3>3. mem'.entries = mem.entries \ {x}
      BY <3>1, <3>2 DEF IInv, Distinct
    <3>4. Book!Withdraw(x)
      BY <1>3, <3>1, <3>2, <3>3 DEF Book!Withdraw
    <3> QED
      BY <1>1, <3>2, <3>4 DEF Book!Next
  <2> QED
    BY <2>1, <2>2
<1>8. ASSUME NEW t \in Tabs, NEW members \in SUBSET Entities, AddGroup(t, members)
      PROVE  [Book!Next]_(Book!vars)
  <2>1. mem'.entries = mem.entries /\ Save(mem')
    BY <1>1, <1>8 DEF AddGroup, FileFormat
  <2> QED
    BY <1>3, <2>1 DEF Book!MayWrite, Book!Rewrite, Book!Next, Book!vars
<1>9. CASE Restart
  <2>1. Book!Reload
    BY <1>9 DEF Restart, Book!Reload
  <2> QED
    BY <2>1 DEF Book!Next
<1>10. CASE UNCHANGED vars
  BY <1>4, <1>10 DEF vars
<1> QED
  BY <1>5, <1>6, <1>7, <1>8, <1>9, <1>10 DEF Next

-----------------------------------------------------------------------------
(* Theorems.                                                               *)

\* The registry's state has the shape of fileFormat in every reachable state
\* (registry.go:14-38).
THEOREM TypeCorrect == Spec => []TypeOK
  BY InvariantIInv, PTL DEF IInv

\* No two lights and no two groups ever share an id, even after a start from
\* an edited file or failed saves (registry.go:47-69, 84-86, 162-168).
THEOREM AlwaysUniqueIds == Spec => []UniqueIds
<1>1. IInv => UniqueIds
  BY DEF IInv, UniqueIds, Healed
<1> QED
  BY <1>1, InvariantIInv, PTL

\* An id that reached registry.json is never given to another entity, across
\* any restarts and failed saves (registry.go:1-4).
THEOREM NeverReused == Spec => []DurableIdsNeverReused
  BY InvariantIInv, PTL DEF IInv

\* Registry implements IdBook: ids are assigned once and never reused
\* (registry.go:1-4), whatever the file says at first and whichever saves fail.
THEOREM RefinesBook == Spec => ImplementsIdBook
<1>1. IInv /\ [Next]_vars => [Book!Next]_(Book!vars)
  BY BookNext
<1> QED
  BY <1>1, BookInit, InvariantIInv, PTL DEF Spec, ImplementsIdBook, Book!Spec

\* Unless the last save failed, a restart changes nothing that the registry
\* serves (registry.go:3-4).
THEOREM Restartable == Spec => []RestartTransparent
  BY InvariantIInv, PTL DEF IInv

\* What NoPhantomMembers says of one step: a phantom of the state after it is
\* one of the state before.
LEMMA StepMakesNoPhantom ==
  ASSUME IInv, Next, ~unsaved, \A t \in Tabs : page[t] \subseteq Registered(mem)
  PROVE  Phantoms(mem') \subseteq Phantoms(mem)
<1>1. mem.groups \in SUBSET Group /\ mem.entries \in SUBSET Entry
  BY DEF IInv, TypeOK, FileFormat
<1>2. CASE UNCHANGED mem
  BY <1>2
<1>3. ASSUME NEW t \in Tabs, NEW e \in Entities, Add(t, e),
             e \notin Registered(mem)
      PROVE  Phantoms(mem') \subseteq Phantoms(mem)
  <2>1. mem'.groups = mem.groups /\ mem.entries \subseteq mem'.entries
    BY <1>3 DEF Add, IInv, TypeOK, FileFormat
  <2> QED
    BY <2>1 DEF Phantoms, Registered
<1>4. ASSUME NEW t \in Tabs, NEW e \in Entities, Remove(t, e), e \in Registered(mem)
      PROVE  Phantoms(mem') \subseteq Phantoms(mem)
  <2>1. /\ mem'.groups = {[g EXCEPT !.members = @ \ {e}] : g \in mem.groups}
        /\ mem'.entries = {x \in mem.entries : x.entity # e}
    BY <1>4 DEF Remove, IInv, TypeOK, FileFormat
  <2>2. \A g \in Group : [g EXCEPT !.members = @ \ {e}].members = g.members \ {e}
    BY DEF Group
  <2>3. Registered(mem') = Registered(mem) \ {e}
    BY <2>1 DEF Registered
  <2>4. ASSUME NEW x \in Phantoms(mem') PROVE x \in Phantoms(mem)
    <3>1. PICK h \in mem'.groups : x \in h.members
      BY DEF Phantoms
    <3>2. PICK g \in mem.groups : h = [g EXCEPT !.members = @ \ {e}]
      BY <2>1
    <3>3. x \in g.members /\ x # e
      BY <1>1, <2>2, <3>1, <3>2
    <3> QED
      BY <2>3, <3>3 DEF Phantoms
  <2> QED
    BY <2>4
<1>5. ASSUME NEW t \in Tabs, NEW members \in SUBSET Entities, AddGroup(t, members)
      PROVE  Phantoms(mem') \subseteq Phantoms(mem)
  <2>1. PICK i : mem'.groups = mem.groups \cup {[id |-> i, members |-> members]}
    BY <1>5 DEF AddGroup, IInv, TypeOK, FileFormat
  <2>2. mem'.entries = mem.entries
    BY <1>5 DEF AddGroup, IInv, TypeOK, FileFormat
  <2>3. members \subseteq Registered(mem)
    BY <1>5 DEF AddGroup
  <2> QED
    BY <2>1, <2>2, <2>3 DEF Phantoms, Registered
<1>6. CASE Restart
  BY <1>6, <1>2 DEF Restart, IInv, RestartTransparent
<1> QED
  BY <1>2, <1>3, <1>4, <1>5, <1>6 DEF Next, OpenPage, Add, Remove, Unchanged

\* Only a form older than a removal, or a restart after a failed save, can
\* give a group a member without a registry entry (registry.go:104-120,
\* 160-173), from any file and with any number of tabs.
THEOREM PhantomsNeedStalePages == Spec => NoPhantomMembers
<1>1. IInv /\ [Next]_vars =>
        [~unsaved /\ (\A t \in Tabs : page[t] \subseteq Registered(mem))
            => Phantoms(mem') \subseteq Phantoms(mem)]_vars
  BY StepMakesNoPhantom
<1> QED
  BY <1>1, InvariantIInv, PTL DEF Spec, NoPhantomMembers

\* An entity that the page said was added is there with its id after a restart
\* as long as no save has failed (registry.go:74-92): what AckedEntriesSurvive
\* asks, with the one condition that it lacks.
SavedEntriesSurvive == failures = 0 => AckedEntriesSurvive

\* Until a save fails the file is what memory is, and has what was promised.
Kept == failures = 0 => ~unsaved /\ promised \subseteq mem.entries

LEMMA KeptNext ==
  ASSUME IInv, Kept, [Next]_vars
  PROVE  Kept'
<1> SUFFICES ASSUME failures' = 0
             PROVE  ~unsaved' /\ promised' \subseteq mem'.entries
  BY DEF Kept
<1>1. failures \in Nat /\ mem \in FileFormat
  BY RegistryAssumption DEF IInv, TypeOK
<1>2. ASSUME NEW s, Save(s) PROVE failures = 0 /\ ~unsaved'
  BY <1>1, <1>2 DEF Save
<1>3. ASSUME NEW t \in Tabs, NEW e \in Entities, Add(t, e)
      PROVE  ~unsaved' /\ promised' \subseteq mem'.entries
  <2>1. CASE e \in Registered(mem)
    BY <1>3, <2>1 DEF Add, Unchanged, Kept
  <2>2. CASE e \notin Registered(mem)
    <3> DEFINE entry == [id |-> mem.nextID, entity |-> e]
    <3>1. /\ mem' = [mem EXCEPT !.nextID = @ + 1, !.entries = @ \cup {entry}]
          /\ Save(mem')
          /\ promised' = IF unsaved' THEN promised ELSE promised \cup {entry}
      BY <1>3, <2>2 DEF Add
    <3>2. mem'.entries = mem.entries \cup {entry}
      BY <1>1, <3>1 DEF FileFormat
    <3> QED
      BY <1>2, <3>1, <3>2 DEF Kept
  <2> QED
    BY <2>1, <2>2
<1>4. ASSUME NEW t \in Tabs, NEW e \in Entities, Remove(t, e)
      PROVE  ~unsaved' /\ promised' \subseteq mem'.entries
  <2>1. promised' = {x \in promised : x.entity # e}
    BY <1>4 DEF Remove
  <2>2. CASE e \notin Registered(mem)
    BY <1>4, <2>1, <2>2 DEF Remove, Unchanged, Kept
  <2>3. CASE e \in Registered(mem)
    <3>1. mem'.entries = {x \in mem.entries : x.entity # e} /\ Save(mem')
      BY <1>1, <1>4, <2>3 DEF Remove, FileFormat
    <3> QED
      BY <1>2, <2>1, <3>1 DEF Kept
  <2> QED
    BY <2>2, <2>3
<1>5. ASSUME NEW t \in Tabs, NEW members \in SUBSET Entities, AddGroup(t, members)
      PROVE  ~unsaved' /\ promised' \subseteq mem'.entries
  <2>1. mem'.entries = mem.entries /\ Save(mem') /\ promised' = promised
    BY <1>1, <1>5 DEF AddGroup, FileFormat
  <2> QED
    BY <1>2, <2>1 DEF Kept
<1>6. CASE Restart
  BY <1>6 DEF Restart, Kept, IInv, RestartTransparent
<1>7. CASE UNCHANGED vars
  BY <1>7 DEF vars, Kept
<1>8. ASSUME NEW t \in Tabs, OpenPage(t) PROVE ~unsaved' /\ promised' \subseteq mem'.entries
  BY <1>8 DEF OpenPage, Unchanged, Kept
<1> QED
  BY <1>3, <1>4, <1>5, <1>6, <1>7, <1>8 DEF Next

\* While saves work, every entry that was reported as added survives a restart
\* (registry.go:74-92, registry_test.go:34-57).
THEOREM SavedSurvive == Spec => []SavedEntriesSurvive
<1>1. Init => Kept
  BY DEF Init, Kept
<1>2. IInv /\ Kept /\ [Next]_vars => Kept'
  BY KeptNext
<1>3. IInv /\ Kept => SavedEntriesSurvive
  BY DEF IInv, Kept, RestartTransparent, SavedEntriesSurvive, AckedEntriesSurvive
<1> QED
  BY <1>1, <1>2, <1>3, InvariantIInv, PTL DEF Spec
=============================================================================
