------------------------------ MODULE Registry ------------------------------
(***************************************************************************)
(* registry.Registry (internal/registry/registry.go) and the admin page    *)
(* that edits it (internal/ingress/ingress.go).  The registry gives each   *)
(* Home Assistant entity a numeric Hue light id and keeps the groups.  It  *)
(* lives in memory, and every change is saved to registry.json while r.mu  *)
(* is held, so each method is one step; a save either installs the whole   *)
(* file or fails and changes nothing (JSONFile's theorem Refinement).      *)
(* What is left to go wrong: a save that fails after memory has changed,   *)
(* a restart, a hand-edited file, and a browser tab whose page is older    *)
(* than the registry.                                                      *)
(*                                                                         *)
(* Left out: names and classes, and the order of the lists.                *)
(***************************************************************************)
EXTENDS Naturals, FiniteSetsExt

CONSTANTS
    Entities,         \* Home Assistant entity ids
    Tabs,             \* browser tabs showing the admin page
    FirstFiles,       \* contents registry.json may have at the first start
    NoFile,           \* there is no registry.json
    MaxId,            \* bound: no light id above this is assigned
    MaxGroupId,       \* bound: no group id above this is assigned
    MaxSaveFailures   \* bound: how many saves fail

Entry == [id : 1..MaxId, entity : Entities]
Group == [id : 1..MaxGroupId, members : SUBSET Entities]

\* fileFormat, both what registry.json holds and Registry.state.
FileFormat == [nextID : Nat, entries : SUBSET Entry,
               nextGroupID : Nat, groups : SUBSET Group]

Ids(S) == {x.id : x \in S}
Registered(state) == {e.entity : e \in state.entries}

\* No two entries share an id or an entity, no two groups an id.
Distinct(state) ==
    /\ \A e, f \in state.entries : e.id = f.id \/ e.entity = f.entity => e = f
    /\ \A g, h \in state.groups : g.id = h.id => g = h

\* Members of groups with no registry entry.
Phantoms(state) == (UNION {g.members : g \in state.groups}) \ Registered(state)

\* A first file may have been edited by hand, so its counters can be
\* anything; it may not repeat an id.
ASSUME RegistryAssumption ==
    /\ MaxId \in Nat
    /\ MaxGroupId \in Nat
    /\ MaxSaveFailures \in Nat
    /\ FirstFiles \subseteq FileFormat
    /\ NoFile \notin FileFormat
    /\ \A file \in FirstFiles : Distinct(file) /\ Phantoms(file) = {}

VARIABLES
    mem,          \* Registry.state
    disk,         \* registry.json
    page,         \* page[t]: the entities tab t shows, each with its delete
                  \* button and its checkbox in the group form
    \* The rest is bookkeeping that the code does not have.
    unsaved,      \* the last save failed: memory is ahead of the file
    failures,     \* how many saves have failed
    durable,      \* every entry the file has ever held
    promised      \* the entries whose Add reported success, until a Remove

vars == <<mem, disk, page, unsaved, failures, durable, promised>>

Fresh == [nextID |-> 1, entries |-> {}, nextGroupID |-> 1, groups |-> {}]

\* Seeded bug: the self-heal compares with < where it needs <=.
HealStrict(state) ==
    LET maxHueID == Max({0} \cup Ids(state.entries))
        maxGroupHueID == Max({0} \cup Ids(state.groups))
    IN  [state EXCEPT
            !.nextID = IF @ < maxHueID THEN maxHueID + 1 ELSE @,
            !.nextGroupID = IF @ < maxGroupHueID THEN maxGroupHueID + 1 ELSE @]

\* Seeded bug: a start counts the ids in use, whatever the saved counters say.
HealRecounts(state) ==
    [state EXCEPT !.nextID = Max({0} \cup Ids(state.entries)) + 1,
                  !.nextGroupID = Max({0} \cup Ids(state.groups)) + 1]

\* NewRegistry's self-heal: the counters end up above every id in use.
Heal(state) ==
    LET maxHueID == Max({0} \cup Ids(state.entries))
        maxGroupHueID == Max({0} \cup Ids(state.groups))
    IN  [state EXCEPT
            !.nextID = IF @ <= maxHueID THEN maxHueID + 1 ELSE @,
            !.nextGroupID = IF @ <= maxGroupHueID THEN maxGroupHueID + 1 ELSE @]

\* NewRegistry: what memory holds after a start with this file.
NewRegistry(file) == Heal(IF file = NoFile THEN Fresh ELSE file)

Init == /\ disk \in FirstFiles \cup {NoFile}
        /\ mem = NewRegistry(disk)
        /\ page = [t \in Tabs |-> {}]
        /\ unsaved = FALSE
        /\ failures = 0
        /\ durable = mem.entries
        /\ promised = mem.entries

\* r.file.Save(r.state), the last statement of every method that changes
\* anything.  A failure is reported, but memory keeps the change.
Save(state) == \/ /\ disk' = state
                  /\ unsaved' = FALSE
                  /\ durable' = durable \cup state.entries
                  /\ UNCHANGED failures
               \/ /\ failures < MaxSaveFailures
                  /\ failures' = failures + 1
                  /\ unsaved' = TRUE
                  /\ UNCHANGED <<disk, durable>>

Unchanged == UNCHANGED <<mem, disk, unsaved, failures, durable>>

\* GET /: the tab shows the entries of this moment, and keeps showing them.
OpenPage(t) == /\ page' = [page EXCEPT ![t] = Registered(mem)]
               /\ Unchanged
               /\ UNCHANGED promised

\* After a POST the tab no longer shows the forms: it is redirected to GET /,
\* an OpenPage of its own, or shows an error.
LeavePage(t) == page' = [page EXCEPT ![t] = {}]

\* Seeded bug: the lowest free id is given out instead of a new one.
AddLowestFree(t, e) ==
    /\ e \notin Registered(mem)
    /\ LET i == Min((1..MaxId + 1) \ Ids(mem.entries))
       IN  /\ i <= MaxId
           /\ mem' = [mem EXCEPT !.nextID = Max({@, i + 1}),
                                 !.entries = @ \cup {[id |-> i, entity |-> e]}]
    /\ Save(mem')
    /\ LeavePage(t)
    /\ UNCHANGED promised

\* POST /entities.  Adding an entity that is registered returns the entry it
\* has and saves nothing, even if the save of that entry had failed.
Add(t, e) ==
    /\ \/ /\ e \in Registered(mem)
          /\ Unchanged
          /\ promised' = promised \cup {x \in mem.entries : x.entity = e}
       \/ /\ e \notin Registered(mem)
          /\ mem.nextID <= MaxId
          /\ LET entry == [id |-> mem.nextID, entity |-> e]
             IN  /\ mem' = [mem EXCEPT !.nextID = @ + 1, !.entries = @ \cup {entry}]
                 /\ Save(mem')
                 /\ promised' = IF unsaved' THEN promised ELSE promised \cup {entry}
    /\ LeavePage(t)

\* Seeded bug: the entity stays in the groups it was in.
RemoveFromEntriesOnly(t, e) ==
    /\ e \in page[t]
    /\ mem' = [mem EXCEPT !.entries = {x \in @ : x.entity # e}]
    /\ Save(mem')
    /\ promised' = {x \in promised : x.entity # e}
    /\ LeavePage(t)

\* POST /entities/{id}/delete, from a page that shows the entity.  It leaves
\* every group too.
Remove(t, e) ==
    /\ e \in page[t]
    /\ \/ /\ e \notin Registered(mem)
          /\ Unchanged
       \/ /\ e \in Registered(mem)
          /\ mem' = [mem EXCEPT
                !.entries = {x \in @ : x.entity # e},
                !.groups = {[g EXCEPT !.members = @ \ {e}] : g \in @}]
          /\ Save(mem')
    /\ promised' = {x \in promised : x.entity # e}
    /\ LeavePage(t)

\* Seeded bug: the new group is not saved.
AddGroupUnsaved(t, members) ==
    /\ members # {}
    /\ members \subseteq page[t]
    /\ mem.nextGroupID <= MaxGroupId
    /\ mem' = [mem EXCEPT
          !.nextGroupID = @ + 1,
          !.groups = @ \cup {[id |-> mem.nextGroupID, members |-> members]}]
    /\ LeavePage(t)
    /\ UNCHANGED <<disk, unsaved, failures, durable, promised>>

\* POST /groups, with some of the boxes ticked that the tab shows.  AddGroup
\* does not look at the entries.
AddGroup(t, members) ==
    /\ members # {}
    /\ members \subseteq page[t]
    /\ mem.nextGroupID <= MaxGroupId
    /\ LET id == IF mem.nextGroupID = 0 THEN 1 ELSE mem.nextGroupID
       IN  mem' = [mem EXCEPT !.nextGroupID = id + 1,
                              !.groups = @ \cup {[id |-> id, members |-> members]}]
    /\ Save(mem')
    /\ LeavePage(t)
    /\ UNCHANGED promised

\* The process stops or dies and starts again; the tabs do not notice.
Restart == /\ mem' = NewRegistry(disk)
           /\ unsaved' = FALSE
           /\ UNCHANGED <<disk, page, failures, durable, promised>>

Next == \/ \E t \in Tabs :
              \/ OpenPage(t)
              \/ \E e \in Entities : Add(t, e) \/ Remove(t, e)
              \/ \E members \in SUBSET Entities : AddGroup(t, members)
        \/ Restart

Spec == Init /\ [][Next]_vars

-----------------------------------------------------------------------------
(* Properties.                                                             *)

TypeOK == /\ mem \in FileFormat
          /\ disk \in FileFormat \cup {NoFile}
          /\ page \in [Tabs -> SUBSET Entities]
          /\ unsaved \in BOOLEAN
          /\ failures \in 0..MaxSaveFailures
          /\ durable \in SUBSET Entry
          /\ promised \in SUBSET Entry

\* No two lights, and no two groups, answer to the same id, and the id that
\* comes next is new, whatever the file said and whichever saves failed.
UniqueIds == /\ Distinct(mem)
             /\ \A i \in Ids(mem.entries) : i < mem.nextID
             /\ \A i \in Ids(mem.groups) : i < mem.nextGroupID

\* "Ids are assigned once and never reused" (registry.go:1-4), for the ids
\* that reached the file: across restarts and failed saves, no such id is
\* ever given to another entity, in the file or in memory.
OneEntityPerId(entries) ==
    \A x, y \in entries : x.id = y.id => x.entity = y.entity
DurableIdsNeverReused == OneEntityPerId(durable \cup mem.entries)

\* To the apps the registry is the book of ids of IdBook: an id is given to one
\* entity, once, although the counter is derived anew at each start, saves fail
\* behind memory's back and files are edited (registry.go:47-69, 74-126).
Book == INSTANCE IdBook
          WITH Entries <- Entry, served <- mem.entries,
               saved <- NewRegistry(disk).entries, book <- durable
ImplementsIdBook == Book!Spec

\* "stable across restarts" (registry.go:3-4): unless the last save failed,
\* a restart would bring back exactly the entries, groups and counters that
\* memory holds.
RestartTransparent == ~unsaved => NewRegistry(disk) = mem

\* An entity that the page said was added, and that nobody has asked to
\* remove since, is there with the same id after a restart (the test
\* TestRegistry_IDsSurviveReload, registry_test.go:34-57).  A retry of an Add
\* whose save failed breaks this.
AckedEntriesSurvive == promised \subseteq NewRegistry(disk).entries

\* No step gives a group "members with no registry entry, which renders as a
\* phantom light id" (registry.go:110-112), as long as the pages in use show
\* no entity that was removed since and the file is not behind memory.  A
\* group form older than a removal does make one: AddGroup checks nothing.
NoPhantomMembers ==
    [][~unsaved /\ (\A t \in Tabs : page[t] \subseteq Registered(mem))
            => Phantoms(mem') \subseteq Phantoms(mem)]_vars
=============================================================================
