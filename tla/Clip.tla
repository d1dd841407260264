-------------------------------- MODULE Clip --------------------------------
(***************************************************************************)
(* The CLIP handlers for lights and groups (internal/hue/lights.go and     *)
(* groups.go), and what POST /scenes reads of a group (scenes.go).  None   *)
(* of them is atomic: each copies what it needs out of the registry, and   *)
(* then makes one backend call after the other, while the admin page edits *)
(* the registry, other apps command the same lights and the lights change  *)
(* on their own.                                                           *)
(*                                                                         *)
(* The registry's operations are one step each, as its lock makes them.    *)
(* So are the backend's, which no lock does: a read is taken from a        *)
(* snapshot that is current, and a command changes the light and the       *)
(* snapshot at once.  StateCache looks at what lies between.  Left out:    *)
(* names and colour, which is carried along as brightness is.  The code    *)
(* goes through lights and members in the registry's order; no property    *)
(* depends on it, and here they come in any order.                         *)
(***************************************************************************)
EXTENDS Naturals

CONSTANTS
    Entities,
    Requests,        \* goroutines that each serve one request, of any kind
    FirstRegistries, \* registries that the process may start with
    FirstLights,     \* the lights' states at first
    Levels,          \* brightnesses of a light that is on
    None,            \* no group; a key that a body or an answer does not have
    Odd,             \* a number that no uint8 can hold
    Other,           \* a value that is not of the type the code looks for
    Bodies,          \* what a PUT may ask for
    MaxID,           \* bound: ids that the registry hands out
    MaxErrors,       \* bound: how many backend calls fail
    MaxSwitches      \* bound: how often a light changes on its own

Off == 0             \* the state of a light: its brightness, or Off
Entry == [id : 1..MaxID, entity : Entities]
EntitiesOf(es) == {x.entity : x \in es}
Registry == [entries : SUBSET Entry, nextID : 1..(MaxID + 1),
             members : {None} \cup SUBSET Entities]
\* What the body of a PUT has under "on" and "bri", and whether it has any of
\* hue, sat and transitiontime, which no handler reads.
Body == [on : BOOLEAN \cup {None, Other}, bri : Levels \cup {Off, None, Odd, Other},
         unread : BOOLEAN]

ASSUME ClipAssumption ==
    /\ \A mark \in {None, Odd, Other} : mark \notin Levels \cup {Off} /\ mark \notin BOOLEAN
    /\ None # Odd /\ None # Other /\ Odd # Other
    /\ Levels \subseteq 1..255
    /\ Bodies \subseteq Body
    /\ {MaxID, MaxErrors, MaxSwitches} \subseteq Nat
    /\ FirstRegistries \subseteq Registry
    /\ \A reg \in FirstRegistries :
          reg.members # None => reg.members \subseteq EntitiesOf(reg.entries)
    /\ FirstLights \subseteq [Entities -> Levels \cup {Off}]

VARIABLES
    entries,   \* the registry's entries
    nextID,
    members,   \* EntityIDs of the one group, None until there is one
    light,     \* light[e]: the state of the light, and of the cache's snapshot of it
    req,       \* req[r]: how far goroutine r is
    errors, switches,
    \* Bookkeeping that the code does not have:
    during     \* during[r]: what was true at some moment of request r

vars == <<entries, nextID, members, light, req, errors, switches, during>>

Nothing == [states |-> [e \in Entities |-> {}], registered |-> {}]
Idle == [pc |-> "idle"]
Done == [pc |-> "done"]
\* toGroup's variables; action is the representative brightness, and none is
\* chosen as long as it is {}.
Report == [lights : SUBSET (1..MaxID), allOn : BOOLEAN, anyOn : BOOLEAN,
           action : SUBSET (Levels \cup {Off})]
Request ==
    {Idle, Done}
    \cup [pc : {"lights"}, todo : SUBSET Entry, asked : SUBSET Entities,
          out : SUBSET [entry : Entry, state : Levels \cup {Off, None}]]
    \cup [pc : {"capture"}, todo : SUBSET Entities, asked : SUBSET Entities,
          out : SUBSET [entity : Entities, state : Levels \cup {Off}]]
    \cup [pc : {"lookup"}, todo : SUBSET Entities, asked : SUBSET Entities, out : Report]
    \cup [pc : {"state"}, todo : SUBSET Entities, asked : SUBSET Entities, out : Report,
          current : Entities]
    \cup [pc : {"light", "group", "echo"}, todo : SUBSET Entities, asked : SUBSET Entities,
          body : Body]
Step(r, next) == req' = [req EXCEPT ![r] = next]

Registered == EntitiesOf(entries)
WithID(id) == EntitiesOf({x \in entries : x.id = id})

Init == /\ \E reg \in FirstRegistries :
              entries = reg.entries /\ nextID = reg.nextID /\ members = reg.members
        /\ light \in FirstLights
        /\ req = [r \in Requests |-> Idle]
        /\ errors = 0 /\ switches = 0
        /\ during = [r \in Requests |-> Nothing]

Error == errors < MaxErrors /\ errors' = errors + 1

-----------------------------------------------------------------------------
(* The registry, as the admin page edits it, and the lights.               *)

Add(e) == /\ e \notin Registered /\ nextID <= MaxID
          /\ entries' = entries \cup {[id |-> nextID, entity |-> e]}
          /\ nextID' = nextID + 1
          /\ UNCHANGED <<members, light, req, errors, switches>>

\* Seeded bug: the entity stays in the group.
RemoveEntryOnly(e) ==
    /\ e \in Registered
    /\ entries' = {x \in entries : x.entity # e}
    /\ UNCHANGED <<nextID, members, light, req, errors, switches>>

Remove(e) == /\ e \in Registered
             /\ entries' = {x \in entries : x.entity # e}
             /\ members' = IF members = None THEN None ELSE members \ {e}
             /\ UNCHANGED <<nextID, light, req, errors, switches>>

\* The group is made, on a page that shows the registry as it is (Registry has
\* the pages that do not).
AddGroup == /\ members = None
            /\ members' \in SUBSET Registered \ {{}}
            /\ UNCHANGED <<entries, nextID, light, req, errors, switches>>

Switch(e) == /\ switches < MaxSwitches
             /\ switches' = switches + 1
             /\ \E s \in (Levels \cup {Off}) \ {light[e]} : light' = [light EXCEPT ![e] = s]
             /\ UNCHANGED <<entries, nextID, members, req, errors>>

-----------------------------------------------------------------------------
(* GET /lights and /lights/{id}.                                           *)

LightsList(r) ==
    /\ req[r] = Idle
    /\ \E es \in {entries} \cup {{x} : x \in entries} :
          Step(r, [pc |-> "lights", todo |-> es, asked |-> EntitiesOf(es), out |-> {}])
    /\ UNCHANGED <<entries, nextID, members, light, errors, switches>>

\* A light whose state cannot be read is reported as off and unreachable,
\* without a brightness.
LightsRead(r, x) ==
    /\ req[r].pc = "lights" /\ x \in req[r].todo
    /\ LET next(s) == [req[r] EXCEPT !.todo = @ \ {x}, !.out = @ \cup {[entry |-> x, state |-> s]}]
       IN  \/ Step(r, next(light[x.entity])) /\ UNCHANGED errors
           \/ Error /\ Step(r, next(None))
    /\ UNCHANGED <<entries, nextID, members, light, switches>>

-----------------------------------------------------------------------------
(* GET /groups and /groups/{id}: toGroup.                                  *)

GroupStart(r) ==
    /\ req[r] = Idle
    /\ members # None
    /\ Step(r, [pc |-> "lookup", todo |-> members, asked |-> members,
                out |-> [lights |-> {}, allOn |-> TRUE, anyOn |-> FALSE, action |-> {}]])
    /\ UNCHANGED <<entries, nextID, members, light, errors, switches>>

\* reg.ByEntityID of the next member: one that is not registered is not listed.
GroupLookup(r, e) ==
    /\ req[r].pc = "lookup" /\ e \in req[r].todo
    /\ LET ids == {x.id : x \in {y \in entries : y.entity = e}}
       IN  Step(r, [pc |-> "state", todo |-> req[r].todo \ {e}, asked |-> req[r].asked,
                    out |-> [req[r].out EXCEPT !.lights = @ \cup ids], current |-> e])
    /\ UNCHANGED <<entries, nextID, members, light, errors, switches>>

\* One member's answer goes into the report.
Counted(out, is) == [out EXCEPT !.anyOn = @ \/ is # Off, !.allOn = @ /\ is # Off,
                                !.action = IF @ = {} THEN {is} ELSE @]

\* Seeded bug: a member that cannot be read does not count against allOn.
GroupReadLenient(r) ==
    /\ req[r].pc = "state"
    /\ LET next(out) == [pc |-> "lookup", todo |-> req[r].todo, asked |-> req[r].asked, out |-> out]
           out == req[r].out
       IN  \/ /\ Step(r, next(Counted(out, light[req[r].current])))
              /\ UNCHANGED errors
           \/ Error /\ Step(r, next(out))
    /\ UNCHANGED <<entries, nextID, members, light, switches>>

GroupRead(r) ==
    /\ req[r].pc = "state"
    /\ LET next(out) == [pc |-> "lookup", todo |-> req[r].todo, asked |-> req[r].asked, out |-> out]
           out == req[r].out
       IN  \/ /\ Step(r, next(Counted(out, light[req[r].current])))
              /\ UNCHANGED errors
           \/ Error /\ Step(r, next([out EXCEPT !.allOn = FALSE]))
    /\ UNCHANGED <<entries, nextID, members, light, switches>>

AllOn(r) == req[r].out.allOn /\ req[r].asked # {}

-----------------------------------------------------------------------------
(* POST /scenes, until it calls SceneStore.Create, where Scenes goes on.   *)

SceneStart(r) ==
    /\ req[r] = Idle
    /\ members # None
    /\ Step(r, [pc |-> "capture", todo |-> members, asked |-> members, out |-> {}])
    /\ UNCHANGED <<entries, nextID, members, light, errors, switches>>

\* A light that cannot be read is left out of the scene.
SceneCapture(r, e) ==
    /\ req[r].pc = "capture" /\ e \in req[r].todo
    /\ LET next == [req[r] EXCEPT !.todo = @ \ {e}]
       IN  \/ /\ Step(r, [next EXCEPT !.out = @ \cup {[entity |-> e, state |-> light[e]]}])
              /\ UNCHANGED errors
           \/ Error /\ Step(r, next)
    /\ UNCHANGED <<entries, nextID, members, light, switches>>

-----------------------------------------------------------------------------
(* PUT /lights/{id}/state and /groups/{id}/action.                         *)

\* uint8(v).  For a number out of its range the result depends on the
\* platform.
Uint8(v) == IF v = Odd THEN Levels \cup {Off} ELSE {v}

\* The DesiredState that a body is read as: what is of another type, or under
\* another key, is passed over.
Desired(body) == [on : {IF body.on = Other THEN None ELSE body.on},
                  bri : IF body.bri = Other THEN {None} ELSE Uint8(body.bri)]

\* What be.SetState makes of a light: a brightness alone does not turn it on,
\* and one that comes with "on" false is not looked at.  Home Assistant turns a
\* light off whose brightness is set to 0.
Becomes(is, on, bri) ==
    IF on = FALSE THEN {Off}
    ELSE IF on = None /\ (is = Off \/ bri = None) THEN {is}
    ELSE IF bri # None THEN {bri}
    ELSE IF is = Off THEN Levels ELSE {is}

\* reg.ByHueID and then the body: an unknown id is answered with error 3, a
\* body that is not JSON with error 2.
LightPut(r, id, body) ==
    /\ req[r] = Idle
    /\ \/ \E e \in WithID(id) :
             Step(r, [pc |-> "light", todo |-> {e}, asked |-> {e}, body |-> body])
       \/ Step(r, Done)
    /\ UNCHANGED <<entries, nextID, members, light, errors, switches>>

\* A body that is not JSON asks for nothing, and is not an error here.
GroupPut(r, body) ==
    /\ req[r] = Idle
    /\ members # None
    /\ \E b \in {body, [on |-> None, bri |-> None, unread |-> FALSE]} :
          Step(r, [pc |-> "group", todo |-> members, asked |-> members, body |-> b])
    /\ UNCHANGED <<entries, nextID, members, light, errors, switches>>

\* be.SetState of entity e, whether it is carried out.
SetState(r, e) ==
    \E d \in Desired(req[r].body) : \E s \in Becomes(light[e], d.on, d.bri) :
        light' = [light EXCEPT ![e] = s]

\* Seeded bug: a light's PUT goes on as a group's does.
LightSetIgnoresError(r, e) ==
    /\ req[r].pc = "light" /\ e \in req[r].todo
    /\ \/ SetState(r, e) /\ UNCHANGED errors
       \/ Error /\ UNCHANGED light
    /\ Step(r, [req[r] EXCEPT !.pc = "echo", !.todo = {}])
    /\ UNCHANGED <<entries, nextID, members, switches>>

\* A call that fails may have been carried out; the answer is error 901.
LightSet(r, e) ==
    /\ req[r].pc = "light" /\ e \in req[r].todo
    /\ \/ /\ SetState(r, e) /\ UNCHANGED errors
          /\ Step(r, [req[r] EXCEPT !.pc = "echo", !.todo = {}])
       \/ /\ Error /\ (SetState(r, e) \/ UNCHANGED light)
          /\ Step(r, Done)
    /\ UNCHANGED <<entries, nextID, members, switches>>

\* Of a group, the next member, whether the last call failed or not.
GroupSet(r, e) ==
    /\ req[r].pc = "group" /\ e \in req[r].todo
    /\ \/ SetState(r, e) /\ UNCHANGED errors
       \/ Error /\ (SetState(r, e) \/ UNCHANGED light)
    /\ Step(r, [req[r] EXCEPT !.todo = @ \ {e}])
    /\ UNCHANGED <<entries, nextID, members, switches>>

-----------------------------------------------------------------------------
\* The keys for which a PUT's answer has a success, with the value asked for,
\* whatever became of it.
Echoed(body) == {key \in DOMAIN body : IF key = "unread" THEN body.unread ELSE body[key] # None}

\* The end of every request.  A PUT answers with what is Echoed; a POST calls
\* SceneStore.Create.
Answer(r) ==
    /\ \/ req[r].pc \in {"lights", "lookup", "capture", "group"} /\ req[r].todo = {}
       \/ req[r].pc = "echo"
    /\ Step(r, Done)
    /\ UNCHANGED <<entries, nextID, members, light, errors, switches>>

\* Every request in progress watches, before and after each step, the states
\* of the lights it asks for, and a PUT what of them is registered.
Watch == during' = [r \in Requests |->
    IF req'[r] \in {Idle, Done} THEN Nothing
    ELSE [states |-> [e \in Entities |-> IF e \notin req'[r].asked \/ req'[r].pc = "group" THEN {}
                                         ELSE during[r].states[e] \cup {light[e], light'[e]}],
          registered |-> IF req'[r].pc \notin {"light", "group"} THEN {}
                         ELSE during[r].registered
                              \cup (req'[r].asked \cap (Registered \cup Registered'))]]

Handle(r) == \/ LightsList(r) \/ GroupStart(r) \/ SceneStart(r)
             \/ (\E x \in Entry : LightsRead(r, x)) \/ GroupRead(r)
             \/ \E e \in Entities : \/ GroupLookup(r, e) \/ SceneCapture(r, e)
                                    \/ LightSet(r, e) \/ GroupSet(r, e)
             \/ \E body \in Bodies : \/ \E id \in 1..MaxID : LightPut(r, id, body)
                                     \/ GroupPut(r, body)
             \/ Answer(r)

Next == /\ \/ (\E r \in Requests : Handle(r)) \/ AddGroup
           \/ \E e \in Entities : Add(e) \/ Remove(e) \/ Switch(e)
        /\ Watch

Spec == Init /\ [][Next]_vars

-----------------------------------------------------------------------------
(* Properties.                                                             *)

TypeOK == /\ [entries |-> entries, nextID |-> nextID, members |-> members] \in Registry
          /\ light \in [Entities -> Levels \cup {Off}]
          /\ \A r \in Requests : req[r] \in Request
          /\ errors \in 0..MaxErrors /\ switches \in 0..MaxSwitches

\* What a GET reports was true, if not all of it at one moment: a light that
\* could be read had the state it is reported in; all_on means that every
\* member was on and any_on that some member was, and the group's brightness
\* is one that a member had; and a scene keeps of every member a state that it
\* had, or none; all while the request was served (lights.go:42-55,
\* groups.go:16-39, scenes.go:155-163).
GroupWasSo(r) ==
    LET was(e) == during[r].states[e]
        asked == req[r].asked
    IN  /\ AllOn(r) => \A e \in asked : was(e) \cap Levels # {}
        /\ req[r].out.anyOn => \E e \in asked : was(e) \cap Levels # {}
        /\ AllOn(r) => req[r].out.anyOn
        /\ req[r].out.action \subseteq UNION {was(e) : e \in asked}
ReportsWereTrue ==
    \A r \in Requests :
        /\ req[r].pc = "lights" => \A l \in req[r].out :
              l.state # None => l.state \in during[r].states[l.entry.entity]
        /\ req[r].pc = "capture" => \A l \in req[r].out :
              l.state \in during[r].states[l.entity]
        /\ req[r].pc = "lookup" /\ req[r].todo = {} => GroupWasSo(r)

\* An app only ever commands entities that were exposed while it asked: one
\* that the admin page removed before is out of reach by its light and by its
\* group (registry.go:110-112, lights.go:85-89, groups.go:90-110).  Members
\* that a page older than their removal put into a group are left out here.
OnlyExposedAreCommanded ==
    \A r \in Requests :
        req[r].pc \in {"light", "group"} => req[r].todo \subseteq during[r].registered

\* What a light's PUT reports as done came about while it was served: the
\* light was on or off as asked, and had the brightness asked for unless it
\* was off (lights.go:97-127).  The answer is not to be believed about a value
\* that no uint8 can hold or that is of another type, about hue, sat and
\* transitiontime, which are not read, and about "on" with a brightness of 0 or
\* one that may be converted to it: that turns the light off.
Believable(body, key) ==
    \/ key = "on" /\ body.on \in BOOLEAN /\ (body.on => body.bri \notin {Off, Odd})
    \/ key = "bri" /\ body.bri \notin {Odd, Other}
CameAbout(body, key, was) ==
    CASE key = "on" -> IF body.on THEN was \cap Levels # {} ELSE Off \in was
      [] key = "bri" -> body.bri \in was \/ (body.on # TRUE /\ Off \in was)
EchoIsTrue ==
    \A r \in Requests : \A e \in Entities : req[r].pc = "echo" /\ e \in req[r].asked =>
        LET body == req[r].body
        IN  \A key \in Echoed(body) :
                Believable(body, key) => CameAbout(body, key, during[r].states[e])
=============================================================================
