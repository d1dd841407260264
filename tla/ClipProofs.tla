----------------------------- MODULE ClipProofs -----------------------------
(***************************************************************************)
(* Proofs about Clip, for any number of lights and requests, any           *)
(* brightnesses and bodies and any bounds.                                 *)
(***************************************************************************)
EXTENDS Clip, TLAPS

\* What every kind of request has found out so far.
Was(r, e) == during[r].states[e]

LightsGood(r) ==
    /\ EntitiesOf(req[r].todo) \subseteq req[r].asked
    /\ \A l \in req[r].out :
          /\ l.entry.entity \in req[r].asked
          /\ l.state # None => l.state \in Was(r, l.entry.entity)

CaptureGood(r) ==
    /\ req[r].todo \subseteq req[r].asked
    /\ \A l \in req[r].out : l.entity \in req[r].asked /\ l.state \in Was(r, l.entity)

\* The members counted so far are those of seen.
GroupGood(r, seen) ==
    /\ req[r].out.allOn => \A e \in seen : Was(r, e) \cap Levels # {}
    /\ req[r].out.anyOn => \E e \in req[r].asked : Was(r, e) \cap Levels # {}
    /\ req[r].out.allOn /\ seen # {} => req[r].out.anyOn
    /\ req[r].out.action \subseteq UNION {Was(r, e) : e \in req[r].asked}

PutGood(r) == req[r].todo \subseteq req[r].asked /\ req[r].asked \subseteq during[r].registered

EchoGood(r) ==
    \A e \in req[r].asked :
        /\ req[r].body.on = FALSE => Off \in Was(r, e)
        /\ req[r].body.on = TRUE /\ req[r].body.bri \notin {Off, Odd} => Was(r, e) \cap Levels # {}
        /\ req[r].body.bri \in Levels \cup {Off} =>
              req[r].body.bri \in Was(r, e) \/ (req[r].body.on # TRUE /\ Off \in Was(r, e))

Good(r) ==
    /\ req[r].pc = "lights" => LightsGood(r)
    /\ req[r].pc = "capture" => CaptureGood(r)
    /\ req[r].pc = "lookup" =>
          req[r].todo \subseteq req[r].asked /\ GroupGood(r, req[r].asked \ req[r].todo)
    /\ req[r].pc = "state" =>
          /\ req[r].todo \subseteq req[r].asked /\ req[r].current \in req[r].asked
          /\ GroupGood(r, req[r].asked \ (req[r].todo \cup {req[r].current}))
    /\ req[r].pc \in {"light", "group"} => PutGood(r)
    /\ req[r].pc = "light" => \E e \in Entities : req[r].asked = {e}
    /\ req[r].pc = "echo" => EchoGood(r)

NoPhantoms == members # None => members \subseteq Registered

\* The part of TypeOK that the rest needs.
Types == /\ entries \in SUBSET Entry
         /\ members \in {None} \cup SUBSET Entities
         /\ light \in [Entities -> Levels \cup {Off}]
         /\ req \in [Requests -> Request]
         /\ nextID \in Nat \ {0}

IInv == Types /\ NoPhantoms /\ \A r \in Requests : Good(r)

-----------------------------------------------------------------------------
(* Requests and their bookkeeping.                                         *)

LightsReq == [pc : {"lights"}, todo : SUBSET Entry, asked : SUBSET Entities,
              out : SUBSET [entry : Entry, state : Levels \cup {Off, None}]]
CaptureReq == [pc : {"capture"}, todo : SUBSET Entities, asked : SUBSET Entities,
               out : SUBSET [entity : Entities, state : Levels \cup {Off}]]
LookupReq == [pc : {"lookup"}, todo : SUBSET Entities, asked : SUBSET Entities, out : Report]
StateReq == [pc : {"state"}, todo : SUBSET Entities, asked : SUBSET Entities, out : Report,
             current : Entities]
PutReq == [pc : {"light", "group", "echo"}, todo : SUBSET Entities, asked : SUBSET Entities,
           body : Body]

\* A request is of the kind that its pc says.
LEMMA Kinds ==
  /\ \A q \in Request : /\ q.pc = "lights" => q \in LightsReq
                        /\ q.pc = "capture" => q \in CaptureReq
                        /\ q.pc = "lookup" => q \in LookupReq
                        /\ q.pc = "state" => q \in StateReq
                        /\ q.pc \in {"light", "group", "echo"} => q \in PutReq
                        /\ q \in {Idle, Done} <=> q.pc \in {"idle", "done"}
  /\ Idle \in Request /\ Done \in Request
  /\ LightsReq \subseteq Request /\ CaptureReq \subseteq Request
  /\ LookupReq \subseteq Request /\ StateReq \subseteq Request /\ PutReq \subseteq Request
<1>1. Request = {Idle, Done} \cup LightsReq \cup CaptureReq \cup LookupReq \cup StateReq \cup PutReq
  BY DEF Request, LightsReq, CaptureReq, LookupReq, StateReq, PutReq
<1>2. Idle.pc = "idle" /\ Done.pc = "done"
  BY DEF Idle, Done
<1>3. /\ \A q \in LightsReq : q.pc = "lights"
      /\ \A q \in CaptureReq : q.pc = "capture"
      /\ \A q \in LookupReq : q.pc = "lookup"
      /\ \A q \in StateReq : q.pc = "state"
      /\ \A q \in PutReq : q.pc \in {"light", "group", "echo"}
  BY DEF LightsReq, CaptureReq, LookupReq, StateReq, PutReq
<1> QED
  BY <1>1, <1>2, <1>3

\* A request in progress sees every light it asks for before and after each
\* step, and so a PUT the registry.
LEMMA Watched ==
  ASSUME Watch, NEW r \in Requests, req'[r] \notin {Idle, Done}
  PROVE  /\ req'[r].pc # "group" =>
              \A e \in Entities : e \in req'[r].asked =>
                  during'[r].states[e] = during[r].states[e] \cup {light[e], light'[e]}
         /\ req'[r].pc \in {"light", "group"} =>
              during'[r].registered = during[r].registered
                                      \cup (req'[r].asked \cap (Registered \cup Registered'))
  BY DEF Watch

\* What was found out stays true, and so do the reports made of it.
LEMMA Frame ==
  ASSUME Types, Watch, NEW r \in Requests, Good(r), UNCHANGED req[r]
  PROVE  Good(r)'
<1>1. req[r] \in Request
  BY DEF Types
<1>2. CASE req[r].pc \in {"idle", "done"}
  BY <1>2 DEF Good
<1>3. CASE req[r].pc \notin {"idle", "done"}
  <2>1. req'[r] \notin {Idle, Done}
    BY <1>1, <1>3, Kinds
  <2>2. req[r].pc # "group" =>
          \A e \in Entities : e \in req[r].asked => Was(r, e) \subseteq Was(r, e)'
    BY <2>1, Watched DEF Was
  <2>3. req[r].pc \in {"light", "group"} => during[r].registered \subseteq during'[r].registered
    BY <2>1, Watched
  <2>4. req[r].pc = "lights" => LightsGood(r)'
    BY <1>1, <2>2, Kinds DEF Good, LightsGood, LightsReq, Entry
  <2>5. req[r].pc = "capture" => CaptureGood(r)'
    BY <1>1, <2>2, Kinds DEF Good, CaptureGood, CaptureReq
  <2>6. ASSUME req[r].pc \in {"lookup", "state"}, NEW S \in SUBSET req[r].asked, GroupGood(r, S)
        PROVE  GroupGood(r, S)'
    <3>1. req[r].asked \subseteq Entities
      BY <1>1, <2>6, Kinds DEF LookupReq, StateReq
    <3>2. \A e \in req[r].asked : Was(r, e) \subseteq Was(r, e)'
      BY <2>2, <2>6, <3>1
    <3> QED
      BY <2>6, <3>2 DEF GroupGood
  <2>7. req[r].pc = "lookup" =>
          req[r].todo \subseteq req[r].asked /\ GroupGood(r, req[r].asked \ req[r].todo)'
    BY <2>6 DEF Good
  <2>8. req[r].pc = "state" =>
          /\ req[r].todo \subseteq req[r].asked /\ req[r].current \in req[r].asked
          /\ GroupGood(r, req[r].asked \ (req[r].todo \cup {req[r].current}))'
    BY <2>6 DEF Good
  <2>9. req[r].pc \in {"light", "group"} => PutGood(r)'
    BY <2>3 DEF Good, PutGood
  <2>10. req[r].pc = "echo" => EchoGood(r)'
    <3> SUFFICES ASSUME req[r].pc = "echo", NEW e \in req[r].asked
                 PROVE  /\ EchoGood(r) /\ Was(r, e) \subseteq Was(r, e)'
      BY DEF EchoGood
    <3>1. req[r].asked \subseteq Entities
      BY <1>1, Kinds DEF PutReq
    <3> QED
      BY <2>2, <3>1 DEF Good
  <2> QED
    BY <2>4, <2>5, <2>7, <2>8, <2>9, <2>10 DEF Good
<1> QED
  BY <1>2, <1>3

-----------------------------------------------------------------------------
(* The steps of a request.                                                 *)

\* What request r is after a step.
LEMMA Stepped ==
  ASSUME Types, NEW r \in Requests, NEW next, Step(r, next)
  PROVE  /\ req'[r] = next
         /\ \A q \in Requests \ {r} : req'[q] = req[q]
         /\ next \in Request => req' \in [Requests -> Request]
  BY DEF Types, Step

LEMMA LightsListGood ==
  ASSUME IInv, NEW r \in Requests, LightsList(r)
  PROVE  req'[r] \in Request /\ Good(r)'
<1>1. PICK es \in SUBSET entries :
         Step(r, [pc |-> "lights", todo |-> es, asked |-> EntitiesOf(es), out |-> {}])
  BY DEF LightsList
<1>2. req'[r] = [pc |-> "lights", todo |-> es, asked |-> EntitiesOf(es), out |-> {}]
  BY <1>1, Stepped DEF IInv
<1>3. es \in SUBSET Entry /\ EntitiesOf(es) \in SUBSET Entities
  BY DEF IInv, Types, EntitiesOf, Entry
<1>4. req'[r] \in LightsReq
  BY <1>2, <1>3 DEF LightsReq
<1> QED
  BY <1>2, <1>4, Kinds DEF Good, LightsGood

LEMMA LightsReadGood ==
  ASSUME IInv, Watch, NEW r \in Requests, NEW x \in Entry, LightsRead(r, x)
  PROVE  req'[r] \in Request /\ Good(r)'
<1>1. req[r] \in LightsReq /\ LightsGood(r)
  BY Kinds DEF IInv, Types, Good, LightsRead
<1>2. PICK s \in {light[x.entity], None} :
         Step(r, [req[r] EXCEPT !.todo = @ \ {x}, !.out = @ \cup {[entry |-> x, state |-> s]}])
  BY DEF LightsRead
<1>3. req'[r] = [req[r] EXCEPT !.todo = @ \ {x}, !.out = @ \cup {[entry |-> x, state |-> s]}]
  BY <1>2, Stepped DEF IInv
<1>4. /\ req'[r].pc = "lights" /\ req'[r].asked = req[r].asked
      /\ req'[r].todo = req[r].todo \ {x}
      /\ req'[r].out = req[r].out \cup {[entry |-> x, state |-> s]}
  BY <1>1, <1>3 DEF LightsReq
<1>5. x.entity \in Entities /\ x.entity \in req[r].asked
  BY <1>1 DEF LightsRead, LightsGood, EntitiesOf, Entry
<1>6. s \in Levels \cup {Off, None}
  BY <1>5 DEF IInv, Types
<1>7. req'[r] \in LightsReq
  <2>1. [entry |-> x, state |-> s] \in [entry : Entry, state : Levels \cup {Off, None}]
    BY <1>6
  <2>2. /\ req[r].todo \ {x} \in SUBSET Entry
        /\ req[r].out \cup {[entry |-> x, state |-> s]}
             \in SUBSET [entry : Entry, state : Levels \cup {Off, None}]
    BY <1>1, <2>1 DEF LightsReq
  <2> QED
    BY <1>1, <1>3, <2>2 DEF LightsReq
<1>8. \A e \in Entities : e \in req[r].asked =>
         Was(r, e) \subseteq Was(r, e)' /\ light[e] \in Was(r, e)'
  BY <1>4, <1>7, Kinds, Watched DEF Was
<1>9. \A l \in req'[r].out :
         l.entry.entity \in req'[r].asked /\ (l.state # None => l.state \in Was(r, l.entry.entity)')
  <2> SUFFICES ASSUME NEW l \in req'[r].out
               PROVE  /\ l.entry.entity \in req[r].asked
                      /\ l.state # None => l.state \in Was(r, l.entry.entity)'
    BY <1>4
  <2>1. CASE l \in req[r].out
    BY <2>1, <1>1, <1>8 DEF LightsGood, LightsReq, Entry
  <2>2. CASE l = [entry |-> x, state |-> s]
    BY <2>2, <1>5, <1>8
  <2> QED
    BY <2>1, <2>2, <1>4
<1>10. EntitiesOf(req'[r].todo) \subseteq req'[r].asked
  BY <1>1, <1>4 DEF LightsGood, EntitiesOf
<1> QED
  BY <1>4, <1>7, <1>9, <1>10, Kinds DEF Good, LightsGood

LEMMA SceneCaptureGood ==
  ASSUME IInv, Watch, NEW r \in Requests, NEW e \in Entities, SceneCapture(r, e)
  PROVE  req'[r] \in Request /\ Good(r)'
<1>1. req[r] \in CaptureReq /\ CaptureGood(r) /\ e \in req[r].asked
  BY Kinds DEF IInv, Types, Good, SceneCapture, CaptureGood
<1>2. PICK new \in SUBSET {[entity |-> e, state |-> light[e]]} :
         Step(r, [req[r] EXCEPT !.todo = @ \ {e}, !.out = @ \cup new])
  <2>1. CASE Step(r, [req[r] EXCEPT !.todo = @ \ {e}])
    <3>1. [req[r] EXCEPT !.todo = @ \ {e}] = [req[r] EXCEPT !.todo = @ \ {e}, !.out = @ \cup {}]
      BY <1>1 DEF CaptureReq
    <3> QED
      BY <2>1, <3>1
  <2>2. CASE Step(r, [[req[r] EXCEPT !.todo = @ \ {e}]
                       EXCEPT !.out = @ \cup {[entity |-> e, state |-> light[e]]}])
    <3>1. [[req[r] EXCEPT !.todo = @ \ {e}] EXCEPT !.out = @ \cup {[entity |-> e, state |-> light[e]]}]
          = [req[r] EXCEPT !.todo = @ \ {e}, !.out = @ \cup {[entity |-> e, state |-> light[e]]}]
      BY <1>1 DEF CaptureReq
    <3> QED
      BY <2>2, <3>1
  <2> QED
    BY <2>1, <2>2 DEF SceneCapture
<1>3. req'[r] = [req[r] EXCEPT !.todo = @ \ {e}, !.out = @ \cup new]
  BY <1>2, Stepped DEF IInv
<1>4. /\ req'[r].pc = "capture" /\ req'[r].asked = req[r].asked
      /\ req'[r].todo = req[r].todo \ {e} /\ req'[r].out = req[r].out \cup new
  BY <1>1, <1>3 DEF CaptureReq
<1>5. light[e] \in Levels \cup {Off}
  BY DEF IInv, Types
<1>6. req'[r] \in CaptureReq
  <2>1. new \in SUBSET [entity : Entities, state : Levels \cup {Off}]
    BY <1>5
  <2>2. /\ req[r].todo \ {e} \in SUBSET Entities
        /\ req[r].out \cup new \in SUBSET [entity : Entities, state : Levels \cup {Off}]
    BY <1>1, <2>1 DEF CaptureReq
  <2> QED
    BY <1>1, <1>3, <2>2 DEF CaptureReq
<1>7. \A d \in Entities : d \in req[r].asked =>
         Was(r, d) \subseteq Was(r, d)' /\ light[d] \in Was(r, d)'
  BY <1>4, <1>6, Kinds, Watched DEF Was
<1>8. \A l \in req'[r].out : l.entity \in req'[r].asked /\ l.state \in Was(r, l.entity)'
  BY <1>1, <1>4, <1>6, <1>7 DEF CaptureGood, CaptureReq
<1> QED
  BY <1>1, <1>4, <1>6, <1>8, Kinds DEF Good, CaptureGood

\* The first steps of the requests that a group is read for.
LEMMA StartGood ==
  ASSUME IInv, NEW r \in Requests, GroupStart(r) \/ SceneStart(r)
  PROVE  req'[r] \in Request /\ Good(r)'
<1>1. members \in SUBSET Entities
  BY DEF IInv, Types, GroupStart, SceneStart
<1>2. CASE GroupStart(r)
  <2> DEFINE next == [pc |-> "lookup", todo |-> members, asked |-> members,
                      out |-> [lights |-> {}, allOn |-> TRUE, anyOn |-> FALSE, action |-> {}]]
  <2>1. req'[r] = next
    BY <1>2, Stepped DEF IInv, GroupStart
  <2>2. next \in LookupReq
    BY <1>1 DEF LookupReq, Report
  <2>3. members \ members = {}
    OBVIOUS
  <2> QED
    BY <2>1, <2>2, <2>3, Kinds DEF Good, GroupGood
<1>3. CASE SceneStart(r)
  <2> DEFINE next == [pc |-> "capture", todo |-> members, asked |-> members, out |-> {}]
  <2>1. req'[r] = next
    BY <1>3, Stepped DEF IInv, SceneStart
  <2>2. next \in CaptureReq
    BY <1>1 DEF CaptureReq
  <2> QED
    BY <2>1, <2>2, Kinds DEF Good, CaptureGood
<1> QED
  BY <1>2, <1>3

LEMMA GroupLookupGood ==
  ASSUME IInv, Watch, NEW r \in Requests, NEW e \in Entities, GroupLookup(r, e)
  PROVE  req'[r] \in Request /\ Good(r)'
<1>1. /\ req[r] \in LookupReq /\ e \in req[r].asked /\ req[r].todo \subseteq req[r].asked
      /\ GroupGood(r, req[r].asked \ req[r].todo)
  BY Kinds DEF IInv, Types, Good, GroupLookup
<1> DEFINE ids == {x.id : x \in {y \in entries : y.entity = e}}
           out == [req[r].out EXCEPT !.lights = @ \cup ids]
<1>2. req'[r] = [pc |-> "state", todo |-> req[r].todo \ {e}, asked |-> req[r].asked,
                 out |-> out, current |-> e]
  BY Stepped DEF IInv, GroupLookup
<1>3. ids \in SUBSET (1..MaxID)
  BY DEF IInv, Types, Entry
<1>4. /\ out \in Report /\ out.allOn = req[r].out.allOn /\ out.anyOn = req[r].out.anyOn
      /\ out.action = req[r].out.action
  BY <1>1, <1>3 DEF LookupReq, Report
<1> HIDE DEF out
<1>5. req'[r] \in StateReq
  BY <1>1, <1>2, <1>4 DEF StateReq, LookupReq
<1>6. \A d \in req[r].asked : Was(r, d) \subseteq Was(r, d)'
  BY <1>1, <1>2, <1>5, Kinds, Watched DEF Was, LookupReq
<1>7. PICK S : S = req[r].asked \ req[r].todo
  OBVIOUS
<1>8. GroupGood(r, S)'
  <2>1. GroupGood(r, S) /\ S \subseteq req[r].asked
    BY <1>1, <1>7
  <2> QED
    BY <2>1, <1>2, <1>4, <1>6 DEF GroupGood
<1>9. S = req'[r].asked \ (req'[r].todo \cup {req'[r].current})
  BY <1>1, <1>2, <1>7 DEF GroupLookup
<1>10. GroupGood(r, req[r].asked \ (req[r].todo \cup {req[r].current}))'
  BY <1>8, <1>9
<1> QED
  BY <1>1, <1>2, <1>5, <1>10, Kinds DEF Good

LEMMA GroupReadGood ==
  ASSUME IInv, Watch, NEW r \in Requests, GroupRead(r)
  PROVE  req'[r] \in Request /\ Good(r)'
<1>1. /\ req[r] \in StateReq /\ req[r].todo \subseteq req[r].asked
      /\ req[r].current \in req[r].asked
      /\ GroupGood(r, req[r].asked \ (req[r].todo \cup {req[r].current}))
  BY Kinds DEF IInv, Types, Good, GroupRead
<1>a. PICK c, is : c = req[r].current /\ is = light[c]
  OBVIOUS
<1>2. PICK out : /\ out \in {Counted(req[r].out, is), [req[r].out EXCEPT !.allOn = FALSE]}
                 /\ Step(r, [pc |-> "lookup", todo |-> req[r].todo, asked |-> req[r].asked, out |-> out])
  BY <1>a DEF GroupRead
<1>3. req'[r] = [pc |-> "lookup", todo |-> req[r].todo, asked |-> req[r].asked, out |-> out]
  BY <1>2, Stepped DEF IInv
<1>4. c \in Entities /\ is \in Levels \cup {Off}
  BY <1>1, <1>a DEF StateReq, IInv, Types
<1>5. /\ out \in Report
      /\ \/ /\ out.anyOn = (req[r].out.anyOn \/ is # Off)
            /\ out.allOn = (req[r].out.allOn /\ is # Off)
            /\ out.action = IF req[r].out.action = {} THEN {is} ELSE req[r].out.action
         \/ /\ out.anyOn = req[r].out.anyOn /\ out.allOn = FALSE
            /\ out.action = req[r].out.action
  <2>1. req[r].out \in Report
    BY <1>1 DEF StateReq
  <2> QED
    <3>1. CASE out = Counted(req[r].out, is)
      <4>1. [req[r].out EXCEPT !.anyOn = (@ \/ is # Off), !.allOn = (@ /\ is # Off),
                               !.action = IF @ = {} THEN {is} ELSE @] \in Report
        BY <1>4, <2>1 DEF Report
      <4> QED
        BY <3>1, <4>1, <2>1 DEF Counted, Report
    <3>2. CASE out = [req[r].out EXCEPT !.allOn = FALSE]
      BY <3>2, <2>1 DEF Report
    <3> QED
      BY <1>2, <3>1, <3>2
<1>6. req'[r] \in LookupReq
  BY <1>1, <1>3, <1>5 DEF StateReq, LookupReq
<1>7. \A d \in req[r].asked : Was(r, d) \subseteq Was(r, d)' /\ light[d] \in Was(r, d)'
  BY <1>1, <1>3, <1>6, Kinds, Watched DEF Was, StateReq
<1>8. PICK S : S = req[r].asked \ (req[r].todo \cup {req[r].current})
  OBVIOUS
<1>9. PICK T : T = req[r].asked \ req[r].todo
  OBVIOUS
<1>10. GroupGood(r, S) /\ S \subseteq req[r].asked /\ T \subseteq S \cup {c}
  BY <1>1, <1>a, <1>8, <1>9
<1>11. GroupGood(r, T)'
  <2>1. is \in Was(r, c)'
    BY <1>1, <1>7, <1>a
  <2>2. is # Off => Was(r, c)' \cap Levels # {}
    BY <2>1, <1>4
  <2>3. out.allOn => \A d \in T : Was(r, d)' \cap Levels # {}
    BY <1>5, <1>7, <1>10, <1>a, <2>2 DEF GroupGood
  <2>4. out.anyOn => \E d \in req[r].asked : Was(r, d)' \cap Levels # {}
    BY <1>1, <1>5, <1>7, <1>10, <1>a, <2>2 DEF GroupGood
  <2>5. out.allOn => out.anyOn
    BY <1>5
  <2>6. out.action \subseteq UNION {Was(r, d)' : d \in req[r].asked}
    BY <1>1, <1>5, <1>7, <1>10, <1>a, <2>1 DEF GroupGood
  <2> QED
    BY <1>3, <2>3, <2>4, <2>5, <2>6 DEF GroupGood
<1>12. T = req'[r].asked \ req'[r].todo
  BY <1>3, <1>9
<1>13. GroupGood(r, req[r].asked \ req[r].todo)'
  BY <1>11, <1>12
<1> QED
  BY <1>1, <1>3, <1>6, <1>13, Kinds DEF Good

LEMMA PutStarts ==
  ASSUME IInv, Watch, NEW r \in Requests, NEW body \in Bodies,
         GroupPut(r, body) \/ \E id \in 1..MaxID : LightPut(r, id, body)
  PROVE  req'[r] \in Request /\ Good(r)'
<1>1. CASE Step(r, Done)
  BY <1>1, Stepped, Kinds DEF IInv, Good, Done
<1>2. CASE \E e \in Registered :
             Step(r, [pc |-> "light", todo |-> {e}, asked |-> {e}, body |-> body])
  <2>1. PICK e \in Registered :
             Step(r, [pc |-> "light", todo |-> {e}, asked |-> {e}, body |-> body])
    BY <1>2
  <2>2. req'[r] = [pc |-> "light", todo |-> {e}, asked |-> {e}, body |-> body]
    BY <2>1, Stepped DEF IInv
  <2>3. e \in Entities /\ body \in Body
    BY ClipAssumption DEF Registered, EntitiesOf, IInv, Types, Entry
  <2>4. req'[r] \in PutReq
    BY <2>2, <2>3 DEF PutReq
  <2>5. req'[r].asked \subseteq during'[r].registered
    BY <2>2, <2>4, Kinds, Watched
  <2> QED
    BY <2>2, <2>3, <2>4, <2>5, Kinds DEF Good, PutGood
<1>3. CASE GroupPut(r, body)
  <2>1. PICK b \in Body :
          req'[r] = [pc |-> "group", todo |-> members, asked |-> members, body |-> b]
    <3>1. body \in Body /\ [on |-> None, bri |-> None, unread |-> FALSE] \in Body
      BY ClipAssumption DEF Body
    <3>2. PICK b \in {body, [on |-> None, bri |-> None, unread |-> FALSE]} :
            Step(r, [pc |-> "group", todo |-> members, asked |-> members, body |-> b])
      BY <1>3 DEF GroupPut
    <3>3. req'[r] = [pc |-> "group", todo |-> members, asked |-> members, body |-> b]
      BY <3>2, Stepped DEF IInv
    <3> QED
      BY <3>1, <3>2, <3>3
  <2>2. members \in SUBSET Entities /\ members \subseteq Registered
    BY <1>3 DEF IInv, Types, NoPhantoms, GroupPut
  <2>3. req'[r] \in PutReq
    BY <2>1, <2>2 DEF PutReq
  <2>4. req'[r].asked \subseteq during'[r].registered
    BY <2>1, <2>2, <2>3, Kinds, Watched
  <2> QED
    BY <2>1, <2>3, <2>4, Kinds DEF Good, PutGood
<1> QED
  BY <1>1, <1>2, <1>3 DEF LightPut, WithID, Registered, EntitiesOf

\* What a light becomes, and what that tells of the body.
LEMMA SetStateLight ==
  ASSUME IInv, NEW r \in Requests, NEW e \in Entities, req[r] \in PutReq, SetState(r, e)
  PROVE  /\ light' \in [Entities -> Levels \cup {Off}]
         /\ LET body == req[r].body
            IN  /\ body.on = FALSE => light'[e] = Off
                /\ body.on = TRUE /\ body.bri \notin {Off, Odd} => light'[e] \in Levels
                /\ body.bri \in Levels \cup {Off} =>
                      light'[e] = body.bri \/ (body.on # TRUE /\ light'[e] = Off)
<1> DEFINE body == req[r].body
<1>1. body.on \in BOOLEAN \cup {None, Other} /\ body.bri \in Levels \cup {Off, None, Odd, Other}
  BY DEF PutReq, Body
<1>2. PICK d \in Desired(body) : \E s \in Becomes(light[e], d.on, d.bri) :
         light' = [light EXCEPT ![e] = s]
  BY DEF SetState
<1>3. PICK s \in Becomes(light[e], d.on, d.bri) : light' = [light EXCEPT ![e] = s]
  BY <1>2
<1>4. light \in [Entities -> Levels \cup {Off}]
  BY DEF IInv, Types
<1>5. /\ d.on \in BOOLEAN \cup {None} /\ (body.on # Other => d.on = body.on)
      /\ body.on = Other => d.on = None
      /\ d.bri \in Levels \cup {Off, None}
      /\ body.bri \notin {Odd, Other} => d.bri = body.bri
      /\ body.bri = Other => d.bri = None
  <2>1. d.on = (IF body.on = Other THEN None ELSE body.on)
    BY DEF Desired
  <2>2. d.bri \in (IF body.bri = Other THEN {None} ELSE Uint8(body.bri))
    BY DEF Desired
  <2> QED
    BY <1>1, <2>1, <2>2, ClipAssumption DEF Uint8
<1>6. s \in Levels \cup {Off}
  BY <1>4, <1>5 DEF Becomes
<1>7. light'[e] = s
  BY <1>3, <1>4
<1>8. /\ d.on = FALSE => s = Off
      /\ d.on = TRUE /\ d.bri # Off => s \in Levels
      /\ d.bri \in Levels \cup {Off} => s = d.bri \/ (d.on # TRUE /\ s = Off)
  BY <1>4, <1>5, ClipAssumption DEF Becomes, Off
<1>9. /\ body.on = FALSE => s = Off
      /\ body.on = TRUE /\ body.bri \notin {Off, Odd} => s \in Levels
      /\ body.bri \in Levels \cup {Off} => s = body.bri \/ (body.on # TRUE /\ s = Off)
  <2>1. Other \notin BOOLEAN /\ Odd \notin Levels \cup {Off} /\ Other \notin Levels \cup {Off}
        /\ None \notin BOOLEAN /\ None # Off
    BY ClipAssumption
  <2>2. body.on = TRUE => d.on = TRUE
    BY <1>5, <2>1
  <2>3. body.on = FALSE => d.on = FALSE
    BY <1>5, <2>1
  <2>4. body.on # TRUE => d.on # TRUE
    BY <1>1, <1>5, <2>1
  <2> QED
    BY <1>5, <1>8, <2>1, <2>2, <2>3, <2>4
<1> QED
  BY <1>3, <1>4, <1>6, <1>7, <1>9

LEMMA SetsKeepTypes ==
  ASSUME IInv, NEW r \in Requests, NEW e \in Entities, LightSet(r, e) \/ GroupSet(r, e)
  PROVE  light' \in [Entities -> Levels \cup {Off}]
<1>1. req[r] \in PutReq
  BY Kinds DEF IInv, Types, LightSet, GroupSet
<1> QED
  BY <1>1, SetStateLight DEF IInv, Types, LightSet, GroupSet

LEMMA LightSetGood ==
  ASSUME IInv, Watch, NEW r \in Requests, NEW e \in Entities, LightSet(r, e)
  PROVE  req'[r] \in Request /\ Good(r)'
<1>1. req[r] \in PutReq /\ req[r].asked = {e}
  BY Kinds DEF IInv, Types, Good, PutGood, LightSet
<1>2. CASE Step(r, Done)
  BY <1>2, Stepped, Kinds DEF IInv, Good, Done
<1>3. CASE SetState(r, e) /\ Step(r, [req[r] EXCEPT !.pc = "echo", !.todo = {}])
  <2>1. req'[r] = [req[r] EXCEPT !.pc = "echo", !.todo = {}]
    BY <1>3, Stepped DEF IInv
  <2>2. req'[r] \in PutReq
    BY <1>1, <2>1 DEF PutReq
  <2>3. req'[r].pc = "echo" /\ req'[r].asked = {e} /\ req'[r].body = req[r].body
    BY <1>1, <2>1 DEF PutReq
  <2>4. light'[e] \in Was(r, e)'
    BY <2>2, <2>3, Kinds, Watched DEF Was
  <2>5. /\ req[r].body.on = FALSE => light'[e] = Off
        /\ req[r].body.on = TRUE /\ req[r].body.bri \notin {Off, Odd} => light'[e] \in Levels
        /\ req[r].body.bri \in Levels \cup {Off} =>
              light'[e] = req[r].body.bri \/ (req[r].body.on # TRUE /\ light'[e] = Off)
    BY <1>1, <1>3, SetStateLight
  <2>6. EchoGood(r)'
    BY <2>3, <2>4, <2>5 DEF EchoGood
  <2> QED
    BY <2>2, <2>3, <2>6, Kinds DEF Good
<1> QED
  BY <1>2, <1>3 DEF LightSet

LEMMA GroupSetGood ==
  ASSUME IInv, Watch, NEW r \in Requests, NEW e \in Entities, GroupSet(r, e)
  PROVE  req'[r] \in Request /\ Good(r)'
<1>1. req[r] \in PutReq /\ PutGood(r)
  BY Kinds DEF IInv, Types, Good, GroupSet
<1>2. req'[r] = [req[r] EXCEPT !.todo = @ \ {e}]
  BY Stepped DEF IInv, GroupSet
<1>3. /\ req'[r].pc = "group" /\ req'[r].asked = req[r].asked
      /\ req'[r].todo = req[r].todo \ {e}
  BY <1>1, <1>2 DEF PutReq, GroupSet
<1>4. req'[r] \in PutReq
  BY <1>1, <1>2 DEF PutReq
<1>5. during[r].registered \subseteq during'[r].registered
  BY <1>3, <1>4, Kinds, Watched
<1> QED
  BY <1>1, <1>3, <1>4, <1>5, Kinds DEF Good, PutGood

\* One step of request r keeps what it has found out true.
LEMMA HandleGood ==
  ASSUME IInv, Watch, NEW r \in Requests, Handle(r)
  PROVE  /\ req' \in [Requests -> Request]
         /\ \A q \in Requests : Good(q)'
<1>1. req'[r] \in Request /\ Good(r)'
  <2>1. CASE Answer(r)
    BY <2>1, Stepped, Kinds DEF IInv, Answer, Good, Done
  <2> QED
    BY <2>1, LightsListGood, StartGood, LightsReadGood, GroupReadGood, GroupLookupGood,
       SceneCaptureGood, LightSetGood, GroupSetGood, PutStarts DEF Handle
<1>2. PICK next : Step(r, next)
  BY DEF Handle, LightsList, GroupStart, SceneStart, LightsRead, GroupRead, GroupLookup,
         SceneCapture, LightSet, GroupSet, LightPut, GroupPut, Answer
<1>3. req'[r] = next /\ \A q \in Requests \ {r} : req'[q] = req[q]
  BY <1>2, Stepped DEF IInv
<1>4. req' \in [Requests -> Request]
  BY <1>1, <1>2, <1>3, Stepped DEF IInv
<1>5. \A q \in Requests \ {r} : Good(q)'
  BY <1>3, Frame DEF IInv
<1> QED
  BY <1>1, <1>4, <1>5

-----------------------------------------------------------------------------
LEMMA InitInv == Init => IInv
<1> SUFFICES ASSUME Init PROVE IInv
  OBVIOUS
<1>1. PICK reg \in FirstRegistries :
         entries = reg.entries /\ nextID = reg.nextID /\ members = reg.members
  BY DEF Init
<1>2. reg \in Registry /\ (reg.members # None => reg.members \subseteq EntitiesOf(reg.entries))
  BY ClipAssumption
<1>3. entries \in SUBSET Entry /\ members \in {None} \cup SUBSET Entities /\ nextID \in Nat \ {0}
  BY <1>1, <1>2, ClipAssumption DEF Registry
<1>4. req \in [Requests -> Request] /\ \A r \in Requests : req[r].pc = "idle"
  BY Kinds DEF Init, Idle
<1> QED
  BY <1>1, <1>2, <1>3, <1>4, ClipAssumption DEF Init, IInv, Types, NoPhantoms, Registered, Good

\* What changes the registry and the lights beside the requests.
Surroundings == AddGroup \/ \E e \in Entities : Add(e) \/ Remove(e) \/ Switch(e)

LEMMA SurroundingsKeepTypes ==
  ASSUME IInv, Surroundings
  PROVE  Types' /\ NoPhantoms'
<1>1. CASE AddGroup
  BY <1>1 DEF AddGroup, IInv, Types, NoPhantoms, Registered, EntitiesOf, Entry
<1>2. ASSUME NEW e \in Entities, Add(e)
      PROVE  Types' /\ NoPhantoms'
  <2>1. nextID \in 1..MaxID
    BY <1>2, ClipAssumption DEF Add, IInv, Types
  <2>2. [id |-> nextID, entity |-> e] \in Entry
    BY <2>1 DEF Entry
  <2>3. Types'
    BY <1>2, <2>2 DEF Add, IInv, Types
  <2>4. Registered \subseteq Registered'
    BY <1>2 DEF Add, Registered, EntitiesOf
  <2> QED
    BY <1>2, <2>3, <2>4 DEF Add, IInv, NoPhantoms
<1>3. ASSUME NEW e \in Entities, Remove(e)
      PROVE  Types' /\ NoPhantoms'
  <2>1. Types'
    BY <1>3 DEF Remove, IInv, Types
  <2>2. Registered \ {e} \subseteq Registered'
    BY <1>3 DEF Remove, Registered, EntitiesOf
  <2> QED
    BY <1>3, <2>1, <2>2 DEF Remove, IInv, NoPhantoms
<1>4. ASSUME NEW e \in Entities, Switch(e)
      PROVE  Types' /\ NoPhantoms'
  BY <1>4 DEF Switch, IInv, Types, NoPhantoms, Registered
<1> QED
  BY <1>1, <1>2, <1>3, <1>4 DEF Surroundings

LEMMA NextInv == IInv /\ [Next]_vars => IInv'
<1> SUFFICES ASSUME IInv, [Next]_vars PROVE IInv'
  OBVIOUS
<1>1. ASSUME NEW r \in Requests, Handle(r), Watch
      PROVE  IInv'
  <2>1. UNCHANGED <<entries, nextID, members>>
    BY <1>1 DEF Handle, LightsList, GroupStart, SceneStart, LightsRead, GroupRead, GroupLookup,
                SceneCapture, LightSet, GroupSet, LightPut, GroupPut, Answer
  <2>2. light' \in [Entities -> Levels \cup {Off}]
    <3>1. CASE UNCHANGED light
      BY <3>1 DEF IInv, Types
    <3> QED
      BY <1>1, <3>1, SetsKeepTypes
      DEF Handle, LightsList, GroupStart, SceneStart, LightsRead, GroupRead, GroupLookup,
          SceneCapture, LightPut, GroupPut, Answer
  <2> QED
    BY <1>1, <2>1, <2>2, HandleGood DEF IInv, Types, NoPhantoms, Registered
<1>2. ASSUME Surroundings, Watch
      PROVE  IInv'
  <2>1. UNCHANGED req
    BY <1>2 DEF Surroundings, AddGroup, Add, Remove, Switch
  <2>2. \A r \in Requests : Good(r)'
    BY <1>2, <2>1, Frame DEF IInv
  <2> QED
    BY <1>2, <2>2, SurroundingsKeepTypes DEF IInv
<1>3. CASE UNCHANGED vars
  <2>1. req' = req /\ during' = during
    BY <1>3 DEF vars
  <2>2. ASSUME NEW r \in Requests
        PROVE  Good(r)'
    <3>1. LightsGood(r) = LightsGood(r)' /\ CaptureGood(r) = CaptureGood(r)'
      BY <2>1 DEF LightsGood, CaptureGood, Was
    <3>2. \A S : GroupGood(r, S) = GroupGood(r, S)'
      BY <2>1 DEF GroupGood, Was
    <3>3. PutGood(r) = PutGood(r)' /\ EchoGood(r) = EchoGood(r)'
      BY <2>1 DEF PutGood, EchoGood, Was
    <3> QED
      BY <2>1, <3>1, <3>2, <3>3 DEF IInv, Good
  <2> QED
    BY <1>3, <2>2 DEF vars, IInv, Types, NoPhantoms, Registered
<1> QED
  BY <1>1, <1>2, <1>3 DEF Next, Surroundings

LEMMA Inductive == Spec => []IInv
BY InitInv, NextInv, PTL DEF Spec

\* What a GET of lights or of a group reports, and what a scene captures, was
\* true while it was served, whatever is edited and switched in between
\* (lights.go:42-55, groups.go:16-39, scenes.go:155-163).
THEOREM Reports == Spec => []ReportsWereTrue
<1>1. IInv => ReportsWereTrue
  <2> SUFFICES ASSUME IInv, NEW r \in Requests
               PROVE  /\ req[r].pc = "lights" => \A l \in req[r].out :
                            l.state # None => l.state \in Was(r, l.entry.entity)
                      /\ req[r].pc = "capture" => \A l \in req[r].out : l.state \in Was(r, l.entity)
                      /\ req[r].pc = "lookup" /\ req[r].todo = {} => GroupWasSo(r)
    BY DEF ReportsWereTrue, Was
  <2>1. req[r].pc = "lookup" /\ req[r].todo = {} => GroupWasSo(r)
    <3> SUFFICES ASSUME req[r].pc = "lookup", req[r].todo = {}
                 PROVE  GroupWasSo(r)
      OBVIOUS
    <3>1. req[r].asked \ req[r].todo = req[r].asked
      OBVIOUS
    <3>2. GroupGood(r, req[r].asked)
      BY <3>1 DEF IInv, Good
    <3> QED
      BY <3>2 DEF GroupGood, GroupWasSo, AllOn, Was
  <2> QED
    BY <2>1 DEF IInv, Good, LightsGood, CaptureGood
<1> QED
  BY <1>1, Inductive, PTL

\* An app commands only lights that were exposed while it asked, if every group
\* was made on a page that showed the registry as it was (lights.go:85-89,
\* groups.go:90-110).
THEOREM Exposed == Spec => []OnlyExposedAreCommanded
<1>1. IInv => OnlyExposedAreCommanded
  BY DEF IInv, Good, PutGood, OnlyExposedAreCommanded
<1> QED
  BY <1>1, Inductive, PTL

\* What a light's PUT reports as done came about while it was served, for what
\* Believable lists: not for a brightness that a uint8 cannot hold, values of
\* another type and the keys that nobody reads, and not for "on" with a
\* brightness of 0 (lights.go:97-127).
THEOREM Echo == Spec => []EchoIsTrue
<1>1. IInv => EchoIsTrue
  <2> SUFFICES ASSUME IInv, NEW r \in Requests, NEW e \in Entities, req[r].pc = "echo",
                      e \in req[r].asked, NEW key \in Echoed(req[r].body),
                      Believable(req[r].body, key)
               PROVE  CameAbout(req[r].body, key, Was(r, e))
    BY DEF EchoIsTrue, Was
  <2> DEFINE body == req[r].body
  <2>1. EchoGood(r) /\ body \in Body
    BY Kinds DEF IInv, Types, Good, PutReq
  <2>2. CASE key = "on"
    BY <2>1, <2>2 DEF EchoGood, Believable, CameAbout
  <2>3. CASE key = "bri"
    <3>1. body.bri \in Levels \cup {Off}
      BY <2>1, <2>3 DEF Echoed, Believable, Body
    <3> QED
      BY <2>1, <2>3, <3>1 DEF EchoGood, CameAbout
  <2> QED
    BY <2>2, <2>3 DEF Believable
<1> QED
  BY <1>1, Inductive, PTL
=============================================================================
