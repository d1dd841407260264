----------------------------- MODULE StateCache -----------------------------
(***************************************************************************)
(* The light-state snapshot: cache.Backend (internal/backend/cache) over   *)
(* the Home Assistant backend (internal/backend/homeassistant).            *)
(*                                                                         *)
(* One goroutine, cache.Run, subscribes to state_changed events over a     *)
(* WebSocket and puts each into the snapshot; a reader goroutine moves     *)
(* events from the connection into a buffered channel.  HTTP handlers and  *)
(* the schedule ticker read through the snapshot (GetState) and write      *)
(* through to Home Assistant, patching the snapshot when the call returns  *)
(* (SetState).  Home Assistant, which is external, also changes on its own *)
(* (a wall switch, an automation), drops connections, fails calls, and     *)
(* carries out calls whose reply is lost to the 10 s client timeout.       *)
(*                                                                         *)
(* A light is on with a look (brightness and colour, one value here) or    *)
(* off with none.  Times are left out except the backoff's delays.         *)
(***************************************************************************)
EXTENDS Naturals, Sequences

CONSTANTS
    Lights,         \* entity ids
    Looks,          \* what a light that is on can look like
    None,           \* no look: the attribute is nil
    Readers,        \* goroutines that each make one call of GetState ...
    Writers,        \* ... or of SetState
    Commands,       \* the DesiredStates the Hue app sends
    ChanCap,        \* capacity of the subscription's channel (64 in the code)
    InitialDelay,   \* initialRetryDelay, in seconds
    MaxDelay,       \* maxRetryDelay, in seconds
    MaxChanges,     \* bound: changes Home Assistant makes on its own
    MaxDrops        \* bound: connections that are lost

\* DesiredState: "keep" stands for On = nil, None for no attribute.
Desired == [on : {"on", "off", "keep"}, look : Looks \cup {None}]

Requests == Readers \cup Writers

ASSUME StateCacheAssumption ==
    /\ None \notin Looks
    /\ Commands \subseteq Desired
    /\ ChanCap \in Nat \ {0}
    /\ InitialDelay \in Nat \ {0}
    /\ MaxDelay \in Nat
    /\ MaxChanges \in Nat
    /\ MaxDrops \in Nat

VARIABLES
    ha,         \* Home Assistant's state of each light
    link,       \* the WebSocket, as Home Assistant sees it
    wire,       \* events sent and not yet read from the connection
    ch,         \* the subscription's channel ...
    chOpen,     \* ... and whether the reader goroutine may still send on it
    run,        \* where cache.Run is
    delay,      \* Run's delay
    cancelled,  \* ctx is done
    states,     \* the snapshot: Backend.states, {} where there is no entry
    req,        \* req[r]: the call goroutine r serves and how far it is
    changes, drops,
    \* Bookkeeping that the code does not have:
    source,     \* source[e]: what wrote states[e] last
    missed      \* missed[e]: e changed after the last event about e that was
                \* sent and not lost

conn == <<link, wire, ch, chOpen>>
loop == <<run, delay, cancelled>>
env == <<changes, drops>>
vars == <<ha, conn, loop, states, req, env, source, missed>>

Light == [on : BOOLEAN, look : Looks \cup {None}]
Off == [on |-> FALSE, look |-> None]
On(look) == [on |-> TRUE, look |-> look]
HALight == {Off} \cup {On(look) : look \in Looks}

Event == [light : Lights, state : HALight]

Idle == [pc |-> "idle"]
Done == [pc |-> "done"]
Fetch(e) == [pc |-> "fetch", light |-> e]
Fill(e, s) == [pc |-> "fill", light |-> e, state |-> s]
Writing(label, e, d) == [pc |-> label, light |-> e, desired |-> d]
Request == {Idle, Done} \cup [pc : {"fetch"}, light : Lights]
           \cup [pc : {"fill"}, light : Lights, state : HALight]
           \cup [pc : {"check", "call", "apply"}, light : Lights, desired : Commands]

Init == /\ ha \in [Lights -> HALight]
        /\ link = "down" /\ wire = <<>> /\ ch = <<>> /\ chOpen = FALSE
        /\ run = "subscribing" /\ delay = InitialDelay /\ cancelled = FALSE
        /\ states = [e \in Lights |-> {}]
        /\ req = [r \in Requests |-> Idle]
        /\ changes = 0 /\ drops = 0
        /\ source = [e \in Lights |-> "nothing"]
        /\ missed = [e \in Lights |-> FALSE]

-----------------------------------------------------------------------------
(* Home Assistant and the network (external).                              *)

\* Home Assistant takes light e to state s and tells its subscriber, if any.
Becomes(e, s) ==
    /\ ha' = [ha EXCEPT ![e] = s]
    /\ IF s = ha[e] THEN UNCHANGED <<wire, missed>>
       ELSE IF link = "up"
       THEN /\ wire' = Append(wire, [light |-> e, state |-> s])
            /\ missed' = [missed EXCEPT ![e] = FALSE]
       ELSE /\ missed' = [missed EXCEPT ![e] = TRUE]
            /\ UNCHANGED wire

\* A wall switch, another app, an automation.
HAChange(e) == /\ changes < MaxChanges
               /\ changes' = changes + 1
               /\ \E s \in HALight \ {ha[e]} : Becomes(e, s)
               /\ UNCHANGED <<link, ch, chOpen, loop, states, req, drops, source>>

\* It handles subscribe_events some time after Subscribe has sent it.
HAAccept == /\ link = "asked"
            /\ link' = "up"
            /\ UNCHANGED <<ha, wire, ch, chOpen, loop, states, req, env, source, missed>>

\* The connection breaks; some of the events on their way still arrive.
ConnDrop == /\ link \in {"asked", "up"}
            /\ drops < MaxDrops
            /\ drops' = drops + 1
            /\ link' = "down"
            /\ \E n \in 0..Len(wire) :
                 LET lost == {wire[i].light : i \in n + 1 .. Len(wire)}
                 IN  /\ wire' = SubSeq(wire, 1, n)
                     /\ missed' = [e \in Lights |-> missed[e] \/ e \in lost]
            /\ UNCHANGED <<ha, ch, chOpen, loop, states, req, changes, source>>

-----------------------------------------------------------------------------
(* The reader goroutine of Subscribe (websocket.go).                       *)

\* Seeded bug: an event that finds the channel full is dropped.
ReaderDropsWhenFull ==
    /\ chOpen /\ wire # <<>>
    /\ wire' = Tail(wire)
    /\ ch' = IF Len(ch) < ChanCap THEN Append(ch, Head(wire)) ELSE ch
    /\ UNCHANGED <<ha, link, chOpen, loop, states, req, env, source, missed>>

\* It blocks while the channel is full.
ReaderSend == /\ chOpen /\ wire # <<>> /\ Len(ch) < ChanCap
              /\ ch' = Append(ch, Head(wire))
              /\ wire' = Tail(wire)
              /\ UNCHANGED <<ha, link, chOpen, loop, states, req, env, source, missed>>

\* A read error ends it and closes the channel.
ReaderExit == /\ chOpen /\ wire = <<>> /\ link = "down"
              /\ chOpen' = FALSE
              /\ UNCHANGED <<ha, link, wire, ch, loop, states, req, env, source, missed>>

-----------------------------------------------------------------------------
(* cache.Run.                                                              *)

Put(e, s, who) == /\ states' = [states EXCEPT ![e] = {s}]
                  /\ source' = [source EXCEPT ![e] = who]

\* Subscribe succeeds: a fresh connection and a fresh channel.
SubscribeOk == /\ run = "subscribing" /\ ~cancelled
               /\ run' = "receiving"
               /\ delay' = InitialDelay
               /\ link' = "asked" /\ wire' = <<>> /\ ch' = <<>> /\ chOpen' = TRUE
               /\ UNCHANGED <<ha, cancelled, states, req, env, source, missed>>

SubscribeError == /\ run = "subscribing"
                  /\ run' = "waiting"
                  /\ UNCHANGED <<ha, conn, delay, cancelled, states, req, env, source, missed>>

RunPut == /\ run = "receiving" /\ ch # <<>>
          /\ Put(Head(ch).light, Head(ch).state, "event")
          /\ ch' = Tail(ch)
          /\ UNCHANGED <<ha, link, wire, chOpen, loop, req, env, missed>>

\* Seeded bug: a closed channel is taken as fatal.
RunGivesUp == /\ run = "receiving" /\ ch = <<>> /\ ~chOpen
              /\ run' = "returned"
              /\ UNCHANGED <<ha, conn, delay, cancelled, states, req, env, source, missed>>

\* Seeded bug: the loop ends with the reader, whatever is left in the channel.
RunClosedUndrained == /\ run = "receiving" /\ ~chOpen
                      /\ run' = IF cancelled THEN "returned" ELSE "waiting"
                      /\ UNCHANGED <<ha, conn, delay, cancelled, states, req, env,
                                     source, missed>>

\* The range loop ends when the channel is closed and empty.
RunClosed == /\ run = "receiving" /\ ch = <<>> /\ ~chOpen
             /\ run' = IF cancelled THEN "returned" ELSE "waiting"
             /\ UNCHANGED <<ha, conn, delay, cancelled, states, req, env, source, missed>>

RunRetry == /\ run = "waiting"
            /\ \/ cancelled /\ run' = "returned" /\ delay' = delay
               \/ /\ ~cancelled
                  /\ run' = "subscribing"
                  /\ delay' = IF delay < MaxDelay THEN delay * 2 ELSE delay
            /\ UNCHANGED <<ha, conn, cancelled, states, req, env, source, missed>>

\* SIGTERM; the process is about to end.
Cancel == /\ ~cancelled
          /\ cancelled' = TRUE
          /\ UNCHANGED <<ha, conn, run, delay, states, req, env, source, missed>>

-----------------------------------------------------------------------------
(* cache.GetState: the snapshot, or for an unknown light Home Assistant's  *)
(* answer, which is then put into the snapshot.                            *)

Step(r, next) == req' = [req EXCEPT ![r] = next]
Quietly == UNCHANGED <<ha, conn, loop, states, env, source, missed>>

GetCall(r, e) == /\ req[r].pc = "idle"
                 /\ Step(r, IF states[e] # {} THEN Done ELSE Fetch(e))
                 /\ Quietly

GetAnswer(r) == /\ req[r].pc = "fetch"
                /\ \/ Step(r, Fill(req[r].light, ha[req[r].light]))
                   \/ Step(r, Done)                \* an error
                /\ Quietly

GetFill(r) == /\ req[r].pc = "fill"
              /\ Put(req[r].light, req[r].state, "fill")
              /\ Step(r, Done)
              /\ UNCHANGED <<ha, conn, loop, env, missed>>

-----------------------------------------------------------------------------
(* homeassistant.SetState under cache.SetState.                            *)

\* Seeded bug: an attribute change is sent without asking for the state.
SetCallUnchecked(r, e, d) == /\ req[r].pc = "idle"
                             /\ Step(r, Writing("call", e, d))
                             /\ Quietly

\* With On = nil it must know whether the light is on; with nothing to
\* change at all it returns at once.
SetCall(r, e, d) == /\ req[r].pc = "idle"
                    /\ LET label == IF d.on # "keep" THEN "call"
                                    ELSE IF d.look # None THEN "check" ELSE "apply"
                       IN  Step(r, Writing(label, e, d))
                    /\ Quietly

\* GET /api/states: a light that is off is left alone, which is no error.
SetCheck(r) == /\ req[r].pc = "check"
               /\ \/ Step(r, [req[r] EXCEPT !.pc =
                                IF ha[req[r].light].on THEN "call" ELSE "apply"])
                  \/ Step(r, Done)                 \* an error
               /\ Quietly

\* POST /api/services/light/turn_on or turn_off.  Home Assistant carries the
\* call out or not, and the answer says so or is lost.
SetService(r) ==
    /\ req[r].pc = "call"
    /\ LET e == req[r].light
           d == req[r].desired
           outcomes == IF d.on = "off" THEN {Off}
                       ELSE {On(look) : look \in IF d.look = None THEN Looks ELSE {d.look}}
       IN  \/ /\ \E s \in outcomes : Becomes(e, s)
              /\ \/ Step(r, [req[r] EXCEPT !.pc = "apply"])
                 \/ Step(r, Done)                  \* done, but the reply is lost
           \/ Step(r, Done) /\ UNCHANGED <<ha, wire, missed>>
    /\ UNCHANGED <<link, ch, chOpen, loop, states, env, source>>

Patched(s, d) == [on |-> IF d.on = "keep" THEN s.on ELSE d.on = "on",
                  look |-> IF d.look = None THEN s.look ELSE d.look]

\* After success the snapshot, if it has the light, is patched.
SetApply(r) ==
    /\ req[r].pc = "apply"
    /\ LET e == req[r].light
       IN  IF states[e] = {} THEN UNCHANGED <<states, source>>
           ELSE \E s \in states[e] : Put(e, Patched(s, req[r].desired), "command")
    /\ Step(r, Done)
    /\ UNCHANGED <<ha, conn, loop, env, missed>>

-----------------------------------------------------------------------------
Run == SubscribeOk \/ SubscribeError \/ RunPut \/ RunClosed \/ RunRetry
Reader == ReaderSend \/ ReaderExit
Serve(r) == GetAnswer(r) \/ GetFill(r) \/ SetCheck(r) \/ SetService(r) \/ SetApply(r)

Next == \/ \E e \in Lights : HAChange(e)
        \/ HAAccept \/ ConnDrop \/ Cancel
        \/ Run \/ Reader
        \/ \E r \in Readers, e \in Lights : GetCall(r, e)
        \/ \E r \in Writers, e \in Lights, d \in Commands : SetCall(r, e, d)
        \/ \E r \in Requests : Serve(r)

Spec == Init /\ [][Next]_vars

\* The goroutines run, and Home Assistant is not unreachable for ever: of
\* repeated attempts to subscribe one succeeds.
Fairness == /\ WF_vars(Run) /\ SF_vars(SubscribeOk) /\ WF_vars(HAAccept)
            /\ WF_vars(Reader)
            /\ \A r \in Requests : WF_vars(Serve(r))
FairSpec == Spec /\ Fairness

-----------------------------------------------------------------------------
(* Properties.                                                             *)

TypeOK == /\ ha \in [Lights -> HALight]
          /\ link \in {"down", "asked", "up"}
          /\ wire \in Seq(Event)
          /\ ch \in Seq(Event) /\ Len(ch) <= ChanCap
          /\ chOpen \in BOOLEAN
          /\ run \in {"subscribing", "receiving", "waiting", "returned"}
          /\ delay \in Nat \ {0}
          /\ cancelled \in BOOLEAN
          /\ states \in [Lights -> {{}} \cup {{s} : s \in Light}]
          /\ req \in [Requests -> Request]
          /\ changes \in 0..MaxChanges /\ drops \in 0..MaxDrops
          /\ source \in [Lights -> {"nothing", "event", "fill", "command"}]
          /\ missed \in [Lights -> BOOLEAN]

\* The events Run has yet to put, oldest first, and the last about e.
Pending == ch \o wire
IsLast(i, e) == /\ Pending[i].light = e
                /\ \A j \in i + 1 .. Len(Pending) : Pending[j].light # e

\* No event is lost, doubled or overtaken between Home Assistant and the
\* snapshot while the connection lasts: unless a change was missed, the last
\* pending event about a light is the light's state, and with none pending an
\* entry that an event wrote is (cache.go:63-65, websocket.go:62-84).
EventsCoherent ==
    \A e \in Lights : ~missed[e] =>
        /\ \A i \in 1..Len(Pending) : IsLast(i, e) => Pending[i].state = ha[e]
        /\ (\A i \in 1..Len(Pending) : Pending[i].light # e) /\ source[e] = "event"
              => states[e] = {ha[e]}

\* Seen from outside, the WebSocket, the reader goroutine and its bounded
\* channel are the queue of EventFeed: every change made while Home Assistant
\* has the subscription reaches the snapshot once and in order, only the newest
\* are lost with the connection, and nothing of an old connection comes after
\* a new one has begun (cache.go:57-68, websocket.go:62-84).
Feed == INSTANCE EventFeed
          WITH States <- HALight, Entries <- Light,
               world <- ha, listening <- link = "up", queue <- Pending, snapshot <- states
ImplementsFeed == Feed!Spec

\* Nothing is under way that will still change the snapshot.
Settled == /\ run = "receiving" /\ link = "up" /\ ch = <<>> /\ wire = <<>>
           /\ \A r \in Requests : req[r].pc \in {"idle", "done"}

\* "Run keeps the snapshot current" (cache.go:52), taken at its word: with
\* the subscription up, every event handled and no call in progress, what
\* the snapshot has is what Home Assistant has.
CurrentWhenSettled == Settled => \A e \in Lights : states[e] \subseteq {ha[e]}

\* "nil means leave as-is" (backend.go:17-18): a call without an on/off part
\* never turns on a light that is off (homeassistant.go:164-184), as long as
\* nothing but this call changes lights: SetState may look at a light that
\* something else turns off before turn_on arrives.
Undisturbed(r) == changes = 0 /\ \A w \in Writers \ {r} : req[w].pc = "idle"
AttributesNeverTurnOn ==
    [][\A r \in Writers :
          /\ req[r].pc = "call" /\ req[r].desired.on = "keep" /\ req'[r] # req[r]
          /\ Undisturbed(r)
          => ~(~ha[req[r].light].on /\ ha'[req[r].light].on)]_vars

\* Whenever the connection is lost, and however full the channel is at that
\* moment, Run is in the end subscribed again, or it returns because its
\* context is cancelled (cache.go:52-54).
Resubscribes == link = "down" ~> (link = "up" \/ (cancelled /\ run = "returned"))
=============================================================================
