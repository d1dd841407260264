-------------------------- MODULE StateCacheProofs --------------------------
(***************************************************************************)
(* Proofs about StateCache, for any lights and looks, any number of        *)
(* requests, changes and lost connections, and any capacity of the         *)
(* channel.                                                                *)
(***************************************************************************)
EXTENDS StateCache, SequenceTheorems, TLAPS

(***************************************************************************)
(* What a sequence of events says of a light.  Seen through these two      *)
(* operators EventsCoherent is about one sequence, Pending, of which the   *)
(* goroutines only ever append to the end, drop the head, or cut the end.  *)
(***************************************************************************)
Silent(p, e) == \A i \in 1..Len(p) : p[i].light # e
Tells(p, e, s) ==
    \A i \in 1..Len(p) :
        p[i].light = e /\ (\A j \in i + 1 .. Len(p) : p[j].light # e) => p[i].state = s

Coherent(e) == ~missed[e] => /\ Tells(Pending, e, ha[e])
                             /\ Silent(Pending, e) /\ source[e] = "event"
                                  => states[e] = {ha[e]}

LEMMA CoherentLights == EventsCoherent <=> \A e \in Lights : Coherent(e)
BY DEF EventsCoherent, Coherent, Tells, Silent, IsLast

LEMMA CoherentPrimed ==
  EventsCoherent' <=>
      \A e \in Lights : ~missed'[e] =>
          /\ Tells(Pending', e, ha'[e])
          /\ Silent(Pending', e) /\ source'[e] = "event" => states'[e] = {ha'[e]}
BY DEF EventsCoherent, Tells, Silent, IsLast

\* An event that is appended is the last about its light, and says nothing of
\* another.
LEMMA AppendTells ==
  ASSUME NEW p \in Seq(Event), NEW ev \in Event
  PROVE  /\ Tells(Append(p, ev), ev.light, ev.state)
         /\ ~Silent(Append(p, ev), ev.light)
         /\ \A e, s : e # ev.light =>
                /\ Tells(p, e, s) => Tells(Append(p, ev), e, s)
                /\ Silent(Append(p, ev), e) => Silent(p, e)
<1> DEFINE q == Append(p, ev)
<1>1. /\ Len(p) \in Nat /\ Len(q) = Len(p) + 1
      /\ \A i \in 1..Len(p) : q[i] = p[i]
      /\ q[Len(p) + 1] = ev
  BY AppendProperties, LenProperties
<1> HIDE DEF q
<1>2. Tells(q, ev.light, ev.state)
  <2> SUFFICES ASSUME NEW i \in 1..Len(q), q[i].light = ev.light,
                      \A j \in i + 1 .. Len(q) : q[j].light # ev.light
               PROVE  q[i].state = ev.state
    BY DEF Tells
  <2>1. i = Len(q)
    BY <1>1
  <2> QED
    BY <1>1, <2>1
<1>3. ~Silent(q, ev.light)
  BY <1>1 DEF Silent
<1>4. ASSUME NEW e, NEW s, e # ev.light, Tells(p, e, s)
      PROVE  Tells(q, e, s)
  <2> SUFFICES ASSUME NEW i \in 1..Len(q), q[i].light = e,
                      \A j \in i + 1 .. Len(q) : q[j].light # e
               PROVE  q[i].state = s
    BY DEF Tells
  <2>1. i \in 1..Len(p) /\ p[i] = q[i]
    BY <1>1, <1>4
  <2>2. \A j \in i + 1 .. Len(p) : p[j].light # e
    BY <1>1, <2>1
  <2> QED
    BY <1>4, <2>1, <2>2 DEF Tells
<1>5. ASSUME NEW e, Silent(q, e) PROVE Silent(p, e)
  BY <1>1, <1>5 DEF Silent
<1> QED
  BY <1>2, <1>3, <1>4, <1>5 DEF q

\* Dropping the head leaves the last event about a light, unless the head was
\* the only one; then it said what the sequence says.
LEMMA TailTells ==
  ASSUME NEW p \in Seq(Event), p # <<>>
  PROVE  /\ \A e, s : Tells(p, e, s) => Tells(Tail(p), e, s)
         /\ \A e : Silent(Tail(p), e) /\ e # Head(p).light => Silent(p, e)
         /\ \A s : Tells(p, Head(p).light, s) /\ Silent(Tail(p), Head(p).light)
                     => Head(p).state = s
<1> DEFINE t == Tail(p)
<1>1. /\ Len(p) \in Nat /\ Len(t) = Len(p) - 1 /\ Len(p) > 0
      /\ \A i \in 1..Len(t) : t[i] = p[i + 1]
      /\ Head(p) = p[1]
  BY HeadTailProperties, LenProperties, EmptySeq
<1> HIDE DEF t
<1>2. ASSUME NEW e, NEW s, Tells(p, e, s) PROVE Tells(t, e, s)
  <2> SUFFICES ASSUME NEW i \in 1..Len(t), t[i].light = e,
                      \A j \in i + 1 .. Len(t) : t[j].light # e
               PROVE  t[i].state = s
    BY DEF Tells
  <2>1. i + 1 \in 1..Len(p) /\ p[i + 1] = t[i]
    BY <1>1
  <2>2. ASSUME NEW j \in i + 1 + 1 .. Len(p) PROVE p[j].light # e
    <3>1. j - 1 \in i + 1 .. Len(t) /\ j - 1 \in 1..Len(t) /\ (j - 1) + 1 = j
      BY <1>1
    <3> QED
      BY <1>1, <3>1
  <2> QED
    BY <1>2, <2>1, <2>2 DEF Tells
<1>3. ASSUME NEW e, Silent(t, e), e # Head(p).light PROVE Silent(p, e)
  <2> SUFFICES ASSUME NEW i \in 1..Len(p) PROVE p[i].light # e
    BY DEF Silent
  <2>1. CASE i = 1
    BY <1>1, <1>3, <2>1
  <2>2. CASE i # 1
    <3>1. i - 1 \in 1..Len(t) /\ (i - 1) + 1 = i
      BY <1>1, <2>2
    <3> QED
      BY <1>1, <1>3, <3>1 DEF Silent
  <2> QED
    BY <2>1, <2>2
<1>4. ASSUME NEW s, Tells(p, Head(p).light, s), Silent(t, Head(p).light)
      PROVE  Head(p).state = s
  <2>1. ASSUME NEW j \in 1 + 1 .. Len(p) PROVE p[j].light # Head(p).light
    <3>1. j - 1 \in 1..Len(t) /\ (j - 1) + 1 = j
      BY <1>1
    <3> QED
      BY <1>1, <1>4, <3>1 DEF Silent
  <2>2. 1 \in 1..Len(p)
    BY <1>1
  <2> QED
    BY <1>1, <1>4, <2>1, <2>2 DEF Tells
<1> QED
  BY <1>2, <1>3, <1>4 DEF t

\* Cutting the end leaves what is said of a light the lost events are not about.
LEMMA PrefixTells ==
  ASSUME NEW p \in Seq(Event), NEW n \in 0..Len(p), NEW e,
         \A i \in n + 1 .. Len(p) : p[i].light # e
  PROVE  /\ \A s : Tells(p, e, s) => Tells(SubSeq(p, 1, n), e, s)
         /\ Silent(SubSeq(p, 1, n), e) => Silent(p, e)
<1> DEFINE q == SubSeq(p, 1, n)
<1>1. Len(p) \in Nat /\ \A i \in 1..n : p[i] \in Event
  BY LenProperties, ElementOfSeq
<1>2. Len(q) = n /\ \A i \in 1..n : q[i] = p[i]
  BY <1>1, SubSeqProperties
<1> HIDE DEF q
<1>3. ASSUME NEW s, Tells(p, e, s) PROVE Tells(q, e, s)
  BY <1>1, <1>2, <1>3 DEF Tells
<1>4. ASSUME Silent(q, e) PROVE Silent(p, e)
  BY <1>1, <1>2, <1>4 DEF Silent
<1> QED
  BY <1>3, <1>4 DEF q

-----------------------------------------------------------------------------
(* The two halves of Pending, the channel and the wire.                    *)

LEMMA Halves ==
  ASSUME NEW c \in Seq(Event), NEW w \in Seq(Event)
  PROVE  /\ c \o w \in Seq(Event) /\ Len(c \o w) = Len(c) + Len(w)
         /\ \A i \in 1..Len(c) : (c \o w)[i] = c[i]
         /\ \A i \in 1..Len(w) : (c \o w)[Len(c) + i] = w[i]
<1>1. Len(c) \in Nat /\ Len(w) \in Nat
  BY LenProperties
<1>2. /\ c \o w \in Seq(Event) /\ Len(c \o w) = Len(c) + Len(w)
      /\ \A i \in 1 .. Len(c) + Len(w) : (c \o w)[i] =
              IF i <= Len(c) THEN c[i] ELSE w[i - Len(c)]
  BY ConcatProperties
<1>3. ASSUME NEW i \in 1..Len(w) PROVE (c \o w)[Len(c) + i] = w[i]
  <2>1. Len(c) + i \in 1 .. Len(c) + Len(w) /\ ~(Len(c) + i <= Len(c))
        /\ (Len(c) + i) - Len(c) = i
    BY <1>1
  <2> QED
    BY <1>2, <2>1
<1>4. \A i \in 1..Len(c) : (c \o w)[i] = c[i]
  BY <1>1, <1>2
<1> QED
  BY <1>2, <1>3, <1>4

\* ReaderSend moves an event from one half to the other.
LEMMA MoveHead ==
  ASSUME NEW c \in Seq(Event), NEW w \in Seq(Event), w # <<>>
  PROVE  Append(c, Head(w)) \o Tail(w) = c \o w
<1>1. /\ Head(w) \in Event /\ Tail(w) \in Seq(Event) /\ <<Head(w)>> \in Seq(Event)
      /\ w = <<Head(w)>> \o Tail(w)
  BY HeadTailProperties
<1>2. Append(c, Head(w)) = c \o <<Head(w)>>
  BY <1>1, AppendIsConcat
<1> QED
  BY <1>1, <1>2, ConcatAssociative

\* RunPut takes the head of the whole.
LEMMA DropHead ==
  ASSUME NEW c \in Seq(Event), NEW w \in Seq(Event), c # <<>>
  PROVE  /\ Tail(c) \o w = Tail(c \o w)
         /\ Head(c \o w) = Head(c) /\ c \o w # <<>>
<1>1. /\ Head(c) \in Event /\ Tail(c) \in Seq(Event) /\ Len(Tail(c)) = Len(c) - 1
      /\ \A i \in 1..Len(Tail(c)) : Tail(c)[i] = c[i + 1]
      /\ Len(c) \in Nat /\ Len(c) > 0 /\ Len(w) \in Nat
      /\ Head(c) = c[1]
  BY HeadTailProperties, LenProperties, EmptySeq
<1>2. c \o w # <<>> /\ Head(c \o w) = (c \o w)[1]
  BY <1>1, Halves, LenProperties, EmptySeq
<1>3. Head(c \o w) = Head(c)
  BY <1>1, <1>2, Halves
<1> DEFINE s == Tail(c) \o w
           t == Tail(c \o w)
<1>4. /\ s \in Seq(Event) /\ Len(s) = Len(c) - 1 + Len(w)
      /\ \A i \in 1 .. Len(c) - 1 : s[i] = c[i + 1]
      /\ \A i \in 1..Len(w) : s[Len(c) - 1 + i] = w[i]
  BY <1>1, Halves
<1>5. /\ t \in Seq(Event) /\ Len(t) = Len(c) + Len(w) - 1
      /\ \A i \in 1..Len(t) : t[i] = (c \o w)[i + 1]
  BY <1>1, <1>2, Halves, HeadTailProperties
<1> HIDE DEF s, t
<1>6. ASSUME NEW i \in 1..Len(s) PROVE s[i] = t[i]
  <2>1. i \in 1..Len(t) /\ i \in Nat
    BY <1>1, <1>4, <1>5
  <2>2. CASE i <= Len(c) - 1
    <3>1. i + 1 \in 1..Len(c) /\ i \in 1 .. Len(c) - 1
      BY <1>1, <2>1, <2>2
    <3> QED
      BY <1>4, <1>5, <2>1, <3>1, Halves
  <2>3. CASE ~(i <= Len(c) - 1)
    <3> DEFINE k == i - (Len(c) - 1)
    <3>1. k \in 1..Len(w) /\ Len(c) - 1 + k = i /\ Len(c) + k = i + 1
      BY <1>1, <1>4, <2>1, <2>3
    <3>2. (c \o w)[Len(c) + k] = w[k]
      BY <3>1, Halves
    <3>3. s[Len(c) - 1 + k] = w[k]
      BY <1>4, <3>1
    <3> QED
      BY <1>5, <2>1, <3>1, <3>2, <3>3
  <2> QED
    BY <2>2, <2>3
<1>7. s = t
  BY <1>1, <1>4, <1>5, <1>6, SeqEqual
<1> QED
  BY <1>2, <1>3, <1>7 DEF s, t

\* An event is sent at the end of the whole.
LEMMA SendLast ==
  ASSUME NEW c \in Seq(Event), NEW w \in Seq(Event), NEW ev \in Event
  PROVE  c \o Append(w, ev) = Append(c \o w, ev)
<1>1. <<ev>> \in Seq(Event) /\ c \o w \in Seq(Event)
  BY Halves
<1>2. Append(w, ev) = w \o <<ev>> /\ Append(c \o w, ev) = (c \o w) \o <<ev>>
  BY <1>1, AppendIsConcat
<1> QED
  BY <1>1, <1>2, ConcatAssociative

\* Losing the end of the wire is losing the end of the whole.
LEMMA LoseEnd ==
  ASSUME NEW c \in Seq(Event), NEW w \in Seq(Event), NEW n \in 0..Len(w)
  PROVE  /\ SubSeq(w, 1, n) \in Seq(Event)
         /\ c \o SubSeq(w, 1, n) = SubSeq(c \o w, 1, Len(c) + n)
<1>1. Len(c) \in Nat /\ Len(w) \in Nat /\ \A i \in 1..n : w[i] \in Event
  BY LenProperties, ElementOfSeq
<1>2. /\ SubSeq(w, 1, n) \in Seq(Event) /\ Len(SubSeq(w, 1, n)) = n
      /\ \A i \in 1..n : SubSeq(w, 1, n)[i] = w[i]
  BY <1>1, SubSeqProperties
<1>3. \A i \in 1 .. Len(c) + n : (c \o w)[i] \in Event
  <2> SUFFICES ASSUME NEW i \in 1 .. Len(c) + n PROVE (c \o w)[i] \in Event
    OBVIOUS
  <2>1. i \in 1..Len(c \o w)
    BY <1>1, Halves
  <2> QED
    BY <2>1, Halves, ElementOfSeq
<1> DEFINE s == c \o SubSeq(w, 1, n)
           t == SubSeq(c \o w, 1, Len(c) + n)
<1>4. /\ s \in Seq(Event) /\ Len(s) = Len(c) + n
      /\ \A i \in 1..Len(c) : s[i] = c[i]
      /\ \A i \in 1..n : s[Len(c) + i] = w[i]
  BY <1>1, <1>2, Halves
<1>5. /\ t \in Seq(Event) /\ Len(t) = Len(c) + n
      /\ \A i \in 1 .. Len(c) + n : t[i] = (c \o w)[i]
  BY <1>1, <1>3, SubSeqProperties
<1> HIDE DEF s, t
<1>6. ASSUME NEW i \in 1..Len(s) PROVE s[i] = t[i]
  <2>1. i \in Nat /\ i \in 1 .. Len(c) + n
    BY <1>1, <1>4
  <2>2. CASE i <= Len(c)
    BY <1>1, <1>4, <1>5, <2>1, <2>2, Halves
  <2>3. CASE ~(i <= Len(c))
    <3> DEFINE k == i - Len(c)
    <3>1. k \in 1..n /\ k \in 1..Len(w) /\ Len(c) + k = i
      BY <1>1, <1>4, <2>1, <2>3
    <3>2. (c \o w)[Len(c) + k] = w[k]
      BY <3>1, Halves
    <3>3. s[Len(c) + k] = w[k]
      BY <1>4, <3>1
    <3> QED
      BY <1>5, <2>1, <3>1, <3>2, <3>3
  <2> QED
    BY <2>2, <2>3
<1>7. s = t
  BY <1>1, <1>4, <1>5, <1>6, SeqEqual
<1> QED
  BY <1>2, <1>7 DEF s, t

-----------------------------------------------------------------------------
(* Types.                                                                  *)

LEMMA LightKinds ==
  /\ HALight \subseteq Light /\ Off \in HALight /\ Off.on = FALSE
  /\ \A look \in Looks : On(look) \in HALight
  /\ \A s \in Light : s.on \in BOOLEAN /\ s.look \in Looks \cup {None}
<1>1. Off \in Light /\ Off.on = FALSE
  BY DEF Off, Light
<1>2. \A look \in Looks : On(look) \in Light
  BY DEF On, Light
<1>3. \A s \in Light : s.on \in BOOLEAN /\ s.look \in Looks \cup {None}
  BY DEF Light
<1> QED
  BY <1>1, <1>2, <1>3 DEF HALight

LEMMA EventKinds ==
  /\ \A ev \in Event : ev.light \in Lights /\ ev.state \in HALight
  /\ \A e \in Lights, s \in HALight : [light |-> e, state |-> s] \in Event
BY DEF Event

\* What the label of a request says of its other fields.
LEMMA RequestKinds ==
  /\ Idle \in Request /\ Done \in Request /\ Idle.pc = "idle" /\ Done.pc = "done"
  /\ \A q \in Request :
        /\ q.pc = "fetch" => q.light \in Lights
        /\ q.pc = "fill" => q.light \in Lights /\ q.state \in HALight
        /\ q.pc \in {"check", "call", "apply"} =>
              /\ q.light \in Lights /\ q.desired \in Commands
              /\ q = Writing(q.pc, q.light, q.desired)
  /\ \A e \in Lights : Fetch(e) \in Request /\ Fetch(e).pc = "fetch"
  /\ \A e \in Lights, s \in HALight : Fill(e, s) \in Request /\ Fill(e, s).pc = "fill"
  /\ \A label \in {"check", "call", "apply"}, e \in Lights, d \in Commands :
        /\ Writing(label, e, d) \in Request /\ Writing(label, e, d).pc = label
        /\ Writing(label, e, d).light = e /\ Writing(label, e, d).desired = d
<1>1. \A q \in Request :
        /\ q.pc = "fetch" => q.light \in Lights
        /\ q.pc = "fill" => q.light \in Lights /\ q.state \in HALight
        /\ q.pc \in {"check", "call", "apply"} =>
              q \in [pc : {"check", "call", "apply"}, light : Lights, desired : Commands]
  BY DEF Request, Idle, Done
<1>2. \A q \in [pc : {"check", "call", "apply"}, light : Lights, desired : Commands] :
        /\ q.light \in Lights /\ q.desired \in Commands
        /\ q = Writing(q.pc, q.light, q.desired)
  BY DEF Writing
<1>3. /\ Idle \in Request /\ Done \in Request /\ Idle.pc = "idle" /\ Done.pc = "done"
      /\ \A e \in Lights : Fetch(e) \in Request /\ Fetch(e).pc = "fetch"
      /\ \A e \in Lights, s \in HALight : Fill(e, s) \in Request /\ Fill(e, s).pc = "fill"
  BY DEF Request, Idle, Done, Fetch, Fill
<1>4. \A label \in {"check", "call", "apply"}, e \in Lights, d \in Commands :
        /\ Writing(label, e, d) \in Request /\ Writing(label, e, d).pc = label
        /\ Writing(label, e, d).light = e /\ Writing(label, e, d).desired = d
  BY DEF Request, Writing
<1> QED
  BY <1>1, <1>2, <1>3, <1>4

\* With a command the snapshot keeps the type of a light.
LEMMA PatchedLight == \A s \in Light, d \in Commands : Patched(s, d) \in Light
BY StateCacheAssumption DEF Patched, Light, Desired

\* Seq(Event) under the operations of the goroutines.
LEMMA SeqKinds ==
  /\ <<>> \in Seq(Event) /\ Len(<<>>) = 0
  /\ \A q \in Seq(Event) : Len(q) \in Nat /\ (q = <<>> <=> Len(q) = 0)
  /\ \A q \in Seq(Event) : q # <<>> => /\ Head(q) \in Event /\ Tail(q) \in Seq(Event)
                                        /\ Len(Tail(q)) = Len(q) - 1
  /\ \A q \in Seq(Event), ev \in Event : /\ Append(q, ev) \in Seq(Event)
                                         /\ Len(Append(q, ev)) = Len(q) + 1
BY EmptySeq, LenProperties, HeadTailProperties, AppendProperties

\* What a step of the world does to its half of the state.
LEMMA BecomesTypes ==
  ASSUME TypeOK, NEW e \in Lights, NEW s \in HALight, Becomes(e, s)
  PROVE  /\ ha' \in [Lights -> HALight] /\ ha'[e] = s
         /\ \A f \in Lights \ {e} : ha'[f] = ha[f]
         /\ wire' \in Seq(Event) /\ missed' \in [Lights -> BOOLEAN]
         /\ link # "up" => wire' = wire
<1>1. ha \in [Lights -> HALight] /\ wire \in Seq(Event) /\ missed \in [Lights -> BOOLEAN]
  BY DEF TypeOK
<1>2. ha' \in [Lights -> HALight] /\ ha'[e] = s /\ \A f \in Lights \ {e} : ha'[f] = ha[f]
  BY <1>1 DEF Becomes
<1>3. Append(wire, [light |-> e, state |-> s]) \in Seq(Event)
  BY <1>1, EventKinds, SeqKinds
<1>4. wire' \in Seq(Event) /\ missed' \in [Lights -> BOOLEAN] /\ (link # "up" => wire' = wire)
  BY <1>1, <1>3 DEF Becomes
<1> QED
  BY <1>2, <1>4

LEMMA PutTypes ==
  ASSUME TypeOK, NEW e \in Lights, NEW s \in Light,
         NEW who \in {"event", "fill", "command"}, Put(e, s, who)
  PROVE  /\ states' \in [Lights -> {{}} \cup {{x} : x \in Light}]
         /\ source' \in [Lights -> {"nothing", "event", "fill", "command"}]
         /\ states'[e] = {s} /\ source'[e] = who
         /\ \A f \in Lights \ {e} : states'[f] = states[f] /\ source'[f] = source[f]
BY DEF TypeOK, Put

LEMMA StepTypes ==
  ASSUME TypeOK, NEW r \in Requests, NEW q \in Request, Step(r, q)
  PROVE  /\ req' \in [Requests -> Request] /\ req'[r] = q
         /\ \A w \in Requests \ {r} : req'[w] = req[w]
BY DEF TypeOK, Step

LEMMA CallKinds ==
  ASSUME TypeOK, NEW r \in Requests, req[r].pc \in {"check", "call", "apply"}
  PROVE  /\ req[r].light \in Lights /\ req[r].desired \in Commands
         /\ req[r] = Writing(req[r].pc, req[r].light, req[r].desired)
         /\ \A label \in {"check", "call", "apply"} :
               [req[r] EXCEPT !.pc = label] = Writing(label, req[r].light, req[r].desired)
<1>1. /\ req[r].light \in Lights /\ req[r].desired \in Commands
      /\ req[r] = Writing(req[r].pc, req[r].light, req[r].desired)
  BY RequestKinds DEF TypeOK
<1> QED
  BY <1>1 DEF Writing

\* What the look at the light before it does: with an attribute alone SetState
\* goes on to a light that is on.
LEMMA CheckEffect ==
  ASSUME TypeOK, NEW r \in Requests, SetCheck(r)
  PROVE  \E q \in Request : /\ Step(r, q) /\ q.pc \in {"call", "apply", "done"}
                            /\ q.pc = "call" => q.light = req[r].light /\ ha[q.light].on
<1>1. /\ req[r].light \in Lights /\ req[r].desired \in Commands
      /\ \A label \in {"check", "call", "apply"} :
            [req[r] EXCEPT !.pc = label] = Writing(label, req[r].light, req[r].desired)
  BY CallKinds DEF SetCheck
<1>2. \A label \in {"call", "apply"} :
          /\ Writing(label, req[r].light, req[r].desired) \in Request
          /\ Writing(label, req[r].light, req[r].desired).pc = label
          /\ Writing(label, req[r].light, req[r].desired).light = req[r].light
  BY <1>1, RequestKinds
<1>3. CASE Step(r, Done)
  BY <1>3, RequestKinds
<1>4. CASE Step(r, [req[r] EXCEPT !.pc = IF ha[req[r].light].on THEN "call" ELSE "apply"])
  <2>1. CASE ha[req[r].light].on
    BY <1>1, <1>2, <1>4, <2>1
  <2>2. CASE ~ha[req[r].light].on
    BY <1>1, <1>2, <1>4, <2>2
  <2> QED
    BY <2>1, <2>2
<1> QED
  BY <1>3, <1>4 DEF SetCheck

\* What a POST of SetState does: Home Assistant takes the light somewhere or
\* nowhere, and the call is over or goes on to the snapshot.
LEMMA ServiceEffect ==
  ASSUME TypeOK, NEW r \in Requests, SetService(r)
  PROVE  /\ \/ \E s \in HALight : Becomes(req[r].light, s)
            \/ UNCHANGED <<ha, wire, missed>>
         /\ \E q \in Request : Step(r, q) /\ q.pc \in {"apply", "done"}
<1>1. /\ req[r].light \in Lights /\ req[r].desired \in Commands /\ req[r].pc = "call"
      /\ [req[r] EXCEPT !.pc = "apply"] = Writing("apply", req[r].light, req[r].desired)
  BY CallKinds DEF SetService
<1>2. Writing("apply", req[r].light, req[r].desired) \in Request
      /\ Writing("apply", req[r].light, req[r].desired).pc = "apply"
      /\ Done \in Request /\ Done.pc = "done"
  BY <1>1, RequestKinds
<1> DEFINE d == req[r].desired
           outcomes == IF d.on = "off" THEN {Off}
                       ELSE {On(look) : look \in IF d.look = None THEN Looks ELSE {d.look}}
<1>3. outcomes \subseteq HALight
  <2>1. d.look \in Looks \cup {None}
    BY <1>1, StateCacheAssumption DEF Desired
  <2> QED
    BY <2>1, LightKinds
<1>4. \/ \E s \in outcomes : Becomes(req[r].light, s)
      \/ UNCHANGED <<ha, wire, missed>>
  BY DEF SetService
<1>5. Step(r, [req[r] EXCEPT !.pc = "apply"]) \/ Step(r, Done)
  BY DEF SetService
<1> QED
  BY <1>1, <1>2, <1>3, <1>4, <1>5

\* The patch of the snapshot after it.
LEMMA ApplyEffect ==
  ASSUME TypeOK, NEW r \in Requests, SetApply(r)
  PROVE  \/ UNCHANGED <<states, source>>
         \/ \E s \in Light : Put(req[r].light, s, "command")
<1>1. req[r].light \in Lights /\ req[r].desired \in Commands
  BY CallKinds DEF SetApply
<1>2. states[req[r].light] \subseteq Light
  BY <1>1 DEF TypeOK
<1>3. \/ UNCHANGED <<states, source>>
      \/ \E s \in states[req[r].light] : Put(req[r].light, Patched(s, req[r].desired), "command")
  BY DEF SetApply
<1> QED
  BY <1>1, <1>2, <1>3, PatchedLight

LEMMA TypeInit == Init => TypeOK
<1> SUFFICES ASSUME Init PROVE TypeOK
  OBVIOUS
<1>1. wire \in Seq(Event) /\ ch \in Seq(Event) /\ Len(ch) <= ChanCap
  BY SeqKinds, StateCacheAssumption DEF Init
<1>2. req \in [Requests -> Request]
  BY RequestKinds DEF Init
<1>3. ha \in [Lights -> HALight] /\ states \in [Lights -> {{}} \cup {{s} : s \in Light}]
  BY DEF Init
<1>4. delay \in Nat \ {0} /\ changes \in 0..MaxChanges /\ drops \in 0..MaxDrops
  BY StateCacheAssumption DEF Init
<1>5. /\ source \in [Lights -> {"nothing", "event", "fill", "command"}]
      /\ missed \in [Lights -> BOOLEAN]
  BY DEF Init
<1> QED
  BY <1>1, <1>2, <1>3, <1>4, <1>5 DEF Init, TypeOK

\* The steps of Home Assistant, the connection and cache.Run.
LEMMA LoopTypes ==
  ASSUME TypeOK,
         \/ \E e \in Lights : HAChange(e)
         \/ HAAccept \/ ConnDrop \/ Cancel \/ Run \/ Reader
  PROVE  TypeOK'
<1>1. ASSUME NEW e \in Lights, HAChange(e) PROVE TypeOK'
  <2>1. PICK s \in HALight \ {ha[e]} : Becomes(e, s)
    BY <1>1 DEF HAChange
  <2>2. ha' \in [Lights -> HALight] /\ wire' \in Seq(Event) /\ missed' \in [Lights -> BOOLEAN]
    BY <2>1, BecomesTypes
  <2>3. changes' \in 0..MaxChanges
    BY <1>1, StateCacheAssumption DEF HAChange, TypeOK
  <2> QED
    BY <1>1, <2>2, <2>3 DEF HAChange, loop, TypeOK
<1>2. CASE HAAccept
  BY <1>2 DEF HAAccept, loop, env, TypeOK
<1>3. CASE ConnDrop
  <2>1. wire \in Seq(Event) /\ drops' \in 0..MaxDrops /\ ch \in Seq(Event)
    BY <1>3, StateCacheAssumption DEF ConnDrop, TypeOK
  <2>2. PICK n \in 0..Len(wire) :
          LET lost == {wire[i].light : i \in n + 1 .. Len(wire)}
          IN  /\ wire' = SubSeq(wire, 1, n)
              /\ missed' = [e \in Lights |-> missed[e] \/ e \in lost]
    BY <1>3 DEF ConnDrop
  <2>3. wire' \in Seq(Event) /\ missed' \in [Lights -> BOOLEAN]
    BY <2>1, <2>2, LoseEnd DEF TypeOK
  <2> QED
    BY <1>3, <2>1, <2>3 DEF ConnDrop, loop, TypeOK
<1>4. CASE Cancel
  BY <1>4 DEF Cancel, conn, env, TypeOK
<1>5. CASE SubscribeOk \/ SubscribeError \/ RunClosed \/ RunRetry
  <2>1. delay' \in Nat \ {0}
    BY <1>5, StateCacheAssumption
    DEF SubscribeOk, SubscribeError, RunClosed, RunRetry, TypeOK
  <2>2. wire' \in Seq(Event) /\ ch' \in Seq(Event) /\ Len(ch') <= ChanCap
    <3>1. CASE SubscribeOk
      BY <3>1, SeqKinds, StateCacheAssumption DEF SubscribeOk
    <3>2. CASE SubscribeError \/ RunClosed \/ RunRetry
      BY <3>2 DEF SubscribeError, RunClosed, RunRetry, conn, TypeOK
    <3> QED
      BY <1>5, <3>1, <3>2
  <2>3. /\ run' \in {"subscribing", "receiving", "waiting", "returned"}
        /\ link' \in {"down", "asked", "up"} /\ chOpen' \in BOOLEAN
    BY <1>5 DEF SubscribeOk, SubscribeError, RunClosed, RunRetry, conn, TypeOK
  <2>4. UNCHANGED <<ha, cancelled, states, req, env, source, missed>>
    BY <1>5 DEF SubscribeOk, SubscribeError, RunClosed, RunRetry
  <2> QED
    BY <2>1, <2>2, <2>3, <2>4 DEF env, TypeOK
<1>6. CASE RunPut
  <2>1. ch # <<>> /\ Put(Head(ch).light, Head(ch).state, "event") /\ ch' = Tail(ch)
    BY <1>6 DEF RunPut
  <2>2. Head(ch).light \in Lights /\ Head(ch).state \in Light
    BY <2>1, SeqKinds, EventKinds, LightKinds DEF TypeOK
  <2>3. ch' \in Seq(Event) /\ Len(ch') <= ChanCap
    BY <2>1, SeqKinds, StateCacheAssumption DEF TypeOK
  <2>4. /\ states' \in [Lights -> {{}} \cup {{x} : x \in Light}]
        /\ source' \in [Lights -> {"nothing", "event", "fill", "command"}]
    BY <2>1, <2>2, PutTypes
  <2> QED
    BY <1>6, <2>3, <2>4 DEF RunPut, loop, env, TypeOK
<1>7. CASE ReaderSend
  <2>1. wire # <<>> /\ Len(ch) < ChanCap /\ ch' = Append(ch, Head(wire)) /\ wire' = Tail(wire)
    BY <1>7 DEF ReaderSend
  <2>2. wire' \in Seq(Event) /\ ch' \in Seq(Event) /\ Len(ch') <= ChanCap
    BY <2>1, SeqKinds, StateCacheAssumption DEF TypeOK
  <2> QED
    BY <1>7, <2>2 DEF ReaderSend, loop, env, TypeOK
<1>8. CASE ReaderExit
  BY <1>8 DEF ReaderExit, loop, env, TypeOK
<1> QED
  BY <1>1, <1>2, <1>3, <1>4, <1>5, <1>6, <1>7, <1>8 DEF Run, Reader

\* The steps of the calls.
LEMMA CallTypes ==
  ASSUME TypeOK,
         \/ \E r \in Readers, e \in Lights : GetCall(r, e)
         \/ \E r \in Writers, e \in Lights, d \in Commands : SetCall(r, e, d)
         \/ \E r \in Requests : Serve(r)
  PROVE  TypeOK'
<1>1. ASSUME NEW r \in Requests, NEW q \in Request, Step(r, q), Quietly PROVE TypeOK'
  <2>1. req' \in [Requests -> Request]
    BY <1>1, StepTypes
  <2> QED
    BY <1>1, <2>1 DEF Quietly, conn, loop, env, TypeOK
<1>2. ASSUME NEW r \in Readers, NEW e \in Lights, GetCall(r, e) PROVE TypeOK'
  <2>1. r \in Requests /\ Quietly
        /\ Step(r, IF states[e] # {} THEN Done ELSE Fetch(e))
    BY <1>2 DEF GetCall, Requests
  <2> QED
    BY <1>1, <2>1, RequestKinds
<1>3. ASSUME NEW r \in Writers, NEW e \in Lights, NEW d \in Commands, SetCall(r, e, d)
      PROVE  TypeOK'
  <2>1. PICK label \in {"check", "call", "apply"} : Step(r, Writing(label, e, d))
    BY <1>3 DEF SetCall
  <2> QED
    BY <1>1, <1>3, <2>1, RequestKinds DEF SetCall, Requests
<1>4. ASSUME NEW r \in Requests, GetAnswer(r) PROVE TypeOK'
  <2>1. req[r] \in Request /\ req[r].pc = "fetch"
    BY <1>4 DEF GetAnswer, TypeOK
  <2>2. req[r].light \in Lights /\ ha[req[r].light] \in HALight
    BY <2>1, RequestKinds DEF TypeOK
  <2>3. Fill(req[r].light, ha[req[r].light]) \in Request /\ Done \in Request
    BY <2>2, RequestKinds
  <2> QED
    BY <1>1, <1>4, <2>3 DEF GetAnswer
<1>5. ASSUME NEW r \in Requests, GetFill(r) PROVE TypeOK'
  <2>1. req[r] \in Request /\ req[r].pc = "fill"
    BY <1>5 DEF GetFill, TypeOK
  <2>2. req[r].light \in Lights /\ req[r].state \in Light
    BY <2>1, RequestKinds, LightKinds
  <2>3. req' \in [Requests -> Request]
    BY <1>5, StepTypes, RequestKinds DEF GetFill
  <2>4. /\ states' \in [Lights -> {{}} \cup {{x} : x \in Light}]
        /\ source' \in [Lights -> {"nothing", "event", "fill", "command"}]
    BY <1>5, <2>2, PutTypes DEF GetFill
  <2> QED
    BY <1>5, <2>3, <2>4 DEF GetFill, conn, loop, env, TypeOK
<1>6. ASSUME NEW r \in Requests, SetCheck(r) PROVE TypeOK'
  <2>1. PICK q \in Request : /\ Step(r, q) /\ q.pc \in {"call", "apply", "done"}
                             /\ q.pc = "call" => q.light = req[r].light /\ ha[q.light].on
    BY <1>6, CheckEffect
  <2>2. Quietly
    BY <1>6 DEF SetCheck
  <2> QED
    BY <1>1, <2>1, <2>2
<1>7. ASSUME NEW r \in Requests, SetService(r) PROVE TypeOK'
  <2>1. req[r].light \in Lights /\ req[r].desired \in Commands
    BY <1>7, CallKinds DEF SetService
  <2>2. (\E s \in HALight : Becomes(req[r].light, s)) \/ UNCHANGED <<ha, wire, missed>>
    BY <1>7, ServiceEffect
  <2>3. ha' \in [Lights -> HALight] /\ wire' \in Seq(Event) /\ missed' \in [Lights -> BOOLEAN]
    BY <2>1, <2>2, BecomesTypes DEF TypeOK
  <2>4. req' \in [Requests -> Request]
    BY <1>7, ServiceEffect, StepTypes
  <2> QED
    BY <1>7, <2>3, <2>4 DEF SetService, loop, env, TypeOK
<1>8. ASSUME NEW r \in Requests, SetApply(r) PROVE TypeOK'
  <2>1. req[r].light \in Lights /\ req[r].desired \in Commands
    BY <1>8, CallKinds DEF SetApply
  <2>2. req' \in [Requests -> Request]
    BY <1>8, StepTypes, RequestKinds DEF SetApply
  <2>3. \/ UNCHANGED <<states, source>>
        \/ \E s \in Light : Put(req[r].light, s, "command")
    BY <1>8, <2>1, ApplyEffect
  <2>4. /\ states' \in [Lights -> {{}} \cup {{x} : x \in Light}]
        /\ source' \in [Lights -> {"nothing", "event", "fill", "command"}]
    BY <2>1, <2>3, PutTypes DEF TypeOK
  <2> QED
    BY <1>8, <2>2, <2>4 DEF SetApply, conn, loop, env, TypeOK
<1> QED
  BY <1>2, <1>3, <1>4, <1>5, <1>6, <1>7, <1>8 DEF Serve

-----------------------------------------------------------------------------
(* Events.                                                                 *)

\* Without a subscription there is nothing in the channel, and with the
\* channel closed nothing on the wire either: a new subscription (cache.go:
\* 57-62) throws no event away.  Until it is accepted nothing is sent.
Conn == /\ run # "receiving" => ch = <<>> /\ ~chOpen
        /\ ~chOpen => wire = <<>> /\ link = "down"
        /\ link = "asked" => ch = <<>> /\ wire = <<>>

LEMMA ConnNext ==
  ASSUME TypeOK, Conn, [Next]_vars
  PROVE  Conn'
<1>1. ASSUME NEW e \in Lights, NEW s \in HALight, Becomes(e, s),
             UNCHANGED <<link, ch, chOpen, run>>
      PROVE  Conn'
  BY <1>1, BecomesTypes DEF Conn
<1>2. ASSUME NEW e \in Lights, HAChange(e) PROVE Conn'
  BY <1>1, <1>2 DEF HAChange, loop
<1>3. CASE ConnDrop
  <2>1. wire = <<>> => wire' = <<>>
    <3> SUFFICES ASSUME wire = <<>> PROVE wire' = <<>>
      OBVIOUS
    <3>1. Len(wire) = 0 /\ \E n \in 0..Len(wire) : wire' = SubSeq(wire, 1, n)
      BY <1>3, SeqKinds DEF ConnDrop
    <3>2. wire' = SubSeq(wire, 1, 0)
      BY <3>1
    <3> QED
      BY <3>2, SubSeqEmpty
  <2> QED
    BY <1>3, <2>1 DEF ConnDrop, loop, Conn
<1>4. CASE HAAccept \/ Cancel \/ Run \/ Reader
  BY <1>4 DEF HAAccept, Cancel, Run, SubscribeOk, SubscribeError, RunPut, RunClosed,
              RunRetry, Reader, ReaderSend, ReaderExit, conn, loop, Conn
<1>5. ASSUME NEW r \in Requests, SetService(r) PROVE Conn'
  <2>1. UNCHANGED <<link, ch, chOpen, run>>
    BY <1>5 DEF SetService, loop
  <2>2. req[r].light \in Lights
    BY <1>5, CallKinds DEF SetService
  <2>3. CASE UNCHANGED wire
    BY <2>1, <2>3 DEF Conn
  <2> QED
    BY <1>1, <1>5, <2>1, <2>2, <2>3, ServiceEffect
<1>6. CASE UNCHANGED <<conn, loop>>
  BY <1>6 DEF conn, loop, Conn
<1>7. ASSUME NEW r, GetAnswer(r) \/ GetFill(r) \/ SetCheck(r) \/ SetApply(r)
      PROVE  UNCHANGED <<conn, loop>>
  BY <1>7 DEF GetAnswer, GetFill, SetCheck, SetApply, Quietly
<1>8. ASSUME NEW r, NEW e, \/ GetCall(r, e)
                         \/ \E d \in Commands : SetCall(r, e, d)
      PROVE  UNCHANGED <<conn, loop>>
  BY <1>8 DEF GetCall, SetCall, Quietly
<1>9. CASE UNCHANGED vars
  BY <1>6, <1>9 DEF vars
<1> QED
  BY <1>2, <1>3, <1>4, <1>5, <1>6, <1>7, <1>8, <1>9 DEF Next, Serve

\* A light that changes is told of, or it is missed.
LEMMA BecomesCoherent ==
  ASSUME TypeOK, EventsCoherent, NEW e \in Lights, NEW s \in HALight, Becomes(e, s),
         UNCHANGED <<ch, states, source>>
  PROVE  EventsCoherent'
<1>1. /\ ha' \in [Lights -> HALight] /\ ha'[e] = s
      /\ \A f \in Lights \ {e} : ha'[f] = ha[f]
  BY BecomesTypes
<1> SUFFICES ASSUME NEW f \in Lights, ~missed'[f]
             PROVE  /\ Tells(Pending', f, ha'[f])
                    /\ Silent(Pending', f) /\ source[f] = "event" => states[f] = {ha'[f]}
  BY CoherentPrimed
<1>2. ~missed[f] => /\ Tells(Pending, f, ha[f])
                    /\ Silent(Pending, f) /\ source[f] = "event" => states[f] = {ha[f]}
  BY CoherentLights DEF Coherent
<1>3. CASE s = ha[e]
  <2>1. UNCHANGED <<wire, missed>> /\ ha'[f] = ha[f]
    BY <1>1, <1>3 DEF Becomes
  <2> QED
    BY <1>2, <2>1 DEF Pending
<1>4. CASE s # ha[e] /\ link # "up"
  <2>1. wire' = wire /\ missed' = [missed EXCEPT ![e] = TRUE]
    BY <1>4 DEF Becomes
  <2>2. f # e /\ ~missed[f]
    BY <2>1 DEF TypeOK
  <2> QED
    BY <1>1, <1>2, <2>1, <2>2 DEF Pending
<1>5. CASE s # ha[e] /\ link = "up"
  <2> DEFINE ev == [light |-> e, state |-> s]
  <2>1. wire' = Append(wire, ev) /\ missed' = [missed EXCEPT ![e] = FALSE]
    BY <1>5 DEF Becomes
  <2>2. ev \in Event /\ ev.light = e /\ ev.state = s
    BY EventKinds
  <2>3. /\ ch \in Seq(Event) /\ wire \in Seq(Event) /\ Pending \in Seq(Event)
        /\ Pending' = Append(Pending, ev)
    BY <2>1, <2>2, SendLast, Halves DEF TypeOK, Pending
  <2> HIDE DEF ev
  <2>4. CASE f = e
    BY <1>1, <2>2, <2>3, <2>4, AppendTells
  <2>5. CASE f # e
    <3>1. ~missed[f] /\ ha'[f] = ha[f]
      BY <1>1, <2>1, <2>5 DEF TypeOK
    <3> QED
      BY <1>2, <2>2, <2>3, <2>5, <3>1, AppendTells
  <2> QED
    BY <2>4, <2>5
<1> QED
  BY <1>3, <1>4, <1>5

\* Events lost with the connection are the last ones, and their lights are
\* missed.
LEMMA DropCoherent ==
  ASSUME TypeOK, EventsCoherent, ConnDrop
  PROVE  EventsCoherent'
<1>1. ch \in Seq(Event) /\ wire \in Seq(Event) /\ Len(ch) \in Nat /\ Len(wire) \in Nat
  BY SeqKinds DEF TypeOK
<1>2. PICK n \in 0..Len(wire) :
        LET lost == {wire[i].light : i \in n + 1 .. Len(wire)}
        IN  /\ wire' = SubSeq(wire, 1, n)
            /\ missed' = [e \in Lights |-> missed[e] \/ e \in lost]
  BY DEF ConnDrop
<1>3. UNCHANGED <<ha, ch, states, source>>
  BY DEF ConnDrop
<1>4. /\ Pending \in Seq(Event) /\ Len(Pending) = Len(ch) + Len(wire)
      /\ Pending' = SubSeq(Pending, 1, Len(ch) + n)
      /\ Len(ch) + n \in 0..Len(Pending)
  BY <1>1, <1>2, <1>3, LoseEnd, Halves DEF Pending
<1> SUFFICES ASSUME NEW f \in Lights, ~missed'[f]
             PROVE  /\ Tells(Pending', f, ha[f])
                    /\ Silent(Pending', f) /\ source[f] = "event" => states[f] = {ha[f]}
  BY <1>3, CoherentPrimed
<1>5. ~missed[f] /\ \A i \in n + 1 .. Len(wire) : wire[i].light # f
  BY <1>2
<1>6. ASSUME NEW i \in (Len(ch) + n) + 1 .. Len(Pending) PROVE Pending[i].light # f
  <2> DEFINE k == i - Len(ch)
  <2>1. k \in n + 1 .. Len(wire) /\ k \in 1..Len(wire) /\ Len(ch) + k = i
    BY <1>1, <1>2, <1>4
  <2>2. (ch \o wire)[Len(ch) + k] = wire[k]
    BY <1>1, <2>1, Halves
  <2> QED
    BY <1>5, <2>1, <2>2 DEF Pending
<1>7. /\ \A s : Tells(Pending, f, s) => Tells(SubSeq(Pending, 1, Len(ch) + n), f, s)
      /\ Silent(SubSeq(Pending, 1, Len(ch) + n), f) => Silent(Pending, f)
  BY <1>4, <1>6, PrefixTells
<1>8. /\ Tells(Pending, f, ha[f])
      /\ Silent(Pending, f) /\ source[f] = "event" => states[f] = {ha[f]}
  BY <1>5, CoherentLights DEF Coherent
<1> QED
  BY <1>4, <1>7, <1>8

\* The event that Run puts is the oldest; if it is also the last about its
\* light, it has the light's state.
LEMMA PutCoherent ==
  ASSUME TypeOK, EventsCoherent, RunPut
  PROVE  EventsCoherent'
<1>1. /\ ch # <<>> /\ ch' = Tail(ch)
      /\ Put(Head(ch).light, Head(ch).state, "event")
      /\ UNCHANGED <<ha, wire, missed>>
  BY DEF RunPut
<1>2. ch \in Seq(Event) /\ wire \in Seq(Event)
  BY DEF TypeOK
<1>3. /\ Pending \in Seq(Event) /\ Pending # <<>> /\ Head(Pending) = Head(ch)
      /\ Pending' = Tail(Pending)
  BY <1>1, <1>2, Halves, DropHead DEF Pending
<1> DEFINE ev == Head(ch)
<1>4. ev.light \in Lights /\ ev.state \in Light
  BY <1>1, <1>2, SeqKinds, EventKinds, LightKinds
<1>5. /\ states'[ev.light] = {ev.state}
      /\ \A f \in Lights \ {ev.light} : states'[f] = states[f] /\ source'[f] = source[f]
  BY <1>1, <1>4, PutTypes
<1> HIDE DEF ev
<1> SUFFICES ASSUME NEW f \in Lights, ~missed[f]
             PROVE  /\ Tells(Pending', f, ha[f])
                    /\ Silent(Pending', f) /\ source'[f] = "event" => states'[f] = {ha[f]}
  BY <1>1, CoherentPrimed
<1>6. /\ Tells(Pending, f, ha[f])
      /\ Silent(Pending, f) /\ source[f] = "event" => states[f] = {ha[f]}
  BY CoherentLights DEF Coherent
<1>7. Tells(Pending', f, ha[f])
  BY <1>3, <1>6, TailTells
<1>8. ASSUME f = ev.light, Silent(Pending', f) PROVE states'[f] = {ha[f]}
  BY <1>3, <1>5, <1>6, <1>8, TailTells DEF ev
<1>9. ASSUME f # ev.light, Silent(Pending', f), source'[f] = "event" PROVE states'[f] = {ha[f]}
  BY <1>3, <1>5, <1>6, <1>9, TailTells DEF ev
<1> QED
  BY <1>7, <1>8, <1>9

LEMMA CoherentNext ==
  ASSUME TypeOK, Conn, EventsCoherent, [Next]_vars
  PROVE  EventsCoherent'
<1>1. ASSUME UNCHANGED <<ha, Pending, states, source, missed>> PROVE EventsCoherent'
  BY <1>1, CoherentPrimed, CoherentLights DEF Coherent
<1>2. ASSUME NEW e \in Lights, HAChange(e) PROVE EventsCoherent'
  BY <1>2, BecomesCoherent DEF HAChange
<1>3. CASE SubscribeOk
  <2>1. ch = <<>> /\ wire = <<>>
    BY <1>3 DEF SubscribeOk, Conn
  <2> QED
    BY <1>1, <1>3, <2>1 DEF SubscribeOk, Pending
<1>4. CASE ReaderSend
  <2>1. Pending' = Pending
    BY <1>4, MoveHead DEF ReaderSend, Pending, TypeOK
  <2> QED
    BY <1>1, <1>4, <2>1 DEF ReaderSend
<1>5. CASE SubscribeError \/ RunClosed \/ RunRetry \/ HAAccept \/ Cancel \/ ReaderExit
  <2>1. UNCHANGED <<ha, wire, ch, states, source, missed>>
    BY <1>5 DEF SubscribeError, RunClosed, RunRetry, HAAccept, Cancel, ReaderExit, conn
  <2> QED
    BY <1>1, <2>1 DEF Pending
<1>6. ASSUME NEW r \in Requests, SetService(r) PROVE EventsCoherent'
  <2>1. UNCHANGED <<ch, states, source>> /\ req[r].light \in Lights
    BY <1>6, CallKinds DEF SetService
  <2>2. CASE UNCHANGED <<ha, wire, missed>>
    BY <1>1, <2>1, <2>2 DEF Pending
  <2> QED
    BY <1>6, <2>1, <2>2, ServiceEffect, BecomesCoherent
<1>7. ASSUME NEW e \in Lights, NEW s \in Light, NEW who \in {"fill", "command"},
             Put(e, s, who), UNCHANGED <<ha, ch, wire, missed>>
      PROVE  EventsCoherent'
  <2>1. /\ source'[e] # "event"
        /\ \A f \in Lights \ {e} : states'[f] = states[f] /\ source'[f] = source[f]
    BY <1>7, PutTypes
  <2>2. Pending' = Pending
    BY <1>7 DEF Pending
  <2> QED
    BY <1>7, <2>1, <2>2, CoherentPrimed, CoherentLights DEF Coherent
<1>8. ASSUME NEW r \in Requests, GetFill(r) PROVE EventsCoherent'
  <2>1. req[r].light \in Lights /\ req[r].state \in Light
    BY <1>8, RequestKinds, LightKinds DEF GetFill, TypeOK
  <2> QED
    BY <1>7, <1>8, <2>1 DEF GetFill, conn
<1>9. ASSUME NEW r \in Requests, SetApply(r) PROVE EventsCoherent'
  <2>1. req[r].light \in Lights /\ UNCHANGED <<ha, ch, wire, missed>>
    BY <1>9, CallKinds DEF SetApply, conn
  <2>2. CASE UNCHANGED <<states, source>>
    BY <1>1, <2>1, <2>2 DEF Pending
  <2> QED
    BY <1>7, <1>9, <2>1, <2>2, ApplyEffect
<1>10. ASSUME Quietly PROVE EventsCoherent'
  BY <1>1, <1>10 DEF Quietly, conn, Pending
<1>11. CASE UNCHANGED vars
  BY <1>1, <1>11 DEF vars, conn, Pending
<1> QED
  BY <1>2, <1>3, <1>4, <1>5, <1>6, <1>8, <1>9, <1>10, <1>11, DropCoherent, PutCoherent
  DEF Next, Run, Reader, Serve, GetCall, SetCall, GetAnswer, SetCheck

-----------------------------------------------------------------------------
(* Refinement: the goroutines and the channel implement EventFeed.         *)

LEMMA FeedInit == Init => Feed!Init
<1> SUFFICES ASSUME Init PROVE Feed!Init
  OBVIOUS
<1>1. ch = <<>> /\ wire = <<>>
  BY DEF Init
<1>2. Pending = <<>>
  BY <1>1, SeqKinds, ConcatEmptySeq DEF Pending
<1> QED
  BY <1>2 DEF Init, Feed!Init

\* Home Assistant tells its subscriber of a change, if there is one.
LEMMA FeedChange ==
  ASSUME TypeOK, NEW e \in Lights, NEW s \in HALight, Becomes(e, s),
         UNCHANGED <<link, ch, states>>
  PROVE  Feed!Change(e, s) \/ UNCHANGED Feed!vars
<1>1. ch \in Seq(Event) /\ wire \in Seq(Event) /\ ha \in [Lights -> HALight]
  BY DEF TypeOK
<1>2. CASE s = ha[e]
  <2>1. ha' = ha /\ wire' = wire
    BY <1>1, <1>2 DEF Becomes
  <2> QED
    BY <2>1 DEF Feed!vars, Pending
<1>3. CASE s # ha[e] /\ link = "up"
  <2>1. wire' = Append(wire, [light |-> e, state |-> s])
    BY <1>3 DEF Becomes
  <2>2. Pending' = Append(Pending, [light |-> e, state |-> s])
    BY <1>1, <2>1, EventKinds, SendLast DEF Pending
  <2> QED
    BY <1>3, <2>2 DEF Becomes, Feed!Change
<1>4. CASE s # ha[e] /\ link # "up"
  <2>1. Pending' = Pending
    BY <1>4 DEF Becomes, Pending
  <2> QED
    BY <1>4, <2>1 DEF Becomes, Feed!Change
<1> QED
  BY <1>2, <1>3, <1>4

LEMMA FeedBreak ==
  ASSUME TypeOK, Conn, ConnDrop
  PROVE  Feed!Break \/ UNCHANGED Feed!vars
<1>1. ch \in Seq(Event) /\ wire \in Seq(Event) /\ Len(ch) \in Nat /\ Len(wire) \in Nat
  BY SeqKinds DEF TypeOK
<1>2. PICK n \in 0..Len(wire) : wire' = SubSeq(wire, 1, n)
  BY DEF ConnDrop
<1>3. UNCHANGED <<ha, ch, states>> /\ link' = "down" /\ link \in {"asked", "up"}
  BY DEF ConnDrop
<1>4. CASE link = "asked"
  <2>1. Len(wire) = 0 /\ wire = <<>>
    BY <1>4, SeqKinds DEF Conn
  <2>2. wire' = SubSeq(wire, 1, 0)
    BY <1>2, <2>1
  <2>3. wire' = wire
    BY <2>1, <2>2, SubSeqEmpty
  <2> QED
    BY <1>3, <1>4, <2>3 DEF Feed!vars, Pending
<1>5. CASE link = "up"
  <2>1. /\ Pending' = SubSeq(Pending, 1, Len(ch) + n)
        /\ Len(ch) + n \in 0..Len(Pending)
    BY <1>1, <1>2, <1>3, LoseEnd, Halves DEF Pending
  <2> QED
    BY <1>3, <1>5, <2>1 DEF Feed!Break
<1> QED
  BY <1>3, <1>4, <1>5

LEMMA FeedDeliver ==
  ASSUME TypeOK, RunPut
  PROVE  Feed!Deliver
<1>1. /\ ch # <<>> /\ ch' = Tail(ch) /\ UNCHANGED <<ha, link, wire>>
      /\ states' = [states EXCEPT ![Head(ch).light] = {Head(ch).state}]
  BY DEF RunPut, Put
<1>2. /\ Pending # <<>> /\ Head(Pending) = Head(ch) /\ Pending' = Tail(Pending)
  BY <1>1, DropHead DEF Pending, TypeOK
<1> QED
  BY <1>1, <1>2 DEF Feed!Deliver

LEMMA FeedNext ==
  ASSUME TypeOK, Conn, [Next]_vars
  PROVE  [Feed!Next]_(Feed!vars)
<1>1. ASSUME UNCHANGED <<ha, Pending, states>>, link' = "up" <=> link = "up"
      PROVE  UNCHANGED Feed!vars
  BY <1>1 DEF Feed!vars
<1>2. ASSUME UNCHANGED <<ha, link, ch, wire, states>> PROVE UNCHANGED Feed!vars
  BY <1>1, <1>2 DEF Pending
<1>3. ASSUME NEW e \in Lights, HAChange(e) PROVE [Feed!Next]_(Feed!vars)
  BY <1>3, FeedChange DEF HAChange, Feed!Next
<1>4. CASE HAAccept
  <2>1. ch = <<>> /\ wire = <<>> /\ link = "asked" /\ link' = "up"
        /\ UNCHANGED <<ha, ch, wire, states>>
    BY <1>4 DEF HAAccept, Conn
  <2>2. Pending = <<>> /\ Pending' = Pending
    BY <2>1, SeqKinds, ConcatEmptySeq DEF Pending
  <2>3. Feed!Listen
    BY <2>1, <2>2 DEF Feed!Listen
  <2> QED
    BY <2>3 DEF Feed!Next
<1>5. CASE SubscribeOk
  <2>1. ch = <<>> /\ wire = <<>> /\ link = "down" /\ link' = "asked"
        /\ UNCHANGED <<ha, ch, wire, states>>
    BY <1>5 DEF SubscribeOk, Conn
  <2> QED
    BY <1>1, <2>1 DEF Pending
<1>6. CASE ReaderSend
  <2>1. Pending' = Pending
    BY <1>6, MoveHead DEF ReaderSend, Pending, TypeOK
  <2> QED
    BY <1>1, <1>6, <2>1 DEF ReaderSend
<1>7. CASE SubscribeError \/ RunClosed \/ RunRetry \/ Cancel \/ ReaderExit
  <2>1. UNCHANGED <<ha, link, ch, wire, states>>
    BY <1>7 DEF SubscribeError, RunClosed, RunRetry, Cancel, ReaderExit, conn
  <2> QED
    BY <1>2, <2>1
<1>8. ASSUME NEW r \in Requests, SetService(r) PROVE [Feed!Next]_(Feed!vars)
  <2>1. UNCHANGED <<link, ch, states>> /\ req[r].light \in Lights
    BY <1>8, CallKinds DEF SetService
  <2>2. CASE UNCHANGED <<ha, wire, missed>>
    BY <1>2, <2>1, <2>2
  <2>3. CASE \E s \in HALight : Becomes(req[r].light, s)
    BY <2>1, <2>3, FeedChange DEF Feed!Next
  <2> QED
    BY <1>8, <2>2, <2>3, ServiceEffect
<1>9. ASSUME NEW e \in Lights, NEW s \in Light, NEW who, Put(e, s, who),
             UNCHANGED <<ha, link, ch, wire>>
      PROVE  [Feed!Next]_(Feed!vars)
  <2>1. Feed!Overwrite(e, s)
    BY <1>9 DEF Put, Feed!Overwrite, Pending
  <2> QED
    BY <2>1 DEF Feed!Next
<1>10. ASSUME NEW r \in Requests, GetFill(r) PROVE [Feed!Next]_(Feed!vars)
  <2>1. req[r].light \in Lights /\ req[r].state \in Light
    BY <1>10, RequestKinds, LightKinds DEF GetFill, TypeOK
  <2> QED
    BY <1>9, <1>10, <2>1 DEF GetFill, conn
<1>11. ASSUME NEW r \in Requests, SetApply(r) PROVE [Feed!Next]_(Feed!vars)
  <2>1. req[r].light \in Lights /\ UNCHANGED <<ha, link, ch, wire>>
    BY <1>11, CallKinds DEF SetApply, conn
  <2>2. CASE UNCHANGED <<states, source>>
    BY <1>2, <2>1, <2>2
  <2> QED
    BY <1>9, <1>11, <2>1, <2>2, ApplyEffect
<1>12. ASSUME Quietly PROVE UNCHANGED Feed!vars
  BY <1>2, <1>12 DEF Quietly, conn
<1>13. CASE UNCHANGED vars
  BY <1>2, <1>13 DEF vars, conn
<1>14. CASE ConnDrop
  BY <1>14, FeedBreak DEF Feed!Next
<1>15. CASE RunPut
  BY <1>15, FeedDeliver DEF Feed!Next
<1> QED
  BY <1>3, <1>4, <1>5, <1>6, <1>7, <1>8, <1>10, <1>11, <1>12, <1>13, <1>14, <1>15
  DEF Next, Run, Reader, Serve, GetCall, SetCall, GetAnswer, SetCheck

-----------------------------------------------------------------------------
(* Attributes.                                                             *)

\* Only SetState looks, posts and patches; with an attribute alone it posts to
\* a light that it saw on, which nothing else has turned off if nothing else
\* changed the lights.
Callers == \A r \in Requests : req[r].pc \in {"check", "call", "apply"} => r \in Writers
Looked == \A r \in Writers :
             req[r].pc = "call" /\ req[r].desired.on = "keep" /\ Undisturbed(r)
                => ha[req[r].light].on

\* The step of a call: where it goes, and what it leaves alone.
MoveTo(r, q) ==
    /\ Step(r, q) /\ q.pc # "idle" /\ changes' = changes
    /\ q.pc \in {"check", "call", "apply"} => r \in Writers
    /\ q.pc = "call" /\ q.desired.on = "keep" => ha[q.light].on
    /\ ha' # ha => r \in Writers /\ q.pc # "call"

LEMMA Moves ==
  ASSUME TypeOK, Callers, NEW r \in Requests,
         \/ r \in Readers /\ \E e \in Lights : GetCall(r, e)
         \/ r \in Writers /\ \E e \in Lights, d \in Commands : SetCall(r, e, d)
         \/ Serve(r)
  PROVE  \E q \in Request : MoveTo(r, q)
<1>1. ASSUME NEW q \in Request, Step(r, q), UNCHANGED <<changes, ha>>,
             q.pc \in {"fetch", "fill", "done"}
      PROVE  MoveTo(r, q)
  BY <1>1 DEF MoveTo
<1>2. ASSUME NEW e \in Lights, GetCall(r, e) PROVE \E q \in Request : MoveTo(r, q)
  <2>1. UNCHANGED <<changes, ha>>
    BY <1>2 DEF GetCall, Quietly, env
  <2>2. Step(r, Done) \/ Step(r, Fetch(e))
    BY <1>2 DEF GetCall
  <2> QED
    BY <1>1, <2>1, <2>2, RequestKinds
<1>3. ASSUME NEW e \in Lights, NEW d \in Commands, r \in Writers, SetCall(r, e, d)
      PROVE  \E q \in Request : MoveTo(r, q)
  <2> DEFINE label == IF d.on # "keep" THEN "call"
                      ELSE IF d.look # None THEN "check" ELSE "apply"
             q == Writing(label, e, d)
  <2>1. label \in {"check", "call", "apply"} /\ (label = "call" => d.on # "keep")
    OBVIOUS
  <2>2. Step(r, q) /\ UNCHANGED <<changes, ha>>
    BY <1>3 DEF SetCall, Quietly, env
  <2> HIDE DEF label
  <2>3. q \in Request /\ q.pc = label /\ q.desired = d
    BY <2>1, RequestKinds
  <2>4. MoveTo(r, q)
    BY <1>3, <2>1, <2>2, <2>3 DEF MoveTo
  <2> QED
    BY <2>3, <2>4
<1>4. ASSUME GetAnswer(r) PROVE \E q \in Request : MoveTo(r, q)
  <2>1. req[r].light \in Lights /\ ha[req[r].light] \in HALight
    BY <1>4, RequestKinds DEF GetAnswer, TypeOK
  <2>2. UNCHANGED <<changes, ha>>
    BY <1>4 DEF GetAnswer, Quietly, env
  <2>3. Step(r, Fill(req[r].light, ha[req[r].light])) \/ Step(r, Done)
    BY <1>4 DEF GetAnswer
  <2> QED
    BY <1>1, <2>1, <2>2, <2>3, RequestKinds
<1>5. ASSUME GetFill(r) \/ SetApply(r) PROVE \E q \in Request : MoveTo(r, q)
  <2>1. UNCHANGED <<changes, ha>> /\ Step(r, Done)
    BY <1>5 DEF GetFill, SetApply, env
  <2> QED
    BY <1>1, <2>1, RequestKinds
<1>6. ASSUME SetCheck(r) PROVE \E q \in Request : MoveTo(r, q)
  <2>1. r \in Writers /\ UNCHANGED <<changes, ha>>
    BY <1>6 DEF SetCheck, Quietly, env, Callers
  <2>2. PICK q \in Request : /\ Step(r, q) /\ q.pc \in {"call", "apply", "done"}
                             /\ q.pc = "call" => q.light = req[r].light /\ ha[q.light].on
    BY <1>6, CheckEffect
  <2>3. MoveTo(r, q)
    BY <2>1, <2>2 DEF MoveTo
  <2> QED
    BY <2>3
<1>7. ASSUME SetService(r) PROVE \E q \in Request : MoveTo(r, q)
  <2>1. r \in Writers /\ UNCHANGED changes
    BY <1>7 DEF SetService, env, Callers
  <2>2. PICK q \in Request : Step(r, q) /\ q.pc \in {"apply", "done"}
    BY <1>7, ServiceEffect
  <2>3. MoveTo(r, q)
    BY <2>1, <2>2 DEF MoveTo
  <2> QED
    BY <2>3
<1> QED
  BY <1>2, <1>3, <1>4, <1>5, <1>6, <1>7 DEF Serve

LEMMA LookedNext ==
  ASSUME TypeOK, Callers, Looked, [Next]_vars
  PROVE  Callers' /\ Looked'
<1>1. ASSUME UNCHANGED <<ha, req, changes>> PROVE Callers' /\ Looked'
  BY <1>1 DEF Callers, Looked, Undisturbed
<1>2. CASE HAAccept \/ ConnDrop \/ Cancel \/ Run \/ Reader \/ UNCHANGED vars
  BY <1>1, <1>2 DEF HAAccept, ConnDrop, Cancel, Run, SubscribeOk, SubscribeError, RunPut,
                    RunClosed, RunRetry, Reader, ReaderSend, ReaderExit, env, vars
<1>3. ASSUME NEW e \in Lights, HAChange(e) PROVE Callers' /\ Looked'
  <2>1. changes' # 0 /\ req' = req
    BY <1>3 DEF HAChange, TypeOK
  <2> QED
    BY <2>1 DEF Callers, Looked, Undisturbed
<1>4. ASSUME NEW x \in Requests, NEW q \in Request, MoveTo(x, q)
      PROVE  Callers' /\ Looked'
  <2>1. req'[x] = q /\ \A w \in Requests \ {x} : req'[w] = req[w]
    BY <1>4, StepTypes DEF MoveTo
  <2>2. Callers'
    BY <1>4, <2>1 DEF Callers, MoveTo
  <2>3. ASSUME NEW r \in Writers, req'[r].pc = "call", req'[r].desired.on = "keep",
               changes' = 0, \A w \in Writers \ {r} : req'[w].pc = "idle"
        PROVE  ha'[req'[r].light].on
    <3>1. CASE x = r
      BY <1>4, <2>1, <2>3, <3>1 DEF MoveTo
    <3>2. CASE x # r
      <4>1. x \notin Writers /\ ha' = ha
        BY <1>4, <2>1, <2>3, <3>2 DEF MoveTo
      <4>2. \A w \in Writers : w \in Requests \ {x} /\ req'[w] = req[w]
        BY <2>1, <4>1 DEF Requests
      <4> QED
        BY <1>4, <2>3, <4>1, <4>2 DEF Looked, Undisturbed, MoveTo
    <3> QED
      BY <3>1, <3>2
  <2> QED
    BY <2>2, <2>3 DEF Looked, Undisturbed
<1>5. ASSUME NEW r \in Requests,
             \/ r \in Readers /\ \E e \in Lights : GetCall(r, e)
             \/ r \in Writers /\ \E e \in Lights, d \in Commands : SetCall(r, e, d)
             \/ Serve(r)
      PROVE  Callers' /\ Looked'
  BY <1>4, <1>5, Moves
<1> QED
  BY <1>2, <1>3, <1>5 DEF Next, Requests

-----------------------------------------------------------------------------
\* The inductive invariant of the snapshot, the events on their way to it and
\* the calls, for every instance of the constants.
CacheInv == TypeOK /\ Conn /\ EventsCoherent /\ Callers /\ Looked

LEMMA CacheInit == Init => CacheInv
<1> SUFFICES ASSUME Init PROVE CacheInv
  OBVIOUS
<1>1. Pending = <<>> /\ Len(Pending) = 0
  <2>1. ch = <<>> /\ wire = <<>>
    BY DEF Init
  <2>2. Pending = <<>>
    BY <2>1, SeqKinds, ConcatEmptySeq DEF Pending
  <2> QED
    BY <2>2, SeqKinds
<1>2. EventsCoherent
  BY <1>1 DEF EventsCoherent, Init
<1>3. Conn
  BY DEF Init, Conn
<1>4. \A r \in Requests : req[r].pc = "idle"
  BY RequestKinds DEF Init
<1>5. Callers /\ Looked
  BY <1>4 DEF Callers, Looked, Requests
<1> QED
  BY <1>2, <1>3, <1>5, TypeInit DEF CacheInv

LEMMA CacheNext == CacheInv /\ [Next]_vars => CacheInv'
<1> SUFFICES ASSUME CacheInv, [Next]_vars PROVE CacheInv'
  OBVIOUS
<1>1. TypeOK /\ Conn /\ EventsCoherent /\ Callers /\ Looked
  BY DEF CacheInv
<1>2. TypeOK'
  <2>1. CASE UNCHANGED vars
    BY <1>1, <2>1 DEF vars, conn, loop, env, TypeOK
  <2> QED
    BY <1>1, <2>1, LoopTypes, CallTypes DEF Next
<1>3. Conn' /\ EventsCoherent' /\ Callers' /\ Looked'
  BY <1>1, ConnNext, CoherentNext, LookedNext
<1> QED
  BY <1>2, <1>3 DEF CacheInv

LEMMA CacheInductive == Spec => []CacheInv
BY CacheInit, CacheNext, PTL DEF Spec

\* The type invariant of the snapshot, the subscription and the calls.
THEOREM CacheTypes == Spec => []TypeOK
<1>1. CacheInv => TypeOK
  BY DEF CacheInv
<1> QED
  BY <1>1, CacheInductive, PTL

\* No event is lost, doubled or overtaken between Home Assistant and the
\* snapshot while the connection lasts, however the goroutines take turns and
\* however full the channel is (cache.go:57-68, websocket.go:62-84).
THEOREM Coherence == Spec => []EventsCoherent
<1>1. CacheInv => EventsCoherent
  BY DEF CacheInv
<1> QED
  BY <1>1, CacheInductive, PTL

\* Whatever the goroutines, the bounded channel and the connection do, to Home
\* Assistant and the snapshot it is the queue of EventFeed: no change that is
\* told is skipped, doubled, overtaken or left over from an old connection
\* (cache.go:57-68, websocket.go:27-87).
THEOREM RefinesFeed == Spec => ImplementsFeed
<1>1. CacheInv /\ [Next]_vars => [Feed!Next]_(Feed!vars)
  BY FeedNext DEF CacheInv
<1> QED
  BY <1>1, FeedInit, CacheInductive, PTL DEF Spec, ImplementsFeed, Feed!Spec

\* A call without an on/off part turns no light on, as long as nothing else
\* changes lights (homeassistant.go:164-184).
THEOREM LeftOff == Spec => AttributesNeverTurnOn
<1>1. CacheInv /\ [Next]_vars =>
        [\A r \in Writers :
            /\ req[r].pc = "call" /\ req[r].desired.on = "keep" /\ req'[r] # req[r]
            /\ Undisturbed(r)
            => ~(~ha[req[r].light].on /\ ha'[req[r].light].on)]_vars
  BY DEF CacheInv, Looked
<1> QED
  BY <1>1, CacheInductive, PTL DEF Spec, AttributesNeverTurnOn

\* Run's delay: the first, or less than twice the maximum, since a delay below
\* the maximum is doubled (cache.go:73-79); so the delay may pass maxRetryDelay,
\* as 32 s pass 30 s, but only once.
DelayBounded == delay = InitialDelay \/ delay < 2 * MaxDelay

\* However often subscribing fails, Run waits no longer than that.
THEOREM Backoff == Spec => []DelayBounded
<1>1. Init => DelayBounded
  BY DEF Init, DelayBounded
<1>2. ASSUME TypeOK, DelayBounded, [Next]_vars PROVE DelayBounded'
  <2>1. delay' = delay \/ delay' = InitialDelay \/ (delay < MaxDelay /\ delay' = delay * 2)
    <3>1. CASE Run
      BY <3>1 DEF Run, SubscribeOk, SubscribeError, RunPut, RunClosed, RunRetry, loop
    <3>2. CASE ~Run
      BY <1>2, <3>2 DEF Next, HAChange, HAAccept, ConnDrop, Cancel, Reader, ReaderSend,
          ReaderExit, GetCall, SetCall, Serve, GetAnswer, GetFill, SetCheck, SetService,
          SetApply, Quietly, loop, vars
    <3> QED
      BY <3>1, <3>2
  <2>2. delay \in Nat /\ MaxDelay \in Nat
    BY <1>2, StateCacheAssumption DEF TypeOK
  <2> QED
    BY <1>2, <2>1, <2>2 DEF DelayBounded
<1> QED
  BY <1>1, <1>2, CacheTypes, PTL DEF Spec

-----------------------------------------------------------------------------
(* What is left of "Run keeps the snapshot current" (cache.go:52), which   *)
(* CurrentWhenSettled shows to be more than the code does.                 *)

\* An entry that nothing has written is not there.
Unwritten == \A e \in Lights : source[e] = "nothing" => states[e] = {}

LEMMA UnwrittenNext ==
  ASSUME TypeOK, Unwritten, [Next]_vars
  PROVE  Unwritten'
<1>1. ASSUME UNCHANGED <<states, source>> PROVE Unwritten'
  BY <1>1 DEF Unwritten
<1>2. ASSUME NEW e \in Lights, NEW s \in Light, NEW who \in {"event", "fill", "command"},
             Put(e, s, who)
      PROVE  Unwritten'
  <2>1. /\ source'[e] # "nothing"
        /\ \A f \in Lights \ {e} : states'[f] = states[f] /\ source'[f] = source[f]
    BY <1>2, PutTypes
  <2> QED
    BY <2>1 DEF Unwritten
<1>3. CASE RunPut
  <2>1. Head(ch).light \in Lights /\ Head(ch).state \in Light
    BY <1>3, SeqKinds, EventKinds, LightKinds DEF RunPut, TypeOK
  <2> QED
    BY <1>2, <1>3, <2>1 DEF RunPut
<1>4. ASSUME NEW r \in Requests, GetFill(r) PROVE Unwritten'
  <2>1. req[r].light \in Lights /\ req[r].state \in Light
    BY <1>4, RequestKinds, LightKinds DEF GetFill, TypeOK
  <2> QED
    BY <1>2, <1>4, <2>1 DEF GetFill
<1>5. ASSUME NEW r \in Requests, SetApply(r) PROVE Unwritten'
  <2>1. req[r].light \in Lights
    BY <1>5, CallKinds DEF SetApply
  <2> QED
    BY <1>1, <1>2, <1>5, <2>1, ApplyEffect
<1>6. CASE \/ \E e \in Lights : HAChange(e)
           \/ HAAccept \/ ConnDrop \/ Cancel \/ Reader
           \/ SubscribeOk \/ SubscribeError \/ RunClosed \/ RunRetry
           \/ UNCHANGED vars
  BY <1>1, <1>6 DEF HAChange, HAAccept, ConnDrop, Cancel, Reader, ReaderSend, ReaderExit,
                    SubscribeOk, SubscribeError, RunClosed, RunRetry, vars
<1>7. ASSUME Quietly PROVE Unwritten'
  BY <1>1, <1>7 DEF Quietly
<1>8. ASSUME NEW r \in Requests, SetService(r) PROVE Unwritten'
  BY <1>1, <1>8 DEF SetService
<1> QED
  BY <1>3, <1>4, <1>5, <1>6, <1>7, <1>8
  DEF Next, Run, Serve, GetCall, SetCall, GetAnswer, SetCheck

\* Once nothing is under way the snapshot is current for a light unless a
\* change of it was announced to nobody, or its entry is an answer of GetState
\* or a patch of SetState and no event has come for it since (cache.go:57-68,
\* 94, 106-127): there are no further ways to be stale.
CurrentUnlessMissed ==
    Settled => \A e \in Lights :
                  ~missed[e] /\ source[e] \in {"nothing", "event"} => states[e] \subseteq {ha[e]}

\* See CurrentUnlessMissed: what the snapshot may be behind on, once at rest.
THEOREM Current == Spec => []CurrentUnlessMissed
<1>1. Init => Unwritten
  BY DEF Init, Unwritten
<1>2. TypeOK /\ Unwritten /\ [Next]_vars => Unwritten'
  BY UnwrittenNext
<1>3. EventsCoherent /\ Unwritten => CurrentUnlessMissed
  <2> SUFFICES ASSUME EventsCoherent, Unwritten, Settled, NEW e \in Lights, ~missed[e],
                      source[e] \in {"nothing", "event"}
               PROVE  states[e] \subseteq {ha[e]}
    BY DEF CurrentUnlessMissed
  <2>1. ch = <<>> /\ wire = <<>>
    BY DEF Settled
  <2>2. Pending = <<>>
    BY <2>1, SeqKinds, ConcatEmptySeq DEF Pending
  <2>3. Len(Pending) = 0
    BY <2>2, SeqKinds
  <2>4. source[e] = "event" => states[e] = {ha[e]}
    BY <2>3 DEF EventsCoherent
  <2> QED
    BY <2>4 DEF Unwritten
<1> QED
  BY <1>1, <1>2, <1>3, CacheTypes, Coherence, PTL DEF Spec
=============================================================================
