------------------------- MODULE StreamWatchProofs -------------------------
(***************************************************************************)
(* What holds of the streams a client watches for every value of the       *)
(* constants: a stream shown as watched is received and counted, and one   *)
(* the user closed is not watched again.                                   *)
(***************************************************************************)
EXTENDS ClientParts, TLAPS

Fields == {"entry", "run", "cancelled", "room", "flows", "recovery", "link", "sfu", "airs", "over",
           "viewing", "wanted", "lapsed"}
Room == {"none", "on", "mine"}

\* The store has its type, field by field.
Typed(v) ==
  /\ DOMAIN v = Fields
  /\ v.entry \in [LiveStream -> L!Entry] /\ v.run \in [LiveStream -> L!Runtime]
  /\ v.cancelled \subseteq LiveStream /\ v.room \in [LiveStream -> Room]
  /\ v.flows \in [StoreFlow -> L!FlowRec] /\ v.recovery \in [LiveStream -> L!RecoveryRec]
  /\ v.link \in BOOLEAN /\ v.sfu \in BOOLEAN
  /\ v.airs \subseteq LiveStream /\ v.over \subseteq LiveStream /\ v.viewing \subseteq LiveStream
  /\ v.wanted \subseteq LiveStream /\ v.lapsed \in BOOLEAN
  /\ \A f \in StoreFlow : v.flows[f].at # "none" => v.flows[f].s \in LiveStream

\* What a function asks for: a watch that sets a runtime up, and one that mends it.
Gets == {"watch", "admitted", "consume"}
Mends == {"reconnect", "rebuild"}

Own(v, f, at) == v.flows[f].own /\ v.flows[f].at \in at
On(v, s, at) == \E f \in StoreFlow : Own(v, f, at) /\ v.flows[f].s = s

FlowFits(w) ==
  /\ w.at = "none" => w.s = NoLive /\ w.rec = NoLive /\ w.todo = {} /\ ~w.own /\ ~w.restores
  /\ w.at # "none" => w.s \in LiveStream
  /\ w.todo # {} => w.restores
  /\ w.restores => w.rec = NoLive /\ w.at \in Gets \cup {"cancel"}
  /\ w.rec # NoLive => w.at \in Gets \cup Mends \cup {"cancel"}
  /\ w.at \in Mends => w.rec \in {NoLive, w.s}
  /\ w.own => w.at \in Gets \cup Mends
  /\ w.own /\ w.at \in Mends => w.rec = w.s
Fits(v) == \A f \in StoreFlow : FlowFits(v.flows[f])

\* A function that reports to a recovery is its only attempt.
Reports(v) ==
  /\ \A s \in LiveStream : v.recovery[s].phase # "none" => v.recovery[s].attempt # "none"
  /\ \A f \in StoreFlow : v.flows[f].rec # NoLive =>
       /\ v.recovery[v.flows[f].rec].phase = "running"
       /\ v.recovery[v.flows[f].rec].attempt = IF v.flows[f].at \in Mends THEN "media" ELSE "gateway"
  /\ \A f, g \in StoreFlow : v.flows[f].rec # NoLive /\ v.flows[g].rec = v.flows[f].rec => f = g

\* What is shown of a stream, and what becomes of it; those of todo are restored next.
Shown(v, s, todo) ==
  /\ v.run[s] # "none" => v.entry[s] \notin {"none", "ended"}
  /\ v.entry[s] = "starting" => On(v, s, Gets)
  /\ v.entry[s] = "watching" => v.link /\ s \in v.viewing /\ v.run[s] # "none"
  /\ v.link /\ v.run[s] = "idle" => On(v, s, {"consume"}) \/ v.recovery[s].attempt # "none"
  /\ v.link /\ v.entry[s] = "reconnecting" /\ v.run[s] = "none" =>
       s \in todo \/ \E f \in StoreFlow : s \in v.flows[f].todo
  /\ v.link /\ v.entry[s] = "reconnecting" /\ v.run[s] # "none" => v.recovery[s].attempt # "none"
\* What the owner of an entry or a runtime finds.
Finds(v, f) ==
  LET s == v.flows[f].s
  IN /\ Own(v, f, {"watch", "admitted"}) => v.entry[s] = "starting" /\ v.run[s] = "none"
     /\ Own(v, f, {"consume"}) => v.run[s] = "idle"
     /\ Own(v, f, Mends) => v.run[s] # "none"
     /\ Own(v, f, {"rebuild"}) => v.link
Shows(v, todo) == (\A s \in LiveStream : Shown(v, s, todo)) /\ \A f \in StoreFlow : Finds(v, f)

\* Who keeps a place among the viewers of s.
Keeps(v, s) ==
  \/ v.run[s] # "none"
  \/ v.recovery[s].attempt = "gateway" /\ v.recovery[s].phase = "timer"
  \/ \E f \in StoreFlow : v.flows[f].s = s /\ v.flows[f].at = "admitted"
  \/ \E f \in StoreFlow : v.flows[f].s = s /\ v.flows[f].at = "watch" /\ v.flows[f].rec = s

\* Those of spared are about to be kept, or wanted, again.
Counts(v, spared) ==
  /\ \A s \in v.viewing :
       v.link /\ v.room[s] = "mine" /\ s \in v.airs /\ (s \in spared \/ Keeps(v, s))
  /\ \A s \in LiveStream : v.link /\ v.run[s] # "none" => s \in v.viewing
  /\ \A f \in StoreFlow : Own(v, f, {"admitted", "consume"}) => v.flows[f].s \in v.viewing
  /\ v.airs \cap v.over = {}

Cancels(v) ==
  /\ \A s \in v.cancelled : v.entry[s] = "none" /\ v.run[s] = "none"
  /\ \A f \in StoreFlow :
       /\ v.flows[f].at \in {"watch", "admitted"} /\ v.flows[f].s \in v.cancelled =>
            v.flows[f].rec # v.flows[f].s
       /\ v.flows[f].at = "cancel" => v.flows[f].rec # v.flows[f].s

\* Whatever is watched is wanted, or is about to replace what is.
Wanted(v, s, spared) ==
  /\ v.recovery[s].attempt # "none" => s \in v.wanted
  /\ v.entry[s] \notin {"none", "ended"} =>
       \/ s \in v.wanted \/ s \in spared
       \/ \E f \in StoreFlow : v.flows[f].own /\ v.flows[f].s = s /\ L!Replaces(v.flows[f])
  /\ v.room[s] # "none" => s \in v.airs \cup v.over
Gone(v, s) == v.run[s] = "none" /\ s \in v.over /\ v.room[s] = "none"
Serves(v, w) ==
  /\ w.todo \subseteq v.wanted
  /\ w.own /\ w.rec = NoLive => w.s \in v.wanted
  /\ w.s # NoLive => w.s \in v.airs \cup v.over
  /\ L!Replaces(w) => Gone(v, w.rec)
Wants(v, todo, spared) ==
  /\ todo \subseteq v.wanted /\ v.wanted \subseteq v.airs \cup v.over
  /\ \A s \in LiveStream : Wanted(v, s, spared)
  /\ \A f \in StoreFlow : Serves(v, v.flows[f])
  /\ (\A s \in LiveStream : v.room[s] = "none") \/ (\A s \in v.airs : v.room[s] # "none")

Nearly(v, todo, spared) ==
  /\ Fits(v) /\ Reports(v) /\ Shows(v, todo) /\ Counts(v, spared) /\ Cancels(v)
  /\ Wants(v, todo, spared)
Good(v, todo) == Nearly(v, todo, {})
WatchInv(v) == Typed(v) /\ (~v.lapsed => Good(v, {}))

-----------------------------------------------------------------------------
(* What the shared functions do, field by field.                           *)

\* Functions go on, of which some were disowned.
Fades(w, x) ==
  /\ x.at = w.at /\ x.s = w.s /\ x.rec = w.rec /\ x.todo = w.todo /\ x.restores = w.restores
Disowns(v, u, streams) ==
  \A f \in StoreFlow : /\ Fades(v.flows[f], u.flows[f])
                       /\ u.flows[f].own <=> v.flows[f].own /\ v.flows[f].s \notin streams
SameGate(v, u) ==
  u.room = v.room /\ u.link = v.link /\ u.sfu = v.sfu /\ u.airs = v.airs /\ u.over = v.over
SameWish(v, u) ==
  u.cancelled = v.cancelled /\ u.wanted = v.wanted /\ u.lapsed = v.lapsed
SameFlows(v, u, f) == \A g \in StoreFlow \ {f} : u.flows[g] = v.flows[g]

LEMMA NoFlowTyped == L!NoFlow \in L!FlowRec /\ L!NoRecovery \in L!RecoveryRec /\ FlowFits(L!NoFlow)
BY DEF L!NoFlow, L!NoRecovery, L!FlowRec, L!RecoveryRec, L!Commands, L!Setups, FlowFits

LEMMA EntryWords ==
  /\ "none" \in L!Entry /\ "starting" \in L!Entry /\ "reconnecting" \in L!Entry
  /\ "watching" \in L!Entry /\ "ended" \in L!Entry
  /\ "none" \in L!Runtime /\ "idle" \in L!Runtime /\ "served" \in L!Runtime
BY DEF L!Entry, L!Runtime

\* Giving up the entry of a stream changes nothing else of a function.
LEMMA FadeFacts ==
  ASSUME NEW w \in L!FlowRec, NEW x, x = [w EXCEPT !.own = FALSE]
  PROVE  x \in L!FlowRec /\ Fades(w, x) /\ ~x.own
BY DEF L!FlowRec, Fades

Faded(flows, gone) ==
  [f \in StoreFlow |-> IF flows[f].s \in gone THEN [flows[f] EXCEPT !.own = FALSE] ELSE flows[f]]

LEMMA FadingFacts ==
  ASSUME NEW flows \in [StoreFlow -> L!FlowRec], NEW gone, NEW fl, fl = Faded(flows, gone)
  PROVE  /\ fl \in [StoreFlow -> L!FlowRec]
         /\ \A f \in StoreFlow : /\ Fades(flows[f], fl[f])
                                 /\ fl[f].own <=> flows[f].own /\ flows[f].s \notin gone
<1>1. ASSUME NEW f \in StoreFlow
      PROVE  /\ fl[f] \in L!FlowRec /\ Fades(flows[f], fl[f])
             /\ fl[f].own <=> flows[f].own /\ flows[f].s \notin gone
  <2> DEFINE w == flows[f]
  <2>1. w \in L!FlowRec
    OBVIOUS
  <2>2. CASE w.s \in gone
    <3>1. fl[f] = [w EXCEPT !.own = FALSE]
      BY <2>2 DEF Faded
    <3> HIDE DEF w
    <3>2. fl[f] \in L!FlowRec /\ Fades(w, fl[f]) /\ ~fl[f].own
      BY ONLY <2>1, <3>1, FadeFacts
    <3> QED BY <2>2, <3>2 DEF w
  <2>3. CASE w.s \notin gone
    BY <2>3, <2>1 DEF Faded, Fades
  <2> QED BY <2>2, <2>3
<1>2. fl = [f \in StoreFlow |-> fl[f]]
  BY DEF Faded
<1>3. fl \in [StoreFlow -> L!FlowRec]
  BY <1>1, <1>2
<1> QED BY ONLY <1>1, <1>3

LEMMA TouchFacts ==
  ASSUME NEW v, Typed(v), NEW s \in LiveStream, NEW u, u = L!Touch(v, s)
  PROVE  /\ Typed(u) /\ Disowns(v, u, {s}) /\ SameGate(v, u) /\ SameWish(v, u)
         /\ u.entry = v.entry /\ u.run = v.run /\ u.recovery = v.recovery /\ u.viewing = v.viewing
<1> DEFINE fl == [f \in StoreFlow |-> IF v.flows[f].s \in {s} THEN [v.flows[f] EXCEPT !.own = FALSE]
                                      ELSE v.flows[f]]
<1>1. u = [v EXCEPT !.flows = fl]
  BY DEF L!Touch
<1>4. v.flows \in [StoreFlow -> L!FlowRec]
  BY DEF Typed
<1>2. /\ fl \in [StoreFlow -> L!FlowRec]
      /\ \A f \in StoreFlow : /\ Fades(v.flows[f], fl[f])
                              /\ fl[f].own <=> v.flows[f].own /\ v.flows[f].s \notin {s}
  <2> DEFINE flows == v.flows
             gone == {s}
  <2>1. flows \in [StoreFlow -> L!FlowRec]
    BY <1>4
  <2>3. fl = Faded(flows, gone)
    BY DEF Faded
  <2> HIDE DEF fl, flows, gone
  <2>2. /\ fl \in [StoreFlow -> L!FlowRec]
        /\ \A f \in StoreFlow : /\ Fades(flows[f], fl[f])
                                /\ fl[f].own <=> flows[f].own /\ flows[f].s \notin gone
    BY ONLY <2>1, <2>3, FadingFacts
  <2> QED BY <2>2 DEF flows, gone
<1> HIDE DEF fl
<1>3. Typed(u)
  BY <1>1, <1>2 DEF Typed, Fields, Fades
<1> QED BY <1>1, <1>2, <1>3 DEF Typed, Fields, Disowns, SameGate, SameWish

LEMMA SetEntryFacts ==
  ASSUME NEW v, Typed(v), NEW s \in LiveStream, NEW e \in L!Entry, NEW u, u = L!SetEntry(v, s, e)
  PROVE  /\ Typed(u) /\ Disowns(v, u, {s}) /\ SameGate(v, u) /\ SameWish(v, u)
         /\ u.entry = [v.entry EXCEPT ![s] = e]
         /\ u.run = v.run /\ u.recovery = v.recovery /\ u.viewing = v.viewing
<1> DEFINE t == L!Touch(v, s)
           en == [v.entry EXCEPT ![s] = e]
<1>1. /\ Typed(t) /\ Disowns(v, t, {s}) /\ SameGate(v, t) /\ SameWish(v, t)
      /\ t.entry = v.entry /\ t.run = v.run /\ t.recovery = v.recovery /\ t.viewing = v.viewing
  BY TouchFacts
<1>2. u = [t EXCEPT !.entry = en]
  BY <1>1 DEF L!SetEntry, Typed, Fields
<1>3. en \in [LiveStream -> L!Entry]
  BY DEF Typed
<1> HIDE DEF t, en
<1>4. Typed(u)
  BY <1>1, <1>2, <1>3 DEF Typed, Fields
<1> QED BY <1>1, <1>2, <1>4 DEF Typed, Fields, Disowns, SameGate, SameWish, en

LEMMA TeardownFacts ==
  ASSUME NEW v, Typed(v), NEW s \in LiveStream, NEW u, u = L!Teardown(v, s)
  PROVE  /\ Typed(u) /\ Disowns(v, u, {s}) /\ SameGate(v, u) /\ SameWish(v, u)
         /\ u.run = [v.run EXCEPT ![s] = "none"]
         /\ u.entry = v.entry /\ u.recovery = v.recovery /\ u.viewing = v.viewing
<1> DEFINE t == L!Touch(v, s)
           r == [v.run EXCEPT ![s] = "none"]
<1>1. /\ Typed(t) /\ Disowns(v, t, {s}) /\ SameGate(v, t) /\ SameWish(v, t)
      /\ t.entry = v.entry /\ t.run = v.run /\ t.recovery = v.recovery /\ t.viewing = v.viewing
  BY TouchFacts
<1>2. u = [t EXCEPT !.run = r]
  BY <1>1 DEF L!Teardown, Typed, Fields
<1>3. r \in [LiveStream -> L!Runtime]
  BY DEF Typed, L!Runtime
<1> HIDE DEF t, r
<1>4. Typed(u)
  BY <1>1, <1>2, <1>3 DEF Typed, Fields
<1> QED BY <1>1, <1>2, <1>4 DEF Typed, Fields, Disowns, SameGate, SameWish, r

LEMMA DropOneFacts ==
  ASSUME NEW v, Typed(v), NEW s \in LiveStream, NEW u, u = L!Drop1(v, s)
  PROVE  /\ Typed(u) /\ Disowns(v, u, {s}) /\ SameGate(v, u) /\ SameWish(v, u)
         /\ u.entry = [v.entry EXCEPT ![s] = "none"] /\ u.run = [v.run EXCEPT ![s] = "none"]
         /\ u.recovery = v.recovery /\ u.viewing = v.viewing
<1> DEFINE t == L!Teardown(v, s)
<1>1. /\ Typed(t) /\ Disowns(v, t, {s}) /\ SameGate(v, t) /\ SameWish(v, t)
      /\ t.run = [v.run EXCEPT ![s] = "none"]
      /\ t.entry = v.entry /\ t.recovery = v.recovery /\ t.viewing = v.viewing
  BY TeardownFacts
<1>2. u = L!SetEntry(t, s, "none")
  BY DEF L!Drop1
<1> HIDE DEF t
<1>3. /\ Typed(u) /\ Disowns(t, u, {s}) /\ SameGate(t, u) /\ SameWish(t, u)
      /\ u.entry = [t.entry EXCEPT ![s] = "none"]
      /\ u.run = t.run /\ u.recovery = t.recovery /\ u.viewing = t.viewing
  BY <1>1, <1>2, SetEntryFacts, EntryWords
<1>4. Disowns(v, u, {s})
  BY <1>1, <1>3 DEF Disowns, Fades
<1> QED BY <1>1, <1>3, <1>4 DEF SameGate, SameWish

LEMMA PutFacts ==
  ASSUME NEW v, Typed(v), NEW f \in StoreFlow, NEW w \in L!FlowRec,
         w.at # "none" => w.s \in LiveStream, NEW u, u = L!Put(v, f, w)
  PROVE  /\ Typed(u) /\ SameFlows(v, u, f) /\ u.flows[f] = w /\ SameGate(v, u) /\ SameWish(v, u)
         /\ u.entry = v.entry /\ u.run = v.run /\ u.recovery = v.recovery /\ u.viewing = v.viewing
<1> DEFINE fl == [v.flows EXCEPT ![f] = w]
<1>1. u = [v EXCEPT !.flows = fl]
  BY DEF L!Put, Typed, Fields
<1>2. fl \in [StoreFlow -> L!FlowRec] /\ fl[f] = w /\ \A g \in StoreFlow \ {f} : fl[g] = v.flows[g]
  BY DEF Typed
<1> HIDE DEF fl
<1>3. Typed(u)
  BY <1>1, <1>2 DEF Typed, Fields
<1> QED BY <1>1, <1>2, <1>3 DEF Typed, Fields, SameFlows, SameGate, SameWish

LEMMA FreeFacts ==
  ASSUME NEW v, Typed(v), NEW f \in StoreFlow, NEW u, u = L!Free(v, f)
  PROVE  /\ Typed(u) /\ SameFlows(v, u, f) /\ u.flows[f] = L!NoFlow /\ SameGate(v, u)
         /\ SameWish(v, u) /\ u.entry = v.entry /\ u.run = v.run /\ u.recovery = v.recovery
         /\ u.viewing = v.viewing
BY PutFacts, NoFlowTyped DEF L!Free, L!NoFlow

LEMMA FlowTypes ==
  ASSUME NEW w \in L!FlowRec
  PROVE  /\ w.at \in {"none"} \cup L!Commands \cup L!Setups
         /\ w.s \in LiveStream \cup {NoLive} /\ w.rec \in LiveStream \cup {NoLive}
         /\ w.todo \subseteq LiveStream /\ w.own \in BOOLEAN /\ w.restores \in BOOLEAN
         /\ w.sfu \in BOOLEAN /\ w.again \in BOOLEAN
BY DEF L!FlowRec

\* A watch that begins: the new function owns the entry.
Begun(v, f, w, u) ==
  /\ Typed(u) /\ SameGate(v, u) /\ u.viewing = v.viewing
  /\ u.entry = [v.entry EXCEPT ![w.s] = "starting"] /\ u.run = v.run /\ u.recovery = v.recovery
  /\ u.cancelled = v.cancelled \ {w.s} /\ u.wanted = v.wanted /\ u.lapsed = v.lapsed
  /\ \A g \in StoreFlow \ {f} : /\ Fades(v.flows[g], u.flows[g])
                                /\ u.flows[g].own <=> v.flows[g].own /\ v.flows[g].s # w.s
  /\ u.flows[f].at = "watch" /\ u.flows[f].own /\ u.flows[f].s = w.s /\ u.flows[f].rec = w.rec
  /\ u.flows[f].todo = w.todo /\ u.flows[f].restores = w.restores

LEMMA BeginWatchFacts ==
  ASSUME NEW v, Typed(v), NEW f \in StoreFlow, NEW w \in L!FlowRec, w.s \in LiveStream,
         NEW u, u = L!BeginWatch(v, f, w)
  PROVE  /\ v.run[w.s] # "none" \/ v.entry[w.s] # "none" => u = v
         /\ v.run[w.s] = "none" /\ v.entry[w.s] = "none" => Begun(v, f, w, u)
<1> SUFFICES ASSUME v.run[w.s] = "none", v.entry[w.s] = "none" PROVE Begun(v, f, w, u)
  BY DEF L!BeginWatch
<1> DEFINE t == L!SetEntry(v, w.s, "starting")
           can == t.cancelled \ {w.s}
           c == [t EXCEPT !.cancelled = can]
           x == [w EXCEPT !.at = "watch", !.own = TRUE]
<1>1. u = L!Put(c, f, x)
  BY DEF L!BeginWatch
<1>2. /\ x \in L!FlowRec /\ x.at = "watch" /\ x.own /\ x.s = w.s /\ x.rec = w.rec
      /\ x.todo = w.todo /\ x.restores = w.restores
  BY DEF L!FlowRec, L!Commands
<1>3. /\ Typed(t) /\ Disowns(v, t, {w.s}) /\ SameGate(v, t) /\ SameWish(v, t)
      /\ t.entry = [v.entry EXCEPT ![w.s] = "starting"]
      /\ t.run = v.run /\ t.recovery = v.recovery /\ t.viewing = v.viewing
  BY SetEntryFacts, EntryWords
<1>4. can \subseteq LiveStream /\ can = v.cancelled \ {w.s}
  BY <1>3 DEF Typed, SameWish
<1> HIDE DEF t, x, can
<1>5. /\ Typed(c) /\ SameGate(t, c) /\ c.cancelled = can /\ c.wanted = t.wanted
      /\ c.lapsed = t.lapsed /\ c.entry = t.entry /\ c.run = t.run /\ c.recovery = t.recovery
      /\ c.viewing = t.viewing /\ c.flows = t.flows
  BY <1>3, <1>4 DEF Typed, Fields, SameGate
<1> HIDE DEF c
<1>6. /\ Typed(u) /\ SameFlows(c, u, f) /\ u.flows[f] = x /\ SameGate(c, u) /\ SameWish(c, u)
      /\ u.entry = c.entry /\ u.run = c.run /\ u.recovery = c.recovery /\ u.viewing = c.viewing
  BY <1>1, <1>2, <1>5, PutFacts
<1>7. \A g \in StoreFlow \ {f} : /\ Fades(v.flows[g], u.flows[g])
                                 /\ u.flows[g].own <=> v.flows[g].own /\ v.flows[g].s # w.s
  BY <1>3, <1>5, <1>6 DEF SameFlows, Disowns
<1> QED BY <1>2, <1>3, <1>4, <1>5, <1>6, <1>7 DEF Begun, SameGate, SameWish

LEMMA PassOverFacts ==
  ASSUME NEW v, Typed(v), NEW held \in SUBSET LiveStream, NEW u, u = L!PassOver(v, held)
  PROVE  Typed(u) /\ (held = {} => u = v) /\ (held # {} => u.lapsed)
<1> SUFFICES ASSUME held # {} PROVE Typed(u) /\ u.lapsed
  BY DEF L!PassOver
<1> DEFINE en == [s \in LiveStream |-> IF s \in held THEN "none" ELSE v.entry[s]]
           fl == [f \in StoreFlow |-> IF v.flows[f].s \in held THEN [v.flows[f] EXCEPT !.own = FALSE]
                                      ELSE v.flows[f]]
<1>1. u = [v EXCEPT !.lapsed = TRUE, !.entry = en, !.flows = fl]
  BY DEF L!PassOver, L!Lapse, Typed, Fields
<1>2. en \in [LiveStream -> L!Entry]
  BY EntryWords DEF Typed
<1>3. v.flows \in [StoreFlow -> L!FlowRec]
  BY DEF Typed
<1>4. /\ fl \in [StoreFlow -> L!FlowRec]
      /\ \A f \in StoreFlow : Fades(v.flows[f], fl[f])
  <2> DEFINE flows == v.flows
  <2>1. flows \in [StoreFlow -> L!FlowRec]
    BY <1>3
  <2>3. fl = Faded(flows, held)
    BY DEF Faded
  <2> HIDE DEF fl, flows
  <2>2. /\ fl \in [StoreFlow -> L!FlowRec]
        /\ \A f \in StoreFlow : Fades(flows[f], fl[f])
    BY ONLY <2>1, <2>3, FadingFacts
  <2> QED BY <2>2 DEF flows
<1> HIDE DEF en, fl
<1>5. \A f \in StoreFlow : fl[f].at = v.flows[f].at /\ fl[f].s = v.flows[f].s
  BY <1>4 DEF Fades
<1> QED BY <1>1, <1>2, <1>4, <1>5 DEF Typed, Fields

\* The function a restore begins for s.
Restorer(s, todo) == [L!NoFlow EXCEPT !.s = s, !.todo = todo, !.restores = TRUE]

LEMMA RestorerFacts ==
  ASSUME NEW s \in LiveStream, NEW todo \in SUBSET LiveStream, NEW w, w = Restorer(s, todo)
  PROVE  /\ w \in L!FlowRec /\ w.s = s /\ w.todo = todo /\ w.restores /\ w.rec = NoLive
BY DEF Restorer, L!NoFlow, L!FlowRec

LEMMA RestoreNextFacts ==
  ASSUME NEW v, Typed(v), NEW f \in StoreFlow, NEW todo \in SUBSET LiveStream,
         NEW x \in L!RestoreNext(v, f, todo)
  PROVE  /\ Typed(x) /\ (v.lapsed => x.lapsed)
         /\ ~x.lapsed => \/ todo = {} /\ x = L!Free(v, f)
                         \/ \E s \in todo :
                              /\ v.run[s] = "none"
                              /\ x = L!BeginWatch(L!SetEntry(v, s, "none"), f, Restorer(s, todo \ {s}))
<1> DEFINE held == {s \in todo : v.run[s] # "none"}
<1>1. CASE held = todo
  <2> DEFINE p == L!PassOver(v, todo)
  <2>1. x = L!Free(p, f)
    BY <1>1 DEF L!RestoreNext
  <2>2. Typed(p) /\ (todo = {} => p = v) /\ (todo # {} => p.lapsed)
    BY PassOverFacts
  <2> HIDE DEF p, held
  <2>3. Typed(x) /\ x.lapsed = p.lapsed
    BY <2>1, <2>2, FreeFacts DEF SameWish
  <2> QED BY <2>1, <2>2, <2>3
<1>2. CASE held # todo
  <2>1. PICK passed \in SUBSET held, s \in todo \ held : x = L!Restore(v, f, todo, passed, s)
    <3> HIDE DEF held
    <3>1. x \in {L!Restore(v, f, todo, passed, s) : passed \in SUBSET held, s \in todo \ held}
      BY <1>2 DEF L!RestoreNext, held
    <3> QED BY <3>1
  <2> DEFINE p == L!PassOver(v, passed)
             t == L!SetEntry(p, s, "none")
             w == Restorer(s, todo \ (passed \cup {s}))
  <2>2. Typed(p) /\ (passed = {} => p = v) /\ (passed # {} => p.lapsed)
    BY PassOverFacts
  <2>3. x = L!BeginWatch(t, f, w)
    BY <2>1 DEF L!Restore, Restorer
  <2>4. w \in L!FlowRec /\ w.s = s
    BY RestorerFacts
  <2>5. v.run[s] = "none" /\ s \in LiveStream
    OBVIOUS
  <2> HIDE DEF p, w, held
  <2>6. Typed(t) /\ t.lapsed = p.lapsed
    BY <2>2, <2>5, SetEntryFacts, EntryWords DEF SameWish
  <2> HIDE DEF t
  <2>7. Typed(x) /\ x.lapsed = t.lapsed
    <3>1. Typed(t) /\ f \in StoreFlow /\ w \in L!FlowRec /\ w.s \in LiveStream /\ x = L!BeginWatch(t, f, w)
      BY <2>3, <2>4, <2>5, <2>6
    <3> HIDE DEF w, t
    <3>2. /\ t.run[w.s] # "none" \/ t.entry[w.s] # "none" => x = t
          /\ t.run[w.s] = "none" /\ t.entry[w.s] = "none" => Begun(t, f, w, x)
      BY ONLY <3>1, BeginWatchFacts
    <3>3. Begun(t, f, w, x) => Typed(x) /\ x.lapsed = t.lapsed
      BY DEF Begun
    <3> QED BY ONLY <3>1, <3>2, <3>3
  <2>8. ASSUME ~x.lapsed
        PROVE  x = L!BeginWatch(L!SetEntry(v, s, "none"), f, Restorer(s, todo \ {s}))
    BY <2>2, <2>6, <2>7, <2>8, <2>3 DEF t, w
  <2>9. v.lapsed => x.lapsed
    BY <2>2, <2>6, <2>7
  <2>10. s \in todo
    OBVIOUS
  <2> QED BY ONLY <2>5, <2>7, <2>8, <2>9, <2>10
<1> QED BY <1>1, <1>2

-----------------------------------------------------------------------------
(* The functions that keep what holds.                                     *)

\* The functions of u are those of v, of which some were disowned.
LEMMA FadesFit ==
  ASSUME NEW v, Fits(v), NEW u, Typed(u), NEW gone, Disowns(v, u, gone)
  PROVE  Fits(u)
<1> SUFFICES ASSUME NEW f \in StoreFlow PROVE FlowFits(u.flows[f])
  BY DEF Fits
<1>1. FlowFits(v.flows[f]) /\ Fades(v.flows[f], u.flows[f]) /\ (u.flows[f].own => v.flows[f].own)
  BY DEF Fits, Disowns
<1> QED BY <1>1 DEF FlowFits, Fades

\* A stream that is not shown any more.
Dropped(v, s, u) ==
  /\ Typed(u) /\ SameGate(v, u) /\ SameWish(v, u) /\ u.recovery = v.recovery /\ u.viewing = v.viewing
  /\ u.entry = [v.entry EXCEPT ![s] = "none"] /\ u.run = [v.run EXCEPT ![s] = "none"]
  /\ Disowns(v, u, {s})

LEMMA DroppedFacts ==
  ASSUME NEW v, Typed(v), NEW s \in LiveStream, NEW u, Dropped(v, s, u)
  PROVE  /\ u.entry[s] = "none" /\ u.run[s] = "none"
         /\ \A t \in LiveStream \ {s} : u.entry[t] = v.entry[t] /\ u.run[t] = v.run[t]
BY DEF Dropped, Typed

LEMMA DroppedNearly ==
  ASSUME NEW v, Typed(v), NEW todo, Good(v, todo), NEW s \in LiveStream, NEW u, Dropped(v, s, u)
  PROVE  Nearly(u, todo, {s}) /\ (v.run[s] = "none" => Good(u, todo))
<1>1. /\ u.entry[s] = "none" /\ u.run[s] = "none"
      /\ \A t \in LiveStream \ {s} : u.entry[t] = v.entry[t] /\ u.run[t] = v.run[t]
  BY DroppedFacts
<1>2. /\ SameGate(v, u) /\ SameWish(v, u) /\ u.recovery = v.recovery /\ u.viewing = v.viewing
      /\ Disowns(v, u, {s})
  BY DEF Dropped
<1>3. Fits(u)
  BY <1>2, FadesFit DEF Dropped, Good, Nearly
<1>4. Reports(u)
  BY <1>2 DEF Good, Nearly, Reports, Disowns, Fades
<1>5. Shows(u, todo)
  <2>1. Shows(v, todo)
    BY DEF Good, Nearly
  <2>2. ASSUME NEW t \in LiveStream \ {s}, NEW at PROVE On(u, t, at) = On(v, t, at)
    BY <1>2 DEF Disowns, Fades, On, Own
  <2>3. \A t \in LiveStream :
          (\E f \in StoreFlow : t \in u.flows[f].todo) <=> (\E f \in StoreFlow : t \in v.flows[f].todo)
    BY <1>2 DEF Disowns, Fades
  <2>4. ASSUME NEW f \in StoreFlow, NEW at, Own(u, f, at)
        PROVE  Own(v, f, at) /\ u.flows[f].s = v.flows[f].s /\ v.flows[f].s # s
    BY <1>2, <2>4 DEF Disowns, Fades, Own
  <2>5. ASSUME NEW f \in StoreFlow, u.flows[f].own PROVE u.flows[f].s \in LiveStream \ {s}
    BY <1>2, <1>3, <2>5 DEF Disowns, Fades, Fits, FlowFits, Gets, Mends
  <2>6. ASSUME NEW t \in LiveStream PROVE Shown(u, t, todo)
    BY <1>1, <1>2, <2>1, <2>2, <2>3 DEF Shown, Shows, SameGate
  <2>7. ASSUME NEW f \in StoreFlow PROVE Finds(u, f)
    <3> SUFFICES ASSUME u.flows[f].own PROVE Finds(u, f)
      BY DEF Finds, Own
    <3>1. u.flows[f].s \in LiveStream \ {s} /\ Finds(v, f) /\ u.flows[f].s = v.flows[f].s
      BY <1>2, <2>1, <2>5 DEF Shows, Disowns, Fades
    <3>2. u.entry[u.flows[f].s] = v.entry[u.flows[f].s] /\ u.run[u.flows[f].s] = v.run[u.flows[f].s]
      BY <1>1, <3>1
    <3> QED BY <1>2, <2>4, <3>1, <3>2 DEF Finds, SameGate
  <2> QED BY <2>6, <2>7 DEF Shows
<1>6. Counts(u, {s}) /\ (v.run[s] = "none" => Counts(u, {}))
  <2>1. Counts(v, {})
    BY DEF Good, Nearly
  <2>2. ASSUME NEW t \in LiveStream, Keeps(v, t), u.run[t] = v.run[t] PROVE Keeps(u, t)
    BY <1>2, <2>2 DEF Keeps, Disowns, Fades
  <2>3. \A f \in StoreFlow : Own(u, f, {"admitted", "consume"}) =>
          Own(v, f, {"admitted", "consume"}) /\ u.flows[f].s = v.flows[f].s
    BY <1>2 DEF Disowns, Fades, Own
  <2>4. u.viewing \subseteq LiveStream
    BY DEF Dropped, Typed
  <2> QED BY <1>1, <1>2, <2>1, <2>2, <2>3, <2>4 DEF Counts, SameGate
<1>7. Cancels(u)
  BY <1>1, <1>2 DEF Good, Nearly, Cancels, Disowns, Fades, SameWish, Dropped, Typed
<1>8. Wants(u, todo, {})
  <2>1. Wants(v, todo, {})
    BY DEF Good, Nearly
  <2>2. ASSUME NEW f \in StoreFlow
        PROVE  /\ L!Replaces(u.flows[f]) <=> L!Replaces(v.flows[f])
               /\ u.flows[f].s = v.flows[f].s /\ u.flows[f].rec = v.flows[f].rec
               /\ u.flows[f].todo = v.flows[f].todo
               /\ u.flows[f].own <=> v.flows[f].own /\ v.flows[f].s # s
    BY <1>2 DEF Disowns, Fades, L!Replaces
  <2>3. ASSUME NEW f \in StoreFlow, L!Replaces(u.flows[f]) PROVE Gone(u, u.flows[f].rec)
    <3>1. u.flows[f].rec \in LiveStream
      BY <2>3, FlowTypes DEF L!Replaces, Dropped, Typed
    <3>2. Gone(v, u.flows[f].rec)
      BY <2>1, <2>2, <2>3 DEF Wants, Serves
    <3> QED BY <1>1, <1>2, <3>1, <3>2 DEF Gone, SameGate
  <2>4. ASSUME NEW t \in LiveStream PROVE Wanted(u, t, {})
    BY <1>1, <1>2, <2>1, <2>2 DEF Wants, Wanted, SameGate, SameWish
  <2>5. ASSUME NEW f \in StoreFlow PROVE Serves(u, u.flows[f])
    BY <1>2, <2>1, <2>2, <2>3 DEF Wants, Serves, SameGate, SameWish
  <2> QED BY <1>1, <1>2, <2>1, <2>4, <2>5 DEF Wants, SameGate, SameWish
<1>9. Wants(u, todo, {s})
  BY <1>8 DEF Wants, Wanted
<1> QED BY <1>3, <1>4, <1>5, <1>6, <1>7, <1>8, <1>9 DEF Good, Nearly

\* A function can begin with w: it restores what is wanted, is the user's, or is the only
\* attempt of a recovery.
Opens(v, f, w, todo) ==
  /\ w \in L!FlowRec /\ w.s \in LiveStream /\ w.s \in v.airs \cup v.over
  /\ v.flows[f].at = "none" /\ v.run[w.s] = "none" /\ v.entry[w.s] = "none"
  /\ todo \subseteq w.todo \cup {w.s} /\ w.todo \subseteq v.wanted /\ (w.todo # {} => w.restores)
  /\ w.restores => w.rec = NoLive
  /\ w.rec = NoLive => w.s \in v.wanted
  /\ w.rec # NoLive =>
       /\ v.recovery[w.rec].phase = "running" /\ v.recovery[w.rec].attempt = "gateway"
       /\ \A g \in StoreFlow : v.flows[g].rec # w.rec
       /\ w.rec # w.s => Gone(v, w.rec)
Spared(w) == IF w.rec = w.s THEN {w.s} ELSE {}

LEMMA BegunGood ==
  ASSUME NEW v, Typed(v), NEW todo, NEW w, Nearly(v, todo, Spared(w)), NEW f \in StoreFlow,
         Opens(v, f, w, todo), NEW u, Begun(v, f, w, u)
  PROVE  Good(u, {})
<1>1. /\ w.s \in LiveStream /\ u.entry[w.s] = "starting"
      /\ \A t \in LiveStream \ {w.s} : u.entry[t] = v.entry[t]
      /\ u.run = v.run /\ u.recovery = v.recovery /\ SameGate(v, u) /\ u.viewing = v.viewing
      /\ u.cancelled = v.cancelled \ {w.s} /\ u.wanted = v.wanted
  BY DEF Begun, Opens, Typed
<1>2. \A g \in StoreFlow \ {f} : /\ Fades(v.flows[g], u.flows[g])
                                 /\ u.flows[g].own <=> v.flows[g].own /\ v.flows[g].s # w.s
  BY DEF Begun
<1>3. /\ u.flows[f].at = "watch" /\ u.flows[f].own /\ u.flows[f].s = w.s /\ u.flows[f].rec = w.rec
      /\ u.flows[f].todo = w.todo /\ u.flows[f].restores = w.restores
  BY DEF Begun
<1>4. /\ v.flows[f].at = "none" /\ v.flows[f].s = NoLive /\ v.flows[f].rec = NoLive
      /\ v.flows[f].todo = {} /\ ~v.flows[f].own
  BY DEF Nearly, Fits, FlowFits, Opens
<1>5. Fits(u)
  BY <1>1, <1>3, <1>2 DEF FlowFits, Opens, Gets, Mends, Nearly, Fits, Fades
<1>6. Reports(u)
  BY <1>1, <1>2, <1>3 DEF Nearly, Reports, Fades, Opens, Mends
<1>7. Shows(u, {})
  <2>1. Shows(v, todo)
    BY DEF Nearly
  <2>2. On(u, w.s, Gets)
    BY <1>3 DEF On, Own, Gets
  <2>3. ASSUME NEW t \in LiveStream \ {w.s}, NEW at, On(v, t, at) PROVE On(u, t, at)
    BY <1>2, <1>4, <2>3 DEF Fades, On, Own
  <2>4. ASSUME NEW t \in LiveStream \ {w.s}, t \in todo \/ \E g \in StoreFlow : t \in v.flows[g].todo
        PROVE  \E g \in StoreFlow : t \in u.flows[g].todo
    BY <1>2, <1>3, <1>4, <2>4 DEF Fades, Opens
  <2>7. v.run[w.s] = "none" /\ v.entry[w.s] = "none"
    BY DEF Opens
  <2>8. ASSUME NEW t \in LiveStream PROVE Shown(u, t, {})
    BY <1>1, <2>2, <2>7, <2>1, <2>3, <2>4 DEF Shown, Shows, SameGate
  <2>9. Finds(u, f)
    BY <1>1, <1>3, <2>7 DEF Finds, Own, Mends
  <2>10. ASSUME NEW g \in StoreFlow \ {f} PROVE Finds(u, g)
    <3> SUFFICES ASSUME u.flows[g].own PROVE Finds(u, g)
      BY DEF Finds, Own
    <3>1. /\ u.flows[g].s \in LiveStream \ {w.s} /\ Finds(v, g) /\ u.flows[g].s = v.flows[g].s
          /\ u.flows[g].at = v.flows[g].at /\ v.flows[g].own
      BY <1>2, <1>5, <2>1 DEF Shows, Fades, Fits, FlowFits, Gets, Mends
    <3>2. u.entry[u.flows[g].s] = v.entry[u.flows[g].s] /\ u.run[u.flows[g].s] = v.run[u.flows[g].s]
      BY <1>1, <3>1
    <3> QED BY <1>1, <3>1, <3>2 DEF Finds, Own, SameGate
  <2> QED BY <2>8, <2>9, <2>10 DEF Shows
<1>8. Counts(u, {})
  BY <1>1, <1>2, <1>4, <1>3 DEF Nearly, Typed, Keeps, Fades, Spared, Own, Counts, SameGate
<1>9. Cancels(u)
  BY <1>1, <1>2, <1>3 DEF Nearly, Typed, Cancels, Fades
<1>10. Wants(u, {}, {})
  BY <1>2, <1>3, <1>4, <1>1 DEF Nearly, Fades, L!Replaces, Wants, Opens, Wanted, SameGate, Spared,
     Serves, Gone
<1> QED BY <1>5, <1>6, <1>7, <1>8, <1>9, <1>10 DEF Good, Nearly

\* Nothing but what a free function is made of, or what is wanted, has changed.
Alike(v, u) ==
  /\ SameGate(v, u) /\ u.cancelled = v.cancelled /\ u.viewing = v.viewing
  /\ u.entry = v.entry /\ u.run = v.run /\ u.recovery = v.recovery /\ Disowns(v, u, {})
Same(v, u) == Alike(v, u) /\ u.wanted = v.wanted

LEMMA AlikeFacts ==
  ASSUME NEW v, NEW todo, Good(v, todo), NEW u, Typed(u), Alike(v, u)
  PROVE  Fits(u) /\ Reports(u) /\ Shows(u, todo) /\ Counts(u, {}) /\ Cancels(u)
<1>1. \A f \in StoreFlow : Fades(v.flows[f], u.flows[f]) /\ (u.flows[f].own <=> v.flows[f].own)
  BY DEF Alike, Disowns
<1>2. Fits(u)
  BY FadesFit DEF Alike, Good, Nearly
<1>3. Reports(u)
  BY <1>1 DEF Good, Nearly, Reports, Alike, Fades
<1>4. \A t, at : On(v, t, at) => On(u, t, at)
  BY <1>1 DEF On, Own, Fades
<1>5. Shows(u, todo)
  BY <1>1, <1>4 DEF Good, Nearly, Shows, Shown, Alike, SameGate, Fades, Finds, Own
<1>6. Counts(u, {})
  BY <1>1 DEF Keeps, Alike, Fades, Good, Nearly, Counts, Own, SameGate
<1>7. Cancels(u)
  BY <1>1 DEF Good, Nearly, Cancels, Alike, Fades
<1> QED BY <1>2, <1>3, <1>5, <1>6, <1>7

LEMMA SameGood ==
  ASSUME NEW v, NEW todo, Good(v, todo), NEW u, Typed(u), Same(v, u)
  PROVE  Good(u, todo)
BY AlikeFacts DEF Same, Alike, Disowns, Good, Nearly, Wants, Wanted, SameGate, Fades, L!Replaces,
   Serves, Gone

\* A stream that nothing is about to watch is not wanted any more.
LEMMA UnwishedGood ==
  ASSUME NEW v, Good(v, {}), NEW s \in LiveStream, v.entry[s] \in {"none", "ended"},
         v.recovery[s].attempt = "none",
         \A f \in StoreFlow : s \notin v.flows[f].todo /\ (v.flows[f].own => v.flows[f].s # s),
         NEW u, Typed(u), Alike(v, u), u.wanted = v.wanted \ {s}
  PROVE  Good(u, {})
<1>1. Fits(u) /\ Reports(u) /\ Shows(u, {}) /\ Counts(u, {}) /\ Cancels(u)
  BY AlikeFacts
<1>2. \A f \in StoreFlow : Fades(v.flows[f], u.flows[f]) /\ (u.flows[f].own <=> v.flows[f].own)
  BY DEF Alike, Disowns
<1>3. ASSUME NEW t \in LiveStream PROVE Wanted(u, t, {})
  <2>1. Wanted(v, t, {})
    BY DEF Good, Nearly, Wants
  <2>2. CASE t = s
    BY <2>1, <2>2 DEF Wanted, Alike, SameGate
  <2>3. CASE t # s
    BY <1>2, <2>1, <2>3 DEF Wanted, Alike, SameGate, Fades, L!Replaces
  <2> QED BY <2>2, <2>3
<1>4. ASSUME NEW f \in StoreFlow PROVE Serves(u, u.flows[f])
  BY <1>2 DEF Good, Nearly, Wants, Serves, Gone, Alike, SameGate, Fades, L!Replaces
<1> QED BY <1>1, <1>3, <1>4 DEF Good, Nearly, Wants, Alike, SameGate

\* A stream that is wanted is to be retried.
LEMMA RetriedGood ==
  ASSUME NEW v, NEW todo, Good(v, todo), NEW s \in v.wanted, v.recovery[s].attempt = "none",
         NEW u, Typed(v), Typed(u), SameGate(v, u), u.cancelled = v.cancelled, u.viewing = v.viewing,
         u.entry = v.entry, u.run = v.run, u.flows = v.flows, u.wanted = v.wanted,
         u.recovery[s].attempt = "gateway", u.recovery[s].phase = "timer",
         \A t \in LiveStream \ {s} : u.recovery[t] = v.recovery[t]
  PROVE  Good(u, todo)
<1>1. \A f \in StoreFlow : v.flows[f].rec # s /\ v.flows[f].rec \in LiveStream \cup {NoLive}
  BY FlowTypes, ClientAssumption DEF Good, Nearly, Reports, Typed, WatchAssumption
<1>2. Fits(u) /\ Cancels(u)
  BY DEF Good, Nearly, Fits, Cancels
<1>3. Reports(u)
  BY <1>1 DEF Good, Nearly, Reports
<1>4. \A t \in LiveStream : v.recovery[t].attempt # "none" => u.recovery[t].attempt # "none"
  OBVIOUS
<1>5. Shows(u, todo)
  BY <1>4 DEF Good, Nearly, Shows, Shown, On, Own, SameGate, Finds
<1>6. Counts(u, {})
  BY DEF Keeps, Typed, Good, Nearly, Counts, Own, SameGate
<1>7. Wants(u, todo, {})
  BY DEF Good, Nearly, Wants, Wanted, SameGate, Serves, Gone
<1> QED BY <1>2, <1>3, <1>5, <1>6, <1>7 DEF Good, Nearly

\* What a function does next, from a store that lacks only the streams it is to restore.
LEMMA RestoreNextGood ==
  ASSUME NEW v, Typed(v), NEW f \in StoreFlow, NEW todo \in SUBSET LiveStream,
         ~v.lapsed => Good(v, todo), v.flows[f].at = "none", NEW x \in L!RestoreNext(v, f, todo)
  PROVE  WatchInv(x)
<1>1. /\ Typed(x) /\ (v.lapsed => x.lapsed)
      /\ ~x.lapsed => \/ todo = {} /\ x = L!Free(v, f)
                      \/ \E s \in todo :
                           /\ v.run[s] = "none"
                           /\ x = L!BeginWatch(L!SetEntry(v, s, "none"), f, Restorer(s, todo \ {s}))
  BY RestoreNextFacts
<1> SUFFICES ASSUME ~x.lapsed PROVE Good(x, {})
  BY <1>1 DEF WatchInv
<1>2. Good(v, todo) /\ v.flows[f].at = "none"
  BY <1>1
<1>3. CASE todo = {} /\ x = L!Free(v, f)
  <2>1. /\ v.flows[f].s = NoLive /\ v.flows[f].rec = NoLive /\ v.flows[f].todo = {}
        /\ ~v.flows[f].own /\ v.flows[f].restores = FALSE
    BY <1>2, FlowTypes DEF Good, Nearly, Fits, FlowFits, Typed
  <2>2. /\ Typed(x) /\ SameFlows(v, x, f) /\ x.flows[f] = L!NoFlow /\ SameGate(v, x)
        /\ SameWish(v, x) /\ x.entry = v.entry /\ x.run = v.run /\ x.recovery = v.recovery
        /\ x.viewing = v.viewing
    BY <1>3, FreeFacts
  <2>3. Fades(v.flows[f], x.flows[f]) /\ ~x.flows[f].own
    <3>1. /\ x.flows[f].at = "none" /\ x.flows[f].s = NoLive /\ x.flows[f].rec = NoLive
          /\ x.flows[f].todo = {} /\ x.flows[f].own = FALSE /\ x.flows[f].restores = FALSE
      BY ONLY <2>2 DEF L!NoFlow
    <3> QED BY ONLY <1>2, <2>1, <3>1 DEF Fades
  <2>4. Disowns(v, x, {})
    <3>1. \A g \in StoreFlow \ {f} : x.flows[g] = v.flows[g]
      BY <2>2 DEF SameFlows
    <3>2. ASSUME NEW g \in StoreFlow
          PROVE  Fades(v.flows[g], x.flows[g]) /\ (x.flows[g].own <=> v.flows[g].own)
      <4>1. CASE g = f
        BY ONLY <2>1, <2>3, <4>1
      <4>2. CASE g # f
        BY <3>1, <4>2 DEF Fades
      <4> QED BY <4>1, <4>2
    <3> QED BY ONLY <3>2 DEF Disowns
  <2>5. Same(v, x)
    BY <2>2, <2>4 DEF Same, Alike, SameWish
  <2>6. Good(v, {}) /\ Typed(x) /\ Same(v, x)
    BY <1>1, <1>2, <1>3, <2>5
  <2> QED BY ONLY <2>6, SameGood
<1>4. ASSUME NEW s \in todo, v.run[s] = "none",
             x = L!BeginWatch(L!SetEntry(v, s, "none"), f, Restorer(s, todo \ {s}))
      PROVE  Good(x, {})
  <2> DEFINE t == L!SetEntry(v, s, "none")
             w == Restorer(s, todo \ {s})
  <2>1. /\ Typed(t) /\ Disowns(v, t, {s}) /\ SameGate(v, t) /\ SameWish(v, t)
        /\ t.entry = [v.entry EXCEPT ![s] = "none"]
        /\ t.run = v.run /\ t.recovery = v.recovery /\ t.viewing = v.viewing
    BY SetEntryFacts, EntryWords
  <2>2. w \in L!FlowRec /\ w.s = s /\ w.todo = todo \ {s} /\ w.restores /\ w.rec = NoLive
    BY RestorerFacts
  <2>3. x = L!BeginWatch(t, f, w)
    BY <1>4
  <2> HIDE DEF t, w
  <2>4. Dropped(v, s, t)
    BY <1>4, <2>1 DEF Dropped, Typed
  <2>5. Good(t, todo) /\ t.run[s] = "none" /\ t.entry[s] = "none"
    <3>1. Typed(v) /\ Good(v, todo) /\ s \in LiveStream /\ Dropped(v, s, t)
      BY <1>2, <2>4
    <3>2. v.run[s] = "none" => Good(t, todo)
      BY ONLY <3>1, DroppedNearly
    <3>3. t.run[s] = "none" /\ t.entry[s] = "none"
      BY ONLY <3>1, DroppedFacts
    <3> QED BY <1>4, <3>2, <3>3
  <2>6. Opens(t, f, w, todo)
    BY <2>5, <1>2, <2>1, <2>2 DEF Good, Nearly, Wants, Disowns, Fades, Opens
  <2>7. Begun(t, f, w, x)
    BY <2>1, <2>2, <2>3, <2>5, BeginWatchFacts
  <2>8. Nearly(t, todo, Spared(w))
    BY <2>2, <2>5, ClientAssumption DEF Good, Spared, WatchAssumption
  <2> QED BY <2>1, <2>6, <2>7, <2>8, BegunGood
<1> QED BY <1>1, <1>3, <1>4

\* What a function leaves when it is done: it reports to its recovery, and a popup shows the
\* stream that replaced its own.
Ended(v, f, ok, e) ==
  LET w == v.flows[f]
  IN /\ Typed(e) /\ SameGate(v, e) /\ e.cancelled = v.cancelled /\ e.viewing = v.viewing
     /\ e.entry = v.entry /\ e.run = v.run /\ SameFlows(v, e, f) /\ e.flows[f] = L!NoFlow
     /\ e.wanted = IF ok /\ w.rec \in v.wanted THEN (v.wanted \ {w.rec}) \cup {w.s} ELSE v.wanted
     /\ \A s \in LiveStream :
          IF s # w.rec THEN e.recovery[s] = v.recovery[s]
          ELSE IF ok THEN e.recovery[s] = L!NoRecovery
          ELSE e.recovery[s].attempt = v.recovery[s].attempt /\ e.recovery[s].phase = "timer"
     /\ v.lapsed => e.lapsed
     /\ ~e.lapsed /\ ok /\ L!Replaces(w) => ~L!Pursued(e, w.rec) /\ v.entry[w.rec] = "none"

LEMMA AttemptEndsFacts ==
  ASSUME NEW v, Typed(v), NEW r \in LiveStream \cup {NoLive}, NEW ok \in BOOLEAN,
         NEW u, u = L!AttemptEnds(v, r, ok)
  PROVE  /\ Typed(u) /\ SameGate(v, u) /\ SameWish(v, u) /\ u.viewing = v.viewing
         /\ u.entry = v.entry /\ u.run = v.run /\ u.flows = v.flows
         /\ \A s \in LiveStream :
              IF s # r THEN u.recovery[s] = v.recovery[s]
              ELSE IF ok THEN u.recovery[s] = L!NoRecovery
              ELSE u.recovery[s].attempt = v.recovery[s].attempt /\ u.recovery[s].phase = "timer"
<1>1. CASE r = NoLive
  BY <1>1, ClientAssumption DEF L!AttemptEnds, SameGate, SameWish, WatchAssumption
<1>2. CASE r # NoLive
  <2> DEFINE x == IF ok THEN L!NoRecovery ELSE [v.recovery[r] EXCEPT !.phase = "timer"]
             rs == [v.recovery EXCEPT ![r] = x]
  <2>1. u = [v EXCEPT !.recovery = rs]
    BY <1>2 DEF L!AttemptEnds, Typed, Fields
  <2>2. v.recovery \in [LiveStream -> L!RecoveryRec] /\ v.recovery[r] \in L!RecoveryRec
    BY <1>2 DEF Typed
  <2>3. x \in L!RecoveryRec /\ (~ok => x.attempt = v.recovery[r].attempt /\ x.phase = "timer")
    BY <2>2, NoFlowTyped DEF L!RecoveryRec
  <2>4. ok => x = L!NoRecovery
    OBVIOUS
  <2> HIDE DEF x
  <2>5. rs \in [LiveStream -> L!RecoveryRec] /\ rs[r] = x /\ \A s \in LiveStream \ {r} : rs[s] = v.recovery[s]
    BY <1>2, <2>2, <2>3
  <2> HIDE DEF rs
  <2>6. Typed(u)
    BY <2>1, <2>5 DEF Typed, Fields
  <2> QED BY <2>1, <2>3, <2>4, <2>5, <2>6 DEF Typed, Fields, SameGate, SameWish
<1> QED BY <1>1, <1>2

LEMMA GoesFacts ==
  ASSUME NEW v, Typed(v), NEW f \in StoreFlow, v.flows[f].at # "none", NEW ok \in BOOLEAN,
         NEW x \in L!Goes(v, f, ok)
  PROVE  \E e : Ended(v, f, ok, e) /\ x \in L!RestoreNext(e, f, v.flows[f].todo)
<1> DEFINE w == v.flows[f]
           fr == L!Free(v, f)
           wan == IF ok /\ w.rec \in fr.wanted THEN (fr.wanted \ {w.rec}) \cup {w.s} ELSE fr.wanted
           b == \/ fr.lapsed
                \/ ok /\ L!Replaces(w) /\ (L!Pursued(fr, w.rec) \/ v.entry[w.rec] # "none")
           m == [fr EXCEPT !.wanted = wan, !.lapsed = b]
           e == L!AttemptEnds(m, w.rec, ok)
<1>1. x \in L!RestoreNext(e, f, w.todo)
  BY DEF L!Goes
<1>2. w \in L!FlowRec /\ w.rec \in LiveStream \cup {NoLive} /\ w.s \in LiveStream
  BY FlowTypes DEF Typed
<1>3. /\ Typed(fr) /\ SameFlows(v, fr, f) /\ fr.flows[f] = L!NoFlow /\ SameGate(v, fr)
      /\ SameWish(v, fr) /\ fr.entry = v.entry /\ fr.run = v.run /\ fr.recovery = v.recovery
      /\ fr.viewing = v.viewing
  BY FreeFacts
<1> HIDE DEF w, fr
<1>4. /\ wan \subseteq LiveStream /\ b \in BOOLEAN /\ (v.lapsed => b)
      /\ wan = IF ok /\ w.rec \in v.wanted THEN (v.wanted \ {w.rec}) \cup {w.s} ELSE v.wanted
      /\ ~b /\ ok /\ L!Replaces(w) => ~L!Pursued(fr, w.rec) /\ v.entry[w.rec] = "none"
  BY <1>2, <1>3 DEF Typed, SameWish
<1> HIDE DEF wan, b
<1>5. /\ Typed(m) /\ SameGate(v, m) /\ m.cancelled = v.cancelled /\ m.viewing = v.viewing
      /\ m.entry = v.entry /\ m.run = v.run /\ m.recovery = v.recovery /\ m.flows = fr.flows
      /\ m.wanted = wan /\ m.lapsed = b
  BY <1>3, <1>4 DEF Typed, Fields, SameGate, SameWish
<1> HIDE DEF m
<1>6. /\ Typed(e) /\ SameGate(m, e) /\ SameWish(m, e) /\ e.viewing = m.viewing
      /\ e.entry = m.entry /\ e.run = m.run /\ e.flows = m.flows
      /\ \A s \in LiveStream :
           IF s # w.rec THEN e.recovery[s] = m.recovery[s]
           ELSE IF ok THEN e.recovery[s] = L!NoRecovery
           ELSE e.recovery[s].attempt = m.recovery[s].attempt /\ e.recovery[s].phase = "timer"
  <2>1. Typed(m) /\ w.rec \in LiveStream \cup {NoLive} /\ ok \in BOOLEAN /\ e = L!AttemptEnds(m, w.rec, ok)
    BY <1>2, <1>5
  <2> HIDE DEF e
  <2> QED BY ONLY <2>1, AttemptEndsFacts
<1> HIDE DEF e
<1>7. L!Pursued(fr, w.rec) = L!Pursued(e, w.rec)
  BY <1>5, <1>6 DEF L!Pursued
<1>8. Ended(v, f, ok, e)
  BY <1>3, <1>4, <1>5, <1>6, <1>7 DEF Ended, SameGate, SameWish, SameFlows, w
<1> QED BY <1>1, <1>8 DEF w

\* The stream that is wanted for the one it replaces.
Takes(v, f, ok) == IF ok /\ L!Replaces(v.flows[f]) THEN {v.flows[f].s} ELSE {}

\* A function may be done: nothing is shown only because of it.
Idle(v, f, ok) ==
  LET w == v.flows[f]
  IN /\ w.at # "none"
     /\ w.own => w.at \in Mends
     /\ ok /\ w.rec = w.s => v.run[w.s] # "idle" /\ v.entry[w.s] # "reconnecting"
     /\ w.at = "watch" => ~ok
     /\ w.at = "admitted" => v.run[w.s] # "none" \/ w.s \notin v.viewing
     /\ w.s \in Takes(v, f, ok) /\ w.s \in v.viewing => Keeps(v, w.s)

LEMMA EndedGood ==
  ASSUME NEW v, Typed(v), NEW f \in StoreFlow, NEW ok \in BOOLEAN, Idle(v, f, ok),
         Nearly(v, {}, Takes(v, f, ok)),
         NEW e, Ended(v, f, ok, e), ~e.lapsed
  PROVE  Good(e, v.flows[f].todo)
<1> DEFINE w == v.flows[f]
<1>1. /\ w \in L!FlowRec /\ w.s \in LiveStream /\ w.rec \in LiveStream \cup {NoLive}
      /\ NoLive \notin LiveStream /\ w.todo \subseteq LiveStream
  BY FlowTypes, ClientAssumption DEF Typed, Idle, WatchAssumption
<1>2. /\ Typed(e) /\ SameGate(v, e) /\ e.cancelled = v.cancelled /\ e.viewing = v.viewing
      /\ e.entry = v.entry /\ e.run = v.run
  BY DEF Ended
<1>3. \A g \in StoreFlow \ {f} : e.flows[g] = v.flows[g]
  BY DEF Ended, SameFlows
<1>4. /\ e.flows[f].at = "none" /\ e.flows[f].s = NoLive /\ e.flows[f].rec = NoLive
      /\ e.flows[f].todo = {} /\ ~e.flows[f].own /\ ~e.flows[f].restores
  BY DEF Ended, L!NoFlow
<1>5. e.wanted = IF ok /\ w.rec \in v.wanted THEN (v.wanted \ {w.rec}) \cup {w.s} ELSE v.wanted
  BY DEF Ended
<1>6. \A s \in LiveStream :
        IF s # w.rec THEN e.recovery[s] = v.recovery[s]
        ELSE IF ok THEN e.recovery[s].attempt = "none" /\ e.recovery[s].phase = "none"
        ELSE e.recovery[s].attempt = v.recovery[s].attempt /\ e.recovery[s].phase = "timer"
  BY DEF Ended, L!NoRecovery
<1>7. /\ FlowFits(w) /\ (w.own => w.at \in Mends)
      /\ ok /\ w.rec = w.s => v.run[w.s] # "idle" /\ v.entry[w.s] # "reconnecting"
      /\ w.at = "watch" => ~ok
      /\ w.at = "admitted" => v.run[w.s] # "none" \/ w.s \notin v.viewing
      /\ w.s \in Takes(v, f, ok) /\ w.s \in v.viewing => Keeps(v, w.s)
  BY DEF Nearly, Fits, Idle
<1>8. w.rec # NoLive => v.recovery[w.rec].phase = "running"
                        /\ v.recovery[w.rec].attempt = (IF w.at \in Mends THEN "media" ELSE "gateway")
                        /\ \A g \in StoreFlow \ {f} : v.flows[g].rec # w.rec
  BY DEF Nearly, Reports
<1>9. ok /\ L!Replaces(w) =>
        /\ \A g \in StoreFlow : w.rec \notin e.flows[g].todo /\ (e.flows[g].rec = w.rec => e.flows[g].s = w.rec)
        /\ v.entry[w.rec] = "none" /\ v.run[w.rec] = "none"
  BY DEF Ended, L!Pursued, Nearly, Wants, Serves, Gone
<1>10. L!Replaces(w) <=> w.rec # NoLive /\ w.rec # w.s
  BY DEF L!Replaces
<1> HIDE DEF w
<1>11. Fits(e)
  BY <1>3, <1>4 DEF Nearly, Fits, FlowFits
<1>12. Reports(e)
  <2>1. Reports(v) /\ \A g \in StoreFlow : v.flows[g].rec \in LiveStream \cup {NoLive}
    BY FlowTypes DEF Nearly, Typed
  <2>2. \A s \in LiveStream : e.recovery[s].phase # "none" => e.recovery[s].attempt # "none"
    BY <1>1, <1>6, <1>8, <2>1 DEF Reports
  <2>3. ASSUME NEW g \in StoreFlow, e.flows[g].rec # NoLive
        PROVE  /\ g # f /\ e.flows[g] = v.flows[g]
               /\ e.recovery[e.flows[g].rec] = v.recovery[v.flows[g].rec]
    BY <1>3, <1>4, <1>6, <1>8, <2>1, <2>3
  <2> QED BY <2>1, <2>2, <2>3 DEF Reports
<1>13. Shows(e, w.todo)
  <2>1. Shows(v, {})
    BY DEF Nearly
  <2>2. ASSUME NEW s \in LiveStream, NEW at, On(v, s, at), at \cap Mends = {} PROVE On(e, s, at)
    BY <1>3, <1>7, <2>2 DEF On, Own, w
  <2>3. ASSUME NEW s \in LiveStream, NEW g \in StoreFlow, s \in v.flows[g].todo
        PROVE  s \in w.todo \/ s \in e.flows[g].todo
    BY <1>3, <2>3 DEF w
  <2>4. ASSUME NEW s \in LiveStream PROVE Shown(e, s, w.todo)
    <3>1. Shown(v, s, {})
      BY <2>1 DEF Shows
    <3>2. On(v, s, Gets) => On(e, s, Gets)
      BY <2>2 DEF Gets, Mends
    <3>3. On(v, s, {"consume"}) => On(e, s, {"consume"})
      BY <2>2 DEF Mends
    <3>4. v.recovery[s].attempt # "none" =>
            \/ e.recovery[s].attempt # "none"
            \/ v.run[s] # "idle" /\ (v.entry[s] # "reconnecting" \/ v.run[s] = "none")
      BY <1>1, <1>6, <1>7, <1>9, <1>10
    <3> QED BY <1>2, <2>3, <3>1, <3>2, <3>3, <3>4 DEF Shown, SameGate
  <2>5. ASSUME NEW g \in StoreFlow PROVE Finds(e, g)
    BY <1>2, <1>3, <1>4, <2>1 DEF Shows, Finds, Own, SameGate
  <2> QED BY <2>4, <2>5 DEF Shows
<1>14. Counts(e, {})
  <2>1. Counts(v, Takes(v, f, ok)) /\ v.viewing \subseteq LiveStream
    BY DEF Nearly, Typed
  <2>2. ASSUME NEW s \in v.viewing PROVE Keeps(e, s)
    <3>1. s \in LiveStream /\ Keeps(v, s)
      BY <1>7, <2>1 DEF Counts, Takes, w
    <3>2. CASE v.run[s] # "none"
      BY <1>2, <3>2 DEF Keeps
    <3>3. CASE v.recovery[s].attempt = "gateway" /\ v.recovery[s].phase = "timer"
      BY <1>1, <1>6, <1>8, <3>1, <3>3 DEF Keeps
    <3>4. ASSUME NEW g \in StoreFlow, v.flows[g].s = s, v.flows[g].at = "admitted"
          PROVE  Keeps(e, s)
      BY <1>2, <1>3, <1>7, <3>4 DEF Keeps, w
    <3>5. ASSUME NEW g \in StoreFlow, v.flows[g].s = s, v.flows[g].at = "watch", v.flows[g].rec = s
          PROVE  Keeps(e, s)
      <4>1. CASE g = f
        BY <1>1, <1>6, <1>7, <1>8, <3>1, <3>5, <4>1 DEF Keeps, w, Mends
      <4>2. CASE g # f
        BY <1>3, <3>5, <4>2 DEF Keeps
      <4> QED BY <4>1, <4>2
    <3> QED BY <3>1, <3>2, <3>3, <3>4, <3>5 DEF Keeps
  <2> QED BY <1>2, <1>3, <1>4, <2>1, <2>2 DEF Counts, Own, SameGate
<1>15. Cancels(e)
  BY <1>2, <1>3, <1>4 DEF Nearly, Cancels
<1>16. Wants(e, w.todo, {})
  <2>1. Wants(v, {}, Takes(v, f, ok)) /\ v.wanted \subseteq LiveStream
    BY DEF Nearly, Typed
  <2>2. Serves(v, w)
    BY <2>1 DEF Wants, w
  <2>3. L!Replaces(w) => w.todo = {}
    BY <1>7, <1>10 DEF FlowFits
  <2>4. \/ e.wanted = v.wanted /\ Takes(v, f, ok) = {}
        \/ ok /\ L!Replaces(w) /\ e.wanted = (v.wanted \ {w.rec}) \cup {w.s} /\ Takes(v, f, ok) = {w.s}
    <3>1. w.rec # NoLive => w.rec \in v.wanted
      BY <1>1, <1>8, <2>1 DEF Wants, Wanted
    <3> QED BY <1>1, <1>5, <1>10, <2>1, <3>1 DEF Takes, w
  <2>5. w.todo \subseteq e.wanted
    BY <2>2, <2>3, <2>4 DEF Serves
  <2>6. e.wanted \subseteq e.airs \cup e.over
    BY <1>1, <1>2, <2>1, <2>2, <2>4 DEF Wants, Serves, SameGate
  <2>7. ASSUME NEW s \in LiveStream PROVE Wanted(e, s, {})
    BY <2>1, <1>6, <2>4, <1>2, <1>9, <1>7, <1>10, <1>3 DEF Wants, Wanted, w, FlowFits, Mends,
       SameGate
  <2>8. ASSUME NEW g \in StoreFlow \ {f} PROVE Serves(e, e.flows[g])
    BY <1>3, <2>1, <1>2, <1>9, <2>4 DEF Wants, Serves, Gone, SameGate, Nearly, Shows, Fits,
       FlowFits, Finds, Own, Gets
  <2>9. Serves(e, e.flows[f])
    BY <1>4 DEF Serves, L!Replaces
  <2> QED BY <1>2, <2>1, <2>5, <2>6, <2>7, <2>8, <2>9 DEF Wants, SameGate
<1> QED BY <1>11, <1>12, <1>13, <1>14, <1>15, <1>16 DEF Good, Nearly, w

LEMMA GoesGood ==
  ASSUME NEW v, Typed(v), NEW f \in StoreFlow, NEW ok \in BOOLEAN, v.flows[f].at # "none",
         ~v.lapsed => Idle(v, f, ok) /\ Nearly(v, {}, Takes(v, f, ok)),
         NEW x \in L!Goes(v, f, ok)
  PROVE  WatchInv(x)
<1>1. PICK e : Ended(v, f, ok, e) /\ x \in L!RestoreNext(e, f, v.flows[f].todo)
  BY GoesFacts
<1>2. Typed(e) /\ e.flows[f] = L!NoFlow /\ (v.lapsed => e.lapsed)
  BY <1>1 DEF Ended
<1>3. ~e.lapsed => Good(e, v.flows[f].todo)
  BY <1>1, <1>2, EndedGood
<1>4. v.flows[f].todo \in SUBSET LiveStream
  BY FlowTypes DEF Typed
<1>5. e.flows[f].at = "none"
  BY <1>2 DEF L!NoFlow
<1> QED BY <1>1, <1>2, <1>3, <1>4, <1>5, RestoreNextGood

\* Only the note that functions crossed may differ.
LEMMA LapseFacts ==
  ASSUME NEW v, Typed(v), NEW b \in BOOLEAN, NEW u, u = [v EXCEPT !.lapsed = b]
  PROVE  /\ Typed(u) /\ u.lapsed = b /\ SameGate(v, u) /\ u.cancelled = v.cancelled
         /\ u.wanted = v.wanted /\ u.viewing = v.viewing /\ u.entry = v.entry /\ u.run = v.run
         /\ u.recovery = v.recovery /\ u.flows = v.flows
BY DEF Typed, Fields, SameGate

LEMMA CrossFacts ==
  ASSUME NEW v, Typed(v), NEW f \in StoreFlow, NEW u, u = L!Cross(v, f)
  PROVE  /\ Typed(u) /\ SameGate(v, u) /\ u.cancelled = v.cancelled
         /\ u.wanted = v.wanted /\ u.viewing = v.viewing /\ u.entry = v.entry /\ u.run = v.run
         /\ u.recovery = v.recovery /\ u.flows = v.flows
         /\ ~u.lapsed => ~v.lapsed /\ v.flows[f].own
<1>1. CASE v.flows[f].own
  BY <1>1 DEF L!Cross, SameGate
<1>2. CASE ~v.flows[f].own
  <2>1. u = [v EXCEPT !.lapsed = TRUE]
    BY <1>2 DEF L!Cross, L!Lapse
  <2>2. PICK b \in BOOLEAN : b = TRUE
    OBVIOUS
  <2>3. Typed(v) /\ b \in BOOLEAN /\ u = [v EXCEPT !.lapsed = b]
    BY <2>1, <2>2
  <2>4. /\ Typed(u) /\ u.lapsed = b /\ SameGate(v, u) /\ u.cancelled = v.cancelled
        /\ u.wanted = v.wanted /\ u.viewing = v.viewing /\ u.entry = v.entry /\ u.run = v.run
        /\ u.recovery = v.recovery /\ u.flows = v.flows
    BY ONLY <2>3, LapseFacts
  <2> QED BY ONLY <2>2, <2>4
<1> QED BY <1>1, <1>2

\* A runtime is sent media, and nobody has its entry any more.
Served(v, s, u) ==
  /\ Typed(u) /\ SameGate(v, u) /\ u.cancelled = v.cancelled /\ u.wanted = v.wanted
  /\ u.viewing = v.viewing /\ u.recovery = v.recovery /\ Disowns(v, u, {s})
  /\ u.entry = [v.entry EXCEPT ![s] = "watching"] /\ u.run = [v.run EXCEPT ![s] = "served"]

LEMMA ServedNearly ==
  ASSUME NEW v, Typed(v), Good(v, {}), NEW f \in StoreFlow,
         Own(v, f, {"admitted", "consume", "rebuild"}), NEW u, Served(v, v.flows[f].s, u)
  PROVE  /\ Nearly(u, {}, Takes(v, f, TRUE)) /\ ~u.flows[f].own /\ v.flows[f].s \in LiveStream
         /\ u.entry[v.flows[f].s] = "watching" /\ u.run[v.flows[f].s] = "served"
<1> DEFINE s == v.flows[f].s
<1>1. s \in LiveStream /\ v.flows[f].own /\ v.flows[f].at \in {"admitted", "consume", "rebuild"}
  BY DEF Good, Nearly, Fits, FlowFits, Own
<1>2. /\ Finds(v, f) /\ Shown(v, s, {})
      /\ v.flows[f].at \in {"admitted", "consume"} => s \in v.viewing
      /\ v.link /\ v.run[s] # "none" => s \in v.viewing
  BY <1>1 DEF Good, Nearly, Shows, Counts, Own
<1>3. s \in v.viewing /\ v.link /\ v.room[s] = "mine" /\ v.entry[s] \notin {"none", "ended"}
  BY <1>1, <1>2 DEF Finds, Shown, Own, Mends, Good, Nearly, Counts
<1>4. /\ u.entry[s] = "watching" /\ u.run[s] = "served"
      /\ \A t \in LiveStream \ {s} : u.entry[t] = v.entry[t] /\ u.run[t] = v.run[t]
  BY <1>1 DEF Served, Typed
<1>5. /\ SameGate(v, u) /\ u.cancelled = v.cancelled /\ u.wanted = v.wanted
      /\ u.viewing = v.viewing /\ u.recovery = v.recovery /\ Typed(u)
  BY DEF Served
<1>6. Disowns(v, u, {s})
  BY DEF Served
<1> HIDE DEF s
<1>7. Fits(u)
  BY <1>5, <1>6, FadesFit DEF Good, Nearly
<1>8. Reports(u)
  BY <1>5, <1>6 DEF Good, Nearly, Reports, Disowns, Fades
<1>9. Shows(u, {})
  <2>1. Shows(v, {})
    BY DEF Good, Nearly
  <2>2. ASSUME NEW t \in LiveStream PROVE Shown(u, t, {})
    BY <1>3, <1>4, <1>5, <1>6, <2>1 DEF Shown, SameGate, Disowns, Fades, On, Own, Shows
  <2>3. ASSUME NEW g \in StoreFlow PROVE Finds(u, g)
    <3> SUFFICES ASSUME u.flows[g].own PROVE Finds(u, g)
      BY DEF Finds, Own
    <3>1. /\ u.flows[g].s \in LiveStream \ {s} /\ Finds(v, g) /\ u.flows[g].s = v.flows[g].s
          /\ v.flows[g].own /\ u.flows[g].at = v.flows[g].at
      BY <1>6, <1>7, <2>1 DEF Shows, Disowns, Fades, Fits, FlowFits, Gets, Mends
    <3>2. u.entry[u.flows[g].s] = v.entry[u.flows[g].s] /\ u.run[u.flows[g].s] = v.run[u.flows[g].s]
      BY <1>4, <3>1
    <3> QED BY <1>5, <3>1, <3>2 DEF Finds, Own, SameGate
  <2> QED BY <2>2, <2>3 DEF Shows
<1>10. Counts(u, {})
  <2>1. Counts(v, {}) /\ v.viewing \subseteq LiveStream
    BY DEF Good, Nearly, Typed
  <2>2. ASSUME NEW t \in LiveStream, Keeps(v, t) PROVE Keeps(u, t)
    BY <1>4, <1>5, <1>6, <2>2 DEF Keeps, Disowns, Fades
  <2>3. \A g \in StoreFlow : Own(u, g, {"admitted", "consume"}) =>
          Own(v, g, {"admitted", "consume"}) /\ u.flows[g].s = v.flows[g].s
    BY <1>6 DEF Disowns, Fades, Own
  <2> QED BY <1>3, <1>4, <1>5, <2>1, <2>2, <2>3 DEF Counts, SameGate
<1>11. Cancels(u)
  <2>1. Cancels(v) /\ v.cancelled \subseteq LiveStream
    BY DEF Good, Nearly, Typed
  <2> QED BY <1>3, <1>4, <1>5, <1>6, <2>1 DEF Cancels, Disowns, Fades
<1>12. Wants(u, {}, Takes(v, f, TRUE))
  <2>1. Wants(v, {}, {})
    BY DEF Good, Nearly
  <2>2. ASSUME NEW g \in StoreFlow
        PROVE  /\ L!Replaces(u.flows[g]) <=> L!Replaces(v.flows[g])
               /\ u.flows[g].s = v.flows[g].s /\ u.flows[g].rec = v.flows[g].rec
               /\ u.flows[g].todo = v.flows[g].todo
               /\ u.flows[g].own <=> v.flows[g].own /\ v.flows[g].s # s
    BY <1>6 DEF Disowns, Fades, L!Replaces
  <2>3. ASSUME NEW t \in LiveStream PROVE Wanted(u, t, Takes(v, f, TRUE))
    <3>1. Wanted(v, t, {})
      BY <2>1 DEF Wants
    <3>2. CASE t # s
      <4>1. ASSUME NEW g \in StoreFlow, v.flows[g].own, v.flows[g].s = t, L!Replaces(v.flows[g])
            PROVE  u.flows[g].own /\ u.flows[g].s = t /\ L!Replaces(u.flows[g])
        BY <2>2, <3>2, <4>1
      <4>2. u.entry[t] = v.entry[t] /\ u.recovery[t] = v.recovery[t] /\ u.room[t] = v.room[t]
            /\ u.wanted = v.wanted /\ u.airs = v.airs /\ u.over = v.over
        BY <1>4, <1>5, <3>2 DEF SameGate
      <4> HIDE DEF s
      <4> QED BY <3>1, <4>1, <4>2 DEF Wanted
    <3>3. CASE t = s
      BY <1>1, <2>1, ClientAssumption, <1>5, <3>1, <3>3 DEF Wants, Serves, s, Good, Nearly, Reports,
         Wanted, WatchAssumption, L!Replaces, SameGate, Takes
    <3> QED BY <3>2, <3>3
  <2>4. ASSUME NEW g \in StoreFlow PROVE Serves(u, u.flows[g])
    BY <2>1, FlowTypes, <1>3, <1>4, <1>5, <2>2 DEF Wants, L!Replaces, Typed, Serves, Gone, SameGate
  <2> QED BY <1>5, <2>1, <2>3, <2>4 DEF Wants, SameGate
<1>13. Counts(u, Takes(v, f, TRUE))
  BY <1>10 DEF Counts
<1>14. ~u.flows[f].own
  BY <1>6 DEF Disowns, s
<1> QED BY <1>1, <1>4, <1>7, <1>8, <1>9, <1>11, <1>12, <1>13, <1>14 DEF Nearly, s

-----------------------------------------------------------------------------
(* The answers to a watch.                                                 *)

\* The runtime of the function's stream is sent media.
Feeds(v, f, u) ==
  LET s == v.flows[f].s
  IN /\ SameGate(v, u) /\ u.cancelled = v.cancelled /\ u.wanted = v.wanted
     /\ u.viewing = v.viewing /\ u.recovery = v.recovery
     /\ u.entry = v.entry /\ u.run = [v.run EXCEPT ![s] = "served"]
     /\ \A g \in StoreFlow : /\ Fades(v.flows[g], u.flows[g])
                             /\ v.flows[g].s # s => (u.flows[g].own <=> v.flows[g].own)

LEMMA WatchingGood ==
  ASSUME NEW v, Typed(v), NEW f \in StoreFlow, v.flows[f].at \in Gets, NEW o, Typed(o),
         ~v.lapsed => Good(o, {}) /\ Own(o, f, {"admitted", "consume"}) /\ Feeds(o, f, v),
         NEW x \in L!Watching(v, f)
  PROVE  WatchInv(x)
<1> DEFINE s == v.flows[f].s
           e == IF v.room[s] = "mine" THEN "watching" ELSE "starting"
           t == L!SetEntry(v, s, e)
<1>1. x \in L!Goes(t, f, TRUE)
  BY DEF L!Watching
<1>2. s \in LiveStream /\ e \in L!Entry
  BY EntryWords DEF Typed, Gets
<1> HIDE DEF s, e
<1>3. /\ Typed(t) /\ Disowns(v, t, {s}) /\ SameGate(v, t) /\ SameWish(v, t)
      /\ t.entry = [v.entry EXCEPT ![s] = e]
      /\ t.run = v.run /\ t.recovery = v.recovery /\ t.viewing = v.viewing
  BY <1>2, SetEntryFacts
<1> HIDE DEF t
<1>4. t.flows[f].at # "none"
  BY <1>3 DEF Disowns, Fades, Gets
<1>5. ASSUME ~t.lapsed PROVE Idle(t, f, TRUE) /\ Nearly(t, {}, Takes(t, f, TRUE))
  <2>1. Good(o, {}) /\ Own(o, f, {"admitted", "consume"}) /\ Feeds(o, f, v)
    BY <1>3, <1>5 DEF SameWish
  <2>2. Fades(o.flows[f], v.flows[f]) /\ Fades(o.flows[f], t.flows[f]) /\ o.flows[f].s = s
    BY <1>3, <2>1 DEF Feeds, Disowns, Fades, s
  <2>3. o.room[s] = "mine"
    BY <2>1, <2>2 DEF Good, Nearly, Counts
  <2>4. e = "watching"
    BY <2>1, <2>3 DEF e, Feeds, SameGate
  <2>5. Disowns(o, t, {s})
    BY <1>3, <2>1, <2>2 DEF Feeds, Disowns, Fades
  <2>6. Served(o, s, t)
    BY <1>3, <2>1, <2>2, <2>4, <2>5 DEF Feeds, Served, SameGate, SameWish
  <2>7. Own(o, f, {"admitted", "consume", "rebuild"})
    BY <2>1 DEF Own
  <2>8. /\ Nearly(t, {}, Takes(o, f, TRUE)) /\ ~t.flows[f].own
        /\ t.entry[s] = "watching" /\ t.run[s] = "served"
    BY <2>1, <2>2, <2>6, <2>7, ServedNearly
  <2>9. Takes(t, f, TRUE) = Takes(o, f, TRUE)
    BY <2>2 DEF Takes, L!Replaces, Fades
  <2> QED BY <1>4, <2>1, <2>2, <2>8, <2>9 DEF Idle, Own, Fades, Keeps
<1> QED BY <1>1, <1>3, <1>4, <1>5, GoesGood

LEMMA ConsumedStep ==
  ASSUME WatchInv(watched), NEW f \in StoreFlow, L!Consumed(f) PROVE WatchInv(watched')
<1> DEFINE v == L!Cross(watched, f)
           s == watched.flows[f].s
           r == [v.run EXCEPT ![s] = "served"]
           u == IF v.run[s] = "none" THEN v ELSE [v EXCEPT !.run = r]
<1>1. /\ Typed(watched) /\ watched.flows[f].at = "consume" /\ s \in LiveStream
      /\ watched.flows \in [StoreFlow -> L!FlowRec]
  BY DEF L!Consumed, L!At, WatchInv, Typed
<1>2. /\ Typed(v) /\ SameGate(watched, v) /\ v.cancelled = watched.cancelled
      /\ v.wanted = watched.wanted /\ v.viewing = watched.viewing /\ v.entry = watched.entry
      /\ v.run = watched.run /\ v.recovery = watched.recovery /\ v.flows = watched.flows
      /\ ~v.lapsed => ~watched.lapsed /\ watched.flows[f].own
  BY <1>1, CrossFacts
<1>3. watched' \in L!Watching(u, f)
  BY <1>2 DEF L!Consumed, L!S, Typed, Fields
<1>4. r \in [LiveStream -> L!Runtime]
  BY <1>2, EntryWords DEF Typed
<1> HIDE DEF v
<1>5. /\ Typed(u) /\ SameGate(v, u) /\ u.cancelled = v.cancelled /\ u.wanted = v.wanted
      /\ u.viewing = v.viewing /\ u.entry = v.entry /\ u.recovery = v.recovery
      /\ u.flows = v.flows /\ u.lapsed = v.lapsed /\ (v.run[s] # "none" => u.run = r)
  <2> HIDE DEF r
  <2> QED BY <1>2, <1>4 DEF Typed, Fields, SameGate
<1> HIDE DEF u
<1>6. ASSUME ~u.lapsed
      PROVE  Good(watched, {}) /\ Own(watched, f, {"admitted", "consume"}) /\ Feeds(watched, f, u)
  BY <1>2, <1>5, <1>6, <1>1 DEF WatchInv, Good, Nearly, Shows, Finds, Own, Fades, Feeds, SameGate
<1>7. u.flows[f].at \in Gets
  BY <1>1, <1>2, <1>5 DEF Gets
<1> QED BY <1>1, <1>3, <1>5, <1>6, <1>7, WatchingGood

LEMMA RecoveryFailsStep ==
  ASSUME WatchInv(watched), NEW f \in StoreFlow, L!RecoveryFails(f) PROVE WatchInv(watched')
<1>1. Typed(watched) /\ watched.flows[f].at \in Mends /\ watched' \in L!Goes(watched, f, FALSE)
  BY DEF L!RecoveryFails, L!At, WatchInv, Mends
<1>2. Takes(watched, f, FALSE) = {} /\ Idle(watched, f, FALSE)
  BY <1>1 DEF Takes, Idle, Mends
<1>3. watched.flows[f].at # "none"
  BY <1>1 DEF Mends
<1> QED BY <1>1, <1>2, <1>3, GoesGood DEF WatchInv, Good

LEMMA RebuiltStep ==
  ASSUME WatchInv(watched), NEW f \in StoreFlow, L!Rebuilt(f) PROVE WatchInv(watched')
<1> DEFINE v == L!Cross(watched, f)
           s == watched.flows[f].s
           r == [v.run EXCEPT ![s] = "served"]
           u == IF v.run[s] = "none" THEN v ELSE [v EXCEPT !.run = r]
           t == L!UpdateEntry(u, s, "watching")
<1>1. /\ Typed(watched) /\ watched.flows[f].at = "rebuild" /\ s \in LiveStream
      /\ watched.flows \in [StoreFlow -> L!FlowRec]
  BY DEF L!Rebuilt, L!At, WatchInv, Typed
<1>2. /\ Typed(v) /\ SameGate(watched, v) /\ v.cancelled = watched.cancelled
      /\ v.wanted = watched.wanted /\ v.viewing = watched.viewing /\ v.entry = watched.entry
      /\ v.run = watched.run /\ v.recovery = watched.recovery /\ v.flows = watched.flows
      /\ ~v.lapsed => ~watched.lapsed /\ watched.flows[f].own
  BY <1>1, CrossFacts
<1>3. watched' \in L!Goes(t, f, TRUE)
  <2>1. watched' \in L!Goes(L!UpdateEntry(IF v.run[s] = "none" THEN v ELSE [v EXCEPT !.run[s] = "served"],
                                          s, "watching"), f, TRUE)
    BY DEF L!Rebuilt, L!S
  <2>2. [v EXCEPT !.run[s] = "served"] = [v EXCEPT !.run = r]
    BY <1>2 DEF Typed, Fields
  <2> QED BY <2>1, <2>2
<1>4. r \in [LiveStream -> L!Runtime]
  BY <1>2, EntryWords DEF Typed
<1> HIDE DEF v
<1>5. /\ Typed(u) /\ SameGate(v, u) /\ u.cancelled = v.cancelled /\ u.wanted = v.wanted
      /\ u.viewing = v.viewing /\ u.entry = v.entry /\ u.recovery = v.recovery
      /\ u.flows = v.flows /\ u.lapsed = v.lapsed /\ (v.run[s] # "none" => u.run = r)
  <2> HIDE DEF r
  <2> QED BY <1>2, <1>4 DEF Typed, Fields, SameGate
<1> HIDE DEF u
<1>6. /\ Typed(t) /\ t.lapsed = u.lapsed /\ t.flows[f].at = "rebuild"
      /\ u.entry[s] # "none" =>
           /\ Disowns(u, t, {s}) /\ SameGate(u, t) /\ SameWish(u, t)
           /\ t.entry = [u.entry EXCEPT ![s] = "watching"]
           /\ t.run = u.run /\ t.recovery = u.recovery /\ t.viewing = u.viewing
  <2>1. CASE u.entry[s] = "none"
    BY <1>1, <1>2, <1>5, <2>1 DEF L!UpdateEntry
  <2>2. CASE u.entry[s] # "none"
    <3>1. t = L!SetEntry(u, s, "watching")
      BY <2>2 DEF L!UpdateEntry
    <3> HIDE DEF t, s
    <3>2. /\ Typed(t) /\ Disowns(u, t, {s}) /\ SameGate(u, t) /\ SameWish(u, t)
          /\ t.entry = [u.entry EXCEPT ![s] = "watching"]
          /\ t.run = u.run /\ t.recovery = u.recovery /\ t.viewing = u.viewing
      BY <1>1, <1>5, <3>1, SetEntryFacts, EntryWords
    <3> QED BY <1>1, <1>2, <1>5, <3>2 DEF Disowns, Fades, SameWish
  <2> QED BY <2>1, <2>2
<1> HIDE DEF t
<1>7. ASSUME ~t.lapsed PROVE Idle(t, f, TRUE) /\ Nearly(t, {}, Takes(t, f, TRUE))
  <2>1. ~watched.lapsed /\ watched.flows[f].own /\ Good(watched, {})
    BY <1>2, <1>5, <1>6, <1>7 DEF WatchInv
  <2>2. Own(watched, f, {"admitted", "consume", "rebuild"}) /\ watched.run[s] # "none" /\ watched.entry[s] # "none"
    BY <1>1, <2>1 DEF Good, Nearly, Shows, Own, Finds, Shown, Mends
  <2>3. Disowns(watched, t, {s})
    BY <1>2, <1>5, <1>6, <2>2 DEF Disowns, Fades
  <2>4. Served(watched, s, t)
    BY <1>2, <1>5, <1>6, <2>2, <2>3 DEF Served, SameGate, SameWish
  <2>5. /\ Nearly(t, {}, Takes(watched, f, TRUE)) /\ ~t.flows[f].own
        /\ t.entry[s] = "watching" /\ t.run[s] = "served"
    BY <1>1, <2>1, <2>2, <2>4, ServedNearly
  <2>6. Takes(t, f, TRUE) = Takes(watched, f, TRUE) /\ t.flows[f].s = s
    BY <2>3 DEF Takes, L!Replaces, Disowns, Fades
  <2> QED BY <1>6, <2>5, <2>6 DEF Idle, Keeps
<1>8. t.flows[f].at # "none"
  BY <1>6
<1> QED BY <1>3, <1>6, <1>7, <1>8, GoesGood

LEMMA SendUnwatchFacts ==
  ASSUME NEW v, Typed(v), NEW s \in LiveStream, NEW u, u = L!SendUnwatch(v, s)
  PROVE  /\ Typed(u) /\ SameGate(v, u) /\ SameWish(v, u) /\ u.entry = v.entry /\ u.run = v.run
         /\ u.recovery = v.recovery /\ u.flows = v.flows
         /\ u.viewing = IF v.link THEN v.viewing \ {s} ELSE v.viewing
<1> DEFINE vw == IF v.link THEN v.viewing \ {s} ELSE v.viewing
<1>1. u = [v EXCEPT !.viewing = vw]
  BY DEF L!SendUnwatch, Typed, Fields
<1>2. vw \subseteq LiveStream
  BY DEF Typed
<1> HIDE DEF vw
<1>3. Typed(u)
  BY <1>1, <1>2 DEF Typed, Fields
<1> QED BY <1>1, <1>3 DEF Typed, Fields, SameGate, SameWish, vw

\* The runtime that an answer sets up is its function's.
SetUp(v, f, s, r, b) ==
  [L!Touch(v, s) EXCEPT !.run[s] = r, !.flows[f].sfu = b, !.flows[f].own = TRUE]

LEMMA SetUpFacts ==
  ASSUME NEW v, Typed(v), NEW f \in StoreFlow, NEW s \in LiveStream, v.flows[f].s = s,
         NEW r \in L!Runtime, NEW b \in BOOLEAN,
         NEW u, u = SetUp(v, f, s, r, b)
  PROVE  /\ Typed(u) /\ SameGate(v, u) /\ SameWish(v, u) /\ u.entry = v.entry
         /\ u.recovery = v.recovery /\ u.viewing = v.viewing /\ u.run = [v.run EXCEPT ![s] = r]
         /\ \A g \in StoreFlow : /\ Fades(v.flows[g], u.flows[g])
                                 /\ u.flows[g].own <=> g = f \/ (v.flows[g].own /\ v.flows[g].s # s)
<1> DEFINE t == L!Touch(v, s)
           rs == [v.run EXCEPT ![s] = r]
           w == [t.flows[f] EXCEPT !.sfu = b, !.own = TRUE]
           fl == [t.flows EXCEPT ![f] = w]
<1>1. /\ Typed(t) /\ Disowns(v, t, {s}) /\ SameGate(v, t) /\ SameWish(v, t)
      /\ t.entry = v.entry /\ t.run = v.run /\ t.recovery = v.recovery /\ t.viewing = v.viewing
  BY TouchFacts
<1>2. t.flows \in [StoreFlow -> L!FlowRec]
  BY <1>1 DEF Typed
<1> HIDE DEF t
<1>3. u = [t EXCEPT !.run = rs, !.flows = fl]
  <2>1. u = [t EXCEPT !.run[s] = r, !.flows[f].sfu = b, !.flows[f].own = TRUE]
    BY DEF t, SetUp
  <2>2. u = [t EXCEPT !.run = [t.run EXCEPT ![s] = r],
                      !.flows = [t.flows EXCEPT ![f].sfu = b, ![f].own = TRUE]]
    BY <1>1, <2>1 DEF Typed, Fields
  <2>3. fl = [t.flows EXCEPT ![f].sfu = b, ![f].own = TRUE]
    BY <1>2
  <2> QED BY <1>1, <2>2, <2>3
<1>4. w \in L!FlowRec /\ Fades(t.flows[f], w) /\ w.own
  BY <1>2 DEF L!FlowRec, Fades
<1> HIDE DEF w
<1>5. /\ fl \in [StoreFlow -> L!FlowRec] /\ fl[f] = w
      /\ \A g \in StoreFlow \ {f} : fl[g] = t.flows[g]
  BY <1>2, <1>4
<1>6. rs \in [LiveStream -> L!Runtime]
  BY DEF Typed
<1> HIDE DEF fl, rs
<1>7. \A g \in StoreFlow : /\ Fades(v.flows[g], fl[g])
                           /\ fl[g].own <=> g = f \/ (v.flows[g].own /\ v.flows[g].s # s)
  BY <1>1, <1>4, <1>5 DEF Disowns, Fades
<1>8. Typed(u)
  BY <1>1, <1>4, <1>5, <1>3, <1>6 DEF Typed, Fades, Fields
<1>9. /\ SameGate(v, u) /\ SameWish(v, u) /\ u.entry = v.entry /\ u.recovery = v.recovery
      /\ u.viewing = v.viewing /\ u.run = rs /\ u.flows = fl
  BY ONLY <1>1, <1>3 DEF Typed, Fields, SameGate, SameWish
<1>10. u.run = [v.run EXCEPT ![s] = r]
  BY <1>9 DEF rs
<1> QED BY <1>7, <1>8, <1>9, <1>10

\* A stream whose function owns it is wanted, or about to replace one that is.
LEMMA OwnedIsWanted ==
  ASSUME NEW v, Typed(v), NEW todo, Good(v, todo), NEW f \in StoreFlow, v.flows[f].own
  PROVE  /\ v.flows[f].s \in LiveStream
         /\ v.flows[f].s \in v.wanted \/ L!Replaces(v.flows[f])
BY ClientAssumption DEF Good, Nearly, Fits, FlowFits, Gets, Mends, Wants, Serves, Reports, Wanted,
   WatchAssumption, L!Replaces

\* The answer of an SFU: the function goes on with an idle runtime of its own.
Idles(v, f, u) ==
  LET s == v.flows[f].s
  IN /\ Typed(u) /\ SameGate(v, u) /\ u.cancelled = v.cancelled /\ u.wanted = v.wanted
     /\ u.viewing = v.viewing /\ u.recovery = v.recovery /\ u.entry = v.entry
     /\ u.run = [v.run EXCEPT ![s] = "idle"]
     /\ \A g \in StoreFlow \ {f} : /\ Fades(v.flows[g], u.flows[g])
                                   /\ u.flows[g].own <=> v.flows[g].own /\ v.flows[g].s # s
     /\ u.flows[f].at = "consume" /\ u.flows[f].own /\ u.flows[f].s = s
     /\ u.flows[f].rec = v.flows[f].rec /\ u.flows[f].todo = v.flows[f].todo
     /\ u.flows[f].restores = v.flows[f].restores

LEMMA IdlesGood ==
  ASSUME NEW v, Typed(v), Good(v, {}), NEW f \in StoreFlow, Own(v, f, {"admitted"}),
         v.flows[f].s \notin v.cancelled, NEW u, Idles(v, f, u)
  PROVE  Good(u, {})
<1> DEFINE s == v.flows[f].s
<1>1. /\ s \in LiveStream /\ v.flows[f].own /\ v.flows[f].at = "admitted"
      /\ s \in v.wanted \/ L!Replaces(v.flows[f])
  BY OwnedIsWanted DEF Own
<1>2. v.entry[s] = "starting" /\ v.run[s] = "none" /\ s \in v.viewing
  BY <1>1 DEF Good, Nearly, Shows, Finds, Counts, Own
<1>3. /\ u.run[s] = "idle" /\ \A t \in LiveStream \ {s} : u.run[t] = v.run[t]
      /\ SameGate(v, u) /\ u.cancelled = v.cancelled /\ u.wanted = v.wanted
      /\ u.viewing = v.viewing /\ u.recovery = v.recovery /\ u.entry = v.entry
  BY <1>1 DEF Idles, Typed
<1>4. /\ \A g \in StoreFlow \ {f} : /\ Fades(v.flows[g], u.flows[g])
                                    /\ u.flows[g].own <=> v.flows[g].own /\ v.flows[g].s # s
      /\ u.flows[f].at = "consume" /\ u.flows[f].own /\ u.flows[f].s = s
      /\ u.flows[f].rec = v.flows[f].rec /\ u.flows[f].todo = v.flows[f].todo
      /\ u.flows[f].restores = v.flows[f].restores
  BY DEF Idles
<1>5. v.flows[f].s = s /\ s \notin v.cancelled
  OBVIOUS
<1> HIDE DEF s
<1>6. \A g \in StoreFlow : /\ u.flows[g].s = v.flows[g].s /\ u.flows[g].rec = v.flows[g].rec
                           /\ u.flows[g].todo = v.flows[g].todo
                           /\ u.flows[g].own => v.flows[g].own
                           /\ u.flows[g].at \in Mends <=> v.flows[g].at \in Mends
                           /\ g # f => u.flows[g].at = v.flows[g].at
  BY <1>1, <1>4, <1>5 DEF Fades, Mends
<1>7. Fits(u)
  BY <1>1, <1>4, <1>5 DEF Good, Nearly, Fits, FlowFits, Gets, Mends, Fades
<1>8. Reports(u)
  BY <1>3, <1>6 DEF Good, Nearly, Reports
<1>9. Shows(u, {})
  <2>1. Shows(v, {})
    BY DEF Good, Nearly
  <2>2. ASSUME NEW t \in LiveStream PROVE Shown(u, t, {})
    BY <1>4, <1>2, <1>3, <1>5, <1>6, <2>1 DEF On, Own, Gets, Shown, Shows, SameGate
  <2>3. ASSUME NEW g \in StoreFlow PROVE Finds(u, g)
    <3>1. CASE g = f
      BY <1>3, <1>4, <3>1 DEF Finds, Own, Mends
    <3>2. CASE g # f
      <4> SUFFICES ASSUME u.flows[g].own PROVE Finds(u, g)
        BY DEF Finds, Own
      <4>1. /\ u.flows[g].s \in LiveStream \ {s} /\ Finds(v, g) /\ u.flows[g].s = v.flows[g].s
            /\ v.flows[g].own /\ u.flows[g].at = v.flows[g].at
        BY <1>4, <1>6, <1>7, <2>1, <3>2 DEF Shows, Fits, FlowFits, Gets, Mends
      <4>2. u.run[u.flows[g].s] = v.run[u.flows[g].s]
        BY <1>3, <4>1
      <4> QED BY <1>3, <4>1, <4>2 DEF Finds, Own, SameGate
    <3> QED BY <3>1, <3>2
  <2> QED BY <2>2, <2>3 DEF Shows
<1>10. Counts(u, {})
  <2>1. Counts(v, {}) /\ v.viewing \subseteq LiveStream
    BY DEF Good, Nearly, Typed
  <2>2. ASSUME NEW t \in LiveStream, Keeps(v, t) PROVE Keeps(u, t)
    <3>1. CASE t = s
      BY <1>3, <3>1 DEF Keeps
    <3>2. CASE t # s
      BY <1>3, <1>5, <1>6, <2>2, <3>2 DEF Keeps
    <3> QED BY <3>1, <3>2
  <2>3. ASSUME NEW g \in StoreFlow, Own(u, g, {"admitted", "consume"}) PROVE u.flows[g].s \in v.viewing
    <3>1. CASE g = f
      BY <1>2, <1>4, <3>1
    <3>2. CASE g # f
      BY <1>6, <2>1, <2>3, <3>2 DEF Counts, Own
    <3> QED BY <3>1, <3>2
  <2> QED BY <1>2, <1>3, <2>1, <2>2, <2>3 DEF Counts, SameGate
<1>11. Cancels(u)
  BY <1>3, <1>4, <1>5, <1>6 DEF Good, Nearly, Typed, Cancels
<1>12. Wants(u, {}, {})
  <2>1. Wants(v, {}, {})
    BY DEF Good, Nearly
  <2>2. \A g \in StoreFlow : L!Replaces(u.flows[g]) <=> L!Replaces(v.flows[g])
    BY <1>6 DEF L!Replaces
  <2>3. ASSUME NEW t \in LiveStream PROVE Wanted(u, t, {})
    <3>1. Wanted(v, t, {})
      BY <2>1 DEF Wants
    <3>2. CASE t # s
      <4>1. ASSUME NEW g \in StoreFlow, v.flows[g].own, v.flows[g].s = t, L!Replaces(v.flows[g])
            PROVE  u.flows[g].own /\ u.flows[g].s = t /\ L!Replaces(u.flows[g])
        BY <1>4, <1>6, <2>2, <3>2, <4>1
      <4> QED BY <1>3, <3>1, <4>1 DEF Wanted, SameGate
    <3>3. CASE t = s
      BY <1>1, <1>3, <1>4, <2>2, <3>1, <3>3 DEF Wanted, SameGate
    <3> QED BY <3>2, <3>3
  <2>4. ASSUME NEW g \in StoreFlow PROVE Serves(u, u.flows[g])
    BY <2>1, FlowTypes, <1>2, <1>3, <1>6, <2>2 DEF Wants, L!Replaces, Typed, Good, Nearly, Counts,
       Serves, Gone, SameGate
  <2> QED BY <1>3, <2>1, <2>3, <2>4 DEF Wants, SameGate
<1> QED BY <1>7, <1>8, <1>9, <1>10, <1>11, <1>12 DEF Good, Nearly

\* The answer to a watch that was cancelled: the function goes on to its unwatch.
Withdrawn(v, f, u) ==
  LET s == v.flows[f].s
  IN /\ Typed(u) /\ SameGate(v, u) /\ u.cancelled = v.cancelled \ {s} /\ u.wanted = v.wanted
     /\ u.viewing = v.viewing \ {s} /\ u.recovery = v.recovery
     /\ u.entry = [v.entry EXCEPT ![s] = "none"] /\ u.run = v.run
     /\ \A g \in StoreFlow \ {f} : /\ Fades(v.flows[g], u.flows[g])
                                   /\ u.flows[g].own <=> v.flows[g].own /\ v.flows[g].s # s
     /\ u.flows[f].at = "cancel" /\ ~u.flows[f].own /\ u.flows[f].s = s
     /\ u.flows[f].rec = v.flows[f].rec /\ u.flows[f].todo = v.flows[f].todo
     /\ u.flows[f].restores = v.flows[f].restores

LEMMA WithdrawnGood ==
  ASSUME NEW v, Typed(v), Good(v, {}), NEW f \in StoreFlow, v.flows[f].at = "admitted",
         v.flows[f].s \in v.cancelled, NEW u, Withdrawn(v, f, u)
  PROVE  Good(u, {})
<1> DEFINE s == v.flows[f].s
<1>1. s \in LiveStream /\ v.entry[s] = "none" /\ v.run[s] = "none"
      /\ v.flows[f].rec # s
  BY DEF Good, Nearly, Cancels, Typed
<1>2. /\ u.entry = v.entry /\ u.run = v.run /\ u.viewing = v.viewing \ {s}
      /\ SameGate(v, u) /\ u.cancelled = v.cancelled \ {s} /\ u.wanted = v.wanted
      /\ u.recovery = v.recovery
  BY <1>1 DEF Withdrawn, Typed
<1>3. v.flows[f].s = s /\ v.flows[f].at = "admitted"
  OBVIOUS
<1>4. ASSUME NEW g \in StoreFlow, v.flows[g].own PROVE v.flows[g].s # s
  BY <1>1, <1>4 DEF Good, Nearly, Shows, Finds, Fits, FlowFits, Own, Gets
<1>5. /\ \A g \in StoreFlow \ {f} : /\ Fades(v.flows[g], u.flows[g])
                                    /\ u.flows[g].own <=> v.flows[g].own
      /\ ~v.flows[f].own
      /\ u.flows[f].at = "cancel" /\ ~u.flows[f].own /\ u.flows[f].s = s
      /\ u.flows[f].rec = v.flows[f].rec /\ u.flows[f].todo = v.flows[f].todo
      /\ u.flows[f].restores = v.flows[f].restores
  BY <1>4 DEF Withdrawn
<1> HIDE DEF s
<1>6. \A g \in StoreFlow : /\ u.flows[g].s = v.flows[g].s /\ u.flows[g].rec = v.flows[g].rec
                           /\ u.flows[g].todo = v.flows[g].todo
                           /\ u.flows[g].own <=> v.flows[g].own
                           /\ u.flows[g].at \in Mends <=> v.flows[g].at \in Mends
                           /\ g # f => u.flows[g].at = v.flows[g].at
  BY <1>3, <1>5 DEF Fades, Mends
<1>7. Fits(u)
  BY <1>1, <1>3, <1>5 DEF Good, Nearly, Fits, FlowFits, Gets, Mends, Fades
<1>8. Reports(u)
  BY <1>2, <1>6, SMTT(30) DEF Good, Nearly, Reports
<1>9. Shows(u, {})
  BY <1>5, <1>6, <1>1, <1>2 DEF Good, Nearly, On, Own, Shows, Shown, SameGate, Finds
<1>10. Counts(u, {})
  <2>1. Counts(v, {}) /\ v.viewing \subseteq LiveStream
    BY DEF Good, Nearly, Typed
  <2>2. ASSUME NEW t \in LiveStream \ {s}, Keeps(v, t) PROVE Keeps(u, t)
    BY <1>2, <1>3, <1>6, <2>2 DEF Keeps
  <2>3. ASSUME NEW g \in StoreFlow, Own(u, g, {"admitted", "consume"}) PROVE u.flows[g].s \in u.viewing
    BY <1>2, <1>4, <1>5, <1>6, <2>1, <2>3 DEF Counts, Own
  <2> QED BY <1>1, <1>2, <2>1, <2>2, <2>3 DEF Counts, SameGate
<1>11. Cancels(u)
  BY <1>1, <1>2, <1>3, <1>5, <1>6 DEF Good, Nearly, Cancels
<1>12. Wants(u, {}, {})
  BY <1>6, <1>2 DEF Good, Nearly, L!Replaces, Wants, Wanted, SameGate, Serves, Gone
<1> QED BY <1>7, <1>8, <1>9, <1>10, <1>11, <1>12 DEF Good, Nearly

LEMMA AdmittedStep ==
  ASSUME WatchInv(watched), NEW f \in StoreFlow, L!Admitted(f) PROVE WatchInv(watched')
<1> DEFINE s == watched.flows[f].s
           again == watched.flows[f].again
           v == IF again THEN L!Lapse(watched) ELSE L!Cross(watched, f)
           r == IF watched.sfu \/ again THEN "idle" ELSE "served"
           run == [L!Touch(v, s) EXCEPT !.run[s] = r, !.flows[f].sfu = watched.sfu, !.flows[f].own = TRUE]
<1>1. /\ Typed(watched) /\ watched.flows[f].at = "admitted" /\ s \in LiveStream
      /\ watched.link /\ watched.sfu \in BOOLEAN /\ again \in BOOLEAN
  <2> HIDE DEF v, r, run
  <2>1. Typed(watched) /\ L!At(f) = "admitted" /\ L!Calm
    BY DEF L!Admitted, WatchInv
  <2>2. watched.flows[f].at = "admitted" /\ watched.link
    BY ONLY <2>1, f \in StoreFlow DEF L!Calm, L!Broken, L!Commands, L!At, Typed
  <2>3. s \in LiveStream /\ watched.sfu \in BOOLEAN /\ watched.flows[f] \in L!FlowRec
    BY ONLY <2>1, <2>2, f \in StoreFlow DEF Typed, s
  <2>4. again \in BOOLEAN
    BY ONLY <2>3, FlowTypes DEF again
  <2> QED BY ONLY <2>1, <2>2, <2>3, <2>4
<1>2. \/ s \in watched.cancelled
         /\ watched' = [L!SendUnwatch(L!SetEntry(watched, s, "none"), s)
                          EXCEPT !.cancelled = @ \ {s}, !.flows[f].at = "cancel"]
      \/ s \notin watched.cancelled /\ watched.sfu /\ ~again /\ watched' = [run EXCEPT !.flows[f].at = "consume"]
      \/ s \notin watched.cancelled /\ (~watched.sfu \/ again) /\ watched' \in L!Watching(run, f)
  BY <1>1, ZenonT(30) DEF L!Admitted, L!S
<1> HIDE DEF again, v, r, run
<1>3. CASE /\ s \in watched.cancelled
           /\ watched' = [L!SendUnwatch(L!SetEntry(watched, s, "none"), s)
                            EXCEPT !.cancelled = @ \ {s}, !.flows[f].at = "cancel"]
  <2> DEFINE e == L!SetEntry(watched, s, "none")
             n == L!SendUnwatch(e, s)
             can == n.cancelled \ {s}
             x == [n.flows[f] EXCEPT !.at = "cancel"]
             fl == [n.flows EXCEPT ![f] = x]
  <2>1. /\ Typed(e) /\ Disowns(watched, e, {s}) /\ SameGate(watched, e) /\ SameWish(watched, e)
        /\ e.entry = [watched.entry EXCEPT ![s] = "none"]
        /\ e.run = watched.run /\ e.recovery = watched.recovery /\ e.viewing = watched.viewing
    <3>1. Typed(watched) /\ s \in LiveStream
      BY <1>1
    <3> HIDE DEF s
    <3> QED BY ONLY <3>1, SetEntryFacts, EntryWords
  <2> HIDE DEF e, s
  <2>2. /\ Typed(n) /\ SameGate(e, n) /\ SameWish(e, n) /\ n.entry = e.entry /\ n.run = e.run
        /\ n.recovery = e.recovery /\ n.flows = e.flows
        /\ n.viewing = IF e.link THEN e.viewing \ {s} ELSE e.viewing
    BY <1>1, <2>1, SendUnwatchFacts
  <2>3. watched' = [n EXCEPT !.cancelled = n.cancelled \ {s}, !.flows[f].at = "cancel"]
    BY <1>3 DEF e
  <2> HIDE DEF n
  <2>4. watched' = [n EXCEPT !.cancelled = can, !.flows = fl]
    BY <2>2, <2>3 DEF Typed, Fields
  <2>5. n.flows \in [StoreFlow -> L!FlowRec] /\ n.flows[f] \in L!FlowRec
    BY <2>2 DEF Typed
  <2>6. /\ x \in L!FlowRec /\ x.at = "cancel" /\ x.s = n.flows[f].s /\ x.own = n.flows[f].own
        /\ x.rec = n.flows[f].rec /\ x.todo = n.flows[f].todo /\ x.restores = n.flows[f].restores
    BY <2>5 DEF L!FlowRec, L!Commands
  <2> HIDE DEF x
  <2>7. /\ fl \in [StoreFlow -> L!FlowRec] /\ fl[f] = x
        /\ \A g \in StoreFlow \ {f} : fl[g] = n.flows[g]
    BY <2>5, <2>6
  <2> HIDE DEF fl
  <2>8. can = watched.cancelled \ {s} /\ can \subseteq LiveStream
    BY <1>1, <2>1, <2>2 DEF SameWish, Typed
  <2> HIDE DEF can
  <2>9. x.s = s /\ ~x.own
    BY <2>1, <2>2, <2>6 DEF Disowns, Fades, s
  <2>10. Typed(watched')
    BY <1>1, <2>2, <2>7, <2>9, <2>4, <2>8 DEF Typed, Fields
  <2>11. /\ SameGate(n, watched') /\ watched'.cancelled = can /\ watched'.wanted = n.wanted
         /\ watched'.lapsed = n.lapsed /\ watched'.viewing = n.viewing /\ watched'.recovery = n.recovery
         /\ watched'.entry = n.entry /\ watched'.run = n.run /\ watched'.flows = fl
    BY <2>2, <2>4 DEF Typed, Fields, SameGate
  <2>12. \A g \in StoreFlow \ {f} : /\ Fades(watched.flows[g], watched'.flows[g])
                                    /\ watched'.flows[g].own <=> watched.flows[g].own /\ watched.flows[g].s # s
    BY <2>1, <2>2, <2>7, <2>11 DEF Disowns, Fades
  <2>13. x.rec = watched.flows[f].rec /\ x.todo = watched.flows[f].todo /\ x.restores = watched.flows[f].restores
    BY <2>1, <2>2, <2>6 DEF Disowns, Fades
  <2>14. watched'.viewing = watched.viewing \ {s}
    BY <1>1, <2>1, <2>2, <2>11 DEF SameGate
  <2>15. Withdrawn(watched, f, watched')
    BY <2>1, <2>2, <2>8, <2>11, <2>6, <2>7, <2>9, <2>13, <2>10, <2>12, <2>14 DEF SameGate, SameWish,
       Withdrawn, s
  <2>16. watched'.lapsed = watched.lapsed
    BY <2>1, <2>2, <2>11 DEF SameWish
  <2> QED BY <1>1, <1>3, <2>10, <2>15, <2>16, WithdrawnGood, ZenonT(30) DEF WatchInv, s
<1>4. /\ Typed(v) /\ v.flows = watched.flows /\ (again => v.lapsed)
      /\ ~v.lapsed => /\ ~watched.lapsed /\ watched.flows[f].own
                      /\ SameGate(watched, v) /\ v.cancelled = watched.cancelled
                      /\ v.wanted = watched.wanted /\ v.viewing = watched.viewing /\ v.entry = watched.entry
                      /\ v.run = watched.run /\ v.recovery = watched.recovery
  <2>1. CASE again
    <3>1. v = [watched EXCEPT !.lapsed = TRUE] /\ Typed(watched) /\ TRUE \in BOOLEAN
      BY <1>1, <2>1 DEF v, L!Lapse
    <3>2. Typed(v) /\ v.lapsed = TRUE /\ v.flows = watched.flows
      BY ONLY <3>1, LapseFacts
    <3> QED BY <2>1, <3>2
  <2>2. CASE ~again
    BY <1>1, <2>2, CrossFacts DEF v
  <2> QED BY <1>1, <2>1, <2>2
<1>5. r \in L!Runtime
  BY EntryWords DEF r
<1>6. /\ Typed(run) /\ SameGate(v, run) /\ SameWish(v, run) /\ run.entry = v.entry
      /\ run.recovery = v.recovery /\ run.viewing = v.viewing /\ run.run = [v.run EXCEPT ![s] = r]
      /\ \A g \in StoreFlow : /\ Fades(v.flows[g], run.flows[g])
                              /\ run.flows[g].own <=> g = f \/ (v.flows[g].own /\ v.flows[g].s # s)
  <2>1. /\ Typed(v) /\ f \in StoreFlow /\ s \in LiveStream /\ v.flows[f].s = s /\ r \in L!Runtime
        /\ watched.sfu \in BOOLEAN
    BY <1>1, <1>4, <1>5
  <2>2. run = SetUp(v, f, s, r, watched.sfu)
    BY DEF run, SetUp
  <2> HIDE DEF s
  <2> QED BY ONLY <2>1, <2>2, SetUpFacts
<1>7. CASE s \notin watched.cancelled /\ watched.sfu /\ ~again /\ watched' = [run EXCEPT !.flows[f].at = "consume"]
  <2> DEFINE x == [run.flows[f] EXCEPT !.at = "consume"]
             fl == [run.flows EXCEPT ![f] = x]
  <2>1. watched' = [run EXCEPT !.flows = fl]
    BY <1>6, <1>7 DEF Typed, Fields
  <2>2. run.flows \in [StoreFlow -> L!FlowRec] /\ run.flows[f] \in L!FlowRec
    BY <1>6 DEF Typed
  <2>3. /\ x \in L!FlowRec /\ x.at = "consume" /\ x.s = run.flows[f].s /\ x.own = run.flows[f].own
        /\ x.rec = run.flows[f].rec /\ x.todo = run.flows[f].todo /\ x.restores = run.flows[f].restores
    BY <2>2 DEF L!FlowRec, L!Setups
  <2> HIDE DEF x
  <2>4. /\ fl \in [StoreFlow -> L!FlowRec] /\ fl[f] = x
        /\ \A g \in StoreFlow \ {f} : fl[g] = run.flows[g]
    BY <2>2, <2>3
  <2> HIDE DEF fl
  <2>5. x.s = s /\ x.own
    BY <1>4, <1>6, <2>3 DEF Fades
  <2>6. Typed(watched')
    BY <1>1, <1>6, <2>4, <2>5, <2>1 DEF Typed, Fields
  <2>7. /\ SameGate(run, watched') /\ SameWish(run, watched') /\ watched'.viewing = run.viewing
        /\ watched'.recovery = run.recovery /\ watched'.entry = run.entry /\ watched'.run = run.run
        /\ watched'.flows = fl
    BY <1>6, <2>1 DEF Typed, Fields, SameGate, SameWish
  <2>8. ASSUME ~watched'.lapsed PROVE Good(watched', {})
    <3>1. ~v.lapsed
      BY <1>6, <2>7, <2>8 DEF SameWish
    <3>2. Good(watched, {}) /\ Own(watched, f, {"admitted"})
      BY <1>1, <1>4, <3>1 DEF WatchInv, Own
    <3>3. /\ SameGate(watched, watched') /\ watched'.cancelled = watched.cancelled
          /\ watched'.wanted = watched.wanted /\ watched'.viewing = watched.viewing
          /\ watched'.recovery = watched.recovery /\ watched'.entry = watched.entry
      BY <1>4, <1>6, <2>7, <3>1 DEF SameGate, SameWish
    <3>4. watched'.run = [watched.run EXCEPT ![s] = "idle"]
      BY <1>4, <1>6, <1>7, <2>7, <3>1 DEF r
    <3>5. \A g \in StoreFlow \ {f} : /\ Fades(watched.flows[g], watched'.flows[g])
                                     /\ watched'.flows[g].own <=> watched.flows[g].own /\ watched.flows[g].s # s
      BY <1>4, <1>6, <2>4, <2>7
    <3>6. /\ watched'.flows[f].at = "consume" /\ watched'.flows[f].own /\ watched'.flows[f].s = s
          /\ watched'.flows[f].rec = watched.flows[f].rec /\ watched'.flows[f].todo = watched.flows[f].todo
          /\ watched'.flows[f].restores = watched.flows[f].restores
      BY <1>4, <1>6, <2>3, <2>4, <2>5, <2>7 DEF Fades
    <3> HIDE DEF s
    <3>7. Idles(watched, f, watched')
      BY <2>6, <3>3, <3>4, <3>5, <3>6 DEF Idles, s
    <3> QED BY <1>1, <1>7, <3>2, <3>7, IdlesGood DEF s
  <2> QED BY <2>6, <2>8 DEF WatchInv
<1>8. CASE s \notin watched.cancelled /\ (~watched.sfu \/ again) /\ watched' \in L!Watching(run, f)
  <2>1. run.flows[f].at \in Gets
    BY <1>1, <1>4, <1>6 DEF Fades, Gets
  <2>2. ASSUME ~run.lapsed
        PROVE  /\ Good(watched, {}) /\ Own(watched, f, {"admitted", "consume"})
               /\ Feeds(watched, f, run)
    <3>1. ~v.lapsed
      BY <1>6, <2>2 DEF SameWish
    <3>2. Good(watched, {}) /\ Own(watched, f, {"admitted", "consume"})
      BY <1>1, <1>4, <3>1 DEF WatchInv, Own
    <3>3. /\ SameGate(watched, run) /\ run.cancelled = watched.cancelled
          /\ run.wanted = watched.wanted /\ run.viewing = watched.viewing
          /\ run.recovery = watched.recovery /\ run.entry = watched.entry
      BY <1>4, <1>6, <3>1 DEF SameGate, SameWish
    <3>4. run.run = [watched.run EXCEPT ![s] = "served"]
      BY <1>4, <1>6, <1>8, <3>1 DEF r
    <3>5. \A g \in StoreFlow : /\ Fades(watched.flows[g], run.flows[g])
                               /\ watched.flows[g].s # s => (run.flows[g].own <=> watched.flows[g].own)
      BY <1>4, <1>6
    <3> HIDE DEF s
    <3> QED BY <3>2, <3>3, <3>4, <3>5 DEF Feeds, s
  <2> QED BY <1>1, <1>6, <1>8, <2>1, <2>2, WatchingGood
<1> QED BY <1>2, <1>3, <1>7, <1>8

-----------------------------------------------------------------------------
(* What the gateway tells of its streams.                                  *)

\* The runtime of a stream that is not watched any more.
Over(v, s) ==
  v.run[s] # "none" /\ v.entry[s] # "starting" /\ s \notin v.airs \cap v.viewing
News(v, s) == IF s \notin v.airs THEN "none" ELSE IF s \in v.viewing THEN "mine" ELSE "on"
Reconciled(v, u) ==
  /\ Typed(u) /\ u.cancelled = v.cancelled /\ u.recovery = v.recovery /\ u.link = v.link
  /\ u.sfu = v.sfu /\ u.airs = v.airs /\ u.over = v.over /\ u.viewing = v.viewing
  /\ u.wanted = v.wanted /\ u.lapsed = v.lapsed
  /\ \A s \in LiveStream :
       /\ u.room[s] = News(v, s)
       /\ u.run[s] = IF Over(v, s) THEN "none" ELSE v.run[s]
       /\ Over(v, s) => u.entry[s] \in {"none", "ended"}
       /\ ~Over(v, s) => u.entry[s] = IF v.run[s] # "none" /\ v.entry[s] # "none" /\ News(v, s) = "mine"
                                      THEN "watching" ELSE v.entry[s]
  /\ \A f \in StoreFlow : /\ Fades(v.flows[f], u.flows[f])
                          /\ u.flows[f].own <=>
                               v.flows[f].own /\ ~(v.flows[f].s # NoLive /\ Over(v, v.flows[f].s))

LEMMA ReconcileFacts ==
  ASSUME NEW v, Typed(v), NEW u, u = L!Reconcile(v) PROVE Reconciled(v, u)
<1> DEFINE news == [s \in LiveStream |-> CASE s \notin v.airs -> "none"
                                           [] s \in v.airs \ v.viewing -> "on"
                                           [] s \in v.airs \cap v.viewing -> "mine"]
           over(s) == v.run[s] # "none" /\ v.entry[s] # "starting" /\ news[s] # "mine"
           status(s) == CASE over(s) /\ v.entry[s] = "none" -> "none"
                          [] over(s) /\ v.entry[s] # "none" -> IF news[s] = "none" THEN "ended" ELSE "none"
                          [] ~over(s) -> IF v.run[s] # "none" /\ v.entry[s] # "none" /\ news[s] = "mine"
                                         THEN "watching" ELSE v.entry[s]
           rs == [s \in LiveStream |-> IF over(s) THEN "none" ELSE v.run[s]]
           en == [s \in LiveStream |-> status(s)]
           fl == [f \in StoreFlow |-> IF v.flows[f].s # NoLive /\ over(v.flows[f].s)
                                      THEN [v.flows[f] EXCEPT !.own = FALSE] ELSE v.flows[f]]
<1>1. u = [v EXCEPT !.room = news, !.run = rs, !.entry = en, !.flows = fl]
  BY DEF L!Reconcile
<1>2. /\ v.flows \in [StoreFlow -> L!FlowRec] /\ v.run \in [LiveStream -> L!Runtime]
      /\ v.entry \in [LiveStream -> L!Entry]
  BY DEF Typed
<1>3. ASSUME NEW s \in LiveStream
      PROVE  news[s] = News(v, s) /\ (over(s) <=> Over(v, s)) /\ news[s] \in Room
  <2>1. news[s] = News(v, s)
    BY DEF News
  <2> HIDE DEF news
  <2> QED BY <2>1 DEF Over, News, Room
<1>4. news \in [LiveStream -> Room]
  BY <1>3
<1> HIDE DEF news
<1>5. ASSUME NEW s \in LiveStream
      PROVE  /\ status(s) \in L!Entry
             /\ over(s) => status(s) \in {"none", "ended"}
             /\ ~over(s) => status(s) = IF v.run[s] # "none" /\ v.entry[s] # "none" /\ news[s] = "mine"
                                        THEN "watching" ELSE v.entry[s]
  BY <1>2, EntryWords
<1>6. ASSUME NEW f \in StoreFlow
      PROVE  fl[f] \in L!FlowRec /\ Fades(v.flows[f], fl[f])
             /\ (fl[f].own <=> v.flows[f].own /\ ~(v.flows[f].s # NoLive /\ over(v.flows[f].s)))
  <2> HIDE DEF over
  <2>1. v.flows[f] \in L!FlowRec
    BY <1>2
  <2> QED BY <2>1 DEF L!FlowRec, Fades
<1>7. \A s \in LiveStream : en[s] = status(s) /\ rs[s] = IF over(s) THEN "none" ELSE v.run[s]
  OBVIOUS
<1> HIDE DEF over, status
<1>8. rs \in [LiveStream -> L!Runtime] /\ en \in [LiveStream -> L!Entry] /\ fl \in [StoreFlow -> L!FlowRec]
  BY <1>2, <1>5, <1>6, EntryWords
<1> HIDE DEF rs, en, fl
<1>9. Typed(u)
  BY <1>6, <1>1, <1>4, <1>8 DEF Typed, Fades, Fields
<1>10. /\ u.cancelled = v.cancelled /\ u.recovery = v.recovery /\ u.link = v.link
       /\ u.sfu = v.sfu /\ u.airs = v.airs /\ u.over = v.over /\ u.viewing = v.viewing
       /\ u.wanted = v.wanted /\ u.lapsed = v.lapsed
       /\ u.room = news /\ u.run = rs /\ u.entry = en /\ u.flows = fl
  BY <1>1 DEF Typed, Fields
<1>11. ASSUME NEW f \in StoreFlow
       PROVE  v.flows[f].s # NoLive /\ over(v.flows[f].s) <=> v.flows[f].s # NoLive /\ Over(v, v.flows[f].s)
  BY <1>2, <1>3, FlowTypes
<1>12. \A s \in LiveStream :
         /\ u.room[s] = News(v, s)
         /\ u.run[s] = IF Over(v, s) THEN "none" ELSE v.run[s]
         /\ Over(v, s) => u.entry[s] \in {"none", "ended"}
         /\ ~Over(v, s) => u.entry[s] = IF v.run[s] # "none" /\ v.entry[s] # "none" /\ News(v, s) = "mine"
                                        THEN "watching" ELSE v.entry[s]
  BY <1>3, <1>5, <1>7, <1>10
<1>13. \A f \in StoreFlow : /\ Fades(v.flows[f], u.flows[f])
                            /\ u.flows[f].own <=>
                                 v.flows[f].own /\ ~(v.flows[f].s # NoLive /\ Over(v, v.flows[f].s))
  BY <1>6, <1>10, <1>11
<1> QED BY <1>9, <1>10, <1>12, <1>13, ZenonT(30) DEF Reconciled

\* What holds of a store that has yet to learn of a change at the gateway.
Unaware(v, s) ==
  /\ v.run[s] # "none" => v.entry[s] \notin {"none", "ended"}
  /\ v.entry[s] = "starting" => On(v, s, Gets) /\ (v.run[s] # "none" => s \in v.viewing)
  /\ v.entry[s] = "watching" => v.run[s] # "none"
  /\ v.run[s] = "idle" => On(v, s, {"consume"}) \/ v.recovery[s].attempt # "none"
  /\ v.entry[s] = "reconnecting" /\ v.run[s] = "none" => \E f \in StoreFlow : s \in v.flows[f].todo
  /\ v.entry[s] = "reconnecting" /\ v.run[s] # "none" => v.recovery[s].attempt # "none"
  /\ v.recovery[s].attempt # "none" => s \in v.wanted
  /\ v.entry[s] \notin {"none", "ended"} =>
       \/ s \in v.wanted
       \/ \E f \in StoreFlow : v.flows[f].own /\ v.flows[f].s = s /\ L!Replaces(v.flows[f])
Attends(v, w) ==
  /\ w.todo \subseteq v.wanted
  /\ w.own /\ w.rec = NoLive => w.s \in v.wanted
  /\ w.s # NoLive => w.s \in v.airs \cup v.over
  /\ L!Replaces(w) => v.run[w.rec] = "none" /\ w.rec \in v.over
Behind(v) ==
  /\ Fits(v) /\ Reports(v) /\ Cancels(v) /\ v.link
  /\ \A s \in LiveStream : Unaware(v, s)
  /\ \A f \in StoreFlow : Finds(v, f) /\ Attends(v, v.flows[f])
  /\ \A s \in v.viewing : s \in v.airs /\ Keeps(v, s)
  /\ \A f \in StoreFlow : Own(v, f, {"admitted", "consume"}) => v.flows[f].s \in v.viewing
  /\ v.airs \cap v.over = {} /\ v.wanted \subseteq v.airs \cup v.over

LEMMA GoodBehind == ASSUME NEW v, Good(v, {}), v.link PROVE Behind(v)
BY DEF Good, Nearly, Shows, Shown, Counts, Wants, Wanted, Unaware, Serves, Gone, Attends, Behind

LEMMA ReconciledGood ==
  ASSUME NEW v, Typed(v), Behind(v), NEW u, Reconciled(v, u) PROVE Good(u, {})
<1>1. /\ Typed(u) /\ u.cancelled = v.cancelled /\ u.recovery = v.recovery /\ u.link
      /\ u.airs = v.airs /\ u.over = v.over /\ u.viewing = v.viewing /\ u.wanted = v.wanted
  BY DEF Reconciled, Behind
<1>2. ASSUME NEW s \in LiveStream
      PROVE  /\ u.room[s] = News(v, s)
             /\ u.run[s] = IF Over(v, s) THEN "none" ELSE v.run[s]
             /\ Over(v, s) => u.entry[s] \in {"none", "ended"}
             /\ ~Over(v, s) => u.entry[s] = IF v.run[s] # "none" /\ v.entry[s] # "none" /\ News(v, s) = "mine"
                                            THEN "watching" ELSE v.entry[s]
             /\ Unaware(v, s)
  BY DEF Reconciled, Behind
<1>3. ASSUME NEW f \in StoreFlow
      PROVE  /\ Fades(v.flows[f], u.flows[f]) /\ Finds(v, f) /\ Attends(v, v.flows[f])
             /\ u.flows[f].own => v.flows[f].own
             /\ u.flows[f].own => v.flows[f].s \in LiveStream /\ ~Over(v, v.flows[f].s)
             /\ v.flows[f].own /\ ~Over(v, v.flows[f].s) => u.flows[f].own
  BY ClientAssumption DEF Behind, Fits, FlowFits, Gets, Mends, Reconciled, WatchAssumption
<1>4. Fits(u)
  BY <1>3 DEF Behind, Fits, FlowFits, Fades
<1>5. Reports(u)
  BY <1>1, <1>3 DEF Behind, Reports, Fades
<1>6. ASSUME NEW s \in LiveStream, ~Over(v, s), NEW at, On(v, s, at) PROVE On(u, s, at)
  BY <1>3, <1>6 DEF On, Own, Fades
<1>7. \A s \in LiveStream : Over(v, s) => v.run[s] # "none" /\ v.entry[s] # "starting" /\ News(v, s) # "mine"
  BY DEF Over, News
<1>8. \A s \in LiveStream : v.run[s] # "none" /\ v.entry[s] # "starting" /\ ~Over(v, s) => News(v, s) = "mine"
  BY DEF Over, News
<1>9. \A s \in LiveStream : News(v, s) = "mine" <=> s \in v.airs /\ s \in v.viewing
  BY DEF News
<1>10. \A s \in LiveStream : News(v, s) # "none" <=> s \in v.airs
  BY DEF News
<1>11. Shows(u, {})
  <2>1. ASSUME NEW s \in LiveStream PROVE Shown(u, s, {})
    BY <1>2, <1>3, <1>6, <1>1, <1>8, <1>9 DEF Shown, Fades, Unaware
  <2>2. ASSUME NEW f \in StoreFlow PROVE Finds(u, f)
    <3> SUFFICES ASSUME u.flows[f].own PROVE Finds(u, f)
      BY DEF Finds, Own
    <3>1. /\ v.flows[f].own /\ v.flows[f].s \in LiveStream /\ ~Over(v, v.flows[f].s)
          /\ u.flows[f].s = v.flows[f].s /\ u.flows[f].at = v.flows[f].at /\ Finds(v, f)
      BY <1>3 DEF Fades
    <3>2. u.run[v.flows[f].s] = v.run[v.flows[f].s]
      BY <1>2, <3>1
    <3>3. v.run[v.flows[f].s] = "none" => u.entry[v.flows[f].s] = v.entry[v.flows[f].s]
      BY <1>2, <3>1
    <3> QED BY <1>1, <3>1, <3>2, <3>3 DEF Finds, Own
  <2> QED BY <2>1, <2>2 DEF Shows
<1>12. Counts(u, {})
  <2>1. \A s \in v.viewing : s \in LiveStream /\ s \in v.airs /\ Keeps(v, s)
    BY DEF Behind, Typed
  <2>2. ASSUME NEW s \in v.viewing PROVE u.room[s] = "mine" /\ Keeps(u, s)
    BY <1>7, <1>9, <2>1, <1>2, <1>1, <1>3 DEF Keeps, Fades
  <2>3. ASSUME NEW s \in LiveStream, u.run[s] # "none" PROVE s \in v.viewing
    BY <1>2, <2>3, <1>8, <1>9 DEF Unaware
  <2>4. ASSUME NEW f \in StoreFlow, Own(u, f, {"admitted", "consume"}) PROVE u.flows[f].s \in v.viewing
    BY <1>3, <2>4 DEF Own, Fades, Behind
  <2> QED BY <1>1, <2>1, <2>2, <2>3, <2>4 DEF Counts, Behind
<1>13. Cancels(u)
  BY <1>2, <1>7, <1>1, <1>3 DEF Behind, Cancels, Typed, Fades
<1>14. Wants(u, {}, {})
  <2>1. ASSUME NEW f \in StoreFlow PROVE L!Replaces(u.flows[f]) <=> L!Replaces(v.flows[f])
    BY <1>3 DEF Fades, L!Replaces
  <2>2. ASSUME NEW s \in LiveStream PROVE Wanted(u, s, {})
    BY <1>1, <1>2, <1>10, <1>3, <2>1 DEF Unaware, Fades, Wanted
  <2>3. ASSUME NEW f \in StoreFlow PROVE Serves(u, u.flows[f])
    BY <1>3, FlowTypes, <1>1, <1>2, <1>10, <2>1 DEF L!Replaces, Typed, Attends, Behind, Gone,
       Serves, Fades
  <2>4. \A s \in u.airs : u.room[s] # "none"
    BY <1>1, <1>2, <1>10 DEF Typed
  <2> QED BY <1>1, <2>2, <2>3, <2>4 DEF Wants, Behind
<1> QED BY <1>4, <1>5, <1>11, <1>12, <1>13, <1>14 DEF Good, Nearly

LEMMA ReconcileGood ==
  ASSUME NEW v, Typed(v), ~v.lapsed => Behind(v), NEW u, u = L!Reconcile(v)
  PROVE  WatchInv(u)
<1>1. Reconciled(v, u)
  BY ReconcileFacts
<1> QED BY <1>1, ReconciledGood DEF WatchInv, Reconciled

\* The answer of the gateway is on its way.
Admits(v, f, u) ==
  /\ Typed(u) /\ SameGate(v, u) /\ SameWish(v, u) /\ u.entry = v.entry /\ u.run = v.run
  /\ u.recovery = v.recovery /\ u.viewing = v.viewing \cup {v.flows[f].s}
  /\ u.flows[f].at = "admitted"
  /\ \A g \in StoreFlow :
       /\ u.flows[g].s = v.flows[g].s /\ u.flows[g].rec = v.flows[g].rec
       /\ u.flows[g].todo = v.flows[g].todo /\ u.flows[g].restores = v.flows[g].restores
       /\ u.flows[g].own = v.flows[g].own
       /\ g # f => u.flows[g].at = v.flows[g].at

LEMMA AdmitsFacts ==
  ASSUME NEW v, Typed(v), NEW f \in StoreFlow, v.flows[f].s \in LiveStream, NEW b \in BOOLEAN,
         NEW u, u = [v EXCEPT !.flows[f].at = "admitted", !.flows[f].again = b,
                              !.viewing = @ \cup {v.flows[f].s}]
  PROVE  Admits(v, f, u)
<1> DEFINE x == [v.flows[f] EXCEPT !.at = "admitted", !.again = b]
           fl == [v.flows EXCEPT ![f] = x]
           vw == v.viewing \cup {v.flows[f].s}
<1>1. v.flows \in [StoreFlow -> L!FlowRec] /\ v.flows[f] \in L!FlowRec
  BY DEF Typed
<1>2. u = [v EXCEPT !.flows = fl, !.viewing = vw]
  <2>1. fl = [v.flows EXCEPT ![f].at = "admitted", ![f].again = b]
    BY <1>1
  <2>2. u = [v EXCEPT !.flows = [v.flows EXCEPT ![f].at = "admitted", ![f].again = b], !.viewing = vw]
    BY DEF Typed, Fields
  <2> QED BY <2>1, <2>2
<1>3. /\ x \in L!FlowRec /\ x.at = "admitted" /\ x.s = v.flows[f].s /\ x.own = v.flows[f].own
      /\ x.rec = v.flows[f].rec /\ x.todo = v.flows[f].todo /\ x.restores = v.flows[f].restores
  BY <1>1 DEF L!FlowRec, L!Commands
<1> HIDE DEF x
<1>4. fl \in [StoreFlow -> L!FlowRec] /\ fl[f] = x /\ \A g \in StoreFlow \ {f} : fl[g] = v.flows[g]
  BY <1>1, <1>3
<1>5. vw \subseteq LiveStream
  BY DEF Typed
<1> HIDE DEF fl, vw
<1>6. Typed(u)
  <2>1. \A g \in StoreFlow : fl[g].at # "none" => fl[g].s \in LiveStream
    BY <1>3, <1>4 DEF Typed
  <2> QED BY ONLY <1>2, <1>4, <1>5, <2>1, Typed(v) DEF Typed, Fields
<1>7. /\ SameGate(v, u) /\ SameWish(v, u) /\ u.entry = v.entry /\ u.run = v.run
      /\ u.recovery = v.recovery /\ u.viewing = vw /\ u.flows = fl
  BY ONLY <1>2, Typed(v) DEF Typed, Fields, SameGate, SameWish
<1>8. u.viewing = v.viewing \cup {v.flows[f].s}
  BY <1>7 DEF vw
<1>9. \A g \in StoreFlow :
        /\ u.flows[g].s = v.flows[g].s /\ u.flows[g].rec = v.flows[g].rec
        /\ u.flows[g].todo = v.flows[g].todo /\ u.flows[g].restores = v.flows[g].restores
        /\ u.flows[g].own = v.flows[g].own
        /\ g # f => u.flows[g].at = v.flows[g].at
  BY <1>3, <1>4, <1>7
<1>10. u.flows[f].at = "admitted"
  BY <1>3, <1>4, <1>7
<1> QED BY <1>6, <1>7, <1>8, <1>9, <1>10 DEF Admits

LEMMA AdmitsKeeps ==
  ASSUME NEW v, Typed(v), Good(v, {}), NEW f \in StoreFlow, v.flows[f].at = "watch", v.link,
         v.flows[f].s \in v.airs, NEW u, Admits(v, f, u)
  PROVE  /\ Behind(u)
         /\ v.flows[f].s \in v.viewing => Good(u, {})
<1> DEFINE s == v.flows[f].s
<1>1. /\ SameGate(v, u) /\ SameWish(v, u) /\ u.entry = v.entry /\ u.run = v.run
      /\ u.recovery = v.recovery /\ u.viewing = v.viewing \cup {s} /\ u.flows[f].at = "admitted"
  BY DEF Admits
<1>2. \A g \in StoreFlow :
        /\ u.flows[g].s = v.flows[g].s /\ u.flows[g].rec = v.flows[g].rec
        /\ u.flows[g].todo = v.flows[g].todo /\ u.flows[g].restores = v.flows[g].restores
        /\ u.flows[g].own = v.flows[g].own
        /\ u.flows[g].at \in Mends <=> v.flows[g].at \in Mends
        /\ g # f => u.flows[g].at = v.flows[g].at
        /\ L!Replaces(u.flows[g]) <=> L!Replaces(v.flows[g])
  BY DEF Admits, Mends, L!Replaces
<1>3. v.flows[f].s = s /\ v.flows[f].at = "watch" /\ s \in v.airs
  OBVIOUS
<1> HIDE DEF s
<1>4. Fits(u)
  BY <1>1, <1>2, <1>3 DEF Good, Nearly, Fits, FlowFits, Gets, Mends
<1>5. Reports(u)
  BY <1>1, <1>2 DEF Good, Nearly, Reports
<1>6. Cancels(u)
  BY <1>1, <1>2, <1>3 DEF Good, Nearly, Cancels, SameWish
<1>7. Shows(u, {})
  <2>1. Shows(v, {})
    BY DEF Good, Nearly
  <2>2. ASSUME NEW t, NEW at, On(v, t, at), at \in {Gets, {"consume"}} PROVE On(u, t, at)
    <3>1. PICK g \in StoreFlow : Own(v, g, at) /\ v.flows[g].s = t
      BY <2>2 DEF On
    <3>2. Own(u, g, at) /\ u.flows[g].s = t
      BY <1>1, <1>2, <1>3, <2>2, <3>1 DEF Own, Gets
    <3> QED BY <3>2 DEF On
  <2>3. ASSUME NEW t \in LiveStream PROVE Shown(u, t, {})
    BY <2>2, <1>2, <2>1, <1>1 DEF Shows, Shown, SameGate
  <2>4. ASSUME NEW g \in StoreFlow PROVE Finds(u, g)
    BY <2>1, <1>1, <1>2, <1>3 DEF Shows, Finds, Own, Mends, SameGate
  <2> QED BY <2>3, <2>4 DEF Shows
<1>8. \A t \in v.viewing : t \in LiveStream /\ t \in v.airs /\ v.room[t] = "mine" /\ Keeps(u, t)
  BY <1>1, <1>2, <1>3 DEF Good, Nearly, Typed, Counts, Keeps
<1>9. Keeps(u, s)
  BY <1>1, <1>2, <1>3 DEF Keeps
<1>10. \A g \in StoreFlow : Own(u, g, {"admitted", "consume"}) => u.flows[g].s \in u.viewing
  BY <1>1, <1>2, <1>3 DEF Good, Nearly, Counts, Own
<1>11. \A t \in LiveStream : v.run[t] # "none" => t \in v.viewing
  BY DEF Good, Nearly, Counts
<1>12. v.airs \cap v.over = {}
  BY DEF Good, Nearly, Counts
<1>13. Wants(u, {}, {})
  BY <1>1, <1>2 DEF Good, Nearly, Wants, Wanted, SameGate, SameWish, Serves, Gone
<1>14. ASSUME s \in v.viewing PROVE Good(u, {})
  BY <1>1, <1>8, <1>10, <1>11, <1>12, <1>14, <1>4, <1>5, <1>6, <1>7, <1>13 DEF Counts, SameGate,
     Good, Nearly
<1>15. Behind(u)
  BY <1>1, <1>7, <1>11, <1>13, <1>3, <1>8, <1>9, <1>4, <1>5, <1>6, <1>10, <1>12 DEF Shows, Shown,
     Wants, Wanted, Unaware, SameGate, Serves, Gone, Attends, Behind
<1> QED BY <1>14, <1>15 DEF s

LEMMA AdmitStep ==
  ASSUME WatchInv(watched), NEW f \in StoreFlow, L!Admit(f) PROVE WatchInv(watched')
<1> DEFINE s == watched.flows[f].s
           u == [watched EXCEPT !.flows[f].at = "admitted", !.flows[f].again = s \in watched.viewing,
                                !.viewing = @ \cup {s}]
<1>1. /\ Typed(watched) /\ watched.flows[f].at = "watch" /\ s \in LiveStream /\ watched.link
      /\ s \in watched.airs
  BY DEF L!Admit, L!Calm, L!Broken, L!Commands, L!At, L!S, WatchInv, Typed
<1>2. watched' = IF s \in watched.viewing THEN u ELSE L!Reconcile(u)
  BY DEF L!Admit, L!S
<1>3. Admits(watched, f, u)
  <2> DEFINE b == s \in watched.viewing
  <2>1. /\ Typed(watched) /\ f \in StoreFlow /\ watched.flows[f].s \in LiveStream /\ b \in BOOLEAN
        /\ u = [watched EXCEPT !.flows[f].at = "admitted", !.flows[f].again = b,
                               !.viewing = @ \cup {watched.flows[f].s}]
    BY <1>1
  <2> HIDE DEF u, b
  <2> QED BY ONLY <2>1, AdmitsFacts
<1> HIDE DEF u
<1>4. Typed(u) /\ u.lapsed = watched.lapsed
  BY <1>3 DEF Admits, SameWish
<1>5. ~u.lapsed => Behind(u) /\ (s \in watched.viewing => Good(u, {}))
  BY <1>1, <1>3, <1>4, AdmitsKeeps DEF WatchInv
<1>6. CASE s \in watched.viewing
  BY <1>2, <1>4, <1>5, <1>6 DEF WatchInv
<1>7. CASE s \notin watched.viewing
  BY <1>2, <1>7, <1>4, <1>5, ReconcileGood
<1> QED BY <1>6, <1>7

LEMMA BroadcastStep == ASSUME WatchInv(watched), L!Broadcast PROVE WatchInv(watched')
<1>1. Typed(watched) /\ watched.link
  BY DEF L!Broadcast, WatchInv
<1>2. PICK s \in LiveStream \ watched.over :
        IF s \in watched.airs
        THEN watched' = L!Reconcile([watched EXCEPT !.airs = @ \ {s}, !.over = @ \cup {s}, !.viewing = @ \ {s},
               !.lapsed = @ \/ \E f \in StoreFlow : watched.flows[f].s = s /\ watched.flows[f].at \in {"admitted", "consume"}])
        ELSE watched' = L!Reconcile([watched EXCEPT !.airs = @ \cup {s}])
  BY DEF L!Broadcast, L!S, L!At
<1>3. CASE s \notin watched.airs
  <2> DEFINE on == watched.airs \cup {s}
             u == [watched EXCEPT !.airs = on]
  <2>1. watched' = L!Reconcile(u)
    BY <1>2, <1>3
  <2>2. on \subseteq LiveStream
    BY <1>1 DEF Typed
  <2> HIDE DEF on
  <2>3. /\ Typed(u) /\ u.airs = on /\ u.entry = watched.entry /\ u.run = watched.run
        /\ u.cancelled = watched.cancelled /\ u.flows = watched.flows /\ u.recovery = watched.recovery
        /\ u.link = watched.link /\ u.over = watched.over /\ u.viewing = watched.viewing
        /\ u.wanted = watched.wanted /\ u.lapsed = watched.lapsed
    BY <1>1, <2>2 DEF Typed, Fields
  <2> HIDE DEF u
  <2>4. ASSUME ~u.lapsed PROVE Behind(u)
    BY <1>1, <2>3, <2>4, GoodBehind DEF WatchInv, Behind, Fits, Reports, Cancels, Unaware, On, Own,
       Finds, Attends, on, Keeps
  <2> QED BY <2>1, <2>3, <2>4, ReconcileGood
<1>4. CASE s \in watched.airs
  <2> DEFINE on == watched.airs \ {s}
             ov == watched.over \cup {s}
             vw == watched.viewing \ {s}
             b == watched.lapsed \/ \E f \in StoreFlow :
                    watched.flows[f].s = s /\ watched.flows[f].at \in {"admitted", "consume"}
             u == [watched EXCEPT !.airs = on, !.over = ov, !.viewing = vw, !.lapsed = b]
  <2>1. watched' = L!Reconcile(u)
    BY <1>2, <1>4
  <2>2. on \subseteq LiveStream /\ ov \subseteq LiveStream /\ vw \subseteq LiveStream /\ b \in BOOLEAN
    BY <1>1 DEF Typed
  <2> HIDE DEF on, ov, vw, b
  <2>3. /\ Typed(u) /\ u.airs = on /\ u.over = ov /\ u.viewing = vw /\ u.lapsed = b
        /\ u.entry = watched.entry /\ u.run = watched.run
        /\ u.cancelled = watched.cancelled /\ u.flows = watched.flows /\ u.recovery = watched.recovery
        /\ u.link = watched.link /\ u.wanted = watched.wanted
    BY <1>1, <2>2 DEF Typed, Fields
  <2> HIDE DEF u
  <2>4. ASSUME ~u.lapsed PROVE Behind(u)
    <3>1. /\ ~watched.lapsed
          /\ \A f \in StoreFlow : watched.flows[f].s = s => watched.flows[f].at \notin {"admitted", "consume"}
      BY <2>3, <2>4 DEF b
    <3>2. Behind(watched)
      BY <1>1, <3>1, GoodBehind DEF WatchInv
    <3>3. Fits(u) /\ Reports(u) /\ Cancels(u) /\ u.link
      BY <2>3, <3>2 DEF Behind, Fits, Reports, Cancels
    <3>4. ASSUME NEW t \in LiveStream PROVE Unaware(u, t)
      <4>1. Unaware(watched, t)
        BY <3>2 DEF Behind
      <4>2. watched.entry[s] = "starting" => watched.run[s] = "none"
        <5>1. ASSUME watched.entry[s] = "starting" PROVE watched.run[s] = "none"
          <6>1. PICK f \in StoreFlow : Own(watched, f, Gets) /\ watched.flows[f].s = s
            BY <3>2, <5>1 DEF Behind, Unaware, On
          <6>2. Own(watched, f, {"watch", "admitted"})
            BY <3>1, <6>1 DEF Own, Gets
          <6> QED BY <3>2, <6>1, <6>2 DEF Behind, Finds
        <5> QED BY <5>1
      <4> QED BY <2>3, <4>1, <4>2 DEF Unaware, On, Own, vw
    <3>5. ASSUME NEW f \in StoreFlow PROVE Finds(u, f) /\ Attends(u, u.flows[f])
      BY <2>3, <3>2 DEF Behind, Finds, Attends, Own, on, ov
    <3>6. \A t \in u.viewing : t \in u.airs /\ Keeps(u, t)
      BY <2>3, <3>2 DEF Behind, Keeps, on, vw
    <3>7. \A f \in StoreFlow : Own(u, f, {"admitted", "consume"}) => u.flows[f].s \in u.viewing
      BY <2>3, <3>1, <3>2 DEF Behind, Own, vw
    <3>8. u.airs \cap u.over = {} /\ u.wanted \subseteq u.airs \cup u.over
      BY <2>3, <3>2 DEF Behind, on, ov
    <3> QED BY <3>3, <3>4, <3>5, <3>6, <3>7, <3>8 DEF Behind
  <2> QED BY <2>1, <2>3, <2>4, ReconcileGood
<1> QED BY <1>3, <1>4

\* Those spared need not be spared.
LEMMA NearlyMore ==
  ASSUME NEW v, NEW todo, Good(v, todo), NEW spared PROVE Nearly(v, todo, spared)
BY DEF Good, Nearly, Counts, Wants, Wanted

LEMMA UnwatchedStep ==
  ASSUME WatchInv(watched), NEW f \in StoreFlow, L!Unwatched(f) PROVE WatchInv(watched')
<1> DEFINE v == IF L!Broken(f) THEN watched ELSE L!Reconcile(watched)
<1>1. /\ Typed(watched) /\ watched.flows[f].at \in {"unwatch", "cancel"}
      /\ ~L!Broken(f) => watched.link
      /\ watched' \in IF watched.flows[f].at = "unwatch" THEN {L!Free(v, f)} ELSE L!Goes(v, f, TRUE)
  BY DEF L!Unwatched, L!Broken, L!Commands, L!At, WatchInv
<1>2. WatchInv(v) /\ v.flows[f].at = watched.flows[f].at
  <2>1. CASE L!Broken(f)
    BY <2>1
  <2>2. CASE ~L!Broken(f)
    <3>1. v = L!Reconcile(watched)
      BY <2>2
    <3> HIDE DEF v
    <3>2. ~watched.lapsed => Behind(watched)
      BY <1>1, <2>2, GoodBehind DEF WatchInv
    <3>3. Reconciled(watched, v)
      BY <1>1, <3>1, ReconcileFacts
    <3> QED BY <1>1, <3>1, <3>2, <3>3, ReconcileGood DEF Reconciled, Fades
  <2> QED BY <2>1, <2>2
<1> HIDE DEF v
<1>3. Typed(v) /\ v.flows[f].at \in {"unwatch", "cancel"} /\ v.flows[f].at # "none"
  BY <1>1, <1>2 DEF WatchInv
<1>4. ASSUME ~v.lapsed
      PROVE  /\ Good(v, {}) /\ FlowFits(v.flows[f]) /\ ~v.flows[f].own
             /\ v.flows[f].at = "cancel" => v.flows[f].rec # v.flows[f].s
  BY <1>2, <1>3, <1>4 DEF WatchInv, Good, Nearly, Fits, FlowFits, Gets, Mends, Cancels
<1>5. CASE v.flows[f].at = "unwatch"
  <2>1. watched' = L!Free(v, f)
    BY <1>1, <1>2, <1>5
  <2>2. /\ Typed(watched') /\ SameFlows(v, watched', f) /\ watched'.flows[f] = L!NoFlow /\ SameGate(v, watched')
        /\ SameWish(v, watched') /\ watched'.entry = v.entry /\ watched'.run = v.run
        /\ watched'.recovery = v.recovery /\ watched'.viewing = v.viewing
    BY <1>3, <2>1, FreeFacts
  <2>3. ASSUME ~watched'.lapsed PROVE Good(watched', {})
    <3>1. /\ Good(v, {}) /\ ~v.lapsed /\ ~v.flows[f].own
          /\ v.flows[f].rec = NoLive /\ v.flows[f].todo = {}
      BY <1>4, <1>5, <2>2, <2>3 DEF SameWish, FlowFits, Gets, Mends
    <3>2. Ended(v, f, FALSE, watched')
      BY <2>2, <2>3, <3>1, ClientAssumption DEF Ended, SameWish, WatchAssumption
    <3>3. Idle(v, f, FALSE) /\ Takes(v, f, FALSE) = {}
      BY <1>3, <1>5, <3>1 DEF Idle, Takes
    <3> QED BY <1>3, <2>3, <3>1, <3>2, <3>3, EndedGood DEF Good
  <2> QED BY <2>2, <2>3 DEF WatchInv
<1>6. CASE v.flows[f].at = "cancel"
  <2>1. watched' \in L!Goes(v, f, TRUE)
    BY <1>1, <1>2, <1>6
  <2>2. ASSUME ~v.lapsed PROVE Idle(v, f, TRUE) /\ Nearly(v, {}, Takes(v, f, TRUE))
    <3>1. Nearly(v, {}, Takes(v, f, TRUE))
      BY <1>4, <2>2, NearlyMore
    <3>2. v.flows[f].s \in v.viewing => Keeps(v, v.flows[f].s)
      BY <1>4, <2>2 DEF Good, Nearly, Counts
    <3> QED BY <1>4, <1>6, <2>2, <3>1, <3>2 DEF Idle
  <2> QED BY <1>3, <2>1, <2>2, GoesGood
<1> QED BY <1>3, <1>5, <1>6

-----------------------------------------------------------------------------
(* A watch that fails.                                                     *)

Asked(w) == ~w.restores /\ w.rec = NoLive
Removed(v, f, u) ==
  LET s == v.flows[f].s
  IN /\ Typed(u) /\ SameGate(v, u) /\ u.cancelled = v.cancelled \ {s} /\ u.viewing = v.viewing
     /\ u.entry = [v.entry EXCEPT ![s] = "none"] /\ u.run = v.run /\ u.recovery = v.recovery
     /\ Disowns(v, u, {s})
     /\ u.wanted = IF Asked(v.flows[f]) THEN v.wanted \ {s} ELSE v.wanted
     /\ ~u.lapsed => /\ ~v.lapsed /\ v.flows[f].own
                     /\ Asked(v.flows[f]) => v.recovery[s] = L!NoRecovery /\ ~L!Pursued(v, s)

LEMMA RemovedFacts ==
  ASSUME NEW v, Typed(v), NEW f \in StoreFlow, v.flows[f].s \in LiveStream,
         NEW u, u = [L!SetEntry(L!Cross(v, f), v.flows[f].s, "none") EXCEPT
                       !.cancelled = @ \ {v.flows[f].s},
                       !.wanted = IF Asked(v.flows[f]) THEN @ \ {v.flows[f].s} ELSE @,
                       !.lapsed = @ \/ (Asked(v.flows[f]) /\ (v.recovery[v.flows[f].s] # L!NoRecovery
                                                             \/ L!Pursued(v, v.flows[f].s)))]
  PROVE  Removed(v, f, u)
<1> DEFINE s == v.flows[f].s
           asked == Asked(v.flows[f])
           c == L!Cross(v, f)
           e == L!SetEntry(c, s, "none")
           can == e.cancelled \ {s}
           wan == IF asked THEN e.wanted \ {s} ELSE e.wanted
           b == e.lapsed \/ (asked /\ (v.recovery[s] # L!NoRecovery \/ L!Pursued(v, s)))
<1>1. /\ Typed(c) /\ SameGate(v, c) /\ c.cancelled = v.cancelled
      /\ c.wanted = v.wanted /\ c.viewing = v.viewing /\ c.entry = v.entry /\ c.run = v.run
      /\ c.recovery = v.recovery /\ c.flows = v.flows
      /\ ~c.lapsed => ~v.lapsed /\ v.flows[f].own
  BY CrossFacts
<1>2. u = [e EXCEPT !.cancelled = can, !.wanted = wan, !.lapsed = b]
  OBVIOUS
<1>3. s \in LiveStream
  OBVIOUS
<1> HIDE DEF c, asked
<1>4. /\ Typed(e) /\ Disowns(c, e, {s}) /\ SameGate(c, e) /\ SameWish(c, e)
      /\ e.entry = [c.entry EXCEPT ![s] = "none"]
      /\ e.run = c.run /\ e.recovery = c.recovery /\ e.viewing = c.viewing
  <2> HIDE DEF s
  <2> QED BY <1>1, <1>3, SetEntryFacts, EntryWords
<1> HIDE DEF e
<1>5. can \subseteq LiveStream /\ wan \subseteq LiveStream /\ b \in BOOLEAN
  BY <1>4 DEF Typed
<1>6. /\ can = v.cancelled \ {s} /\ wan = (IF asked THEN v.wanted \ {s} ELSE v.wanted)
      /\ ~b => /\ ~v.lapsed /\ v.flows[f].own
               /\ asked => v.recovery[s] = L!NoRecovery /\ ~L!Pursued(v, s)
  BY <1>1, <1>4 DEF SameWish
<1> HIDE DEF can, wan, b, s
<1>7. /\ Typed(u) /\ SameGate(e, u) /\ u.cancelled = can /\ u.wanted = wan /\ u.lapsed = b
      /\ u.entry = e.entry /\ u.run = e.run /\ u.recovery = e.recovery /\ u.viewing = e.viewing
      /\ u.flows = e.flows
  BY ONLY <1>2, <1>4, <1>5 DEF Typed, Fields, SameGate
<1>8. Disowns(v, u, {s})
  <2> DEFINE one == {s}
  <2>1. c.flows = v.flows /\ Disowns(c, e, one) /\ u.flows = e.flows
    BY ONLY <1>1, <1>4, <1>7
  <2> HIDE DEF one
  <2>2. Disowns(v, u, one)
    BY ONLY <2>1 DEF Disowns
  <2> QED BY ONLY <2>2 DEF one
<1>9. /\ SameGate(v, u) /\ u.viewing = v.viewing /\ u.run = v.run /\ u.recovery = v.recovery
      /\ u.entry = [v.entry EXCEPT ![s] = "none"]
  BY ONLY <1>1, <1>4, <1>7 DEF SameGate
<1> QED BY <1>6, <1>7, <1>8, <1>9, ZenonT(30) DEF Removed, s, asked

\* Those that keep the store as it should be: the function owned the entry, and no runtime
\* was set up.
LEMMA RemovedGood ==
  ASSUME NEW v, Typed(v), Good(v, {}), NEW f \in StoreFlow, v.flows[f].at \in {"watch", "admitted"},
         NEW u, Removed(v, f, u), ~u.lapsed
  PROVE  Good(u, {}) /\ ~u.flows[f].own
<1> DEFINE s == v.flows[f].s
           m == L!SetEntry(v, s, "none")
<1>1. v.flows[f].own /\ s \in LiveStream /\ (Asked(v.flows[f]) => v.recovery[s] = L!NoRecovery /\ ~L!Pursued(v, s))
  BY DEF Removed, Typed
<1>2. v.entry[s] = "starting" /\ v.run[s] = "none" /\ s \notin v.cancelled
  BY <1>1 DEF Good, Nearly, Shows, Finds, Own, Cancels
<1>3. /\ Typed(m) /\ Disowns(v, m, {s}) /\ SameGate(v, m) /\ SameWish(v, m)
      /\ m.entry = [v.entry EXCEPT ![s] = "none"]
      /\ m.run = v.run /\ m.recovery = v.recovery /\ m.viewing = v.viewing
  <2>1. s \in LiveStream
    BY <1>1
  <2> HIDE DEF s
  <2> QED BY <2>1, SetEntryFacts, EntryWords
<1>4. u.cancelled = v.cancelled
  BY <1>2 DEF Removed
<1>5. /\ SameGate(v, u) /\ u.viewing = v.viewing /\ Typed(u)
      /\ u.entry = [v.entry EXCEPT ![s] = "none"] /\ u.run = v.run /\ u.recovery = v.recovery
      /\ Disowns(v, u, {s})
      /\ u.wanted = IF Asked(v.flows[f]) THEN v.wanted \ {s} ELSE v.wanted
  BY DEF Removed
<1>6. v.flows[f].s = s
  OBVIOUS
<1> HIDE DEF m, s
<1>7. Dropped(v, s, m)
  BY <1>1, <1>2, <1>3 DEF Dropped, Typed
<1>8. Good(m, {}) /\ m.entry[s] = "none"
  <2>1. Typed(v) /\ Good(v, {}) /\ s \in LiveStream /\ Dropped(v, s, m)
    BY <1>1, <1>7
  <2>2. v.run[s] = "none" => Good(m, {})
    BY ONLY <2>1, DroppedNearly
  <2>3. m.entry[s] = "none"
    BY ONLY <2>1, DroppedFacts
  <2> QED BY <1>2, <2>2, <2>3
<1>9. Alike(m, u)
  BY <1>3, <1>4, <1>5 DEF Alike, SameGate, SameWish, Disowns, Fades
<1>10. CASE Asked(v.flows[f])
  <2>1. m.recovery[s].attempt = "none"
    BY <1>1, <1>3, <1>10 DEF L!NoRecovery
  <2>2. \A g \in StoreFlow : s \notin m.flows[g].todo /\ (m.flows[g].own => m.flows[g].s # s)
    BY <1>1, <1>3, <1>10 DEF L!Pursued, Disowns, Fades
  <2>3. u.wanted = m.wanted \ {s}
    BY <1>3, <1>5, <1>10 DEF SameWish
  <2> QED BY <1>1, <1>5, <1>6, <1>8, <1>9, <2>1, <2>2, <2>3, UnwishedGood DEF Disowns
<1>11. CASE ~Asked(v.flows[f])
  BY <1>3, <1>5, <1>9, <1>11, <1>6, <1>8, SameGood DEF Same, SameWish, Disowns
<1> QED BY <1>10, <1>11

LEMMA WatchFailsFacts ==
  ASSUME NEW v, Typed(v), NEW f \in StoreFlow, v.flows[f].s \in LiveStream,
         NEW x \in L!WatchFails(v, f)
  PROVE  \E m, e : /\ Removed(v, f, m) /\ Ended(m, f, FALSE, e) /\ e.lapsed = m.lapsed
                   /\ ~v.flows[f].restores => x = e
                   /\ v.flows[f].restores =>
                        x \in L!RestoreNext(
                          IF e.recovery[v.flows[f].s] # L!NoRecovery THEN e
                          ELSE [e EXCEPT !.recovery[v.flows[f].s] = [attempt |-> "gateway", phase |-> "timer"]],
                          f, v.flows[f].todo)
<1> DEFINE w == v.flows[f]
           m == [L!SetEntry(L!Cross(v, f), w.s, "none") EXCEPT
                       !.cancelled = @ \ {w.s},
                       !.wanted = IF Asked(w) THEN @ \ {w.s} ELSE @,
                       !.lapsed = @ \/ (Asked(w) /\ (v.recovery[w.s] # L!NoRecovery \/ L!Pursued(v, w.s)))]
           fr == L!Free(m, f)
           e == L!AttemptEnds(fr, w.rec, FALSE)
           r == IF e.recovery[w.s] # L!NoRecovery THEN e
                ELSE [e EXCEPT !.recovery[w.s] = [attempt |-> "gateway", phase |-> "timer"]]
<1>1. x \in IF ~w.restores THEN {e} ELSE L!RestoreNext(r, f, w.todo)
  BY ZenonT(30) DEF L!WatchFails, Asked
<1>2. Removed(v, f, m)
  BY RemovedFacts, ZenonT(30)
<1>3. w \in L!FlowRec /\ w.rec \in LiveStream \cup {NoLive} /\ w.s \in LiveStream
  BY FlowTypes DEF Typed
<1> HIDE DEF m, w
<1>4. Typed(m)
  BY <1>2 DEF Removed
<1>5. /\ Typed(fr) /\ SameFlows(m, fr, f) /\ fr.flows[f] = L!NoFlow /\ SameGate(m, fr)
      /\ SameWish(m, fr) /\ fr.entry = m.entry /\ fr.run = m.run /\ fr.recovery = m.recovery
      /\ fr.viewing = m.viewing
  BY <1>4, FreeFacts
<1> HIDE DEF fr
<1>6. /\ Typed(e) /\ SameGate(fr, e) /\ SameWish(fr, e) /\ e.viewing = fr.viewing
      /\ e.entry = fr.entry /\ e.run = fr.run /\ e.flows = fr.flows
      /\ \A s \in LiveStream :
           IF s # w.rec THEN e.recovery[s] = fr.recovery[s]
           ELSE e.recovery[s].attempt = fr.recovery[s].attempt /\ e.recovery[s].phase = "timer"
  <2>1. PICK ok \in BOOLEAN : ok = FALSE
    OBVIOUS
  <2> DEFINE r0 == w.rec
  <2>2. /\ Typed(fr) /\ r0 \in LiveStream \cup {NoLive} /\ ok \in BOOLEAN
        /\ e = L!AttemptEnds(fr, r0, ok)
    BY <1>3, <1>5, <2>1
  <2> HIDE DEF e, r0
  <2>3. /\ Typed(e) /\ SameGate(fr, e) /\ SameWish(fr, e) /\ e.viewing = fr.viewing
        /\ e.entry = fr.entry /\ e.run = fr.run /\ e.flows = fr.flows
        /\ \A s \in LiveStream :
             IF s # r0 THEN e.recovery[s] = fr.recovery[s]
             ELSE IF ok THEN e.recovery[s] = L!NoRecovery
             ELSE e.recovery[s].attempt = fr.recovery[s].attempt /\ e.recovery[s].phase = "timer"
    BY ONLY <2>2, AttemptEndsFacts
  <2> QED BY ONLY <2>1, <2>3 DEF r0
<1> HIDE DEF e
<1>7. m.flows[f].rec = w.rec
  BY <1>2 DEF Removed, Disowns, Fades, w
<1>8. Ended(m, f, FALSE, e) /\ e.lapsed = m.lapsed
  BY <1>5, <1>6, <1>7 DEF Ended, SameGate, SameWish, SameFlows
<1> QED BY <1>1, <1>2, <1>8 DEF w

LEMMA WatchFailsGood ==
  ASSUME NEW v, Typed(v), NEW f \in StoreFlow, v.flows[f].s \in LiveStream, v.flows[f].at # "none",
         ~v.lapsed /\ v.flows[f].own => /\ Good(v, {}) /\ v.flows[f].at \in {"watch", "admitted"}
                                        /\ v.flows[f].at = "admitted" => ~v.link,
         NEW x \in L!WatchFails(v, f)
  PROVE  WatchInv(x)
<1> DEFINE s == v.flows[f].s
           todo == v.flows[f].todo
<1>1. PICK m, e : /\ Removed(v, f, m) /\ Ended(m, f, FALSE, e) /\ e.lapsed = m.lapsed
                  /\ ~v.flows[f].restores => x = e
                  /\ v.flows[f].restores =>
                       x \in L!RestoreNext(
                         IF e.recovery[s] # L!NoRecovery THEN e
                         ELSE [e EXCEPT !.recovery[s] = [attempt |-> "gateway", phase |-> "timer"]],
                         f, todo)
  BY WatchFailsFacts
<1>2. Typed(m) /\ Fades(v.flows[f], m.flows[f]) /\ Typed(e) /\ e.flows[f] = L!NoFlow
  BY <1>1 DEF Removed, Disowns, Ended
<1>3. ASSUME ~e.lapsed
      PROVE  /\ Good(e, todo) /\ FlowFits(v.flows[f])
             /\ v.flows[f].restores => s \in e.wanted
  <2>1. /\ Good(v, {}) /\ v.flows[f].own /\ v.flows[f].at \in {"watch", "admitted"}
        /\ v.flows[f].at = "admitted" => ~v.link
    BY <1>1, <1>3 DEF Removed
  <2>2. Good(m, {}) /\ ~m.flows[f].own
    BY <1>1, <1>3, <2>1, RemovedGood
  <2>3. Takes(m, f, FALSE) = {}
    BY DEF Takes
  <2>4. m.flows[f].at = "admitted" => m.flows[f].s \notin m.viewing
    BY <1>1, <1>2, <2>1, <2>2 DEF Removed, SameGate, Fades, Good, Nearly, Counts
  <2>5. Idle(m, f, FALSE)
    BY <1>2, <2>1, <2>2, <2>3, <2>4 DEF Idle, Fades
  <2>6. Good(e, m.flows[f].todo)
    BY <1>1, <1>2, <1>3, <2>2, <2>3, <2>5, EndedGood DEF Good
  <2>7. FlowFits(v.flows[f])
    BY <2>1 DEF Good, Nearly, Fits
  <2>8. v.flows[f].restores => s \in e.wanted
    BY <2>1, <2>7, <1>1 DEF Good, Nearly, Wants, Serves, FlowFits, Removed, Ended, Asked
  <2> QED BY <1>2, <2>6, <2>7, <2>8 DEF Fades
<1>4. CASE ~v.flows[f].restores
  <2>1. ~e.lapsed => todo = {}
    BY <1>3, <1>4 DEF FlowFits
  <2> QED BY <1>1, <1>2, <1>3, <1>4, <2>1 DEF WatchInv
<1>5. CASE v.flows[f].restores
  <2> DEFINE r == IF e.recovery[s] # L!NoRecovery THEN e
                  ELSE [e EXCEPT !.recovery[s] = [attempt |-> "gateway", phase |-> "timer"]]
  <2>1. x \in L!RestoreNext(r, f, todo)
    BY <1>1, <1>5
  <2>2. todo \in SUBSET LiveStream /\ s \in LiveStream
    BY FlowTypes DEF Typed
  <2> HIDE DEF s, todo
  <2>3. Typed(r) /\ r.flows[f] = L!NoFlow /\ (~r.lapsed => Good(r, todo))
    <3>1. CASE e.recovery[s] # L!NoRecovery
      BY <1>2, <1>3, <3>1
    <3>2. CASE e.recovery[s] = L!NoRecovery
      <4> DEFINE rs == [e.recovery EXCEPT ![s] = [attempt |-> "gateway", phase |-> "timer"]]
      <4>1. r = [e EXCEPT !.recovery = rs]
        BY <1>2, <3>2 DEF Typed, Fields
      <4>2. e.recovery \in [LiveStream -> L!RecoveryRec]
        BY <1>2 DEF Typed
      <4>3. /\ rs \in [LiveStream -> L!RecoveryRec]
            /\ rs[s].attempt = "gateway" /\ rs[s].phase = "timer"
            /\ \A t \in LiveStream \ {s} : rs[t] = e.recovery[t]
        BY <2>2, <4>2 DEF L!RecoveryRec
      <4> HIDE DEF r, rs
      <4>4. /\ Typed(r) /\ r.flows = e.flows /\ r.lapsed = e.lapsed /\ SameGate(e, r)
            /\ r.cancelled = e.cancelled /\ r.viewing = e.viewing /\ r.wanted = e.wanted
            /\ r.entry = e.entry /\ r.run = e.run /\ r.recovery = rs
        BY ONLY <1>2, <4>1, <4>3 DEF Typed, Fields, SameGate
      <4>5. ASSUME ~r.lapsed PROVE Good(r, todo)
        BY <1>3, <1>5, <3>2, <4>4, <4>5, <1>2, <4>3, RetriedGood DEF L!NoRecovery
      <4> QED BY <1>2, <4>4, <4>5
    <3> QED BY <3>1, <3>2
  <2>4. r.flows[f].at = "none"
    BY <2>3 DEF L!NoFlow
  <2> HIDE DEF r
  <2> QED BY <2>1, <2>2, <2>3, <2>4, RestoreNextGood
<1> QED BY <1>4, <1>5

LEMMA RefusedStep ==
  ASSUME WatchInv(watched), NEW f \in StoreFlow, L!Refused(f) PROVE WatchInv(watched')
<1> DEFINE v == IF watched.flows[f].at = "admitted" /\ ~L!Broken(f) THEN L!Lapse(watched) ELSE watched
<1>1. /\ Typed(watched) /\ watched.flows[f].at \in {"watch", "admitted"}
      /\ watched.flows[f].s \in LiveStream /\ (L!Broken(f) => ~watched.link)
      /\ watched' \in L!WatchFails(v, f)
  BY DEF L!Refused, L!Broken, L!At, WatchInv, Typed
<1>2. /\ Typed(v) /\ v.flows = watched.flows
      /\ ~v.lapsed => v = watched /\ (watched.flows[f].at = "admitted" => ~watched.link)
  <2>1. CASE watched.flows[f].at = "admitted" /\ ~L!Broken(f)
    <3>1. v = [watched EXCEPT !.lapsed = TRUE] /\ Typed(watched) /\ TRUE \in BOOLEAN
      BY <1>1, <2>1 DEF L!Lapse
    <3> HIDE DEF v
    <3>2. Typed(v) /\ v.lapsed = TRUE /\ v.flows = watched.flows
      BY ONLY <3>1, LapseFacts
    <3> QED BY <3>2
  <2>2. CASE ~(watched.flows[f].at = "admitted" /\ ~L!Broken(f))
    <3>1. v = watched
      BY <2>2
    <3> HIDE DEF v
    <3> QED BY <1>1, <2>2, <3>1
  <2> QED BY <2>1, <2>2
<1> HIDE DEF v
<1>3. v.flows[f].s \in LiveStream /\ v.flows[f].at # "none" /\ v.flows[f].at \in {"watch", "admitted"}
  BY <1>2, <1>1
<1>4. ~v.lapsed => Good(v, {}) /\ (v.flows[f].at = "admitted" => ~v.link)
  BY <1>2 DEF WatchInv
<1> QED BY <1>1, <1>2, <1>3, <1>4, WatchFailsGood

LEMMA ConsumeFailsStep ==
  ASSUME WatchInv(watched), NEW f \in StoreFlow, L!ConsumeFails(f) PROVE WatchInv(watched')
<1> DEFINE l == IF L!Broken(f) THEN watched ELSE L!Lapse(watched)
           s == watched.flows[f].s
           c == L!Cross(l, f)
           v == L!Teardown(c, s)
<1>1. /\ Typed(watched) /\ watched.flows[f].at = "consume" /\ s \in LiveStream
      /\ watched' \in L!WatchFails(v, f)
  BY DEF L!ConsumeFails, L!At, L!S, WatchInv, Typed
<1>2. Typed(l) /\ l.flows = watched.flows
  <2>1. CASE ~L!Broken(f)
    <3>1. l = [watched EXCEPT !.lapsed = TRUE] /\ Typed(watched) /\ TRUE \in BOOLEAN
      BY <1>1, <2>1 DEF L!Lapse
    <3> HIDE DEF l
    <3>2. Typed(l) /\ l.flows = watched.flows
      BY ONLY <3>1, LapseFacts
    <3> QED BY <3>2
  <2> QED BY <1>1, <2>1
<1> HIDE DEF l
<1>3. Typed(c) /\ c.flows = watched.flows
  BY <1>2, CrossFacts
<1> HIDE DEF c
<1>4. Typed(v) /\ Disowns(c, v, {s})
  BY <1>1, <1>3, TeardownFacts
<1> HIDE DEF v
<1>5. v.flows[f].s = s /\ v.flows[f].at # "none" /\ ~v.flows[f].own
  BY <1>1, <1>3, <1>4 DEF Disowns, Fades
<1> QED BY <1>1, <1>4, <1>5, WatchFailsGood

-----------------------------------------------------------------------------
(* What the user opens and closes.                                         *)

LEMMA SlotFacts == L!HasSlot => L!Slot \in StoreFlow /\ watched.flows[L!Slot].at = "none"
BY DEF L!HasSlot, L!Slot, L!At

LEMMA WishedGood ==
  ASSUME NEW v, Good(v, {}), NEW s \in LiveStream, s \in v.airs \cup v.over,
         NEW u, Typed(u), Alike(v, u), u.wanted = v.wanted \cup {s}
  PROVE  Good(u, {})
BY AlikeFacts DEF Alike, Disowns, Good, Nearly, Wants, Wanted, SameGate, Fades, L!Replaces, Serves,
   Gone

LEMMA WatchStep ==
  ASSUME WatchInv(watched), NEW s \in LiveStream, L!Watch(s) PROVE WatchInv(watched')
<1> DEFINE f == L!Slot
           wan == watched.wanted \cup {s}
           u == [watched EXCEPT !.wanted = wan]
           w == [L!NoFlow EXCEPT !.s = s]
<1>1. /\ Typed(watched) /\ f \in StoreFlow /\ watched.flows[f].at = "none" /\ watched.room[s] # "none"
      /\ watched' = L!BeginWatch(u, f, w)
  BY SlotFacts DEF L!Watch, WatchInv
<1>2. /\ w \in L!FlowRec /\ w.s = s /\ w.rec = NoLive /\ w.todo = {} /\ ~w.restores
  BY DEF L!NoFlow, L!FlowRec
<1>3. wan \subseteq LiveStream
  BY <1>1 DEF Typed
<1> HIDE DEF f, wan, w
<1>4. /\ Typed(u) /\ SameGate(watched, u) /\ u.cancelled = watched.cancelled /\ u.wanted = wan
      /\ u.viewing = watched.viewing /\ u.entry = watched.entry /\ u.run = watched.run
      /\ u.recovery = watched.recovery /\ u.flows = watched.flows /\ u.lapsed = watched.lapsed
  BY <1>1, <1>3 DEF Typed, Fields, SameGate
<1> HIDE DEF u
<1>5. ASSUME ~u.lapsed PROVE Good(u, {})
  BY <1>4, <1>5, <1>1, WishedGood DEF WatchInv, Good, Nearly, Wants, Wanted, Alike, Disowns, Fades,
     wan
<1>6. CASE u.run[s] # "none" \/ u.entry[s] # "none"
  BY <1>1, <1>2, <1>4, <1>6, BeginWatchFacts, <1>5 DEF WatchInv
<1>7. CASE u.run[s] = "none" /\ u.entry[s] = "none"
  <2>1. Begun(u, f, w, watched')
    BY <1>1, <1>2, <1>4, <1>7, BeginWatchFacts
  <2>2. Typed(watched') /\ watched'.lapsed = u.lapsed
    BY <2>1 DEF Begun
  <2>3. ASSUME ~u.lapsed PROVE Good(watched', {})
    <3>1. Good(u, {}) /\ u.wanted \subseteq u.airs \cup u.over
      BY <1>5, <2>3 DEF Good, Nearly, Wants
    <3>2. s \in u.wanted
      BY <1>4 DEF wan
    <3>3. Opens(u, f, w, {})
      BY <1>1, <1>2, <1>4, <1>7, <3>1, <3>2 DEF Opens
    <3>4. Nearly(u, {}, Spared(w))
      BY <3>1, NearlyMore
    <3> QED BY <1>1, <1>4, <2>1, <3>3, <3>4, BegunGood
  <2> QED BY <2>2, <2>3 DEF WatchInv
<1> QED BY <1>6, <1>7

\* Nobody owns what is not there.
LEMMA OwnerFinds ==
  ASSUME NEW v, NEW todo, Good(v, todo), NEW f \in StoreFlow, v.flows[f].own
  PROVE  v.entry[v.flows[f].s] = "starting" \/ v.run[v.flows[f].s] # "none"
BY DEF Good, Nearly, Fits, FlowFits, Shows, Finds, Own, Gets

\* A stream is closed: nothing of it is left but the function that tells the gateway.
Closed(v, s, f, u) ==
  /\ Typed(u) /\ SameGate(v, u) /\ u.cancelled = v.cancelled \cup {s} /\ u.wanted = v.wanted \ {s}
  /\ u.viewing = IF v.link THEN v.viewing \ {s} ELSE v.viewing
  /\ u.entry = [v.entry EXCEPT ![s] = "none"] /\ u.run = [v.run EXCEPT ![s] = "none"]
  /\ u.recovery = [v.recovery EXCEPT ![s] = L!NoRecovery]
  /\ u.flows[f].at = "unwatch" /\ u.flows[f].s = s /\ u.flows[f].rec = NoLive
  /\ u.flows[f].todo = {} /\ ~u.flows[f].own /\ ~u.flows[f].restores
  /\ \A g \in StoreFlow \ {f} :
       /\ u.flows[g].at = v.flows[g].at /\ u.flows[g].s = v.flows[g].s
       /\ u.flows[g].todo = v.flows[g].todo /\ u.flows[g].restores = v.flows[g].restores
       /\ u.flows[g].rec = IF v.flows[g].rec = s THEN NoLive ELSE v.flows[g].rec
       /\ u.flows[g].own <=> v.flows[g].own /\ v.flows[g].s # s

LEMMA ClosedGood ==
  ASSUME NEW v, Typed(v), Good(v, {}), NEW s \in v.wanted, ~L!Pursued(v, s),
         NEW f \in StoreFlow, v.flows[f].at = "none", NEW u, Closed(v, s, f, u)
  PROVE  Good(u, {})
<1>1. s \in LiveStream /\ NoLive \notin LiveStream
  BY ClientAssumption DEF Typed, WatchAssumption
<1>2. /\ u.entry[s] = "none" /\ u.run[s] = "none" /\ u.recovery[s].attempt = "none"
      /\ u.recovery[s].phase = "none"
      /\ \A t \in LiveStream \ {s} : /\ u.entry[t] = v.entry[t] /\ u.run[t] = v.run[t]
                                     /\ u.recovery[t] = v.recovery[t]
  BY <1>1 DEF Closed, Typed, L!NoRecovery
<1>3. \A g \in StoreFlow : s \notin v.flows[g].todo /\ (v.flows[g].rec = s => v.flows[g].s = s)
  BY DEF L!Pursued
<1>4. /\ v.flows[f].s = NoLive /\ v.flows[f].rec = NoLive /\ v.flows[f].todo = {} /\ ~v.flows[f].own
  BY DEF Good, Nearly, Fits, FlowFits
<1>5. /\ SameGate(v, u) /\ u.cancelled = v.cancelled \cup {s} /\ u.wanted = v.wanted \ {s}
      /\ u.flows[f].at = "unwatch" /\ u.flows[f].s = s /\ u.flows[f].rec = NoLive
      /\ u.flows[f].todo = {} /\ ~u.flows[f].own /\ ~u.flows[f].restores
      /\ \A g \in StoreFlow \ {f} :
           /\ u.flows[g].at = v.flows[g].at /\ u.flows[g].s = v.flows[g].s
           /\ u.flows[g].todo = v.flows[g].todo /\ u.flows[g].restores = v.flows[g].restores
           /\ u.flows[g].rec = IF v.flows[g].rec = s THEN NoLive ELSE v.flows[g].rec
           /\ u.flows[g].own <=> v.flows[g].own /\ v.flows[g].s # s
  BY DEF Closed
<1>6. u.viewing = v.viewing \ {s} /\ v.viewing \subseteq LiveStream
  BY DEF Closed, Good, Nearly, Counts, Typed
<1>7. \A g \in StoreFlow : v.flows[g].rec \in LiveStream \cup {NoLive}
  BY FlowTypes DEF Typed
<1>8. Fits(u)
  BY <1>1, <1>5, <1>3 DEF FlowFits, Good, Nearly, Fits
<1>9. Reports(u)
  BY <1>2, <1>5, <1>7 DEF Good, Nearly, Reports
<1>10. Shows(u, {})
  <2>1. Shows(v, {})
    BY DEF Good, Nearly
  <2>2. ASSUME NEW t \in LiveStream PROVE Shown(u, t, {})
    BY <1>2, <1>4, <1>5, <1>6, <2>1 DEF Shown, On, Own, Shows, SameGate
  <2>3. ASSUME NEW g \in StoreFlow PROVE Finds(u, g)
    <3> SUFFICES ASSUME u.flows[g].own PROVE Finds(u, g)
      BY DEF Finds, Own
    <3>1. /\ u.flows[g].s \in LiveStream \ {s} /\ Finds(v, g) /\ u.flows[g].s = v.flows[g].s
          /\ v.flows[g].own /\ u.flows[g].at = v.flows[g].at
      BY <1>5, <1>8, <2>1 DEF Shows, Fits, FlowFits, Gets, Mends
    <3>2. u.entry[u.flows[g].s] = v.entry[u.flows[g].s] /\ u.run[u.flows[g].s] = v.run[u.flows[g].s]
      BY <1>2, <3>1
    <3> QED BY <1>5, <3>1, <3>2 DEF Finds, Own, SameGate
  <2> QED BY <2>2, <2>3 DEF Shows
<1>11. Counts(u, {})
  BY <1>1, <1>4, <1>5, <1>2, <1>6 DEF Good, Nearly, Keeps, Counts, Own, SameGate
<1>12. Cancels(u)
  BY <1>5, <1>1, <1>2 DEF Good, Nearly, Typed, Cancels
<1>13. Wants(u, {}, {})
  BY <1>3, <1>5, <1>7, <1>4, <1>2 DEF Good, Nearly, L!Replaces, Wants, Wanted, SameGate, Serves,
     Gone
<1> QED BY <1>8, <1>9, <1>10, <1>11, <1>12, <1>13 DEF Good, Nearly

LEMMA ResolveFacts ==
  ASSUME NEW v, Typed(v), NEW s \in LiveStream, NEW u, u = L!ResolveRecovery(v, s)
  PROVE  /\ Typed(u) /\ SameGate(v, u) /\ SameWish(v, u) /\ u.entry = v.entry /\ u.run = v.run
         /\ u.viewing = v.viewing /\ u.recovery = [v.recovery EXCEPT ![s] = L!NoRecovery]
         /\ \A g \in StoreFlow :
              /\ u.flows[g].at = v.flows[g].at /\ u.flows[g].s = v.flows[g].s
              /\ u.flows[g].todo = v.flows[g].todo /\ u.flows[g].restores = v.flows[g].restores
              /\ u.flows[g].rec = IF v.flows[g].rec = s THEN NoLive ELSE v.flows[g].rec
              /\ u.flows[g].own <=> v.flows[g].own
<1> DEFINE rs == [v.recovery EXCEPT ![s] = L!NoRecovery]
           fl == [f \in StoreFlow |-> IF v.flows[f].rec = s THEN [v.flows[f] EXCEPT !.rec = NoLive]
                                      ELSE v.flows[f]]
<1>1. u = [v EXCEPT !.recovery = rs, !.flows = fl]
  BY DEF L!ResolveRecovery, Typed, Fields
<1>2. v.flows \in [StoreFlow -> L!FlowRec]
  BY DEF Typed
<1>3. fl \in [StoreFlow -> L!FlowRec]
  BY <1>2 DEF L!FlowRec
<1>4. \A g \in StoreFlow :
        /\ fl[g].at = v.flows[g].at /\ fl[g].s = v.flows[g].s
        /\ fl[g].todo = v.flows[g].todo /\ fl[g].restores = v.flows[g].restores
        /\ fl[g].rec = IF v.flows[g].rec = s THEN NoLive ELSE v.flows[g].rec
        /\ fl[g].own <=> v.flows[g].own
  BY <1>2 DEF L!FlowRec
<1>5. rs \in [LiveStream -> L!RecoveryRec]
  BY NoFlowTyped DEF Typed
<1> HIDE DEF rs, fl
<1>6. Typed(u)
  BY <1>1, <1>3, <1>4, <1>5 DEF Typed, Fields
<1>7. /\ SameGate(v, u) /\ SameWish(v, u) /\ u.entry = v.entry /\ u.run = v.run
      /\ u.viewing = v.viewing /\ u.recovery = rs /\ u.flows = fl
  BY <1>1 DEF Typed, Fields, SameGate, SameWish
<1>8. u.recovery = [v.recovery EXCEPT ![s] = L!NoRecovery]
  BY <1>7 DEF rs
<1> QED BY <1>4, <1>6, <1>7, <1>8

LEMMA UnwatchStep ==
  ASSUME WatchInv(watched), NEW s \in LiveStream, L!Unwatch(s) PROVE WatchInv(watched')
<1> DEFINE f == L!Slot
           wan == watched.wanted \ {s}
           b == watched.lapsed \/ L!Pursued(watched, s)
           v == [watched EXCEPT !.wanted = wan, !.lapsed = b]
           w == [L!NoFlow EXCEPT !.at = "unwatch", !.s = s]
           done == L!SendUnwatch(L!Drop1(L!ResolveRecovery(v, s), s), s)
<1>1. /\ Typed(watched) /\ f \in StoreFlow /\ watched.flows[f].at = "none" /\ s \in watched.wanted
      /\ watched' = IF v.run[s] = "none" /\ v.entry[s] = "none"
                    THEN [v EXCEPT !.lapsed = @ \/ v.recovery[s] # L!NoRecovery]
                    ELSE L!Put([done EXCEPT !.cancelled = @ \cup {s}], f, w)
  BY SlotFacts DEF L!Unwatch, WatchInv
<1>2. wan \subseteq LiveStream /\ b \in BOOLEAN
  BY <1>1 DEF Typed
<1> HIDE DEF f, wan, b
<1>3. /\ Typed(v) /\ SameGate(watched, v) /\ v.cancelled = watched.cancelled /\ v.wanted = wan
      /\ v.viewing = watched.viewing /\ v.entry = watched.entry /\ v.run = watched.run
      /\ v.recovery = watched.recovery /\ v.flows = watched.flows /\ v.lapsed = b
  BY <1>1, <1>2 DEF Typed, Fields, SameGate
<1>4. ~b => Good(watched, {}) /\ ~L!Pursued(watched, s)
  BY DEF b, WatchInv
<1> HIDE DEF v
<1>5. CASE v.run[s] = "none" /\ v.entry[s] = "none"
  <2> DEFINE l == b \/ v.recovery[s] # L!NoRecovery
  <2>1. watched' = [v EXCEPT !.lapsed = l]
    BY <1>1, <1>3, <1>5
  <2>2. l \in BOOLEAN
    BY <1>2
  <2> HIDE DEF l
  <2>3. /\ Typed(watched') /\ watched'.lapsed = l /\ SameGate(v, watched') /\ watched'.cancelled = v.cancelled
        /\ watched'.wanted = v.wanted /\ watched'.viewing = v.viewing /\ watched'.entry = v.entry
        /\ watched'.run = v.run /\ watched'.recovery = v.recovery /\ watched'.flows = v.flows
    BY ONLY <1>3, <2>1, <2>2, LapseFacts
  <2>4. ASSUME ~watched'.lapsed PROVE Good(watched', {})
    <3>1. Good(watched, {}) /\ ~L!Pursued(watched, s) /\ watched.recovery[s].attempt = "none"
      <4>1. ~b /\ v.recovery[s] = L!NoRecovery
        BY <2>3, <2>4 DEF l
      <4>2. watched.recovery[s].attempt = "none"
        BY <1>3, <4>1 DEF L!NoRecovery
      <4> QED BY <1>4, <4>1, <4>2
    <3>2. watched.entry[s] = "none" /\ watched.run[s] = "none"
      BY <1>3, <1>5
    <3>3. \A g \in StoreFlow : s \notin watched.flows[g].todo /\ (watched.flows[g].own => watched.flows[g].s # s)
      BY <3>1, <3>2, OwnerFinds DEF L!Pursued
    <3>4. Alike(watched, watched') /\ watched'.wanted = watched.wanted \ {s}
      BY <1>3, <2>3 DEF Alike, SameGate, Disowns, Fades, wan
    <3> QED BY <2>3, <3>1, <3>2, <3>3, <3>4, UnwishedGood
  <2> QED BY <2>3, <2>4 DEF WatchInv
<1>6. CASE ~(v.run[s] = "none" /\ v.entry[s] = "none")
  <2> DEFINE r == L!ResolveRecovery(v, s)
             d == L!Drop1(r, s)
             can == done.cancelled \cup {s}
             c == [done EXCEPT !.cancelled = can]
  <2>1. watched' = L!Put(c, f, w)
    BY <1>1, <1>6
  <2>2. /\ Typed(r) /\ SameGate(v, r) /\ SameWish(v, r) /\ r.entry = v.entry /\ r.run = v.run
        /\ r.viewing = v.viewing /\ r.recovery = [v.recovery EXCEPT ![s] = L!NoRecovery]
        /\ \A g \in StoreFlow :
             /\ r.flows[g].at = v.flows[g].at /\ r.flows[g].s = v.flows[g].s
             /\ r.flows[g].todo = v.flows[g].todo /\ r.flows[g].restores = v.flows[g].restores
             /\ r.flows[g].rec = IF v.flows[g].rec = s THEN NoLive ELSE v.flows[g].rec
             /\ r.flows[g].own <=> v.flows[g].own
    BY <1>3, ResolveFacts
  <2>3. done = L!SendUnwatch(d, s)
    OBVIOUS
  <2> HIDE DEF r, done, w
  <2>4. /\ Typed(d) /\ Disowns(r, d, {s}) /\ SameGate(r, d) /\ SameWish(r, d)
        /\ d.entry = [r.entry EXCEPT ![s] = "none"] /\ d.run = [r.run EXCEPT ![s] = "none"]
        /\ d.recovery = r.recovery /\ d.viewing = r.viewing
    BY <2>2, DropOneFacts
  <2> HIDE DEF d
  <2>5. /\ Typed(done) /\ SameGate(d, done) /\ SameWish(d, done) /\ done.entry = d.entry /\ done.run = d.run
        /\ done.recovery = d.recovery /\ done.flows = d.flows
        /\ done.viewing = IF d.link THEN d.viewing \ {s} ELSE d.viewing
    BY <2>3, <2>4, SendUnwatchFacts
  <2>6. can \subseteq LiveStream
    BY <2>5 DEF Typed
  <2> HIDE DEF can
  <2>7. /\ Typed(c) /\ SameGate(done, c) /\ c.cancelled = can /\ c.wanted = done.wanted
        /\ c.lapsed = done.lapsed /\ c.entry = done.entry /\ c.run = done.run
        /\ c.recovery = done.recovery /\ c.flows = done.flows /\ c.viewing = done.viewing
    BY <2>5, <2>6 DEF Typed, Fields, SameGate
  <2> HIDE DEF c
  <2>8. /\ w \in L!FlowRec /\ w.at = "unwatch" /\ w.s = s /\ w.rec = NoLive /\ w.todo = {}
        /\ ~w.own /\ ~w.restores
    BY DEF w, L!NoFlow, L!FlowRec, L!Commands
  <2>9. /\ Typed(watched') /\ SameFlows(c, watched', f) /\ watched'.flows[f] = w /\ SameGate(c, watched')
        /\ SameWish(c, watched') /\ watched'.entry = c.entry /\ watched'.run = c.run
        /\ watched'.recovery = c.recovery /\ watched'.viewing = c.viewing
    <3>1. /\ Typed(c) /\ f \in StoreFlow /\ w \in L!FlowRec /\ (w.at # "none" => w.s \in LiveStream)
          /\ watched' = L!Put(c, f, w)
      BY <1>1, <2>1, <2>7, <2>8
    <3> QED BY ONLY <3>1, PutFacts
  <2>10. watched'.lapsed = b /\ watched'.wanted = wan /\ watched'.cancelled = watched.cancelled \cup {s}
    BY <1>3, <2>2, <2>4, <2>5, <2>7, <2>9 DEF SameWish, can
  <2>11. SameGate(watched, watched') /\ d.link = watched.link
    BY <1>3, <2>2, <2>4, <2>5, <2>7, <2>9 DEF SameGate
  <2>12. /\ watched'.viewing = IF watched.link THEN watched.viewing \ {s} ELSE watched.viewing
         /\ watched'.entry = [watched.entry EXCEPT ![s] = "none"]
         /\ watched'.run = [watched.run EXCEPT ![s] = "none"]
         /\ watched'.recovery = [watched.recovery EXCEPT ![s] = L!NoRecovery]
    BY <1>3, <2>2, <2>4, <2>5, <2>7, <2>9, <2>11
  <2>13. ASSUME NEW g \in StoreFlow \ {f}
         PROVE  /\ watched'.flows[g].at = watched.flows[g].at /\ watched'.flows[g].s = watched.flows[g].s
                /\ watched'.flows[g].todo = watched.flows[g].todo
                /\ watched'.flows[g].restores = watched.flows[g].restores
                /\ watched'.flows[g].rec = IF watched.flows[g].rec = s THEN NoLive ELSE watched.flows[g].rec
                /\ watched'.flows[g].own <=> watched.flows[g].own /\ watched.flows[g].s # s
    BY <2>5, <2>7, <2>9, <2>4, <1>3, <2>2 DEF SameFlows, Disowns, Fades
  <2>14. Closed(watched, s, f, watched')
    BY <2>8, <2>9, <2>10, <2>11, <2>12, <2>13 DEF Closed, wan
  <2>15. ~b => Good(watched', {})
    BY <1>1, <1>4, <2>14, ClosedGood
  <2> QED BY <2>9, <2>10, <2>15 DEF WatchInv
<1> QED BY <1>5, <1>6

-----------------------------------------------------------------------------
(* The gateway connection is lost, and comes back.                         *)

\* What is shown waits for the connection: nobody owns it, and a runtime is not retried.
Suspended(v, todo, u) ==
  /\ SameGate(v, u) /\ u.cancelled = v.cancelled /\ u.wanted = v.wanted /\ u.viewing = v.viewing
  /\ \A s \in LiveStream :
       /\ u.run[s] = IF v.run[s] = "none" THEN "none" ELSE "idle"
       /\ u.entry[s] = IF s \in todo THEN "reconnecting" ELSE v.entry[s]
       /\ u.recovery[s] = IF v.run[s] = "none" THEN v.recovery[s] ELSE L!NoRecovery
  /\ \A f \in StoreFlow :
       /\ u.flows[f].at = v.flows[f].at /\ u.flows[f].s = v.flows[f].s
       /\ u.flows[f].todo = v.flows[f].todo /\ u.flows[f].restores = v.flows[f].restores
       /\ ~u.flows[f].own
       /\ u.flows[f].rec = IF v.flows[f].rec # NoLive /\ v.run[v.flows[f].rec] # "none" THEN NoLive
                           ELSE v.flows[f].rec

LEMMA SuspendFacts ==
  ASSUME NEW v, Typed(v), NEW todo, NEW u, u = L!Suspend(v, todo)
  PROVE  Typed(u) /\ Suspended(v, todo, u) /\ (u.lapsed <=> v.lapsed \/ L!Replaced(v))
<1> DEFINE b == v.lapsed \/ L!Replaced(v)
           ru == [s \in LiveStream |-> IF v.run[s] = "none" THEN "none" ELSE "idle"]
           en == [s \in LiveStream |-> IF s \in todo THEN "reconnecting" ELSE v.entry[s]]
           rs == [s \in LiveStream |-> IF v.run[s] = "none" THEN v.recovery[s] ELSE L!NoRecovery]
           fl == [f \in StoreFlow |->
                    [v.flows[f] EXCEPT !.own = FALSE,
                       !.rec = IF @ # NoLive /\ v.run[@] # "none" THEN NoLive ELSE @]]
<1>1. u = [v EXCEPT !.lapsed = b, !.run = ru, !.entry = en, !.recovery = rs, !.flows = fl]
  BY DEF L!Suspend
<1>2. b \in BOOLEAN
  BY DEF Typed, L!Replaced
<1>3. /\ ru \in [LiveStream -> L!Runtime] /\ en \in [LiveStream -> L!Entry]
      /\ rs \in [LiveStream -> L!RecoveryRec]
  BY EntryWords, NoFlowTyped DEF Typed
<1>4. v.flows \in [StoreFlow -> L!FlowRec]
  BY DEF Typed
<1>5. ASSUME NEW f \in StoreFlow
      PROVE  /\ fl[f] \in L!FlowRec /\ fl[f].at = v.flows[f].at /\ fl[f].s = v.flows[f].s
             /\ fl[f].todo = v.flows[f].todo /\ fl[f].restores = v.flows[f].restores
             /\ ~fl[f].own
             /\ fl[f].rec = IF v.flows[f].rec # NoLive /\ v.run[v.flows[f].rec] # "none" THEN NoLive
                            ELSE v.flows[f].rec
  <2> DEFINE w == v.flows[f]
             r == IF w.rec # NoLive /\ v.run[w.rec] # "none" THEN NoLive ELSE w.rec
  <2>1. w \in L!FlowRec
    BY <1>4
  <2>2. fl[f] = [w EXCEPT !.own = FALSE, !.rec = r]
    OBVIOUS
  <2>3. r \in LiveStream \cup {NoLive}
    BY <2>1, FlowTypes
  <2> HIDE DEF w, r, fl
  <2>4. /\ fl[f] \in L!FlowRec /\ fl[f].at = w.at /\ fl[f].s = w.s
        /\ fl[f].todo = w.todo /\ fl[f].restores = w.restores /\ ~fl[f].own /\ fl[f].rec = r
    BY <2>1, <2>2, <2>3, ZenonT(30) DEF L!FlowRec
  <2> QED BY <2>4 DEF w, r
<1>6. fl \in [StoreFlow -> L!FlowRec]
  BY <1>5, ZenonT(30)
<1>7. \A s \in LiveStream :
        /\ ru[s] = IF v.run[s] = "none" THEN "none" ELSE "idle"
        /\ en[s] = IF s \in todo THEN "reconnecting" ELSE v.entry[s]
        /\ rs[s] = IF v.run[s] = "none" THEN v.recovery[s] ELSE L!NoRecovery
  OBVIOUS
<1>8. b <=> v.lapsed \/ L!Replaced(v)
  OBVIOUS
<1> HIDE DEF b, ru, en, rs, fl
<1>9. Typed(u)
  BY <1>1, <1>2, <1>3, <1>5, <1>6 DEF Typed, Fields
<1>10. /\ SameGate(v, u) /\ u.cancelled = v.cancelled /\ u.wanted = v.wanted /\ u.viewing = v.viewing
       /\ u.run = ru /\ u.entry = en /\ u.recovery = rs /\ u.flows = fl /\ u.lapsed = b
  BY <1>1 DEF Typed, Fields, SameGate
<1> QED BY <1>5, <1>7, <1>8, <1>9, <1>10 DEF Suspended

\* What is suspended while the gateway counts nobody.
LEMMA SuspendedGood ==
  ASSUME NEW v, Typed(v), Good(v, {}), ~L!Replaced(v), NEW o, Typed(o),
         o.entry = v.entry, o.run = v.run, o.cancelled = v.cancelled, o.room = v.room,
         o.flows = v.flows, o.recovery = v.recovery, ~o.link, o.airs = v.airs, o.over = v.over,
         o.viewing = {}, o.wanted = v.wanted,
         NEW todo, todo = {s \in LiveStream : v.entry[s] \notin {"none", "ended"}},
         NEW u, Typed(u), Suspended(o, todo, u)
  PROVE  Good(u, {})
<1>1. NoLive \notin LiveStream
  BY ClientAssumption DEF WatchAssumption
<1>2. \A s \in LiveStream :
        /\ u.run[s] = IF v.run[s] = "none" THEN "none" ELSE "idle"
        /\ u.entry[s] = IF v.entry[s] \in {"none", "ended"} THEN v.entry[s] ELSE "reconnecting"
        /\ u.recovery[s] = IF v.run[s] = "none" THEN v.recovery[s] ELSE L!NoRecovery
  BY DEF Suspended
<1>3. \A f \in StoreFlow :
        /\ u.flows[f].at = v.flows[f].at /\ u.flows[f].s = v.flows[f].s
        /\ u.flows[f].todo = v.flows[f].todo /\ u.flows[f].restores = v.flows[f].restores
        /\ ~u.flows[f].own
        /\ u.flows[f].rec = IF v.flows[f].rec # NoLive /\ v.run[v.flows[f].rec] # "none" THEN NoLive
                            ELSE v.flows[f].rec
  BY DEF Suspended
<1>4. /\ u.room = v.room /\ ~u.link /\ u.airs = v.airs /\ u.over = v.over /\ u.viewing = {}
      /\ u.wanted = v.wanted /\ u.cancelled = v.cancelled
  BY DEF Suspended, SameGate
<1>5. \A f \in StoreFlow : u.flows[f].rec # NoLive =>
        /\ u.flows[f].rec = v.flows[f].rec /\ v.flows[f].rec \in LiveStream
        /\ v.run[v.flows[f].rec] = "none"
  BY <1>3, FlowTypes DEF Typed
<1>6. Fits(u)
  <2> SUFFICES ASSUME NEW f \in StoreFlow PROVE FlowFits(u.flows[f])
    BY DEF Fits
  <2>1. FlowFits(v.flows[f])
    BY DEF Good, Nearly, Fits
  <2> QED BY <1>3, <1>5, <2>1 DEF FlowFits
<1>7. Reports(u)
  BY <1>2, <1>5, <1>3 DEF Good, Nearly, Reports, L!NoRecovery
<1>8. Shows(u, {})
  BY <1>2, <1>4, <1>3 DEF Good, Nearly, Shows, Shown, Finds, Own
<1>9. Counts(u, {})
  BY <1>3, <1>4 DEF Good, Nearly, Counts, Own
<1>10. Cancels(u)
  <2>1. Cancels(v) /\ v.cancelled \subseteq LiveStream
    BY DEF Good, Nearly, Typed
  <2>2. \A f \in StoreFlow : v.flows[f].at # "none" => v.flows[f].s \in LiveStream
    BY DEF Typed
  <2> QED BY <1>1, <1>2, <1>3, <1>4, <1>5, <2>1, <2>2 DEF Cancels
<1>11. Wants(u, {}, {})
  BY <1>2, <1>4, <1>3, <1>5 DEF Good, Nearly, Wants, Wanted, L!NoRecovery, L!Replaced, L!Replaces,
     Serves, Gone
<1> QED BY <1>6, <1>7, <1>8, <1>9, <1>10, <1>11 DEF Good, Nearly

LEMMA DropStep == ASSUME WatchInv(watched), L!Drop PROVE WatchInv(watched')
<1> DEFINE o == [watched EXCEPT !.link = FALSE, !.viewing = {}]
           todo == {s \in LiveStream : watched.entry[s] \notin {"none", "ended"}}
           x == L!Suspend(o, todo)
<1>1. Typed(watched)
  BY DEF WatchInv
<1>2. /\ Typed(o) /\ o.entry = watched.entry /\ o.run = watched.run /\ o.cancelled = watched.cancelled
      /\ o.room = watched.room /\ o.flows = watched.flows /\ o.recovery = watched.recovery
      /\ ~o.link /\ o.airs = watched.airs /\ o.over = watched.over /\ o.viewing = {}
      /\ o.wanted = watched.wanted /\ o.lapsed = watched.lapsed /\ o.sfu = watched.sfu
  BY <1>1 DEF Typed, Fields
<1>3. watched' = IF \A s \in LiveStream : watched.entry[s] = "none" THEN o ELSE x
  BY <1>2 DEF L!Drop
<1> HIDE DEF o, x, todo
<1>4. CASE \A s \in LiveStream : watched.entry[s] = "none"
  <2>1. watched' = o
    BY <1>3, <1>4
  <2>2. ASSUME ~o.lapsed PROVE Good(o, {})
    <3>1. Good(watched, {})
      BY <1>2, <2>2 DEF WatchInv
    <3>2. \A s \in LiveStream : watched.run[s] = "none"
      BY <1>4, <3>1 DEF Good, Nearly, Shows, Shown
    <3>3. ASSUME NEW f \in StoreFlow PROVE ~watched.flows[f].own
      BY <3>1, <1>4, <3>2, OwnerFinds DEF Good, Nearly, Fits, FlowFits, Gets, Mends
    <3>4. \A f \in StoreFlow : watched.flows[f].rec \in LiveStream \cup {NoLive}
      BY <1>1, FlowTypes DEF Typed
    <3>5. Suspended(o, todo, o)
      BY <1>2, <1>4, <3>2, <3>3, <3>4 DEF Suspended, SameGate, todo
    <3>6. ~L!Replaced(watched)
      BY <3>3 DEF L!Replaced
    <3> QED BY <1>1, <1>2, <3>1, <3>5, <3>6, SuspendedGood DEF todo
  <2> QED BY <1>2, <2>1, <2>2 DEF WatchInv
<1>5. CASE ~\A s \in LiveStream : watched.entry[s] = "none"
  BY <1>3, <1>5, <1>2, SuspendFacts, <1>1, SuspendedGood, ClientAssumption DEF x, L!Replaced,
     WatchInv, todo
<1> QED BY <1>4, <1>5

\* The client leaves: nothing is watched, wanted or to be retried.
LEMMA DisconnectedStep == ASSUME WatchInv(watched), L!Disconnected PROVE WatchInv(watched')
<1> DEFINE v == L!Suspend(watched, {})
           none == [s \in LiveStream |-> "none"]
           b == \/ v.lapsed \/ \E s \in LiveStream : v.recovery[s] # L!NoRecovery
                \/ \E f \in StoreFlow : v.flows[f].todo # {}
           u == [v EXCEPT !.link = FALSE, !.viewing = {}, !.wanted = {}, !.cancelled = {},
                          !.run = none, !.entry = none, !.room = none, !.lapsed = b]
<1>1. Typed(watched) /\ watched' = u
  BY DEF L!Disconnected, WatchInv
<1>2. Typed(v) /\ Suspended(watched, {}, v) /\ (v.lapsed <=> watched.lapsed \/ L!Replaced(watched))
  BY <1>1, SuspendFacts
<1>3. /\ none \in [LiveStream -> L!Entry] /\ none \in [LiveStream -> L!Runtime]
      /\ none \in [LiveStream -> Room] /\ \A s \in LiveStream : none[s] = "none"
  BY EntryWords DEF Room
<1>4. b \in BOOLEAN
  BY <1>2 DEF Typed
<1>5. ~b => /\ ~v.lapsed /\ \A s \in LiveStream : v.recovery[s] = L!NoRecovery
            /\ \A f \in StoreFlow : v.flows[f].todo = {}
  OBVIOUS
<1> HIDE DEF v, none, b
<1>6. /\ Typed(u) /\ ~u.link /\ u.viewing = {} /\ u.wanted = {} /\ u.cancelled = {} /\ u.run = none
      /\ u.entry = none /\ u.room = none /\ u.lapsed = b /\ u.recovery = v.recovery
      /\ u.flows = v.flows /\ u.airs = v.airs /\ u.over = v.over
  BY <1>2, <1>3, <1>4 DEF Typed, Fields
<1> HIDE DEF u
<1>7. ASSUME ~b PROVE Good(u, {})
  <2>1. Good(watched, {}) /\ \A s \in LiveStream : v.recovery[s] = L!NoRecovery
    BY <1>2, <1>5, <1>7 DEF WatchInv
  <2>2. \A s \in LiveStream : u.recovery[s].attempt = "none" /\ u.recovery[s].phase = "none"
    BY <1>6, <2>1 DEF L!NoRecovery
  <2>3. ASSUME NEW f \in StoreFlow
        PROVE  /\ u.flows[f].at = watched.flows[f].at /\ u.flows[f].s = watched.flows[f].s
               /\ u.flows[f].todo = {} /\ u.flows[f].restores = watched.flows[f].restores
               /\ ~u.flows[f].own /\ u.flows[f].rec = NoLive
    <3>1. /\ u.flows[f].at = watched.flows[f].at /\ u.flows[f].s = watched.flows[f].s
          /\ u.flows[f].todo = {} /\ u.flows[f].restores = watched.flows[f].restores
          /\ ~u.flows[f].own
          /\ u.flows[f].rec = IF watched.flows[f].rec # NoLive /\ watched.run[watched.flows[f].rec] # "none"
                              THEN NoLive ELSE watched.flows[f].rec
      BY <1>2, <1>5, <1>6, <1>7 DEF Suspended
    <3>2. ASSUME u.flows[f].rec # NoLive PROVE FALSE
      <4>1. watched.flows[f].rec \in LiveStream /\ watched.run[watched.flows[f].rec] = "none"
            /\ watched.flows[f].rec # NoLive
        BY <1>1, <3>1, <3>2, FlowTypes DEF Typed
      <4>2. watched.recovery[watched.flows[f].rec].phase = "running"
        BY <2>1, <4>1 DEF Good, Nearly, Reports
      <4>3. v.recovery[watched.flows[f].rec] = watched.recovery[watched.flows[f].rec]
        BY <1>2, <4>1 DEF Suspended
      <4> QED BY <1>6, <2>2, <4>1, <4>2, <4>3
    <3> QED BY <3>1, <3>2
  <2>4. Fits(u)
    <3> SUFFICES ASSUME NEW f \in StoreFlow PROVE FlowFits(u.flows[f])
      BY DEF Fits
    <3>1. FlowFits(watched.flows[f])
      BY <2>1 DEF Good, Nearly, Fits
    <3> QED BY <2>3, <3>1 DEF FlowFits
  <2>5. Reports(u)
    BY <2>2, <2>3 DEF Reports
  <2>6. Shows(u, {})
    BY <1>3, <1>6, <2>3 DEF Shows, Shown, Finds, Own
  <2>7. watched.airs \cap watched.over = {} /\ u.airs = watched.airs /\ u.over = watched.over
    BY <1>2, <1>6, <2>1 DEF Good, Nearly, Counts, Suspended, SameGate
  <2>8. Counts(u, {})
    BY <1>3, <1>6, <2>3, <2>7 DEF Counts, Own
  <2>9. Cancels(u)
    BY <1>6, <2>3, ClientAssumption DEF Typed, Cancels, WatchAssumption
  <2>10. Wants(u, {}, {})
    BY <2>1, <2>3, <2>7, <1>3, <1>6, <2>2 DEF Good, Nearly, Wants, Serves, L!Replaces, Wanted
  <2> QED BY <2>4, <2>5, <2>6, <2>8, <2>9, <2>10 DEF Good, Nearly
<1> QED BY <1>1, <1>6, <1>7 DEF WatchInv

\* Every stream that is shown is watched anew, one after the other.
LEMMA BeginRestoreGood ==
  ASSUME NEW v, Typed(v), NEW f \in StoreFlow, v.flows[f].at = "none",
         ~v.lapsed => /\ Fits(v) /\ Reports(v) /\ Cancels(v) /\ Wants(v, {}, {})
                      /\ v.viewing = {} /\ v.airs \cap v.over = {},
         NEW x \in L!BeginRestore(v, f)
  PROVE  WatchInv(x)
<1> DEFINE todo == {s \in LiveStream : v.entry[s] \notin {"none", "ended"}}
           b == v.lapsed \/ L!Replaced(v)
           ru == [s \in LiveStream |-> "none"]
           en == [s \in LiveStream |-> IF s \in todo THEN "reconnecting" ELSE v.entry[s]]
           fl == [g \in StoreFlow |-> [v.flows[g] EXCEPT !.own = FALSE]]
           u == [v EXCEPT !.lapsed = b, !.run = ru, !.entry = en, !.flows = fl]
<1>1. x \in L!RestoreNext(u, f, todo)
  BY DEF L!BeginRestore
<1>2. b \in BOOLEAN
  BY DEF Typed, L!Replaced
<1>3. /\ ru \in [LiveStream -> L!Runtime] /\ en \in [LiveStream -> L!Entry]
      /\ \A s \in LiveStream : ru[s] = "none"
      /\ \A s \in LiveStream : en[s] = IF s \in todo THEN "reconnecting" ELSE v.entry[s]
  BY EntryWords DEF Typed
<1>4. v.flows \in [StoreFlow -> L!FlowRec]
  BY DEF Typed
<1>5. fl \in [StoreFlow -> L!FlowRec] /\ \A g \in StoreFlow : Fades(v.flows[g], fl[g]) /\ ~fl[g].own
  <2>1. ASSUME NEW g \in StoreFlow
        PROVE  fl[g] \in L!FlowRec /\ Fades(v.flows[g], fl[g]) /\ ~fl[g].own
    <3> DEFINE w == v.flows[g]
    <3>1. w \in L!FlowRec /\ fl[g] = [w EXCEPT !.own = FALSE]
      BY <1>4
    <3> HIDE DEF w, fl
    <3>2. fl[g] \in L!FlowRec /\ Fades(w, fl[g]) /\ ~fl[g].own
      BY ONLY <3>1, FadeFacts
    <3> QED BY <3>2 DEF w
  <2> QED BY <2>1
<1>6. todo \in SUBSET LiveStream /\ \A s \in LiveStream : s \in todo <=> v.entry[s] \notin {"none", "ended"}
  OBVIOUS
<1>7. ~b => ~v.lapsed /\ ~L!Replaced(v)
  OBVIOUS
<1> HIDE DEF todo, b, ru, en, fl
<1>8. /\ Typed(u) /\ SameGate(v, u) /\ u.cancelled = v.cancelled /\ u.wanted = v.wanted
      /\ u.viewing = v.viewing /\ u.recovery = v.recovery /\ u.run = ru /\ u.entry = en
      /\ u.flows = fl /\ u.lapsed = b
  BY <1>2, <1>3, <1>5 DEF Typed, Fields, SameGate, Fades
<1> HIDE DEF u
<1>9. ASSUME ~b PROVE Good(u, todo)
  <2>1. /\ Fits(v) /\ Reports(v) /\ Cancels(v) /\ Wants(v, {}, {}) /\ v.viewing = {}
        /\ v.airs \cap v.over = {} /\ ~L!Replaced(v)
    BY <1>7, <1>9
  <2>2. \A g \in StoreFlow : Fades(v.flows[g], u.flows[g]) /\ ~u.flows[g].own
    BY <1>5, <1>8
  <2>3. Fits(u)
    <3> SUFFICES ASSUME NEW g \in StoreFlow PROVE FlowFits(u.flows[g])
      BY DEF Fits
    <3>1. FlowFits(v.flows[g])
      BY <2>1 DEF Fits
    <3> QED BY <2>2, <3>1 DEF FlowFits, Fades
  <2>4. Reports(u)
    BY <1>8, <2>1, <2>2 DEF Reports, Fades
  <2>5. Shows(u, todo)
    BY <1>3, <1>6, <1>8, <2>2 DEF Shown, Finds, Own, Shows
  <2>6. Counts(u, {})
    BY <1>3, <1>8, <2>1, <2>2 DEF Counts, Own, SameGate
  <2>7. Cancels(u)
    BY <1>3, <1>6, <1>8, <2>1, <2>2 DEF Typed, Cancels, Fades
  <2>8. Wants(u, todo, {})
    BY <2>1, <1>6, <1>8, <1>3, <1>4, FlowTypes, <2>2 DEF Wants, Wanted, L!Replaced, SameGate,
       L!Replaces, Fades, Serves, Gone
  <2> QED BY <2>3, <2>4, <2>5, <2>6, <2>7, <2>8 DEF Good, Nearly
<1>10. u.flows[f].at = "none"
  BY <1>5, <1>8 DEF Fades
<1> QED BY <1>1, <1>6, <1>8, <1>9, <1>10, RestoreNextGood

LEMMA ReconnectedStep == ASSUME WatchInv(watched), L!Reconnected PROVE WatchInv(watched')
<1> DEFINE f == L!Slot
           v == [watched EXCEPT !.link = TRUE]
<1>1. /\ Typed(watched) /\ f \in StoreFlow /\ watched.flows[f].at = "none" /\ ~watched.link
      /\ watched' \in L!BeginRestore(v, f)
  BY SlotFacts DEF L!Reconnected, WatchInv
<1> HIDE DEF f
<1>2. /\ Typed(v) /\ v.flows = watched.flows /\ v.recovery = watched.recovery /\ v.entry = watched.entry
      /\ v.run = watched.run /\ v.cancelled = watched.cancelled /\ v.wanted = watched.wanted
      /\ v.airs = watched.airs /\ v.over = watched.over /\ v.room = watched.room
      /\ v.viewing = watched.viewing /\ v.lapsed = watched.lapsed
  BY <1>1 DEF Typed, Fields
<1> HIDE DEF v
<1>3. ASSUME ~v.lapsed
      PROVE  /\ Fits(v) /\ Reports(v) /\ Cancels(v) /\ Wants(v, {}, {})
             /\ v.viewing = {} /\ v.airs \cap v.over = {}
  BY <1>2, <1>3, <1>1 DEF WatchInv, Good, Nearly, Fits, Reports, Cancels, Counts, Wants, Wanted,
     Serves, Gone
<1>4. v.flows[f].at = "none"
  BY <1>1, <1>2
<1> QED BY <1>1, <1>2, <1>3, <1>4, BeginRestoreGood

LEMMA ModeUpdatedStep == ASSUME WatchInv(watched), L!ModeUpdated PROVE WatchInv(watched')
<1> DEFINE f == L!Slot
           b == watched.lapsed \/ \E g \in StoreFlow : watched.flows[g].at = "admitted"
           more == watched.over \cup watched.airs
           v == [watched EXCEPT !.sfu = ~@, !.viewing = {}, !.airs = {}, !.over = more, !.lapsed = b]
<1>1. /\ Typed(watched) /\ f \in StoreFlow /\ watched.flows[f].at = "none"
      /\ watched' \in L!BeginRestore(v, f)
  BY SlotFacts DEF L!ModeUpdated, WatchInv, L!At
<1>2. b \in BOOLEAN /\ more \subseteq LiveStream /\ (~b => ~watched.lapsed)
  BY <1>1 DEF Typed
<1> HIDE DEF f, b
<1>3. /\ Typed(v) /\ v.flows = watched.flows /\ v.recovery = watched.recovery /\ v.entry = watched.entry
      /\ v.run = watched.run /\ v.cancelled = watched.cancelled /\ v.wanted = watched.wanted
      /\ v.airs = {} /\ v.over = more /\ v.room = watched.room /\ v.viewing = {} /\ v.lapsed = b
  <2> HIDE DEF more
  <2> QED BY <1>1, <1>2 DEF Typed, Fields
<1> HIDE DEF v
<1>4. ASSUME ~v.lapsed
      PROVE  /\ Fits(v) /\ Reports(v) /\ Cancels(v) /\ Wants(v, {}, {})
             /\ v.viewing = {} /\ v.airs \cap v.over = {}
  BY <1>2, <1>3, <1>4 DEF WatchInv, Good, Nearly, Fits, Reports, Cancels, Wants, Wanted, Serves,
     Gone
<1>5. v.flows[f].at = "none"
  BY <1>1, <1>3
<1> QED BY <1>1, <1>3, <1>4, <1>5, BeginRestoreGood

-----------------------------------------------------------------------------
(* The recoveries.                                                         *)

\* A runtime is being mended; started holds the function that mends it, if it begins or goes on.
Mended(v, s, started, u) ==
  /\ SameGate(v, u) /\ u.cancelled = v.cancelled /\ u.wanted = v.wanted /\ u.viewing = v.viewing
  /\ \A t \in LiveStream \ {s} :
       u.entry[t] = v.entry[t] /\ u.run[t] = v.run[t] /\ u.recovery[t] = v.recovery[t]
  /\ u.run[s] # "none" /\ u.recovery[s].attempt # "none"
  /\ \/ /\ u.entry[s] = v.entry[s] /\ u.run[s] = v.run[s]
        /\ \A g \in StoreFlow \ started : u.flows[g].own <=> v.flows[g].own
     \/ /\ u.entry[s] = "reconnecting"
        /\ \A g \in StoreFlow \ started : u.flows[g].own <=> v.flows[g].own /\ v.flows[g].s # s
  /\ \A g \in StoreFlow \ started : Fades(v.flows[g], u.flows[g])
  /\ \A g \in started :
       /\ v.flows[g].at \in {"none", "reconnect"} /\ (v.flows[g].at = "reconnect" => v.flows[g].s = s)
       /\ u.flows[g].at \in Mends /\ u.flows[g].s = s /\ u.flows[g].rec = s /\ u.flows[g].todo = {}
       /\ ~u.flows[g].restores /\ u.flows[g].own /\ (u.flows[g].at = "rebuild" => u.link)
       /\ \A h \in StoreFlow : v.flows[h].rec = s => h = g
       /\ \A h \in started : h = g
  /\ IF started = {} THEN u.recovery[s] = v.recovery[s]
     ELSE u.recovery[s].attempt = "media" /\ u.recovery[s].phase = "running"

LEMMA MendedGood ==
  ASSUME NEW v, Typed(v), Good(v, {}), NEW s \in v.wanted, v.run[s] # "none",
         NEW started \in SUBSET StoreFlow, NEW u, Typed(u), Mended(v, s, started, u)
  PROVE  Good(u, {})
<1>1. s \in LiveStream /\ NoLive \notin LiveStream
  BY ClientAssumption DEF Typed, WatchAssumption
<1>2. /\ SameGate(v, u) /\ u.cancelled = v.cancelled /\ u.wanted = v.wanted /\ u.viewing = v.viewing
      /\ \A t \in LiveStream \ {s} :
           u.entry[t] = v.entry[t] /\ u.run[t] = v.run[t] /\ u.recovery[t] = v.recovery[t]
      /\ u.run[s] # "none" /\ u.recovery[s].attempt # "none"
  BY DEF Mended
<1>3. \A g \in StoreFlow \ started :
        Fades(v.flows[g], u.flows[g]) /\ (v.flows[g].s # s => (u.flows[g].own <=> v.flows[g].own))
                                      /\ (u.flows[g].own => v.flows[g].own)
  BY DEF Mended
<1>4. \/ /\ u.entry[s] = v.entry[s] /\ u.run[s] = v.run[s]
         /\ \A g \in StoreFlow \ started : u.flows[g].own <=> v.flows[g].own
      \/ /\ u.entry[s] = "reconnecting"
         /\ \A g \in StoreFlow \ started : u.flows[g].own <=> v.flows[g].own /\ v.flows[g].s # s
  BY DEF Mended
<1>5. \A g \in started :
        /\ v.flows[g].at \in {"none", "reconnect"} /\ (v.flows[g].at = "reconnect" => v.flows[g].s = s)
        /\ u.flows[g].at \in Mends /\ u.flows[g].s = s /\ u.flows[g].rec = s /\ u.flows[g].todo = {}
        /\ ~u.flows[g].restores /\ u.flows[g].own /\ (u.flows[g].at = "rebuild" => u.link)
        /\ \A h \in StoreFlow : v.flows[h].rec = s => h = g
        /\ \A h \in started : h = g
  BY DEF Mended
<1>6. IF started = {} THEN u.recovery[s] = v.recovery[s]
      ELSE u.recovery[s].attempt = "media" /\ u.recovery[s].phase = "running"
  BY DEF Mended
<1>7. \A g \in started : /\ g \in StoreFlow /\ v.flows[g].todo = {} /\ v.flows[g].rec \in {NoLive, s}
                         /\ v.flows[g].own => v.flows[g].s = s
  BY <1>5 DEF Good, Nearly, Fits, FlowFits, Gets, Mends
<1>8. \A g \in StoreFlow : v.flows[g].rec \in LiveStream \cup {NoLive}
  BY FlowTypes DEF Typed
<1>9. Fits(u)
  <2> SUFFICES ASSUME NEW g \in StoreFlow PROVE FlowFits(u.flows[g])
    BY DEF Fits
  <2>1. CASE g \in started
    BY <1>1, <1>5, <2>1 DEF FlowFits, Mends
  <2>2. CASE g \notin started
    BY <1>3, <2>2 DEF Good, Nearly, Fits, FlowFits, Fades
  <2> QED BY <2>1, <2>2
<1>10. Reports(u)
  <2>1. Reports(v)
    BY DEF Good, Nearly
  <2>2. \A t \in LiveStream : u.recovery[t].phase # "none" => u.recovery[t].attempt # "none"
    BY <1>2, <2>1 DEF Reports
  <2>3. ASSUME NEW g \in StoreFlow \ started, u.flows[g].rec # NoLive
        PROVE  /\ u.flows[g].rec = v.flows[g].rec /\ u.flows[g].at = v.flows[g].at
               /\ u.recovery[u.flows[g].rec] = v.recovery[v.flows[g].rec]
               /\ started # {} => u.flows[g].rec # s
    <3>1. u.flows[g].rec = v.flows[g].rec /\ u.flows[g].at = v.flows[g].at
      BY <1>3 DEF Fades
    <3>2. started # {} => u.flows[g].rec # s
      BY <1>5, <3>1
    <3> QED BY <1>2, <1>6, <1>8, <2>3, <3>1, <3>2
  <2>4. ASSUME NEW g \in StoreFlow, u.flows[g].rec # NoLive
        PROVE  /\ u.recovery[u.flows[g].rec].phase = "running"
               /\ u.recovery[u.flows[g].rec].attempt = IF u.flows[g].at \in Mends THEN "media" ELSE "gateway"
    <3>1. CASE g \in started
      BY <1>5, <1>6, <3>1
    <3>2. CASE g \notin started
      BY <2>1, <2>3, <2>4, <3>2 DEF Reports
    <3> QED BY <3>1, <3>2
  <2>5. ASSUME NEW g \in StoreFlow, NEW h \in StoreFlow, u.flows[g].rec # NoLive,
               u.flows[h].rec = u.flows[g].rec
        PROVE  g = h
    <3>1. CASE g \in started /\ h \in started
      BY <1>5, <3>1
    <3>2. CASE g \in started /\ h \notin started
      BY <1>1, <1>5, <2>3, <2>5, <3>2
    <3>3. CASE g \notin started /\ h \in started
      BY <1>1, <1>5, <2>3, <2>5, <3>3
    <3>4. CASE g \notin started /\ h \notin started
      BY <2>1, <2>3, <2>5, <3>4 DEF Reports
    <3> QED BY <3>1, <3>2, <3>3, <3>4
  <2> QED BY <2>2, <2>4, <2>5 DEF Reports
<1>11. Shows(u, {})
  <2>1. Shows(v, {})
    BY DEF Good, Nearly
  <2>2. ASSUME NEW t \in LiveStream PROVE Shown(u, t, {})
    <3>1. Shown(v, t, {})
      BY <2>1 DEF Shows
    <3>2. (\E g \in StoreFlow : t \in v.flows[g].todo) => (\E g \in StoreFlow : t \in u.flows[g].todo)
      BY <1>3, <1>7 DEF Fades
    <3>3. CASE t # s
      <4>1. \A at : On(v, t, at) => On(u, t, at)
        BY <1>3, <1>7, <3>3 DEF On, Own, Fades
      <4> QED BY <1>2, <3>1, <3>2, <3>3, <4>1 DEF Shown, SameGate
    <3>4. CASE t = s /\ u.entry[s] = "reconnecting"
      BY <1>2, <3>4 DEF Shown
    <3>5. CASE /\ t = s /\ u.entry[s] = v.entry[s] /\ u.run[s] = v.run[s]
               /\ \A g \in StoreFlow \ started : u.flows[g].own <=> v.flows[g].own
      <4>1. On(v, s, Gets) => On(u, s, Gets)
        <5>1. ASSUME NEW g \in StoreFlow, Own(v, g, Gets), v.flows[g].s = s PROVE On(u, s, Gets)
          <6>1. g \notin started
            BY <1>5, <5>1 DEF Own, Gets
          <6> QED BY <1>3, <3>5, <5>1, <6>1 DEF On, Own, Fades
        <5> QED BY <5>1 DEF On
      <4> QED BY <1>2, <3>1, <3>5, <4>1 DEF Shown, SameGate
    <3> QED BY <1>4, <3>3, <3>4, <3>5
  <2>3. ASSUME NEW g \in StoreFlow PROVE Finds(u, g)
    BY <1>2, <1>5, <1>3, <2>1, <1>4 DEF Finds, Own, Mends, Fades, Shows, Good, Nearly, Fits,
       FlowFits, Gets, SameGate
  <2> QED BY <2>2, <2>3 DEF Shows
<1>12. Counts(u, {})
  <2>1. Counts(v, {}) /\ v.viewing \subseteq LiveStream
    BY DEF Good, Nearly, Typed
  <2>2. ASSUME NEW t \in LiveStream, Keeps(v, t) PROVE Keeps(u, t)
    BY <1>2, <1>3, <1>5, <2>2 DEF Keeps, Fades
  <2>3. ASSUME NEW g \in StoreFlow, Own(u, g, {"admitted", "consume"}) PROVE u.flows[g].s \in u.viewing
    BY <1>5, <2>3, <1>2, <1>3, <2>1 DEF Own, Mends, Counts, Fades
  <2>4. \A t \in LiveStream : u.run[t] # "none" => v.run[t] # "none"
    BY <1>2
  <2> QED BY <1>2, <2>1, <2>2, <2>3, <2>4 DEF Counts, SameGate
<1>13. Cancels(u)
  BY <1>2, <1>3, <1>5 DEF Good, Nearly, Typed, Cancels, Mends, Fades
<1>14. Wants(u, {}, {})
  BY <1>3, <1>5, <1>7, <1>2, <1>1, <1>8 DEF Good, Nearly, L!Replaces, Fades, Wants, Wanted,
     SameGate, Serves, Gone
<1> QED BY <1>9, <1>10, <1>11, <1>12, <1>13, <1>14 DEF Good, Nearly

LEMMA ConnectionFailsStep ==
  ASSUME WatchInv(watched), NEW s \in LiveStream, L!ConnectionFails(s) PROVE WatchInv(watched')
<1> DEFINE f == L!Slot
           u == L!UpdateEntry(watched, s, "reconnecting")
           w == [L!NoFlow EXCEPT !.at = "reconnect", !.s = s, !.rec = s, !.own = TRUE]
<1>1. /\ Typed(watched) /\ f \in StoreFlow /\ watched.flows[f].at = "none" /\ watched.run[s] = "served"
      /\ watched' = L!StartRecovery(u, s, "media", f)
  BY SlotFacts DEF L!ConnectionFails, WatchInv
<1>2. /\ w \in L!FlowRec /\ w.at = "reconnect" /\ w.s = s /\ w.rec = s /\ w.todo = {} /\ ~w.restores /\ w.own
  BY DEF L!NoFlow, L!FlowRec, L!Commands
<1> HIDE DEF f
<1>3. /\ Typed(u) /\ u.lapsed = watched.lapsed /\ u.run = watched.run /\ u.recovery = watched.recovery
      /\ watched.entry[s] # "none" =>
           /\ Disowns(watched, u, {s}) /\ SameGate(watched, u) /\ SameWish(watched, u)
           /\ u.entry = [watched.entry EXCEPT ![s] = "reconnecting"] /\ u.viewing = watched.viewing
  <2>1. CASE watched.entry[s] = "none"
    BY <1>1, <2>1 DEF L!UpdateEntry
  <2>2. CASE watched.entry[s] # "none"
    <3>1. u = L!SetEntry(watched, s, "reconnecting")
      BY <2>2 DEF L!UpdateEntry
    <3> HIDE DEF u
    <3> QED BY <1>1, <3>1, SetEntryFacts, EntryWords DEF SameWish
  <2> QED BY <2>1, <2>2
<1> HIDE DEF u, w
<1>4. ASSUME ~watched.lapsed
      PROVE  /\ Good(watched, {}) /\ s \in watched.wanted /\ watched.entry[s] # "none"
             /\ Disowns(watched, u, {s}) /\ SameGate(watched, u) /\ SameWish(watched, u)
             /\ u.entry[s] = "reconnecting" /\ \A t \in LiveStream \ {s} : u.entry[t] = watched.entry[t]
             /\ u.viewing = watched.viewing
  BY <1>4, <1>1, <1>3 DEF WatchInv, Good, Nearly, Shows, Shown, Fits, Finds, FlowFits, Own, Gets,
     L!Replaces, Wants, Wanted, Typed
<1>5. CASE u.recovery[s].attempt # "none"
  <2>1. watched' = u
    BY <1>1, <1>5 DEF L!StartRecovery
  <2>2. ASSUME ~watched.lapsed PROVE Good(u, {})
    <3>1. Mended(watched, s, {}, u)
      BY <1>1, <1>3, <1>4, <1>5, <2>2 DEF Mended, Disowns, SameWish
    <3>2. {} \in SUBSET StoreFlow /\ watched.run[s] # "none"
      BY <1>1
    <3> QED BY <1>1, <1>3, <1>4, <2>2, <3>1, <3>2, MendedGood
  <2> QED BY <1>3, <2>1, <2>2 DEF WatchInv
<1>6. CASE u.recovery[s].attempt = "none"
  <2> DEFINE rs == [u.recovery EXCEPT ![s] = [attempt |-> "media", phase |-> "running"]]
             r == [u EXCEPT !.recovery = rs]
  <2>1. u.recovery \in [LiveStream -> L!RecoveryRec]
    BY <1>3 DEF Typed
  <2>2. watched' = L!Put(r, f, w)
    <3> DEFINE m == [u EXCEPT !.recovery[s].attempt = "media"]
               n == [m EXCEPT !.recovery[s].phase = "running"]
    <3>1. m.recovery[s].attempt = "media" /\ m.run = u.run /\ n = r
      <4> DEFINE ra == [u.recovery EXCEPT ![s].attempt = "media"]
      <4>1. ra[s] = [u.recovery[s] EXCEPT !.attempt = "media"]
        BY <2>1
      <4>2. ra[s].attempt = "media" /\ [ra[s] EXCEPT !.phase = "running"] = [attempt |-> "media", phase |-> "running"]
        BY <2>1, <4>1 DEF L!RecoveryRec
      <4>3. [ra EXCEPT ![s].phase = "running"] = rs
        BY <2>1, <4>2
      <4>4. m = [u EXCEPT !.recovery = ra]
        OBVIOUS
      <4> HIDE DEF ra, rs
      <4>5. m.recovery = ra /\ m.run = u.run
        BY <1>3, <4>4 DEF Typed, Fields
      <4>6. n = [m EXCEPT !.recovery = [m.recovery EXCEPT ![s].phase = "running"]]
        OBVIOUS
      <4>7. n = [m EXCEPT !.recovery = rs]
        BY <4>3, <4>5, <4>6
      <4>8. n = r
        BY <1>3, <4>4, <4>7 DEF Typed, Fields
      <4> QED BY <4>2, <4>5, <4>8
    <3>2. watched' = L!RunRecovery(m, s, f)
      BY <1>1, <1>6 DEF L!StartRecovery
    <3>3. m.run[s] # "none"
      BY <1>1, <1>3, <3>1
    <3> HIDE DEF m, r
    <3>4. watched' = L!Put(n, f, [L!NoFlow EXCEPT !.at = "reconnect", !.s = s, !.rec = s, !.own = TRUE])
      BY <3>1, <3>2, <3>3 DEF L!RunRecovery
    <3> QED BY <3>1, <3>4 DEF w
  <2>3. /\ rs \in [LiveStream -> L!RecoveryRec] /\ rs[s].attempt = "media" /\ rs[s].phase = "running"
        /\ \A t \in LiveStream \ {s} : rs[t] = u.recovery[t]
    BY <2>1 DEF L!RecoveryRec
  <2> HIDE DEF rs
  <2>4. /\ Typed(r) /\ SameGate(u, r) /\ SameWish(u, r) /\ r.entry = u.entry /\ r.run = u.run
        /\ r.flows = u.flows /\ r.viewing = u.viewing /\ r.recovery = rs
    BY <1>3, <2>3 DEF Typed, Fields, SameGate, SameWish
  <2> HIDE DEF r
  <2>5. /\ Typed(watched') /\ SameFlows(r, watched', f) /\ watched'.flows[f] = w /\ SameGate(r, watched')
        /\ SameWish(r, watched') /\ watched'.entry = r.entry /\ watched'.run = r.run
        /\ watched'.recovery = r.recovery /\ watched'.viewing = r.viewing
    BY <1>1, <1>2, <2>2, <2>4, PutFacts
  <2>6. ASSUME ~watched.lapsed PROVE Good(watched', {})
    <3>1. \A g \in StoreFlow : watched.flows[g].rec # s
      BY <1>3, <1>6, ClientAssumption, <1>4, <2>6 DEF WatchAssumption, Good, Nearly, Reports
    <3>2. \A g \in StoreFlow \ {f} : watched'.flows[g] = u.flows[g]
      BY <2>4, <2>5 DEF SameFlows
    <3>3. Mended(watched, s, {f}, watched')
      BY <1>4, <2>4, <2>5, <2>6, <1>1, <1>3, <2>3, <3>2, <1>2, <3>1 DEF SameGate, SameWish, Disowns,
         Mended, Mends
    <3>4. {f} \in SUBSET StoreFlow /\ watched.run[s] # "none"
      BY <1>1
    <3> QED BY <1>1, <1>4, <2>5, <2>6, <3>3, <3>4, MendedGood
  <2>7. watched'.lapsed = watched.lapsed
    BY <1>3, <2>4, <2>5 DEF SameWish
  <2> QED BY <2>5, <2>6, <2>7 DEF WatchInv
<1> QED BY <1>5, <1>6

LEMMA ReconnectStep ==
  ASSUME WatchInv(watched), NEW f \in StoreFlow, L!Reconnect(f) PROVE WatchInv(watched')
<1> DEFINE v == L!Cross(watched, f)
           s == watched.flows[f].s
           e == L!UpdateEntry(v, s, "reconnecting")
           ru == [e.run EXCEPT ![s] = IF v.sfu THEN "idle" ELSE "served"]
           r == IF v.run[s] = "none" THEN v ELSE [e EXCEPT !.run = ru]
           x == [r.flows[f] EXCEPT !.at = "rebuild", !.sfu = v.sfu, !.own = v.flows[f].own]
           fl == [r.flows EXCEPT ![f] = x]
<1>1. /\ Typed(watched) /\ watched.flows[f].at = "reconnect" /\ s \in LiveStream
      /\ watched.flows \in [StoreFlow -> L!FlowRec] /\ s \in watched.viewing
  BY ZenonT(30) DEF L!Reconnect, L!At, L!S, WatchInv, Typed
<1>2. /\ Typed(v) /\ SameGate(watched, v) /\ v.cancelled = watched.cancelled
      /\ v.wanted = watched.wanted /\ v.viewing = watched.viewing /\ v.entry = watched.entry
      /\ v.run = watched.run /\ v.recovery = watched.recovery /\ v.flows = watched.flows
      /\ ~v.lapsed => ~watched.lapsed /\ watched.flows[f].own
  BY <1>1, CrossFacts
<1> HIDE DEF s
<1>3. watched' = [(IF v.run[s] = "none" THEN v
                   ELSE [e EXCEPT !.run[s] = IF v.sfu THEN "idle" ELSE "served"])
                  EXCEPT !.flows[f].at = "rebuild", !.flows[f].sfu = v.sfu, !.flows[f].own = v.flows[f].own]
  BY DEF L!Reconnect, L!S, s
<1> HIDE DEF v
<1>4. /\ Typed(e) /\ e.lapsed = v.lapsed /\ e.run = v.run
      /\ v.entry[s] # "none" =>
           /\ Disowns(v, e, {s}) /\ SameGate(v, e) /\ SameWish(v, e)
           /\ e.entry = [v.entry EXCEPT ![s] = "reconnecting"] /\ e.viewing = v.viewing
           /\ e.recovery = v.recovery
  <2>1. CASE v.entry[s] = "none"
    BY <1>2, <2>1 DEF L!UpdateEntry
  <2>2. CASE v.entry[s] # "none"
    <3>1. e = L!SetEntry(v, s, "reconnecting")
      BY <2>2 DEF L!UpdateEntry
    <3> HIDE DEF e, ru, r, x, fl
    <3>2. Typed(v) /\ s \in LiveStream /\ "reconnecting" \in L!Entry /\ e = L!SetEntry(v, s, "reconnecting")
      BY <1>1, <1>2, <3>1, EntryWords
    <3>3. /\ Typed(e) /\ Disowns(v, e, {s}) /\ SameGate(v, e) /\ SameWish(v, e)
          /\ e.entry = [v.entry EXCEPT ![s] = "reconnecting"]
          /\ e.run = v.run /\ e.recovery = v.recovery /\ e.viewing = v.viewing
      <4> DEFINE word == "reconnecting"
      <4>1. Typed(v) /\ s \in LiveStream /\ word \in L!Entry /\ e = L!SetEntry(v, s, word)
        BY <3>2
      <4> HIDE DEF word
      <4>2. /\ Typed(e) /\ Disowns(v, e, {s}) /\ SameGate(v, e) /\ SameWish(v, e)
            /\ e.entry = [v.entry EXCEPT ![s] = word]
            /\ e.run = v.run /\ e.recovery = v.recovery /\ e.viewing = v.viewing
        BY ONLY <4>1, SetEntryFacts
      <4> QED BY <4>2 DEF word
    <3> QED BY <3>3 DEF SameWish
  <2> QED BY <2>1, <2>2
<1> HIDE DEF e
<1>5. ru \in [LiveStream -> L!Runtime] /\ ru[s] # "none" /\ \A t \in LiveStream \ {s} : ru[t] = e.run[t]
  BY <1>1, <1>4, EntryWords DEF Typed
<1>6. [e EXCEPT !.run[s] = IF v.sfu THEN "idle" ELSE "served"] = [e EXCEPT !.run = ru]
  BY <1>4 DEF Typed, Fields
<1> HIDE DEF ru
<1>7. /\ Typed(r) /\ r.lapsed = v.lapsed
      /\ v.run[s] # "none" =>
           /\ SameGate(e, r) /\ SameWish(e, r) /\ r.viewing = e.viewing /\ r.entry = e.entry
           /\ r.recovery = e.recovery /\ r.flows = e.flows /\ r.run = ru
  BY <1>2, <1>4, <1>5 DEF Typed, Fields, SameGate, SameWish
<1>8. watched' = [r EXCEPT !.flows = fl]
  <2>1. watched' = [r EXCEPT !.flows[f].at = "rebuild", !.flows[f].sfu = v.sfu, !.flows[f].own = v.flows[f].own]
    BY <1>3, <1>6
  <2>2. r.flows \in [StoreFlow -> L!FlowRec]
    BY <1>7 DEF Typed
  <2> HIDE DEF r
  <2>3. [r EXCEPT !.flows[f].at = "rebuild", !.flows[f].sfu = v.sfu, !.flows[f].own = v.flows[f].own]
          = [r EXCEPT !.flows = fl]
    BY <1>7, <2>2 DEF Typed, Fields, L!FlowRec
  <2> QED BY <2>1, <2>3
<1> HIDE DEF r
<1>9. /\ r.flows[f] \in L!FlowRec /\ v.sfu \in BOOLEAN /\ v.flows[f].own \in BOOLEAN
      /\ r.flows[f].s \in LiveStream \/ r.flows[f].at = "none"
  BY <1>2, <1>7, FlowTypes DEF Typed
<1>10. /\ x \in L!FlowRec /\ x.at = "rebuild" /\ x.s = r.flows[f].s /\ x.rec = r.flows[f].rec
       /\ x.todo = r.flows[f].todo /\ x.restores = r.flows[f].restores /\ x.own = v.flows[f].own
  BY <1>9 DEF L!FlowRec, L!Setups
<1> HIDE DEF x
<1>11. /\ fl \in [StoreFlow -> L!FlowRec] /\ fl[f] = x /\ \A g \in StoreFlow \ {f} : fl[g] = r.flows[g]
  BY <1>7, <1>10 DEF Typed
<1> HIDE DEF fl
<1>12. r.flows[f].s \in LiveStream
  <2>1. v.run[s] = "none" \/ v.entry[s] = "none" \/ Disowns(v, e, {s})
    BY <1>4
  <2>2. \A g \in StoreFlow : r.flows[g].s = watched.flows[g].s
    BY <1>2, <1>7, <1>4 DEF r, e, L!UpdateEntry, Disowns, Fades
  <2> QED BY <1>1, <2>2 DEF s
<1>13. /\ Typed(watched') /\ SameGate(r, watched') /\ SameWish(r, watched') /\ watched'.viewing = r.viewing
       /\ watched'.entry = r.entry /\ watched'.run = r.run /\ watched'.recovery = r.recovery
       /\ watched'.flows = fl
  BY <1>7, <1>10, <1>11, <1>12, <1>8 DEF Typed, Fields, SameGate, SameWish
<1>14. ASSUME ~v.lapsed PROVE Good(watched', {})
  <2>1. Good(watched, {}) /\ watched.flows[f].own
    BY <1>2, <1>14 DEF WatchInv
  <2>2. /\ watched.flows[f].rec = s /\ watched.flows[f].todo = {} /\ ~watched.flows[f].restores
        /\ watched.run[s] # "none" /\ watched.link
    BY <2>1, <1>1 DEF Good, Nearly, Fits, Shows, Counts, FlowFits, Finds, Own, Gets, Mends, s
  <2>3. /\ watched.recovery[s].phase = "running" /\ watched.recovery[s].attempt = "media"
        /\ \A h \in StoreFlow : watched.flows[h].rec = s => h = f
    BY <1>1, <2>1, <2>2, ClientAssumption DEF Good, Nearly, Reports, Mends, WatchAssumption
  <2>4. s \in watched.wanted /\ watched.entry[s] \notin {"none", "ended"}
    BY <1>1, <2>1, <2>2, <2>3 DEF Good, Nearly, Wants, Wanted, Shows, Shown
  <2>5. /\ Disowns(v, e, {s}) /\ SameGate(v, e) /\ SameWish(v, e)
        /\ e.entry = [v.entry EXCEPT ![s] = "reconnecting"] /\ e.viewing = v.viewing
        /\ e.recovery = v.recovery
    BY <1>2, <1>4, <2>4
  <2>6. /\ SameGate(e, r) /\ SameWish(e, r) /\ r.viewing = e.viewing /\ r.entry = e.entry
        /\ r.recovery = e.recovery /\ r.flows = e.flows /\ r.run = ru
    BY <1>2, <1>7, <2>2
  <2>7. /\ SameGate(watched, watched') /\ watched'.cancelled = watched.cancelled
        /\ watched'.wanted = watched.wanted /\ watched'.viewing = watched.viewing
    BY <1>2, <1>13, <2>5, <2>6 DEF SameGate, SameWish
  <2>8. /\ watched'.entry[s] = "reconnecting" /\ watched'.run[s] # "none"
        /\ watched'.recovery = watched.recovery
        /\ \A t \in LiveStream \ {s} : watched'.entry[t] = watched.entry[t] /\ watched'.run[t] = watched.run[t]
    BY <1>1, <1>2, <1>4, <1>5, <1>13, <2>5, <2>6 DEF Typed
  <2>9. \A g \in StoreFlow \ {f} :
          /\ Fades(watched.flows[g], watched'.flows[g])
          /\ watched'.flows[g].own <=> watched.flows[g].own /\ watched.flows[g].s # s
    BY <1>2, <1>11, <1>13, <2>5, <2>6 DEF Disowns
  <2>10. /\ watched'.flows[f].at = "rebuild" /\ watched'.flows[f].s = s /\ watched'.flows[f].rec = s
         /\ watched'.flows[f].todo = {} /\ ~watched'.flows[f].restores /\ watched'.flows[f].own
    <3>1. Fades(v.flows[f], r.flows[f])
      BY <2>5, <2>6 DEF Disowns
    <3>2. watched'.flows[f] = x /\ v.flows[f] = watched.flows[f] /\ watched.flows[f].s = s
      BY <1>2, <1>11, <1>13 DEF s
    <3>3. x.own = watched.flows[f].own
      BY <1>10, <3>2
    <3> QED BY <1>10, <2>1, <2>2, <3>1, <3>2, <3>3 DEF Fades
  <2>11. Mended(watched, s, {f}, watched')
    BY <2>2, <2>7, <1>1, <2>3, <2>8, <2>9, <2>10 DEF SameGate, Mended, Mends, s
  <2>12. {f} \in SUBSET StoreFlow
    OBVIOUS
  <2> QED BY <1>1, <1>13, <2>1, <2>2, <2>4, <2>11, <2>12, MendedGood
<1>15. watched'.lapsed = v.lapsed
  BY <1>7, <1>13 DEF SameWish
<1> QED BY <1>13, <1>14, <1>15, SMTT(30) DEF WatchInv

\* The user gives every recovery up, and its stream with it.
LEMMA AbandonStep == ASSUME WatchInv(watched), L!Abandon PROVE WatchInv(watched')
<1> DEFINE given == {s \in LiveStream : watched.recovery[s] # L!NoRecovery}
           rs == [s \in LiveStream |-> L!NoRecovery]
           ru == [s \in LiveStream |-> IF s \in given THEN "none" ELSE watched.run[s]]
           en == [s \in LiveStream |-> IF s \in given THEN "none" ELSE watched.entry[s]]
           wan == watched.wanted \ given
           fl == [f \in StoreFlow |-> [watched.flows[f] EXCEPT !.rec = NoLive,
                                         !.own = @ /\ watched.flows[f].s \notin given]]
           b == \/ watched.lapsed \/ watched.viewing \cap given # {}
                \/ \E s \in given : L!Pursued(watched, s)
<1>1. Typed(watched)
  BY DEF WatchInv
<1>2. watched' = [watched EXCEPT !.recovery = rs, !.run = ru, !.entry = en, !.wanted = wan,
                                 !.flows = fl, !.lapsed = b]
  BY <1>1 DEF L!Abandon, Typed, Fields
<1>3. /\ rs \in [LiveStream -> L!RecoveryRec] /\ ru \in [LiveStream -> L!Runtime]
      /\ en \in [LiveStream -> L!Entry] /\ wan \subseteq LiveStream /\ b \in BOOLEAN
  BY <1>1, EntryWords, NoFlowTyped DEF Typed
<1>4. watched.flows \in [StoreFlow -> L!FlowRec]
  BY <1>1 DEF Typed
<1>5. ASSUME NEW f \in StoreFlow
      PROVE  /\ fl[f] \in L!FlowRec /\ fl[f].at = watched.flows[f].at /\ fl[f].s = watched.flows[f].s
             /\ fl[f].todo = watched.flows[f].todo /\ fl[f].restores = watched.flows[f].restores
             /\ fl[f].rec = NoLive /\ (fl[f].own <=> watched.flows[f].own /\ watched.flows[f].s \notin given)
  <2> DEFINE w == watched.flows[f]
             o == w.own /\ w.s \notin given
  <2>1. w \in L!FlowRec /\ o \in BOOLEAN
    BY <1>4
  <2>2. fl[f] = [w EXCEPT !.rec = NoLive, !.own = o]
    BY <2>1 DEF L!FlowRec
  <2> HIDE DEF w, o, fl, given
  <2>3. /\ fl[f] \in L!FlowRec /\ fl[f].at = w.at /\ fl[f].s = w.s /\ fl[f].todo = w.todo
        /\ fl[f].restores = w.restores /\ fl[f].rec = NoLive /\ fl[f].own = o
    BY <2>1, <2>2 DEF L!FlowRec
  <2> QED BY <2>3 DEF w, o
<1>6. \A s \in LiveStream :
        /\ rs[s].attempt = "none" /\ rs[s].phase = "none"
        /\ ru[s] = IF s \in given THEN "none" ELSE watched.run[s]
        /\ en[s] = IF s \in given THEN "none" ELSE watched.entry[s]
  BY DEF L!NoRecovery
<1>7. ~b => /\ ~watched.lapsed /\ watched.viewing \cap given = {}
            /\ \A s \in given : ~L!Pursued(watched, s)
  OBVIOUS
<1>8. \A s \in LiveStream : s \notin given => watched.recovery[s].attempt = "none"
  BY DEF L!NoRecovery
<1>9. \A s \in LiveStream : watched.recovery[s].phase = "running" => s \in given
  BY SMTT(30) DEF L!NoRecovery
<1>10. fl \in [StoreFlow -> L!FlowRec] /\ given \subseteq LiveStream /\ wan = watched.wanted \ given
  BY <1>5, ZenonT(30)
<1> HIDE DEF given, rs, ru, en, wan, fl, b
<1>11. /\ Typed(watched') /\ SameGate(watched, watched') /\ watched'.cancelled = watched.cancelled
       /\ watched'.viewing = watched.viewing /\ watched'.recovery = rs /\ watched'.run = ru
       /\ watched'.entry = en /\ watched'.wanted = wan /\ watched'.flows = fl /\ watched'.lapsed = b
  BY <1>1, <1>2, <1>3, <1>5, <1>10 DEF Typed, Fields, SameGate
<1>12. ASSUME ~b PROVE Good(watched', {})
  <2> DEFINE u == watched'
  <2>1. /\ Good(watched, {}) /\ watched.viewing \cap given = {}
        /\ \A s \in given : ~L!Pursued(watched, s)
    BY <1>7, <1>12 DEF WatchInv
  <2>2. \A s \in LiveStream :
          /\ u.recovery[s].attempt = "none" /\ u.recovery[s].phase = "none"
          /\ u.run[s] = IF s \in given THEN "none" ELSE watched.run[s]
          /\ u.entry[s] = IF s \in given THEN "none" ELSE watched.entry[s]
    BY <1>6, <1>11
  <2>3. \A f \in StoreFlow :
          /\ u.flows[f].at = watched.flows[f].at /\ u.flows[f].s = watched.flows[f].s
          /\ u.flows[f].todo = watched.flows[f].todo /\ u.flows[f].restores = watched.flows[f].restores
          /\ u.flows[f].rec = NoLive
          /\ u.flows[f].own <=> watched.flows[f].own /\ watched.flows[f].s \notin given
    BY <1>5, <1>11
  <2>4. /\ u.room = watched.room /\ u.link = watched.link /\ u.airs = watched.airs /\ u.over = watched.over
        /\ u.viewing = watched.viewing /\ u.cancelled = watched.cancelled
        /\ u.wanted = watched.wanted \ given
    BY <1>10, <1>11 DEF SameGate
  <2>5. ASSUME NEW f \in StoreFlow, watched.flows[f].rec # NoLive
        PROVE  /\ watched.flows[f].rec \in given
               /\ watched.flows[f].s = watched.flows[f].rec
    BY <1>4, <2>5, FlowTypes, <1>9, <2>1 DEF Good, Nearly, Reports, L!Pursued
  <2>6. \A f \in StoreFlow : u.flows[f].own => watched.flows[f].rec = NoLive
    BY <2>3, <2>5
  <2>7. Fits(u)
    <3> SUFFICES ASSUME NEW f \in StoreFlow PROVE FlowFits(u.flows[f])
      BY DEF Fits
    <3>1. FlowFits(watched.flows[f])
      BY <2>1 DEF Good, Nearly, Fits
    <3>2. u.flows[f].own => watched.flows[f].at \in Gets
      BY <2>3, <2>6, <3>1, ClientAssumption DEF FlowFits, Gets, Mends, WatchAssumption
    <3> QED BY <2>3, <3>1, <3>2 DEF FlowFits, Gets, Mends
  <2>8. Reports(u)
    BY <2>2, <2>3 DEF Reports
  <2>9. Shows(u, {})
    <3>1. ASSUME NEW s \in LiveStream PROVE Shown(u, s, {})
      <4>1. Shown(watched, s, {})
        BY <2>1 DEF Good, Nearly, Shows
      <4>2. CASE s \in given
        BY <2>2, <4>2 DEF Shown
      <4>3. CASE s \notin given
        <5>1. \A at : On(watched, s, at) => On(u, s, at)
          BY <2>3, <4>3 DEF On, Own
        <5>2. watched.recovery[s].attempt = "none"
          BY <1>8, <4>3
        <5>3. (\E f \in StoreFlow : s \in watched.flows[f].todo) => (\E f \in StoreFlow : s \in u.flows[f].todo)
          BY <2>3
        <5> QED BY <2>2, <2>4, <4>1, <4>3, <5>1, <5>2, <5>3 DEF Shown
      <4> QED BY <4>2, <4>3
    <3>2. ASSUME NEW f \in StoreFlow PROVE Finds(u, f)
      <4>1. u.flows[f].own => Finds(watched, f) /\ watched.flows[f].s \in LiveStream
        BY <2>1, <2>3 DEF Good, Nearly, Shows, Fits, FlowFits, Gets, Mends
      <4> QED BY <2>2, <2>3, <2>4, <4>1 DEF Finds, Own
    <3> QED BY <3>1, <3>2 DEF Shows
  <2>10. Counts(u, {})
    BY <1>1, <2>1, <1>8, <2>5, ClientAssumption, <2>2, <2>3, <2>4 DEF Good, Nearly, Typed, Counts,
       WatchAssumption, Keeps, Own
  <2>11. Cancels(u)
    BY <1>1, <2>1, <2>2, <2>4, <1>11, <2>3, ClientAssumption DEF Typed, Good, Nearly, Cancels,
       WatchAssumption
  <2>12. Wants(u, {}, {})
    BY <2>1, <2>2, <2>5, <2>4, <2>3, <2>6 DEF Good, Nearly, Wants, L!Replaces, Wanted, Serves,
       L!Pursued
  <2> QED BY <2>7, <2>8, <2>9, <2>10, <2>11, <2>12 DEF Good, Nearly
<1> QED BY <1>11, <1>12 DEF WatchInv

\* A recovery of a stream that is not shown is given up.
LEMMA ClearedGood ==
  ASSUME NEW v, Typed(v), Good(v, {}), NEW s \in LiveStream, v.entry[s] = "none", v.run[s] = "none",
         s \notin v.viewing \/ v.recovery[s].phase # "timer" \/ v.recovery[s].attempt # "gateway",
         \A f \in StoreFlow : v.flows[f].rec # s,
         NEW u, Typed(u), SameGate(v, u), SameWish(v, u), u.viewing = v.viewing, u.entry = v.entry,
         u.run = v.run, u.flows = v.flows, u.recovery = [v.recovery EXCEPT ![s] = L!NoRecovery]
  PROVE  Good(u, {})
<1>1. /\ u.recovery[s].attempt = "none" /\ u.recovery[s].phase = "none"
      /\ \A t \in LiveStream \ {s} : u.recovery[t] = v.recovery[t]
  BY DEF Typed, L!NoRecovery
<1>2. \A f \in StoreFlow : v.flows[f].rec \in LiveStream \cup {NoLive}
  BY FlowTypes DEF Typed
<1>3. Fits(u) /\ Cancels(u)
  BY DEF Good, Nearly, Fits, Cancels, SameWish
<1>4. Reports(u)
  BY <1>1, <1>2 DEF Good, Nearly, Reports
<1>5. Shows(u, {})
  BY <1>1 DEF Good, Nearly, Shows, Shown, On, Own, SameGate, Finds
<1>6. Counts(u, {})
  BY <1>1 DEF Typed, Keeps, Good, Nearly, Counts, Own, SameGate
<1>7. Wants(u, {}, {})
  BY <1>1 DEF Good, Nearly, Wants, Wanted, SameGate, SameWish, Serves, Gone
<1> QED BY <1>3, <1>4, <1>5, <1>6, <1>7 DEF Good, Nearly

\* The attempt of a recovery begins: until its function does, its stream is spared.
LEMMA RunningNearly ==
  ASSUME NEW v, Typed(v), NEW s \in LiveStream, Nearly(v, {}, {s}), v.recovery[s].attempt = "gateway",
         \A f \in StoreFlow : v.flows[f].rec # s,
         NEW u, Typed(u), SameGate(v, u), SameWish(v, u), u.viewing = v.viewing, u.entry = v.entry,
         u.run = v.run, \A f \in StoreFlow : Fades(v.flows[f], u.flows[f]) /\ (u.flows[f].own <=> v.flows[f].own),
         u.recovery[s].attempt = "gateway", u.recovery[s].phase = "running",
         \A t \in LiveStream \ {s} : u.recovery[t] = v.recovery[t]
  PROVE  Nearly(u, {}, {s})
<1>1. \A f \in StoreFlow : v.flows[f].rec \in LiveStream \cup {NoLive}
  BY FlowTypes DEF Typed
<1>2. Fits(u)
  BY FadesFit DEF Disowns, Nearly
<1>3. Cancels(u)
  BY DEF Nearly, Cancels, SameWish, Fades
<1>4. Reports(u)
  BY <1>1 DEF Nearly, Reports, Fades
<1>5. \A t \in LiveStream : u.recovery[t].attempt = v.recovery[t].attempt
  OBVIOUS
<1>6. Shows(u, {})
  BY <1>5 DEF On, Own, Fades, Nearly, Shows, Shown, SameGate, Finds
<1>7. Counts(u, {s})
  BY DEF Typed, Keeps, Fades, Nearly, Counts, Own, SameGate
<1>8. Wants(u, {}, {s})
  BY <1>5 DEF Nearly, Wants, Wanted, SameGate, SameWish, Fades, L!Replaces, Serves, Gone
<1> QED BY <1>2, <1>3, <1>4, <1>6, <1>7, <1>8 DEF Nearly

LEMMA ClearFacts ==
  ASSUME NEW v, Typed(v), NEW s \in LiveStream, NEW rs, rs = [v.recovery EXCEPT ![s] = L!NoRecovery],
         NEW u, u = [v EXCEPT !.recovery = rs]
  PROVE  /\ Typed(u) /\ SameGate(v, u) /\ SameWish(v, u) /\ u.viewing = v.viewing /\ u.entry = v.entry
         /\ u.run = v.run /\ u.flows = v.flows
         /\ u.recovery = rs
BY NoFlowTyped, Typed(v) DEF Typed, Fields, SameGate, SameWish

LEMMA RetryStep ==
  ASSUME WatchInv(watched), NEW s \in LiveStream, L!Retry(s) PROVE WatchInv(watched')
<1> DEFINE f == L!Slot
           rs == [watched.recovery EXCEPT ![s].phase = "running"]
           r == [watched EXCEPT !.recovery = rs]
           target == IF watched.room[s] # "none" \/ \A t \in LiveStream : watched.room[t] = "none" THEN s
                     ELSE CHOOSE t \in LiveStream : watched.room[t] # "none"
           w == [L!NoFlow EXCEPT !.s = target, !.rec = s]
           m == [L!NoFlow EXCEPT !.at = "reconnect", !.s = s, !.rec = s, !.own = TRUE]
           d == L!Drop1(r, s)
           begun == L!BeginWatch(d, f, w)
           gone == L!Drop1(watched, s)
<1>1. /\ Typed(watched) /\ f \in StoreFlow /\ watched.flows[f].at = "none"
      /\ watched.recovery[s].phase = "timer"
  BY SlotFacts DEF L!Retry, WatchInv
<1>2. watched' = CASE watched.recovery[s].attempt = "media" ->
                        IF watched.run[s] = "none" THEN [gone EXCEPT !.recovery[s] = L!NoRecovery]
                        ELSE L!Put(r, f, m)
                   [] watched.recovery[s].attempt # "media" ->
                        IF begun.flows[f].at = "watch" THEN begun
                        ELSE [begun EXCEPT !.recovery[s] = L!NoRecovery]
  <2>1. watched' = L!RunRecovery(watched, s, f)
    BY DEF L!Retry
  <2>2. [watched EXCEPT !.recovery[s].phase = "running"] = r
    OBVIOUS
  <2> QED BY <2>1, <2>2 DEF L!RunRecovery
<1>3. target \in LiveStream /\ (target # s => watched.room[s] = "none" /\ watched.room[target] # "none")
  OBVIOUS
<1>4. /\ rs \in [LiveStream -> L!RecoveryRec] /\ rs[s].attempt = watched.recovery[s].attempt
      /\ rs[s].phase = "running" /\ \A t \in LiveStream \ {s} : rs[t] = watched.recovery[t]
  BY <1>1 DEF Typed, L!RecoveryRec
<1> HIDE DEF f, rs, target
<1>5. /\ Typed(r) /\ SameGate(watched, r) /\ SameWish(watched, r) /\ r.entry = watched.entry
      /\ r.run = watched.run /\ r.flows = watched.flows /\ r.viewing = watched.viewing /\ r.recovery = rs
  BY <1>1, <1>4 DEF Typed, Fields, SameGate, SameWish
<1>6. /\ w \in L!FlowRec /\ w.s = target /\ w.rec = s /\ w.todo = {} /\ w.restores = FALSE
      /\ m \in L!FlowRec /\ m.at = "reconnect" /\ m.s = s /\ m.rec = s /\ m.todo = {}
      /\ m.restores = FALSE /\ m.own
  BY <1>3 DEF L!NoFlow, L!FlowRec, L!Commands
<1> HIDE DEF r, w, m
<1>7. /\ Typed(gone) /\ Disowns(watched, gone, {s}) /\ SameGate(watched, gone) /\ SameWish(watched, gone)
      /\ gone.entry = [watched.entry EXCEPT ![s] = "none"] /\ gone.run = [watched.run EXCEPT ![s] = "none"]
      /\ gone.recovery = watched.recovery /\ gone.viewing = watched.viewing
  BY <1>1, DropOneFacts
<1>8. /\ Typed(d) /\ Disowns(r, d, {s}) /\ SameGate(r, d) /\ SameWish(r, d)
      /\ d.entry = [r.entry EXCEPT ![s] = "none"] /\ d.run = [r.run EXCEPT ![s] = "none"]
      /\ d.recovery = r.recovery /\ d.viewing = r.viewing
  BY <1>5, DropOneFacts
<1> HIDE DEF gone, d
<1>9. Dropped(watched, s, gone) /\ gone.entry[s] = "none" /\ gone.run[s] = "none"
  <2>1. Dropped(watched, s, gone)
    BY <1>7 DEF Dropped
  <2> QED BY <1>1, <2>1, DroppedFacts
<1>10. ASSUME ~watched.lapsed
       PROVE  /\ Good(watched, {}) /\ s \in watched.wanted /\ watched.recovery[s].attempt # "none"
              /\ \A g \in StoreFlow : watched.flows[g].rec # s
  BY <1>10, <1>1, ClientAssumption DEF WatchInv, Good, Nearly, Reports, Wants, Wanted,
     WatchAssumption
<1>11. CASE watched.recovery[s].attempt = "media" /\ watched.run[s] = "none"
  <2>1. watched' = [gone EXCEPT !.recovery[s] = L!NoRecovery]
    BY <1>2, <1>11
  <2>2. /\ Typed(watched') /\ SameGate(gone, watched') /\ SameWish(gone, watched')
        /\ watched'.viewing = gone.viewing /\ watched'.entry = gone.entry /\ watched'.run = gone.run
        /\ watched'.flows = gone.flows /\ watched'.recovery = [gone.recovery EXCEPT ![s] = L!NoRecovery]
    <3> DEFINE cl == [gone.recovery EXCEPT ![s] = L!NoRecovery]
    <3>1. /\ Typed(gone) /\ s \in LiveStream /\ cl = [gone.recovery EXCEPT ![s] = L!NoRecovery]
          /\ watched' = [gone EXCEPT !.recovery = cl]
      BY <1>7, <2>1
    <3> HIDE DEF begun, cl
    <3> QED BY ONLY <3>1, ClearFacts
  <2>3. ASSUME ~watched.lapsed PROVE Good(watched', {})
    <3>1. Typed(watched) /\ Good(watched, {}) /\ s \in LiveStream /\ Dropped(watched, s, gone)
      BY <1>1, <1>9, <1>10, <2>3
    <3>2. Good(gone, {})
      <4>1. watched.run[s] = "none" => Good(gone, {})
        BY ONLY <3>1, DroppedNearly
      <4> QED BY <1>11, <4>1
    <3>3. \A g \in StoreFlow : gone.flows[g].rec # s
      BY <1>7, <1>10, <2>3 DEF Disowns, Fades
    <3>4. gone.recovery[s].attempt # "gateway"
      BY <1>7, <1>11
    <3> QED BY ONLY <1>7, <1>9, <2>2, <3>1, <3>2, <3>3, <3>4, ClearedGood, ClientAssumption
  <2>4. watched'.lapsed = watched.lapsed
    BY <1>7, <2>2 DEF SameWish
  <2> QED BY <2>2, <2>3, <2>4 DEF WatchInv
<1>12. CASE watched.recovery[s].attempt = "media" /\ watched.run[s] # "none"
  <2>1. watched' = L!Put(r, f, m)
    BY <1>2, <1>12
  <2>2. /\ Typed(watched') /\ SameFlows(r, watched', f) /\ watched'.flows[f] = m /\ SameGate(r, watched')
        /\ SameWish(r, watched') /\ watched'.entry = r.entry /\ watched'.run = r.run
        /\ watched'.recovery = r.recovery /\ watched'.viewing = r.viewing
    BY <1>1, <1>5, <1>6, <2>1, PutFacts
  <2>3. SameGate(watched, watched') /\ SameWish(watched, watched')
    BY <1>5, <2>2 DEF SameGate, SameWish
  <2>4. ASSUME ~watched.lapsed PROVE Good(watched', {})
    <3>1. \A g \in StoreFlow \ {f} :
            /\ Fades(watched.flows[g], watched'.flows[g])
            /\ watched'.flows[g].own <=> watched.flows[g].own
      BY <1>5, <2>2 DEF SameFlows, Fades
    <3>2. Mended(watched, s, {f}, watched')
      BY <1>5, <2>2, <2>3, <1>6, <1>1, <1>4, <1>10, <1>12, <2>4, <3>1 DEF SameWish, Mended, Mends
    <3>3. {f} \in SUBSET StoreFlow
      BY <1>1
    <3> QED BY <1>1, <1>10, <1>12, <2>2, <2>4, <3>2, <3>3, MendedGood
  <2> QED BY <2>2, <2>3, <2>4 DEF WatchInv, SameWish
<1>13. CASE watched.recovery[s].attempt # "media"
  <2>1. watched' = IF begun.flows[f].at = "watch" THEN begun
                   ELSE [begun EXCEPT !.recovery[s] = L!NoRecovery]
    BY <1>2, <1>13
  <2>2. d.entry[s] = "none" /\ d.run[s] = "none" /\ d.lapsed = watched.lapsed /\ d.flows[f].at = "none"
    BY <1>5, <1>1, <1>8 DEF Typed, SameWish, Disowns, Fades
  <2>3. /\ d.run[target] # "none" \/ d.entry[target] # "none" => begun = d
        /\ d.run[target] = "none" /\ d.entry[target] = "none" => Begun(d, f, w, begun)
    <3>1. /\ Typed(d) /\ f \in StoreFlow /\ w \in L!FlowRec /\ w.s \in LiveStream
          /\ begun = L!BeginWatch(d, f, w)
      BY <1>1, <1>3, <1>6, <1>8
    <3> HIDE DEF begun
    <3>2. /\ d.run[w.s] # "none" \/ d.entry[w.s] # "none" => begun = d
          /\ d.run[w.s] = "none" /\ d.entry[w.s] = "none" => Begun(d, f, w, begun)
      BY ONLY <3>1, BeginWatchFacts
    <3> QED BY <1>6, <3>2
  <2> HIDE DEF begun
  <2>4. ASSUME ~watched.lapsed
        PROVE  /\ Nearly(d, {}, {s}) /\ \A g \in StoreFlow : d.flows[g].rec # s
               /\ target # s => Good(d, {}) /\ s \notin d.viewing /\ Gone(d, s)
               /\ target \in d.airs \cup d.over
               /\ d.recovery[s].attempt = "gateway" /\ d.recovery[s].phase = "running"
    <3>1. Typed(watched) /\ Good(watched, {}) /\ s \in LiveStream /\ Dropped(watched, s, gone)
      BY <1>1, <1>9, <1>10, <2>4
    <3>2. Nearly(gone, {}, {s})
      BY ONLY <3>1, DroppedNearly
    <3>3. watched.recovery[s].attempt = "gateway"
      BY <1>1, <1>10, <1>13, <2>4 DEF Typed, L!RecoveryRec
    <3>4. /\ SameGate(gone, d) /\ SameWish(gone, d) /\ d.viewing = gone.viewing /\ d.entry = gone.entry
          /\ d.run = gone.run
      BY <1>5, <1>7, <1>8 DEF SameGate, SameWish
    <3>5. \A g \in StoreFlow : Fades(gone.flows[g], d.flows[g]) /\ (d.flows[g].own <=> gone.flows[g].own)
      BY <1>5, <1>7, <1>8 DEF Disowns, Fades
    <3>6. /\ gone.recovery[s].attempt = "gateway"
          /\ d.recovery[s].attempt = "gateway" /\ d.recovery[s].phase = "running"
          /\ \A t \in LiveStream \ {s} : d.recovery[t] = gone.recovery[t]
      BY <1>4, <1>5, <1>7, <1>8, <3>3
    <3>7. \A g \in StoreFlow : gone.flows[g].rec # s /\ d.flows[g].rec # s
      BY <1>7, <1>10, <2>4, <3>5 DEF Disowns, Fades
    <3>8. Nearly(d, {}, {s})
      BY ONLY <1>7, <1>8, <3>1, <3>2, <3>4, <3>5, <3>6, <3>7, RunningNearly, ClientAssumption
    <3>9. SameGate(watched, d) /\ d.wanted = watched.wanted /\ d.viewing = watched.viewing
      BY <1>5, <1>8 DEF SameGate, SameWish
    <3>10. /\ s \in watched.airs \cup watched.over
           /\ target # s => target \in watched.airs \cup watched.over /\ s \in watched.over
      BY <1>3, <1>10, <2>4 DEF Good, Nearly, Wants, Wanted
    <3>11. ASSUME target # s PROVE Good(d, {}) /\ s \notin d.viewing /\ Gone(d, s)
      BY <1>3, <3>1, <3>9, <3>11, <3>8, <2>2, <3>10 DEF Good, Nearly, Counts, Wants, Wanted, Gone,
         SameGate
    <3>12. target \in d.airs \cup d.over
      BY <3>9, <3>10 DEF SameGate
    <3> QED BY <3>6, <3>7, <3>8, <3>11, <3>12
  <2>5. CASE d.run[target] = "none" /\ d.entry[target] = "none"
    <3>1. Begun(d, f, w, begun)
      BY <2>3, <2>5
    <3>2. watched' = begun
      BY <2>1, <3>1 DEF Begun
    <3>3. ASSUME ~watched.lapsed PROVE Good(begun, {})
      <4>1. Opens(d, f, w, {})
        BY <1>3, <1>6, <2>2, <2>4, <2>5, <3>3, ClientAssumption DEF Opens, WatchAssumption
      <4>2. Nearly(d, {}, Spared(w))
        BY <1>6, <2>4, <3>3 DEF Spared, Good
      <4>3. Typed(d) /\ f \in StoreFlow
        BY <1>1, <1>8
      <4> QED BY ONLY <3>1, <4>1, <4>2, <4>3, BegunGood, ClientAssumption
    <3>4. Typed(begun) /\ begun.lapsed = watched.lapsed
      BY <2>2, <3>1 DEF Begun
    <3> QED BY <3>2, <3>3, <3>4 DEF WatchInv
  <2>6. CASE d.run[target] # "none" \/ d.entry[target] # "none"
    <3>1. begun = d /\ target # s
      BY <2>2, <2>3, <2>6
    <3>2. watched' = [d EXCEPT !.recovery[s] = L!NoRecovery]
      BY <2>1, <2>2, <3>1
    <3>3. /\ Typed(watched') /\ SameGate(d, watched') /\ SameWish(d, watched')
          /\ watched'.viewing = d.viewing /\ watched'.entry = d.entry /\ watched'.run = d.run
          /\ watched'.flows = d.flows /\ watched'.recovery = [d.recovery EXCEPT ![s] = L!NoRecovery]
      <4> DEFINE cl == [d.recovery EXCEPT ![s] = L!NoRecovery]
      <4>1. /\ Typed(d) /\ s \in LiveStream /\ cl = [d.recovery EXCEPT ![s] = L!NoRecovery]
            /\ watched' = [d EXCEPT !.recovery = cl]
        BY <1>8, <3>2
      <4> HIDE DEF cl
      <4> QED BY ONLY <4>1, ClearFacts
    <3>4. ASSUME ~watched.lapsed PROVE Good(watched', {})
      <4>1. Good(d, {}) /\ s \notin d.viewing /\ \A g \in StoreFlow : d.flows[g].rec # s
        BY <2>4, <3>1, <3>4
      <4>2. Typed(d) /\ s \in LiveStream
        BY <1>8
      <4> QED BY ONLY <2>2, <3>3, <4>1, <4>2, ClearedGood, ClientAssumption
    <3>5. watched'.lapsed = watched.lapsed
      BY <2>2, <3>3 DEF SameWish
    <3> QED BY <3>3, <3>4, <3>5 DEF WatchInv
  <2> QED BY <2>5, <2>6
<1> QED BY <1>11, <1>12, <1>13

-----------------------------------------------------------------------------
(* The store keeps what holds.                                             *)

LEMMA WatchStarts == L!Init => WatchInv(watched)
<1> SUFFICES ASSUME L!Init PROVE WatchInv(watched)
  OBVIOUS
<1> DEFINE none == [s \in LiveStream |-> "none"]
           idle == [f \in StoreFlow |-> L!NoFlow]
           calm == [s \in LiveStream |-> L!NoRecovery]
<1>1. PICK airs \in SUBSET LiveStream, sfu \in BOOLEAN :
        watched = [entry |-> none, run |-> none, cancelled |-> {},
                   room |-> [s \in LiveStream |-> IF s \in airs THEN "on" ELSE "none"],
                   flows |-> idle, recovery |-> calm,
                   link |-> TRUE, sfu |-> sfu, airs |-> airs, over |-> {}, viewing |-> {},
                   wanted |-> {}, lapsed |-> FALSE]
  BY DEF L!Init
<1> DEFINE room == [s \in LiveStream |-> IF s \in airs THEN "on" ELSE "none"]
<1>2. /\ none \in [LiveStream -> L!Entry] /\ none \in [LiveStream -> L!Runtime]
      /\ idle \in [StoreFlow -> L!FlowRec] /\ calm \in [LiveStream -> L!RecoveryRec]
      /\ room \in [LiveStream -> Room]
  BY NoFlowTyped, EntryWords DEF Room
<1>3. \A s \in LiveStream : /\ none[s] = "none" /\ calm[s].attempt = "none" /\ calm[s].phase = "none"
                            /\ room[s] = IF s \in airs THEN "on" ELSE "none"
  BY DEF L!NoRecovery
<1>4. \A f \in StoreFlow : /\ idle[f].at = "none" /\ idle[f].s = NoLive /\ idle[f].rec = NoLive
                           /\ idle[f].todo = {} /\ ~idle[f].own /\ FlowFits(idle[f])
  BY NoFlowTyped DEF L!NoFlow
<1> HIDE DEF none, idle, calm, room
<1>5. /\ watched.entry = none /\ watched.run = none /\ watched.cancelled = {} /\ watched.room = room
      /\ watched.flows = idle /\ watched.recovery = calm /\ watched.link = TRUE /\ watched.airs = airs
      /\ watched.over = {} /\ watched.viewing = {} /\ watched.wanted = {} /\ watched.lapsed = FALSE
      /\ watched.sfu = sfu /\ DOMAIN watched = Fields
  BY <1>1 DEF Fields, room
<1>6. Typed(watched)
  BY <1>2, <1>4, <1>5 DEF Typed
<1>7. Fits(watched) /\ Reports(watched) /\ Cancels(watched)
  BY <1>3, <1>4, <1>5 DEF Fits, Reports, Cancels
<1>8. Shows(watched, {})
  BY <1>3, <1>4, <1>5 DEF Shows, Shown, Finds, Own
<1>9. Counts(watched, {})
  BY <1>3, <1>4, <1>5 DEF Counts, Own
<1>10. Wants(watched, {}, {})
  BY <1>3, <1>5, <1>4 DEF Wanted, Serves, L!Replaces, Wants
<1> QED BY <1>6, <1>7, <1>8, <1>9, <1>10 DEF WatchInv, Good, Nearly

\* What the store does about a stream, and in an asynchronous function.
WatchStreamStep(s) == L!Watch(s) \/ L!Unwatch(s) \/ L!ConnectionFails(s) \/ L!Retry(s)
WatchFlowStep(f) ==
  \/ L!Admit(f) \/ L!Refused(f) \/ L!Admitted(f) \/ L!Consumed(f) \/ L!ConsumeFails(f)
  \/ L!Unwatched(f) \/ L!Reconnect(f) \/ L!Rebuilt(f) \/ L!RecoveryFails(f)

LEMMA WatchStreamSteps ==
  ASSUME WatchInv(watched), NEW s \in LiveStream, WatchStreamStep(s) PROVE WatchInv(watched')
BY WatchStep, UnwatchStep, ConnectionFailsStep, RetryStep DEF WatchStreamStep

LEMMA WatchFlowSteps ==
  ASSUME WatchInv(watched), NEW f \in StoreFlow, WatchFlowStep(f) PROVE WatchInv(watched')
BY AdmitStep, RefusedStep, AdmittedStep, ConsumedStep, ConsumeFailsStep, UnwatchedStep,
   ReconnectStep, RebuiltStep, RecoveryFailsStep DEF WatchFlowStep

LEMMA WatchNext == ASSUME WatchInv(watched), [L!Next]_(L!watchVars) PROVE WatchInv(watched')
BY DropStep, ReconnectedStep, ModeUpdatedStep, DisconnectedStep, BroadcastStep, AbandonStep,
   WatchStreamSteps, WatchFlowSteps DEF L!watchVars, L!Next, WatchStreamStep, WatchFlowStep

\* The inductive invariant, of the state.
WatchHolding == WatchInv(watched)

LEMMA WatchInvariant == L!Spec => []WatchHolding
<1>1. L!Init => WatchHolding
  BY WatchStarts DEF WatchHolding
<1>2. WatchHolding /\ [L!Next]_(L!watchVars) => WatchHolding'
  BY WatchNext DEF WatchHolding
<1> QED BY <1>1, <1>2, PTL DEF L!Spec

LEMMA WatchServes == WatchHolding => WatchedIsServed
<1> SUFFICES ASSUME WatchHolding, ~watched.lapsed, watched.link,
                    \A f \in StoreFlow : watched.flows[f].at = "none",
                    \A s \in LiveStream : watched.recovery[s] = L!NoRecovery, NEW s \in LiveStream
             PROVE  /\ watched.entry[s] \in {"none", "watching", "ended"}
                    /\ watched.run[s] = IF watched.entry[s] = "watching" THEN "served" ELSE "none"
                    /\ (s \in watched.viewing) = (watched.entry[s] = "watching")
  BY DEF WatchedIsServed, L!WatchedIsServed, L!Settled, L!At
<1>1. Typed(watched) /\ Good(watched, {})
  BY DEF WatchHolding, WatchInv
<1>2. \A f \in StoreFlow : ~watched.flows[f].own /\ watched.flows[f].todo = {}
  BY <1>1 DEF Good, Nearly, Fits, FlowFits
<1>3. watched.recovery[s].attempt = "none"
  BY DEF L!NoRecovery
<1>4. \A at : ~On(watched, s, at)
  BY <1>2 DEF On, Own
<1>5. Shown(watched, s, {})
  BY <1>1 DEF Good, Nearly, Shows
<1>6. watched.entry[s] \in L!Entry /\ watched.run[s] \in L!Runtime
  BY <1>1 DEF Typed
<1>7. watched.entry[s] \in {"none", "watching", "ended"}
  BY <1>2, <1>3, <1>4, <1>5, <1>6 DEF Shown, L!Entry
<1>8. watched.run[s] # "idle"
  BY <1>3, <1>4, <1>5 DEF Shown
<1>9. watched.entry[s] = "watching" <=> watched.run[s] = "served"
  BY <1>5, <1>6, <1>7, <1>8 DEF Shown, L!Runtime
<1>10. s \in watched.viewing => watched.run[s] # "none"
  BY <1>1, <1>3 DEF Good, Nearly, Counts, Keeps
<1>11. s \in watched.viewing <=> watched.entry[s] = "watching"
  BY <1>5, <1>6, <1>7, <1>8, <1>9, <1>10 DEF Shown, L!Runtime
<1> QED BY <1>6, <1>7, <1>8, <1>9, <1>11 DEF L!Runtime

LEMMA WatchCloses == WatchHolding => ClosedStaysClosed
<1> SUFFICES ASSUME WatchHolding, ~watched.lapsed, NEW s \in LiveStream \ watched.wanted
             PROVE  \/ watched.entry[s] \in {"none", "ended"} /\ watched.run[s] = "none"
                    \/ \E f \in StoreFlow : watched.flows[f].s = s /\ watched.flows[f].rec \in watched.wanted
  BY DEF ClosedStaysClosed, L!ClosedStaysClosed, L!S
<1>1. Typed(watched) /\ Good(watched, {})
  BY DEF WatchHolding, WatchInv
<1>2. CASE watched.entry[s] \in {"none", "ended"}
  BY <1>1, <1>2 DEF Good, Nearly, Shows, Shown
<1>3. CASE watched.entry[s] \notin {"none", "ended"}
  <2>1. PICK f \in StoreFlow : watched.flows[f].own /\ watched.flows[f].s = s /\ L!Replaces(watched.flows[f])
    BY <1>1, <1>3 DEF Good, Nearly, Wants, Wanted
  <2>2. watched.flows[f].rec \in LiveStream /\ watched.flows[f].rec # NoLive
    BY <1>1, <2>1, FlowTypes DEF Typed, L!Replaces
  <2>3. watched.recovery[watched.flows[f].rec].attempt # "none"
    BY <1>1, <2>2 DEF Good, Nearly, Reports
  <2>4. watched.flows[f].rec \in watched.wanted
    BY <1>1, <2>2, <2>3 DEF Good, Nearly, Wants, Wanted
  <2> QED BY <2>1, <2>4
<1> QED BY <1>2, <1>3

\* Whatever streams the user opened and closed, and whatever refusals, drops, mode
\* changes and retries went before, once nothing is under way a stream shown as
\* watched is received and counted by the gateway, and no other is.
THEOREM WatchedIsServedTheorem == L!Spec => []WatchedIsServed
BY WatchInvariant, WatchServes, PTL

\* A stream the user closed stays closed, however the closing met the answer to a
\* watch, a restore or a retry of it.
THEOREM ClosedStaysClosedTheorem == L!Spec => []ClosedStaysClosed
BY WatchInvariant, WatchCloses, PTL
=============================================================================
