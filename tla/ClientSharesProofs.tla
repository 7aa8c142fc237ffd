------------------------- MODULE ClientSharesProofs -------------------------
(***************************************************************************)
(* What holds of the stream a client publishes for every value of the      *)
(* constants: a captured camera or screen is somebody's, and a stream that *)
(* is not served is owed to a function under way or to a recovery.         *)
(***************************************************************************)
EXTENDS ClientParts, TLAPS

\* What a capture is of: a stream that begins, and one that is set up again or undone.
Begins == {"capture", "start", "started"}
Mains == {"capture", "start", "started", "produce", "undo", "stop"}
Private == {"capture", "select", "swap"}
Borne(w) == w.at \in {"produce", "undo", "reconnect", "rebuild"} \/ w.again
Named == {"started", "produce", "undo", "stop", "reconnect", "rebuild", "select", "swap"}

FlowShape(v, w) ==
  /\ w.at = "none" => w.cap = 0 /\ w.rec = 0 /\ ~w.own /\ ~w.again
  /\ w.sid <= v.next /\ w.cap <= v.made
  /\ w.at \in Private => ~w.again
  /\ w.at \in Named => w.sid # 0
  /\ w.at \in Begins \cup Private => w.cap # 0
  /\ w.at = "stop" => w.cap = 0

\* The runtime has a capture with its session, and nothing is hosted without a connection.
RunShape(v) ==
  /\ v.run.sid = 0 <=> v.run.cap = 0
  /\ v.run.sid = 0 => v.run.sent = 0
  /\ v.hosted <= v.next /\ v.run.sid <= v.next
  /\ ~v.link => v.hosted = 0
  /\ v.run.cap <= v.made /\ 0 \notin v.live /\ \A c \in v.live : c <= v.made

ShareShape(v) ==
  /\ v \in O!ShareRec
  /\ RunShape(v)
  /\ \A f \in StoreFlow : FlowShape(v, v.flows[f])

ShareReports(v) ==
  /\ \A s \in 1..MaxShares : v.recovery[s].attempt = "none" <=> v.recovery[s].phase = "none"
  /\ \A f \in StoreFlow : v.flows[f].rec # 0 => v.recovery[v.flows[f].rec].phase = "running"
  /\ \A f, g \in StoreFlow : v.flows[f].rec # 0 /\ v.flows[g].rec = v.flows[f].rec => f = g

Held(v) ==
  /\ v.live \subseteq {v.run.cap} \cup {v.flows[f].cap : f \in StoreFlow}
  /\ \A f \in StoreFlow : v.flows[f].at \in Private =>
       /\ v.flows[f].cap # 0 /\ v.flows[f].cap # v.run.cap
       /\ v.flows[f].cap \in v.live <=> v.flows[f].at = "swap"
       /\ \A g \in StoreFlow \ {f} : v.flows[g].cap # v.flows[f].cap
  /\ \A f \in StoreFlow : Borne(v.flows[f]) =>
       v.flows[f].cap = v.run.cap \/ v.flows[f].cap \notin v.live

Owned(v, w) ==
  w.own => /\ w.at \in Begins /\ ~w.again => v.run.cap = 0
           /\ w.at = "start" /\ w.again => v.run.cap = w.cap
           /\ w.at \in {"started", "produce"} => ~w.again

ShareBase(v) ==
  /\ ShareShape(v) /\ ShareReports(v)
  /\ ~v.lapsed => Held(v) /\ \A f \in StoreFlow : Owned(v, v.flows[f])

Expects(v, w) ==
  /\ w.at \in Begins /\ ~w.again => v.run.sid = 0
  /\ w.at \in {"capture", "start"} /\ ~w.again => v.hosted = 0
  /\ w.at = "capture" => v.status = "capturing"
  /\ w.at \in {"start", "started"} /\ ~w.again => v.status = "starting" /\ w.cap \in v.live
  /\ w.at \in {"started", "produce", "rebuild"} => v.hosted = w.sid
  /\ w.at = "stop" => v.run.sid = 0 /\ v.hosted \in {0, w.sid} /\ v.status = "stopping"
  /\ w.at \in {"produce", "undo", "reconnect", "rebuild"} => v.run.sid = w.sid /\ v.run.cap = w.cap
  /\ w.at = "start" /\ w.again => v.run.sid # 0 /\ v.run.cap = w.cap
  /\ w.at \in {"reconnect", "rebuild"} /\ ~w.again => w.rec # 0

Doomed(v, w) ==
  \/ ~w.own /\ w.at \in Mains
  \/ ~w.own /\ w.again /\ w.at \in {"reconnect", "rebuild"}
  \/ w.again /\ ~w.retry /\ w.at = "reconnect" /\ v.hosted # w.sid
Sane(v) == ~v.lapsed /\ \A f \in StoreFlow : ~Doomed(v, v.flows[f])

Starts(w) == w.own /\ w.at \in Begins \cup {"stop"} /\ ~w.again
Mends(w) == w.own /\ (w.at \in {"produce", "undo"} \/ (w.again /\ w.at \in {"start", "reconnect", "rebuild"}))
Up(v) == v.hosted = v.run.sid /\ v.status = "live" /\ v.run.sent = v.run.cap

\* One function at most begins or ends the stream, and finds what it expects.
Single(v) ==
  /\ \A f \in StoreFlow : v.flows[f].own => Expects(v, v.flows[f])
  /\ \A f, g \in StoreFlow :
       v.flows[f].own /\ v.flows[g].own /\ v.flows[f].at \in Mains /\ v.flows[g].at \in Mains => f = g

Sound(v) ==
  /\ v.run.cap \in v.live /\ v.hosted \in {0, v.run.sid} /\ v.run.sent \in {0, v.run.cap}
  /\ v.status \notin {"none", "stopping", "capturing"}

\* A stream that is not up is owed to somebody.
Due(v) ==
  v.link => \/ Up(v)
            \/ \E s \in 1..MaxShares : v.recovery[s].attempt # "none"
            \/ \E f \in StoreFlow : Mends(v.flows[f])

ShareWell(v) ==
  /\ Single(v)
  /\ v.run.sid # 0 => Sound(v) /\ Due(v)
  /\ v.run.sid = 0 => (v.status = "none" /\ v.hosted = 0) \/ \E f \in StoreFlow : Starts(v.flows[f])

ShareInv(v) == ShareBase(v) /\ (Sane(v) => ShareWell(v))

-----------------------------------------------------------------------------

Fixed(v, u) == u.made = v.made /\ u.next = v.next /\ u.link = v.link /\ u.sfu = v.sfu
SameUse(v, u) ==
  u.run = v.run /\ u.live = v.live /\ u.hosted = v.hosted /\ u.recovery = v.recovery /\ u.lapsed = v.lapsed

\* What is left of a function that others disowned or cancelled.
Wanes(w, x) ==
  /\ x \in O!FlowRec
  /\ x.at = w.at /\ x.cap = w.cap /\ x.sid = w.sid /\ x.again = w.again /\ x.retry = w.retry
  /\ x.own => w.own
  /\ x.rec \in {w.rec, 0}

Disowned(v) == \A f \in StoreFlow : ~v.flows[f].own

\* A change that takes nothing up: it shows something else, ends the runtime or a recovery.
Calms(v, u) ==
  /\ u \in O!ShareRec
  /\ Fixed(v, u)
  /\ v.lapsed => u.lapsed
  /\ u.live \subseteq v.live /\ v.live \ {v.run.cap} \subseteq u.live
  /\ u.hosted \in {v.hosted, 0}
  /\ \/ u.run.sid = v.run.sid /\ u.run.cap = v.run.cap /\ (u.run.sid = 0 => u.run.sent = 0)
     \/ u.run = O!NoRuntime /\ v.run.cap \notin u.live /\ Disowned(u)
  /\ \A s \in 1..MaxShares :
       \/ u.recovery[s] = v.recovery[s]
       \/ u.recovery[s] = O!NoRecovery /\ \A f \in StoreFlow : u.flows[f].rec # s
  /\ \A f \in StoreFlow : Wanes(v.flows[f], u.flows[f])

LEMMA ShareTypes ==
  ASSUME NEW v, ShareShape(v)
  PROVE  /\ v \in O!ShareRec /\ v.run \in O!RuntimeRec /\ v.live \subseteq O!Cap
         /\ v.run.sid \in Nat /\ v.run.cap \in Nat /\ v.run.sent \in Nat
         /\ v.hosted \in Nat /\ v.next \in Nat /\ v.made \in Nat
         /\ v.flows \in [StoreFlow -> O!FlowRec] /\ v.recovery \in [1..MaxShares -> O!RecoveryRec]
         /\ v.lapsed \in BOOLEAN /\ v.link \in BOOLEAN /\ v.sfu \in BOOLEAN
         /\ \A f \in StoreFlow : /\ v.flows[f] \in O!FlowRec
                                 /\ v.flows[f].cap \in Nat /\ v.flows[f].sid \in Nat
                                 /\ v.flows[f].rec \in O!Sid
BY ClientAssumption DEF ShareAssumption, ShareShape, O!ShareRec, O!RuntimeRec, O!FlowRec, O!Sid, O!Cap

LEMMA CalmsTrans ==
  ASSUME NEW v, NEW u, NEW t, ShareShape(v), Calms(v, u), Calms(u, t)
  PROVE  Calms(v, t)
<1>1. /\ t \in O!ShareRec /\ Fixed(v, t) /\ (v.lapsed => t.lapsed) /\ t.live \subseteq v.live
      /\ t.hosted \in {v.hosted, 0}
  BY DEF Calms, Fixed
<1>2. v.live \ {v.run.cap} \subseteq t.live
  BY DEF Calms, O!NoRuntime, ShareShape, RunShape
<1>3. \A f \in StoreFlow : Wanes(v.flows[f], t.flows[f])
  BY DEF Calms, Wanes
<1>4. \/ t.run.sid = v.run.sid /\ t.run.cap = v.run.cap /\ (t.run.sid = 0 => t.run.sent = 0)
      \/ t.run = O!NoRuntime /\ v.run.cap \notin t.live /\ Disowned(t)
  BY DEF Calms, O!ShareRec, O!NoRuntime, O!RuntimeRec, Disowned, Wanes
<1>5. \A s \in 1..MaxShares :
        \/ t.recovery[s] = v.recovery[s]
        \/ t.recovery[s] = O!NoRecovery /\ \A f \in StoreFlow : t.flows[f].rec # s
  <2> SUFFICES ASSUME NEW s \in 1..MaxShares, t.recovery[s] # v.recovery[s]
               PROVE  t.recovery[s] = O!NoRecovery /\ \A f \in StoreFlow : t.flows[f].rec # s
    OBVIOUS
  <2>1. CASE t.recovery[s] = u.recovery[s]
    BY <2>1 DEF Calms, Wanes
  <2>2. CASE t.recovery[s] # u.recovery[s]
    BY <2>2 DEF Calms
  <2> QED BY <2>1, <2>2
<1> QED BY <1>1, <1>2, <1>3, <1>4, <1>5 DEF Calms

LEMMA CalmsShape == ASSUME NEW v, NEW u, ShareShape(v), Calms(v, u) PROVE ShareShape(u)
<1>1. RunShape(u)
  BY ShareTypes DEF Calms, ShareShape, RunShape, Fixed, O!NoRuntime
<1>2. \A f \in StoreFlow : FlowShape(u, u.flows[f])
  BY DEF Calms, ShareShape, FlowShape, Fixed, Wanes
<1> QED BY <1>1, <1>2 DEF Calms, ShareShape

LEMMA CalmsReports ==
  ASSUME NEW v, NEW u, ShareShape(v), ShareReports(v), Calms(v, u) PROVE ShareReports(u)
<1>1. \A s \in 1..MaxShares : u.recovery[s].attempt = "none" <=> u.recovery[s].phase = "none"
  BY DEF Calms, ShareReports, O!NoRecovery
<1>2. ASSUME NEW f \in StoreFlow, u.flows[f].rec # 0
      PROVE  u.flows[f].rec = v.flows[f].rec /\ u.recovery[u.flows[f].rec].phase = "running"
  <2>1. u.flows[f].rec = v.flows[f].rec /\ u.flows[f].rec \in 1..MaxShares
    BY <1>2, ShareTypes, ClientAssumption DEF Calms, Wanes, O!Sid, ShareAssumption
  <2>2. u.recovery[u.flows[f].rec] = v.recovery[v.flows[f].rec]
    BY <2>1 DEF Calms
  <2> QED BY <1>2, <2>1, <2>2 DEF ShareReports
<1> QED BY <1>1, <1>2 DEF ShareReports

LEMMA CalmsHeld ==
  ASSUME NEW v, NEW u, ShareShape(v), Held(v), Calms(v, u) PROVE Held(u)
BY DEF Held, Calms, Wanes, O!NoRuntime, ShareShape, RunShape, Borne

LEMMA CalmsOwned ==
  ASSUME NEW v, NEW u, \A f \in StoreFlow : Owned(v, v.flows[f]), Calms(v, u)
  PROVE  \A f \in StoreFlow : Owned(u, u.flows[f])
<1> SUFFICES ASSUME NEW f \in StoreFlow PROVE Owned(u, u.flows[f])
  OBVIOUS
<1>1. Owned(v, v.flows[f]) /\ Wanes(v.flows[f], u.flows[f])
  BY DEF Calms
<1> QED BY <1>1 DEF Owned, Wanes, Calms, Disowned

LEMMA CalmsBase == ASSUME NEW v, NEW u, ShareBase(v), Calms(v, u) PROVE ShareBase(u)
BY CalmsShape, CalmsReports, CalmsHeld, CalmsOwned DEF Calms, ShareBase

-----------------------------------------------------------------------------
(* What the shared functions do, field by field.                           *)

LEMMA CalmsSame ==
  ASSUME NEW v, NEW u, ShareShape(v), u \in O!ShareRec, Fixed(v, u), SameUse(v, u),
         \A f \in StoreFlow : Wanes(v.flows[f], u.flows[f])
  PROVE  Calms(v, u)
BY DEF Calms, SameUse, ShareShape, RunShape

LEMMA ShareWanes == ASSUME NEW v, ShareShape(v), NEW f \in StoreFlow PROVE Wanes(v.flows[f], v.flows[f])
BY ShareTypes DEF Wanes

LEMMA CalmsSelf == ASSUME NEW v, ShareShape(v) PROVE Calms(v, v)
BY ShareWanes, CalmsSame DEF Fixed, SameUse, ShareShape

LEMMA TouchCalms ==
  ASSUME NEW v, ShareShape(v), NEW u, u = O!Touch(v)
  PROVE  /\ Calms(v, u) /\ SameUse(v, u) /\ Disowned(u) /\ u.status = v.status
         /\ \A f \in StoreFlow : u.flows[f].rec = v.flows[f].rec
<1> DEFINE fl == [f \in StoreFlow |-> [v.flows[f] EXCEPT !.own = FALSE]]
<1>1. v \in O!ShareRec /\ v.flows \in [StoreFlow -> O!FlowRec]
  BY ShareTypes
<1>2. /\ fl \in [StoreFlow -> O!FlowRec]
      /\ \A f \in StoreFlow : Wanes(v.flows[f], fl[f]) /\ ~fl[f].own /\ fl[f].rec = v.flows[f].rec
  BY <1>1, ZenonT(30) DEF O!FlowRec, Wanes
<1>3. u = [v EXCEPT !.flows = fl]
  BY DEF O!Touch
<1> HIDE DEF fl
<1>4. u \in O!ShareRec /\ Fixed(v, u) /\ SameUse(v, u) /\ u.flows = fl /\ u.status = v.status
  BY <1>1, <1>2, <1>3 DEF O!ShareRec, Fixed, SameUse
<1> QED BY <1>2, <1>4, CalmsSame DEF Disowned

LEMMA ShowCalms ==
  ASSUME NEW v, ShareShape(v), NEW s \in O!Status, NEW n \in O!Sid, NEW u, u = O!Show(v, s, n)
  PROVE  /\ Calms(v, u) /\ SameUse(v, u) /\ Disowned(u) /\ u.status = s
         /\ \A f \in StoreFlow : u.flows[f].rec = v.flows[f].rec
<1> DEFINE t == O!Touch(v)
<1>1. /\ Calms(v, t) /\ SameUse(v, t) /\ Disowned(t)
      /\ \A f \in StoreFlow : t.flows[f].rec = v.flows[f].rec
  BY TouchCalms
<1>2. u = [t EXCEPT !.status = s, !.sid = n]
  BY DEF O!Show
<1> HIDE DEF t
<1>3. t \in O!ShareRec
  BY <1>1 DEF Calms
<1>4. u \in O!ShareRec /\ Fixed(t, u) /\ SameUse(t, u) /\ u.flows = t.flows /\ u.status = s
  BY <1>2, <1>3 DEF O!ShareRec, Fixed, SameUse
<1>5. SameUse(v, u) /\ Fixed(v, u)
  BY <1>1, <1>4 DEF SameUse, Fixed, Calms
<1>6. \A f \in StoreFlow : Wanes(v.flows[f], u.flows[f])
  BY <1>1, <1>4 DEF Calms
<1> QED BY <1>1, <1>4, <1>5, <1>6, CalmsSame DEF Disowned

\* Shown only when something is.
LEMMA ShowIfAnyCalms ==
  ASSUME NEW v, ShareShape(v), NEW s \in O!Status, NEW u, u = O!ShowIfAny(v, s)
  PROVE  /\ Calms(v, u) /\ SameUse(v, u)
         /\ v.status # "none" => Disowned(u) /\ u.status = s
         /\ v.status = "none" => u = v
         /\ \A f \in StoreFlow : u.flows[f].rec = v.flows[f].rec
BY CalmsSelf, ShareTypes, ShowCalms DEF O!ShowIfAny, SameUse, O!ShareRec

SameRun(v, u) == u.run = v.run /\ u.live = v.live /\ u.hosted = v.hosted /\ u.recovery = v.recovery

LEMMA LapseCalms ==
  ASSUME NEW v, ShareShape(v), NEW b \in BOOLEAN, NEW u, u = [v EXCEPT !.lapsed = b], v.lapsed => b
  PROVE  /\ Calms(v, u) /\ SameRun(v, u) /\ u.lapsed = b /\ u.flows = v.flows /\ u.status = v.status
BY ShareWanes DEF ShareShape, O!ShareRec, Fixed, SameRun, Calms, RunShape

LEMMA ShareCrossCalms ==
  ASSUME NEW v, ShareShape(v), NEW f \in StoreFlow, NEW u, u = O!Cross(v, f)
  PROVE  /\ Calms(v, u) /\ SameRun(v, u) /\ u.flows = v.flows /\ u.status = v.status
         /\ ~u.lapsed => ~v.lapsed /\ v.flows[f].own
         /\ v.flows[f].own => u = v
<1>1. v.flows[f].own \in BOOLEAN
  BY ShareTypes DEF O!FlowRec
<1>2. CASE v.flows[f].own
  BY <1>2, CalmsSelf DEF O!Cross, SameRun
<1>3. CASE ~v.flows[f].own
  BY <1>3, LapseCalms DEF O!Cross, O!Lapse
<1> QED BY <1>1, <1>2, <1>3

\* Only the transport goes.
LEMMA SuspendCalms ==
  ASSUME NEW v, ShareShape(v), NEW u, u = O!SuspendOwned(v)
  PROVE  /\ Calms(v, u) /\ u.run.sid = v.run.sid /\ u.run.cap = v.run.cap /\ u.run.sent = 0
         /\ u.live = v.live /\ u.hosted = v.hosted /\ u.recovery = v.recovery /\ u.lapsed = v.lapsed
         /\ u.flows = v.flows /\ u.status = v.status
<1> DEFINE r == [v.run EXCEPT !.sent = 0]
<1>1. v \in O!ShareRec /\ v.run \in O!RuntimeRec /\ 0 \in O!Cap
  BY ShareTypes, ClientAssumption DEF ShareAssumption, O!Cap
<1>2. r \in O!RuntimeRec /\ r.sid = v.run.sid /\ r.cap = v.run.cap /\ r.sent = 0
  BY <1>1 DEF O!RuntimeRec
<1>3. u = [v EXCEPT !.run = r]
  BY DEF O!SuspendOwned
<1> HIDE DEF r
<1>4. /\ u \in O!ShareRec /\ Fixed(v, u) /\ u.run = r
      /\ u.live = v.live /\ u.hosted = v.hosted /\ u.recovery = v.recovery /\ u.lapsed = v.lapsed
      /\ u.flows = v.flows /\ u.status = v.status
  BY <1>1, <1>2, <1>3 DEF O!ShareRec, Fixed
<1> QED BY <1>2, <1>4, ShareWanes DEF Calms

LEMMA ShareTeardownCalms ==
  ASSUME NEW v, ShareShape(v), NEW u, u = O!TeardownOwned(v)
  PROVE  /\ Calms(v, u) /\ u.run = O!NoRuntime /\ u.live = v.live \ {v.run.cap} /\ Disowned(u)
         /\ u.hosted = v.hosted /\ u.recovery = v.recovery /\ u.lapsed = v.lapsed
         /\ u.status = v.status
         /\ \A f \in StoreFlow : u.flows[f].rec = v.flows[f].rec
<1> DEFINE t == O!Touch(v)
           l == v.live \ {v.run.cap}
<1>1. /\ Calms(v, t) /\ SameUse(v, t) /\ Disowned(t) /\ t.status = v.status
      /\ \A f \in StoreFlow : t.flows[f].rec = v.flows[f].rec
  BY TouchCalms
<1>2. t \in O!ShareRec /\ l \subseteq O!Cap /\ O!NoRuntime \in O!RuntimeRec
  BY <1>1, ShareTypes, ClientAssumption DEF Calms, O!NoRuntime, O!RuntimeRec, O!Sid, O!Cap, ShareAssumption
<1>3. u = [t EXCEPT !.live = l, !.run = O!NoRuntime]
  BY <1>1 DEF O!TeardownOwned, SameUse
<1>4. v.run.cap \notin l /\ l \subseteq v.live /\ v.live \ {v.run.cap} \subseteq l
  OBVIOUS
<1>5. /\ u \in O!ShareRec /\ Fixed(t, u) /\ u.run = O!NoRuntime /\ u.live = l
      /\ u.hosted = t.hosted /\ u.recovery = t.recovery /\ u.lapsed = t.lapsed
      /\ u.flows = t.flows /\ u.status = t.status
  <2> HIDE DEF t, l
  <2> QED BY <1>2, <1>3 DEF O!ShareRec, Fixed
<1> HIDE DEF t
<1>6. Calms(v, u)
  <2> HIDE DEF l
  <2> QED BY <1>1, <1>4, <1>5 DEF Calms, SameUse, Fixed, Disowned
<1> QED BY <1>1, <1>5, <1>6 DEF SameUse, Disowned

LEMMA ShareResolveCalms ==
  ASSUME NEW v, ShareShape(v), NEW s \in O!Sid, NEW u, u = O!ResolveRecovery(v, s)
  PROVE  /\ Calms(v, u)
         /\ u.run = v.run /\ u.live = v.live /\ u.hosted = v.hosted /\ u.lapsed = v.lapsed
         /\ u.status = v.status
         /\ \A r \in 1..MaxShares : IF r = s THEN u.recovery[r] = O!NoRecovery
                                    ELSE u.recovery[r] = v.recovery[r]
         /\ \A g \in StoreFlow : /\ u.flows[g].own = v.flows[g].own
                                 /\ u.flows[g].rec = IF v.flows[g].rec = s THEN 0 ELSE v.flows[g].rec
<1>1. CASE s = 0
  BY <1>1, CalmsSelf, ShareTypes, ClientAssumption DEF O!ResolveRecovery, ShareAssumption, O!Sid
<1>2. CASE s # 0
  <2> DEFINE fl == [f \in StoreFlow |-> IF v.flows[f].rec = s THEN [v.flows[f] EXCEPT !.rec = 0]
                                        ELSE v.flows[f]]
             rs == [v.recovery EXCEPT ![s] = O!NoRecovery]
  <2>1. /\ v \in O!ShareRec /\ v.flows \in [StoreFlow -> O!FlowRec]
        /\ v.recovery \in [1..MaxShares -> O!RecoveryRec] /\ s \in 1..MaxShares /\ 0 \in O!Sid
    BY <1>2, ShareTypes, ClientAssumption DEF ShareAssumption, O!Sid
  <2>2. /\ fl \in [StoreFlow -> O!FlowRec]
        /\ \A g \in StoreFlow : /\ Wanes(v.flows[g], fl[g]) /\ fl[g].own = v.flows[g].own
                                /\ fl[g].rec = IF v.flows[g].rec = s THEN 0 ELSE v.flows[g].rec
    BY <2>1 DEF O!FlowRec, Wanes
  <2>3. /\ rs \in [1..MaxShares -> O!RecoveryRec]
        /\ \A r \in 1..MaxShares : IF r = s THEN rs[r] = O!NoRecovery ELSE rs[r] = v.recovery[r]
    BY <2>1 DEF O!NoRecovery, O!RecoveryRec
  <2>4. u = [v EXCEPT !.recovery = rs, !.flows = fl]
    BY <1>2 DEF O!ResolveRecovery
  <2> HIDE DEF fl, rs
  <2>5. /\ u \in O!ShareRec /\ Fixed(v, u) /\ u.flows = fl /\ u.recovery = rs
        /\ u.run = v.run /\ u.live = v.live /\ u.hosted = v.hosted /\ u.lapsed = v.lapsed
        /\ u.status = v.status
    BY <2>1, <2>2, <2>3, <2>4 DEF O!ShareRec, Fixed
  <2>6. v.run.sid = 0 => v.run.sent = 0
    BY DEF ShareShape, RunShape
  <2>7. \A r \in 1..MaxShares : \/ u.recovery[r] = v.recovery[r]
                                \/ u.recovery[r] = O!NoRecovery /\ \A f \in StoreFlow : u.flows[f].rec # r
    BY <1>2, <2>2, <2>3, <2>5
  <2>8. Calms(v, u)
    BY <2>2, <2>5, <2>6, <2>7 DEF Calms
  <2> QED BY <2>2, <2>3, <2>5, <2>8
<1> QED BY <1>1, <1>2

Answered(v) == \E f \in StoreFlow : v.flows[f].at \in {"started", "produce"}

LEMMA UnhostCalms ==
  ASSUME NEW v, ShareShape(v), NEW u, u = O!Unhost(v)
  PROVE  /\ Calms(v, u) /\ u.hosted = 0 /\ u.run = v.run /\ u.live = v.live
         /\ u.recovery = v.recovery /\ u.flows = v.flows /\ u.status = v.status
         /\ ~u.lapsed => ~v.lapsed /\ ~Answered(v)
<1> DEFINE b == v.lapsed \/ \E f \in StoreFlow : v.flows[f].at \in {"started", "produce"}
<1>1. v \in O!ShareRec /\ 0 \in O!Sid /\ v.lapsed \in BOOLEAN
  BY ShareTypes, ClientAssumption DEF ShareAssumption, O!Sid
<1>2. b \in BOOLEAN /\ (v.lapsed => b) /\ (~b => ~v.lapsed /\ ~Answered(v))
  BY <1>1 DEF Answered
<1>3. u = [v EXCEPT !.hosted = 0, !.lapsed = b]
  BY DEF O!Unhost
<1> HIDE DEF b
<1>4. /\ u \in O!ShareRec /\ Fixed(v, u) /\ u.hosted = 0 /\ u.run = v.run /\ u.live = v.live
      /\ u.recovery = v.recovery /\ u.flows = v.flows /\ u.status = v.status /\ u.lapsed = b
  BY <1>1, <1>2, <1>3 DEF O!ShareRec, Fixed
<1> QED BY <1>2, <1>4, ShareWanes DEF Calms, ShareShape, RunShape

TornDown(v, u) ==
  /\ u.run = O!NoRuntime /\ u.live = v.live \ {v.run.cap} /\ Disowned(u)
  /\ u.hosted = v.hosted /\ u.recovery = v.recovery /\ u.lapsed = v.lapsed

LEMMA ReconcileCalms ==
  ASSUME NEW v, ShareShape(v), NEW u, u = O!Reconcile(v)
  PROVE  /\ Calms(v, u)
         /\ v.run.sid = 0 => u = v
         /\ v.run.sid # 0 /\ v.hosted # v.run.sid => TornDown(v, u) /\ u.status = "none"
         /\ v.run.sid # 0 /\ v.hosted = v.run.sid =>
              SameUse(v, u) /\ u.flows = v.flows /\ u.status = IF v.status = "none" THEN "none" ELSE "live"
<1>1. CASE v.run.sid = 0
  BY <1>1, CalmsSelf DEF O!Reconcile
<1>2. CASE v.run.sid # 0 /\ v.hosted # v.run.sid
  <2> DEFINE t == O!TeardownOwned(v)
  <2>1. Calms(v, t) /\ TornDown(v, t) /\ ShareShape(t)
    BY ShareTeardownCalms, CalmsShape DEF TornDown
  <2>2. u = O!Show(t, "none", 0)
    BY <1>2 DEF O!Reconcile
  <2> HIDE DEF t
  <2>3. Calms(t, u) /\ SameUse(t, u) /\ Disowned(u) /\ u.status = "none"
    BY ClientAssumption, <2>1, <2>2, ShowCalms DEF O!Status, O!Sid, ShareAssumption
  <2>4. Calms(v, u)
    BY <2>1, <2>3, CalmsTrans
  <2> QED BY <1>2, <2>1, <2>3, <2>4 DEF TornDown, SameUse
<1>3. CASE v.run.sid # 0 /\ v.hosted = v.run.sid /\ v.status = "none"
  BY <1>3, CalmsSelf DEF O!Reconcile, SameUse
<1>4. CASE v.run.sid # 0 /\ v.hosted = v.run.sid /\ v.status # "none"
  <2>1. u = [v EXCEPT !.status = "live", !.sid = v.hosted]
    BY <1>4 DEF O!Reconcile
  <2>2. v \in O!ShareRec /\ v.hosted \in O!Sid /\ "live" \in O!Status
    BY ShareTypes DEF O!ShareRec, O!Status
  <2>3. u \in O!ShareRec /\ Fixed(v, u) /\ SameUse(v, u) /\ u.flows = v.flows /\ u.status = "live"
    BY <2>1, <2>2 DEF O!ShareRec, Fixed, SameUse
  <2>4. Calms(v, u)
    BY <2>3, ShareWanes, CalmsSame
  <2> QED BY <1>4, <2>3, <2>4
<1> QED BY <1>1, <1>2, <1>3, <1>4

LEMMA StopHostedCalms ==
  ASSUME NEW v, ShareShape(v), NEW s, NEW u, u = O!StopHosted(v, s)
  PROVE  /\ Calms(v, u)
         /\ s # 0 /\ v.hosted \in {0, s} => u.hosted = 0
         /\ v.run.sid = 0 => u.status = v.status
<1>1. CASE s # 0 /\ v.hosted = s
  <2> DEFINE t == O!Unhost(v)
  <2>1. Calms(v, t) /\ t.hosted = 0 /\ t.run = v.run /\ t.status = v.status /\ ShareShape(t)
    BY UnhostCalms, CalmsShape
  <2>2. u = O!Reconcile(t)
    BY <1>1 DEF O!StopHosted
  <2> HIDE DEF t
  <2>3. Calms(t, u) /\ (t.run.sid = 0 => u = t)
    BY <2>1, <2>2, ReconcileCalms
  <2>4. Calms(v, u) /\ u.hosted = 0
    BY <2>1, <2>3, CalmsTrans DEF Calms
  <2> QED BY <2>1, <2>3, <2>4
<1>2. CASE ~(s # 0 /\ v.hosted = s)
  BY <1>2, CalmsSelf DEF O!StopHosted
<1> QED BY <1>1, <1>2

-----------------------------------------------------------------------------

\* What a place may take: the recovery it reports to, and the capture it stands for.
RecFits(v, f, w) ==
  \/ w.rec \in {0, v.flows[f].rec}
  \/ /\ v.recovery[w.rec].phase = "running"
     /\ \A g \in StoreFlow \ {f} : v.flows[g].rec # w.rec

Fits(v, f, w) ==
  /\ v.flows[f].cap \in v.live => v.flows[f].cap \in {v.run.cap, w.cap}
  /\ w.at \in Private => /\ w.cap # 0 /\ w.cap # v.run.cap /\ (w.cap \in v.live <=> w.at = "swap")
                         /\ \A g \in StoreFlow \ {f} : v.flows[g].cap # w.cap
  /\ w.at \notin Private => w.cap \in {v.run.cap, 0, v.flows[f].cap}
  /\ Borne(w) => w.cap = v.run.cap \/ w.cap \notin v.live
  /\ Owned(v, w)

LEMMA SharePutFacts ==
  ASSUME NEW v, ShareShape(v), NEW f \in StoreFlow, NEW w \in O!FlowRec, NEW u, u = O!Put(v, f, w)
  PROVE  /\ u \in O!ShareRec /\ u.flows[f] = w /\ \A g \in StoreFlow \ {f} : u.flows[g] = v.flows[g]
         /\ Fixed(v, u) /\ SameUse(v, u) /\ u.status = v.status
<1> DEFINE fl == [v.flows EXCEPT ![f] = w]
<1>1. v \in O!ShareRec /\ v.flows \in [StoreFlow -> O!FlowRec]
  BY ShareTypes
<1>2. fl \in [StoreFlow -> O!FlowRec] /\ fl[f] = w /\ \A g \in StoreFlow \ {f} : fl[g] = v.flows[g]
  BY <1>1
<1>3. u = [v EXCEPT !.flows = fl]
  BY DEF O!Put
<1> HIDE DEF fl
<1>4. u \in O!ShareRec /\ u.flows = fl /\ Fixed(v, u) /\ SameUse(v, u) /\ u.status = v.status
  BY <1>1, <1>2, <1>3 DEF O!ShareRec, Fixed, SameUse
<1> QED BY <1>2, <1>4

LEMMA PlacedHeld ==
  ASSUME NEW v, NEW u, NEW f \in StoreFlow, Held(v), \A g \in StoreFlow : Owned(v, v.flows[g]),
         u.run = v.run, u.live = v.live, \A g \in StoreFlow \ {f} : u.flows[g] = v.flows[g],
         Fits(v, f, u.flows[f]), 0 \notin v.live
  PROVE  Held(u) /\ \A g \in StoreFlow : Owned(u, u.flows[g])
<1> DEFINE w == u.flows[f]
<1>1. u.live \subseteq {u.run.cap} \cup {u.flows[g].cap : g \in StoreFlow}
  <2> SUFFICES ASSUME NEW c \in v.live, c # v.run.cap PROVE \E g \in StoreFlow : u.flows[g].cap = c
    OBVIOUS
  <2>1. PICK g \in StoreFlow : v.flows[g].cap = c
    BY DEF Held
  <2>2. CASE g = f
    BY <2>1, <2>2 DEF Fits
  <2>3. CASE g # f
    BY <2>1, <2>3
  <2> QED BY <2>2, <2>3
<1>2. ASSUME NEW g \in StoreFlow, u.flows[g].at \in Private
      PROVE  /\ u.flows[g].cap # 0 /\ u.flows[g].cap # u.run.cap
             /\ u.flows[g].cap \in u.live <=> u.flows[g].at = "swap"
             /\ \A h \in StoreFlow \ {g} : u.flows[h].cap # u.flows[g].cap
  BY <1>2 DEF Fits, Held
<1>3. \A g \in StoreFlow : Borne(u.flows[g]) => u.flows[g].cap = u.run.cap \/ u.flows[g].cap \notin u.live
  BY DEF Fits, Held
<1>4. \A g \in StoreFlow : Owned(u, u.flows[g])
  BY DEF Fits, Owned
<1> QED BY <1>1, <1>2, <1>3, <1>4 DEF Held

LEMMA PlacedReports ==
  ASSUME NEW v, NEW u, NEW f \in StoreFlow, ShareReports(v), u.recovery = v.recovery,
         \A g \in StoreFlow \ {f} : u.flows[g] = v.flows[g], RecFits(v, f, u.flows[f])
  PROVE  ShareReports(u)
BY DEF ShareReports, RecFits

LEMMA SharePutBase ==
  ASSUME NEW v, ShareBase(v), NEW f \in StoreFlow, NEW w \in O!FlowRec, FlowShape(v, w),
         RecFits(v, f, w), ~v.lapsed => Fits(v, f, w), NEW u, u = O!Put(v, f, w)
  PROVE  ShareBase(u)
<1>1. /\ u \in O!ShareRec /\ u.flows[f] = w /\ \A g \in StoreFlow \ {f} : u.flows[g] = v.flows[g]
      /\ Fixed(v, u) /\ SameUse(v, u)
  BY SharePutFacts DEF ShareBase
<1>2. ShareShape(u)
  BY <1>1 DEF ShareBase, ShareShape, RunShape, Fixed, SameUse, FlowShape
<1>3. ShareReports(u)
  BY <1>1, PlacedReports DEF ShareBase, SameUse
<1>4. ~u.lapsed => Held(u) /\ \A g \in StoreFlow : Owned(u, u.flows[g])
  BY <1>1, PlacedHeld DEF ShareBase, ShareShape, RunShape, SameUse
<1> QED BY <1>2, <1>3, <1>4 DEF ShareBase

LEMMA ShareNoFlow ==
  /\ O!NoFlow \in O!FlowRec /\ O!NoFlow.at = "none" /\ O!NoFlow.cap = 0 /\ O!NoFlow.sid = 0
  /\ O!NoFlow.rec = 0 /\ ~O!NoFlow.own /\ ~O!NoFlow.again /\ ~O!NoFlow.retry
BY ClientAssumption DEF ShareAssumption, O!NoFlow, O!FlowRec, O!Sid, O!Cap

LEMMA ShareFreeFacts ==
  ASSUME NEW v, ShareShape(v), NEW f \in StoreFlow, NEW u, u = O!Free(v, f)
  PROVE  /\ u \in O!ShareRec /\ u.flows[f] = O!NoFlow
         /\ \A g \in StoreFlow \ {f} : u.flows[g] = v.flows[g]
         /\ Fixed(v, u) /\ SameUse(v, u) /\ u.status = v.status
BY ShareNoFlow, SharePutFacts DEF O!Free

LEMMA ShareFreeBase ==
  ASSUME NEW v, ShareBase(v), NEW f \in StoreFlow,
         ~v.lapsed /\ v.flows[f].cap \in v.live => v.flows[f].cap = v.run.cap,
         NEW u, u = O!Free(v, f)
  PROVE  ShareBase(u)
<1>1. FlowShape(v, O!NoFlow)
  BY ShareNoFlow, ShareTypes DEF FlowShape, Private, Named, Begins, ShareBase
<1>2. RecFits(v, f, O!NoFlow)
  BY ShareNoFlow DEF RecFits
<1>3. ~v.lapsed => Fits(v, f, O!NoFlow)
  BY ShareNoFlow DEF Fits, Owned, Borne, Private, ShareBase, ShareShape, RunShape
<1> QED BY <1>1, <1>2, <1>3, ShareNoFlow, SharePutBase DEF O!Free

-----------------------------------------------------------------------------
(* The functions of the recovery.                                          *)

SetRecovery(v, s, r) == [v EXCEPT !.recovery = [v.recovery EXCEPT ![s] = r]]

SameElse(v, u) ==
  /\ Fixed(v, u) /\ u.status = v.status /\ u.flows = v.flows
  /\ u.run = v.run /\ u.live = v.live /\ u.hosted = v.hosted /\ u.lapsed = v.lapsed

LEMMA ShareSetFacts ==
  ASSUME NEW v, ShareShape(v), NEW s \in 1..MaxShares, NEW r \in O!RecoveryRec
  PROVE  LET u == SetRecovery(v, s, r)
         IN  /\ ShareShape(u) /\ SameElse(v, u) /\ u.recovery[s] = r
             /\ \A t \in 1..MaxShares \ {s} : u.recovery[t] = v.recovery[t]
<1> DEFINE u == SetRecovery(v, s, r)
           rs == [v.recovery EXCEPT ![s] = r]
<1>1. v \in O!ShareRec /\ v.recovery \in [1..MaxShares -> O!RecoveryRec]
  BY ShareTypes
<1>2. /\ rs \in [1..MaxShares -> O!RecoveryRec] /\ rs[s] = r
      /\ \A t \in 1..MaxShares \ {s} : rs[t] = v.recovery[t]
  BY <1>1
<1>3. u = [v EXCEPT !.recovery = rs]
  BY DEF SetRecovery
<1> HIDE DEF rs, u
<1>4. u \in O!ShareRec /\ SameElse(v, u) /\ u.recovery = rs
  BY <1>1, <1>2, <1>3 DEF O!ShareRec, Fixed, SameElse
<1>5. ShareShape(u)
  BY <1>4 DEF ShareShape, RunShape, FlowShape, SameElse, Fixed
<1> QED BY <1>2, <1>4, <1>5 DEF u

\* A recovery nobody reports to may be set to anything that is one.
LEMMA ShareSetBase ==
  ASSUME NEW v, ShareBase(v), NEW s \in 1..MaxShares, NEW r \in O!RecoveryRec,
         r.attempt = "none" <=> r.phase = "none", \A g \in StoreFlow : v.flows[g].rec # s,
         NEW u, u = SetRecovery(v, s, r)
  PROVE  ShareBase(u)
<1>1. /\ ShareShape(u) /\ SameElse(v, u) /\ u.recovery[s] = r
      /\ \A t \in 1..MaxShares \ {s} : u.recovery[t] = v.recovery[t]
  BY ShareSetFacts DEF ShareBase
<1>2. ShareReports(u)
  <2>1. \A t \in 1..MaxShares : u.recovery[t].attempt = "none" <=> u.recovery[t].phase = "none"
    BY <1>1 DEF ShareBase, ShareReports
  <2>2. ASSUME NEW f \in StoreFlow, u.flows[f].rec # 0 PROVE u.recovery[u.flows[f].rec].phase = "running"
    <3>1. v.flows[f].rec \in 1..MaxShares \ {s} /\ u.flows[f].rec = v.flows[f].rec
      BY <1>1, <2>2, ShareTypes, ClientAssumption DEF ShareBase, SameElse, O!Sid, ShareAssumption
    <3> QED BY <1>1, <2>2, <3>1 DEF ShareBase, ShareReports
  <2> QED BY <1>1, <2>1, <2>2 DEF ShareBase, ShareReports, SameElse
<1>3. ~u.lapsed => Held(u) /\ \A f \in StoreFlow : Owned(u, u.flows[f])
  BY <1>1 DEF ShareBase, SameElse, Held, Owned
<1> QED BY <1>1, <1>2, <1>3 DEF ShareBase

\* The attempt of s may end: it is being made, and no function reports to it any more.
MayEnd(v, s) ==
  /\ ShareBase(v) /\ s \in O!Sid
  /\ s # 0 => v.recovery[s].attempt # "none" /\ \A g \in StoreFlow : v.flows[g].rec # s

Ended(v, s, u) ==
  /\ ShareBase(u) /\ ShareShape(u) /\ SameElse(v, u)
  /\ \A t \in 1..MaxShares \ {s} : u.recovery[t] = v.recovery[t]
  /\ s # 0 => u.recovery[s].attempt = v.recovery[s].attempt

LEMMA AttemptFailed ==
  ASSUME NEW v, NEW s, MayEnd(v, s) PROVE Ended(v, s, O!AttemptEnds(v, s, FALSE))
<1> USE DEF MayEnd, Ended
<1> DEFINE u == O!AttemptEnds(v, s, FALSE)
<1>1. CASE s = 0
  BY <1>1 DEF O!AttemptEnds, SameElse, Fixed, ShareBase
<1>2. CASE s # 0
  <2> DEFINE r == [v.recovery[s] EXCEPT !.phase = "timer"]
  <2>1. /\ s \in 1..MaxShares /\ v.recovery \in [1..MaxShares -> O!RecoveryRec] /\ ShareShape(v)
    BY <1>2, ShareTypes, ClientAssumption DEF ShareAssumption, O!Sid, ShareBase
  <2>2. r \in O!RecoveryRec /\ r.attempt = v.recovery[s].attempt /\ r.phase = "timer"
    BY <2>1 DEF O!RecoveryRec
  <2>3. u = SetRecovery(v, s, r)
    BY <1>2 DEF O!AttemptEnds, SetRecovery
  <2> HIDE DEF r, u
  <2>4. /\ ShareShape(u) /\ SameElse(v, u) /\ u.recovery[s] = r
        /\ \A t \in 1..MaxShares \ {s} : u.recovery[t] = v.recovery[t]
    BY ONLY <2>1, <2>2, <2>3, ShareSetFacts
  <2>5. ShareBase(u)
    BY <1>2, <2>1, <2>2, <2>3, ShareSetBase
  <2> QED BY <2>2, <2>4, <2>5 DEF u
<1> QED BY <1>1, <1>2

LEMMA AttemptDone ==
  ASSUME NEW v, ShareBase(v), NEW s \in O!Sid, s # 0 => \A g \in StoreFlow : v.flows[g].rec # s,
         NEW u, u = O!AttemptEnds(v, s, TRUE)
  PROVE  ShareBase(u) /\ SameElse(v, u)
<1>1. CASE s = 0
  BY <1>1 DEF O!AttemptEnds, SameElse, Fixed
<1>2. CASE s # 0
  <2>1. s \in 1..MaxShares /\ ShareShape(v)
    BY <1>2, ClientAssumption DEF ShareAssumption, O!Sid, ShareBase
  <2>2. u = SetRecovery(v, s, O!NoRecovery)
    BY <1>2 DEF O!AttemptEnds, SetRecovery
  <2>3. /\ O!NoRecovery \in O!RecoveryRec
        /\ O!NoRecovery.attempt = "none" <=> O!NoRecovery.phase = "none"
    BY DEF O!NoRecovery, O!RecoveryRec
  <2>4. SameElse(v, u)
    BY ONLY <2>1, <2>2, <2>3, ShareSetFacts
  <2> QED BY <1>2, <2>1, <2>2, <2>3, <2>4, ShareSetBase
<1> QED BY <1>1, <1>2

\* A function that fails gives its capture back.
Released(v, f) == [O!Free(v, f) EXCEPT !.live = @ \ {v.flows[f].cap}]

LEMMA ReleasedFacts ==
  ASSUME NEW v, ShareBase(v), NEW f \in StoreFlow, NEW u, u = Released(v, f)
  PROVE  /\ ShareBase(u) /\ Fixed(v, u) /\ u.status = v.status
         /\ u.run = v.run /\ u.hosted = v.hosted /\ u.lapsed = v.lapsed /\ u.recovery = v.recovery
         /\ u.live = v.live \ {v.flows[f].cap}
         /\ u.flows[f].at = "none" /\ ~u.flows[f].own
         /\ \A g \in StoreFlow \ {f} : u.flows[g] = v.flows[g]
<1> DEFINE t == O!Free(v, f)
           l == v.live \ {v.flows[f].cap}
<1>1. /\ t \in O!ShareRec /\ t.flows[f] = O!NoFlow
      /\ \A g \in StoreFlow \ {f} : t.flows[g] = v.flows[g]
      /\ Fixed(v, t) /\ SameUse(v, t) /\ t.status = v.status
  BY ShareFreeFacts DEF ShareBase
<1>2. u = [t EXCEPT !.live = l] /\ l \subseteq O!Cap
  BY <1>1, ShareTypes DEF Released, SameUse, ShareBase
<1> HIDE DEF t, l
<1>3. /\ u \in O!ShareRec /\ u.flows = t.flows /\ u.status = t.status /\ Fixed(t, u)
      /\ u.run = t.run /\ u.hosted = t.hosted /\ u.lapsed = t.lapsed /\ u.recovery = t.recovery
      /\ u.live = l
  BY <1>1, <1>2 DEF O!ShareRec, Fixed
<1>4. /\ u.flows[f] = O!NoFlow /\ \A g \in StoreFlow \ {f} : u.flows[g] = v.flows[g]
      /\ Fixed(v, u) /\ u.status = v.status
      /\ u.run = v.run /\ u.hosted = v.hosted /\ u.lapsed = v.lapsed /\ u.recovery = v.recovery
      /\ u.live = v.live \ {v.flows[f].cap}
  BY <1>1, <1>3 DEF Fixed, SameUse, l
<1>5. ShareShape(u)
  <2>1. RunShape(u)
    BY <1>4 DEF ShareBase, ShareShape, RunShape, Fixed
  <2>2. FlowShape(u, O!NoFlow)
    BY <1>3, <1>4, ShareNoFlow, ShareTypes DEF FlowShape, Private, Named, Begins, ShareBase, Fixed
  <2>3. \A g \in StoreFlow \ {f} : FlowShape(u, u.flows[g])
    BY <1>4 DEF ShareBase, ShareShape, FlowShape, Fixed
  <2> QED BY <1>3, <1>4, <2>1, <2>2, <2>3 DEF ShareShape
<1>6. ShareReports(u)
  BY <1>4, ShareNoFlow, PlacedReports DEF ShareBase, RecFits
<1>7. ASSUME ~u.lapsed PROVE Held(u) /\ \A g \in StoreFlow : Owned(u, u.flows[g])
  BY <1>4, <1>7, ShareNoFlow DEF ShareBase, Held, Private, Borne, Owned
<1> QED BY <1>4, <1>5, <1>6, <1>7, ShareNoFlow DEF ShareBase

-----------------------------------------------------------------------------

LEMMA BeginReconnectFacts ==
  ASSUME NEW v, ShareBase(v), NEW f \in StoreFlow, v.flows[f].at = "none", v.run.sid # 0,
         NEW w \in O!FlowRec, RecFits(v, f, w), NEW u, u = O!BeginReconnect(v, f, w)
  PROVE  /\ ShareBase(u) /\ Fixed(v, u) /\ SameUse(v, u) /\ u.status = v.status
         /\ \A g \in StoreFlow \ {f} : u.flows[g] = v.flows[g]
         /\ u.flows[f].at = "reconnect" /\ u.flows[f].own
         /\ u.flows[f].cap = v.run.cap /\ u.flows[f].sid = v.run.sid
         /\ u.flows[f].again = w.again /\ u.flows[f].retry = w.retry /\ u.flows[f].rec = w.rec
<1> DEFINE x == [w EXCEPT !.at = "reconnect", !.cap = v.run.cap, !.sid = v.run.sid, !.own = TRUE]
<1>1. ShareShape(v) /\ v.run \in O!RuntimeRec
  BY ShareTypes DEF ShareBase
<1>2. /\ x \in O!FlowRec /\ x.at = "reconnect" /\ x.own /\ x.cap = v.run.cap /\ x.sid = v.run.sid
      /\ x.again = w.again /\ x.retry = w.retry /\ x.rec = w.rec
  BY <1>1 DEF O!FlowRec, O!RuntimeRec, O!Commands
<1>3. u = O!Put(v, f, x)
  BY DEF O!BeginReconnect
<1> HIDE DEF x
<1>4. FlowShape(v, x)
  BY <1>1, <1>2 DEF FlowShape, ShareShape, RunShape, Private, Named, Begins
<1>5. RecFits(v, f, x)
  BY <1>2 DEF RecFits
<1>6. Fits(v, f, x)
  BY <1>1, <1>2 DEF ShareShape, FlowShape, RunShape, Fits, Private, Borne, Owned, Begins
<1> QED BY <1>1, <1>2, <1>3, <1>4, <1>5, <1>6, SharePutFacts, SharePutBase

\* A runtime with its capture is taken up again by the function f, which mends it or
\* reports to a recovery.
Resumes(v, f, rec, u) ==
  /\ Fixed(v, u) /\ u.run.sid = v.run.sid /\ u.run.cap = v.run.cap /\ u.run.sent \in {0, v.run.sent}
  /\ u.live = v.live /\ u.hosted = v.hosted /\ u.lapsed = v.lapsed
  /\ u.flows[f].own /\ u.flows[f].cap = v.run.cap /\ u.flows[f].rec = rec
  /\ \/ /\ u.flows[f].at = "reconnect" /\ u.flows[f].sid = v.run.sid
        /\ u.status = v.status
        /\ \A g \in StoreFlow \ {f} : u.flows[g] = v.flows[g]
     \/ /\ u.flows[f].at = "start" /\ u.flows[f].again
        /\ u.status = "starting"
        /\ \A g \in StoreFlow \ {f} : ~u.flows[g].own

\* What a restore begins comes to.
Restores(v, f, w, u) ==
  /\ \A g \in StoreFlow \ {f} : Wanes(v.flows[g], u.flows[g])
  /\ u.recovery = v.recovery
  /\ Fixed(v, u) /\ u.lapsed = v.lapsed /\ u.hosted = v.hosted /\ u.run.sid = v.run.sid
  /\ IF v.run.sid # 0 /\ v.run.cap \in v.live
     THEN Resumes(v, f, w.rec, u) /\ u.flows[f].again /\ u.flows[f].retry = w.retry
     ELSE u.flows[f].at = "none" /\ (v.run.sid = 0 => Disowned(u) /\ u.status = "none")

LEMMA BeginRestoreFacts ==
  ASSUME NEW v, ShareBase(v), NEW f \in StoreFlow, v.flows[f].at = "none",
         NEW w \in O!FlowRec, w.sid = 0, RecFits(v, f, w), NEW u, u = O!BeginRestore(v, f, w)
  PROVE  ShareBase(u) /\ Restores(v, f, w, u)
<1> DEFINE t == O!SuspendOwned(v)
           registered == v.run.sid # 0 /\ v.sid = v.run.sid /\ v.status = "reconnecting"
           reusable == v.run.sid # 0 /\ v.run.cap \in v.live
           a == [w EXCEPT !.again = TRUE]
           x == [w EXCEPT !.at = "start", !.again = TRUE, !.cap = v.run.cap, !.own = TRUE]
<1>1. ShareShape(v) /\ v.run \in O!RuntimeRec /\ "starting" \in O!Status /\ "none" \in O!Status /\ 0 \in O!Sid
  BY ShareTypes, ClientAssumption DEF ShareBase, O!Status, O!Sid, ShareAssumption
<1>2. /\ Calms(v, t) /\ t.run.sid = v.run.sid /\ t.run.cap = v.run.cap /\ t.run.sent = 0
      /\ t.live = v.live /\ t.hosted = v.hosted /\ t.recovery = v.recovery /\ t.lapsed = v.lapsed
      /\ t.flows = v.flows /\ t.status = v.status
  BY <1>1, SuspendCalms
<1>3. ShareBase(t) /\ Fixed(v, t)
  BY <1>2, CalmsBase DEF Calms
<1>4. /\ a \in O!FlowRec /\ a.again /\ a.retry = w.retry /\ a.rec = w.rec
      /\ x \in O!FlowRec /\ x.at = "start" /\ x.own /\ x.again /\ x.cap = v.run.cap
      /\ x.retry = w.retry /\ x.rec = w.rec /\ x.sid = 0
  BY <1>1 DEF O!FlowRec, O!RuntimeRec, O!Commands
<1>5. CASE reusable /\ registered
  <2>1. u = O!BeginReconnect(t, f, a)
    <3> HIDE DEF t, a
    <3> QED BY <1>5 DEF O!BeginRestore, t, a
  <2> HIDE DEF t, a, x
  <2>2. RecFits(t, f, a) /\ t.run.sid # 0 /\ t.flows[f].at = "none" /\ a \in O!FlowRec
    BY <1>2, <1>4, <1>5 DEF RecFits
  <2>3. /\ ShareBase(u) /\ Fixed(t, u) /\ SameUse(t, u) /\ u.status = t.status
        /\ \A g \in StoreFlow \ {f} : u.flows[g] = t.flows[g]
        /\ u.flows[f].at = "reconnect" /\ u.flows[f].own
        /\ u.flows[f].cap = t.run.cap /\ u.flows[f].sid = t.run.sid
        /\ u.flows[f].again = a.again /\ u.flows[f].retry = a.retry /\ u.flows[f].rec = a.rec
    BY <1>3, <2>1, <2>2, BeginReconnectFacts
  <2>4. Resumes(v, f, w.rec, u)
    BY <1>2, <1>3, <1>4, <2>3 DEF Resumes, Fixed, SameUse
  <2> QED BY <1>1, <1>2, <1>3, <1>4, <1>5, <2>3, <2>4, ShareWanes DEF Restores, Fixed, SameUse
<1>6. CASE ~registered
  <2> DEFINE y == O!Show(t, IF reusable THEN "starting" ELSE "none", 0)
  <2>1. /\ Calms(t, y) /\ SameUse(t, y) /\ Disowned(y) /\ y.status = IF reusable THEN "starting" ELSE "none"
        /\ \A g \in StoreFlow : y.flows[g].rec = t.flows[g].rec
    <3> HIDE DEF t
    <3> QED BY <1>1, <1>3, ShowCalms DEF ShareBase
  <2>2. u = IF reusable THEN O!Put(y, f, x) ELSE y
    <3> HIDE DEF t, x
    <3> QED BY <1>6 DEF O!BeginRestore, t, x
  <2> HIDE DEF t, x, y
  <2>3. /\ ShareBase(y) /\ Fixed(v, y)
        /\ \A g \in StoreFlow : Wanes(v.flows[g], y.flows[g])
    BY <1>2, <1>3, <2>1, CalmsBase DEF Calms, Fixed
  <2>4. CASE ~reusable
    BY <2>3, <1>2, <2>1, <2>2, <2>4 DEF Wanes, Restores, SameUse
  <2>5. CASE reusable
    <3>1. u = O!Put(y, f, x)
      BY <2>2, <2>5
    <3>2. y.flows[f].cap = 0 /\ 0 \notin y.live
      BY <2>3 DEF Wanes, ShareBase, ShareShape, FlowShape, RunShape
    <3>3. y.run.cap = v.run.cap /\ y.live = v.live /\ y.run.sid = v.run.sid
      BY <1>2, <2>1 DEF SameUse
    <3>4. FlowShape(y, x)
      BY <2>3, <2>5, <3>3, ShareTypes, <1>4 DEF ShareBase, ShareShape, RunShape, FlowShape, Private,
         Named, Begins
    <3>5. RecFits(y, f, x)
      BY <1>2, <1>4, <2>1 DEF RecFits, SameUse
    <3>6. Fits(y, f, x)
      BY <1>4, <3>2, <3>3 DEF Fits, Private, Borne, Owned, Begins
    <3>7. ShareBase(u)
      BY <1>4, <2>3, <3>1, <3>4, <3>5, <3>6, SharePutBase
    <3>8. /\ u.flows[f] = x /\ \A g \in StoreFlow \ {f} : u.flows[g] = y.flows[g]
          /\ Fixed(y, u) /\ SameUse(y, u) /\ u.status = y.status
      BY <1>4, <2>3, <3>1, SharePutFacts DEF ShareBase
    <3>9. Resumes(v, f, w.rec, u)
      BY <1>2, <1>4, <2>1, <2>3, <2>5, <3>8 DEF Resumes, Fixed, SameUse, Disowned
    <3> QED BY <1>2, <1>4, <2>1, <2>3, <2>5, <3>7, <3>8, <3>9 DEF Restores, Fixed, SameUse
  <2> QED BY <2>4, <2>5
<1>7. CASE ~reusable /\ registered
  <2>1. u = t
    <3> HIDE DEF t, a, x
    <3> QED BY <1>7 DEF O!BeginRestore, t
  <2> QED BY <1>1, <1>2, <1>3, <1>7, <2>1, ShareWanes DEF Restores
<1> QED BY <1>5, <1>6, <1>7

-----------------------------------------------------------------------------

RecoveryRuns(v, s) == [v EXCEPT !.recovery[s].phase = "running"]

\* What a retry comes to, for the runtime there is: it is taken up again, or there is none.
Reran(v, s, f, u) ==
  /\ Fixed(v, u) /\ (v.lapsed => u.lapsed) /\ u.hosted = v.hosted
  /\ \A g \in StoreFlow \ {f} : Wanes(v.flows[g], u.flows[g])
  /\ \A t \in 1..MaxShares \ {s} : u.recovery[t] = v.recovery[t]
  /\ u.flows[f].rec \in {0, s}
  /\ v.run.sid # 0 /\ v.run.cap \in v.live =>
       /\ Resumes(v, f, s, u) /\ u.recovery[s].attempt # "none"
       /\ u.flows[f].again => u.flows[f].retry
  /\ v.run.sid = 0 =>
       /\ u.run.sid = 0
       /\ \/ Disowned(u) /\ u.status = "none"
          \/ u.live = v.live /\ u.flows = v.flows /\ u.status = v.status
  /\ v.run.sid # 0 /\ v.run.cap \notin v.live => u.flows[f].at = "none"

LEMMA RunFacts ==
  ASSUME NEW v, ShareShape(v), NEW s \in 1..MaxShares, v.recovery[s].attempt # "none",
         NEW f \in StoreFlow, v.flows[f].at = "none", \A g \in StoreFlow : v.flows[g].rec # s,
         ShareBase(RecoveryRuns(v, s)), ShareBase(SetRecovery(v, s, O!NoRecovery)),
         NEW u, u = O!RunRecovery(v, s, f)
  PROVE  ShareBase(u) /\ Reran(v, s, f, u)
<1> DEFINE x == RecoveryRuns(v, s)
           e == SetRecovery(v, s, O!NoRecovery)
           w == [O!NoFlow EXCEPT !.rec = s, !.retry = TRUE]
           m == [w EXCEPT !.retry = FALSE]
<1>1. /\ v.recovery \in [1..MaxShares -> O!RecoveryRec] /\ s \in O!Sid /\ v.flows[f].rec = 0
      /\ O!NoRecovery \in O!RecoveryRec
  BY ShareTypes, ClientAssumption
     DEF ShareAssumption, O!Sid, O!NoRecovery, O!RecoveryRec, ShareShape, FlowShape
<1>2. /\ SameElse(v, x) /\ x.recovery[s].attempt = v.recovery[s].attempt
      /\ x.recovery[s].phase = "running"
      /\ \A t \in 1..MaxShares \ {s} : x.recovery[t] = v.recovery[t]
  <2> DEFINE r == [v.recovery[s] EXCEPT !.phase = "running"]
  <2>1. r \in O!RecoveryRec /\ r.attempt = v.recovery[s].attempt /\ r.phase = "running"
    BY <1>1 DEF O!RecoveryRec
  <2>2. x = SetRecovery(v, s, r)
    BY DEF RecoveryRuns, SetRecovery
  <2> HIDE DEF r, x
  <2> QED BY <2>1, <2>2, ShareSetFacts
<1>3. /\ SameElse(v, e) /\ e.recovery[s] = O!NoRecovery
      /\ \A t \in 1..MaxShares \ {s} : e.recovery[t] = v.recovery[t]
  <2> HIDE DEF e
  <2>1. e = SetRecovery(v, s, O!NoRecovery)
    BY DEF e
  <2> QED BY <1>1, <2>1, ShareSetFacts
<1>4. /\ w \in O!FlowRec /\ w.rec = s /\ w.retry /\ ~w.again /\ w.sid = 0
      /\ m \in O!FlowRec /\ m.rec = s /\ ~m.retry /\ ~m.again
  BY <1>1, ShareNoFlow DEF O!FlowRec, O!NoFlow
<1>5. /\ ShareBase(x) /\ ShareBase(e) /\ RecFits(x, f, w) /\ RecFits(x, f, m)
      /\ x.flows[f].at = "none" /\ e.flows[f].at = "none"
  <2> HIDE DEF w, m
  <2> QED BY <1>2, <1>3, <1>4 DEF RecFits, SameElse
<1>6. v.recovery[s].attempt \in {"media", "restore"}
  BY <1>1 DEF O!RecoveryRec
<1>7. /\ v.run.cap \in v.live => v.run.sid # 0
      /\ \A g \in StoreFlow : Wanes(v.flows[g], v.flows[g])
  BY ShareWanes DEF ShareShape, RunShape
<1>8. CASE v.recovery[s].attempt = "restore" /\ v.run.sid = 0
  <2>1. u = e
    <3> HIDE DEF x
    <3> QED BY <1>8 DEF O!RunRecovery, SetRecovery
  <2> HIDE DEF e, x, w, m
  <2> QED BY <1>1, <1>3, <1>5, <1>7, <1>8, <2>1 DEF Reran, SameElse
<1>9. CASE v.recovery[s].attempt = "restore" /\ v.run.sid # 0
  <2> DEFINE t == O!BeginRestore(x, f, w)
  <2>1. ShareBase(t) /\ Restores(x, f, w, t)
    <3> HIDE DEF w, x
    <3> QED BY <1>4, <1>5, BeginRestoreFacts
  <2>2. u = IF t.flows[f].at = "none" THEN SetRecovery(t, s, O!NoRecovery) ELSE t
    BY <1>9 DEF O!RunRecovery, SetRecovery, RecoveryRuns
  <2> HIDE DEF t, e, x, w, m
  <2>3. CASE v.run.cap \in v.live
    <3>1. Resumes(x, f, s, t) /\ t.flows[f].again /\ t.flows[f].retry /\ t.flows[f].at # "none" /\ u = t
      BY <1>2, <1>4, <1>9, <2>1, <2>2, <2>3 DEF Restores, Resumes, SameElse
    <3>2. Resumes(v, f, s, t)
      BY <1>2, <3>1 DEF Resumes, SameElse, Fixed
    <3> QED BY <1>2, <1>9, <2>1, <2>3, <3>1, <3>2 DEF Reran, Resumes, Restores, SameElse, Fixed
  <2>4. CASE v.run.cap \notin v.live
    <3>1. t.flows[f].at = "none" /\ u = SetRecovery(t, s, O!NoRecovery)
      BY <1>2, <1>9, <2>1, <2>2, <2>4 DEF Restores, SameElse
    <3>2. \A g \in StoreFlow : t.flows[g].rec # s
      BY <1>2, <2>1, <3>1 DEF Restores, Wanes, SameElse, ShareBase, ShareShape, FlowShape
    <3>3. ShareBase(u)
      BY <1>1, <2>1, <3>1, <3>2, ShareSetBase DEF O!NoRecovery
    <3>4. /\ SameElse(t, u) /\ \A y \in 1..MaxShares \ {s} : u.recovery[y] = t.recovery[y]
      BY <2>1, <1>1, <3>1, s \in 1..MaxShares, ShareSetFacts DEF ShareBase
    <3>5. t.flows[f].rec = 0
      BY <2>1, <3>1 DEF ShareBase, ShareShape, FlowShape
    <3> QED BY <1>2, <1>9, <2>1, <2>4, <3>1, <3>3, <3>4, <3>5 DEF Reran, Restores, SameElse, Fixed
  <2> QED BY <2>3, <2>4
<1>10. CASE v.recovery[s].attempt = "media" /\ v.run.cap \in v.live
  <2>1. u = O!BeginReconnect(x, f, m)
    BY <1>10 DEF O!RunRecovery, RecoveryRuns
  <2> HIDE DEF x, e, w, m
  <2>2. /\ ShareBase(u) /\ Fixed(x, u) /\ SameUse(x, u) /\ u.status = x.status
        /\ \A g \in StoreFlow \ {f} : u.flows[g] = x.flows[g]
        /\ u.flows[f].at = "reconnect" /\ u.flows[f].own
        /\ u.flows[f].cap = x.run.cap /\ u.flows[f].sid = x.run.sid
        /\ u.flows[f].again = m.again /\ u.flows[f].retry = m.retry /\ u.flows[f].rec = m.rec
    BY <1>2, <1>7, <1>10, <1>4, <1>5, <2>1, BeginReconnectFacts DEF SameElse
  <2>3. Resumes(v, f, s, u)
    BY <1>2, <1>4, <2>2 DEF Resumes, Fixed, SameElse, SameUse
  <2>4. /\ u.recovery[s].attempt # "none" /\ ~u.flows[f].again
        /\ \A t \in 1..MaxShares \ {s} : u.recovery[t] = v.recovery[t]
    BY <1>2, <1>4, <2>2 DEF SameUse
  <2>5. /\ Fixed(v, u) /\ (v.lapsed => u.lapsed) /\ u.hosted = v.hosted /\ u.flows[f].rec \in {0, s}
        /\ \A g \in StoreFlow \ {f} : Wanes(v.flows[g], u.flows[g])
    BY <1>2, <1>4, <1>7, <2>2 DEF Fixed, SameElse, SameUse
  <2> QED BY <1>7, <1>10, <2>2, <2>3, <2>4, <2>5 DEF Reran
<1>11. CASE v.recovery[s].attempt = "media" /\ v.run.cap \notin v.live
  <2> DEFINE t == O!TeardownOwned(e)
             y == O!Show(t, "none", 0)
             b == y.lapsed \/ v.run.sid # 0
  <2>1. /\ Calms(e, t) /\ t.run = O!NoRuntime /\ Disowned(t) /\ t.hosted = e.hosted
        /\ t.recovery = e.recovery
    <3> HIDE DEF e
    <3> QED BY <1>5, ShareTeardownCalms DEF ShareBase
  <2>2. ShareBase(t)
    <3> HIDE DEF e, t
    <3> QED BY <1>5, <2>1, CalmsBase
  <2>3. Calms(t, y) /\ SameUse(t, y) /\ Disowned(y) /\ y.status = "none"
    <3> HIDE DEF t
    <3>1. "none" \in O!Status /\ 0 \in O!Sid
      BY ClientAssumption DEF O!Status, O!Sid, ShareAssumption
    <3> QED BY <2>2, <3>1, ShowCalms DEF ShareBase
  <2>4. u = [y EXCEPT !.lapsed = b]
    BY <1>11 DEF O!RunRecovery, SetRecovery
  <2> HIDE DEF t, y, e, x, w, m
  <2>5. ShareBase(y) /\ y.lapsed \in BOOLEAN
    BY <2>2, <2>3, CalmsBase, ShareTypes DEF ShareBase
  <2>6. Calms(y, u) /\ SameRun(y, u) /\ u.flows = y.flows /\ u.status = y.status
    <3>1. b \in BOOLEAN /\ (y.lapsed => b)
      BY <2>5
    <3> HIDE DEF b
    <3> QED BY <2>4, <2>5, <3>1, LapseCalms DEF ShareBase
  <2>7. ShareBase(u) /\ Calms(e, u)
    BY <2>2, <2>3, <2>6, CalmsTrans, <1>5, <2>1, <2>5, CalmsBase DEF ShareBase
  <2>8. /\ Disowned(u) /\ u.status = "none" /\ u.run = O!NoRuntime /\ u.hosted = v.hosted
        /\ u.recovery = e.recovery
    BY <1>3, <2>1, <2>3, <2>6 DEF Disowned, SameUse, SameRun, SameElse
  <2>9. /\ Fixed(v, u) /\ (v.lapsed => u.lapsed)
        /\ \A g \in StoreFlow : Wanes(v.flows[g], u.flows[g])
    BY <1>3, <2>7 DEF Calms, Fixed, SameElse
  <2>10. u.flows[f].at = "none" /\ u.flows[f].rec = 0
    BY <1>1, <2>9 DEF Wanes
  <2> QED BY <1>3, <1>7, <1>11, <2>7, <2>8, <2>9, <2>10 DEF Reran, O!NoRuntime
<1> QED BY <1>6, <1>8, <1>9, <1>10, <1>11

LEMMA StartRecoveryFacts ==
  ASSUME NEW v, ShareBase(v), NEW f \in StoreFlow, v.flows[f].at = "none", NEW s \in O!Sid,
         NEW a \in {"media", "restore"}, NEW u, u = O!StartRecovery(v, s, a, f)
  PROVE  /\ ShareBase(u)
         /\ IF s = 0 \/ v.recovery[s].attempt # "none" THEN u = v ELSE Reran(v, s, f, u)
<1>1. CASE s = 0 \/ v.recovery[s].attempt # "none"
  BY <1>1 DEF O!StartRecovery
<1>2. CASE ~(s = 0 \/ v.recovery[s].attempt # "none")
  <2> DEFINE r == [v.recovery[s] EXCEPT !.attempt = a]
             x == SetRecovery(v, s, r)
             q == [x.recovery[s] EXCEPT !.phase = "running"]
             y == RecoveryRuns(x, s)
             e == SetRecovery(x, s, O!NoRecovery)
  <2>1. /\ ShareShape(v) /\ s \in 1..MaxShares /\ v.recovery \in [1..MaxShares -> O!RecoveryRec]
        /\ O!NoRecovery \in O!RecoveryRec
    BY <1>2, ShareTypes, ClientAssumption
       DEF ShareAssumption, O!Sid, ShareBase, O!NoRecovery, O!RecoveryRec
  <2>2. \A g \in StoreFlow : v.flows[g].rec # s
    BY <1>2, <2>1 DEF ShareBase, ShareReports
  <2>3. r \in O!RecoveryRec /\ r.attempt = a /\ a # "none"
    BY <2>1 DEF O!RecoveryRec
  <2>4. u = O!RunRecovery(x, s, f)
    BY <1>2 DEF O!StartRecovery, SetRecovery
  <2> HIDE DEF r
  <2>5. /\ ShareShape(x) /\ SameElse(v, x) /\ x.recovery[s] = r
        /\ \A t \in 1..MaxShares \ {s} : x.recovery[t] = v.recovery[t]
    BY ONLY <2>1, <2>3, ShareSetFacts, ZenonT(30) DEF x
  <2>6. /\ q \in O!RecoveryRec /\ q.attempt = a /\ q.phase = "running"
    BY <2>3, <2>5 DEF O!RecoveryRec
  <2>7. y = SetRecovery(v, s, q) /\ e = SetRecovery(v, s, O!NoRecovery)
    <3>1. y = [x EXCEPT !.recovery = [x.recovery EXCEPT ![s] = q]]
      BY DEF RecoveryRuns
    <3>2. x.recovery = [v.recovery EXCEPT ![s] = r] /\ v \in O!ShareRec
      BY <2>1, ShareTypes DEF SetRecovery, O!ShareRec
    <3>3. \A z \in O!RecoveryRec : [x.recovery EXCEPT ![s] = z] = [v.recovery EXCEPT ![s] = z]
      BY <2>1, <2>3, <3>2
    <3>4. \A z : [x EXCEPT !.recovery = z] = [v EXCEPT !.recovery = z]
      BY <3>2 DEF SetRecovery, O!ShareRec
    <3> HIDE DEF q
    <3>5. [x.recovery EXCEPT ![s] = q] = [v.recovery EXCEPT ![s] = q]
          /\ [x.recovery EXCEPT ![s] = O!NoRecovery] = [v.recovery EXCEPT ![s] = O!NoRecovery]
      BY <2>1, <2>6, <3>3
    <3> QED BY <3>1, <3>4, <3>5 DEF SetRecovery
  <2> HIDE DEF q
  <2>8. ShareBase(y) /\ ShareBase(e)
    BY <2>1, <2>2, <2>3, <2>6, <2>7, ShareSetBase DEF O!NoRecovery
  <2> HIDE DEF x
  <2>9. ShareBase(u) /\ Reran(x, s, f, u)
    BY <2>1, <2>2, <2>3, <2>4, <2>5, <2>8, RunFacts DEF SameElse
  <2>10. Reran(v, s, f, u)
    BY <2>5, <2>9 DEF Reran, Resumes, SameElse, Fixed
  <2> QED BY <1>2, <2>9, <2>10
<1> QED BY <1>1, <1>2

-----------------------------------------------------------------------------

LEMMA DisownedSingle == ASSUME NEW v, Disowned(v) PROVE Single(v)
BY DEF Disowned, Single

LEMMA ResumesWell ==
  ASSUME NEW v, Single(v), Sound(v), v.run.sid # 0, NEW f \in StoreFlow, NEW r, NEW u,
         Resumes(v, f, r, u), ~v.flows[f].own,
         u.flows[f].again \/ (r \in 1..MaxShares /\ 0 \notin 1..MaxShares /\ u.recovery[r].attempt # "none")
  PROVE  ShareWell(u)
BY DEF Resumes, Due, Mends, Sound, Expects, Begins, Single, Mains, ShareWell

\* A restore that failed is tried again, or was lost.
RestoreFailed(v, f, u) ==
  /\ Fixed(v, u) /\ (v.lapsed => u.lapsed) /\ u.hosted = v.hosted
  /\ \A g \in StoreFlow \ {f} : Wanes(v.flows[g], u.flows[g])
  /\ ~u.lapsed => v.flows[f].own /\ v.flows[f].retry
  /\ ~u.lapsed /\ v.run.sid # 0 /\ Sound(v) => ShareWell(u)

LEMMA RestoreFailsFacts ==
  ASSUME NEW v, ShareBase(v), NEW f \in StoreFlow, v.flows[f].again, NEW u, u = O!RestoreFails(v, f)
  PROVE  ShareBase(u) /\ RestoreFailed(v, f, u)
<1> DEFINE r == v.flows[f].rec
           a == O!Cross(v, f)
           b == O!ShowIfAny(a, "reconnecting")
           x == O!Free(b, f)
           y == IF v.flows[f].retry THEN O!StartRecovery(x, x.run.sid, "restore", f) ELSE O!Lapse(x)
<1>1. ShareShape(v) /\ r \in O!Sid /\ v.flows[f].retry \in BOOLEAN
  BY ShareTypes DEF ShareBase, O!FlowRec
<1>2. /\ Calms(v, a) /\ SameRun(v, a) /\ a.flows = v.flows /\ a.status = v.status
      /\ ~a.lapsed => ~v.lapsed /\ v.flows[f].own
  BY <1>1, ShareCrossCalms
<1>3. u = O!AttemptEnds(y, r, FALSE)
  BY DEF O!RestoreFails
<1> HIDE DEF a
<1>4. ShareBase(a)
  BY <1>2, CalmsBase
<1>5. /\ Calms(a, b) /\ SameUse(a, b)
      /\ a.status # "none" => Disowned(b) /\ b.status = "reconnecting"
  BY <1>4, ShowIfAnyCalms DEF O!Status, ShareBase
<1> HIDE DEF b
<1>6. ShareBase(b) /\ Calms(v, b) /\ SameRun(v, b) /\ (~b.lapsed => ~v.lapsed /\ v.flows[f].own)
  BY <1>1, <1>2, <1>4, <1>5, CalmsBase, CalmsTrans DEF SameRun, SameUse
<1>7. ~b.lapsed /\ b.flows[f].cap \in b.live => b.flows[f].cap = b.run.cap
  BY <1>6 DEF Calms, Wanes, Borne, ShareBase, Held
<1>8. /\ ShareBase(x) /\ x.flows[f] = O!NoFlow /\ \A g \in StoreFlow \ {f} : x.flows[g] = b.flows[g]
      /\ Fixed(b, x) /\ SameUse(b, x) /\ x.status = b.status
  BY <1>6, <1>7, ShareFreeBase, ShareFreeFacts DEF ShareBase
<1>9. /\ SameRun(v, x) /\ Fixed(v, x) /\ (~x.lapsed => ~v.lapsed /\ v.flows[f].own)
      /\ \A g \in StoreFlow \ {f} : Wanes(v.flows[g], x.flows[g])
      /\ v.status # "none" => Disowned(x) /\ x.status = "reconnecting"
      /\ x.flows[f].at = "none" /\ ~x.flows[f].own /\ x.flows[f].rec = 0
  BY <1>2, <1>5, <1>6, <1>8, ShareNoFlow DEF SameRun, SameUse, Fixed, Calms, Disowned
<1> HIDE DEF x
<1>10. x.run.sid \in O!Sid /\ "restore" \in {"media", "restore"} /\ x.lapsed \in BOOLEAN
  BY <1>8, ShareTypes DEF ShareBase, O!RuntimeRec
<1>11. /\ ShareBase(y)
       /\ IF v.flows[f].retry
          THEN IF x.run.sid = 0 \/ x.recovery[x.run.sid].attempt # "none" THEN y = x
               ELSE Reran(x, x.run.sid, f, y)
          ELSE y.lapsed /\ Calms(x, y) /\ SameRun(x, y) /\ y.flows = x.flows
  <2>1. CASE v.flows[f].retry
    <3>1. y = O!StartRecovery(x, x.run.sid, "restore", f)
      BY <2>1
    <3> HIDE DEF y
    <3> QED BY <1>8, <1>9, <1>10, <2>1, <3>1, StartRecoveryFacts
  <2>2. CASE ~v.flows[f].retry
    <3>1. y = [x EXCEPT !.lapsed = TRUE]
      BY <2>2 DEF O!Lapse
    <3> HIDE DEF y
    <3>2. Calms(x, y) /\ SameRun(x, y) /\ y.lapsed /\ y.flows = x.flows
      BY <1>8, <3>1, LapseCalms DEF ShareBase
    <3> QED BY <1>8, <2>2, <3>2, CalmsBase
  <2> QED BY <1>1, <2>1, <2>2
<1> HIDE DEF y
<1>12. /\ Fixed(v, y) /\ (v.lapsed => y.lapsed) /\ y.hosted = v.hosted
       /\ \A g \in StoreFlow \ {f} : Wanes(v.flows[g], y.flows[g])
       /\ ~y.lapsed => v.flows[f].own /\ v.flows[f].retry
  BY <1>9, <1>11 DEF Reran, Calms, Fixed, SameRun, Wanes
<1>13. r # 0 => /\ y.recovery[r].attempt = v.recovery[r].attempt /\ v.recovery[r].attempt # "none"
                /\ \A g \in StoreFlow : y.flows[g].rec # r
  <2> SUFFICES ASSUME r # 0
               PROVE  /\ y.recovery[r].attempt = v.recovery[r].attempt /\ v.recovery[r].attempt # "none"
                      /\ \A g \in StoreFlow : y.flows[g].rec # r
    OBVIOUS
  <2>1. /\ v.recovery[r].phase = "running" /\ v.recovery[r].attempt # "none" /\ r \in 1..MaxShares
        /\ \A g \in StoreFlow \ {f} : v.flows[g].rec # r
    BY <1>1, ClientAssumption DEF ShareBase, ShareReports, O!Sid, ShareAssumption
  <2>2. \A g \in StoreFlow \ {f} : y.flows[g].rec # r
    BY <1>12, <2>1 DEF Wanes
  <2>3. y.recovery[r] = v.recovery[r] /\ y.flows[f].rec # r
    BY <1>9, <2>1, <1>11 DEF SameRun, Reran
  <2> QED BY <2>1, <2>2, <2>3
<1>14. /\ ShareShape(u) /\ SameElse(y, u) /\ \A t \in 1..MaxShares \ {r} : u.recovery[t] = y.recovery[t]
       /\ r # 0 => u.recovery[r].attempt = y.recovery[r].attempt
       /\ ShareBase(u)
  <2>1. \A g \in StoreFlow : r # 0 => y.flows[g].rec # r
    BY <1>13
  <2>2. CASE r = 0
    BY <1>3, <2>2, <1>11 DEF O!AttemptEnds, SameElse, Fixed, ShareBase
  <2>3. CASE r # 0
    <3> HIDE DEF r
    <3>1. MayEnd(y, r)
      BY <1>1, <1>11, <1>13, <2>3 DEF MayEnd
    <3>2. Ended(y, r, O!AttemptEnds(y, r, FALSE))
      BY ONLY <3>1, AttemptFailed
    <3> QED BY <1>3, <2>3, <3>2 DEF Ended
  <2> QED BY <2>2, <2>3
<1>15. ASSUME ~u.lapsed, v.run.sid # 0, Sound(v) PROVE ShareWell(u)
  <2> DEFINE s == x.run.sid
  <2>1. /\ Single(x) /\ Sound(x) /\ x.run.sid # 0 /\ v.flows[f].retry /\ x.run.sid = v.run.sid
    BY <1>9, <1>12, <1>14, <1>15, DisownedSingle DEF Sound, SameRun, SameElse
  <2>2. s \in 1..MaxShares /\ 0 \notin 1..MaxShares
    BY <1>10, <2>1, ClientAssumption DEF ShareAssumption, O!Sid
  <2>3. u.recovery[s].attempt = y.recovery[s].attempt
    BY <1>14, <2>2
  <2>4. CASE x.recovery[s].attempt # "none"
    BY <1>11, <2>1, <2>4, <1>14, <2>3, <1>9, <1>15, <2>2, DisownedSingle DEF SameElse, Sound, Due,
       Disowned, ShareWell
  <2>5. CASE x.recovery[s].attempt = "none"
    <3>1. Resumes(x, f, s, y) /\ y.recovery[s].attempt # "none"
      BY <1>11, <2>1, <2>5 DEF Reran, Sound
    <3>2. Resumes(x, f, s, u) /\ u.recovery[s].attempt # "none"
      BY <1>14, <2>3, <3>1 DEF Resumes, SameElse, Fixed
    <3> HIDE DEF s
    <3> QED BY <1>9, <2>1, <2>2, <3>2, ResumesWell
  <2> QED BY <2>4, <2>5
<1> QED BY <1>12, <1>14, <1>15 DEF RestoreFailed, SameElse, Fixed

-----------------------------------------------------------------------------

\* A stream that is shown as gone, and is.
Absent(v) == Disowned(v) /\ v.run.sid = 0 /\ v.status = "none" /\ v.hosted = 0

LEMMA AbsentWell == ASSUME NEW v, Absent(v) PROVE ShareWell(v)
BY DisownedSingle DEF Absent, ShareWell

LEMMA UpWell == ASSUME NEW v, Disowned(v), v.run.sid # 0, Sound(v), Up(v) PROVE ShareWell(v)
BY DisownedSingle DEF ShareWell, Due

\* What a first start that failed leaves.
StartFailed(v, f, u) ==
  /\ Fixed(v, u) /\ (v.lapsed => u.lapsed) /\ u.hosted = v.hosted
  /\ \A g \in StoreFlow \ {f} : Wanes(v.flows[g], u.flows[g])
  /\ ~u.lapsed => v.flows[f].own
  /\ Disowned(u) /\ u.status = "none" /\ u.run = v.run

LEMMA StartFailsFacts ==
  ASSUME NEW v, ShareBase(v), NEW f \in StoreFlow, NEW u, u = O!StartFails(v, f)
  PROVE  /\ ShareBase(u)
         /\ IF v.flows[f].again THEN RestoreFailed(v, f, u) ELSE StartFailed(v, f, u)
<1>1. CASE v.flows[f].again
  BY <1>1, RestoreFailsFacts DEF O!StartFails
<1>2. CASE ~v.flows[f].again
  <2> DEFINE a == O!Cross(v, f)
             b == Released(a, f)
  <2>1. /\ Calms(v, a) /\ SameRun(v, a) /\ a.flows = v.flows /\ a.status = v.status
        /\ ~a.lapsed => ~v.lapsed /\ v.flows[f].own
    BY ShareCrossCalms DEF ShareBase
  <2>2. u = O!Show(b, "none", 0)
    BY <1>2, <2>1 DEF O!StartFails, Released
  <2> HIDE DEF a
  <2>3. ShareBase(a)
    BY <2>1, CalmsBase
  <2>4. /\ ShareBase(b) /\ Fixed(a, b) /\ b.status = a.status
        /\ b.run = a.run /\ b.hosted = a.hosted /\ b.lapsed = a.lapsed /\ b.recovery = a.recovery
        /\ \A g \in StoreFlow \ {f} : b.flows[g] = a.flows[g]
    BY <2>3, ReleasedFacts
  <2> HIDE DEF b
  <2>5. Calms(b, u) /\ SameUse(b, u) /\ Disowned(u) /\ u.status = "none"
    BY ClientAssumption, <2>2, <2>4, ShowCalms DEF O!Status, O!Sid, ShareAssumption, ShareBase
  <2>6. ShareBase(u)
    BY <2>4, <2>5, CalmsBase
  <2>7. /\ Fixed(v, u) /\ (v.lapsed => u.lapsed) /\ u.hosted = v.hosted /\ u.run = v.run
        /\ ~u.lapsed => v.flows[f].own
        /\ \A g \in StoreFlow \ {f} : Wanes(v.flows[g], u.flows[g])
    BY <2>1, <2>4, <2>5 DEF Fixed, SameRun, SameUse, Calms
  <2> QED BY <1>2, <2>5, <2>6, <2>7 DEF StartFailed
<1> QED BY <1>1, <1>2

\* A function that is done with its capture is over, and the stream is shown.
WentLive(v, f, u) ==
  /\ Fixed(v, u) /\ u.run = v.run /\ u.live = v.live /\ u.hosted = v.hosted /\ u.lapsed = v.lapsed
  /\ \A g \in StoreFlow \ {f} : Wanes(v.flows[g], u.flows[g])
  /\ Disowned(u) /\ u.status = "live"

LEMMA GoLiveFacts ==
  ASSUME NEW v, ShareBase(v), NEW f \in StoreFlow,
         ~v.lapsed /\ v.flows[f].cap \in v.live => v.flows[f].cap = v.run.cap, NEW u, u = O!GoLive(v, f)
  PROVE  ShareBase(u) /\ WentLive(v, f, u)
<1> DEFINE r == v.flows[f].rec
           n == v.flows[f].sid
           a == O!Free(v, f)
           b == O!Show(a, "live", n)
<1>1. r \in O!Sid /\ n \in O!Sid /\ "live" \in O!Status /\ ShareShape(v)
  BY ShareTypes DEF ShareBase, O!FlowRec, O!Status
<1>2. u = O!AttemptEnds(b, r, TRUE)
  BY DEF O!GoLive
<1>3. /\ ShareBase(a) /\ a.flows[f] = O!NoFlow /\ \A g \in StoreFlow \ {f} : a.flows[g] = v.flows[g]
      /\ Fixed(v, a) /\ SameUse(v, a) /\ a.status = v.status
  BY <1>1, ShareFreeBase, ShareFreeFacts
<1> HIDE DEF a, n
<1>4. /\ Calms(a, b) /\ SameUse(a, b) /\ Disowned(b) /\ b.status = "live"
      /\ \A g \in StoreFlow : b.flows[g].rec = a.flows[g].rec
  BY <1>1, <1>3, ShowCalms DEF ShareBase
<1> HIDE DEF b
<1>5. ShareBase(b)
  BY <1>3, <1>4, CalmsBase
<1>6. r # 0 => \A g \in StoreFlow : b.flows[g].rec # r
  BY <1>3, <1>4, ShareNoFlow DEF ShareBase, ShareReports
<1> HIDE DEF r
<1>7. ShareBase(u) /\ SameElse(b, u)
  BY <1>1, <1>2, <1>5, <1>6, AttemptDone
<1>8. WentLive(v, f, u)
  BY <1>3, <1>4, <1>7 DEF WentLive, SameElse, SameUse, Fixed, Disowned, Calms
<1> QED BY <1>7, <1>8

\* What was sane is sane: nothing heals a function that is lost.
LEMMA SaneBefore ==
  ASSUME NEW v, NEW u, ShareShape(v), NEW f, v.lapsed => u.lapsed, Sane(u),
         \A g \in StoreFlow \ {f} : Wanes(v.flows[g], u.flows[g]),
         u.hosted \in {v.hosted, 0} \/ u.hosted > v.next,
         f \in StoreFlow => ~Doomed(v, v.flows[f])
  PROVE  Sane(v)
<1> SUFFICES ASSUME NEW g \in StoreFlow \ {f}, Doomed(v, v.flows[g]) PROVE FALSE
  BY DEF Sane
<1>1. ~Doomed(u, u.flows[g]) /\ Wanes(v.flows[g], u.flows[g])
  BY DEF Sane
<1>2. v.flows[g].at = "reconnect" => u.hosted # v.flows[g].sid \/ v.hosted = v.flows[g].sid
  BY ShareTypes DEF ShareShape, FlowShape, Named
<1> QED BY <1>1, <1>2 DEF Doomed, Wanes

\* When everybody was disowned, no function that begins or ends a stream goes on.
LEMMA SaneDisowned ==
  ASSUME NEW v, NEW u, NEW f, Sane(u),
         \A g \in StoreFlow \ {f} : Wanes(v.flows[g], u.flows[g]) /\ ~u.flows[g].own
  PROVE  \A g \in StoreFlow \ {f} : v.flows[g].at \notin Mains
BY DEF Sane, Doomed, Wanes

-----------------------------------------------------------------------------
(* The handlers.                                                           *)

LEMMA AloneSingle ==
  ASSUME NEW v, NEW f \in StoreFlow, \A g \in StoreFlow \ {f} : ~v.flows[g].own,
         v.flows[f].own => Expects(v, v.flows[f])
  PROVE  Single(v)
BY DEF Single

LEMMA ShareSlot == O!HasSlot => O!Slot \in StoreFlow /\ share.flows[O!Slot].at = "none" /\ O!Calm
BY DEF O!HasSlot, O!Slot, O!At

LEMMA FreeSlot ==
  ASSUME NEW v, ShareShape(v), NEW f \in StoreFlow, v.flows[f].at = "none"
  PROVE  /\ ~Doomed(v, v.flows[f]) /\ v.flows[f].cap = 0 /\ v.flows[f].cap \notin v.live
         /\ v.flows[f].rec = 0 /\ ~v.flows[f].own /\ ~Starts(v.flows[f])
BY DEF ShareShape, FlowShape, RunShape, Doomed, Mains, Starts

ShareWords == {"none", "capturing", "starting", "reconnecting", "live", "stopping"}

LEMMA ShareConstants == 0 \in O!Sid /\ 0 \in O!Cap /\ O!Status = ShareWords
BY ClientAssumption DEF ShareAssumption, O!Sid, O!Cap, O!Status, ShareWords

MoreMade(v, u) ==
  /\ u.made = v.made + 1
  /\ u.run = v.run /\ u.live = v.live /\ u.hosted = v.hosted /\ u.recovery = v.recovery
  /\ u.flows = v.flows /\ u.next = v.next /\ u.link = v.link /\ (v.lapsed => u.lapsed)
  /\ u.status = v.status

LEMMA MadeBase ==
  ASSUME NEW v, ShareBase(v), NEW u \in O!ShareRec, MoreMade(v, u) PROVE ShareBase(u)
BY ShareTypes DEF MoreMade, ShareBase, ShareShape, RunShape, FlowShape, O!Cap, ShareReports, Held,
   Owned

\* A capture that was just asked for is nobody's.
LEMMA NewCaptureFits ==
  ASSUME NEW v, NEW u, ShareBase(v), MoreMade(v, u), u \in O!ShareRec, NEW f \in StoreFlow,
         v.flows[f].at = "none", NEW w, w.at \in {"capture", "select"}, w.cap = v.made + 1, ~w.again,
         w.at = "capture" /\ w.own => u.run.cap = 0
  PROVE  Fits(u, f, w)
BY ShareTypes, ClientAssumption DEF ShareBase, ShareShape, RunShape, FlowShape, O!Cap,
   ShareAssumption, Fits, MoreMade, Private, Borne, Owned, Begins

LEMMA ShareStartStep == ASSUME ShareInv(share), O!Start PROVE ShareInv(share')
<1> DEFINE f == O!Slot
           a == O!Show(share, "capturing", 0)
           w == [O!NoFlow EXCEPT !.at = "capture", !.cap = share.made + 1, !.own = TRUE]
<1>1. /\ f \in StoreFlow /\ share.flows[f].at = "none" /\ ShareBase(share) /\ ShareShape(share)
      /\ share.status = "none" /\ share.run.sid = 0 /\ share.made + 1 \in O!Cap /\ share.made \in Nat
  BY ShareSlot, ShareTypes, ClientAssumption DEF O!Start, ShareInv, ShareBase, O!Cap, ShareAssumption, O!ShareRec
<1>2. PICK camera \in BOOLEAN : share' = O!Put([a EXCEPT !.made = @ + 1, !.camera = camera], f, w)
  BY DEF O!Start
<1> DEFINE b == [a EXCEPT !.made = @ + 1, !.camera = camera]
<1>3. Calms(share, a) /\ SameUse(share, a) /\ Disowned(a) /\ a.status = "capturing"
  BY <1>1, ShareConstants, ShowCalms DEF ShareWords
<1>4. /\ w \in O!FlowRec /\ w.at = "capture" /\ w.cap = share.made + 1 /\ w.own /\ w.sid = 0
      /\ w.rec = 0 /\ ~w.again
  BY <1>1, ShareNoFlow DEF O!FlowRec, O!NoFlow
<1> HIDE DEF f, a, w
<1>5. ShareBase(a) /\ a.made = share.made /\ a \in O!ShareRec /\ \A g \in StoreFlow : Wanes(share.flows[g], a.flows[g])
  BY <1>1, <1>3, CalmsBase DEF Calms, Fixed
<1>6. b \in O!ShareRec /\ MoreMade(a, b)
  BY <1>1, <1>5 DEF O!ShareRec, MoreMade
<1>7. share' = O!Put(b, f, w)
  BY <1>2
<1> HIDE DEF b
<1>8. a.flows[f].at = "none"
  BY <1>1, <1>5 DEF Wanes
<1>9. ShareBase(b) /\ Fits(b, f, w)
  BY <1>1, <1>3, <1>6, <1>4, <1>5, <1>8, MadeBase, NewCaptureFits DEF ShareShape, RunShape,
     MoreMade, SameUse
<1>10. /\ share'.flows[f] = w /\ \A g \in StoreFlow \ {f} : share'.flows[g] = b.flows[g]
       /\ SameUse(b, share') /\ share'.status = b.status
  BY <1>1, <1>4, <1>7, <1>9, SharePutFacts DEF ShareBase
<1>11. ShareBase(share')
  <2>1. FlowShape(b, w)
    BY <1>1, <1>4, <1>5, <1>6, <1>9, ShareTypes DEF FlowShape, MoreMade, Private, Named, Begins, ShareBase
  <2>2. RecFits(b, f, w)
    BY <1>4 DEF RecFits
  <2> QED BY <1>1, <1>4, <1>7, <1>9, <2>1, <2>2, SharePutBase
<1>12. ASSUME Sane(share') PROVE ShareWell(share')
  <2>1. /\ share'.hosted = share.hosted /\ share'.run = share.run /\ share'.status = "capturing"
        /\ \A g \in StoreFlow \ {f} : Wanes(share.flows[g], share'.flows[g]) /\ ~share'.flows[g].own
    BY <1>3, <1>5, <1>6, <1>10 DEF SameUse, MoreMade, Disowned
  <2>2. share.lapsed => share'.lapsed
    BY <1>3, <1>6, <1>10 DEF SameUse, MoreMade
  <2>3. Sane(share)
    BY <1>1, <1>12, <2>1, <2>2, FreeSlot, SaneBefore
  <2>4. \A g \in StoreFlow : ~Starts(share.flows[g])
    <3>1. \A g \in StoreFlow \ {f} : share.flows[g].at \notin Mains
      BY <1>12, <2>1, SaneDisowned
    <3> QED BY <1>1, <3>1, FreeSlot DEF Starts, Mains, Begins
  <2>5. share.hosted = 0
    BY <1>1, <2>3, <2>4 DEF ShareInv, ShareWell
  <2>6. Expects(share', w)
    BY <1>1, <1>4, <2>1, <2>5 DEF Expects, Begins
  <2>7. Single(share')
    BY <1>1, <1>10, <2>1, <2>6, AloneSingle
  <2>8. Starts(share'.flows[f])
    BY <1>4, <1>10 DEF Starts, Begins
  <2> QED BY <1>1, <2>1, <2>7, <2>8 DEF ShareWell
<1> QED BY <1>11, <1>12 DEF ShareInv

LEMMA Expected ==
  ASSUME ShareInv(share), NEW f \in StoreFlow, share.flows[f].own, Sane(share)
  PROVE  /\ Expects(share, share.flows[f]) /\ Single(share)
         /\ share.run.sid # 0 => Sound(share) /\ Due(share)
BY DEF ShareInv, ShareWell, Single

\* A capture that is granted starts to run where it was asked for.
LEMMA GrantedHeld ==
  ASSUME NEW v, NEW u, NEW f \in StoreFlow, Held(v), \A g \in StoreFlow : Owned(v, v.flows[g]),
         v.flows[f].at \in {"capture", "select"}, u.run = v.run, u.live = v.live \cup {v.flows[f].cap},
         \A g \in StoreFlow \ {f} : Wanes(v.flows[g], u.flows[g]),
         u.flows[f].at \in {"start", "swap"}, u.flows[f].cap = v.flows[f].cap, ~u.flows[f].again,
         Owned(u, u.flows[f])
  PROVE  Held(u) /\ \A g \in StoreFlow : Owned(u, u.flows[g])
<1> DEFINE c == v.flows[f].cap
<1>1. /\ c # 0 /\ c # v.run.cap /\ c \notin v.live
      /\ \A g \in StoreFlow \ {f} : v.flows[g].cap # c
  BY DEF Held, Private
<1>2. /\ \A g \in StoreFlow : u.flows[g].cap = v.flows[g].cap
      /\ \A g \in StoreFlow \ {f} : u.flows[g].at = v.flows[g].at
  BY DEF Wanes
<1>3. u.live \subseteq {u.run.cap} \cup {u.flows[g].cap : g \in StoreFlow}
  BY <1>2 DEF Held
<1>4. ASSUME NEW g \in StoreFlow, u.flows[g].at \in Private
      PROVE  /\ u.flows[g].cap # 0 /\ u.flows[g].cap # u.run.cap
             /\ u.flows[g].cap \in u.live <=> u.flows[g].at = "swap"
             /\ \A h \in StoreFlow \ {g} : u.flows[h].cap # u.flows[g].cap
  BY <1>1, <1>2, <1>4 DEF Private, Held
<1>5. ASSUME NEW g \in StoreFlow, Borne(u.flows[g])
      PROVE  u.flows[g].cap = u.run.cap \/ u.flows[g].cap \notin u.live
  BY <1>5, <1>1, <1>2 DEF Borne, Wanes, Held
<1>6. ASSUME NEW g \in StoreFlow \ {f} PROVE Owned(u, u.flows[g])
  BY DEF Owned, Wanes
<1> QED BY <1>3, <1>4, <1>5, <1>6 DEF Held

LEMMA CaptureGrantedStep ==
  ASSUME ShareInv(share), NEW f \in StoreFlow, O!CaptureGranted(f) PROVE ShareInv(share')
<1> DEFINE a == O!Cross(share, f)
           l == a.live \cup {share.flows[f].cap}
           v == [a EXCEPT !.live = l]
           b == O!ShowIfAny(v, "starting")
           x == [b.flows[f] EXCEPT !.at = "start", !.own = TRUE]
           fl == [b.flows EXCEPT ![f] = x]
<1>1. /\ ShareBase(share) /\ ShareShape(share) /\ share.flows[f].at = "capture"
      /\ share.flows[f].cap # 0 /\ ~share.flows[f].again /\ share.flows[f].cap <= share.made
      /\ share.flows[f].cap \in O!Cap /\ share.live \subseteq O!Cap
  BY ShareTypes DEF O!CaptureGranted, O!At, ShareInv, ShareBase, ShareShape, FlowShape, Private, Begins, O!FlowRec
<1>2. share' = [b EXCEPT !.flows = fl]
  <2>1. share' = [b EXCEPT !.flows[f].at = "start", !.flows[f].own = TRUE]
    BY DEF O!CaptureGranted
  <2>2. b.flows \in [StoreFlow -> O!FlowRec] \/ TRUE
    OBVIOUS
  <2> HIDE DEF b
  <2> QED BY <2>1
<1>3. /\ Calms(share, a) /\ SameRun(share, a) /\ a.flows = share.flows /\ a.status = share.status
      /\ ~a.lapsed => ~share.lapsed /\ share.flows[f].own
  BY <1>1, ShareCrossCalms
<1> HIDE DEF a
<1>4. /\ v \in O!ShareRec /\ Fixed(a, v) /\ v.run = a.run /\ v.hosted = a.hosted /\ v.recovery = a.recovery
      /\ v.lapsed = a.lapsed /\ v.flows = a.flows /\ v.status = a.status
      /\ v.live = share.live \cup {share.flows[f].cap}
  <2>1. a \in O!ShareRec /\ l \subseteq O!Cap /\ l = share.live \cup {share.flows[f].cap}
    BY <1>1, <1>3 DEF Calms, SameRun
  <2> HIDE DEF l
  <2> QED BY <2>1 DEF O!ShareRec, Fixed
<1> HIDE DEF v
<1>5. ShareShape(v) /\ Fixed(share, v)
  BY <1>1, <1>3, <1>4 DEF ShareShape, RunShape, FlowShape, Fixed, SameRun, Calms
<1>6. /\ Calms(v, b) /\ SameUse(v, b)
      /\ v.status # "none" => Disowned(b) /\ b.status = "starting"
      /\ v.status = "none" => b = v
      /\ \A g \in StoreFlow : b.flows[g].rec = v.flows[g].rec
  BY <1>5, ShareConstants, ShowIfAnyCalms DEF ShareWords
<1> HIDE DEF b
<1>7. b \in O!ShareRec /\ ShareShape(b) /\ b.flows[f] \in O!FlowRec /\ Wanes(share.flows[f], b.flows[f])
  BY <1>3, <1>4, <1>5, <1>6, CalmsShape, ShareTypes DEF Calms
<1>8. /\ x \in O!FlowRec /\ x.at = "start" /\ x.own /\ x.cap = b.flows[f].cap /\ x.sid = b.flows[f].sid
      /\ x.rec = b.flows[f].rec /\ x.again = b.flows[f].again
  BY <1>7 DEF O!FlowRec, O!Commands
<1> HIDE DEF x
<1>9. /\ fl \in [StoreFlow -> O!FlowRec] /\ fl[f] = x /\ \A g \in StoreFlow \ {f} : fl[g] = b.flows[g]
  BY <1>7, <1>8, ShareTypes
<1> HIDE DEF fl
<1>10. /\ share' \in O!ShareRec /\ share'.flows = fl /\ Fixed(b, share') /\ SameUse(b, share')
       /\ share'.status = b.status
  BY <1>2, <1>7, <1>9, SMTT(30) DEF O!ShareRec, Fixed, SameUse
<1>11. /\ Fixed(share, share') /\ share'.run = share.run /\ share'.hosted = share.hosted
       /\ share'.recovery = share.recovery /\ (~share'.lapsed => ~share.lapsed /\ share.flows[f].own)
       /\ share'.live = share.live \cup {share.flows[f].cap}
       /\ share'.flows[f] = x /\ x.cap = share.flows[f].cap /\ ~x.again /\ x.rec = share.flows[f].rec
       /\ \A g \in StoreFlow \ {f} : Wanes(share.flows[g], share'.flows[g])
  BY <1>1, <1>3, <1>4, <1>5, <1>6, <1>7, <1>8, <1>9, <1>10 DEF Fixed, SameRun, SameUse, Wanes, Calms
<1>12. ShareBase(share')
  <2>1. ShareShape(share')
    <3>1. RunShape(share')
      BY <1>1, <1>11 DEF ShareShape, RunShape, Fixed
    <3>2. FlowShape(share', x)
      BY <1>1, <1>7, <1>8, <1>10, <1>11, ShareTypes DEF FlowShape, ShareShape, Private, Named, Begins, Fixed, Wanes
    <3>3. ASSUME NEW g \in StoreFlow \ {f} PROVE FlowShape(share', share'.flows[g])
      BY <1>1, <1>11 DEF FlowShape, ShareShape, Fixed, Wanes
    <3> QED BY <1>10, <1>11, <3>1, <3>2, <3>3 DEF ShareShape
  <2>2. ShareReports(share')
    BY <1>3, <1>4, <1>6, <1>9, <1>10, <1>11, <1>1 DEF ShareBase, ShareReports
  <2>3. ASSUME ~share'.lapsed PROVE Held(share') /\ \A g \in StoreFlow : Owned(share', share'.flows[g])
    <3>1. Held(share) /\ (\A g \in StoreFlow : Owned(share, share.flows[g])) /\ share.flows[f].own
      BY <1>1, <1>11, <2>3 DEF ShareBase
    <3>2. share.run.cap = 0
      BY <1>1, <3>1 DEF Owned, Begins
    <3>3. Owned(share', x)
      BY <1>8, <1>11, <3>2 DEF Owned
    <3> QED BY <1>1, <1>8, <1>11, <3>1, <3>3, GrantedHeld
  <2> QED BY <2>1, <2>2, <2>3 DEF ShareBase
<1>13. ASSUME Sane(share') PROVE ShareWell(share')
  <2>1. share.flows[f].own /\ ~Doomed(share, share.flows[f]) /\ (share.lapsed => share'.lapsed)
    BY <1>1, <1>11, <1>13 DEF Sane, Doomed
  <2>2. Sane(share)
    BY <1>1, <1>11, <1>13, <2>1, SaneBefore
  <2>3. share.run.sid = 0 /\ share.hosted = 0 /\ share.status = "capturing"
    BY <1>1, <2>1, <2>2, Expected DEF Expects, Begins
  <2>4. Disowned(b) /\ share'.status = "starting"
    BY <1>3, <1>4, <1>6, <1>10, <2>3
  <2>5. \A g \in StoreFlow \ {f} : ~share'.flows[g].own
    BY <1>9, <1>10, <2>4 DEF Disowned
  <2>6. Expects(share', x) /\ Starts(x)
    BY <1>8, <1>11, <2>3, <2>4 DEF Expects, Begins, Starts
  <2>7. Single(share')
    BY <1>11, <2>5, <2>6, AloneSingle
  <2> QED BY <1>11, <2>3, <2>6, <2>7 DEF ShareWell
<1> QED BY <1>12, <1>13 DEF ShareInv

LEMMA CaptureDeniedStep ==
  ASSUME ShareInv(share), NEW f \in StoreFlow, O!CaptureDenied(f) PROVE ShareInv(share')
<1> DEFINE a == O!Cross(share, f)
           b == O!Free(a, f)
<1>1. /\ ShareBase(share) /\ ShareShape(share) /\ share.flows[f].at = "capture" /\ ~share.flows[f].again
  BY DEF O!CaptureDenied, O!At, ShareInv, ShareBase, ShareShape, FlowShape, Private
<1>2. share' = O!Show(b, "none", 0)
  BY DEF O!CaptureDenied
<1>3. /\ Calms(share, a) /\ SameRun(share, a) /\ a.flows = share.flows
      /\ ~a.lapsed => ~share.lapsed /\ share.flows[f].own
  BY <1>1, ShareCrossCalms
<1> HIDE DEF a
<1>4. /\ ShareBase(b) /\ Fixed(a, b) /\ SameUse(a, b)
      /\ \A g \in StoreFlow \ {f} : b.flows[g] = a.flows[g]
  BY <1>1, <1>3, CalmsBase, ShareFreeBase, ShareFreeFacts DEF ShareBase, Held, Private
<1> HIDE DEF b
<1>5. Calms(b, share') /\ SameUse(b, share') /\ Disowned(share') /\ share'.status = "none"
  BY <1>2, <1>4, ShareConstants, ShowCalms DEF ShareBase, ShareWords
<1>6. ShareBase(share')
  BY <1>4, <1>5, CalmsBase
<1>7. ASSUME Sane(share') PROVE ShareWell(share')
  <2>1. /\ share'.run = share.run /\ share'.hosted = share.hosted
        /\ ~share'.lapsed => ~share.lapsed /\ share.flows[f].own
        /\ \A g \in StoreFlow \ {f} : Wanes(share.flows[g], share'.flows[g])
    BY <1>3, <1>4, <1>5 DEF SameRun, SameUse, Calms
  <2>2. Sane(share) /\ share.flows[f].own
    BY <1>1, <1>7, <2>1, SaneBefore DEF Sane, Doomed
  <2>3. share.run.sid = 0 /\ share.hosted = 0
    BY <1>1, <2>2, Expected DEF Expects, Begins
  <2> QED BY <1>5, <2>1, <2>3, AbsentWell DEF Absent
<1> QED BY <1>6, <1>7 DEF ShareInv

-----------------------------------------------------------------------------
(* The gateway: what it tells of, its connection, its mode.                *)

LEMMA SaneCalms ==
  ASSUME NEW v, NEW u, ShareShape(v), Calms(v, u), Sane(u) PROVE Sane(v)
<1> SUFFICES ASSUME NEW g \in StoreFlow, Doomed(v, v.flows[g]) PROVE FALSE
  BY DEF Sane, Calms
<1>1. ~Doomed(u, u.flows[g]) /\ Wanes(v.flows[g], u.flows[g]) /\ u.hosted \in {v.hosted, 0}
  BY DEF Sane, Calms
<1>2. v.flows[g].at = "reconnect" => v.flows[g].sid # 0
  BY DEF ShareShape, FlowShape, Named
<1> QED BY <1>1, <1>2 DEF Doomed, Wanes

LEMMA ReconcileWell ==
  ASSUME NEW v, ShareShape(v), ShareWell(v), NEW u, u = O!Reconcile(v) PROVE ShareWell(u)
<1>1. /\ v.run.sid = 0 => u = v
      /\ v.run.sid # 0 /\ v.hosted # v.run.sid => TornDown(v, u) /\ u.status = "none"
      /\ v.run.sid # 0 /\ v.hosted = v.run.sid =>
           SameUse(v, u) /\ u.flows = v.flows /\ u.status = IF v.status = "none" THEN "none" ELSE "live"
      /\ Fixed(v, u)
  BY ReconcileCalms DEF Calms
<1>2. CASE v.run.sid = 0
  BY <1>1, <1>2
<1>3. CASE v.run.sid # 0 /\ v.hosted # v.run.sid
  <2>1. v.hosted = 0
    BY <1>3 DEF ShareWell, Sound
  <2> QED BY <1>1, <1>3, <2>1, AbsentWell DEF Absent, TornDown, O!NoRuntime
<1>4. CASE v.run.sid # 0 /\ v.hosted = v.run.sid
  <2>1. Sound(v) /\ Due(v) /\ Single(v)
    BY <1>4 DEF ShareWell
  <2>2. u.status = "live" /\ SameUse(v, u) /\ u.flows = v.flows
    BY <1>1, <1>4, <2>1 DEF Sound
  <2>3. Sound(u) /\ Due(u)
    BY <1>1, <2>1, <2>2 DEF Sound, Due, SameUse, Up, Fixed
  <2>4. ASSUME NEW f \in StoreFlow, u.flows[f].own PROVE Expects(u, u.flows[f])
    <3>1. Expects(v, v.flows[f]) /\ u.flows[f] = v.flows[f]
      BY <2>1, <2>2, <2>4 DEF Single
    <3>2. v.flows[f].at = "capture" => ~v.flows[f].again
      BY DEF ShareShape, FlowShape, Private
    <3> QED BY <1>4, <2>2, <3>1, <3>2 DEF Expects, SameUse, Begins
  <2>5. Single(u)
    BY <2>1, <2>2, <2>4 DEF Single
  <2> QED BY <1>4, <2>2, <2>3, <2>5 DEF ShareWell, SameUse
<1> QED BY <1>2, <1>3, <1>4

LEMMA StateUpdatedStep == ASSUME ShareInv(share), O!StateUpdated PROVE ShareInv(share')
BY ReconcileCalms, CalmsBase, SaneCalms, ReconcileWell DEF O!StateUpdated, ShareInv, ShareBase

LEMMA UnpublishedStep == ASSUME ShareInv(share), O!Unpublished PROVE ShareInv(share')
<1> DEFINE t == O!Unhost(share)
<1>1. ShareShape(share) /\ share' = O!Reconcile(t) /\ share.hosted # 0
  BY DEF O!Unpublished, ShareInv, ShareBase
<1>2. /\ Calms(share, t) /\ t.hosted = 0 /\ t.run = share.run /\ t.live = share.live
      /\ t.recovery = share.recovery /\ t.flows = share.flows /\ t.status = share.status
      /\ ~t.lapsed => ~share.lapsed /\ ~Answered(share)
  BY <1>1, UnhostCalms
<1> HIDE DEF t
<1>3. ShareShape(t) /\ ShareBase(t)
  BY <1>1, <1>2, CalmsBase, CalmsShape DEF ShareInv
<1>4. /\ Calms(t, share')
      /\ t.run.sid = 0 => share' = t
      /\ t.run.sid # 0 /\ t.hosted # t.run.sid => TornDown(t, share') /\ share'.status = "none"
  BY <1>1, <1>3, ReconcileCalms
<1>5. ShareBase(share')
  BY <1>3, <1>4, CalmsBase
<1>6. ASSUME Sane(share') PROVE ShareWell(share')
  <2>1. Sane(share)
    BY <1>1, <1>2, <1>3, <1>4, <1>6, SaneCalms
  <2>2. CASE share.run.sid # 0
    BY <1>2, <1>4, <2>2, AbsentWell DEF Absent, TornDown, O!NoRuntime
  <2>3. CASE share.run.sid = 0
    <3>1. share' = t /\ ShareWell(share) /\ ~Answered(share)
      BY <1>2, <1>4, <1>6, <2>1, <2>3 DEF ShareInv, Sane
    <3>2. \E f \in StoreFlow : Starts(share'.flows[f])
      BY <1>1, <1>2, <2>3, <3>1 DEF ShareWell
    <3>3. ASSUME NEW f \in StoreFlow, share'.flows[f].own PROVE Expects(share', share'.flows[f])
      <4>1. Expects(share, share.flows[f]) /\ share'.flows[f] = share.flows[f]
        BY <1>2, <3>1, <3>3 DEF ShareWell, Single
      <4>2. share.flows[f].at # "rebuild"
        BY <1>1, <2>3, <4>1 DEF Expects, ShareShape, FlowShape, Named
      <4>3. share.flows[f].at \notin {"started", "produce"}
        BY <3>1 DEF Answered
      <4> QED BY <1>2, <3>1, <4>1, <4>2, <4>3 DEF Expects
    <3>4. Single(share')
      BY <1>2, <3>1, <3>3 DEF ShareWell, Single
    <3> QED BY <1>2, <2>3, <3>1, <3>2, <3>4 DEF ShareWell
  <2> QED BY <2>2, <2>3
<1> QED BY <1>5, <1>6 DEF ShareInv

\* The connection, and what the gateway has of a client without one.
Switched(v, u) ==
  /\ u \in O!ShareRec /\ u.made = v.made /\ u.next = v.next /\ u.run = v.run /\ u.live = v.live
  /\ u.recovery = v.recovery /\ u.lapsed = v.lapsed /\ u.flows = v.flows /\ u.status = v.status
  /\ u.hosted \in {v.hosted, 0} /\ (u.link \/ u.hosted = 0)

LEMMA SwitchedBase ==
  ASSUME NEW v, ShareBase(v), NEW u, Switched(v, u) PROVE ShareBase(u) /\ ShareShape(u)
BY ShareTypes DEF Switched, ShareBase, ShareShape, RunShape, FlowShape, ShareReports, Held, Owned

LEMMA DropStep == ASSUME ShareInv(share), O!Drop PROVE ShareInv(share')
<1> DEFINE v == [share EXCEPT !.link = FALSE, !.hosted = 0]
           a == O!ResolveRecovery(v, v.run.sid)
           b == O!SuspendOwned(a)
<1>1. /\ ShareShape(share) /\ ShareBase(share) /\ share \in O!ShareRec
      /\ share' = IF v.status = "none" THEN v ELSE O!Show(b, "reconnecting", 0)
  BY DEF O!Drop, O!GatewayWillReconnect, ShareInv, ShareBase, ShareShape
<1>2. Switched(share, v) /\ v.link = FALSE /\ v.hosted = 0
  BY <1>1, ShareConstants DEF Switched, O!ShareRec
<1> HIDE DEF v
<1>3. ShareBase(v) /\ ShareShape(v) /\ v.run.sid \in O!Sid
  BY <1>1, <1>2, SwitchedBase, ShareTypes DEF O!RuntimeRec
<1>4. CASE v.status = "none"
  BY <1>1, <1>4, <1>2, <1>3 DEF Sane, Doomed, Switched, ShareShape, FlowShape, Named, ShareInv,
     ShareWell, Sound, Single, ShareBase, Expects, Owned
<1>5. CASE v.status # "none"
  <2>1. Calms(v, a) /\ a.run = v.run /\ a.live = v.live /\ a.hosted = v.hosted
    BY <1>3, ShareResolveCalms
  <2> HIDE DEF a
  <2>2. ShareBase(a) /\ ShareShape(a)
    BY <1>3, <2>1, CalmsBase, CalmsShape
  <2>3. /\ Calms(a, b) /\ b.run.sid = a.run.sid /\ b.run.cap = a.run.cap /\ b.run.sent = 0
        /\ b.live = a.live /\ b.hosted = a.hosted
    BY <2>2, SuspendCalms
  <2> HIDE DEF b
  <2>4. ShareBase(b) /\ ShareShape(b)
    BY <2>2, <2>3, CalmsBase, CalmsShape
  <2>5. Calms(b, share') /\ SameUse(b, share') /\ Disowned(share') /\ share'.status = "reconnecting"
    BY <1>1, <1>5, <2>4, ShareConstants, ShowCalms DEF ShareWords
  <2>6. ShareBase(share') /\ Calms(v, share')
    BY <1>3, <2>1, <2>2, <2>3, <2>4, <2>5, CalmsBase, CalmsTrans
  <2>7. /\ share'.hosted = 0 /\ share'.run.sid = share.run.sid /\ share'.run.cap = share.run.cap
        /\ share'.run.sent = 0 /\ share'.live = share.live /\ ~share'.link
        /\ share.lapsed => share'.lapsed
        /\ \A g \in StoreFlow : Wanes(share.flows[g], share'.flows[g])
    BY <1>2, <2>1, <2>3, <2>5, <2>6 DEF Switched, SameUse, Calms, Fixed
  <2>8. ASSUME Sane(share') PROVE ShareWell(share')
    BY <2>7, <2>8, <1>1, <2>5, <1>2, <1>5, DisownedSingle DEF Sane, ShareShape, FlowShape, Named,
       Doomed, Wanes, ShareInv, Disowned, Starts, Mains, Begins, ShareWell, Switched, Sound, Due
  <2> QED BY <2>6, <2>8 DEF ShareInv
<1> QED BY <1>4, <1>5

LEMMA ReconnectedStep == ASSUME ShareInv(share), O!Reconnected PROVE ShareInv(share')
<1> DEFINE v == [share EXCEPT !.link = TRUE]
           f == O!Slot
           w == [O!NoFlow EXCEPT !.retry = TRUE]
<1>1. /\ ShareShape(share) /\ ShareBase(share) /\ share \in O!ShareRec
      /\ f \in StoreFlow /\ share.flows[f].at = "none"
      /\ share' = IF v.run.sid = 0 THEN v ELSE O!BeginRestore(v, f, w)
  BY ShareSlot DEF O!Reconnected, ShareInv, ShareBase, ShareShape
<1>2. Switched(share, v) /\ v.hosted = share.hosted
  BY <1>1 DEF Switched, O!ShareRec
<1>3. w \in O!FlowRec /\ w.retry /\ w.sid = 0 /\ w.rec = 0
  BY ShareNoFlow DEF O!FlowRec, O!NoFlow
<1> HIDE DEF v, f, w
<1>4. ShareBase(v) /\ ShareShape(v)
  BY <1>1, <1>2, SwitchedBase
<1>5. Sane(v) <=> Sane(share)
  BY <1>2 DEF Sane, Doomed, Switched
<1>6. Single(share) => Single(v)
  BY <1>2 DEF Single, Switched, Expects
<1>7. CASE v.run.sid = 0
  BY <1>2, <1>5, <1>6, <1>7, <1>1, <1>4 DEF ShareInv, ShareWell, Switched
<1>8. CASE v.run.sid # 0
  <2>1. ShareBase(share') /\ Restores(v, f, w, share')
    <3>1. share' = O!BeginRestore(v, f, w) /\ v.flows[f].at = "none" /\ RecFits(v, f, w)
      BY <1>1, <1>2, <1>3, <1>8 DEF Switched, RecFits
    <3> QED BY <1>1, <1>3, <1>4, <3>1, BeginRestoreFacts
  <2>2. ASSUME Sane(share') PROVE ShareWell(share')
    <3>1. ~Doomed(v, v.flows[f]) /\ ~v.flows[f].own
      BY <1>1, <1>2, <1>4, FreeSlot DEF Switched
    <3>2. Sane(v)
      BY <1>4, <2>1, <2>2, <3>1, SaneBefore DEF Restores
    <3>3. Single(v) /\ Sound(v)
      BY <1>2, <1>5, <1>6, <1>8, <3>2 DEF ShareInv, ShareWell, Switched, Sound
    <3>4. Resumes(v, f, w.rec, share') /\ share'.flows[f].again
      BY <1>8, <2>1, <3>3 DEF Restores, Sound
    <3> QED BY <1>1, <1>8, <3>1, <3>3, <3>4, ResumesWell
  <2> QED BY <2>1, <2>2 DEF ShareInv
<1> QED BY <1>7, <1>8

LEMMA ShareDisconnectedStep == ASSUME ShareInv(share), O!Disconnected PROVE ShareInv(share')
<1> DEFINE a == O!ResolveRecovery(share, share.run.sid)
           b == O!TeardownOwned(a)
           c == [b EXCEPT !.link = FALSE, !.hosted = 0]
<1>1. ShareShape(share) /\ ShareBase(share) /\ share.run.sid \in O!Sid /\ share' = O!Show(c, "none", 0)
  BY ShareTypes DEF O!Disconnected, ShareInv, ShareBase, O!RuntimeRec
<1>2. Calms(share, a)
  BY <1>1, ShareResolveCalms
<1> HIDE DEF a
<1>3. ShareBase(a) /\ ShareShape(a)
  BY <1>1, <1>2, CalmsBase DEF ShareBase
<1>4. Calms(a, b) /\ b.run = O!NoRuntime
  BY <1>3, ShareTeardownCalms
<1> HIDE DEF b
<1>5. ShareBase(b) /\ b \in O!ShareRec
  BY <1>3, <1>4, CalmsBase DEF Calms
<1>6. Switched(b, c) /\ c.hosted = 0
  BY <1>5, ShareConstants DEF Switched, O!ShareRec
<1> HIDE DEF c
<1>7. ShareBase(c) /\ ShareShape(c) /\ c.run = O!NoRuntime
  BY <1>4, <1>5, <1>6, SwitchedBase DEF Switched
<1>8. Calms(c, share') /\ SameUse(c, share') /\ Disowned(share') /\ share'.status = "none"
  BY <1>1, <1>7, ShareConstants, ShowCalms DEF ShareWords
<1>9. ShareBase(share') /\ Absent(share')
  BY <1>6, <1>7, <1>8, CalmsBase DEF Absent, SameUse, O!NoRuntime
<1> QED BY <1>9, AbsentWell DEF ShareInv

LEMMA ShareModeUpdatedStep == ASSUME ShareInv(share), O!ModeUpdated PROVE ShareInv(share')
<1> DEFINE t == O!Unhost(share)
           v == [t EXCEPT !.sfu = ~@]
           f == O!Slot
<1>1. /\ ShareShape(share) /\ ShareBase(share)
      /\ f \in StoreFlow /\ share.flows[f].at = "none" /\ share.link
      /\ share' = O!BeginRestore(v, f, O!NoFlow)
  BY ShareSlot DEF O!ModeUpdated, ShareInv, ShareBase, ShareShape
<1>2. /\ Calms(share, t) /\ t.hosted = 0 /\ t.run = share.run /\ t.live = share.live
      /\ t.flows = share.flows /\ t.status = share.status
  BY <1>1, UnhostCalms
<1> HIDE DEF t
<1>3. ShareBase(t) /\ t \in O!ShareRec /\ t.link
  BY <1>1, <1>2, CalmsBase DEF Calms, Fixed
<1>4. Switched(t, v) /\ v.hosted = 0
  BY <1>2, <1>3 DEF Switched, O!ShareRec
<1> HIDE DEF v, f
<1>5. ShareBase(v) /\ ShareShape(v) /\ v.run = share.run /\ v.live = share.live /\ v.flows = share.flows
  BY <1>2, <1>3, <1>4, SwitchedBase DEF Switched
<1>6. ShareBase(share') /\ Restores(v, f, O!NoFlow, share')
  BY <1>1, <1>5, ShareNoFlow, BeginRestoreFacts DEF RecFits
<1>7. ASSUME Sane(share') PROVE ShareWell(share')
  <2>1. /\ share'.hosted = 0 /\ share'.run.sid = share.run.sid
        /\ \A g \in StoreFlow \ {f} : Wanes(share.flows[g], share'.flows[g])
        /\ share.lapsed => share'.lapsed
    BY <1>2, <1>4, <1>5, <1>6 DEF Restores, Switched, Calms
  <2>2. Sane(share)
    BY <1>1, <1>7, <2>1, FreeSlot, SaneBefore
  <2>3. CASE share.run.sid = 0
    BY <1>5, <1>6, <2>1, <2>3, AbsentWell DEF Restores, Absent
  <2>4. CASE share.run.sid # 0
    BY <2>2, <2>4, <1>2, <1>4, <1>5, <1>6, ShareNoFlow, <1>1, <1>7, <2>1, AloneSingle DEF ShareInv,
       ShareWell, Switched, Sound, Restores, Sane, Doomed, Resumes, Expects, Begins, Mends, Due
  <2> QED BY <2>3, <2>4
<1> QED BY <1>6, <1>7 DEF ShareInv

-----------------------------------------------------------------------------
(* The recovery of the transport.                                          *)

LEMMA AbandonStep == ASSUME ShareInv(share), O!Abandon PROVE ShareInv(share')
<1> DEFINE rs == [s \in 1..MaxShares |-> O!NoRecovery]
           fl == [f \in StoreFlow |-> [share.flows[f] EXCEPT !.rec = 0]]
           b == share.lapsed \/ share.hosted # 0
           a == [share EXCEPT !.recovery = rs, !.flows = fl, !.lapsed = b]
           t == O!TeardownOwned(a)
<1>1. /\ ShareShape(share) /\ ShareBase(share) /\ share \in O!ShareRec
      /\ share.flows \in [StoreFlow -> O!FlowRec] /\ share.lapsed \in BOOLEAN
  BY ShareTypes DEF ShareInv, ShareBase
<1>2. share' = O!Show(t, "none", 0)
  BY DEF O!Abandon
<1>3. rs \in [1..MaxShares -> O!RecoveryRec] /\ \A s \in 1..MaxShares : rs[s] = O!NoRecovery
  BY DEF O!NoRecovery, O!RecoveryRec
<1>4. fl \in [StoreFlow -> O!FlowRec] /\ \A f \in StoreFlow : Wanes(share.flows[f], fl[f]) /\ fl[f].rec = 0
  BY <1>1, ShareConstants DEF O!FlowRec, Wanes
<1>5. b \in BOOLEAN /\ (share.lapsed => b) /\ (~b => share.hosted = 0)
  BY <1>1
<1> HIDE DEF rs, fl, b
<1>6. /\ a \in O!ShareRec /\ Fixed(share, a) /\ a.run = share.run /\ a.live = share.live
      /\ a.hosted = share.hosted /\ a.lapsed = b /\ a.recovery = rs /\ a.flows = fl
  BY <1>1, <1>3, <1>4, <1>5 DEF O!ShareRec, Fixed
<1> HIDE DEF a
<1>7. Calms(share, a)
  BY <1>3, <1>4, <1>6, <1>1, <1>5 DEF Calms, ShareShape, RunShape
<1>8. ShareBase(a) /\ ShareShape(a)
  BY <1>1, <1>7, CalmsBase DEF ShareBase
<1>9. Calms(a, t) /\ t.run = O!NoRuntime /\ t.hosted = a.hosted /\ t.lapsed = a.lapsed
  BY <1>8, ShareTeardownCalms
<1> HIDE DEF t
<1>10. ShareBase(t) /\ ShareShape(t)
  BY <1>8, <1>9, CalmsBase DEF ShareBase
<1>11. Calms(t, share') /\ SameUse(t, share') /\ Disowned(share') /\ share'.status = "none"
  BY <1>2, <1>10, ShareConstants, ShowCalms DEF ShareWords
<1>12. ShareBase(share')
  BY <1>10, <1>11, CalmsBase
<1>13. ASSUME Sane(share') PROVE Absent(share')
  BY <1>5, <1>6, <1>9, <1>11, <1>13 DEF Sane, Absent, SameUse, O!NoRuntime
<1> QED BY <1>12, <1>13, AbsentWell DEF ShareInv

LEMMA ShareRetryStep == ASSUME ShareInv(share), NEW s \in 1..MaxShares, O!Retry(s) PROVE ShareInv(share')
<1> DEFINE f == O!Slot
           r == [share.recovery[s] EXCEPT !.phase = "running"]
<1>1. /\ ShareShape(share) /\ ShareBase(share) /\ share.recovery \in [1..MaxShares -> O!RecoveryRec]
      /\ f \in StoreFlow /\ share.flows[f].at = "none" /\ share.recovery[s].phase = "timer"
      /\ share' = O!RunRecovery(share, s, f)
  BY ShareSlot, ShareTypes DEF O!Retry, ShareInv, ShareBase
<1> HIDE DEF f
<1>2. /\ share.recovery[s].attempt # "none" /\ \A g \in StoreFlow : share.flows[g].rec # s /\ s # 0
  BY <1>1 DEF ShareBase, ShareReports
<1>3. r \in O!RecoveryRec /\ r.attempt # "none" /\ r.phase = "running"
  BY <1>1, <1>2 DEF O!RecoveryRec
<1>4. RecoveryRuns(share, s) = SetRecovery(share, s, r)
  BY DEF RecoveryRuns, SetRecovery
<1> HIDE DEF r
<1>5. ShareBase(RecoveryRuns(share, s))
  BY <1>1, <1>2, <1>3, <1>4, ShareSetBase
<1>6. ShareBase(SetRecovery(share, s, O!NoRecovery))
  BY <1>1, <1>2, ShareSetBase DEF O!NoRecovery, O!RecoveryRec
<1>7. ShareBase(share') /\ Reran(share, s, f, share')
  BY <1>1, <1>2, <1>5, <1>6, RunFacts
<1>8. ASSUME Sane(share') PROVE ShareWell(share')
  <2>1. ~Doomed(share, share.flows[f]) /\ ~share.flows[f].own /\ ~Starts(share.flows[f])
    BY <1>1, FreeSlot
  <2>2. Sane(share) /\ ShareWell(share)
    BY <1>1, <1>7, <1>8, <2>1, SaneBefore DEF Reran, ShareInv
  <2>3. CASE share.run.sid # 0
    BY <2>2, <2>3, <1>7, <1>1, <2>1, ResumesWell DEF ShareWell, Reran, Sound
  <2>4. CASE share.run.sid = 0
    <3>1. share'.run.sid = 0 /\ share'.hosted = share.hosted
      BY <1>7, <2>4 DEF Reran
    <3>2. CASE Disowned(share') /\ share'.status = "none"
      <4>1. \A g \in StoreFlow \ {f} : share.flows[g].at \notin Mains
        BY <1>7, <1>8, <3>2, SaneDisowned DEF Reran, Disowned
      <4>2. \A g \in StoreFlow : ~Starts(share.flows[g])
        BY <2>1, <4>1 DEF Starts, Mains, Begins
      <4>3. share.hosted = 0
        BY <2>2, <2>4, <4>2 DEF ShareWell
      <4> QED BY <3>1, <3>2, <4>3, AbsentWell DEF Absent
    <3>3. CASE share'.live = share.live /\ share'.flows = share.flows /\ share'.status = share.status
      BY <1>1, <2>2, <3>3, <2>4, <3>1 DEF ShareWell, Single, ShareShape, Expects, FlowShape, Named
    <3> QED BY <1>7, <2>4, <3>2, <3>3 DEF Reran
  <2> QED BY <2>3, <2>4
<1> QED BY <1>7, <1>8 DEF ShareInv

LEMMA ConnectionFailsStep == ASSUME ShareInv(share), O!ConnectionFails PROVE ShareInv(share')
<1> DEFINE f == O!Slot
           s == share.run.sid
           a == O!ShowIfAny(share, "reconnecting")
<1>1. /\ ShareShape(share) /\ ShareBase(share) /\ s \in O!Sid /\ s # 0
      /\ f \in StoreFlow /\ share.flows[f].at = "none"
      /\ share' = O!StartRecovery(a, s, "media", f)
  BY ShareSlot, ShareTypes DEF O!ConnectionFails, ShareInv, ShareBase, O!RuntimeRec
<1> HIDE DEF f
<1>2. /\ Calms(share, a) /\ SameUse(share, a)
      /\ share.status # "none" => Disowned(a) /\ a.status = "reconnecting"
  BY <1>1, ShareConstants, ShowIfAnyCalms DEF ShareWords
<1> HIDE DEF a
<1>3. ShareBase(a) /\ ShareShape(a) /\ a.flows[f].at = "none" /\ a.run = share.run
  BY <1>1, <1>2, CalmsBase DEF ShareBase, Calms, Wanes, SameUse
<1>4. /\ ShareBase(share')
      /\ IF s = 0 \/ a.recovery[s].attempt # "none" THEN share' = a ELSE Reran(a, s, f, share')
  <2>1. "media" \in {"media", "restore"}
    OBVIOUS
  <2> HIDE DEF s
  <2> QED BY <1>1, <1>3, <2>1, StartRecoveryFacts
<1>5. ASSUME Sane(share') PROVE ShareWell(share')
  <2>1. s \in 1..MaxShares /\ 0 \notin 1..MaxShares
    BY <1>1, ClientAssumption DEF ShareAssumption, O!Sid
  <2>2. ~Doomed(a, a.flows[f]) /\ ~a.flows[f].own
    BY <1>1, <1>3, FreeSlot
  <2>3. Sane(a)
    BY <1>5, <1>3, <2>2, SaneBefore, <1>4 DEF Reran
  <2>4. ShareWell(share)
    BY <1>1, <1>2, <2>3, SaneCalms DEF ShareInv
  <2>5. Disowned(a) /\ Sound(a) /\ Single(a)
    BY <1>1, <1>2, <2>4, DisownedSingle DEF ShareWell, Sound, SameUse
  <2>6. CASE a.recovery[s].attempt # "none"
    BY <1>4, <2>1, <2>6, <1>1, <1>3, <2>5 DEF Due, ShareWell
  <2>7. CASE a.recovery[s].attempt = "none"
    <3>1. Resumes(a, f, s, share') /\ share'.recovery[s].attempt # "none"
      BY <1>1, <1>3, <1>4, <2>5, <2>7 DEF Reran, Sound
    <3>2. a.run.sid # 0
      BY <1>1, <1>3
    <3> HIDE DEF s
    <3> QED BY <1>1, <2>1, <2>2, <2>5, <3>1, <3>2, ResumesWell
  <2> QED BY <2>6, <2>7
<1> QED BY <1>4, <1>5 DEF ShareInv

LEMMA RecoveryFailsStep ==
  ASSUME ShareInv(share), NEW f \in StoreFlow, O!RecoveryFails(f) PROVE ShareInv(share')
<1>1. /\ ShareShape(share) /\ ShareBase(share) /\ share.flows[f].at \in {"reconnect", "rebuild"}
      /\ share.flows[f].sid # 0 /\ share.flows[f].again \in BOOLEAN
  BY ShareTypes DEF O!RecoveryFails, O!At, ShareInv, ShareBase, ShareShape, FlowShape, Named, O!FlowRec
<1>2. CASE share.flows[f].again
  <2>1. ShareBase(share') /\ RestoreFailed(share, f, share')
    BY <1>2, <1>1, RestoreFailsFacts DEF O!RecoveryFails
  <2>2. ASSUME Sane(share') PROVE ShareWell(share')
    BY <2>1, <2>2, <1>1, SaneBefore, Expected DEF RestoreFailed, Sane, Doomed, Expects
  <2> QED BY <2>1, <2>2 DEF ShareInv
<1>3. CASE ~share.flows[f].again
  <2> DEFINE x == O!Free(share, f)
             r == share.flows[f].rec
  <2>1. share' = O!AttemptEnds(x, r, FALSE) /\ r \in O!Sid
    BY <1>1, <1>3, ShareTypes DEF O!RecoveryFails
  <2>2. /\ ShareBase(x) /\ x.flows[f] = O!NoFlow /\ \A g \in StoreFlow \ {f} : x.flows[g] = share.flows[g]
        /\ Fixed(share, x) /\ SameUse(share, x) /\ x.status = share.status
    BY <1>1, ShareFreeBase, ShareFreeFacts DEF ShareBase, Held, Borne
  <2> HIDE DEF x
  <2>3. r # 0 => x.recovery[r].attempt # "none" /\ \A g \in StoreFlow : x.flows[g].rec # r
    <3> SUFFICES ASSUME r # 0 PROVE x.recovery[r].attempt # "none" /\ \A g \in StoreFlow : x.flows[g].rec # r
      OBVIOUS
    <3>1. r \in 1..MaxShares
      BY <2>1, ClientAssumption DEF ShareAssumption, O!Sid
    <3>2. share.recovery[r].phase = "running" /\ share.recovery[r].attempt # "none"
      BY <1>1, <3>1 DEF ShareBase, ShareReports
    <3>3. \A g \in StoreFlow \ {f} : share.flows[g].rec # r
      BY <1>1 DEF ShareBase, ShareReports
    <3> QED BY <2>2, <3>2, <3>3, ShareNoFlow DEF SameUse
  <2> HIDE DEF r
  <2>4. /\ ShareBase(share') /\ SameElse(x, share')
        /\ \A t \in 1..MaxShares \ {r} : share'.recovery[t] = x.recovery[t]
        /\ r # 0 => share'.recovery[r].attempt = x.recovery[r].attempt
    <3>1. MayEnd(x, r)
      BY <2>1, <2>2, <2>3 DEF MayEnd
    <3>2. Ended(x, r, O!AttemptEnds(x, r, FALSE))
      BY ONLY <3>1, AttemptFailed
    <3> QED BY <2>1, <3>2 DEF Ended
  <2>5. /\ Fixed(share, share') /\ share'.status = share.status /\ share'.run = share.run
        /\ share'.live = share.live /\ share'.hosted = share.hosted /\ share'.lapsed = share.lapsed
        /\ share'.flows[f] = O!NoFlow /\ \A g \in StoreFlow \ {f} : share'.flows[g] = share.flows[g]
        /\ \A t \in 1..MaxShares : share'.recovery[t].attempt = share.recovery[t].attempt
    BY <2>4, ClientAssumption, <2>2 DEF ShareAssumption, Fixed, SameElse, SameUse
  <2>6. ASSUME Sane(share') PROVE ShareWell(share')
    BY <1>1, <1>3, <2>5, ShareWanes, <2>6, SaneBefore, ShareNoFlow DEF Doomed, Mains, ShareInv,
       ShareWell, Single, Expects, Mends, Starts, Begins, Sound, Due, Up, Fixed
  <2> QED BY <2>4, <2>6 DEF ShareInv
<1> QED BY <1>1, <1>2, <1>3

\* What a runtime sends says nothing of what it holds.
Sends(v, c) == [v EXCEPT !.run.sent = c]

LEMMA SendsCalms ==
  ASSUME NEW v, ShareShape(v), NEW c \in O!Cap, v.run.sid = 0 => c = 0, NEW u, u = Sends(v, c)
  PROVE  /\ Calms(v, u) /\ u.run.sid = v.run.sid /\ u.run.cap = v.run.cap /\ u.run.sent = c
         /\ u.live = v.live /\ u.hosted = v.hosted /\ u.recovery = v.recovery /\ u.lapsed = v.lapsed
         /\ u.flows = v.flows /\ u.status = v.status
<1> DEFINE r == [v.run EXCEPT !.sent = c]
<1>1. v \in O!ShareRec /\ v.run \in O!RuntimeRec
  BY ShareTypes
<1>2. r \in O!RuntimeRec /\ r.sid = v.run.sid /\ r.cap = v.run.cap /\ r.sent = c
  BY <1>1 DEF O!RuntimeRec
<1>3. u = [v EXCEPT !.run = r]
  BY DEF Sends
<1> HIDE DEF r
<1>4. /\ u \in O!ShareRec /\ Fixed(v, u) /\ u.run = r
      /\ u.live = v.live /\ u.hosted = v.hosted /\ u.recovery = v.recovery /\ u.lapsed = v.lapsed
      /\ u.flows = v.flows /\ u.status = v.status
  BY <1>1, <1>2, <1>3 DEF O!ShareRec, Fixed
<1> QED BY <1>2, <1>4, ShareWanes DEF Calms

LEMMA ReconnectStep ==
  ASSUME ShareInv(share), NEW f \in StoreFlow, O!Reconnect(f) PROVE ShareInv(share')
<1> DEFINE a == O!Cross(share, f)
           v == O!SuspendOwned(a)
           c == IF v.sfu \/ v.run.sid = 0 THEN 0 ELSE v.run.cap
           t == Sends(v, c)
           w == [v.flows[f] EXCEPT !.at = "rebuild", !.sfu = v.sfu]
<1>1. /\ ShareShape(share) /\ ShareBase(share) /\ share.flows[f].at = "reconnect"
      /\ share.flows[f].sid # 0 /\ share.hosted = share.flows[f].sid
  BY DEF O!Reconnect, O!At, ShareInv, ShareBase, ShareShape, FlowShape, Named
<1>2. share' = [v EXCEPT !.flows[f].at = "rebuild", !.flows[f].sfu = v.sfu, !.run.sent = c]
  BY DEF O!Reconnect
<1>3. /\ Calms(share, a) /\ SameRun(share, a) /\ a.flows = share.flows /\ a.status = share.status
      /\ ~a.lapsed => ~share.lapsed /\ share.flows[f].own
  BY <1>1, ShareCrossCalms
<1> HIDE DEF a
<1>4. ShareShape(a) /\ ShareBase(a)
  BY <1>1, <1>3, CalmsBase, CalmsShape
<1>5. /\ Calms(a, v) /\ v.run.sid = a.run.sid /\ v.run.cap = a.run.cap
      /\ v.live = a.live /\ v.hosted = a.hosted /\ v.recovery = a.recovery /\ v.lapsed = a.lapsed
      /\ v.flows = a.flows /\ v.status = a.status
  BY <1>4, SuspendCalms
<1> HIDE DEF v
<1>6. ShareShape(v) /\ ShareBase(v) /\ v \in O!ShareRec /\ v.sfu \in BOOLEAN
      /\ v.run \in O!RuntimeRec /\ v.flows \in [StoreFlow -> O!FlowRec]
  BY <1>4, <1>5, CalmsBase, CalmsShape, ShareTypes
<1>7. c \in O!Cap /\ (v.run.sid = 0 => c = 0) /\ c \in {0, v.run.cap}
  BY <1>6, ShareConstants DEF O!RuntimeRec
<1>8. /\ w \in O!FlowRec /\ w.at = "rebuild" /\ w.own = share.flows[f].own /\ w.cap = share.flows[f].cap
      /\ w.sid = share.flows[f].sid /\ w.rec = share.flows[f].rec /\ w.again = share.flows[f].again
  BY <1>3, <1>5, <1>6, ZenonT(30) DEF O!FlowRec, O!Setups
<1>9. share' = O!Put(t, f, w)
  <2>1. share' = [[v EXCEPT !.run = [v.run EXCEPT !.sent = c]] EXCEPT !.flows = [v.flows EXCEPT ![f] = w]]
    <3> HIDE DEF c
    <3> QED BY <1>2, <1>6 DEF O!ShareRec
  <2>2. t.flows = v.flows
    BY <1>6 DEF O!ShareRec, Sends
  <2> QED BY <2>1, <2>2 DEF O!Put, Sends
<1> HIDE DEF c
<1>10. /\ Calms(v, t) /\ t.run.sid = v.run.sid /\ t.run.cap = v.run.cap /\ t.run.sent = c
       /\ t.live = v.live /\ t.hosted = v.hosted /\ t.recovery = v.recovery /\ t.lapsed = v.lapsed
       /\ t.flows = v.flows /\ t.status = v.status
  BY <1>6, <1>7, SendsCalms
<1> HIDE DEF t, w
<1>11. ShareShape(t) /\ ShareBase(t)
  BY <1>6, <1>10, CalmsBase, CalmsShape
<1>12. /\ share'.flows[f] = w /\ \A g \in StoreFlow \ {f} : share'.flows[g] = t.flows[g]
       /\ SameUse(t, share') /\ share'.status = t.status /\ Fixed(t, share')
  BY <1>8, <1>9, <1>11, SharePutFacts
<1>13. ShareBase(share')
  <2>1. FlowShape(t, w)
    BY <1>3, <1>5, <1>10, <1>11, <1>1, <1>8 DEF ShareShape, FlowShape, Private, Named, Begins
  <2>2. RecFits(t, f, w)
    BY <1>3, <1>5, <1>8, <1>10 DEF RecFits
  <2>3. ~t.lapsed => Fits(t, f, w)
    BY <1>3, <1>5, <1>10, <1>1, <1>8, <1>11 DEF ShareBase, Held, Borne, Fits, Private, Owned, Begins
  <2> QED BY <1>8, <1>9, <1>11, <2>1, <2>2, <2>3, SharePutBase
<1>14. /\ share'.run.sid = share.run.sid /\ share'.run.cap = share.run.cap /\ share'.run.sent \in {0, share.run.cap}
       /\ share'.live = share.live /\ share'.hosted = share.hosted /\ share'.recovery = share.recovery
       /\ ~share'.lapsed => ~share.lapsed /\ share.flows[f].own
       /\ share'.status = share.status
       /\ \A g \in StoreFlow \ {f} : share'.flows[g] = share.flows[g]
  BY <1>3, <1>5, <1>7, <1>10, <1>12 DEF SameRun, SameUse
<1>15. ASSUME Sane(share') PROVE ShareWell(share')
  <2>1. share.flows[f].own /\ ~Doomed(share, share.flows[f]) /\ (share.lapsed => share'.lapsed)
    BY <1>1, <1>14, <1>15 DEF Sane, Doomed
  <2>2. Sane(share) /\ \A g \in StoreFlow \ {f} : Wanes(share.flows[g], share'.flows[g])
    BY <1>1, <1>14, ShareWanes, <1>15, <2>1, SaneBefore
  <2>3. Expects(share, share.flows[f]) /\ Single(share) /\ share.run.sid # 0 /\ Sound(share) /\ Due(share)
    BY <1>1, <2>1, <2>2, Expected DEF Expects
  <2>4. Expects(share', w)
    BY <1>1, <1>8, <1>14, <2>3 DEF Expects, Begins
  <2>5. Single(share')
    BY <1>14, <2>3, <1>8, <1>12, <2>4 DEF Single, Expects, Mains
  <2>6. Sound(share')
    BY <1>14, <2>3 DEF Sound
  <2>7. Due(share')
    <3>1. CASE w.again
      BY <1>8, <1>12, <2>1, <3>1 DEF Due, Mends
    <3>2. CASE ~w.again
      BY <1>1, <1>8, <2>3, <3>2, ShareTypes, ClientAssumption, <1>14 DEF Expects, O!Sid,
         ShareAssumption, ShareBase, ShareReports, Due
    <3> QED BY <3>1, <3>2
  <2> QED BY <1>14, <2>3, <2>5, <2>6, <2>7 DEF ShareWell
<1> QED BY <1>13, <1>15 DEF ShareInv

LEMMA RebuiltStep ==
  ASSUME ShareInv(share), NEW f \in StoreFlow, O!Rebuilt(f) PROVE ShareInv(share')
<1> DEFINE v == O!Cross(share, f)
           w == IF v.run.sid = 0 THEN v ELSE Sends(v, v.run.cap)
           n == share.flows[f].sid
           b == IF w.status = "none" THEN w ELSE O!Show(w, "live", n)
           r == share.flows[f].rec
           x == O!Free(b, f)
<1>1. /\ ShareShape(share) /\ ShareBase(share) /\ share.flows[f].at = "rebuild"
      /\ n # 0 /\ n \in O!Sid /\ r \in O!Sid
  BY ShareTypes DEF O!Rebuilt, O!At, ShareInv, ShareBase, ShareShape, FlowShape, Named, O!FlowRec
<1>2. share' = O!AttemptEnds(x, r, TRUE)
  BY DEF O!Rebuilt, Sends
<1>3. /\ Calms(share, v) /\ SameRun(share, v) /\ v.flows = share.flows /\ v.status = share.status
      /\ ~v.lapsed => ~share.lapsed /\ share.flows[f].own
  BY <1>1, ShareCrossCalms
<1> HIDE DEF v, n, r
<1>4. ShareShape(v) /\ ShareBase(v) /\ v.run.cap \in O!Cap
  BY <1>1, <1>3, CalmsBase, CalmsShape, ShareTypes DEF O!RuntimeRec
<1>5. /\ Calms(v, w) /\ w.run.sid = v.run.sid /\ w.run.cap = v.run.cap
      /\ v.run.sid # 0 => w.run.sent = v.run.cap
      /\ w.live = v.live /\ w.hosted = v.hosted /\ w.recovery = v.recovery /\ w.lapsed = v.lapsed
      /\ w.flows = v.flows /\ w.status = v.status
  <2>1. CASE v.run.sid = 0
    BY <1>4, <2>1, CalmsSelf
  <2>2. CASE v.run.sid # 0
    <3>1. w = Sends(v, v.run.cap)
      BY <2>2
    <3> HIDE DEF w
    <3> QED BY <1>4, <2>2, <3>1, SendsCalms
  <2> QED BY <2>1, <2>2
<1> HIDE DEF w
<1>6. ShareShape(w) /\ ShareBase(w)
  BY <1>4, <1>5, CalmsBase, CalmsShape
<1>7. /\ Calms(w, b) /\ SameUse(w, b) /\ (w.status # "none" => Disowned(b) /\ b.status = "live")
      /\ \A g \in StoreFlow : b.flows[g].rec = w.flows[g].rec
  <2>1. CASE w.status = "none"
    BY <1>6, <2>1, CalmsSelf DEF SameUse
  <2>2. CASE w.status # "none"
    <3>1. b = O!Show(w, "live", n) /\ "live" \in O!Status
      BY <2>2, ShareConstants DEF ShareWords
    <3> HIDE DEF b
    <3> QED BY <1>1, <1>6, <3>1, ShowCalms
  <2> QED BY <2>1, <2>2
<1> HIDE DEF b
<1>8. ShareShape(b) /\ ShareBase(b) /\ b.flows[f].at = "rebuild" /\ b.flows[f].rec = r
  BY <1>1, <1>3, <1>5, <1>6, <1>7, CalmsBase, CalmsShape DEF Calms, Wanes, r
<1>9. /\ ShareBase(x) /\ x.flows[f] = O!NoFlow /\ \A g \in StoreFlow \ {f} : x.flows[g] = b.flows[g]
      /\ Fixed(b, x) /\ SameUse(b, x) /\ x.status = b.status
  BY <1>8, ShareFreeBase, ShareFreeFacts DEF ShareBase, Held, Borne
<1> HIDE DEF x
<1>10. r # 0 => \A g \in StoreFlow : x.flows[g].rec # r
  BY <1>8, <1>9, ShareNoFlow DEF ShareBase, ShareReports
<1>11. ShareBase(share') /\ SameElse(x, share')
  BY <1>1, <1>2, <1>9, <1>10, AttemptDone
<1>12. ASSUME Sane(share') PROVE ShareWell(share')
  <2>1. /\ share'.run.sid = share.run.sid /\ share'.run.cap = share.run.cap
        /\ share.run.sid # 0 => share'.run.sent = share.run.cap
        /\ share'.live = share.live /\ share'.hosted = share.hosted
        /\ ~share'.lapsed => ~share.lapsed /\ share.flows[f].own
        /\ share.status # "none" => Disowned(share') /\ share'.status = "live"
        /\ \A g \in StoreFlow \ {f} : Wanes(share.flows[g], share'.flows[g])
    BY <1>3, <1>5, <1>7, <1>9, <1>11, ShareNoFlow DEF SameRun, SameUse, SameElse, Calms, Disowned
  <2>2. share.flows[f].own /\ ~Doomed(share, share.flows[f]) /\ (share.lapsed => share'.lapsed)
    BY <1>1, <1>12, <2>1 DEF Sane, Doomed
  <2>3. Sane(share)
    BY <1>1, <1>12, <2>1, <2>2, SaneBefore
  <2>4. share.run.sid # 0 /\ share.hosted = share.run.sid /\ Sound(share)
    BY <1>1, <2>2, <2>3, Expected DEF Expects, n
  <2>5. Disowned(share') /\ share'.status = "live"
    BY <2>1, <2>4 DEF Sound
  <2>6. Sound(share') /\ Up(share')
    BY <2>1, <2>4, <2>5 DEF Sound, Up
  <2> QED BY <2>1, <2>4, <2>5, <2>6, UpWell
<1> QED BY <1>11, <1>12 DEF ShareInv

-----------------------------------------------------------------------------
(* The answers to stream.start and stream.stop, and the setup of an SFU    *)
(* session.                                                                *)

LEMMA StartRefusedStep ==
  ASSUME ShareInv(share), NEW f \in StoreFlow, O!StartRefused(f) PROVE ShareInv(share')
<1>1. /\ ShareShape(share) /\ ShareBase(share) /\ share.flows[f].at = "start"
      /\ share' = O!StartFails(share, f)
  BY DEF O!StartRefused, O!At, ShareInv, ShareBase
<1>2. /\ ShareBase(share')
      /\ IF share.flows[f].again THEN RestoreFailed(share, f, share') ELSE StartFailed(share, f, share')
  BY <1>1, StartFailsFacts
<1>3. ASSUME Sane(share') PROVE ShareWell(share')
  BY <1>2, <1>3, <1>1, SaneBefore, Expected, AbsentWell DEF RestoreFailed, StartFailed, Sane,
     Doomed, Expects, Begins, Absent
<1> QED BY <1>2, <1>3 DEF ShareInv

LEMMA StartUnansweredStep ==
  ASSUME ShareInv(share), NEW f \in StoreFlow, O!StartUnanswered(f) PROVE ShareInv(share')
<1>1. /\ ShareShape(share) /\ ShareBase(share) /\ share.flows[f].at = "started"
      /\ share' = O!StartFails(IF O!Broken(f) THEN share ELSE O!Lapse(share), f)
  BY DEF O!StartUnanswered, O!At, ShareInv, ShareBase
<1>2. CASE O!Broken(f)
  <2>1. /\ ShareBase(share')
        /\ IF share.flows[f].again THEN RestoreFailed(share, f, share') ELSE StartFailed(share, f, share')
    BY <1>1, <1>2, StartFailsFacts
  <2>2. ASSUME Sane(share') PROVE ShareWell(share')
    <3>1. /\ share.flows[f].own /\ (share.lapsed => share'.lapsed) /\ share'.hosted = share.hosted
          /\ \A g \in StoreFlow \ {f} : Wanes(share.flows[g], share'.flows[g])
      BY <2>1, <2>2 DEF RestoreFailed, StartFailed, Sane
    <3>2. ~Doomed(share, share.flows[f])
      BY <1>1, <3>1 DEF Doomed
    <3>3. Sane(share)
      BY <1>1, <2>2, <3>1, <3>2, SaneBefore
    <3>4. ~share.flows[f].again
      BY <1>1, <3>1, <3>3 DEF Sane, ShareBase, Owned
    <3>5. share.run.sid = 0
      BY <1>1, <3>1, <3>3, <3>4, Expected DEF Expects, Begins
    <3>6. share.hosted = 0
      BY <1>1, <1>2 DEF O!Broken, ShareShape, RunShape
    <3> QED BY <2>1, <3>4, <3>5, <3>6, AbsentWell DEF StartFailed, Absent
  <2> QED BY <2>1, <2>2 DEF ShareInv
<1>3. CASE ~O!Broken(f)
  <2> DEFINE v == O!Lapse(share)
  <2>1. Calms(share, v) /\ v.lapsed
    BY <1>1, LapseCalms DEF O!Lapse
  <2>2. share' = O!StartFails(v, f)
    BY <1>1, <1>3
  <2> HIDE DEF v
  <2>3. ShareBase(v)
    BY <1>1, <2>1, CalmsBase
  <2>4. ShareBase(share') /\ share'.lapsed
    BY <2>1, <2>2, <2>3, StartFailsFacts DEF RestoreFailed, StartFailed
  <2> QED BY <2>4 DEF ShareInv, Sane
<1> QED BY <1>2, <1>3

LEMMA ProducedStep ==
  ASSUME ShareInv(share), NEW f \in StoreFlow, O!Produced(f) PROVE ShareInv(share')
<1> DEFINE v == O!Cross(share, f)
           c == share.flows[f].cap
           w == IF v.run.sid = 0 THEN v ELSE Sends(v, c)
<1>1. /\ ShareShape(share) /\ ShareBase(share) /\ share.flows[f].at = "produce"
      /\ share.flows[f].sid # 0 /\ c \in O!Cap
  BY ShareTypes DEF O!Produced, O!At, ShareInv, ShareBase, ShareShape, FlowShape, Named, O!FlowRec
<1>2. /\ Calms(share, v) /\ SameRun(share, v) /\ v.flows = share.flows /\ v.status = share.status
      /\ ~v.lapsed => ~share.lapsed /\ share.flows[f].own
  BY <1>1, ShareCrossCalms
<1>3. share' = O!GoLive(w, f)
  BY <1>2 DEF O!Produced, Sends
<1> HIDE DEF v, c
<1>4. ShareShape(v) /\ ShareBase(v)
  BY <1>1, <1>2, CalmsBase, CalmsShape
<1>5. /\ Calms(v, w) /\ w.run.sid = v.run.sid /\ w.run.cap = v.run.cap
      /\ v.run.sid # 0 => w.run.sent = c
      /\ w.live = v.live /\ w.hosted = v.hosted /\ w.recovery = v.recovery /\ w.lapsed = v.lapsed
      /\ w.flows = v.flows /\ w.status = v.status
  <2>1. CASE v.run.sid = 0
    BY <1>4, <2>1, CalmsSelf
  <2>2. CASE v.run.sid # 0
    <3>1. w = Sends(v, c)
      BY <2>2
    <3> HIDE DEF w
    <3> QED BY <1>1, <1>4, <2>2, <3>1, SendsCalms
  <2> QED BY <2>1, <2>2
<1> HIDE DEF w
<1>6. ShareBase(w) /\ w.flows[f] = share.flows[f]
  BY <1>2, <1>4, <1>5, CalmsBase
<1>7. ShareBase(share') /\ WentLive(w, f, share')
  <2>1. ~w.lapsed => (w.flows[f].cap = w.run.cap \/ w.flows[f].cap \notin w.live)
    BY <1>1, <1>6 DEF ShareBase, Held, Borne
  <2> QED BY <1>3, <1>6, <2>1, GoLiveFacts
<1>8. ASSUME Sane(share') PROVE ShareWell(share')
  <2>1. /\ share.flows[f].own /\ (share.lapsed => share'.lapsed) /\ share'.hosted = share.hosted
        /\ share'.run.sid = share.run.sid /\ share'.run.cap = share.run.cap
        /\ share.run.sid # 0 => share'.run.sent = c
        /\ share'.live = share.live /\ Disowned(share') /\ share'.status = "live"
        /\ \A g \in StoreFlow \ {f} : Wanes(share.flows[g], share'.flows[g])
    BY <1>2, <1>5, <1>7, <1>8 DEF WentLive, SameRun, Sane
  <2>2. ~Doomed(share, share.flows[f])
    BY <1>1, <2>1 DEF Doomed
  <2>3. Sane(share)
    BY <1>1, <1>8, <2>1, <2>2, SaneBefore
  <2>4. share.run.sid # 0 /\ share.hosted = share.run.sid /\ share.run.cap = c /\ Sound(share)
    BY <1>1, <2>1, <2>3, Expected DEF Expects, c
  <2>5. Sound(share') /\ Up(share')
    BY <2>1, <2>4 DEF Sound, Up
  <2> QED BY <2>1, <2>4, <2>5, UpWell
<1> QED BY <1>7, <1>8 DEF ShareInv

LEMMA ProduceFailsStep ==
  ASSUME ShareInv(share), NEW f \in StoreFlow, O!ProduceFails(f) PROVE ShareInv(share')
<1> DEFINE v == O!Cross(share, f)
<1>1. /\ ShareShape(share) /\ ShareBase(share) /\ share.flows[f].at = "produce"
      /\ share.flows[f].again \in BOOLEAN
      /\ share' = IF v.flows[f].again THEN O!RestoreFails(O!SuspendOwned(v), f)
                  ELSE [v EXCEPT !.flows[f].at = "undo"]
  BY ShareTypes DEF O!ProduceFails, O!At, ShareInv, ShareBase, O!FlowRec
<1>2. /\ Calms(share, v) /\ SameRun(share, v) /\ v.flows = share.flows /\ v.status = share.status
      /\ ~v.lapsed => ~share.lapsed /\ share.flows[f].own
  BY <1>1, ShareCrossCalms
<1> HIDE DEF v
<1>3. ShareShape(v) /\ ShareBase(v) /\ v \in O!ShareRec
  BY <1>1, <1>2, CalmsBase, CalmsShape DEF Calms
<1>4. CASE share.flows[f].again
  <2> DEFINE s == O!SuspendOwned(v)
  <2>1. Calms(v, s) /\ s.lapsed = v.lapsed /\ s.flows = v.flows
    BY <1>3, SuspendCalms
  <2>2. share' = O!RestoreFails(s, f)
    BY <1>1, <1>2, <1>4
  <2> HIDE DEF s
  <2>3. ShareBase(s) /\ s.flows[f].again
    BY <1>2, <1>3, <1>4, <2>1, CalmsBase
  <2>4. ShareBase(share') /\ RestoreFailed(s, f, share')
    BY <2>2, <2>3, RestoreFailsFacts
  <2>5. ASSUME Sane(share') PROVE FALSE
    BY <1>2, <2>1, <2>4, <2>5, <1>1, <1>4 DEF RestoreFailed, Sane, ShareBase, Owned
  <2> QED BY <2>4, <2>5 DEF ShareInv
<1>5. CASE ~share.flows[f].again
  <2> DEFINE w == [v.flows[f] EXCEPT !.at = "undo"]
  <2>1. share' = O!Put(v, f, w)
    BY <1>1, <1>2, <1>5, <1>3 DEF O!Put
  <2>2. /\ w \in O!FlowRec /\ w.at = "undo" /\ w.own = share.flows[f].own /\ w.cap = share.flows[f].cap
        /\ w.sid = share.flows[f].sid /\ w.rec = share.flows[f].rec /\ w.again = share.flows[f].again
    BY <1>2, <1>3, ShareTypes DEF O!FlowRec, O!Commands
  <2> HIDE DEF w
  <2>3. /\ share'.flows[f] = w /\ \A g \in StoreFlow \ {f} : share'.flows[g] = v.flows[g]
        /\ SameUse(v, share') /\ share'.status = v.status /\ Fixed(v, share')
    BY <1>3, <2>1, <2>2, SharePutFacts
  <2>4. ShareBase(share')
    <3>1. FlowShape(v, w)
      BY <1>2, <1>3, <1>1, <2>2 DEF ShareShape, FlowShape, Private, Named, Begins
    <3>2. RecFits(v, f, w)
      BY <1>2, <2>2 DEF RecFits
    <3>3. ~v.lapsed => Fits(v, f, w)
      BY <1>1, <1>2, <1>3, <2>2 DEF ShareBase, Held, Borne, Fits, Private, Owned, Begins
    <3> QED BY <1>3, <2>1, <2>2, <3>1, <3>2, <3>3, SharePutBase
  <2>5. ASSUME Sane(share') PROVE ShareWell(share')
    <3>1. /\ share.flows[f].own /\ (share.lapsed => share'.lapsed) /\ share'.hosted = share.hosted
          /\ share'.run = share.run /\ share'.live = share.live /\ share'.status = share.status
          /\ \A g \in StoreFlow \ {f} : share'.flows[g] = share.flows[g]
      BY <1>2, <2>3, <2>5 DEF SameRun, SameUse, Sane
    <3>2. ~Doomed(share, share.flows[f]) /\ \A g \in StoreFlow \ {f} : Wanes(share.flows[g], share'.flows[g])
      BY <1>1, <3>1, ShareWanes DEF Doomed
    <3>3. Sane(share)
      BY <1>1, <2>5, <3>1, <3>2, SaneBefore
    <3>4. Expects(share, share.flows[f]) /\ Single(share) /\ share.run.sid # 0 /\ Sound(share)
      BY <1>1, <3>1, <3>3, Expected DEF ShareShape, FlowShape, Named, Expects
    <3>5. Expects(share', w)
      BY <1>1, <2>2, <3>1, <3>4 DEF Expects, Begins
    <3>6. Single(share')
      <4>1. ASSUME NEW g \in StoreFlow \ {f}, share'.flows[g].own PROVE Expects(share', share'.flows[g])
        BY <3>1, <3>4, <4>1 DEF Single, Expects
      <4>2. \A g \in StoreFlow \ {f} : ~(share.flows[g].own /\ share.flows[g].at \in Mains)
        BY <1>1, <3>1, <3>4 DEF Single, Mains
      <4> QED BY <2>3, <3>1, <3>5, <4>1, <4>2 DEF Single
    <3>7. Sound(share') /\ Due(share')
      BY <2>2, <2>3, <3>1, <3>4 DEF Sound, Due, Mends
    <3> QED BY <3>1, <3>4, <3>6, <3>7 DEF ShareWell
  <2> QED BY <2>4, <2>5 DEF ShareInv
<1> QED BY <1>1, <1>4, <1>5

\* A function is over, and nothing is shown.
Gone(v, f, u) ==
  /\ Fixed(v, u) /\ u.run = v.run /\ u.hosted = v.hosted /\ u.lapsed = v.lapsed
  /\ Disowned(u) /\ u.status = "none"
  /\ \A g \in StoreFlow \ {f} : Wanes(v.flows[g], u.flows[g])

LEMMA GoneFacts ==
  ASSUME NEW v, ShareBase(v), NEW f \in StoreFlow,
         ~v.lapsed /\ v.flows[f].cap \in v.live => v.flows[f].cap = v.run.cap,
         NEW u, u = O!Show(O!Free(v, f), "none", 0)
  PROVE  ShareBase(u) /\ Gone(v, f, u)
<1> DEFINE a == O!Free(v, f)
<1>1. /\ ShareBase(a) /\ Fixed(v, a) /\ SameUse(v, a)
      /\ \A g \in StoreFlow \ {f} : a.flows[g] = v.flows[g]
  BY ShareFreeBase, ShareFreeFacts DEF ShareBase
<1>2. u = O!Show(a, "none", 0)
  OBVIOUS
<1> HIDE DEF a
<1>3. Calms(a, u) /\ SameUse(a, u) /\ Disowned(u) /\ u.status = "none"
  BY <1>1, <1>2, ShareConstants, ShowCalms DEF ShareBase, ShareWords
<1> QED BY <1>1, <1>3, CalmsBase DEF Gone, Fixed, SameUse, Calms

LEMMA UndoneStep == ASSUME ShareInv(share), NEW f \in StoreFlow, O!Undone(f) PROVE ShareInv(share')
<1>1. /\ ShareShape(share) /\ ShareBase(share) /\ share.flows[f].at = "undo" /\ share.flows[f].sid # 0
  BY DEF O!Undone, O!At, ShareInv, ShareBase, ShareShape, FlowShape, Named
<1>2. ASSUME NEW v, ShareBase(v), v.flows[f].at = "undo",
             share' = O!Show(O!Free(O!TeardownOwned(v), f), "none", 0)
      PROVE  /\ ShareBase(share') /\ Disowned(share') /\ share'.status = "none"
             /\ share'.run.sid = 0 /\ share'.hosted = v.hosted /\ share'.lapsed = v.lapsed
             /\ Fixed(v, share') /\ \A g \in StoreFlow \ {f} : Wanes(v.flows[g], share'.flows[g])
  <2> DEFINE t == O!TeardownOwned(v)
  <2>1. /\ Calms(v, t) /\ t.run = O!NoRuntime /\ t.live = v.live \ {v.run.cap} /\ t.hosted = v.hosted
        /\ t.lapsed = v.lapsed
    BY <1>2, ShareTeardownCalms DEF ShareBase
  <2> HIDE DEF t
  <2>2. ShareBase(t) /\ t.flows[f].cap = v.flows[f].cap
    BY <1>2, <2>1, CalmsBase DEF Calms, Wanes
  <2>3. ~t.lapsed => t.flows[f].cap \notin t.live
    BY <1>2, <2>1, <2>2 DEF ShareBase, Held, Borne
  <2>4. ShareBase(share') /\ Gone(t, f, share')
    BY <1>2, <2>2, <2>3, GoneFacts DEF t
  <2>5. /\ Fixed(v, share') /\ \A g \in StoreFlow \ {f} : Wanes(v.flows[g], share'.flows[g])
    BY <2>1, <2>4 DEF Gone, Calms, Fixed, Wanes
  <2> QED BY <2>1, <2>4, <2>5 DEF Gone, O!NoRuntime
<1>3. CASE O!Broken(f)
  BY <1>3, <1>1, <1>2, AbsentWell DEF O!Undone, O!Broken, ShareShape, RunShape, Absent, ShareInv
<1>4. CASE ~O!Broken(f)
  <2> DEFINE v == O!Cross(share, f)
             s == O!StopHosted(v, v.flows[f].sid)
             l == O!Lapse(v)
  <2>1. \/ share' = O!Show(O!Free(O!TeardownOwned(s), f), "none", 0)
        \/ share' = O!Show(O!Free(O!TeardownOwned(l), f), "none", 0)
    BY <1>4 DEF O!Undone
  <2>2. /\ Calms(share, v) /\ SameRun(share, v) /\ v.flows = share.flows
        /\ ~v.lapsed => ~share.lapsed /\ share.flows[f].own
    BY <1>1, ShareCrossCalms
  <2> HIDE DEF v
  <2>3. ShareShape(v) /\ ShareBase(v)
    BY <1>1, <2>2, CalmsBase, CalmsShape
  <2>4. /\ Calms(v, s) /\ (v.flows[f].sid # 0 /\ v.hosted \in {0, v.flows[f].sid} => s.hosted = 0)
        /\ Calms(v, l) /\ l.lapsed
    <3>1. Calms(v, s) /\ (v.flows[f].sid # 0 /\ v.hosted \in {0, v.flows[f].sid} => s.hosted = 0)
      BY <2>3, StopHostedCalms
    <3>2. Calms(v, l) /\ l.lapsed
      BY <2>3, LapseCalms DEF O!Lapse
    <3> QED BY <3>1, <3>2
  <2> HIDE DEF s, l
  <2>5. /\ ShareBase(s) /\ s.flows[f].at = "undo" /\ ShareBase(l) /\ l.flows[f].at = "undo"
    BY <1>1, <2>2, <2>3, <2>4, CalmsBase DEF Calms, Wanes
  <2>6. CASE share' = O!Show(O!Free(O!TeardownOwned(l), f), "none", 0)
    <3>1. ShareBase(share') /\ share'.lapsed
      BY <1>2, <2>4, <2>5, <2>6
    <3> QED BY <3>1 DEF ShareInv, Sane
  <2>7. CASE share' = O!Show(O!Free(O!TeardownOwned(s), f), "none", 0)
    BY <1>2, <2>5, <2>7, <2>2, <2>4, <1>1, SaneBefore, Expected, AbsentWell DEF Sane, Calms, Wanes,
       SameRun, Doomed, Expects, Sound, Absent, ShareInv
  <2> QED BY <2>1, <2>6, <2>7
<1> QED BY <1>3, <1>4

LEMMA ShareStopStep == ASSUME ShareInv(share), O!Stop PROVE ShareInv(share')
<1> DEFINE f == O!Slot
           a == O!ShowIfAny(share, "stopping")
           v == O!TeardownOwned(a)
           w == [O!NoFlow EXCEPT !.at = "stop", !.sid = share.run.sid, !.own = TRUE]
<1>1. /\ ShareShape(share) /\ ShareBase(share) /\ share.run.sid \in O!Sid /\ share.run.sid # 0
      /\ f \in StoreFlow /\ share.flows[f].at = "none" /\ share.run.sid <= share.next
      /\ share' = O!Put(v, f, w)
  BY ShareSlot, ShareTypes DEF O!Stop, ShareInv, ShareBase, ShareShape, RunShape, O!RuntimeRec
<1>2. /\ w \in O!FlowRec /\ w.at = "stop" /\ w.sid = share.run.sid /\ w.own /\ w.cap = 0 /\ w.rec = 0 /\ ~w.again
  BY <1>1, ShareNoFlow DEF O!FlowRec, O!NoFlow, O!Commands
<1> HIDE DEF f, w
<1>3. /\ Calms(share, a) /\ SameUse(share, a) /\ (share.status # "none" => a.status = "stopping")
  BY <1>1, ShareConstants, ShowIfAnyCalms DEF ShareWords
<1> HIDE DEF a
<1>4. ShareShape(a) /\ ShareBase(a)
  BY <1>1, <1>3, CalmsBase, CalmsShape
<1>5. /\ Calms(a, v) /\ v.run = O!NoRuntime /\ Disowned(v) /\ v.hosted = a.hosted /\ v.lapsed = a.lapsed
      /\ v.status = a.status
  BY <1>4, ShareTeardownCalms, SMTT(30)
<1> HIDE DEF v
<1>6. ShareShape(v) /\ ShareBase(v) /\ Calms(share, v) /\ v.flows[f].at = "none"
  BY <1>1, <1>3, <1>4, <1>5, CalmsBase, CalmsShape, CalmsTrans DEF Calms, Wanes
<1>7. /\ share'.flows[f] = w /\ \A g \in StoreFlow \ {f} : share'.flows[g] = v.flows[g]
      /\ SameUse(v, share') /\ share'.status = v.status
  BY <1>1, <1>2, <1>6, SharePutFacts
<1>8. ShareBase(share')
  <2>1. FlowShape(v, w)
    <3>1. v.next = share.next /\ 0 <= v.made
      BY <1>6, ShareTypes DEF Calms, Fixed
    <3> QED BY <1>1, <1>2, <3>1 DEF FlowShape, Private, Named, Begins
  <2>2. RecFits(v, f, w)
    BY <1>2 DEF RecFits
  <2>3. Fits(v, f, w)
    <3>1. v.flows[f].cap \notin v.live
      BY <1>1, <1>6, FreeSlot
    <3> QED BY <1>2, <3>1 DEF Fits, Private, Borne, Owned, Begins
  <2> QED BY <1>1, <1>2, <1>6, <2>1, <2>2, <2>3, SharePutBase
<1>9. ASSUME Sane(share') PROVE ShareWell(share')
  BY <1>3, <1>5, <1>6, <1>7, <1>1, <1>9, FreeSlot, SaneBefore, <1>2, AloneSingle DEF SameUse, Calms,
     Disowned, O!NoRuntime, ShareInv, ShareWell, Sound, Expects, Starts, Begins
<1> QED BY <1>8, <1>9 DEF ShareInv

LEMMA ShareStoppedStep == ASSUME ShareInv(share), NEW f \in StoreFlow, O!Stopped(f) PROVE ShareInv(share')
<1> DEFINE v == O!Cross(share, f)
           s == O!StopHosted(v, share.flows[f].sid)
           l == O!Lapse(share)
           Over(x) == share' = O!Show(O!Free(x, f), "none", 0)
<1>1. /\ ShareShape(share) /\ ShareBase(share) /\ share.flows[f].at = "stop" /\ share.flows[f].sid # 0
      /\ share.flows[f].cap = 0
  BY DEF O!Stopped, O!At, ShareInv, ShareBase, ShareShape, FlowShape, Named
<1>2. /\ Calms(share, v) /\ SameRun(share, v) /\ v.flows = share.flows
      /\ ~v.lapsed => ~share.lapsed /\ share.flows[f].own
  BY <1>1, ShareCrossCalms
<1>3. (O!Broken(f) /\ Over(v)) \/ Over(s) \/ Over(l)
  BY DEF O!Stopped
<1> HIDE DEF v
<1>4. ShareShape(v) /\ ShareBase(v)
  BY <1>1, <1>2, CalmsBase, CalmsShape
<1>5. Calms(v, s) /\ (share.flows[f].sid # 0 /\ v.hosted \in {0, share.flows[f].sid} => s.hosted = 0)
  BY <1>4, StopHostedCalms
<1>6. Calms(share, l) /\ l.lapsed
  BY <1>1, LapseCalms DEF O!Lapse
<1> HIDE DEF s, l
<1>7. ASSUME NEW x, Over(x), Calms(share, x) PROVE ShareBase(share') /\ Gone(x, f, share')
  BY <1>1, <1>7, CalmsBase, GoneFacts DEF Calms, Wanes, ShareBase, ShareShape, RunShape
<1>8. ASSUME NEW x, Over(x), Calms(share, x), x.hosted = 0 \/ ~Sane(share),
             x.lapsed \/ share.flows[f].own
      PROVE  ShareInv(share')
  <2>1. ShareBase(share') /\ Gone(x, f, share')
    BY <1>7, <1>8
  <2>2. ASSUME Sane(share') PROVE Absent(share')
    <3>1. share.flows[f].own /\ ~Doomed(share, share.flows[f]) /\ (share.lapsed => share'.lapsed)
          /\ share'.hosted \in {share.hosted, 0}
      BY <1>1, <1>8, <2>1, <2>2 DEF Gone, Sane, Doomed, Calms
    <3>2. \A g \in StoreFlow \ {f} : Wanes(share.flows[g], share'.flows[g])
      BY <1>8, <2>1 DEF Gone, Calms, Wanes
    <3>3. Sane(share)
      BY <1>1, <2>2, <3>1, <3>2, SaneBefore
    <3>4. share.run.sid = 0 /\ x.hosted = 0
      BY <1>1, <1>8, <3>1, <3>3, Expected DEF Expects
    <3>5. x.run.sid = 0
      BY <1>8, <3>4 DEF Calms, O!NoRuntime
    <3> QED BY <2>1, <3>4, <3>5 DEF Gone, Absent
  <2> QED BY <2>1, <2>2, AbsentWell DEF ShareInv
<1>9. CASE O!Broken(f) /\ Over(v)
  <2>1. v.hosted = 0
    BY <1>1, <1>2, <1>9 DEF O!Broken, ShareShape, RunShape, SameRun
  <2>2. v.lapsed \/ share.flows[f].own
    BY <1>2
  <2> HIDE DEF Over
  <2> QED BY <1>2, <1>8, <1>9, <2>1, <2>2
<1>10. CASE Over(s)
  <2>1. Calms(share, s)
    BY <1>1, <1>2, <1>5, CalmsTrans
  <2>2. s.lapsed \/ share.flows[f].own
    BY <1>2, <1>5 DEF Calms
  <2>3. CASE s.lapsed
    <3>1. ShareBase(share') /\ share'.lapsed
      <4> HIDE DEF Over
      <4> QED BY <1>7, <1>10, <2>1, <2>3 DEF Gone
    <3> QED BY <3>1 DEF ShareInv, Sane
  <2>4. CASE ~s.lapsed
    <3>1. share.flows[f].own
      BY <2>2, <2>4
    <3>2. s.hosted = 0 \/ ~Sane(share)
      BY <1>1, <3>1, Expected, <1>2, <1>5 DEF Expects, SameRun
    <3> HIDE DEF Over
    <3> QED BY <1>8, <1>10, <2>1, <3>1, <3>2
  <2> QED BY <2>3, <2>4
<1>11. CASE Over(l)
  <2>1. ShareBase(share') /\ share'.lapsed
    <3> HIDE DEF Over
    <3> QED BY <1>6, <1>7, <1>11 DEF Gone
  <2> QED BY <2>1 DEF ShareInv, Sane
<1> QED BY <1>3, <1>9, <1>10, <1>11

LEMMA CaptureEndsStep ==
  ASSUME ShareInv(share), NEW c \in O!Cap, O!CaptureEnds(c) PROVE ShareInv(share')
<1> DEFINE l == share.live \ {c}
           v == [share EXCEPT !.live = l]
           a == O!ResolveRecovery(v, v.run.sid)
           t == O!TeardownOwned(a)
           x == O!Show(t, "none", 0)
           ours == c \in v.watched /\ v.run.cap = c /\ v.run.sid # 0 /\ v.status # "stopping"
<1>1. /\ ShareShape(share) /\ ShareBase(share) /\ share \in O!ShareRec /\ share.run.sid \in O!Sid
      /\ share' = IF ours THEN O!StopHosted(x, v.run.sid) ELSE O!Lapse(v)
  BY ShareTypes DEF O!CaptureEnds, ShareInv, ShareBase, O!RuntimeRec
<1>2. /\ v \in O!ShareRec /\ Fixed(share, v) /\ v.run = share.run /\ v.live = l /\ v.hosted = share.hosted
      /\ v.recovery = share.recovery /\ v.lapsed = share.lapsed /\ v.flows = share.flows
  <2>1. l \subseteq O!Cap
    BY <1>1, ShareTypes
  <2> HIDE DEF l
  <2> QED BY <1>1, <2>1 DEF O!ShareRec, Fixed
<1> HIDE DEF v
<1>3. ShareShape(v) /\ ShareReports(v)
  BY <1>1, <1>2 DEF ShareShape, RunShape, Fixed, FlowShape, ShareBase, ShareReports
<1>4. CASE ~ours
  <2>1. share' = O!Lapse(v)
    BY <1>1, <1>4
  <2>2. Calms(v, share') /\ share'.lapsed
    BY <1>3, <2>1, LapseCalms DEF O!Lapse
  <2>3. ShareShape(share') /\ ShareReports(share')
    BY <1>3, <2>2, CalmsShape, CalmsReports
  <2> QED BY <2>2, <2>3 DEF ShareInv, ShareBase, Sane
<1>5. CASE ours
  <2>1. v.run.cap = c /\ share.run.sid # 0 /\ share' = O!StopHosted(x, share.run.sid)
    BY <1>1, <1>2, <1>5
  <2>2. Calms(share, v)
    BY <1>1, <1>2, <2>1, ShareWanes DEF Calms, ShareShape, RunShape
  <2>3. Calms(v, a) /\ a.hosted = v.hosted
    BY <1>1, <1>2, <1>3, ShareResolveCalms
  <2> HIDE DEF a
  <2>4. ShareShape(a)
    BY <1>3, <2>3, CalmsShape
  <2>5. Calms(a, t) /\ t.run = O!NoRuntime /\ t.hosted = a.hosted
    BY <2>4, ShareTeardownCalms
  <2> HIDE DEF t
  <2>6. ShareShape(t)
    BY <2>4, <2>5, CalmsShape
  <2>7. Calms(t, x) /\ SameUse(t, x) /\ Disowned(x) /\ x.status = "none"
    BY <2>6, ShareConstants, ShowCalms DEF ShareWords
  <2> HIDE DEF x
  <2>8. ShareShape(x)
    BY <2>6, <2>7, CalmsShape
  <2>9. /\ Calms(x, share') /\ (share.run.sid # 0 /\ x.hosted \in {0, share.run.sid} => share'.hosted = 0)
        /\ (x.run.sid = 0 => share'.status = x.status)
    BY <2>1, <2>8, StopHostedCalms
  <2>10. Calms(share, share')
    BY <2>6, <2>7, <2>9, CalmsTrans, <2>4, <2>5, <1>3, <2>3, <1>1, <2>2
  <2>11. ShareBase(share')
    BY <1>1, <2>10, CalmsBase
  <2>12. ASSUME Sane(share') PROVE Absent(share')
    <3>1. Sound(share)
      BY <1>1, <2>1, <2>10, <2>12, SaneCalms DEF ShareInv, ShareWell
    <3>2. x.hosted = share.hosted /\ x.run.sid = 0
      BY <1>2, <2>3, <2>5, <2>7 DEF SameUse, O!NoRuntime
    <3>3. share'.hosted = 0 /\ share'.status = "none"
      BY <2>1, <2>7, <2>9, <3>1, <3>2 DEF Sound
    <3>4. share'.run.sid = 0 /\ Disowned(share')
      BY <2>7, <2>9, <3>2 DEF Calms, Disowned, Wanes, O!NoRuntime
    <3> QED BY <3>3, <3>4 DEF Absent
  <2> QED BY <2>11, <2>12, AbsentWell DEF ShareInv
<1> QED BY <1>4, <1>5

-----------------------------------------------------------------------------
(* The second camera.                                                      *)

\* A function beside the stream, one that changes the camera, comes and goes.
Beside(v, f, u) ==
  /\ u.status = v.status /\ u.run = v.run /\ u.hosted = v.hosted /\ u.link = v.link
  /\ \A t \in 1..MaxShares : u.recovery[t] = v.recovery[t]
  /\ \A g \in StoreFlow \ {f} : Wanes(v.flows[g], u.flows[g]) /\ (v.flows[g].own <=> u.flows[g].own)
  /\ \A g \in StoreFlow \ {f} : v.flows[g].own => v.flows[g].rec = u.flows[g].rec
  /\ v.flows[f].at \in {"none", "select", "swap"} /\ u.flows[f].at \in {"none", "select", "swap"}
  /\ ~v.flows[f].again
  /\ v.run.cap \in v.live => v.run.cap \in u.live
  /\ \A g \in StoreFlow \ {f} : v.flows[g].cap \in v.live => v.flows[g].cap \in u.live

LEMMA BesideWell ==
  ASSUME NEW v, ShareShape(v), ShareWell(v), NEW f \in StoreFlow, NEW u, Beside(v, f, u)
  PROVE  ShareWell(u)
BY DEF Beside, Expects, Begins, ShareWell, Single, Wanes, Mains, Mends, Sound, Due, Up, Starts

LEMMA BesideSane ==
  ASSUME NEW v, ShareShape(v), NEW f \in StoreFlow, NEW u, Beside(v, f, u), Sane(u), v.lapsed => u.lapsed
  PROVE  Sane(v)
BY SaneBefore DEF Beside, Doomed, Mains

LEMMA SelectCameraStep == ASSUME ShareInv(share), O!SelectCamera PROVE ShareInv(share')
<1> DEFINE f == O!Slot
           s == share.run.sid
           v == O!ResolveRecovery(share, s)
           b == v.lapsed \/ share.recovery[s] # O!NoRecovery
           x == [v EXCEPT !.made = @ + 1, !.lapsed = b]
           w == [O!NoFlow EXCEPT !.at = "select", !.cap = v.made + 1, !.sid = v.run.sid, !.own = TRUE]
<1>1. /\ ShareShape(share) /\ ShareBase(share) /\ s \in O!Sid /\ s # 0
      /\ f \in StoreFlow /\ share.flows[f].at = "none"
      /\ share.made + 1 \in O!Cap /\ share.made \in Nat
      /\ share' = O!Put(x, f, w)
  BY ShareSlot, ShareTypes, ClientAssumption
     DEF O!SelectCamera, ShareInv, ShareBase, O!RuntimeRec, O!Cap, ShareAssumption
<1>2. /\ Calms(share, v)
      /\ v.run = share.run /\ v.live = share.live /\ v.hosted = share.hosted /\ v.lapsed = share.lapsed
      /\ v.status = share.status
      /\ \A r \in 1..MaxShares : IF r = s THEN v.recovery[r] = O!NoRecovery ELSE v.recovery[r] = share.recovery[r]
      /\ \A g \in StoreFlow : /\ v.flows[g].own = share.flows[g].own
                              /\ v.flows[g].rec = IF share.flows[g].rec = s THEN 0 ELSE share.flows[g].rec
  <2> HIDE DEF s
  <2> QED BY <1>1, ShareResolveCalms
<1> HIDE DEF v, f
<1>3. ShareBase(v) /\ v \in O!ShareRec /\ v.made = share.made /\ v.flows[f].at = "none"
      /\ v.link = share.link
  BY <1>1, <1>2, CalmsBase DEF Calms, Fixed, Wanes
<1>4. b \in BOOLEAN /\ (v.lapsed => b) /\ (~b => share.recovery[s] = O!NoRecovery)
  BY <1>3, ShareTypes DEF ShareBase
<1> HIDE DEF b
<1>5. x \in O!ShareRec /\ MoreMade(v, x) /\ x.lapsed = b
  BY <1>1, <1>3, <1>4 DEF O!ShareRec, MoreMade
<1>6. /\ w \in O!FlowRec /\ w.at = "select" /\ w.cap = v.made + 1 /\ w.sid = s /\ w.own
      /\ w.rec = 0 /\ ~w.again
  BY <1>1, <1>2, <1>3, ShareNoFlow DEF O!FlowRec, O!NoFlow
<1> HIDE DEF x, w
<1>7. ShareBase(x) /\ Fits(x, f, w)
  BY <1>1, <1>3, <1>5, <1>6, MadeBase, NewCaptureFits
<1>8. /\ share'.flows[f] = w /\ \A g \in StoreFlow \ {f} : share'.flows[g] = x.flows[g]
      /\ SameUse(x, share') /\ share'.status = x.status /\ Fixed(x, share')
  BY <1>1, <1>6, <1>7, SharePutFacts DEF ShareBase
<1>9. ShareBase(share')
  BY <1>1, <1>2, <1>3, <1>5, <1>6, ShareTypes, <1>7, SharePutBase DEF MoreMade, Calms, Fixed,
     ShareShape, RunShape, FlowShape, Private, Named, Begins, RecFits
<1>10. ASSUME Sane(share') PROVE ShareWell(share')
  <2>1. share.recovery[s] = O!NoRecovery /\ s \in 1..MaxShares
    BY <1>1, <1>4, <1>5, <1>8, <1>10, ClientAssumption DEF Sane, SameUse, ShareAssumption, O!Sid
  <2>2. \A g \in StoreFlow : share.flows[g].rec # s
    BY <1>1, <2>1 DEF ShareBase, ShareReports, O!NoRecovery
  <2>3. \A r \in 1..MaxShares : v.recovery[r] = share.recovery[r]
    BY <1>2, <2>1
  <2>4. Beside(share, f, share')
    BY <1>2, <1>5, <1>8, <2>2, <1>1, <1>3, <2>3, <1>6 DEF MoreMade, Calms, ShareShape, FlowShape,
       SameUse, Fixed, Beside
  <2>5. share.lapsed => share'.lapsed
    BY <1>2, <1>4, <1>5, <1>8 DEF SameUse
  <2> QED BY <1>1, <1>10, <2>4, <2>5, BesideSane, BesideWell DEF ShareInv
<1> QED BY <1>9, <1>10 DEF ShareInv

LEMMA CameraGrantedStep ==
  ASSUME ShareInv(share), NEW f \in StoreFlow, O!CameraGranted(f) PROVE ShareInv(share')
<1>1. /\ ShareShape(share) /\ ShareBase(share) /\ share \in O!ShareRec /\ share.flows[f].at = "select"
      /\ share.flows[f].cap # 0 /\ ~share.flows[f].again /\ share.flows[f].sid # 0
      /\ share.flows[f].cap \in O!Cap /\ share.live \subseteq O!Cap
      /\ share.flows \in [StoreFlow -> O!FlowRec]
  BY ShareTypes DEF O!CameraGranted, O!At, ShareInv, ShareBase, ShareShape, FlowShape, Named, Private, O!FlowRec
<1>2. CASE share.run.sid # share.flows[f].sid
  <2>1. share' = O!Free(share, f)
    BY <1>2 DEF O!CameraGranted
  <2>2. /\ share'.flows[f] = O!NoFlow /\ \A g \in StoreFlow \ {f} : share'.flows[g] = share.flows[g]
        /\ Fixed(share, share') /\ SameUse(share, share') /\ share'.status = share.status
    BY <1>1, <2>1, ShareFreeFacts
  <2>3. ShareBase(share')
    BY <1>1, <2>1, ShareFreeBase DEF ShareBase, Held, Private
  <2>4. Beside(share, f, share') /\ share'.lapsed = share.lapsed
    BY <1>1, <2>2, ShareNoFlow, ShareWanes DEF Beside, SameUse, Fixed
  <2> QED BY <1>1, <2>3, <2>4, BesideSane, BesideWell DEF ShareInv
<1>3. CASE share.run.sid = share.flows[f].sid
  <2> DEFINE w == [share.flows[f] EXCEPT !.at = "swap"]
             fl == [share.flows EXCEPT ![f] = w]
             l == share.live \cup {share.flows[f].cap}
  <2>1. share' = [share EXCEPT !.live = l, !.flows = fl]
    BY <1>3 DEF O!CameraGranted
  <2>2. /\ w \in O!FlowRec /\ w.at = "swap" /\ w.cap = share.flows[f].cap /\ w.sid = share.flows[f].sid
        /\ w.rec = share.flows[f].rec /\ w.again = share.flows[f].again
    BY <1>1 DEF O!FlowRec
  <2> HIDE DEF w
  <2>3. /\ fl \in [StoreFlow -> O!FlowRec] /\ fl[f] = w /\ \A g \in StoreFlow \ {f} : fl[g] = share.flows[g]
        /\ l \subseteq O!Cap /\ share.live \subseteq l
    BY <1>1, <2>2
  <2> HIDE DEF fl, l
  <2>4. /\ share' \in O!ShareRec /\ Fixed(share, share') /\ share'.run = share.run
        /\ share'.hosted = share.hosted /\ share'.recovery = share.recovery /\ share'.lapsed = share.lapsed
        /\ share'.status = share.status /\ share'.live = l /\ share'.flows[f] = w
        /\ \A g \in StoreFlow \ {f} : share'.flows[g] = share.flows[g]
    BY <1>1, <2>1, <2>3 DEF O!ShareRec, Fixed
  <2>5. ShareBase(share')
    BY <1>1, <2>4, <2>2, PlacedReports, ShareWanes, GrantedHeld DEF ShareShape, RunShape, Fixed,
       FlowShape, l, Private, Named, Begins, ShareBase, RecFits, Owned
  <2>6. Beside(share, f, share')
    BY <1>1, <2>4, ShareWanes, <2>2, <2>3 DEF Beside, Fixed
  <2> QED BY <1>1, <2>4, <2>5, <2>6, BesideSane, BesideWell DEF ShareInv
<1> QED BY <1>2, <1>3

LEMMA CameraFailsStep ==
  ASSUME ShareInv(share), NEW f \in StoreFlow, O!CameraFails(f) PROVE ShareInv(share')
<1>1. /\ ShareShape(share) /\ ShareBase(share) /\ share.flows[f].at \in {"select", "swap"}
      /\ ~share.flows[f].again /\ share' = Released(share, f)
  BY DEF O!CameraFails, O!At, Released, ShareInv, ShareBase, ShareShape, FlowShape, Private
<1>2. /\ ShareBase(share') /\ Fixed(share, share') /\ share'.status = share.status
      /\ share'.run = share.run /\ share'.hosted = share.hosted /\ share'.lapsed = share.lapsed
      /\ share'.recovery = share.recovery /\ share'.live = share.live \ {share.flows[f].cap}
      /\ share'.flows[f].at = "none" /\ ~share'.flows[f].own
      /\ \A g \in StoreFlow \ {f} : share'.flows[g] = share.flows[g]
  BY <1>1, ReleasedFacts
<1>3. ASSUME Sane(share') PROVE ShareWell(share')
  BY <1>1, <1>2, <1>3, ShareWanes, BesideSane, BesideWell DEF ShareBase, Held, Private, Sane,
     Beside, Fixed, ShareInv
<1> QED BY <1>2, <1>3 DEF ShareInv

\* The runtime takes the other capture, and nothing else has to do with the old one.
Swaps(v, f, u) ==
  /\ u \in O!ShareRec /\ Fixed(v, u) /\ u.status = v.status /\ u.hosted = v.hosted
  /\ u.recovery = v.recovery
  /\ u.flows[f] = O!NoFlow /\ \A g \in StoreFlow \ {f} : u.flows[g] = v.flows[g]
  /\ u.live = v.live \ {v.run.cap}
  /\ u.run.sid = v.run.sid /\ u.run.cap = v.flows[f].cap
  /\ u.run.sent \in {v.run.sent, v.flows[f].cap}
  /\ ~u.lapsed => /\ ~v.lapsed /\ u.run.sent = IF v.run.sent = 0 THEN 0 ELSE v.flows[f].cap
                  /\ \A g \in StoreFlow \ {f} : v.flows[g].cap # v.run.cap

LEMMA SwapsBase ==
  ASSUME NEW v, ShareBase(v), NEW f \in StoreFlow, v.flows[f].at = "swap", v.run.sid # 0,
         NEW u, Swaps(v, f, u)
  PROVE  ShareBase(u)
<1> DEFINE c == v.flows[f].cap
<1>1. ShareShape(v) /\ c # 0 /\ c <= v.made /\ v.run.cap # 0
  BY DEF ShareBase, ShareShape, FlowShape, RunShape, Private
<1>2. ShareShape(u)
  <2>1. RunShape(u)
    BY <1>1 DEF ShareShape, RunShape, Swaps, Fixed
  <2>2. FlowShape(u, u.flows[f])
    BY <1>1, ShareNoFlow, ShareTypes DEF Swaps, FlowShape, Private, Named, Begins, Fixed
  <2>3. \A g \in StoreFlow \ {f} : FlowShape(u, u.flows[g])
    BY <1>1 DEF ShareShape, FlowShape, Swaps, Fixed
  <2> QED BY <2>1, <2>2, <2>3 DEF ShareShape, Swaps
<1>3. ShareReports(u)
  BY ShareNoFlow, PlacedReports DEF RecFits, Swaps, ShareBase
<1>4. ASSUME ~u.lapsed PROVE Held(u) /\ \A g \in StoreFlow : Owned(u, u.flows[g])
  <2>1. Held(v) /\ (\A g \in StoreFlow : Owned(v, v.flows[g]))
    BY <1>4 DEF ShareBase, Swaps
  <2>2. /\ c # v.run.cap /\ \A g \in StoreFlow \ {f} : v.flows[g].cap # c /\ v.flows[g].cap # v.run.cap
    BY <1>4, <2>1 DEF Held, Private, Swaps
  <2>3. u.live \subseteq {u.run.cap} \cup {u.flows[g].cap : g \in StoreFlow}
    <3> SUFFICES ASSUME NEW d \in u.live, d # c PROVE \E g \in StoreFlow : u.flows[g].cap = d
      BY DEF Swaps
    <3>1. PICK g \in StoreFlow : v.flows[g].cap = d
      BY <2>1 DEF Held, Swaps
    <3> QED BY <3>1 DEF Swaps
  <2>4. ASSUME NEW g \in StoreFlow, u.flows[g].at \in Private
        PROVE  /\ u.flows[g].cap # 0 /\ u.flows[g].cap # u.run.cap
               /\ u.flows[g].cap \in u.live <=> u.flows[g].at = "swap"
               /\ \A h \in StoreFlow \ {g} : u.flows[h].cap # u.flows[g].cap
    BY <2>4, ShareNoFlow, <2>1, <2>2 DEF Swaps, Private, Held
  <2>5. ASSUME NEW g \in StoreFlow, Borne(u.flows[g])
        PROVE  u.flows[g].cap = u.run.cap \/ u.flows[g].cap \notin u.live
    BY <2>5, ShareNoFlow, <2>1, <2>2 DEF Swaps, Borne, Held
  <2>6. ASSUME NEW g \in StoreFlow PROVE Owned(u, u.flows[g])
    BY ShareNoFlow, <2>1, <2>2, <1>1 DEF Swaps, Owned
  <2> QED BY <2>3, <2>4, <2>5, <2>6 DEF Held
<1> QED BY <1>2, <1>3, <1>4 DEF ShareBase

LEMMA SwapsWell ==
  ASSUME NEW v, ShareBase(v), ~v.lapsed, ShareWell(v), NEW f \in StoreFlow, v.flows[f].at = "swap",
         v.run.sid # 0, NEW u, Swaps(v, f, u), ~u.lapsed
  PROVE  ShareWell(u)
<1>1. ShareShape(v) /\ Held(v) /\ (\A g \in StoreFlow : Owned(v, v.flows[g]))
  BY DEF ShareBase
<1>2. Single(v) /\ Sound(v) /\ Due(v)
  BY DEF ShareWell
<1>3. /\ v.flows[f].cap \in v.live /\ v.flows[f].cap # v.run.cap /\ v.run.cap # 0
      /\ \A g \in StoreFlow \ {f} : v.flows[g].cap # v.run.cap
  BY <1>1 DEF Held, Private, ShareShape, RunShape, Swaps
<1>4. ASSUME NEW g \in StoreFlow \ {f}, v.flows[g].own PROVE v.flows[g].at \in {"select", "swap"}
  BY <1>1, <1>2, <1>4, <1>3, ShareTypes DEF Single, ShareShape, O!FlowRec, Expects, FlowShape,
     Begins, Private, Owned, O!Commands, O!Setups
<1>5. \A g \in StoreFlow : u.flows[g].own => u.flows[g].at \in {"select", "swap"}
  BY <1>4, ShareNoFlow DEF Swaps
<1>6. Single(u)
  BY <1>5 DEF Single, Expects, Begins, Mains
<1>7. Sound(u)
  BY <1>2, <1>3 DEF Sound, Swaps
<1>8. Due(u)
  BY <1>4, <1>3, <1>2 DEF Mends, Up, Swaps, Due, Fixed
<1> QED BY <1>6, <1>7, <1>8 DEF ShareWell, Swaps

LEMMA CameraSwappedStep ==
  ASSUME ShareInv(share), NEW f \in StoreFlow, O!CameraSwapped(f) PROVE ShareInv(share')
<1> DEFINE w == share.flows[f]
           v == O!Free(share, f)
<1>1. /\ ShareShape(share) /\ ShareBase(share) /\ share \in O!ShareRec /\ w.at = "swap"
      /\ w.cap # 0 /\ ~w.again /\ w.sid # 0 /\ w.cap \in O!Cap /\ share.live \subseteq O!Cap
      /\ share.run \in O!RuntimeRec /\ share.lapsed \in BOOLEAN /\ share.sfu \in BOOLEAN
  BY ShareTypes DEF O!CameraSwapped, O!At, ShareInv, ShareBase, ShareShape, FlowShape, Named, Private, O!FlowRec
<1>2. CASE share.run.sid # w.sid
  <2> DEFINE l == O!Lapse(share)
  <2>1. Calms(share, l) /\ l.lapsed
    BY <1>1, LapseCalms DEF O!Lapse
  <2>2. share' = O!Free(l, f)
    <3>1. share' = O!Lapse(v)
      BY <1>2 DEF O!CameraSwapped
    <3> QED BY <1>1, <3>1 DEF O!Lapse, O!Free, O!Put, O!ShareRec
  <2> HIDE DEF l
  <2>3. ShareBase(l)
    BY <1>1, <2>1, CalmsBase
  <2>4. ShareBase(share') /\ share'.lapsed
    BY <2>1, <2>2, <2>3, ShareFreeBase, ShareFreeFacts DEF ShareBase, SameUse
  <2> QED BY <2>4 DEF ShareInv, Sane
<1>3. CASE share.run.sid = w.sid
  <2> DEFINE l == v.live \ {v.run.cap}
             n == IF share.sfu \/ v.run.sent = 0 THEN v.run.sent ELSE w.cap
             r == [[v.run EXCEPT !.cap = w.cap] EXCEPT !.sent = n]
             b == v.lapsed \/ share.sfu \/ \E g \in StoreFlow : v.flows[g].cap = share.run.cap
  <2>1. /\ v \in O!ShareRec /\ v.flows[f] = O!NoFlow
        /\ \A g \in StoreFlow \ {f} : v.flows[g] = share.flows[g]
        /\ Fixed(share, v) /\ SameUse(share, v) /\ v.status = share.status
    BY <1>1, ShareFreeFacts
  <2>2. share' = [v EXCEPT !.live = l, !.run = r, !.lapsed = b]
    <3>1. share' = [v EXCEPT !.live = l, !.run.cap = w.cap, !.run.sent = n, !.lapsed = b]
      BY <1>3 DEF O!CameraSwapped
    <3> HIDE DEF v, n, b, l
    <3>2. v.run \in O!RuntimeRec
      BY <2>1 DEF O!ShareRec
    <3> QED BY <2>1, <3>1, <3>2 DEF O!ShareRec, O!RuntimeRec
  <2> HIDE DEF v
  <2>3. n \in O!Cap /\ n \in {share.run.sent, w.cap}
        /\ (~share.sfu => n = IF share.run.sent = 0 THEN 0 ELSE w.cap)
    BY <1>1, <2>1, ShareConstants DEF SameUse, O!RuntimeRec
  <2>4. r \in O!RuntimeRec /\ r.sid = share.run.sid /\ r.cap = w.cap /\ r.sent = n
    <3> HIDE DEF n
    <3> QED BY <1>1, <2>1, <2>3 DEF SameUse, O!RuntimeRec
  <2>5. /\ b \in BOOLEAN
        /\ ~b => ~share.lapsed /\ ~share.sfu /\ \A g \in StoreFlow \ {f} : share.flows[g].cap # share.run.cap
    BY <1>1, <2>1 DEF SameUse
  <2>6. l \subseteq O!Cap /\ l = share.live \ {share.run.cap}
    BY <1>1, <2>1 DEF SameUse
  <2> HIDE DEF n, r, b, l
  <2>7. /\ share' \in O!ShareRec /\ Fixed(v, share') /\ share'.status = v.status /\ share'.hosted = v.hosted
        /\ share'.recovery = v.recovery /\ share'.flows = v.flows /\ share'.live = l /\ share'.run = r
        /\ share'.lapsed = b
    BY <2>1, <2>2, <2>4, <2>5, <2>6 DEF O!ShareRec, Fixed
  <2>8. Swaps(share, f, share')
    BY <2>1, <2>3, <2>4, <2>5, <2>6, <2>7 DEF Swaps, Fixed, SameUse
  <2>9. ShareBase(share')
    BY <1>1, <1>3, <2>8, SwapsBase
  <2>10. ASSUME Sane(share') PROVE ShareWell(share')
    BY <1>1, <2>8, ShareWanes, <2>10, SaneBefore, <1>3, SwapsWell DEF Doomed, Mains, Swaps, Sane,
       ShareInv
  <2> QED BY <2>9, <2>10 DEF ShareInv
<1> QED BY <1>2, <1>3

-----------------------------------------------------------------------------
(* The publication, and the runtime that is set up for it.                 *)

\* What the gateway registers, before it tells of it.
Published(v, f, u) ==
  /\ u \in O!ShareRec /\ u.next = v.next + 1 /\ u.hosted = u.next
  /\ u.made = v.made /\ u.link = v.link /\ u.run = v.run /\ u.live = v.live
  /\ u.recovery = v.recovery /\ u.lapsed = v.lapsed /\ u.status = v.status
  /\ \A g \in StoreFlow \ {f} : u.flows[g] = v.flows[g]
  /\ u.flows[f].at = "started" /\ u.flows[f].sid = u.hosted
  /\ u.flows[f].cap = v.flows[f].cap /\ u.flows[f].again = v.flows[f].again
  /\ u.flows[f].own = v.flows[f].own /\ u.flows[f].rec = v.flows[f].rec

LEMMA PublishedFacts ==
  ASSUME NEW v, ShareBase(v), NEW f \in StoreFlow, v.flows[f].at = "start", v.link,
         NEW u, Published(v, f, u)
  PROVE  ShareShape(u) /\ ShareReports(u) /\ (~u.lapsed => Held(u))
<1>1. ShareShape(v)
  BY DEF ShareBase
<1>2. RunShape(u)
  BY <1>1, ShareTypes DEF ShareShape, RunShape, Published
<1>3. FlowShape(u, u.flows[f])
  BY <1>1, ShareTypes DEF ShareShape, FlowShape, Published, Private, Named, Begins
<1>4. ASSUME NEW g \in StoreFlow \ {f} PROVE FlowShape(u, u.flows[g])
  BY <1>1, ShareTypes DEF ShareShape, FlowShape, Published
<1>5. \A g \in StoreFlow : u.flows[g].rec = v.flows[g].rec /\ u.flows[g].cap = v.flows[g].cap
  BY DEF Published
<1>6. ShareReports(u)
  BY <1>5 DEF ShareBase, ShareReports, Published
<1>7. ASSUME ~u.lapsed PROVE Held(u)
  BY <1>7, <1>5 DEF ShareBase, Published, Held, Private, Borne
<1> QED BY <1>2, <1>3, <1>4, <1>6, <1>7 DEF ShareShape, Published

LEMMA PublishedWell ==
  ASSUME NEW v, ShareInv(v), NEW f \in StoreFlow, v.flows[f].at = "start",
         NEW u, Published(v, f, u), v.run.sid = 0, Sane(u)
  PROVE  ShareWell(u)
<1>1. ShareShape(v) /\ v.run.cap = 0 /\ v.flows[f].cap # 0
  BY DEF ShareInv, ShareBase, ShareShape, RunShape, FlowShape, Begins
<1>2. v.flows[f].own /\ ~v.lapsed
  BY DEF Sane, Doomed, Mains, Published
<1>3. ~v.flows[f].again
  BY <1>1, <1>2 DEF ShareInv, ShareBase, Owned
<1>4. Sane(v)
  BY <1>2, <1>1, ShareWanes, ShareTypes, SaneBefore DEF Doomed, Published
<1>5. Single(v)
  BY <1>4 DEF ShareInv, ShareWell
<1>6. ASSUME NEW g \in StoreFlow \ {f}, v.flows[g].own PROVE v.flows[g].at \in {"select", "swap"}
  BY <1>1, <1>2, <1>5, <1>6, ShareTypes DEF Single, ShareShape, Mains, O!FlowRec, Expects,
     FlowShape, Named, O!Commands, O!Setups
<1>7. Expects(u, u.flows[f]) /\ Starts(u.flows[f])
  BY <1>2, <1>5, <1>3 DEF Single, Expects, Published, Begins, Starts
<1>8. \A g \in StoreFlow \ {f} : u.flows[g].own => u.flows[g].at \in {"select", "swap"}
  BY <1>6 DEF Published
<1>9. Single(u)
  BY <1>8, <1>7 DEF Expects, Begins, Mains, Single
<1> QED BY <1>7, <1>9 DEF ShareWell, Published

LEMMA PublishStep ==
  ASSUME ShareInv(share), NEW f \in StoreFlow, O!Publish(f) PROVE ShareInv(share')
<1> DEFINE n == share.next + 1
           w == [share.flows[f] EXCEPT !.at = "started", !.sid = n]
           fl == [share.flows EXCEPT ![f] = w]
           x == [share EXCEPT !.next = n, !.hosted = n, !.flows = fl]
<1>1. /\ ShareShape(share) /\ ShareBase(share) /\ share \in O!ShareRec
      /\ share.flows \in [StoreFlow -> O!FlowRec] /\ share.flows[f] \in O!FlowRec
      /\ share.flows[f].at = "start" /\ share.link /\ share.next \in Nat
  BY ShareTypes DEF O!Publish, O!At, O!Calm, O!Broken, O!Commands, ShareInv, ShareBase, ShareShape
<1>2. n \in O!Sid
  BY <1>1, ClientAssumption DEF O!Publish, O!Sid, ShareAssumption
<1>3. share' = O!Reconcile(x)
  BY <1>1, ZenonT(30) DEF O!Publish, O!ShareRec
<1>4. /\ w \in O!FlowRec /\ w.at = "started" /\ w.sid = n /\ w.cap = share.flows[f].cap
      /\ w.again = share.flows[f].again /\ w.own = share.flows[f].own /\ w.rec = share.flows[f].rec
  BY <1>1, <1>2 DEF O!FlowRec, O!Commands
<1> HIDE DEF w
<1>5. fl \in [StoreFlow -> O!FlowRec] /\ fl[f] = w /\ \A g \in StoreFlow \ {f} : fl[g] = share.flows[g]
  BY <1>1, <1>4
<1>6. n = share.next + 1
  OBVIOUS
<1> HIDE DEF fl, n
<1>7. /\ x \in O!ShareRec /\ x.next = n /\ x.hosted = n /\ x.flows = fl
      /\ x.made = share.made /\ x.link = share.link /\ x.run = share.run /\ x.live = share.live
      /\ x.recovery = share.recovery /\ x.lapsed = share.lapsed /\ x.status = share.status
  BY <1>1, <1>2, <1>5 DEF O!ShareRec
<1> HIDE DEF x
<1>8. Published(share, f, x)
  BY <1>4, <1>5, <1>6, <1>7 DEF Published
<1>9. ShareShape(x) /\ ShareReports(x) /\ (~x.lapsed => Held(x))
  BY <1>1, <1>8, PublishedFacts
<1>10. CASE share.run.sid = 0
  <2>1. share' = x
    BY <1>3, <1>7, <1>9, <1>10, ReconcileCalms
  <2>2. ASSUME ~x.lapsed, NEW g \in StoreFlow PROVE Owned(x, x.flows[g])
    BY <1>1, <1>7, <2>2, <1>10, <1>8 DEF ShareBase, ShareShape, RunShape, FlowShape, Begins, Owned,
       Published
  <2>3. ShareBase(x)
    BY <1>9, <2>2 DEF ShareBase
  <2>4. Sane(x) => ShareWell(x)
    BY <1>1, <1>8, <1>10, PublishedWell
  <2> QED BY <2>1, <2>3, <2>4 DEF ShareInv
<1>11. CASE share.run.sid # 0
  <2>1. x.run.sid # 0 /\ x.hosted # x.run.sid
    BY <1>1, <1>6, <1>7, <1>11, ShareTypes DEF ShareShape, RunShape
  <2>2. Calms(x, share') /\ Disowned(share')
    BY <1>3, <1>9, <2>1, ReconcileCalms DEF TornDown
  <2>3. ShareShape(share') /\ ShareReports(share') /\ (~share'.lapsed => Held(share'))
    BY <2>2, <1>9, CalmsShape, CalmsReports, CalmsHeld DEF Calms
  <2>4. ShareBase(share')
    BY <2>2, <2>3 DEF ShareBase, Owned, Disowned
  <2>5. share'.flows[f].at = "started" /\ ~share'.flows[f].own
    BY <1>8, <2>2 DEF Calms, Wanes, Published, Disowned
  <2>6. ~Sane(share')
    BY <2>5 DEF Sane, Doomed, Mains
  <2> QED BY <2>4, <2>6 DEF ShareInv
<1> QED BY <1>10, <1>11

\* The runtime that a function which was answered sets up.
Taken(v, f, u) ==
  /\ u \in O!ShareRec /\ Fixed(v, u) /\ u.status = v.status /\ u.live = v.live
  /\ u.hosted = v.hosted /\ u.recovery = v.recovery
  /\ ~u.lapsed => ~v.lapsed /\ v.flows[f].own
  /\ \A g \in StoreFlow : /\ Wanes(v.flows[g], u.flows[g]) /\ ~u.flows[g].own
                          /\ u.flows[g].rec = v.flows[g].rec
  /\ u.run.sid = v.flows[f].sid /\ u.run.cap = v.flows[f].cap
  /\ u.run.sent = IF v.sfu THEN 0 ELSE v.flows[f].cap

LEMMA TakenBase ==
  ASSUME NEW v, ShareBase(v), NEW f \in StoreFlow, v.flows[f].at = "started", NEW u, Taken(v, f, u)
  PROVE  ShareBase(u)
BY DEF ShareBase, ShareShape, FlowShape, Begins, Named, RunShape, Taken, Fixed, Wanes, ShareReports,
   Owned, Borne, Held, Private

LEMMA TakenSound ==
  ASSUME NEW v, ShareInv(v), NEW f \in StoreFlow, v.flows[f].at = "started", v.flows[f].own,
         NEW u, Taken(v, f, u), Sane(v)
  PROVE  /\ ~v.flows[f].again /\ v.flows[f].cap \in v.live /\ v.hosted = v.flows[f].sid
         /\ v.status = "starting" /\ v.flows[f].sid # 0
BY DEF ShareInv, ShareBase, Sane, Owned, ShareShape, FlowShape, Named, ShareWell, Single, Expects

LEMMA StartedStep ==
  ASSUME ShareInv(share), NEW f \in StoreFlow, O!Started(f) PROVE ShareInv(share')
<1> DEFINE w == share.flows[f]
           c == O!Cross(share, f)
           t == O!Touch(c)
           run == [sid |-> w.sid, cap |-> w.cap, sent |-> IF share.sfu THEN 0 ELSE w.cap]
           wat == IF w.again THEN t.watched ELSE t.watched \cup {w.cap}
           v == [t EXCEPT !.run = run, !.watched = wat]
           x == IF w.again /\ v.status # "none" THEN [v EXCEPT !.sid = w.sid] ELSE v
<1>1. /\ ShareShape(share) /\ ShareBase(share) /\ w.at = "started" /\ share.sfu \in BOOLEAN
      /\ w.sid \in O!Sid /\ w.cap \in O!Cap
      /\ share' = IF share.sfu
                  THEN [x EXCEPT !.flows[f].at = "produce", !.flows[f].sfu = TRUE, !.flows[f].own = TRUE]
                  ELSE O!GoLive(x, f)
  BY ShareTypes DEF O!Started, O!At, ShareInv, ShareBase, O!FlowRec
<1>2. /\ Calms(share, c) /\ SameRun(share, c) /\ c.flows = share.flows /\ c.status = share.status
      /\ ~c.lapsed => ~share.lapsed /\ share.flows[f].own
  BY <1>1, ShareCrossCalms
<1> HIDE DEF c
<1>3. ShareShape(c)
  BY <1>1, <1>2, CalmsShape
<1>4. /\ Calms(c, t) /\ SameUse(c, t) /\ Disowned(t) /\ t.status = c.status
      /\ \A g \in StoreFlow : t.flows[g].rec = c.flows[g].rec
  BY <1>3, TouchCalms
<1> HIDE DEF t
<1>5. /\ run \in O!RuntimeRec /\ run.sid = w.sid /\ run.cap = w.cap
      /\ run.sent = IF share.sfu THEN 0 ELSE w.cap
  BY <1>1, ShareConstants DEF O!RuntimeRec
<1>6. t \in O!ShareRec /\ wat \subseteq O!Cap
  BY <1>1, <1>4 DEF Calms, O!ShareRec
<1> HIDE DEF run, wat
<1>7. /\ v \in O!ShareRec /\ v.run = run /\ v.flows = t.flows /\ Fixed(t, v) /\ v.status = t.status
      /\ v.live = t.live /\ v.hosted = t.hosted /\ v.recovery = t.recovery /\ v.lapsed = t.lapsed
  BY <1>5, <1>6 DEF O!ShareRec, Fixed
<1> HIDE DEF v
<1>8. /\ x \in O!ShareRec /\ x.run = run /\ x.flows = t.flows /\ Fixed(t, x) /\ x.status = t.status
      /\ x.live = t.live /\ x.hosted = t.hosted /\ x.recovery = t.recovery /\ x.lapsed = t.lapsed
  BY <1>1, <1>7 DEF O!ShareRec, Fixed
<1> HIDE DEF x, w
<1>9. Taken(share, f, x)
  BY <1>2, <1>4, <1>8, <1>5 DEF Calms, Disowned, Fixed, SameUse, Taken, SameRun, w
<1>10. ShareBase(x) /\ ShareShape(x) /\ x.flows[f].cap = x.run.cap /\ Disowned(x)
  BY <1>1, <1>9, TakenBase DEF w, Taken, Wanes, ShareBase, Disowned
<1>11. ASSUME Sane(share'), share'.lapsed = x.lapsed, share'.hosted = x.hosted,
              \A g \in StoreFlow \ {f} : Wanes(x.flows[g], share'.flows[g])
       PROVE  /\ w.own /\ ~w.again /\ x.run.cap \in x.live /\ x.hosted = x.run.sid
              /\ x.status = "starting" /\ x.run.sid # 0
  <2>1. w.own /\ ~Doomed(share, w) /\ (share.lapsed => share'.lapsed)
    BY <1>1, <1>9, <1>11 DEF Sane, Taken, Doomed, w
  <2>2. \A g \in StoreFlow \ {f} : Wanes(share.flows[g], share'.flows[g])
    BY <1>9, <1>11 DEF Taken, Wanes
  <2>3. Sane(share)
    <3>1. /\ ShareShape(share) /\ share'.hosted \in {share.hosted, 0} /\ Sane(share')
          /\ ~Doomed(share, share.flows[f])
      BY <1>1, <1>9, <1>11, <2>1 DEF Taken, w
    <3> QED BY ONLY <2>1, <2>2, <3>1, f \in StoreFlow, SaneBefore
  <2> QED BY <1>1, <1>9, <2>1, <2>3, TakenSound DEF Taken, w
<1>12. CASE share.sfu
  <2> DEFINE p == [x.flows[f] EXCEPT !.at = "produce", !.sfu = TRUE, !.own = TRUE]
  <2>1. share' = O!Put(x, f, p)
    <3>1. share' = [x EXCEPT !.flows[f].at = "produce", !.flows[f].sfu = TRUE, !.flows[f].own = TRUE]
      BY <1>1, <1>12
    <3>2. x.flows \in [StoreFlow -> O!FlowRec] /\ x.flows[f] \in O!FlowRec
      BY <1>10, ShareTypes
    <3> QED BY <1>10, <3>1, <3>2 DEF O!Put, O!ShareRec, O!FlowRec
  <2>2. /\ p \in O!FlowRec /\ p.at = "produce" /\ p.own /\ p.cap = x.run.cap /\ p.sid = x.run.sid
        /\ p.rec = x.flows[f].rec /\ p.again = share.flows[f].again
    <3>1. x.flows[f] \in O!FlowRec
      BY <1>10, ShareTypes
    <3>2. x.flows[f].sid = x.run.sid /\ x.flows[f].again = share.flows[f].again
      BY <1>9 DEF Taken, Wanes
    <3> QED BY <1>10, <3>1, <3>2 DEF O!FlowRec, O!Setups
  <2> HIDE DEF p
  <2>3. /\ share'.flows[f] = p /\ \A g \in StoreFlow \ {f} : share'.flows[g] = x.flows[g]
        /\ SameUse(x, share') /\ share'.status = x.status /\ Fixed(x, share')
    BY <1>10, <2>1, <2>2, SharePutFacts
  <2>4. ShareBase(share')
    <3>1. FlowShape(x, p)
      BY <1>1, <1>9, <1>10, <2>2 DEF ShareShape, RunShape, Taken, FlowShape, Named, w, Private,
         Begins
    <3>2. RecFits(x, f, p)
      BY <2>2 DEF RecFits
    <3>3. ~x.lapsed => Fits(x, f, p)
      BY <1>1, <1>9, <1>10, <2>2 DEF Taken, ShareBase, Owned, w, Fits, Private, Begins
    <3> QED BY <1>10, <2>1, <2>2, <3>1, <3>2, <3>3, SharePutBase
  <2>5. ASSUME Sane(share') PROVE ShareWell(share')
    BY <2>3, <1>10, ShareWanes, <1>11, <2>5, <2>2, AloneSingle, <1>9, <1>12 DEF SameUse, w, Expects,
       Begins, Mends, Disowned, Taken, Sound, Due, ShareWell
  <2> QED BY <2>4, <2>5 DEF ShareInv
<1>13. CASE ~share.sfu
  BY <1>1, <1>10, <1>13, GoLiveFacts, <1>11, <1>9, UpWell DEF WentLive, Taken, Sound, Up, ShareInv
<1> QED BY <1>1, <1>12, <1>13

-----------------------------------------------------------------------------

LEMMA ShareStarts == ASSUME O!Init PROVE ShareInv(share)
<1> DEFINE fl == [f \in StoreFlow |-> O!NoFlow]
           rs == [s \in 1..MaxShares |-> O!NoRecovery]
<1>1. /\ fl \in [StoreFlow -> O!FlowRec] /\ \A f \in StoreFlow : fl[f] = O!NoFlow
      /\ rs \in [1..MaxShares -> O!RecoveryRec]
      /\ \A s \in 1..MaxShares : rs[s].attempt = "none" /\ rs[s].phase = "none"
  BY ShareNoFlow DEF O!NoRecovery, O!RecoveryRec
<1>2. O!NoRuntime \in O!RuntimeRec
  BY ShareConstants DEF O!NoRuntime, O!RuntimeRec
<1>3. share \in [status: {"none"}, sid: {0}, run: {O!NoRuntime}, live: {{}}, made: {0},
                 watched: {{}}, camera: {FALSE}, flows: {fl}, recovery: {rs},
                 link: {TRUE}, hosted: {0}, next: {0}, sfu: BOOLEAN, lapsed: {FALSE}]
  BY DEF O!Init
<1> HIDE DEF fl, rs
<1>4. share \in O!ShareRec
  BY <1>1, <1>2, <1>3, ShareConstants DEF O!ShareRec, ShareWords
<1>5. /\ share.status = "none" /\ share.run = O!NoRuntime /\ share.live = {} /\ share.made = 0
      /\ share.flows = fl /\ share.recovery = rs /\ share.hosted = 0 /\ share.next = 0
  BY <1>3
<1>6. RunShape(share)
  BY <1>5 DEF RunShape, O!NoRuntime
<1>7. \A f \in StoreFlow : FlowShape(share, share.flows[f])
  BY <1>1, <1>5, ShareNoFlow DEF FlowShape, Private, Named, Begins
<1>8. ShareReports(share)
  BY <1>1, <1>5, ShareNoFlow DEF ShareReports
<1>9. Held(share)
  BY <1>1, <1>5, ShareNoFlow DEF Held, Private
<1>10. \A f \in StoreFlow : Owned(share, share.flows[f])
  BY <1>1, <1>5, ShareNoFlow DEF Owned
<1>11. ShareBase(share)
  BY <1>4, <1>6, <1>7, <1>8, <1>9, <1>10 DEF ShareBase, ShareShape
<1>12. Absent(share)
  BY <1>1, <1>5, ShareNoFlow DEF Absent, Disowned, O!NoRuntime
<1> QED BY <1>11, <1>12, AbsentWell DEF ShareInv

\* The steps of the functions that are under way.
ShareFlowStep(f) ==
  \/ O!CaptureGranted(f) \/ O!CaptureDenied(f) \/ O!Publish(f) \/ O!StartRefused(f)
  \/ O!StartUnanswered(f) \/ O!Started(f) \/ O!Produced(f) \/ O!ProduceFails(f) \/ O!Undone(f)
  \/ O!Stopped(f) \/ O!CameraGranted(f) \/ O!CameraSwapped(f) \/ O!CameraFails(f)
  \/ O!RecoveryFails(f) \/ O!Reconnect(f) \/ O!Rebuilt(f)

ShareClientStep ==
  \/ O!Start \/ O!Stop \/ O!SelectCamera \/ O!Drop \/ O!Reconnected \/ O!Disconnected
  \/ O!ModeUpdated \/ O!StateUpdated \/ O!Unpublished \/ O!ConnectionFails \/ O!Abandon

LEMMA ShareFlowSteps ==
  ASSUME ShareInv(share), NEW f \in StoreFlow, ShareFlowStep(f) PROVE ShareInv(share')
BY CaptureGrantedStep, CaptureDeniedStep, PublishStep, StartRefusedStep, StartUnansweredStep,
   StartedStep, ProducedStep, ProduceFailsStep, UndoneStep, ShareStoppedStep, CameraGrantedStep,
   CameraSwappedStep, CameraFailsStep, RecoveryFailsStep, ReconnectStep, RebuiltStep DEF
   ShareFlowStep

LEMMA ShareClientSteps == ASSUME ShareInv(share), ShareClientStep PROVE ShareInv(share')
BY ShareStartStep, ShareStopStep, SelectCameraStep, DropStep, ReconnectedStep,
   ShareDisconnectedStep, ShareModeUpdatedStep, StateUpdatedStep, UnpublishedStep,
   ConnectionFailsStep, AbandonStep DEF ShareClientStep

LEMMA ShareNext == ASSUME ShareInv(share), [O!Next]_(O!shareVars) PROVE ShareInv(share')
BY ShareClientSteps, ShareFlowSteps, CaptureEndsStep, ShareRetryStep DEF O!shareVars, O!Next,
   ShareClientStep, ShareFlowStep

ShareHolding == ShareInv(share)

LEMMA ShareInvariant == O!Spec => []ShareHolding
<1>1. O!Init => ShareHolding
  BY ShareStarts DEF ShareHolding
<1>2. ShareHolding /\ [O!Next]_(O!shareVars) => ShareHolding'
  BY ShareNext DEF ShareHolding
<1> QED BY <1>1, <1>2, PTL DEF O!Spec

LEMMA ShareReleases == ShareHolding => CaptureReleased
BY DEF ShareHolding, ShareInv, ShareBase, Held, CaptureReleased, O!CaptureReleased

LEMMA ShareSettles == ShareHolding => SettledIsServed
<1> SUFFICES ASSUME ShareHolding, ~share.lapsed, share.link,
                    \A f \in StoreFlow : share.flows[f].at = "none",
                    \A s \in 1..MaxShares : share.recovery[s] = O!NoRecovery
             PROVE  /\ share.hosted = share.run.sid
                    /\ share.status = IF share.run.sid = 0 THEN "none" ELSE "live"
                    /\ share.run.sent = share.run.cap
                    /\ share.live = {share.run.cap} \ {0}
  BY DEF SettledIsServed, O!SettledIsServed, O!At
<1>1. ShareShape(share) /\ Held(share)
  BY DEF ShareHolding, ShareInv, ShareBase
<1>2. \A f \in StoreFlow : ~share.flows[f].own /\ share.flows[f].cap = 0 /\ ~Doomed(share, share.flows[f])
  BY <1>1, FreeSlot
<1>3. ShareWell(share)
  BY <1>2 DEF ShareHolding, ShareInv, Sane
<1>4. \A f \in StoreFlow : ~Starts(share.flows[f]) /\ ~Mends(share.flows[f])
  BY <1>2 DEF Starts, Mends
<1>5. \A s \in 1..MaxShares : share.recovery[s].attempt = "none"
  BY DEF O!NoRecovery
<1>6. share.live \subseteq {share.run.cap} \ {0}
  BY <1>1, <1>2 DEF Held, ShareShape, RunShape
<1>7. CASE share.run.sid = 0
  BY <1>1, <1>3, <1>4, <1>6, <1>7 DEF ShareWell, ShareShape, RunShape
<1>8. CASE share.run.sid # 0
  BY <1>3, <1>4, <1>5, <1>8, <1>6 DEF ShareWell, Due, Sound, Up
<1> QED BY <1>7, <1>8

\* stream-store.ts stops the tracks of a capture in every path that leaves it
\* without a stream: a capture that runs is the published one's, or of a
\* function that has not finished with it, until an outcome of one function has
\* landed on another's stream (crossed).
THEOREM CaptureReleasedTheorem == O!Spec => []CaptureReleased
BY ShareInvariant, ShareReleases, PTL

\* Once nothing is under way the stream is gone everywhere, or live, registered
\* at the gateway and sent from a capture that runs, as long as the share has not
\* lapsed: a drop or a mode change met no function of the stream, no live
\* publication was restored, and no outcome landed on another's stream.
THEOREM SettledIsServedTheorem == O!Spec => []SettledIsServed
BY ShareInvariant, ShareSettles, PTL
=============================================================================
