----------------------------- MODULE MusicShare -----------------------------
(***************************************************************************)
(* The music a client shares and listens to: features/music/music-store.ts,*)
(* with the retries of features/recovery/recovery-store.ts and what the    *)
(* gateway answers to music.start, music.stop, music.listen and            *)
(* media.session.reconnect.  The store runs on one thread; a Flow is one of*)
(* its asynchronous functions between two awaits.                          *)
(*                                                                         *)
(* One other member of the voice channel shares music too, one publication *)
(* (air) after the other; whatever a member shares is listened to without  *)
(* being asked for.  The gateway tells the channel of every change before  *)
(* it answers the command that made it, and refuses the commands of a      *)
(* client that has not joined the channel again.  Signals, candidates,     *)
(* volumes, several listeners, the timers that find a connection failed    *)
(* and the fallback for gateways without media.session.reconnect are left  *)
(* out.                                                                    *)
(***************************************************************************)
EXTENDS FiniteSets, Naturals

CONSTANTS
  Flow,         \* asynchronous functions under way at once
  MaxSessions,  \* bound: publications of this client
  MaxAirs,      \* bound: publications of the other member
  MaxFaults     \* bound: drops, refusals, timeouts, failed setups, ended captures

VARIABLES
  music,   \* the store, its module's runtimes and the gateway's side: MusicRec
  faults

musicVars == <<music, faults>>

Sid == 0..MaxSessions     \* 0: null; also the capture it is made of
Air == 0..MaxAirs

Status == {"none", "capturing", "starting", "reconnecting", "live", "stopping"}
Entry == {"none", "starting", "reconnecting", "listening"}
\* listeningRuntimes: none, one without transport, one that receives.
Runtime == {"none", "idle", "served"}

Hosting == {"capture", "start", "started", "produce", "stop", "reconnect", "rebuild"}
Listening == {"listen", "listened", "consume", "rejoin", "reconsume"}
Setups == {"produce", "rebuild", "consume", "reconsume"}
Commands == (Hosting \cup Listening) \ (Setups \cup {"capture"})

FlowRec == [at: {"none"} \cup Hosting \cup Listening,
            cap: Sid, sid: Sid,
            id: Sid,          \* the runtime's musicId, when it restores
            air: Air,
            sfu: BOOLEAN,     \* the media mode of its ack
            again: BOOLEAN,   \* a restore by handleGatewayReconnected, or a viewer known already
            own: BOOLEAN,     \* nobody changed what it works on since it did
            rec: Sid,         \* the recovery of a publication it reports to
            lrec: Air]        \* the recovery of a playback it reports to

RecoveryRec == [attempt: {"none", "media", "restore"}, phase: {"none", "running", "timer"}]

MusicRec == [status: Status,              \* publishedMusic.status, none: null
             run: [sid: Sid, cap: Sid, sent: BOOLEAN],   \* publishedRuntime
             live: SUBSET Sid,            \* captures whose track runs
             made: Sid,
             recovery: [1..MaxSessions -> RecoveryRec],
             hosted: Sid,                 \* the publication the gateway has
             next: Sid,
             entry: [1..MaxAirs -> Entry],       \* listeningById
             heard: [1..MaxAirs -> Runtime],
             lrecovery: [1..MaxAirs -> RecoveryRec],
             room: Air,                   \* the other's in roomStateByChannel
             air: Air,                    \* the other's at the gateway
             aired: Air,
             audience: SUBSET Air,        \* where this connection is a listener
             missed: SUBSET Air,          \* listening failed, and no event came since
             flows: [Flow -> FlowRec],
             link: BOOLEAN,               \* the gateway connection is ready
             joined: BOOLEAN,             \* it has joined the voice channel
             sfu: BOOLEAN,                \* the gateway's media mode
             lapsed: BOOLEAN]             \* see Lapse

NoFlow == [at |-> "none", cap |-> 0, sid |-> 0, id |-> 0, air |-> 0, sfu |-> FALSE, again |-> FALSE,
           own |-> FALSE, rec |-> 0, lrec |-> 0]
NoRecovery == [attempt |-> "none", phase |-> "none"]
NoRuntime == [sid |-> 0, cap |-> 0, sent |-> FALSE]

TypeOK ==
  /\ music \in MusicRec
  /\ faults \in 0..MaxFaults

Init ==
  /\ \E sfu \in BOOLEAN :
       music = [status |-> "none", run |-> NoRuntime, live |-> {}, made |-> 0,
                recovery |-> [s \in 1..MaxSessions |-> NoRecovery], hosted |-> 0, next |-> 0,
                entry |-> [a \in 1..MaxAirs |-> "none"], heard |-> [a \in 1..MaxAirs |-> "none"],
                lrecovery |-> [a \in 1..MaxAirs |-> NoRecovery],
                room |-> 0, air |-> 0, aired |-> 0, audience |-> {}, missed |-> {},
                flows |-> [f \in Flow |-> NoFlow], link |-> TRUE, joined |-> TRUE, sfu |-> sfu,
                lapsed |-> FALSE]
  /\ faults = 0

-----------------------------------------------------------------------------
(* The functions the handlers share, on a MusicRec.                        *)

Free(v, f) == [v EXCEPT !.flows[f] = NoFlow]
Idle(v) == {f \in Flow : v.flows[f].at = "none"}

\* What no function of the store guards against: see the README.
Lapse(v) == [v EXCEPT !.lapsed = TRUE]
Cross(v, f) == IF v.flows[f].own THEN v ELSE Lapse(v)

Disown(v, Mine(_)) ==
  [v EXCEPT !.flows = [f \in Flow |-> IF Mine(v.flows[f]) THEN [v.flows[f] EXCEPT !.own = FALSE]
                                      ELSE v.flows[f]]]
Touch(v) == LET Mine(flow) == flow.at \in Hosting IN Disown(v, Mine)
TouchAir(v, a) == LET Mine(flow) == flow.air = a IN Disown(v, Mine)

Show(v, status) == [Touch(v) EXCEPT !.status = status]
ShowIfAny(v, status) == IF v.status = "none" THEN v ELSE Show(v, status)
SetEntry(v, a, status) == [TouchAir(v, a) EXCEPT !.entry[a] = status]
UpdateEntry(v, a, status) == IF v.entry[a] = "none" THEN v ELSE SetEntry(v, a, status)

\* resolveMediaRecovery, of a publication and of a playback.
Resolve(v, s) ==
  [v EXCEPT !.recovery[s] = NoRecovery,
            !.flows = [f \in Flow |-> IF v.flows[f].rec = s THEN [v.flows[f] EXCEPT !.rec = 0]
                                      ELSE v.flows[f]]]
ResolveAir(v, a) ==
  [v EXCEPT !.lrecovery[a] = NoRecovery,
            !.flows = [f \in Flow |-> IF v.flows[f].lrec = a THEN [v.flows[f] EXCEPT !.lrec = 0]
                                      ELSE v.flows[f]]]

\* teardownPublishedRuntime and teardownListeningRuntime.  The recovery that goes
\* with a publication may be the one that would have restored the playbacks.
Teardown(v) ==
  IF v.run.sid = 0 THEN v
  ELSE [Touch(Resolve(v, v.run.sid)) EXCEPT
          !.live = @ \ {v.run.cap}, !.run = NoRuntime,
          !.lapsed = \/ @ \/ /\ v.recovery[v.run.sid].attempt = "restore"
                             /\ \E a \in 1..MaxAirs : v.heard[a] # "none"]
TeardownAir(v, a) == [TouchAir(ResolveAir(v, a), a) EXCEPT !.heard[a] = "none"]
DropAir(v, a) == SetEntry(TeardownAir(v, a), a, "none")

\* The attempt of the flow f threw, or was done; a cancelled one reports to nobody.
Report(v, flow, ok) ==
  LET phase(r, mine) == IF ~mine THEN r
                        ELSE IF ok THEN NoRecovery ELSE [r EXCEPT !.phase = "timer"]
  IN [v EXCEPT !.recovery = [s \in 1..MaxSessions |-> phase(v.recovery[s], s = flow.rec)],
               !.lrecovery = [a \in 1..MaxAirs |-> phase(v.lrecovery[a], a = flow.lrec)]]

\* listenToMusic up to its command.
BeginListen(v, f, a, lrec) ==
  IF v.heard[a] # "none" THEN v
  ELSE [SetEntry(v, a, "starting") EXCEPT
          !.flows[f] = [NoFlow EXCEPT !.at = "listen", !.air = a, !.own = TRUE, !.lrec = lrec]]

\* reconcilePublishedMusic: `live' is set whatever the transport does.
ReconcilePublished(v) ==
  IF v.run.sid = 0 THEN v
  ELSE IF v.hosted # v.run.sid THEN Show(Teardown(v), "none")
  ELSE IF v.status = "none" THEN v ELSE [v EXCEPT !.status = "live"]

\* Mutant of ReconcileListening: music that is over is still heard.
ReconcileListeningKeeps(v) ==
  LET on == {a \in 1..MaxAirs : /\ v.heard[a] # "none" /\ v.entry[a] # "none"
                                /\ a = v.air /\ a \in v.audience}
  IN [v EXCEPT !.entry = [a \in 1..MaxAirs |-> IF a \in on THEN "listening" ELSE @[a]]]

\* reconcileListeningMusic, for the runtimes there are.
ReconcileListening(v) ==
  LET over == {a \in 1..MaxAirs : /\ v.heard[a] # "none" /\ v.entry[a] # "starting"
                                  /\ ~(a = v.air /\ a \in v.audience)}
      on == {a \in 1..MaxAirs : /\ v.heard[a] # "none" /\ v.entry[a] # "none"
                                /\ a = v.air /\ a \in v.audience}
      Mine(flow) == flow.air \in over
  IN [Disown(v, Mine) EXCEPT
        !.heard = [a \in 1..MaxAirs |-> IF a \in over THEN "none" ELSE @[a]],
        !.entry = [a \in 1..MaxAirs |-> CASE a \in over -> "none"
                                          [] a \in on -> "listening"
                                          [] a \notin over \cup on -> @[a]],
        !.lrecovery = [a \in 1..MaxAirs |-> IF a \in over THEN NoRecovery ELSE @[a]],
        !.flows = [f \in Flow |-> IF v.flows[f].lrec \in over THEN [@[f] EXCEPT !.lrec = 0] ELSE @[f]]]

\* handleMusicStateUpdated: what is new is listened to.  An event that ends the
\* publication before its own answer is ignored.
NeedsFlow(v) == v.air # 0 /\ v.heard[v.air] = "none" /\ v.entry[v.air] = "none"
Told(v) ==
  LET ignored == \E f \in Flow : /\ v.flows[f].at \in {"listened", "consume"}
                                 /\ ~(v.flows[f].air = v.air /\ v.air \in v.audience)
      known == [v EXCEPT !.room = v.air, !.missed = {}, !.lapsed = @ \/ ignored]
  IN ReconcileListening(ReconcilePublished(known))
StateUpdated(v) ==
  LET told == Told(v)
  IN IF NeedsFlow(told) THEN BeginListen(told, CHOOSE f \in Idle(told) : TRUE, told.air, 0) ELSE told
CanHear(v) == NeedsFlow(Told(v)) => Idle(v) # {}

\* attemptPublishedMusicRecovery and attemptListeningMusicRecovery up to their
\* command.  What has ended meanwhile is given up; the gateway is not told.
BeginReconnect(v, f, s) ==
  IF v.run.cap \in v.live
  THEN [v EXCEPT !.flows[f] = [NoFlow EXCEPT !.at = "reconnect", !.cap = v.run.cap, !.sid = v.run.sid,
                                             !.own = TRUE, !.rec = s]]
  ELSE [Show(Teardown(v), "none") EXCEPT !.recovery[s] = NoRecovery, !.lapsed = @ \/ v.run.sid # 0]
BeginRejoin(v, f, a) ==
  IF v.heard[a] # "none"
  THEN [v EXCEPT !.flows[f] = [NoFlow EXCEPT !.at = "rejoin", !.air = a, !.own = TRUE, !.lrec = a]]
  ELSE [DropAir(v, a) EXCEPT !.lrecovery[a] = NoRecovery]

\* The attempt handleGatewayReconnected leaves to a playback: what its host shares
\* now is listened to instead.
BeginRelisten(v, f, a) ==
  IF v.room = 0 THEN [v EXCEPT !.lrecovery[a].phase = "timer"]
  ELSE LET dropped == [SetEntry(v, a, "none") EXCEPT !.heard[a] = "none"]
           begun == BeginListen(dropped, f, v.room, a)
       IN IF begun.flows[f].at = "none" THEN [begun EXCEPT !.lrecovery[a] = NoRecovery] ELSE begun

\* The loop over the playbacks, of which there is one outside a lapse.
RestoreListening(v, f) ==
  LET some == {a \in 1..MaxAirs : v.entry[a] # "none" /\ v.heard[a] # "none" /\ v.lrecovery[a] = NoRecovery}
      a == CHOOSE a \in some : TRUE
      running == [v EXCEPT !.lrecovery[a] = [attempt |-> "restore", phase |-> "running"]]
  IN IF some = {} THEN v ELSE BeginRelisten(running, f, a)

\* handleGatewayReconnected up to its command, in the slot f.
BeginRestore(v, f, s) ==
  IF v.run.sid # 0
  THEN [v EXCEPT !.flows[f] = [NoFlow EXCEPT !.at = "start", !.again = TRUE, !.cap = v.run.cap,
                                             !.id = v.run.sid, !.own = TRUE, !.rec = s]]
  ELSE LET v2 == IF s = 0 THEN v ELSE [v EXCEPT !.recovery[s] = NoRecovery] IN RestoreListening(v2, f)

RunRecovery(v, s, f) ==
  LET running == [v EXCEPT !.recovery[s].phase = "running"]
  IN IF v.recovery[s].attempt = "media" THEN BeginReconnect(running, f, s) ELSE BeginRestore(running, f, s)
RunListening(v, a, f) ==
  LET running == [v EXCEPT !.lrecovery[a].phase = "running"]
  IN IF v.lrecovery[a].attempt = "media" THEN BeginRejoin(running, f, a) ELSE BeginRelisten(running, f, a)

-----------------------------------------------------------------------------

At(f) == music.flows[f].at
Broken(f) == ~music.link /\ (At(f) \in Commands \/ (At(f) \in Setups /\ music.flows[f].sfu))
Calm == \A f \in Flow : ~Broken(f)

Slot == CHOOSE f \in Flow : At(f) = "none"
HasSlot == Calm /\ \E f \in Flow : At(f) = "none"

Fault == faults < MaxFaults /\ faults' = faults + 1
NoFault == UNCHANGED faults
\* Rejected with the connection or refused by the gateway, or else a fault.
Fails(f, refused) == IF Broken(f) \/ (Calm /\ refused) THEN NoFault ELSE Calm /\ Fault

-----------------------------------------------------------------------------
(* startMusicShare and stopMusicShare.                                     *)

Start ==
  /\ HasSlot
  /\ music.link
  /\ music.status = "none" /\ music.run.sid = 0
  /\ music.made < MaxSessions
  /\ music' = [Show(music, "capturing") EXCEPT !.made = @ + 1,
                 !.flows[Slot] = [NoFlow EXCEPT !.at = "capture", !.cap = music.made + 1, !.own = TRUE]]
  /\ NoFault

CaptureGranted(f) ==
  /\ At(f) = "capture"
  /\ Calm
  /\ LET v == [ShowIfAny(Cross(music, f), "starting") EXCEPT !.live = @ \cup {music.flows[f].cap}]
     IN music' = [v EXCEPT !.flows[f].at = "start", !.flows[f].own = TRUE]
  /\ NoFault

CaptureDenied(f) ==
  /\ At(f) = "capture"
  /\ Calm
  /\ Fault
  /\ music' = Show(Free(Cross(music, f), f), "none")

\* music.start is accepted, and the channel told of it first: a client that
\* restores its music has a runtime of the publication before, which it tears down.
Publish(f) ==
  /\ At(f) = "start"
  /\ Calm
  /\ music.joined /\ music.hosted = 0
  /\ music.next < MaxSessions
  /\ LET v == [music EXCEPT !.next = @ + 1, !.hosted = music.next + 1,
                            !.flows[f].at = "started", !.flows[f].sid = music.next + 1,
                            !.flows[f].sfu = music.sfu]
     IN /\ CanHear(v)
        /\ music' = StateUpdated(IF v.run.sid # 0 THEN Lapse(v) ELSE v)
  /\ NoFault

\* A restore is retried, unless a recovery of before the drop has its id; what the
\* gateway registered for it makes it refuse the next music.start.
StartFails(v, f) ==
  LET flow == v.flows[f]
      freed == Free(v, f)
      begun == IF v.recovery[flow.id] # NoRecovery
               THEN [freed EXCEPT !.lapsed = @ \/ v.recovery[flow.id].attempt = "media"]
               ELSE RunRecovery([freed EXCEPT !.recovery[flow.id].attempt = "restore"], flow.id, f)
  IN IF flow.again THEN Report(begun, flow, FALSE)
     ELSE Show([Free(Cross(v, f), f) EXCEPT !.live = @ \ {flow.cap}], "none")

StartRefused(f) ==
  /\ At(f) = "start"
  /\ Fails(f, music.hosted # 0 \/ ~music.joined)
  /\ music' = StartFails(music, f)

\* The answer was lost: nothing stops what the gateway registered.
StartUnanswered(f) ==
  /\ At(f) = "started"
  /\ Fails(f, FALSE)
  /\ music' = StartFails(IF Broken(f) THEN music ELSE Lapse(music), f)

GoLive(v, f) ==
  LET flow == v.flows[f]
      shown == IF flow.again THEN ShowIfAny(v, "live") ELSE Show(v, "live")
      told == IF flow.again THEN shown ELSE ReconcilePublished(shown)
      ended == Report(Free(told, f), flow, TRUE)
  IN IF flow.again THEN RestoreListening(ended, f) ELSE ended

\* The restore goes on with a runtime that nothing refers to any more.
Started(f) ==
  /\ At(f) = "started"
  /\ Calm
  /\ LET flow == music.flows[f]
         v == [Touch(Cross(music, f)) EXCEPT
                !.run = IF flow.again THEN @ ELSE [sid |-> flow.sid, cap |-> flow.cap, sent |-> ~flow.sfu],
                !.flows[f].id = IF flow.again THEN flow.sid ELSE 0, !.flows[f].own = TRUE]
     IN music' = IF flow.sfu THEN [v EXCEPT !.flows[f].at = "produce"] ELSE GoLive(v, f)
  /\ NoFault

Produced(f) ==
  /\ At(f) = "produce"
  /\ Calm
  /\ music.flows[f].cap \in music.live
  /\ LET v == Cross(music, f)
     IN music' = GoLive(IF v.run.sid = 0 THEN v ELSE [v EXCEPT !.run.sent = TRUE], f)
  /\ NoFault

\* The gateway is not told that there will be no music.
ProduceFails(f) ==
  /\ At(f) = "produce"
  /\ Fails(f, music.flows[f].cap \notin music.live)
  /\ LET v == IF Broken(f) THEN music ELSE Lapse(music)
     IN music' = IF v.flows[f].again THEN StartFails(v, f)
                 ELSE Show(Free(Teardown(Cross(v, f)), f), "none")

Stop ==
  /\ HasSlot
  /\ music.run.sid # 0
  /\ music' = [Teardown(ShowIfAny(music, "stopping")) EXCEPT
                 !.flows[Slot] = [NoFlow EXCEPT !.at = "stop", !.sid = music.run.sid, !.own = TRUE]]
  /\ NoFault

\* music.stop, from its handling to its answer.
StopHosted(v, s) == IF s # 0 /\ v.hosted = s THEN StateUpdated([v EXCEPT !.hosted = 0]) ELSE v

Stopped(f) ==
  /\ At(f) = "stop"
  /\ LET shown(v) == Show(Free(v, f), "none")
     IN IF Broken(f) THEN NoFault /\ music' = shown(Cross(music, f))
        ELSE /\ Calm
             /\ CanHear(music)
             /\ \/ NoFault /\ music' = shown(StopHosted(Cross(music, f), music.flows[f].sid))
                \/ Fault /\ music' = shown(Lapse(music))

\* The `ended' listener of the capture; there is none before the music has started.
CaptureEnds ==
  /\ Calm /\ CanHear(music)
  /\ Fault
  /\ \E c \in music.live :
       LET v == [music EXCEPT !.live = @ \ {c}]
       IN music' = IF v.run.cap = c /\ v.status # "stopping"
                   THEN StopHosted(Show(Teardown(v), "none"), v.run.sid) ELSE Lapse(v)

-----------------------------------------------------------------------------
(* listenToMusic.                                                          *)

\* The gateway: a listener it has already is answered without media to set up.
Listen(f) ==
  /\ At(f) = "listen"
  /\ Calm
  /\ music.joined /\ music.flows[f].air = music.air
  /\ LET a == music.flows[f].air
         v == [music EXCEPT !.flows[f].at = "listened", !.flows[f].sfu = music.sfu,
                            !.flows[f].again = a \in music.audience, !.audience = @ \cup {a}]
     IN IF a \in music.audience THEN music' = v ELSE CanHear(v) /\ music' = StateUpdated(v)
  /\ NoFault

ListenFails(v, f) ==
  LET flow == v.flows[f]
      removed == [SetEntry(Cross(v, f), flow.air, "none") EXCEPT !.missed = @ \cup {flow.air}]
  IN Report(Free(removed, f), flow, FALSE)

ListenRefused(f) ==
  /\ At(f) \in {"listen", "listened"}
  /\ Fails(f, At(f) = "listen" /\ (music.flows[f].air # music.air \/ ~music.joined))
  /\ music' = ListenFails(IF At(f) = "listened" /\ ~Broken(f) THEN Lapse(music) ELSE music, f)

Hear(v, f) == Report(Free(SetEntry(v, v.flows[f].air, "listening"), f), v.flows[f], TRUE)

\* The runtime and the entry are set whether or not the music is still on.
Listened(f) ==
  /\ At(f) = "listened"
  /\ Calm
  /\ LET flow == music.flows[f]
         v == IF flow.again \/ flow.air \notin music.audience THEN Lapse(music) ELSE Cross(music, f)
         run == [TouchAir(v, flow.air) EXCEPT
                   !.heard[flow.air] = IF flow.sfu \/ flow.again THEN "idle" ELSE "served",
                   !.flows[f].own = TRUE]
     IN music' = IF flow.sfu /\ ~flow.again THEN [run EXCEPT !.flows[f].at = "consume"] ELSE Hear(run, f)
  /\ NoFault

Consumed(f) ==
  /\ At(f) = "consume"
  /\ Calm
  /\ LET v == Cross(music, f)
         a == v.flows[f].air
     IN music' = Hear(IF v.heard[a] = "none" THEN v ELSE [v EXCEPT !.heard[a] = "served"], f)
  /\ NoFault

\* The gateway counts this listener still.
ConsumeFails(f) ==
  /\ At(f) = "consume"
  /\ Fails(f, FALSE)
  /\ LET v == IF Broken(f) THEN music ELSE Lapse(music)
     IN music' = ListenFails(TeardownAir(v, v.flows[f].air), f)

-----------------------------------------------------------------------------
(* The gateway connection and the events.                                  *)

\* handleGatewayWillReconnect.  The recoveries stay, under ids that change.
Suspend(v) ==
  [v EXCEPT !.status = IF @ = "none" THEN "none" ELSE "reconnecting",
            !.run.sent = FALSE,
            !.heard = [a \in 1..MaxAirs |-> IF @[a] = "none" THEN "none" ELSE "idle"],
            !.entry = [a \in 1..MaxAirs |-> IF @[a] = "none" THEN "none" ELSE "reconnecting"],
            !.flows = [f \in Flow |-> [@[f] EXCEPT !.own = FALSE]]]

Drop ==
  /\ Calm
  /\ music.link
  /\ Fault
  /\ music' = Suspend([music EXCEPT !.link = FALSE, !.joined = FALSE, !.hosted = 0, !.audience = {}])

Reconnected ==
  /\ HasSlot
  /\ ~music.link
  /\ music' = BeginRestore([music EXCEPT !.link = TRUE], Slot, 0)
  /\ NoFault

\* The voice store joins the channel again and is told what music is on there.
Rejoined ==
  /\ Calm
  /\ music.link /\ ~music.joined
  /\ LET v == [music EXCEPT !.joined = TRUE]
     IN IF v.air = 0 THEN music' = v ELSE CanHear(v) /\ music' = StateUpdated(v)
  /\ NoFault

\* media.mode.updated; the gateway emptied its rooms.  Nothing restores the music.
ModeUpdated ==
  /\ Calm
  /\ music.link
  /\ Fault
  /\ music' = Suspend([music EXCEPT !.sfu = ~@, !.hosted = 0, !.air = 0, !.audience = {}, !.joined = FALSE,
                !.lapsed = \/ @ \/ music.status # "none" \/ music.room # 0
                           \/ \E f \in Flow : At(f) # "none"])

\* handleGatewayDisconnected, reset: the recoveries without a runtime stay.
Disconnected ==
  /\ Calm
  /\ Fault
  /\ LET v == Suspend(Teardown(music))
     IN music' = [v EXCEPT !.link = FALSE, !.joined = FALSE, !.hosted = 0, !.audience = {}, !.room = 0,
                    !.status = "none", !.missed = {},
                    !.heard = [a \in 1..MaxAirs |-> "none"], !.entry = [a \in 1..MaxAirs |-> "none"],
                    !.lrecovery = [a \in 1..MaxAirs |-> IF v.heard[a] = "none" THEN @[a] ELSE NoRecovery],
                    !.flows = [f \in Flow |-> IF v.flows[f].lrec # 0 /\ v.heard[v.flows[f].lrec] # "none"
                                              THEN [@[f] EXCEPT !.lrec = 0] ELSE @[f]]]

\* The other member starts or stops; a client that has joined is told.
Aired ==
  /\ Calm
  /\ music.link
  /\ LET v == IF music.air = 0 THEN [music EXCEPT !.air = music.aired + 1, !.aired = @ + 1]
              ELSE [music EXCEPT !.air = 0, !.audience = {}]
     IN /\ v.aired <= MaxAirs
        /\ IF music.joined THEN CanHear(v) /\ music' = StateUpdated(v) ELSE music' = v
  /\ NoFault

-----------------------------------------------------------------------------
(* The recovery of the transports.                                         *)

ConnectionFails ==
  /\ HasSlot
  /\ music.run.sid # 0 /\ music.run.sent
  /\ Fault
  /\ LET v == ShowIfAny(music, "reconnecting")
         s == v.run.sid
     IN music' = IF v.recovery[s] # NoRecovery THEN v
                 ELSE RunRecovery([v EXCEPT !.recovery[s].attempt = "media"], s, Slot)

\* A connection issue, or the publisher has refreshed its session.
PlaybackFails(a) ==
  /\ HasSlot
  /\ music.heard[a] = "served"
  /\ Fault
  /\ LET v == UpdateEntry(music, a, "reconnecting")
     IN music' = IF v.lrecovery[a] # NoRecovery THEN v
                 ELSE RunListening([v EXCEPT !.lrecovery[a].attempt = "media"], a, Slot)

Reconnect(f) ==
  /\ At(f) = "reconnect"
  /\ Calm
  /\ music.hosted = music.flows[f].sid
  /\ LET v == Cross(music, f)
     IN music' = [v EXCEPT !.flows[f].at = "rebuild", !.flows[f].sfu = v.sfu, !.run.sent = FALSE]
  /\ NoFault

Rebuilt(f) ==
  /\ At(f) = "rebuild"
  /\ Calm
  /\ LET v == Cross(music, f)
         run == IF v.run.sid = 0 THEN v ELSE [v EXCEPT !.run.sent = TRUE]
     IN music' = Report(Free(ShowIfAny(run, "live"), f), music.flows[f], TRUE)
  /\ NoFault

Rejoin(f) ==
  /\ At(f) = "rejoin"
  /\ Calm
  /\ music.flows[f].air \in music.audience
  /\ LET a == music.flows[f].air
         v == Cross(music, f)
         run == IF v.heard[a] = "none" THEN v
                ELSE [UpdateEntry(v, a, "reconnecting") EXCEPT !.heard[a] = IF v.sfu THEN "idle" ELSE "served"]
     IN music' = [run EXCEPT !.flows[f].at = "reconsume", !.flows[f].sfu = v.sfu,
                             !.flows[f].own = v.flows[f].own]
  /\ NoFault

Reconsumed(f) ==
  /\ At(f) = "reconsume"
  /\ Calm
  /\ LET a == music.flows[f].air
         v == Cross(music, f)
         run == IF v.heard[a] = "none" THEN v ELSE [v EXCEPT !.heard[a] = "served"]
     IN music' = Report(Free(UpdateEntry(run, a, "listening"), f), music.flows[f], TRUE)
  /\ NoFault

RecoveryFails(f) ==
  /\ At(f) \in {"reconnect", "rebuild", "rejoin", "reconsume"}
  /\ Fails(f, \/ At(f) = "reconnect" /\ music.hosted # music.flows[f].sid
              \/ At(f) = "rejoin" /\ music.flows[f].air \notin music.audience)
  /\ music' = Report(Free(music, f), music.flows[f], FALSE)

\* The timer of a recovery, or retryMediaRecoveryNow.
Retry ==
  /\ HasSlot
  /\ \/ \E s \in 1..MaxSessions : /\ music.recovery[s].phase = "timer"
                                  /\ music' = RunRecovery(music, s, Slot)
     \/ \E a \in 1..MaxAirs : /\ music.lrecovery[a].phase = "timer"
                              /\ music' = RunListening(music, a, Slot)
  /\ NoFault

\* abandonAllMediaRecovery: the gateway is not told.
Abandon ==
  /\ Calm
  /\ Fault
  /\ LET mine == \E s \in 1..MaxSessions : music.recovery[s] # NoRecovery
         given == {a \in 1..MaxAirs : music.lrecovery[a] # NoRecovery}
         v == IF mine THEN Show(Teardown(music), "none") ELSE music
     IN /\ \/ \E s \in 1..MaxSessions : music.recovery[s].phase = "timer"
           \/ \E a \in given : music.lrecovery[a].phase = "timer"
        /\ music' = [v EXCEPT
             !.recovery = [s \in 1..MaxSessions |-> NoRecovery],
             !.lrecovery = [a \in 1..MaxAirs |-> NoRecovery],
             !.heard = [a \in 1..MaxAirs |-> IF a \in given THEN "none" ELSE @[a]],
             !.entry = [a \in 1..MaxAirs |-> IF a \in given THEN "none" ELSE @[a]],
             !.flows = [f \in Flow |-> [@[f] EXCEPT !.rec = 0, !.lrec = 0, !.own = @ /\ v.flows[f].air \notin given]],
             !.missed = @ \cup given,
             !.lapsed = @ \/ (mine /\ music.hosted # 0) \/ music.audience \cap given # {}]

-----------------------------------------------------------------------------

Next ==
  \/ Start \/ Stop \/ CaptureEnds \/ Drop \/ Reconnected \/ Rejoined \/ ModeUpdated
  \/ Disconnected \/ Aired \/ ConnectionFails \/ Retry \/ Abandon
  \/ \E a \in 1..MaxAirs : PlaybackFails(a)
  \/ \E f \in Flow :
       \/ CaptureGranted(f) \/ CaptureDenied(f) \/ Publish(f) \/ StartRefused(f)
       \/ StartUnanswered(f) \/ Started(f) \/ Produced(f) \/ ProduceFails(f) \/ Stopped(f)
       \/ Listen(f) \/ ListenRefused(f) \/ Listened(f) \/ Consumed(f) \/ ConsumeFails(f)
       \/ Reconnect(f) \/ Rebuilt(f) \/ Rejoin(f) \/ Reconsumed(f) \/ RecoveryFails(f)

Spec == Init /\ [][Next]_musicVars

-----------------------------------------------------------------------------
(* Properties.                                                             *)

\* When nothing is under way or waits to be retried, the music this client shares
\* is gone everywhere, or shown as live, registered and sent from a capture that
\* runs; and the music the other member shares is heard, and nothing else, unless
\* the attempt to listen failed after the last event.
MusicIsServed ==
  /\ ~music.lapsed
  /\ music.link /\ music.joined
  /\ \A f \in Flow : At(f) = "none"
  /\ \A s \in 1..MaxSessions : music.recovery[s] = NoRecovery
  /\ \A a \in 1..MaxAirs : music.lrecovery[a] = NoRecovery
  => /\ music.hosted = music.run.sid
     /\ music.status = IF music.run.sid = 0 THEN "none" ELSE "live"
     /\ music.live = {music.run.cap} \ {0}
     /\ music.run.sid # 0 => music.run.sent
     /\ \A a \in (1..MaxAirs) \ music.missed :
          IF a = music.air THEN music.entry[a] = "listening" /\ music.heard[a] = "served"
          ELSE music.entry[a] = "none" /\ music.heard[a] = "none"
     /\ music.audience \subseteq {music.air}
=============================================================================
