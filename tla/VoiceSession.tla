---------------------------- MODULE VoiceSession ----------------------------
(***************************************************************************)
(* The voice session of one client (features/voice/voice-store.ts) with    *)
(* the retries of features/recovery/recovery-store.ts.  The store runs on  *)
(* one thread; a Flow is one of its asynchronous functions between two of  *)
(* its awaits, and several may be under way: a join, a leave, the rejoin   *)
(* after a gateway reconnect, a media recovery, a change of microphone.    *)
(*                                                                         *)
(* captureGeneration is a number compared for equality only: a flow is     *)
(* `fresh' while the generation is still the one it started with.          *)
(*                                                                         *)
(* The gateway is what voice-store uses of it: this connection is in a room*)
(* or not, commands take effect in the order they were sent, voice.join of *)
(* the room it is in is refused, and losing the socket takes it out and    *)
(* rejects every command that awaits its ack.  Its own modules are         *)
(* RoomManagers and GatewayRooms.  Participants, playback, statistics,     *)
(* speaking, mute and the fallback for gateways without media.session.     *)
(* reconnect are left out.                                                 *)
(***************************************************************************)
EXTENDS FiniteSets, Naturals

CONSTANTS
  Channel,
  NoChannel,
  Flow,        \* asynchronous functions under way at once
  MaxFaults,   \* bound: drops, refusals, timeouts and failed setups
  MaxJoins     \* bound: joins asked for

VARIABLES
  voice,   \* the store, the module's singletons and the gateway's side: VoiceRec
  faults, joins

voiceVars == <<voice, faults, joins>>

Status == {"idle", "requesting_mic", "joining", "reconnecting", "active", "leaving", "error"}

\* Where a flow awaits.  The commands of the first set are rejected when the
\* connection goes; so are those an SFU setup sends.
Commands == {"preleave", "join", "undo", "leave", "rejoin", "reconnect"}
Setups == {"setup", "resetup", "mediasetup"}
Inputs == {"mic", "init", "remic", "prepare", "swap", "restore"}

FlowRec == [at: {"none"} \cup Commands \cup Setups \cup Inputs,
            ch: Channel \cup {NoChannel},
            ok: BOOLEAN,                    \* the gateway's verdict on its command
            fresh: BOOLEAN,
            own: BOOLEAN,                   \* nobody set the status since it did,
                                            \* and its recovery was not left behind
            sfu: BOOLEAN,                   \* the media mode of its ack
            rec: Channel \cup {NoChannel}]  \* the recovery it reports to

RecoveryRec == [attempt: {"none", "rejoin", "media"}, phase: {"none", "running", "timer"},
                left: BOOLEAN]                  \* left behind, see NoiseRestored

VoiceRec == [status: Status,
             channel: Channel \cup {NoChannel},
             saved: BOOLEAN,                  \* savedChannelId, session and commands
             mic: {"none", "live", "stopped"},\* localCaptureStream
             peers: BOOLEAN,                  \* webrtcManager or sfuSession
             busy: BOOLEAN,                   \* audioInputBusy
             flows: [Flow -> FlowRec],
             recovery: [Channel -> RecoveryRec],
             link: BOOLEAN,                   \* the gateway connection is ready
             joined: Channel \cup {NoChannel},\* the room this connection is in
             sfu: BOOLEAN,                    \* the gateway's media mode is `sfu'
             leaked: BOOLEAN,                 \* a live capture nothing refers to
             crossed: BOOLEAN]                \* see Cross

NoFlow == [at |-> "none", ch |-> NoChannel, ok |-> FALSE, fresh |-> FALSE, own |-> FALSE,
           sfu |-> FALSE, rec |-> NoChannel]
NoRecovery == [attempt |-> "none", phase |-> "none", left |-> FALSE]

TypeOK ==
  /\ voice \in VoiceRec
  /\ faults \in 0..MaxFaults
  /\ joins \in 0..MaxJoins

Init ==
  /\ voice \in [status: {"idle"}, channel: {NoChannel}, saved: {FALSE}, mic: {"none"},
                peers: {FALSE}, busy: {FALSE}, flows: {[f \in Flow |-> NoFlow]},
                recovery: {[c \in Channel |-> NoRecovery]},
                link: {TRUE}, joined: {NoChannel}, sfu: BOOLEAN,
                leaked: {FALSE}, crossed: {FALSE}]
  /\ faults = 0
  /\ joins = 0

-----------------------------------------------------------------------------
(* The functions the handlers share, on a VoiceRec.                        *)

Put(v, f, flow) == [v EXCEPT !.flows[f] = flow]
Free(v, f) == Put(v, f, NoFlow)
Goto(v, f, at) == [v EXCEPT !.flows[f].at = at]

\* set({ status, channelId }): every flow that set the status before has lost it.
Show(v, status, c) ==
  [v EXCEPT !.status = status, !.channel = c,
            !.flows = [f \in Flow |-> [v.flows[f] EXCEPT !.own = FALSE]]]

\* captureGeneration++
Outdate(v) == [v EXCEPT !.flows = [f \in Flow |-> [v.flows[f] EXCEPT !.fresh = FALSE]]]

Teardown(v) == [Outdate(v) EXCEPT !.saved = FALSE, !.mic = "none", !.peers = FALSE, !.busy = FALSE]

TeardownPeers(v) == [v EXCEPT !.peers = FALSE]

\* Flow f writes its outcome, or a session's data, after another has set the
\* status: nothing in these functions compares the session they began with.
Cross(v, f) == [v EXCEPT !.crossed = @ \/ ~v.flows[f].own]

\* Commands take effect at the gateway in the order they are sent.
Send(v, f, flow) ==
  LET accepted == CASE flow.at \in {"join", "rejoin"} -> v.joined # flow.ch
                    [] flow.at = "reconnect" -> v.joined = flow.ch
                    [] flow.at \in {"preleave", "undo", "leave"} -> TRUE
      room == CASE flow.at \in {"join", "rejoin"} -> flow.ch
                [] flow.at = "reconnect" -> v.joined
                [] flow.at \in {"preleave", "undo", "leave"} -> NoChannel
  IN Put([v EXCEPT !.joined = IF v.link THEN room ELSE @], f,
         [flow EXCEPT !.ok = accepted /\ v.link])

\* Mutant of ResolveRecovery: the retry goes on.
ResolveNothing(v, c) == v

ResolveRecovery(v, c) ==
  [v EXCEPT !.recovery[c] = NoRecovery,
            !.flows = [f \in Flow |-> IF v.flows[f].rec = c
                                      THEN [v.flows[f] EXCEPT !.rec = NoChannel]
                                      ELSE v.flows[f]]]

\* handleGatewayReconnected up to its voice.join, in the slot f.
BeginRejoin(v, f, rec) ==
  IF v.status # "reconnecting" \/ v.channel = NoChannel \/ ~v.saved THEN v
  ELSE IF v.mic = "none" THEN Show(v, "error", NoChannel)
  ELSE Send(Show(v, "joining", v.channel), f,
            [NoFlow EXCEPT !.at = "rejoin", !.ch = v.channel, !.rec = rec,
                           !.own = rec = NoChannel \/ ~v.recovery[rec].left])

\* runRecovery: the attempt runs at once up to its first await; one that
\* returns ends the recovery of c, one that throws is tried again later.
RunRecovery(v, c, f) ==
  LET running == [v EXCEPT !.recovery[c].phase = "running"]
      rejoin == BeginRejoin(running, f, c)
  IN CASE v.recovery[c].attempt = "rejoin" ->
            IF rejoin.flows[f].at = "rejoin" THEN rejoin
            ELSE [rejoin EXCEPT !.recovery[c] = NoRecovery]
       [] v.recovery[c].attempt = "media" ->
            IF v.saved /\ v.mic # "none"
            THEN Send(running, f, [NoFlow EXCEPT !.at = "reconnect", !.rec = c,
                       !.own = v.status = "reconnecting" /\ ~v.recovery[c].left,
                       !.ch = IF v.channel = NoChannel THEN c ELSE v.channel])
            ELSE [v EXCEPT !.recovery[c].phase = "timer"]

StartRecovery(v, c, attempt, f) ==
  IF v.recovery[c].attempt # "none" THEN v
  ELSE RunRecovery([v EXCEPT !.recovery[c].attempt = attempt], c, f)

\* The attempt of a flow threw, or was done; a cancelled one reports to nobody.
AttemptEnds(v, flow, ok) ==
  IF flow.rec = NoChannel THEN v
  ELSE IF ok THEN [v EXCEPT !.recovery[flow.rec] = NoRecovery]
  ELSE [v EXCEPT !.recovery[flow.rec].phase = "timer"]

GatewayWillReconnect(v) ==
  IF v.status \in {"idle", "error"} THEN v
  ELSE IF v.channel = NoChannel THEN Show(Teardown(v), "idle", NoChannel)
  ELSE Show(TeardownPeers(ResolveRecovery(v, v.channel)), "reconnecting", v.channel)

GatewayDisconnected(v) ==
  LET u == IF v.channel = NoChannel THEN v ELSE ResolveRecovery(v, v.channel)
  IN IF v.status = "idle" THEN u ELSE Show(Teardown(u), "idle", NoChannel)

-----------------------------------------------------------------------------

At(f) == voice.flows[f].at
Ch(f) == voice.flows[f].ch
Fresh(f) == voice.flows[f].fresh

\* Rejected by the lost connection: such a rejection runs before any event.
Broken(f) == ~voice.link /\ (At(f) \in Commands \/ (At(f) \in Setups /\ voice.flows[f].sfu))
Calm == \A f \in Flow : ~Broken(f)

Runs(f, at) == At(f) = at /\ (Calm \/ Broken(f))

Slot == CHOOSE f \in Flow : At(f) = "none"
HasSlot == Calm /\ \E f \in Flow : At(f) = "none"

Fault == faults < MaxFaults /\ faults' = faults + 1
NoFault == UNCHANGED faults

\* An answer: what the gateway said, or (a fault) a refusal or a timeout, and
\* then the gateway may have done it all the same.
Accepted(f) == voice.link /\ voice.flows[f].ok /\ NoFault
Refused(f) == IF voice.link /\ voice.flows[f].ok THEN Fault ELSE NoFault
Kept(f) == IF voice.link /\ voice.flows[f].ok THEN {voice.joined, NoChannel} ELSE {voice.joined}

\* Session data is saved and the peers are set up.
BeginSetup(v, f, at) ==
  [Cross(v, f) EXCEPT !.saved = TRUE, !.peers = TRUE, !.flows[f].at = at, !.flows[f].sfu = v.sfu]

\* P2P offers that fail are skipped, so only an SFU setup can fail: by itself,
\* with its connection, without a microphone, or its session closed meanwhile.
SetupFails(f, at) ==
  /\ Runs(f, at)
  /\ voice.flows[f].sfu
  /\ IF Broken(f) \/ ~voice.peers \/ voice.mic = "none" THEN NoFault ELSE Fault

SetupDone(f, at) ==
  /\ At(f) = at
  /\ Calm
  /\ voice.flows[f].sfu => voice.peers /\ voice.mic # "none"
  /\ NoFault

\* The last step of a setup sets `active' whatever became of the session.
Activate(v, f) == Show(Free(Cross(v, f), f), "active", v.flows[f].ch)

-----------------------------------------------------------------------------
(* joinVoiceChannel.                                                       *)

\* From its first status change to getUserMedia.
AskMic(v, f, c) ==
  Put(Outdate(Show(v, "requesting_mic", c)), f,
      [NoFlow EXCEPT !.at = "mic", !.ch = c, !.fresh = TRUE, !.own = TRUE])

\* A click on a channel; the one that is shown is not joined again.
Join(c) ==
  /\ HasSlot
  /\ joins < MaxJoins
  /\ joins' = joins + 1
  /\ voice.status \notin {"requesting_mic", "joining", "reconnecting"}
  /\ voice.channel # c
  /\ voice' = IF ~voice.link THEN Show(voice, "error", NoChannel)
              ELSE IF voice.status = "active"
              THEN Send(Show(Teardown(voice), "idle", NoChannel), Slot,
                        [NoFlow EXCEPT !.at = "preleave", !.ch = c, !.own = TRUE])
              ELSE AskMic(voice, Slot, c)
  /\ UNCHANGED faults

\* The room before was left, or the gateway did not answer.
Preleft(f) ==
  /\ Runs(f, "preleave")
  /\ voice' = AskMic(Cross(voice, f), f, Ch(f))
  /\ UNCHANGED <<faults, joins>>

\* Mutant of MicGranted: a microphone granted after the join was given up is
\* kept.
MicGrantedLate(f) ==
  /\ At(f) = "mic"
  /\ Calm
  /\ voice' = IF ~Fresh(f) THEN [Free(voice, f) EXCEPT !.mic = "live"]
              ELSE [voice EXCEPT !.leaked = @ \/ voice.mic = "live", !.mic = "live",
                                 !.flows[f].at = "init"]
  /\ UNCHANGED <<faults, joins>>

MicGranted(f) ==
  /\ At(f) = "mic"
  /\ Calm
  /\ voice' = IF ~Fresh(f) THEN Free(voice, f)
              ELSE [voice EXCEPT !.leaked = @ \/ voice.mic = "live", !.mic = "live",
                                 !.flows[f].at = "init"]
  /\ UNCHANGED <<faults, joins>>

MicDenied(f) ==
  /\ At(f) = "mic"
  /\ Calm
  /\ Fault
  /\ voice' = IF Fresh(f) THEN Show(Free(Cross(voice, f), f), "error", NoChannel)
              ELSE Free(voice, f)
  /\ UNCHANGED joins

SendJoin(v, f) ==
  Send(Show(Cross(v, f), "joining", v.channel), f, [v.flows[f] EXCEPT !.at = "join", !.own = TRUE])

\* The noise mode was set up; when it could not be, the capture is stopped
\* and another one asked for.
MicReady(f) ==
  /\ At(f) = "init"
  /\ Calm
  /\ \/ /\ voice' = IF Fresh(f) THEN SendJoin(voice, f) ELSE Free(voice, f)
        /\ NoFault
     \/ /\ voice' = IF Fresh(f) THEN [Goto(voice, f, "remic") EXCEPT !.mic = "stopped"]
                    ELSE Free(voice, f)
        /\ Fault
  /\ UNCHANGED joins

\* Session torn down and the reason shown.
JoinError(f) == Show(Free(Teardown(Cross(voice, f)), f), "error", NoChannel)

MicReplaced(f) ==
  /\ At(f) = "remic"
  /\ Calm
  /\ \/ /\ voice' = IF Fresh(f) THEN SendJoin([voice EXCEPT !.mic = "live"], f) ELSE Free(voice, f)
        /\ NoFault
     \/ /\ voice' = IF Fresh(f) THEN JoinError(f) ELSE Free(voice, f)
        /\ Fault
  /\ UNCHANGED joins

Joined(f) ==
  /\ Runs(f, "join")
  /\ \/ /\ Accepted(f)
        /\ voice' = BeginSetup(voice, f, "setup")
     \/ /\ Refused(f)
        /\ \E room \in Kept(f) : voice' = [JoinError(f) EXCEPT !.joined = room]
  /\ UNCHANGED joins

Connected(f) ==
  /\ \/ /\ SetupDone(f, "setup")
        /\ voice' = Activate(voice, f)
     \/ /\ SetupFails(f, "setup")
        /\ voice' = Send(Teardown(Cross(voice, f)), f,
                         [voice.flows[f] EXCEPT !.at = "undo", !.fresh = FALSE])
  /\ UNCHANGED joins

\* The leave that follows a failed setup was answered.
Undone(f) ==
  /\ Runs(f, "undo")
  /\ voice' = Show(Free(Cross(voice, f), f), "error", NoChannel)
  /\ UNCHANGED <<faults, joins>>

-----------------------------------------------------------------------------
(* leaveVoiceChannel.                                                      *)

Leave ==
  /\ HasSlot
  /\ voice.status \in {"active", "reconnecting"}
  /\ voice.channel # NoChannel
  /\ voice' = Send(Teardown(ResolveRecovery(Show(voice, "leaving", voice.channel), voice.channel)),
                   Slot, [NoFlow EXCEPT !.at = "leave", !.ch = voice.channel, !.own = TRUE])
  /\ UNCHANGED <<faults, joins>>

Left(f) ==
  /\ Runs(f, "leave")
  /\ voice' = Show(Free(Cross(voice, f), f), "idle", NoChannel)
  /\ UNCHANGED <<faults, joins>>

-----------------------------------------------------------------------------
(* The gateway connection, and what the gateway does by itself.            *)

Lost(v) == [v EXCEPT !.link = FALSE, !.joined = NoChannel]

Drop ==
  /\ Calm
  /\ voice.link
  /\ Fault
  /\ voice' = GatewayWillReconnect(Lost(voice))
  /\ UNCHANGED joins

Reconnected ==
  /\ HasSlot
  /\ ~voice.link
  /\ voice' = BeginRejoin([voice EXCEPT !.link = TRUE], Slot, NoChannel)
  /\ UNCHANGED <<faults, joins>>

\* The user signs out or changes the server.
Disconnected ==
  /\ Calm
  /\ Fault
  /\ voice' = GatewayDisconnected(Lost(voice))
  /\ UNCHANGED joins

\* handleMediaModeUpdated; the gateway emptied its rooms before.
ModeUpdated ==
  /\ HasSlot
  /\ voice.link
  /\ Fault
  /\ LET v == [voice EXCEPT !.sfu = ~@, !.joined = NoChannel]
     IN voice' = BeginRejoin(GatewayWillReconnect(v), Slot, NoChannel)
  /\ UNCHANGED joins

\* Mutant of Evicted: a roster without this user changes the roster shown.
EvictedUnnoticed ==
  /\ Calm
  /\ voice.joined # NoChannel
  /\ Fault
  /\ voice' = [voice EXCEPT !.joined = NoChannel]
  /\ UNCHANGED joins

\* handleVoiceStateUpdated with a roster that lacks this user, whose place
\* another device took; only an active session looks for itself in it.
Evicted ==
  /\ Calm
  /\ voice.joined # NoChannel
  /\ Fault
  /\ LET v == [voice EXCEPT !.joined = NoChannel]
     IN voice' = IF v.status = "active" /\ v.channel = voice.joined
                 THEN Show(Teardown(v), "idle", NoChannel)
                 ELSE Show(v, v.status, v.channel)
  /\ UNCHANGED joins

-----------------------------------------------------------------------------
(* The rejoin and the recovery of the media.                               *)

RejoinFails(v, f, attempt) ==
  LET shown == Show(Free(Cross(v, f), f), "reconnecting", v.channel)
  IN AttemptEnds(StartRecovery(shown, v.flows[f].ch, attempt, f), v.flows[f], FALSE)

Rejoined(f) ==
  /\ Runs(f, "rejoin")
  /\ \/ /\ Accepted(f)
        /\ voice' = BeginSetup(voice, f, "resetup")
     \/ /\ Refused(f)
        /\ \E room \in Kept(f) : voice' = RejoinFails([voice EXCEPT !.joined = room], f, "rejoin")
  /\ UNCHANGED joins

\* voice.join registered this connection: a setup that fails is retried as a
\* media recovery, unless a recovery that rejoins is under way already.
Reestablished(f) ==
  /\ \/ /\ SetupDone(f, "resetup")
        /\ voice' = AttemptEnds(Activate(voice, f), voice.flows[f], TRUE)
     \/ /\ SetupFails(f, "resetup")
        /\ voice' = RejoinFails(voice, f, "media")
  /\ UNCHANGED joins

\* failVoiceMediaConnection: the timers of a peer or a transport find the
\* session failed.
ConnectionFails ==
  /\ HasSlot
  /\ Fault
  /\ voice.status = "active"
  /\ voice' = StartRecovery(Show(TeardownPeers(voice), "reconnecting", voice.channel),
                            voice.channel, "media", Slot)
  /\ UNCHANGED joins

\* media.session.reconnect: answered for the room this connection is in.
MediaAnswered(f) ==
  /\ Runs(f, "reconnect")
  /\ \/ /\ Accepted(f)
        /\ voice' = BeginSetup(TeardownPeers(voice), f, "mediasetup")
     \/ /\ Refused(f)
        /\ voice' = AttemptEnds(Free(voice, f), voice.flows[f], FALSE)
  /\ UNCHANGED joins

MediaRebuilt(f) ==
  /\ \/ /\ SetupDone(f, "mediasetup")
        /\ voice' = AttemptEnds(Activate(voice, f), voice.flows[f], TRUE)
     \/ /\ SetupFails(f, "mediasetup")
        /\ voice' = AttemptEnds(Free(voice, f), voice.flows[f], FALSE)
  /\ UNCHANGED joins

\* The retry timer of a recovery, or the user's Retry button.
Retry(c) ==
  /\ HasSlot
  /\ voice.recovery[c].phase = "timer"
  /\ voice' = RunRecovery(voice, c, Slot)
  /\ UNCHANGED <<faults, joins>>

\* abandonAllMediaRecovery: each abandon is handleGatewayDisconnected.
Abandon ==
  /\ Calm
  /\ \E c \in Channel : voice.recovery[c].attempt # "none"
  /\ LET v == GatewayDisconnected(voice)
     IN voice' = [v EXCEPT !.recovery = [c \in Channel |-> NoRecovery],
                           !.flows = [f \in Flow |-> [v.flows[f] EXCEPT !.rec = NoChannel]]]
  /\ UNCHANGED <<faults, joins>>

-----------------------------------------------------------------------------
(* setNoiseSuppressionMode on a running microphone.                        *)

SetNoiseMode ==
  /\ HasSlot
  /\ ~voice.busy
  /\ voice.status \notin {"requesting_mic", "joining", "leaving"}
  /\ voice.mic # "none"
  /\ voice' = Put([voice EXCEPT !.busy = TRUE], Slot,
                  [NoFlow EXCEPT !.at = "prepare", !.ch = voice.channel, !.fresh = TRUE])
  /\ UNCHANGED <<faults, joins>>

InputStep(f, at) == At(f) = at /\ Calm /\ UNCHANGED joins
Input(f, v) == IF Fresh(f) THEN v ELSE Free(voice, f)
InputDone(f, mic) == [Free(voice, f) EXCEPT !.busy = FALSE, !.mic = mic]

\* The old capture is stopped before the new one is asked for.
NoisePrepared(f) ==
  /\ InputStep(f, "prepare")
  /\ \/ NoFault /\ voice' = Input(f, [Goto(voice, f, "swap") EXCEPT !.mic = "stopped"])
     \/ Fault /\ voice' = Input(f, InputDone(f, voice.mic))

NoiseSwapped(f) ==
  /\ InputStep(f, "swap")
  /\ \/ NoFault /\ voice' = Input(f, InputDone(f, "live"))
     \/ Fault /\ voice' = Input(f, Goto(voice, f, "restore"))

\* The recovery of the session, when there is one, stays without it.
LeftBehind(v) ==
  [v EXCEPT !.recovery = [c \in Channel |-> [v.recovery[c] EXCEPT
     !.left = @ \/ (c = v.channel /\ v.recovery[c].attempt # "none")]]]

\* No capture can be had again: the session is torn down and the gateway told
\* without waiting, but the recovery is not resolved.
NoiseRestored(f) ==
  /\ InputStep(f, "restore")
  /\ \/ NoFault /\ voice' = Input(f, InputDone(f, "live"))
     \/ /\ Fault
        /\ voice' = Input(f, Show(Teardown([Free(LeftBehind(voice), f) EXCEPT
                      !.joined = IF voice.saved /\ @ = voice.channel THEN NoChannel ELSE @]),
                      "error", NoChannel))

ClearError ==
  /\ Calm
  /\ voice.status = "error"
  /\ voice' = Show(voice, "idle", NoChannel)
  /\ UNCHANGED <<faults, joins>>

-----------------------------------------------------------------------------

Step(f) ==
  \/ Preleft(f) \/ MicGranted(f) \/ MicDenied(f) \/ MicReady(f) \/ MicReplaced(f)
  \/ Joined(f) \/ Connected(f) \/ Undone(f) \/ Left(f)
  \/ Rejoined(f) \/ Reestablished(f) \/ MediaAnswered(f) \/ MediaRebuilt(f)
  \/ NoisePrepared(f) \/ NoiseSwapped(f) \/ NoiseRestored(f)

Next ==
  \/ \E f \in Flow : Step(f)
  \/ \E c \in Channel : Join(c) \/ Retry(c)
  \/ Leave \/ Drop \/ Reconnected \/ Disconnected \/ ModeUpdated \/ Evicted
  \/ ConnectionFails \/ Abandon \/ SetNoiseMode \/ ClearError

Spec == Init /\ [][Next]_voiceVars

-----------------------------------------------------------------------------
(* Properties.                                                             *)

Quiet == \A f \in Flow : At(f) = "none"

\* An idle session holds no microphone: whatever interrupts a join, a leave, a
\* recovery or a change of the noise mode, no capture stays live, in use or
\* forgotten -- unless an outcome crossed another's (see Cross).
MicReleased ==
  ~voice.crossed /\ Quiet /\ voice.status \in {"idle", "error"} =>
    voice.mic = "none" /\ ~voice.leaked

\* A session shown as active is one: the gateway has this connection in the
\* channel shown, there are peers, and the microphone is live or changing.
ActiveIsServed ==
  ~voice.crossed /\ voice.status = "active" /\ voice.link =>
    /\ voice.joined = voice.channel
    /\ voice.peers
    /\ voice.mic = "live" \/ voice.busy

\* A recovery is retried only for the session that is being reconnected: none
\* outlives a leave, an eviction, a lost connection or another join.  One case
\* is excepted, `left': a change of the noise mode that loses the microphone for
\* good ends the session and leaves its recovery, which fails at every retry
\* until some session lets it through (voice-store.ts:1634-1641).
RecoveryIsWanted ==
  ~voice.crossed => \A c \in Channel :
    voice.recovery[c].attempt # "none" /\ ~voice.recovery[c].left =>
       /\ voice.status \in {"reconnecting", "joining"}
       /\ voice.channel = c
=============================================================================
