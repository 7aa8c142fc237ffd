------------------------------- MODULE LiteMedia -------------------------------
(***************************************************************************)
(* Baker Lite's media (apps/baker-lite/src/media): MediaCoordinator.cpp    *)
(* sends the user's wishes to the gateway and lets NativeRtcBackend.cpp    *)
(* run a session for each answer.  Both live on the Qt thread.  The        *)
(* gateway answers the commands of one connection in their order; what     *)
(* those of event-router.ts do to one user's rooms is modelled with them.  *)
(*                                                                         *)
(* Another user may share one publication of each kind in the channel      *)
(* Home.  Mute, volumes, rosters, speaking and the inside of a session     *)
(* (LiteSfu) are left out.                                                 *)
(***************************************************************************)
EXTENDS Naturals, Sequences

CONSTANTS
  Channel, Home, None,
  MaxSessions,   \* bound: media sessions at once
  MaxClicks,     \* bound: the user's wishes
  MaxFaults      \* bound: failures, mode changes, hosts that stop

VARIABLES media, gateway, wire, clicks, faults

Kind == {"music", "stream"}
RtcSession == 1 .. MaxSessions
NoRtcSession == [k \in Kind |-> 0]

Command == [op: {"join", "leave", "start", "stop", "watch", "unwatch"},
            ch: Channel \cup {None}, kind: Kind, id: {0} \cup RtcSession, ok: BOOLEAN]

MediaRec == [chan: Channel \cup {None},          \* voiceChannelId_
             sess: {0} \cup RtcSession,             \* voiceSessionId_
             state: {"Idle", "Preparing", "Active", "Recovering", "Closing", "Failed"},
             own: [Kind -> {0} \cup RtcSession],    \* ownedMusicId_, ownedStreamId_
             heard: [Kind -> {0} \cup RtcSession],  \* listenedSessionByMusic_, watchedSessionByStream_
             running: SUBSET RtcSession,            \* the backend's sessions_
             lapsed: BOOLEAN]                    \* something nothing repairs but a shutdown

GatewayRec == [room: Channel \cup {None}, voice: {0} \cup RtcSession,
               pub: [Kind -> {0} \cup RtcSession], at: [Kind -> Channel \cup {None}],
               sub: [Kind -> {0} \cup RtcSession],
               air: [Kind -> BOOLEAN]]           \* the other user's publications

TypeOK ==
  /\ media \in MediaRec /\ gateway \in GatewayRec
  /\ \A i \in DOMAIN wire.sent : wire.sent[i] \in Command
  /\ \A i \in DOMAIN wire.news :
       wire.news[i] = [op |-> "mode"] \/ wire.news[i] \in Command
  /\ clicks \in 0 .. MaxClicks /\ faults \in 0 .. MaxFaults

Silent == [chan |-> None, sess |-> 0, state |-> "Idle", own |-> NoRtcSession, heard |-> NoRtcSession,
           running |-> {}, lapsed |-> FALSE]

Cleared(air) == [room |-> None, voice |-> 0, pub |-> NoRtcSession, at |-> [k \in Kind |-> None],
                 sub |-> NoRtcSession, air |-> air]

NoWire == [sent |-> <<>>, news |-> <<>>]

Init == /\ media = Silent /\ gateway = Cleared([k \in Kind |-> TRUE]) /\ wire = NoWire
        /\ clicks = 0 /\ faults = 0

Click == clicks < MaxClicks /\ clicks' = clicks + 1 /\ UNCHANGED faults
Fault == faults < MaxFaults /\ faults' = faults + 1 /\ UNCHANGED clicks
Quietly == UNCHANGED <<clicks, faults>>

-----------------------------------------------------------------------------
(* The user.                                                               *)

Cmd(op, ch, kind, id) == [op |-> op, ch |-> ch, kind |-> kind, id |-> id, ok |-> FALSE]
Send(cs) == wire' = [wire EXCEPT !.sent = @ \o cs]

\* pending_ holds a command of this kind: it was sent, or its answer is on its way.
Pending(op) ==
  \/ \E i \in DOMAIN wire.sent : wire.sent[i].op = op
  \/ \E i \in DOMAIN wire.news : wire.news[i].op = op

LeaveFirst == IF media.chan = None THEN <<>> ELSE <<Cmd("leave", media.chan, "music", 0)>>

\* The last join under way is of another channel than the one shown: leaveVoice has set the
\* channel back, or an older join's answer has.  The next join is not preceded by its leave.
Unsure ==
  LET all == wire.news \o wire.sent
  IN \E i \in DOMAIN all : /\ all[i].op = "join" /\ all[i].ch # media.chan
                           /\ \A j \in i + 1 .. Len(all) : all[j].op # "join"

JoinVoice(c) ==
  /\ Click
  /\ ~(media.chan = c /\ media.state \notin {"Idle", "Failed"})
  /\ media' = [media EXCEPT !.chan = c, !.state = "Preparing",
                            !.lapsed = @ \/ Unsure]
  /\ Send(Append(LeaveFirst, Cmd("join", c, "music", 0)))
  /\ UNCHANGED gateway

LeaveVoice ==
  /\ Click
  /\ media.chan # None
  /\ media' = [media EXCEPT !.state = "Closing"]
  /\ Send(LeaveFirst)
  /\ UNCHANGED gateway

\* startMusicShare, startStream: what is owned is known from the answer on.
Start(k) ==
  /\ Click
  /\ media.chan # None /\ media.own[k] = 0
  /\ Send(<<Cmd("start", media.chan, k, 0)>>)
  /\ UNCHANGED <<media, gateway>>

Stops(k) == IF media.own[k] = 0 THEN <<>> ELSE <<Cmd("stop", media.chan, k, media.own[k])>>
Unwatches(k) == IF media.heard[k] = 0 THEN <<>> ELSE <<Cmd("unwatch", media.chan, k, 0)>>

StopOwnedStream ==
  /\ Click
  /\ media.own["stream"] # 0
  /\ Send(Stops("stream"))
  /\ UNCHANGED <<media, gateway>>

\* The channel named is the user's, not the stream's: another one is acknowledged for nothing.
UnwatchStream ==
  /\ Click
  /\ media.heard["stream"] # 0
  /\ media' = [media EXCEPT !.lapsed = @ \/ media.chan \notin {Home, None}]
  /\ Send(Unwatches("stream"))
  /\ UNCHANGED gateway

StopAllMusic ==
  /\ Click
  /\ Send(Stops("music") \o Unwatches("music"))
  /\ UNCHANGED <<media, gateway>>

\* listenToMusic, watchStream.
Watch(k) ==
  /\ Click
  /\ media.chan = Home /\ media.heard[k] = 0
  /\ Send(<<Cmd("watch", Home, k, 0)>>)
  /\ UNCHANGED <<media, gateway>>

\* Disconnecting, logging out, or choosing a server: every session stops, and the gateway
\* clears a connection that is gone.
Shutdown ==
  /\ Click
  /\ media' = Silent /\ gateway' = Cleared(gateway.air) /\ wire' = NoWire

-----------------------------------------------------------------------------
(* The gateway, a command at a time.                                       *)

Used == {media.sess, gateway.voice} \cup media.running
        \cup UNION {{media.own[k], media.heard[k], gateway.pub[k], gateway.sub[k]} : k \in Kind}
        \cup {wire.news[i].id : i \in {j \in DOMAIN wire.news : wire.news[j].op # "mode"}}
        \cup {wire.sent[i].id : i \in DOMAIN wire.sent}
NewSession == CHOOSE s \in RtcSession : s \notin Used
Room == RtcSession \ Used # {}

Next1(op) == wire.sent # <<>> /\ Head(wire.sent).op = op

Reply(ok, id) ==
  wire' = [sent |-> Tail(wire.sent),
           news |-> Append(wire.news, [Head(wire.sent) EXCEPT !.ok = ok, !.id = id])]

\* leaveChannelForUser of the three rooms.
Left(g) ==
  LET here(k) == g.at[k] = g.room
  IN [g EXCEPT !.room = None, !.voice = 0,
               !.pub = [k \in Kind |-> IF here(k) THEN 0 ELSE @[k]],
               !.at = [k \in Kind |-> IF here(k) THEN None ELSE @[k]],
               !.sub = IF g.room = Home THEN NoRtcSession ELSE @]

JoinServed ==
  /\ Next1("join")
  /\ LET c == Head(wire.sent).ch
     IN IF gateway.room = c THEN Reply(FALSE, 0) /\ UNCHANGED gateway
        ELSE /\ Room
             /\ Reply(TRUE, NewSession)
             /\ gateway' = [Left(gateway) EXCEPT !.room = c, !.voice = NewSession]
  /\ UNCHANGED media /\ Quietly

\* The old room is left before the new media session is asked for.
JoinRefused ==
  /\ Next1("join") /\ gateway.room # Head(wire.sent).ch
  /\ Fault
  /\ Reply(FALSE, 0) /\ gateway' = Left(gateway)
  /\ UNCHANGED media

LeaveServed ==
  /\ Next1("leave")
  /\ LET here == gateway.room = Head(wire.sent).ch
     IN Reply(here, 0) /\ gateway' = IF here THEN Left(gateway) ELSE gateway
  /\ UNCHANGED media /\ Quietly

\* Music is shared by members of the room, a stream by anyone.
StartServed ==
  /\ Next1("start")
  /\ LET c == Head(wire.sent)
         ok == gateway.pub[c.kind] = 0 /\ (c.kind = "music" => gateway.room = c.ch)
     IN /\ ok => Room
        /\ Reply(ok, IF ok THEN NewSession ELSE 0)
        /\ gateway' = IF ok THEN [gateway EXCEPT !.pub[c.kind] = NewSession, !.at[c.kind] = c.ch]
                      ELSE gateway
  /\ UNCHANGED media /\ Quietly

StopServed ==
  /\ Next1("stop")
  /\ LET c == Head(wire.sent)
         ok == gateway.pub[c.kind] = c.id /\ gateway.at[c.kind] = c.ch
     IN /\ Reply(ok, 0)
        /\ gateway' = IF ok THEN [gateway EXCEPT !.pub[c.kind] = 0, !.at[c.kind] = None] ELSE gateway
  /\ UNCHANGED media /\ Quietly

\* A second watch is answered with the first one's session.
WatchServed ==
  /\ Next1("watch")
  /\ LET k == Head(wire.sent).kind
         ok == gateway.air[k] /\ (k = "music" => gateway.room = Home)
         id == IF gateway.sub[k] # 0 THEN gateway.sub[k] ELSE NewSession
     IN /\ ok /\ gateway.sub[k] = 0 => Room
        /\ Reply(ok, IF ok THEN id ELSE 0)
        /\ gateway' = IF ok THEN [gateway EXCEPT !.sub[k] = id] ELSE gateway
  /\ UNCHANGED media /\ Quietly

\* A channel that is not one is refused; the rest is acknowledged.
UnwatchServed ==
  /\ Next1("unwatch")
  /\ LET c == Head(wire.sent)
     IN /\ Reply(c.ch # None, 0)
        /\ gateway' = IF c.ch = Home THEN [gateway EXCEPT !.sub[c.kind] = 0] ELSE gateway
  /\ UNCHANGED media /\ Quietly

\* applyMediaMode: every room is cleared, and those who were in one are told.
ModeChanged ==
  /\ Fault
  /\ gateway' = Cleared([k \in Kind |-> FALSE])
  /\ wire' = IF gateway.room = None /\ gateway.pub = NoRtcSession /\ gateway.sub = NoRtcSession THEN wire
             ELSE [wire EXCEPT !.news = Append(@, [op |-> "mode"])]
  /\ UNCHANGED media

\* The other user stops: the viewer's session is not told apart from one that runs.
HostStops(k) ==
  /\ gateway.air[k] /\ Fault
  /\ gateway' = [gateway EXCEPT !.air[k] = FALSE, !.sub[k] = 0]
  /\ media' = [media EXCEPT !.lapsed = @ \/ gateway.sub[k] # 0]
  /\ UNCHANGED wire

-----------------------------------------------------------------------------
(* The coordinator and the backend.                                        *)

Shares(m) == \E k \in Kind : m.own[k] # 0 \/ m.heard[k] # 0

\* clearVoiceState.
ClearVoice(m, state) == [m EXCEPT !.chan = None, !.sess = 0, !.state = state]

\* NativeRtcBackend::stopSession, by the id that is known.
StopSession(m, s) == [m EXCEPT !.running = @ \ {s}]

\* The command answered next succeeded.
Came(op) == wire.news # <<>> /\ Head(wire.news).op = op /\ Head(wire.news).ok
Read == wire' = [wire EXCEPT !.news = Tail(@)]

\* startConfiguredSession.
Joined ==
  /\ Came("join")
  /\ LET n == Head(wire.news)
     IN media' = [media EXCEPT !.chan = n.ch, !.sess = n.id, !.state = "Active",
                               !.running = @ \cup {n.id}]
  /\ Read /\ UNCHANGED gateway /\ Quietly

Started ==
  /\ Came("start")
  /\ LET n == Head(wire.news)
     IN media' = [media EXCEPT !.own[n.kind] = n.id, !.running = @ \cup {n.id}]
  /\ Read /\ UNCHANGED gateway /\ Quietly

\* The source cannot be captured: the stream's id is forgotten, the music's is kept.
StartFailed ==
  /\ Came("start")
  /\ Fault
  /\ LET n == Head(wire.news)
     IN media' = [media EXCEPT !.own[n.kind] = IF n.kind = "music" THEN n.id ELSE 0,
                               !.lapsed = TRUE]
  /\ Read /\ UNCHANGED gateway

Watched ==
  /\ Came("watch")
  /\ LET n == Head(wire.news)
     IN media' = [media EXCEPT !.heard[n.kind] = n.id, !.running = @ \cup {n.id}]
  /\ Read /\ UNCHANGED gateway /\ Quietly

\* A mutant of VoiceLeft: the session is forgotten, not stopped.
VoiceLeftKeepsSession ==
  /\ Came("leave")
  /\ media' = [ClearVoice(media, "Idle") EXCEPT !.lapsed = @ \/ Shares(media)]
  /\ Read /\ UNCHANGED gateway /\ Quietly

\* What is shared or watched in the room outlives the voice session on this side only.
VoiceLeft ==
  /\ Came("leave")
  /\ media' = [ClearVoice(StopSession(media, media.sess), "Idle")
                 EXCEPT !.lapsed = @ \/ Shares(media)]
  /\ Read /\ UNCHANGED gateway /\ Quietly

Stopped ==
  /\ Came("stop")
  /\ LET k == Head(wire.news).kind
     IN media' = [StopSession(media, media.own[k]) EXCEPT !.own[k] = 0]
  /\ Read /\ UNCHANGED gateway /\ Quietly

Unwatched ==
  /\ Came("unwatch")
  /\ LET k == Head(wire.news).kind
     IN media' = [StopSession(media, media.heard[k]) EXCEPT !.heard[k] = 0]
  /\ Read /\ UNCHANGED gateway /\ Quietly

\* handleGatewayError: only a failed join changes anything.
Failing(m, op) == IF op = "join" THEN ClearVoice(m, "Failed") ELSE m

CommandFailed ==
  /\ wire.news # <<>> /\ Head(wire.news).op # "mode" /\ ~Head(wire.news).ok
  /\ media' = Failing(media, Head(wire.news).op)
  /\ Read /\ UNCHANGED gateway /\ Quietly

\* The answer came after the command's timer.
AnsweredLate ==
  /\ wire.news # <<>> /\ Head(wire.news).op # "mode" /\ Head(wire.news).ok
  /\ Fault
  /\ media' = [Failing(media, Head(wire.news).op) EXCEPT !.lapsed = TRUE]
  /\ Read /\ UNCHANGED gateway

\* recoverActiveSessions, which joins again: not after an outstanding join, and not for shares.
Recovered ==
  /\ wire.news # <<>> /\ Head(wire.news).op = "mode"
  /\ LET m == [media EXCEPT !.lapsed = @ \/ Shares(media) \/ (media.chan # None /\ Pending("join"))]
         rest == [wire EXCEPT !.news = Tail(@)]
     IN IF m.chan = None THEN media' = m /\ wire' = rest
        ELSE /\ media' = [StopSession(m, m.sess) EXCEPT !.sess = 0, !.state = "Recovering"]
             /\ wire' = [rest EXCEPT !.sent = Append(@, Cmd("join", m.chan, "music", 0))]
  /\ UNCHANGED gateway /\ Quietly

\* A peer or the SFU set-up failed: the coordinator forgets the session, the backend keeps it.
SessionFailed ==
  /\ Fault
  /\ \/ /\ media.sess \in media.running
        /\ media' = [ClearVoice(media, "Failed") EXCEPT !.lapsed = TRUE]
     \/ /\ media.own["stream"] \in media.running
        /\ media' = [media EXCEPT !.own["stream"] = 0, !.lapsed = TRUE]
  /\ UNCHANGED <<gateway, wire>>

\* The connection is lost: the commands fail, the gateway clears the rooms, and nothing asks
\* the coordinator to recover.
Lost ==
  /\ Fault
  /\ gateway' = Cleared(gateway.air) /\ wire' = NoWire
  /\ LET m == IF Pending("join") THEN Failing(media, "join") ELSE media
     IN media' = [m EXCEPT !.lapsed = @ \/ m.chan # None \/ m.running # {}]

Next ==
  \/ \E c \in Channel : JoinVoice(c)
  \/ \E k \in Kind : Start(k) \/ Watch(k) \/ HostStops(k)
  \/ LeaveVoice \/ StopOwnedStream \/ UnwatchStream \/ StopAllMusic \/ Shutdown
  \/ JoinServed \/ JoinRefused \/ LeaveServed \/ StartServed \/ StopServed
  \/ WatchServed \/ UnwatchServed \/ ModeChanged
  \/ Joined \/ Started \/ StartFailed \/ Watched \/ VoiceLeft \/ Stopped \/ Unwatched
  \/ CommandFailed \/ AnsweredLate \/ Recovered \/ SessionFailed \/ Lost

-----------------------------------------------------------------------------
\* When every command is answered, the coordinator, the backend and the gateway agree: the
\* channel shown is the one the gateway has the user in, its session is the one that runs,
\* what is owned or watched is live there, and the backend runs no session that nobody can
\* stop.  It fails from the first of the events named lapsed on, until a shutdown.
MediaSettles ==
  wire = NoWire /\ ~media.lapsed =>
    /\ media.chan = gateway.room /\ media.sess = gateway.voice
    /\ media.state \in IF media.chan = None THEN {"Idle", "Failed"} ELSE {"Active"}
    /\ media.own = gateway.pub /\ media.heard = gateway.sub
    /\ media.running = {s \in RtcSession : \/ s = media.sess
                                        \/ \E k \in Kind : s \in {media.own[k], media.heard[k]}}
=============================================================================
