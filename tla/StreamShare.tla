---------------------------- MODULE StreamShare ----------------------------
(***************************************************************************)
(* The live stream a client publishes: the owned half of features/stream/  *)
(* stream-store.ts, with the retries of features/recovery/recovery-store.ts*)
(* and what apps/gateway/src/ws/event-router.ts answers to its commands.   *)
(* The store runs on one thread; a Flow is one of its asynchronous         *)
(* functions between two awaits.                                           *)
(*                                                                         *)
(* A session number stands for the stream id and the session id the gateway*)
(* draws together in stream.start; media.session.reconnect keeps both.  The*)
(* gateway is what the store uses of it: it hosts one publication of this  *)
(* connection or none, and tells it of every change before it answers the  *)
(* command that made it.  A lost connection rejects the commands that await*)
(* their ack and ends the publication.  Viewers, quality, codecs, preview, *)
(* statistics, what this client watches (StreamWatch) and the fallback for *)
(* gateways without media.session.reconnect are left out.                  *)
(***************************************************************************)
EXTENDS FiniteSets, Naturals

CONSTANTS
  Flow,         \* asynchronous functions under way at once
  MaxSessions,  \* bound: publications the gateway registers
  MaxCaptures,  \* bound: captures the user grants
  MaxFaults     \* bound: drops, refusals, timeouts, failed setups, ended captures

VARIABLES
  share,   \* the store, its ownedRuntime and the gateway's side: ShareRec
  faults

shareVars == <<share, faults>>

Status == {"none", "capturing", "starting", "reconnecting", "live", "stopping"}
Sid == 0..MaxSessions   \* 0: null
Cap == 0..MaxCaptures   \* 0: null

\* Those of the first set are rejected when the connection goes, and so are the
\* commands an SFU setup sends.
Commands == {"start", "started", "undo", "stop", "reconnect"}
Setups == {"produce", "rebuild"}

FlowRec == [at: {"none", "capture", "select", "swap"} \cup Commands \cup Setups,
            cap: Cap,
            sid: Sid,
            sfu: BOOLEAN,    \* the media mode of its ack
            again: BOOLEAN,  \* a restore of handleMediaModeUpdated
            retry: BOOLEAN,  \* begun by handleGatewayReconnected, which retries
            own: BOOLEAN,    \* nobody changed the publication since it did
            rec: Sid]        \* the recovery it reports to

RecoveryRec == [attempt: {"none", "media", "restore"}, phase: {"none", "running", "timer"}]

RuntimeRec == [sid: Sid,   \* 0: ownedRuntime is null
               cap: Cap,   \* localStream
               sent: Cap]  \* what manager or sfuSession sends, 0: no transport

ShareRec == [status: Status,           \* ownedStream.status, none: null
             sid: Sid,                 \* ownedStream.sessionId
             run: RuntimeRec,
             live: SUBSET Cap,         \* captures whose tracks run
             made: Cap,
             watched: SUBSET Cap,      \* captures with the `ended' listener
             camera: BOOLEAN,          \* sourceType
             flows: [Flow -> FlowRec],
             recovery: [1..MaxSessions -> RecoveryRec],
             link: BOOLEAN,            \* the gateway connection is ready
             hosted: Sid,              \* the publication the gateway has
             next: Sid,
             sfu: BOOLEAN,             \* the gateway's media mode
             lapsed: BOOLEAN]          \* see Lapse

NoFlow == [at |-> "none", cap |-> 0, sid |-> 0, sfu |-> FALSE, again |-> FALSE,
           retry |-> FALSE, own |-> FALSE, rec |-> 0]
NoRecovery == [attempt |-> "none", phase |-> "none"]
NoRuntime == [sid |-> 0, cap |-> 0, sent |-> 0]

TypeOK ==
  /\ share \in ShareRec
  /\ faults \in 0..MaxFaults

Init ==
  /\ share \in [status: {"none"}, sid: {0}, run: {NoRuntime}, live: {{}}, made: {0},
                watched: {{}}, camera: {FALSE}, flows: {[f \in Flow |-> NoFlow]},
                recovery: {[s \in 1..MaxSessions |-> NoRecovery]},
                link: {TRUE}, hosted: {0}, next: {0}, sfu: BOOLEAN, lapsed: {FALSE}]
  /\ faults = 0

-----------------------------------------------------------------------------
(* The functions the handlers share, on a ShareRec.                        *)

Put(v, f, flow) == [v EXCEPT !.flows[f] = flow]
Free(v, f) == Put(v, f, NoFlow)

\* Whoever changes the publication takes it from the flows under way.
Touch(v) == [v EXCEPT !.flows = [f \in Flow |-> [v.flows[f] EXCEPT !.own = FALSE]]]

\* ownedStream: replaced, or changed when there is one.
Show(v, status, s) == [Touch(v) EXCEPT !.status = status, !.sid = s]
ShowIfAny(v, status) == IF v.status = "none" THEN v ELSE Show(v, status, v.sid)

\* What no function of the store guards against: see the README.
Lapse(v) == [v EXCEPT !.lapsed = TRUE]
Cross(v, f) == IF v.flows[f].own THEN v ELSE Lapse(v)

SuspendOwned(v) == [v EXCEPT !.run.sent = 0]

TeardownOwned(v) == [Touch(v) EXCEPT !.live = @ \ {v.run.cap}, !.run = NoRuntime]

ResolveRecovery(v, s) ==
  IF s = 0 THEN v
  ELSE [v EXCEPT !.recovery[s] = NoRecovery,
                 !.flows = [f \in Flow |-> IF v.flows[f].rec = s
                                           THEN [v.flows[f] EXCEPT !.rec = 0] ELSE v.flows[f]]]

\* The attempt of a flow threw, or was done; a cancelled one reports to nobody.
AttemptEnds(v, s, ok) ==
  IF s = 0 THEN v
  ELSE IF ok THEN [v EXCEPT !.recovery[s] = NoRecovery]
  ELSE [v EXCEPT !.recovery[s].phase = "timer"]

\* Mutant of Reconcile: a publication that is gone stays up here.
ReconcileKeeps(v) ==
  IF v.run.sid = 0 THEN v
  ELSE IF v.hosted # v.run.sid THEN v
  ELSE IF v.status = "none" THEN v
  ELSE [v EXCEPT !.status = "live", !.sid = v.hosted]

\* stream.state.updated: `live' is set whatever the transport does.
Reconcile(v) ==
  IF v.run.sid = 0 THEN v
  ELSE IF v.hosted # v.run.sid THEN Show(TeardownOwned(v), "none", 0)
  ELSE IF v.status = "none" THEN v
  ELSE [v EXCEPT !.status = "live", !.sid = v.hosted]

\* The gateway has no publication any more: told before the answer of its own
\* stream.start is handled, the store ignores it.
Unhost(v) == [v EXCEPT !.hosted = 0,
                       !.lapsed = @ \/ \E f \in Flow : v.flows[f].at \in {"started", "produce"}]

\* stream.stop, from its handling to its answer: the gateway tells of the end.
StopHosted(v, s) == IF s # 0 /\ v.hosted = s THEN Reconcile(Unhost(v)) ELSE v

\* attemptOwnedMediaRecovery up to its command, in the slot f.
BeginReconnect(v, f, flow) ==
  Put(v, f, [flow EXCEPT !.at = "reconnect", !.cap = v.run.cap, !.sid = v.run.sid, !.own = TRUE])

\* handleMediaModeUpdated up to its command, in the slot f.
BeginRestore(v, f, flow) ==
  LET registered == v.run.sid # 0 /\ v.sid = v.run.sid /\ v.status = "reconnecting"
      reusable == v.run.sid # 0 /\ v.run.cap \in v.live
      suspended == SuspendOwned(v)
      shown == CASE registered -> suspended
                 [] ~registered /\ reusable -> Show(suspended, "starting", 0)
                 [] ~registered /\ ~reusable -> Show(suspended, "none", 0)
  IN CASE reusable /\ registered -> BeginReconnect(shown, f, [flow EXCEPT !.again = TRUE])
       [] reusable /\ ~registered ->
            Put(shown, f, [flow EXCEPT !.at = "start", !.again = TRUE, !.cap = v.run.cap,
                                       !.own = TRUE])
       [] ~reusable -> shown

\* runRecovery: the attempt runs at once up to its first await.  One that may
\* not be retried abandons the publication, which is not stopped at the gateway.
RunRecovery(v, s, f) ==
  LET running == [v EXCEPT !.recovery[s].phase = "running"]
      ended == [v EXCEPT !.recovery[s] = NoRecovery]
      flow == [NoFlow EXCEPT !.rec = s, !.retry = TRUE]
      restore == BeginRestore(running, f, flow)
  IN CASE v.recovery[s].attempt = "restore" ->
            IF v.run.sid = 0 THEN ended
            ELSE IF restore.flows[f].at = "none" THEN [restore EXCEPT !.recovery[s] = NoRecovery]
            ELSE restore
       [] v.recovery[s].attempt = "media" ->
            IF v.run.cap \in v.live THEN BeginReconnect(running, f, [flow EXCEPT !.retry = FALSE])
            ELSE [Show(TeardownOwned(ended), "none", 0) EXCEPT !.lapsed = @ \/ v.run.sid # 0]

StartRecovery(v, s, attempt, f) ==
  IF s = 0 \/ v.recovery[s].attempt # "none" THEN v
  ELSE RunRecovery([v EXCEPT !.recovery[s].attempt = attempt], s, f)

GatewayWillReconnect(v) ==
  IF v.status = "none" THEN v
  ELSE Show(SuspendOwned(ResolveRecovery(v, v.run.sid)), "reconnecting", 0)

-----------------------------------------------------------------------------

At(f) == share.flows[f].at
Broken(f) == ~share.link /\ (At(f) \in Commands \/ (At(f) \in Setups /\ share.flows[f].sfu))
Calm == \A f \in Flow : ~Broken(f)

Slot == CHOOSE f \in Flow : At(f) = "none"
HasSlot == Calm /\ \E f \in Flow : At(f) = "none"

Fault == faults < MaxFaults /\ faults' = faults + 1
NoFault == UNCHANGED faults

\* Rejected with the connection, or else refused or failed: a fault.
Fails(f) == IF Broken(f) THEN NoFault ELSE Calm /\ Fault

-----------------------------------------------------------------------------
(* startSharing.                                                           *)

\* The share dialog asks for it once at a time, and only while nothing is shown.
Start ==
  /\ HasSlot
  /\ share.link
  /\ share.status = "none" /\ share.run.sid = 0
  /\ \A f \in Flow : ~(At(f) # "none" /\ share.flows[f].rec = 0 /\ ~share.flows[f].again
                       /\ At(f) \in {"capture", "start", "started", "produce", "undo"})
  /\ share.made < MaxCaptures
  /\ \E camera \in BOOLEAN :
       share' = Put([Show(share, "capturing", 0) EXCEPT !.made = @ + 1, !.camera = camera], Slot,
                    [NoFlow EXCEPT !.at = "capture", !.cap = share.made + 1, !.own = TRUE])
  /\ NoFault

CaptureGranted(f) ==
  /\ At(f) = "capture"
  /\ Calm
  /\ LET v == [Cross(share, f) EXCEPT !.live = @ \cup {share.flows[f].cap}]
     IN share' = [ShowIfAny(v, "starting") EXCEPT !.flows[f].at = "start", !.flows[f].own = TRUE]
  /\ NoFault

CaptureDenied(f) ==
  /\ At(f) = "capture"
  /\ Calm
  /\ Fault
  /\ share' = Show(Free(Cross(share, f), f), "none", 0)

\* The gateway registers a publication: every member of the channel is told,
\* this connection first, and then the command is answered.
Publish(f) ==
  /\ At(f) = "start"
  /\ Calm
  /\ share.hosted = 0
  /\ share.next < MaxSessions
  /\ share' = Reconcile([share EXCEPT !.next = @ + 1, !.hosted = share.next + 1,
                                      !.flows[f].at = "started", !.flows[f].sid = share.next + 1])
  /\ NoFault

\* handleGatewayReconnected keeps trying; the event that changes the mode of the
\* media does not.
RestoreFails(v, f) ==
  LET flow == v.flows[f]
      shown == Free(ShowIfAny(Cross(v, f), "reconnecting"), f)
  IN AttemptEnds(IF flow.retry THEN StartRecovery(shown, shown.run.sid, "restore", f)
                 ELSE Lapse(shown), flow.rec, FALSE)

\* Mutant of StartFails: the capture made for a refused stream runs on.
StartFailsBarely(v, f) ==
  LET flow == v.flows[f]
  IN IF flow.again THEN RestoreFails(v, f)
     ELSE Show(Free(Cross(v, f), f), "none", 0)

StartFails(v, f) ==
  LET flow == v.flows[f]
  IN IF flow.again THEN RestoreFails(v, f)
     ELSE Show([Free(Cross(v, f), f) EXCEPT !.live = @ \ {flow.cap}], "none", 0)

\* Refused, the second time at the latest when a publication is hosted already.
StartRefused(f) ==
  /\ At(f) = "start"
  /\ IF share.hosted # 0 /\ Calm THEN NoFault ELSE Fails(f)
  /\ share' = StartFails(share, f)

\* The answer was lost: nothing stops what the gateway registered.
StartUnanswered(f) ==
  /\ At(f) = "started"
  /\ Fails(f)
  /\ share' = StartFails(IF Broken(f) THEN share ELSE Lapse(share), f)

GoLive(v, f) ==
  LET flow == v.flows[f]
  IN AttemptEnds(Show(Free(v, f), "live", flow.sid), flow.rec, TRUE)

Started(f) ==
  /\ At(f) = "started"
  /\ share.link
  /\ LET flow == share.flows[f]
         run == [sid |-> flow.sid, cap |-> flow.cap, sent |-> IF share.sfu THEN 0 ELSE flow.cap]
         v == [Touch(Cross(share, f)) EXCEPT !.run = run,
                 !.watched = IF flow.again THEN @ ELSE @ \cup {flow.cap}]
         shown == IF flow.again /\ v.status # "none" THEN [v EXCEPT !.sid = flow.sid] ELSE v
     IN share' = IF share.sfu
                 THEN [shown EXCEPT !.flows[f].at = "produce", !.flows[f].sfu = TRUE, !.flows[f].own = TRUE]
                 ELSE GoLive(shown, f)
  /\ NoFault

\* Whatever became of the publication it is shown as live.
Produced(f) ==
  /\ At(f) = "produce"
  /\ Calm
  /\ share.flows[f].cap \in share.live
  /\ LET v == Cross(share, f)
     IN share' = GoLive(IF v.run.sid = 0 THEN v ELSE [v EXCEPT !.run.sent = v.flows[f].cap], f)
  /\ NoFault

\* An ended track cannot be produced.
ProduceFails(f) ==
  /\ At(f) = "produce"
  /\ IF Calm /\ share.flows[f].cap \notin share.live THEN NoFault ELSE Fails(f)
  /\ LET v == Cross(share, f)
     IN share' = IF v.flows[f].again THEN RestoreFails(SuspendOwned(v), f)
                 ELSE [v EXCEPT !.flows[f].at = "undo"]

\* The stop that follows was answered, or was not.
Undone(f) ==
  /\ At(f) = "undo"
  /\ IF Broken(f) THEN NoFault /\ share' = Show(Free(TeardownOwned(share), f), "none", 0)
     ELSE LET v == Cross(share, f) IN
          /\ Calm
          /\ \/ NoFault /\ share' = Show(Free(TeardownOwned(StopHosted(v, v.flows[f].sid)), f), "none", 0)
             \/ Fault /\ share' = Show(Free(TeardownOwned(Lapse(v)), f), "none", 0)

-----------------------------------------------------------------------------
(* stopSharing, the capture's end and selectCamera.                        *)

Stop ==
  /\ HasSlot
  /\ share.run.sid # 0
  /\ share' = LET v == TeardownOwned(ShowIfAny(share, "stopping"))
              IN Put(v, Slot, [NoFlow EXCEPT !.at = "stop", !.sid = share.run.sid, !.own = TRUE])
  /\ NoFault

Stopped(f) ==
  /\ At(f) = "stop"
  /\ LET shown(v) == Show(Free(v, f), "none", 0)
     IN IF Broken(f) THEN NoFault /\ share' = shown(Cross(share, f))
        ELSE /\ Calm
             /\ \/ NoFault /\ share' = shown(StopHosted(Cross(share, f), share.flows[f].sid))
                \/ Fault /\ share' = shown(Lapse(share))

\* The browser or the system ends a capture.  The listener, registered once the
\* stream has started, knows the capture the stream started with.
CaptureEnds(c) ==
  /\ Calm
  /\ c \in share.live
  /\ Fault
  /\ LET v == [share EXCEPT !.live = @ \ {c}]
     IN share' = IF c \in v.watched /\ v.run.cap = c /\ v.run.sid # 0 /\ v.status # "stopping"
                 THEN StopHosted(Show(TeardownOwned(ResolveRecovery(v, v.run.sid)), "none", 0), v.run.sid)
                 ELSE Lapse(v)

\* The recovery is given up, whatever the camera does.
SelectCamera ==
  /\ HasSlot
  /\ share.run.sid # 0 /\ share.camera /\ share.status # "none"
  /\ share.made < MaxCaptures
  /\ LET v == ResolveRecovery(share, share.run.sid)
     IN share' = Put([v EXCEPT !.made = @ + 1,
                                  !.lapsed = @ \/ share.recovery[share.run.sid] # NoRecovery], Slot,
                     [NoFlow EXCEPT !.at = "select", !.cap = v.made + 1, !.sid = v.run.sid, !.own = TRUE])
  /\ NoFault

\* The new camera is released when the runtime was replaced meanwhile.
CameraGranted(f) ==
  /\ At(f) = "select"
  /\ Calm
  /\ share' = IF share.run.sid # share.flows[f].sid THEN Free(share, f)
              ELSE [share EXCEPT !.live = @ \cup {share.flows[f].cap}, !.flows[f].at = "swap"]
  /\ NoFault

\* replaceOutgoingVideoTrack is asked of the WebRtcManager only: an SFU session
\* goes on with the track that is stopped now.  The runtime is not looked at
\* again.
CameraSwapped(f) ==
  /\ At(f) = "swap"
  /\ Calm
  /\ LET flow == share.flows[f]
         same == share.run.sid = flow.sid
         v == Free(share, f)
     IN share' = IF ~same THEN Lapse(v)
                 ELSE [v EXCEPT !.live = @ \ {v.run.cap}, !.run.cap = flow.cap,
                                !.run.sent = IF share.sfu \/ @ = 0 THEN @ ELSE flow.cap,
                                !.lapsed = @ \/ share.sfu \/ \E g \in Flow : v.flows[g].cap = share.run.cap]
  /\ NoFault

\* Permission denied, or a sender that takes no other track: the old camera stays.
CameraFails(f) ==
  /\ At(f) \in {"select", "swap"}
  /\ Calm
  /\ Fault
  /\ share' = [Free(share, f) EXCEPT !.live = @ \ {share.flows[f].cap}]

-----------------------------------------------------------------------------
(* The gateway connection and the events.                                  *)

Drop ==
  /\ Calm
  /\ share.link
  /\ Fault
  /\ share' = GatewayWillReconnect([share EXCEPT !.link = FALSE, !.hosted = 0])

\* handleGatewayReconnected; without a runtime there is nothing to restore.
Reconnected ==
  /\ HasSlot
  /\ ~share.link
  /\ LET v == [share EXCEPT !.link = TRUE]
     IN share' = IF v.run.sid = 0 THEN v ELSE BeginRestore(v, Slot, [NoFlow EXCEPT !.retry = TRUE])
  /\ NoFault

\* handleGatewayDisconnected, reset: signed out, or another server.
Disconnected ==
  /\ Calm
  /\ Fault
  /\ LET v == TeardownOwned(ResolveRecovery(share, share.run.sid))
     IN share' = Show([v EXCEPT !.link = FALSE, !.hosted = 0], "none", 0)

\* media.mode.updated; the gateway emptied its rooms before.
ModeUpdated ==
  /\ HasSlot
  /\ share.link
  /\ Fault
  /\ share' = BeginRestore([Unhost(share) EXCEPT !.sfu = ~@], Slot, NoFlow)

\* Somebody else starts, stops or watches a stream in the channel.
StateUpdated ==
  /\ Calm
  /\ share.link
  /\ share' = Reconcile(share)
  /\ NoFault

\* The gateway ends the publication by itself: an administrator, its channel.
Unpublished ==
  /\ Calm
  /\ share.hosted # 0
  /\ Fault
  /\ share' = Reconcile(Unhost(share))

-----------------------------------------------------------------------------
(* The recovery of the transport.                                          *)

\* beginOwnedMediaRecovery, from the timers of a peer or a transport.
ConnectionFails ==
  /\ HasSlot
  /\ share.run.sid # 0 /\ share.run.sent # 0
  /\ Fault
  /\ share' = StartRecovery(ShowIfAny(share, "reconnecting"), share.run.sid, "media", Slot)

\* The access to the session was refused, or its answer lost, or the setup failed.
RecoveryFails(f) ==
  LET flow == share.flows[f]
  IN /\ At(f) \in {"reconnect", "rebuild"}
     /\ IF Calm /\ At(f) = "reconnect" /\ share.hosted # flow.sid THEN NoFault ELSE Fails(f)
     /\ share' = IF flow.again THEN RestoreFails(share, f)
                 ELSE AttemptEnds(Free(share, f), flow.rec, FALSE)

Reconnect(f) ==
  /\ At(f) = "reconnect"
  /\ Calm
  /\ share.hosted = share.flows[f].sid
  /\ LET v == SuspendOwned(Cross(share, f))
     IN share' = [v EXCEPT !.flows[f].at = "rebuild", !.flows[f].sfu = v.sfu,
                           !.run.sent = IF v.sfu \/ v.run.sid = 0 THEN 0 ELSE v.run.cap]
  /\ NoFault

Rebuilt(f) ==
  /\ At(f) = "rebuild"
  /\ Calm
  /\ LET flow == share.flows[f]
         v == Cross(share, f)
         w == IF v.run.sid = 0 THEN v ELSE [v EXCEPT !.run.sent = v.run.cap]
         shown == IF w.status = "none" THEN w ELSE Show(w, "live", flow.sid)
     IN share' = AttemptEnds(Free(shown, f), flow.rec, TRUE)
  /\ NoFault

\* The timer of a recovery, or retryMediaRecoveryNow.
Retry(s) ==
  /\ HasSlot
  /\ share.recovery[s].phase = "timer"
  /\ share' = RunRecovery(share, s, Slot)
  /\ NoFault

\* abandonAllMediaRecovery: the gateway is not told.
Abandon ==
  /\ Calm
  /\ \E s \in 1..MaxSessions : share.recovery[s].phase = "timer"
  /\ Fault
  /\ LET resolved == [share EXCEPT
           !.recovery = [s \in 1..MaxSessions |-> NoRecovery],
           !.flows = [f \in Flow |-> [share.flows[f] EXCEPT !.rec = 0]],
           !.lapsed = @ \/ share.hosted # 0]
     IN share' = Show(TeardownOwned(resolved), "none", 0)

-----------------------------------------------------------------------------

Next ==
  \/ Start \/ Stop \/ SelectCamera \/ Drop \/ Reconnected \/ Disconnected
  \/ ModeUpdated \/ StateUpdated \/ Unpublished \/ ConnectionFails \/ Abandon
  \/ \E f \in Flow :
       \/ CaptureGranted(f) \/ CaptureDenied(f) \/ Publish(f) \/ StartRefused(f)
       \/ StartUnanswered(f) \/ Started(f) \/ Produced(f) \/ ProduceFails(f) \/ Undone(f)
       \/ Stopped(f) \/ CameraGranted(f) \/ CameraSwapped(f) \/ CameraFails(f)
       \/ RecoveryFails(f) \/ Reconnect(f) \/ Rebuilt(f)
  \/ \E c \in Cap : CaptureEnds(c)
  \/ \E s \in 1..MaxSessions : Retry(s)

Spec == Init /\ [][Next]_shareVars

-----------------------------------------------------------------------------
(* Properties.                                                             *)

\* No camera or screen is recorded that nothing holds: a capture that runs is
\* the runtime's or of a function that has not finished with it.
CaptureReleased ==
  ~share.lapsed =>
    share.live \subseteq {share.run.cap} \cup {share.flows[f].cap : f \in Flow}

\* When nothing is under way or waits to be retried, a stream is either gone
\* everywhere, or shown as live, registered at the gateway under the same
\* session, and sent from a capture that runs.
SettledIsServed ==
  /\ ~share.lapsed
  /\ share.link
  /\ \A f \in Flow : At(f) = "none"
  /\ \A s \in 1..MaxSessions : share.recovery[s] = NoRecovery
  => /\ share.hosted = share.run.sid
     /\ share.status = IF share.run.sid = 0 THEN "none" ELSE "live"
     /\ share.run.sent = share.run.cap
     /\ share.live = {share.run.cap} \ {0}

\* A publication that is accepted does not end the capture it is made of.
PublishingKeepsCapture ==
  [][share'.hosted # 0 /\ share'.hosted # share.hosted => share.live \subseteq share'.live]_shareVars
=============================================================================
