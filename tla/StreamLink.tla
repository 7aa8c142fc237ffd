----------------------------- MODULE StreamLink -----------------------------
(***************************************************************************)
(* The peer-to-peer connection of a live stream: its host, one of its      *)
(* viewers (features/stream/stream-store.ts and their WebRtcManagers) and  *)
(* the gateway that registers the viewer and relays their signals.  The    *)
(* host makes every offer; the viewer only answers, asks for a restart or  *)
(* ends.                                                                   *)
(*                                                                         *)
(* A client's commands reach the gateway in order and at once; what the    *)
(* gateway sends a client waits in its inbox.  Host and viewer are         *)
(* connected when both ends are stable after one exchange of offer and     *)
(* answer: ok is cleared, on the other side and in the descriptions under  *)
(* way, whenever a side makes a new offer or closes.  A connection of      *)
(* which the ends do not agree fails, and its timers fire, later than      *)
(* signals under way arrive.  ICE candidates, the answers of the SFU mode  *)
(* and the requests that cross (StreamWatch) are left out: the viewer asks *)
(* for one watch at a time.                                                *)
(***************************************************************************)
EXTENDS Naturals, Sequences

CONSTANTS
  MaxFaults,  \* bound: lost sockets and connections, media refreshed
  MaxClicks   \* bound: watches asked for

VARIABLES
  link,   \* the host, the viewer and the gateway: LinkRec
  faults, clicks

linkVars == <<link, faults, clicks>>

Pc == [st: {"none", "offered", "stable"}, ok: BOOLEAN]
Message == [kind: {"on", "off", "ack", "reack", "restarted", "offer", "answer", "restart_ice", "end"},
            fresh: BOOLEAN]

LinkRec == [entry: {"none", "starting", "watching"},     \* the viewer's watchedStreamsById
            run: BOOLEAN,                                \* its runtime
            signals: Seq(Message),                       \* its pendingWatchedSignals
            cancelled: BOOLEAN,                          \* in its cancelledWatchRequests
            asked: {"no", "sent", "admitted", "answered"},   \* its stream.watch
            shown: BOOLEAN,                              \* among the host's ownedStream.viewers
            viewing: BOOLEAN,                            \* among the gateway's viewers
            pc: [{"host", "viewer"} -> Pc],
            failed: [{"host", "viewer"} -> BOOLEAN],     \* connectionState, its timer due
            media: BOOLEAN,                              \* the viewer's remoteStream is set
            inbox: [{"host", "viewer"} -> Seq(Message)],
            recovers: [{"host", "viewer"} -> BOOLEAN],   \* media.session.reconnect under way
            lapsed: BOOLEAN]                             \* see Refreshed

NoPc == [st |-> "none", ok |-> FALSE]

TypeOK ==
  /\ link \in LinkRec
  /\ faults \in 0..MaxFaults
  /\ clicks \in 0..MaxClicks

Init ==
  /\ link = [entry |-> "none", run |-> FALSE, signals |-> <<>>, cancelled |-> FALSE,
             asked |-> "no", shown |-> FALSE, viewing |-> FALSE,
             pc |-> [e \in {"host", "viewer"} |-> NoPc],
             failed |-> [e \in {"host", "viewer"} |-> FALSE], media |-> FALSE,
             inbox |-> [e \in {"host", "viewer"} |-> <<>>],
             recovers |-> [e \in {"host", "viewer"} |-> FALSE], lapsed |-> FALSE]
  /\ faults = 0
  /\ clicks = 0

-----------------------------------------------------------------------------
(* Sending, and the operations of WebRtcManager, on a LinkRec.             *)

Other(e) == IF e = "host" THEN "viewer" ELSE "host"

Send(v, to, kind, fresh) == [v EXCEPT !.inbox[to] = Append(@, [kind |-> kind, fresh |-> fresh])]

\* handleMediaSignalRelay: only between the host and its viewer.
Relay(v, to, kind, fresh) == IF v.viewing THEN Send(v, to, kind, fresh) ELSE v

Stale(box, kind) ==
  [i \in DOMAIN box |-> IF box[i].kind = kind THEN [box[i] EXCEPT !.fresh = FALSE] ELSE box[i]]

\* What both agreed on no longer describes e's end, nor do the answers under way; the
\* offers under way describe the host's.
Renounce(v, e) ==
  LET answers == [v EXCEPT !.pc[Other(e)].ok = FALSE, !.inbox["host"] = Stale(@, "answer")]
  IN IF e = "viewer" THEN answers
     ELSE [answers EXCEPT !.signals = Stale(@, "offer"), !.inbox["viewer"] = Stale(@, "offer")]

ClosePeer(v, e) ==
  IF v.pc[e].st = "none" THEN v ELSE [Renounce(v, e) EXCEPT !.pc[e] = NoPc, !.failed[e] = FALSE]

CreateOffer(v) ==
  Relay([Renounce(v, "host") EXCEPT !.pc["host"] = [st |-> "offered", ok |-> FALSE]],
        "viewer", "offer", TRUE)

\* setRemoteDescription refuses an answer nobody waits for; nothing tells which
\* offer an answer is for.
HandleAnswer(v, fresh) ==
  IF v.pc["host"].st # "offered" THEN v
  ELSE [v EXCEPT !.pc["host"] = [st |-> "stable", ok |-> fresh], !.failed["host"] = FALSE]

\* The answer is for this offer, whatever was agreed before; the tracks of the offer
\* are shown before anything is received.
HandleRecvOnlyOffer(v, fresh) ==
  LET offered == IF v.pc["viewer"].st = "none" THEN v
                 ELSE Renounce(v, "viewer")
  IN Relay([offered EXCEPT !.pc["viewer"] = [st |-> "stable", ok |-> fresh], !.media = TRUE,
                           !.failed["viewer"] = FALSE], "host", "answer", fresh)

RestartIce(v) == IF v.pc["host"].st = "none" THEN v ELSE CreateOffer(v)

Connected == \A e \in {"host", "viewer"} : link.pc[e] = [st |-> "stable", ok |-> TRUE]

-----------------------------------------------------------------------------
(* The host.                                                               *)

\* reconcileOwnedPublication.
ViewerCame(v) == IF v.shown THEN v ELSE [CreateOffer(v) EXCEPT !.shown = TRUE]
ViewerLeft(v) == IF v.shown THEN [ClosePeer(v, "host") EXCEPT !.shown = FALSE] ELSE v

\* attemptOwnedMediaRecovery after its ack: a new manager, an offer to each viewer.
Republished(v) ==
  LET closed == [ClosePeer(v, "host") EXCEPT !.recovers["host"] = FALSE]
  IN IF v.shown THEN CreateOffer(closed) ELSE closed

\* handleMediaSessionRestarted: on the connection there is.
SessionRestarted(v) == CreateOffer(v)

HostHandles(v, msg) ==
  CASE msg.kind = "on" -> ViewerCame(v)
    [] msg.kind = "off" -> ViewerLeft(v)
    [] msg.kind = "answer" -> HandleAnswer(v, msg.fresh)
    [] msg.kind = "restart_ice" -> RestartIce(v)
    [] msg.kind = "end" -> ClosePeer(v, "host")
    [] msg.kind = "restarted" -> SessionRestarted(v)
    [] msg.kind = "reack" -> Republished(v)

-----------------------------------------------------------------------------
(* The viewer.                                                             *)

\* handleStreamUnwatch: the channel is told.
SendUnwatch(v) == IF v.viewing THEN Send([v EXCEPT !.viewing = FALSE], "host", "off", TRUE) ELSE v

QueuePending(v, msg) == [v EXCEPT !.signals = Append(@, msg)]

\* processWatchedSignal.
Signalled(v, msg) ==
  CASE ~v.run /\ v.entry = "starting" -> QueuePending(v, msg)
    [] ~v.run /\ v.entry # "starting" -> v
    [] v.run -> HandleRecvOnlyOffer(v, msg.fresh)

\* flushPendingWatchedSignals: one after the other.
Flush(v) ==
  LET queued == v.signals
      after[n \in 0..Len(queued)] ==
        IF n = 0 THEN [v EXCEPT !.signals = <<>>] ELSE Signalled(after[n - 1], queued[n])
  IN after[Len(queued)]

\* watchStream after its ack.
Watching(v) ==
  IF v.cancelled THEN SendUnwatch([v EXCEPT !.cancelled = FALSE, !.asked = "no"])
  ELSE Flush([v EXCEPT !.asked = "no", !.run = TRUE, !.entry = "watching"])

\* beginWatchedMediaRecovery and its command; the host is told before the ack.
BeginRecovery(v) ==
  IF ~v.run \/ v.recovers["viewer"] THEN v
  ELSE Send(Send([v EXCEPT !.recovers["viewer"] = TRUE], "host", "restarted", TRUE), "viewer", "reack", TRUE)

\* attemptWatchedMediaRecovery after its ack; one that the user has ended may take
\* the manager from the runtime of a later watch.
Refreshed(v) ==
  IF v.recovers["viewer"]
  THEN [ClosePeer(v, "viewer") EXCEPT !.recovers["viewer"] = FALSE, !.media = FALSE]
  ELSE [v EXCEPT !.lapsed = @ \/ v.run]

ViewerHandles(v, msg) ==
  CASE msg.kind = "ack" -> Watching(v)
    [] msg.kind = "offer" -> Signalled(v, msg)
    [] msg.kind = "restarted" -> BeginRecovery(v)
    [] msg.kind = "reack" -> Refreshed(v)

-----------------------------------------------------------------------------

Fault == faults < MaxFaults /\ faults' = faults + 1
NoFault == UNCHANGED faults

HostReceives ==
  /\ link.inbox["host"] # <<>>
  /\ link' = HostHandles([link EXCEPT !.inbox["host"] = Tail(@)], Head(link.inbox["host"]))
  /\ UNCHANGED <<faults, clicks>>

ViewerReceives ==
  /\ link.inbox["viewer"] # <<>>
  /\ link' = ViewerHandles([link EXCEPT !.inbox["viewer"] = Tail(@)], Head(link.inbox["viewer"]))
  /\ UNCHANGED <<faults, clicks>>

Watch ==
  /\ link.entry = "none" /\ link.asked = "no"
  /\ clicks < MaxClicks
  /\ clicks' = clicks + 1
  /\ link' = [link EXCEPT !.entry = "starting", !.cancelled = FALSE, !.asked = "sent"]
  /\ NoFault

\* handleStreamWatch: the viewer is registered and the channel told, and the
\* answer waits for the rosters.
Admit ==
  /\ link.asked = "sent"
  /\ link' = Send([link EXCEPT !.asked = "admitted", !.viewing = TRUE], "host", "on", TRUE)
  /\ UNCHANGED <<faults, clicks>>

Ack ==
  /\ link.asked = "admitted"
  /\ link' = Send([link EXCEPT !.asked = "answered"], "viewer", "ack", TRUE)
  /\ UNCHANGED <<faults, clicks>>

\* unwatchStream; without a runtime the signals that wait are kept.
Unwatch ==
  /\ link.entry # "none"
  /\ LET ended == IF link.run THEN ClosePeer(Relay(link, "host", "end", TRUE), "viewer") ELSE link
         closed == [ended EXCEPT !.entry = "none", !.run = FALSE, !.recovers["viewer"] = FALSE,
                                 !.cancelled = ~link.run, !.media = FALSE,
                                 !.signals = IF link.run THEN <<>> ELSE @]
     IN link' = SendUnwatch(closed)
  /\ UNCHANGED <<faults, clicks>>

\* The viewer's socket is lost; reconnected, it watches the stream anew.
Drop ==
  /\ link.entry = "watching"
  /\ Fault
  /\ LET left == SendUnwatch(ClosePeer([link EXCEPT !.inbox["viewer"] = <<>>], "viewer"))
     IN link' = [left EXCEPT !.run = FALSE, !.entry = "starting", !.asked = "sent",
                             !.signals = <<>>, !.recovers["viewer"] = FALSE, !.media = FALSE]
  /\ UNCHANGED clicks

Quiet == \A e \in {"host", "viewer"} : link.inbox[e] = <<>>

\* The connection is lost: as if both had agreed on something else.
Lose ==
  /\ Connected
  /\ Fault
  /\ link' = [link EXCEPT !.pc["host"].ok = FALSE, !.pc["viewer"].ok = FALSE]
  /\ UNCHANGED clicks

\* The ends do not agree, and neither is about to hear of it.
Mismatched(e) == Quiet /\ link.pc[e].st = "stable" /\ ~Connected

\* The viewer asks for a restart, unless it did in the last seconds.
ViewerFails ==
  /\ Mismatched("viewer") /\ ~link.failed["viewer"]
  /\ LET v == [link EXCEPT !.failed["viewer"] = TRUE, !.media = FALSE]
     IN link' \in {v, Relay(v, "host", "restart_ice", TRUE)}
  /\ UNCHANGED <<faults, clicks>>

HostFails ==
  /\ Mismatched("host") /\ ~link.failed["host"]
  /\ link' = RestartIce([link EXCEPT !.failed["host"] = TRUE])
  /\ UNCHANGED <<faults, clicks>>

\* Its ends agree again: the receivers are synchronised, the timers cleared.
Reconnects ==
  /\ Connected
  /\ link.failed["viewer"] \/ link.failed["host"] \/ ~link.media
  /\ link' = [link EXCEPT !.failed = [e \in {"host", "viewer"} |-> FALSE], !.media = TRUE]
  /\ UNCHANGED <<faults, clicks>>

\* The timers that find the connection failed for longer.
ViewerRecovers ==
  /\ Mismatched("viewer") /\ link.failed["viewer"]
  /\ ~link.recovers["viewer"]
  /\ link' = BeginRecovery([link EXCEPT !.failed["viewer"] = FALSE])
  /\ UNCHANGED <<faults, clicks>>

\* beginOwnedMediaRecovery: the host's timer, a track that was replaced.
Republish(v) ==
  LET told == IF v.viewing THEN Send(v, "viewer", "restarted", TRUE) ELSE v
  IN Send([told EXCEPT !.recovers["host"] = TRUE, !.failed["host"] = FALSE], "host", "reack", TRUE)

HostRecovers ==
  /\ Mismatched("host") /\ link.failed["host"]
  /\ ~link.recovers["host"]
  /\ link' = Republish(link)
  /\ UNCHANGED <<faults, clicks>>

HostRefreshes ==
  /\ ~link.recovers["host"]
  /\ Fault
  /\ link' = Republish(link)
  /\ UNCHANGED clicks

\* A lapse ends the behaviour.
Next ==
  /\ ~link.lapsed
  /\ \/ HostReceives \/ ViewerReceives \/ Watch \/ Admit \/ Ack \/ Unwatch
     \/ Drop \/ Lose \/ ViewerFails \/ HostFails \/ Reconnects
     \/ ViewerRecovers \/ HostRecovers \/ HostRefreshes

Spec == Init /\ [][Next]_linkVars

-----------------------------------------------------------------------------

\* Nothing is under way, and no end is about to see its connection fail or a timer.
Settled ==
  /\ ~link.lapsed /\ Quiet /\ link.asked = "no"
  /\ \A e \in {"host", "viewer"} : ~link.recovers[e] /\ ~Mismatched(e)
  /\ ~(Connected /\ ~link.media)

\* Nobody waits for a description that nobody will send: once nothing is under way
\* and neither end is about to see its connection fail, the stream is watched
\* exactly by the viewer the gateway has, the host shows it, the two are connected
\* and the viewer shows the host's media; without a viewer neither keeps a
\* connection (stream-store.ts processWatchedSignal, handleMediaSignal,
\* reconcileOwnedPublication, handleMediaSessionRestarted).
LinkSettles ==
  Settled =>
    /\ link.viewing = (link.entry = "watching")
    /\ link.shown = link.viewing
    /\ link.media = link.viewing
    /\ IF link.viewing THEN Connected ELSE \A e \in {"host", "viewer"} : link.pc[e] = NoPc
=============================================================================
