------------------------------ MODULE PeerLink ------------------------------
(***************************************************************************)
(* The peer-to-peer mesh of one voice room: the room at the gateway, the   *)
(* clients in it (voice-store.ts and its WebRtcManager) and the signals    *)
(* the gateway relays between them (handleMediaSignalRelay).  Of two peers *)
(* the one with the lower id makes the offer.                              *)
(*                                                                         *)
(* A client's commands reach the gateway in order and at once; what the    *)
(* gateway sends a client waits in its inbox.  Two peers are connected     *)
(* when both ends are stable after one exchange of offer and answer: ok is *)
(* cleared, on the other side and in the descriptions under way, whenever  *)
(* a side makes a new offer or closes.  ICE candidates are not modelled,   *)
(* nor the microphone, mute and the flows that cross (VoiceSession).       *)
(***************************************************************************)
EXTENDS FiniteSetsExt, Naturals, Sequences

CONSTANTS
  NPeers,      \* members of the guild, by their ids
  MaxJoins,    \* bound: joins asked for by users
  MaxFaults    \* bound: lost sockets, lost connections, failed media

VARIABLES mesh, faults

meshVars == <<mesh, faults>>

Peer == 1..NPeers
Status == {"out", "joining", "offering", "reoffering", "active", "reconnecting"}
Kind == {"state", "ack", "reack", "restarted", "offer", "answer", "restart_ice", "end"}
Pc == [st: {"none", "offered", "stable"}, ok: BOOLEAN]
Message == [kind: Kind, from: Peer \cup {0}, set: SUBSET Peer, fresh: BOOLEAN]

\* joining until the ack; offering after it, in two passes of
\* createP2pOffersForParticipants (one for reoffering, after a recovery).
MeshRec == [room: SUBSET Peer,                       \* the gateway's voice room
            asked: SUBSET Peer,                      \* voice.join under way
            due: [Peer -> SUBSET (SUBSET Peer)],     \* an ack not yet sent, and its list
            status: [Peer -> Status],
            parts: [Peer -> SUBSET Peer],            \* the store's participants
            list: [Peer -> SUBSET Peer],             \* the list a flow works with
            todo: [Peer -> SUBSET Peer],             \* offers of the pass still to make
            pass: [Peer -> 0..2],
            pc: [Peer -> [Peer -> Pc]],
            inbox: [Peer -> Seq(Message)],
            joins: 0..MaxJoins,
            lapsed: BOOLEAN]                         \* see Lapse

NoPc == [st |-> "none", ok |-> FALSE]

TypeOK ==
  /\ mesh \in [room: SUBSET Peer, asked: SUBSET Peer, due: [Peer -> SUBSET (SUBSET Peer)],
               status: [Peer -> Status], parts: [Peer -> SUBSET Peer],
               list: [Peer -> SUBSET Peer], todo: [Peer -> SUBSET Peer], pass: [Peer -> 0..2],
               pc: [Peer -> [Peer -> Pc]], inbox: [Peer -> Seq(Message)],
               joins: 0..MaxJoins, lapsed: BOOLEAN]
  /\ faults \in 0..MaxFaults

Init ==
  /\ mesh = [room |-> {}, asked |-> {}, due |-> [p \in Peer |-> {}],
             status |-> [p \in Peer |-> "out"], parts |-> [p \in Peer |-> {}],
             list |-> [p \in Peer |-> {}], todo |-> [p \in Peer |-> {}],
             pass |-> [p \in Peer |-> 0], pc |-> [p \in Peer |-> [q \in Peer |-> NoPc]],
             inbox |-> [p \in Peer |-> <<>>], joins |-> 0, lapsed |-> FALSE]
  /\ faults = 0

-----------------------------------------------------------------------------
(* Sending, and the operations of WebRtcManager, on a MeshRec.             *)

Msg(kind, from, set, fresh) == [kind |-> kind, from |-> from, set |-> set, fresh |-> fresh]

Send(m, to, msg) ==
  [m EXCEPT !.inbox = [p \in Peer |-> IF p \in to THEN Append(m.inbox[p], msg) ELSE m.inbox[p]]]

\* broadcastStateUpdated to the room.
SendState(m) == Send(m, m.room, Msg("state", 0, m.room, TRUE))

\* handleMediaSignalRelay: only between participants.
Relay(m, a, b, kind, fresh) ==
  IF {a, b} \subseteq m.room THEN Send(m, {b}, Msg(kind, a, {}, fresh)) ELSE m

Stale(box, from, kinds) ==
  [i \in DOMAIN box |-> IF box[i].from = from /\ box[i].kind \in kinds
                        THEN [box[i] EXCEPT !.fresh = FALSE] ELSE box[i]]

\* What a and b agreed on, or are about to, no longer describes a's side.
Renounce(m, a, b) ==
  [m EXCEPT !.pc[b][a].ok = FALSE,
            !.inbox[a] = Stale(m.inbox[a], b, {"answer"}),
            !.inbox[b] = Stale(m.inbox[b], a, {"offer", "answer"})]

CreateOffer(m, a, b) ==
  Relay([Renounce(m, a, b) EXCEPT !.pc[a][b] = [st |-> "offered", ok |-> FALSE]],
        a, b, "offer", TRUE)

ClosePeer(m, a, b) ==
  IF m.pc[a][b].st = "none" THEN m
  ELSE [Renounce(m, a, b) EXCEPT !.pc[a][b] = NoPc]

\* Op(m, a, b) for each b in S.
ForEach(Op(_, _, _), m, a, S) == FoldSet(LAMBDA b, acc : Op(acc, a, b), m, S)

CloseAll(m, a) == ForEach(ClosePeer, m, a, Peer \ {a})

\* Where the clients cannot repair what happened: a description that reached a
\* member outside `active', an offer that met one, an answer to an older offer, a
\* list written over a newer one, a peer that left while its connection was set up.
Lapse(m, really) == [m EXCEPT !.lapsed = @ \/ really]

\* An offer of a reaches b; b's own pending offer is rolled back.
HandleOffer(m, b, a, fresh) ==
  LET crossing == m.pc[b][a].st = "offered"
      settled == IF crossing THEN Renounce(m, b, a) ELSE m
      answered == [settled EXCEPT !.pc[b][a] = [st |-> "stable", ok |-> fresh]]
  IN Lapse(Relay(answered, b, a, "answer", fresh), crossing)

\* setRemoteDescription refuses an answer nobody waits for; nothing tells which
\* offer an answer is for.
HandleAnswer(m, a, b, fresh) ==
  IF m.pc[a][b].st = "offered"
  THEN Lapse([m EXCEPT !.pc[a][b] = [st |-> "stable", ok |-> fresh]], ~fresh) ELSE m

RestartIce(m, a, b) == IF m.pc[a][b].st = "none" THEN m ELSE CreateOffer(m, a, b)

Higher(p, S) == {q \in S : q > p}

-----------------------------------------------------------------------------
(* What a client does with a message.                                      *)

\* Mutant of VoiceStateUpdated: newcomers get an offer from whoever has the higher id.
VoiceStateUpdatedReversed(m, p, S) ==
  LET closed == ForEach(ClosePeer, m, p, m.parts[p] \ S)
      offered == ForEach(CreateOffer, closed, p, {q \in S \ m.parts[p] : q < p})
  IN CASE m.status[p] = "out" -> m
       [] m.status[p] = "active" /\ p \notin S ->
            [CloseAll(m, p) EXCEPT !.status[p] = "out", !.parts[p] = {}]
       [] m.status[p] = "active" /\ p \in S -> [offered EXCEPT !.parts[p] = S]
       [] m.status[p] \notin {"out", "active"} ->
            [Lapse(m, \E q \in Peer \ S : q \in m.list[p] \/ m.pc[p][q].st # "none") EXCEPT
               !.parts[p] = S]

VoiceStateUpdated(m, p, S) ==
  LET closed == ForEach(ClosePeer, m, p, m.parts[p] \ S)
      offered == ForEach(CreateOffer, closed, p, Higher(p, S \ m.parts[p]))
  IN CASE m.status[p] = "out" -> m
       [] m.status[p] = "active" /\ p \notin S ->
            [CloseAll(m, p) EXCEPT !.status[p] = "out", !.parts[p] = {}]
       [] m.status[p] = "active" /\ p \in S -> [offered EXCEPT !.parts[p] = S]
       [] m.status[p] \notin {"out", "active"} ->
            [Lapse(m, \E q \in Peer \ S : q \in m.list[p] \/ m.pc[p][q].st # "none") EXCEPT
               !.parts[p] = S]

\* One pass of createP2pOffersForParticipants, over the list S.
BeginPass(m, p, S, n) ==
  [m EXCEPT !.list[p] = S, !.pass[p] = n,
            !.todo[p] = {q \in Higher(p, S) : m.pc[p][q].st = "none"}]

Joined(m, p, S) ==
  IF m.status[p] # "joining" THEN m
  ELSE BeginPass([Lapse(m, m.parts[p] # S) EXCEPT !.status[p] = "offering", !.parts[p] = S],
                 p, S, 1)

\* attemptVoiceMediaRecovery continues with the participants it captured.
Recovered(m, p) ==
  IF m.status[p] # "reconnecting" THEN m
  ELSE BeginPass([Lapse(CloseAll(m, p), m.parts[p] # m.list[p]) EXCEPT
                    !.status[p] = "reoffering"], p, m.list[p], 1)

\* A client has a manager from its ack on.
HasManager(m, p) == m.status[p] \in {"active", "offering", "reoffering"}

SessionRestarted(m, p, q) ==
  CASE ~HasManager(m, p) -> m
    [] HasManager(m, p) /\ p < q -> CreateOffer(ClosePeer(m, p, q), p, q)
    [] HasManager(m, p) /\ p > q -> ClosePeer(m, p, q)

\* Signals are dropped outside `active'.  A reconnecting client's peers hear of
\* its new session after they sent it, so what it drops is made again.
MediaSignal(m, p, msg) ==
  CASE m.status[p] # "active" ->
         Lapse(m, m.status[p] # "reconnecting" /\ p \in m.room /\ msg.kind # "end")
    [] m.status[p] = "active" /\ msg.kind = "offer" -> HandleOffer(m, p, msg.from, msg.fresh)
    [] m.status[p] = "active" /\ msg.kind = "answer" -> HandleAnswer(m, p, msg.from, msg.fresh)
    [] m.status[p] = "active" /\ msg.kind = "restart_ice" -> RestartIce(m, p, msg.from)
    [] m.status[p] = "active" /\ msg.kind = "end" -> ClosePeer(m, p, msg.from)

Handle(m, p, msg) ==
  CASE msg.kind = "state" -> VoiceStateUpdated(m, p, msg.set)
    [] msg.kind = "ack" -> Joined(m, p, msg.set)
    [] msg.kind = "reack" -> Recovered(m, p)
    [] msg.kind = "restarted" -> SessionRestarted(m, p, msg.from)
    [] msg.kind \in {"offer", "answer", "restart_ice", "end"} -> MediaSignal(m, p, msg)

-----------------------------------------------------------------------------

Fault == faults < MaxFaults /\ faults' = faults + 1
NoFault == UNCHANGED faults

Receive(p) ==
  /\ mesh.inbox[p] # <<>>
  /\ mesh' = Handle([mesh EXCEPT !.inbox[p] = Tail(@)], p, Head(mesh.inbox[p]))
  /\ NoFault

\* joinVoiceChannel, up to its voice.join.
Join(p) ==
  /\ mesh.status[p] = "out" /\ mesh.joins < MaxJoins
  /\ mesh' = [mesh EXCEPT !.status[p] = "joining", !.asked = @ \cup {p}, !.joins = @ + 1]
  /\ NoFault

\* handleVoiceJoin adds the user and tells the room; the ack waits for the rosters.
Admit(p) ==
  /\ p \in mesh.asked
  /\ LET room == mesh.room \cup {p}
     IN mesh' = SendState([mesh EXCEPT !.asked = @ \ {p}, !.room = room, !.due[p] = {room}])
  /\ NoFault

Ack(p) ==
  /\ \E S \in mesh.due[p] :
       mesh' = Send([mesh EXCEPT !.due[p] = {}], {p}, Msg("ack", 0, S, TRUE))
  /\ NoFault

\* The next offer of a pass.
Offer(p) ==
  /\ \E q \in mesh.todo[p] :
       mesh' = [CreateOffer(mesh, p, q) EXCEPT !.todo[p] = @ \ {q}]
  /\ NoFault

\* getLatestJoinParticipants, and the second pass.
Latest(p) ==
  IF mesh.parts[p] # {} /\ mesh.list[p] \subseteq mesh.parts[p] THEN mesh.parts[p]
  ELSE mesh.list[p]

SecondPass(p) ==
  /\ mesh.status[p] = "offering" /\ mesh.pass[p] = 1 /\ mesh.todo[p] = {}
  /\ mesh' = BeginPass(mesh, p, Latest(p), 2)
  /\ NoFault

Activate(p) ==
  /\ mesh.todo[p] = {}
  /\ \/ mesh.status[p] = "offering" /\ mesh.pass[p] = 2
     \/ mesh.status[p] = "reoffering"
  /\ mesh' = [Lapse(mesh, mesh.parts[p] # mesh.list[p]) EXCEPT
                !.status[p] = "active", !.parts[p] = mesh.list[p],
                !.list[p] = {}, !.pass[p] = 0]
  /\ NoFault

\* Signals go out before the command: both are at the gateway in that order.
End(m, p, q) == IF m.pc[p][q].st = "none" THEN m ELSE Relay(m, p, q, "end", TRUE)

Leave(p) ==
  /\ mesh.status[p] = "active"
  /\ LET left == CloseAll(ForEach(End, mesh, p, Peer \ {p}), p)
     IN mesh' = SendState([left EXCEPT !.room = @ \ {p}, !.status[p] = "out", !.parts[p] = {}])
  /\ NoFault

\* The socket is lost: the gateway's cleanup, handleGatewayWillReconnect, and
\* handleGatewayReconnected up to its voice.join on the new connection.
Drop(p) ==
  /\ mesh.status[p] = "active"
  /\ LET left == CloseAll([mesh EXCEPT !.inbox[p] = <<>>], p)
     IN mesh' = SendState([left EXCEPT !.room = @ \ {p}, !.status[p] = "joining",
                                       !.asked = @ \cup {p}])
  /\ Fault

Connected(p, q) ==
  mesh.pc[p][q] = [st |-> "stable", ok |-> TRUE] /\ mesh.pc[q][p] = mesh.pc[p][q]

\* p and q lose their connection, and p asks q to restart it.
Lose(p, q) ==
  /\ mesh.status[p] = "active" /\ Connected(p, q)
  /\ mesh' = Relay([mesh EXCEPT !.pc[p][q].ok = FALSE, !.pc[q][p].ok = FALSE],
                   p, q, "restart_ice", TRUE)
  /\ Fault

\* failVoiceMediaConnection when no peer is connected (or none has been for
\* long), its media.session.reconnect and what the gateway sends for it.
MediaFails(p) ==
  /\ mesh.status[p] = "active" /\ mesh.parts[p] \ {p} # {} /\ p \in mesh.room
  /\ \A q \in mesh.parts[p] \ {p} : ~Connected(p, q)
  /\ LET lost == [CloseAll(mesh, p) EXCEPT !.status[p] = "reconnecting", !.list[p] = mesh.parts[p]]
         told == Send(lost, mesh.room \ {p}, Msg("restarted", p, {}, TRUE))
     IN mesh' = Send(told, {p}, Msg("reack", 0, {}, TRUE))
  /\ Fault

\* A lapse ends the behaviour.
Next ==
  /\ ~mesh.lapsed
  /\ \E p \in Peer :
    \/ Receive(p) \/ Join(p) \/ Admit(p) \/ Ack(p) \/ Offer(p) \/ SecondPass(p)
    \/ Activate(p) \/ Leave(p) \/ Drop(p) \/ MediaFails(p)
    \/ \E q \in Peer \ {p} : Lose(p, q)

Spec == Init /\ [][Next]_meshVars

-----------------------------------------------------------------------------

Settled ==
  /\ mesh.asked = {}
  /\ \A p \in Peer : /\ mesh.due[p] = {} /\ mesh.inbox[p] = <<>>
                     /\ mesh.status[p] \in {"out", "active"}

\* Once nothing is under way, the clients that show the room as joined are its
\* members, each shows exactly the members, and any two of them are connected:
\* whoever came, left, lost a socket or was restarted, one of the two made the
\* offer that counts (voice-store.ts handleVoiceStateUpdated, handleMediaSignal,
\* handleMediaSessionRestarted, createP2pOffersForParticipants).
MeshComplete ==
  Settled /\ ~mesh.lapsed =>
    /\ {p \in Peer : mesh.status[p] = "active"} = mesh.room
    /\ \A p \in mesh.room : mesh.parts[p] = mesh.room
    /\ \A p, q \in mesh.room : p # q => Connected(p, q)
=============================================================================
