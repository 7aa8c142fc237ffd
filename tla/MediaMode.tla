------------------------------ MODULE MediaMode ------------------------------
(***************************************************************************)
(* The media mode (peer to peer or SFU) on its way from the administrator  *)
(* to the clients: PATCH /v1/admin/settings of apps/api, the row of the    *)
(* server's settings, the message in Redis, refreshMediaMode and           *)
(* applyMediaMode of apps/gateway/src/app-runtime.ts, and the rejoin of a  *)
(* client's voice session.  GatewayRooms has the change of the mode among  *)
(* all the rooms of the gateway; here are the two ends of it.              *)
(*                                                                         *)
(* Each member has a channel of its own, so a member stands for its room   *)
(* too: what one room's clearing awaits is what happens in the others.     *)
(* Streams and music are left out, and of a member's session all but what  *)
(* a change of the mode touches (VoiceSession has the rest).               *)
(***************************************************************************)
EXTENDS Naturals, Sequences, SequencesExt

CONSTANTS
  Request,    \* the administrators' requests
  Member,
  MaxClicks,  \* bound: requests, joins and leaves
  MaxFaults   \* bound: failures of Redis, of the media service, crashes of the gateway

VARIABLES
  admin,      \* AdminRec
  gateway,    \* GatewayRec
  client,     \* [Member -> ClientRec]
  clicks, faults

modeVars == <<admin, gateway, client, clicks, faults>>

Mode == {"p2p", "sfu"}

\* read: the settings it read; to: the mode of its input.
RequestRec == [st: {"idle", "read", "checked", "written"}, was: Mode, to: Mode]

AdminRec == [row: Mode,
             request: [Request -> RequestRec],
             lapsed: BOOLEAN]   \* a step used what another had changed, or a message was lost

\* A command of a member: its kind, and the mode its media session was made with.
CommandRec == [kind: {"join", "reconnect"}, st: {"media", "room"}, mode: Mode]

\* applyMediaMode between its awaits: the rooms left to clear, and whom to tell.
Change == [todo: SUBSET Member, told: SUBSET Member]

\* topic: messages of Redis; changes: those under way, in the order they began.
GatewayRec == [st: {"down", "up"}, subscribed: BOOLEAN, mode: Mode, topic: Seq(Mode),
               rooms: SUBSET Member, command: [Member -> SUBSET CommandRec],
               changes: Seq(Change)]

\* inbox: what the socket brings, in order.  An answer says whether the SFU's data is in it.
Answer == [kind: {"ok", "error", "mode"}, mode: Mode, sfu: BOOLEAN]
ClientRec == [st: {"idle", "joining", "rejoining", "recovering", "active", "offline"},
              again: {"join", "reconnect"},   \* what the recovery attempts
              mode: Mode, inbox: Seq(Answer)]

TypeOK ==
  /\ admin.row \in Mode /\ admin.lapsed \in BOOLEAN
  /\ admin.request \in [Request -> RequestRec]
  /\ gateway.mode \in Mode /\ gateway.rooms \subseteq Member
  /\ \A m \in Member : gateway.command[m] \subseteq CommandRec
  /\ \A i \in DOMAIN gateway.changes : gateway.changes[i] \in Change
  /\ \A i \in DOMAIN gateway.topic : gateway.topic[i] \in Mode
  /\ \A m \in Member :
       /\ client[m].st \in {"idle", "joining", "rejoining", "recovering", "active", "offline"}
       /\ \A i \in DOMAIN client[m].inbox : client[m].inbox[i] \in Answer
  /\ clicks \in 0..MaxClicks
  /\ faults \in 0..MaxFaults

NoRequest == [st |-> "idle", was |-> "p2p", to |-> "p2p"]
Out == [st |-> "idle", again |-> "join", mode |-> "p2p", inbox |-> <<>>]
Stopped == [st |-> "down", subscribed |-> FALSE, mode |-> "p2p", topic |-> <<>>, rooms |-> {},
            command |-> [m \in Member |-> {}], changes |-> <<>>]

\* No row yet: the first reader creates it with `p2p'.
Init ==
  /\ \E row \in Mode :
       admin = [row |-> row, request |-> [r \in Request |-> NoRequest], lapsed |-> FALSE]
  /\ gateway = Stopped
  /\ client = [m \in Member |-> Out]
  /\ clicks = 0
  /\ faults = 0

Click == clicks < MaxClicks /\ clicks' = clicks + 1
NoClick == UNCHANGED clicks
Fault == faults < MaxFaults /\ faults' = faults + 1
NoFault == UNCHANGED faults

-----------------------------------------------------------------------------
(* PATCH /v1/admin/settings.                                               *)

Patch(r) ==
  /\ admin.request[r].st = "idle"
  /\ Click
  /\ \E to \in Mode :
       admin' = [admin EXCEPT !.request[r] = [st |-> "read", was |-> admin.row, to |-> to]]
  /\ UNCHANGED <<gateway, client>> /\ NoFault

\* assertSfuAvailable asks the media service.
Check(r) ==
  /\ admin.request[r].st = "read"
  /\ \/ admin' = [admin EXCEPT !.request[r].st = "checked"] /\ NoFault
     \/ admin.request[r].to = "sfu" /\ Fault /\ admin' = [admin EXCEPT !.request[r] = NoRequest]
  /\ UNCHANGED <<gateway, client>> /\ NoClick

Write(r) ==
  /\ admin.request[r].st = "checked"
  /\ admin' = [admin EXCEPT !.row = admin.request[r].to, !.request[r].st = "written",
                            !.lapsed = @ \/ admin.row # admin.request[r].was]
  /\ UNCHANGED <<gateway, client>> /\ NoClick /\ NoFault

\* A change is published, unless Redis fails or the API ends, which nothing makes up for;
\* the gateway does not see it when it read the row and has not subscribed.
Publish(r) ==
  /\ admin.request[r].st = "written"
  /\ LET req == admin.request[r]
         done == [admin EXCEPT !.request[r] = NoRequest]
         heard == gateway.st = "up" /\ gateway.subscribed
     IN IF req.to = req.was
        THEN admin' = done /\ UNCHANGED gateway /\ NoFault
        ELSE \/ /\ admin' = [done EXCEPT !.lapsed = \/ @
                                                    \/ admin.row # req.to
                                                    \/ gateway.st = "up" /\ ~gateway.subscribed]
                /\ gateway' = IF heard THEN [gateway EXCEPT !.topic = Append(@, req.to)] ELSE gateway
                /\ NoFault
             \/ Fault /\ admin' = [done EXCEPT !.lapsed = TRUE] /\ UNCHANGED gateway
  /\ UNCHANGED client /\ NoClick

-----------------------------------------------------------------------------
(* The gateway.                                                            *)

\* refreshMediaMode, and then the server listens.
Boot ==
  /\ gateway.st = "down"
  /\ gateway' = [gateway EXCEPT !.st = "up", !.mode = admin.row]
  /\ UNCHANGED <<admin, client>> /\ NoClick /\ NoFault

\* startFanout's subscription takes effect.
Subscribed ==
  /\ gateway.st = "up" /\ ~gateway.subscribed
  /\ gateway' = [gateway EXCEPT !.subscribed = TRUE]
  /\ UNCHANGED <<admin, client>> /\ NoClick /\ NoFault

\* handleGatewayWillReconnect: a session waits for the next connection, a first join fails.
WillReconnect(c) ==
  [Out EXCEPT !.st = IF c.st \in {"idle", "joining"} THEN "idle" ELSE "offline"]

Crash ==
  /\ gateway.st = "up"
  /\ Fault
  /\ gateway' = Stopped
  /\ client' = [m \in Member |-> WillReconnect(client[m])]
  /\ UNCHANGED admin /\ NoClick

\* The message of Redis; applyMediaMode as far as its first await.
ApplyMode ==
  /\ gateway.topic # <<>>
  /\ LET to == Head(gateway.topic)
         rest == [gateway EXCEPT !.topic = Tail(@)]
     IN gateway' = IF to = gateway.mode THEN rest
                   ELSE [rest EXCEPT !.mode = to,
                                     !.changes = Append(@, [todo |-> gateway.rooms, told |-> {}])]
  /\ UNCHANGED <<admin, client>> /\ NoClick /\ NoFault

\* clearChannel, and then the roster's broadcast is awaited.
ClearRoom(i) ==
  /\ \E m \in gateway.changes[i].todo :
       gateway' = [gateway EXCEPT !.rooms = @ \ {m},
                                  !.changes[i].todo = @ \ {m},
                                  !.changes[i].told = @ \cup (gateway.rooms \cap {m})]
  /\ UNCHANGED <<admin, client>> /\ NoClick /\ NoFault

\* media.mode.updated.
TellMode(i) ==
  /\ gateway.changes[i].todo = {}
  /\ client' = [m \in Member |->
       IF m \in gateway.changes[i].told
       THEN [client[m] EXCEPT !.inbox = Append(@, [kind |-> "mode", mode |-> "p2p", sfu |-> FALSE])]
       ELSE client[m]]
  /\ gateway' = [gateway EXCEPT !.changes = RemoveAt(@, i)]
  /\ UNCHANGED admin /\ NoClick /\ NoFault

\* createMediaSession asks for the mode of the time.
Command(g, m, kind) ==
  [g EXCEPT !.command[m] = {[kind |-> kind, st |-> "media", mode |-> g.mode]}]

Answered(g, m) == [g EXCEPT !.command[m] = {}]
Said(c, kind, mode, sfu) == [c EXCEPT !.inbox = Append(@, [kind |-> kind, mode |-> mode, sfu |-> sfu])]

\* The media session is made; a join adds the member to its room.
Created(m) ==
  /\ \E x \in gateway.command[m] :
       /\ x.st = "media"
       /\ \/ /\ x.kind = "join" /\ m \in gateway.rooms   \* VOICE_ALREADY_JOINED
             /\ gateway' = Answered(gateway, m)
             /\ client' = [client EXCEPT ![m] = Said(@, "error", "p2p", FALSE)]
             /\ NoFault
          \/ /\ x.kind = "join" => m \notin gateway.rooms
             /\ gateway' = [gateway EXCEPT !.command[m] = {[x EXCEPT !.st = "room"]},
                                           !.rooms = IF x.kind = "join" THEN @ \cup {m} ELSE @]
             /\ UNCHANGED client /\ NoFault
          \/ /\ Fault   \* the media service fails or is late
             /\ gateway' = Answered(gateway, m)
             /\ client' = [client EXCEPT ![m] = Said(@, "error", "p2p", FALSE)]
  /\ UNCHANGED admin /\ NoClick

\* Mutant of Reply: the answer names the mode the session was asked for with.
ReplyAsAsked(m) ==
  /\ \E x \in gateway.command[m] :
       /\ x.st = "room"
       /\ client' = [client EXCEPT ![m] = Said(@, "ok", x.mode, x.mode = "sfu")]
  /\ gateway' = Answered(gateway, m)
  /\ UNCHANGED admin /\ NoClick /\ NoFault

\* The answer names the mode of its own time.
Reply(m) ==
  /\ \E x \in gateway.command[m] :
       /\ x.st = "room"
       /\ client' = [client EXCEPT ![m] = Said(@, "ok", gateway.mode, x.mode = "sfu")]
  /\ gateway' = Answered(gateway, m)
  /\ UNCHANGED admin /\ NoClick /\ NoFault

-----------------------------------------------------------------------------
(* A member's client.                                                      *)

\* A command of the client is not answered.
Waits(m) ==
  \/ gateway.command[m] # {}
  \/ \E i \in DOMAIN client[m].inbox : client[m].inbox[i].kind # "mode"

Join(m) ==
  /\ gateway.st = "up"
  /\ client[m].st = "idle" /\ ~Waits(m)
  /\ Click
  /\ client' = [client EXCEPT ![m].st = "joining"]
  /\ gateway' = Command(gateway, m, "join")
  /\ UNCHANGED admin /\ NoFault

Leave(m) ==
  /\ client[m].st = "active"
  /\ Click
  /\ client' = [client EXCEPT ![m].st = "idle"]
  /\ gateway' = [gateway EXCEPT !.rooms = @ \ {m}]
  /\ UNCHANGED admin /\ NoFault

\* handleGatewayReconnected.
Reconnected(m) ==
  /\ gateway.st = "up"
  /\ client[m].st = "offline"
  /\ client' = [client EXCEPT ![m].st = "rejoining"]
  /\ gateway' = Command(gateway, m, "join")
  /\ UNCHANGED admin /\ NoClick /\ NoFault

\* An attempt of the recovery; a session whose member is in no room is refused.
Attempt(m) ==
  /\ client[m].st = "recovering" /\ ~Waits(m)
  /\ client[m].again = "join" \/ m \in gateway.rooms
  /\ gateway' = Command(gateway, m, client[m].again)
  /\ UNCHANGED <<admin, client>> /\ NoClick /\ NoFault

\* The recovery is given up: handleGatewayDisconnected, which does not leave the room.
Abandon(m) ==
  /\ client[m].st = "recovering" /\ ~Waits(m)
  /\ Fault
  /\ client' = [client EXCEPT ![m].st = "idle"]
  /\ admin' = [admin EXCEPT !.lapsed = @ \/ m \in gateway.rooms]
  /\ UNCHANGED gateway /\ NoClick

Rest(m) == [client[m] EXCEPT !.inbox = Tail(@)]

\* The answer of a join or of a recovery; without the SFU's data its set-up fails.
Joined(m) ==
  /\ client[m].inbox # <<>>
  /\ LET x == Head(client[m].inbox)
         c == Rest(m)
     IN /\ x.kind = "ok"
        /\ IF x.mode = "p2p" \/ x.sfu
           THEN /\ client' = [client EXCEPT ![m] = [c EXCEPT !.st = "active", !.mode = x.mode]]
                /\ UNCHANGED gateway
           ELSE IF c.st = "joining"
           THEN /\ client' = [client EXCEPT ![m] = [c EXCEPT !.st = "idle"]]
                /\ gateway' = [gateway EXCEPT !.rooms = @ \ {m}]
           ELSE /\ client' = [client EXCEPT ![m] = [c EXCEPT !.st = "recovering",
                                                            !.again = "reconnect"]]
                /\ UNCHANGED gateway
  /\ UNCHANGED admin /\ NoClick /\ NoFault

Refused(m) ==
  /\ client[m].inbox # <<>>
  /\ Head(client[m].inbox).kind = "error"
  /\ client' = [client EXCEPT ![m] =
       [Rest(m) EXCEPT !.st = IF @ = "joining" THEN "idle" ELSE "recovering",
                       !.again = IF client[m].st = "rejoining" THEN "join" ELSE @]]
  /\ UNCHANGED <<admin, gateway>> /\ NoClick /\ NoFault

\* handleMediaModeUpdated rejoins; an answer still under way will cross the new one.
ModeUpdated(m) ==
  /\ client[m].inbox # <<>>
  /\ Head(client[m].inbox).kind = "mode"
  /\ IF client[m].st = "idle"
     THEN client' = [client EXCEPT ![m] = Rest(m)] /\ UNCHANGED <<admin, gateway>>
     ELSE /\ client' = [client EXCEPT ![m] = [Rest(m) EXCEPT !.st = "rejoining"]]
          /\ gateway' = Command(gateway, m, "join")
          /\ admin' = [admin EXCEPT !.lapsed = @ \/ Waits(m)]
  /\ NoClick /\ NoFault

\* A lapse ends the behaviour.
Next ==
  /\ ~admin.lapsed
  /\ \/ Boot \/ Subscribed \/ Crash \/ ApplyMode
     \/ \E i \in DOMAIN gateway.changes : ClearRoom(i) \/ TellMode(i)
     \/ \E r \in Request : Patch(r) \/ Check(r) \/ Write(r) \/ Publish(r)
     \/ \E m \in Member :
          \/ Created(m) \/ Reply(m) \/ Join(m) \/ Leave(m) \/ Reconnected(m)
          \/ Attempt(m) \/ Abandon(m) \/ Joined(m) \/ Refused(m) \/ ModeUpdated(m)

Spec == Init /\ [][Next]_modeVars

-----------------------------------------------------------------------------

Settled ==
  /\ ~admin.lapsed
  /\ \A r \in Request : admin.request[r] = NoRequest
  /\ gateway.st = "up" /\ gateway.topic = <<>> /\ gateway.changes = <<>>
  /\ \A m \in Member : client[m].inbox = <<>> /\ gateway.command[m] = {}

\* Once no change of the mode is under way the gateway has the row's mode, and whoever
\* shows an active session is in its room with that mode, also when it joined while the
\* rooms were being emptied (app-runtime.ts, applyMediaMode; voice-store.ts,
\* handleMediaModeUpdated).
ModeSettles ==
  Settled =>
    /\ gateway.mode = admin.row
    /\ \A m \in Member :
         /\ client[m].st = "active" => m \in gateway.rooms /\ client[m].mode = gateway.mode
         /\ client[m].st = "idle" => m \notin gateway.rooms
=============================================================================
