---------------------------- MODULE RoomManagers ----------------------------
(***************************************************************************)
(* The data structures of the Gateway's room managers, as operators on     *)
(* values: the voice room of a channel (ws/voice-room-manager.ts), and the *)
(* publications of streams and of shared music (ws/stream-room-manager.ts, *)
(* ws/music-room-manager.ts).  The two publication managers are the same   *)
(* code with "viewer" renamed to "listener", so one set of operators takes *)
(* the kind as a parameter.                                                *)
(*                                                                         *)
(* A publication is identified by the media session of its host: the code  *)
(* draws a fresh streamId and a fresh sessionId together and never changes *)
(* either.  The order of a JavaScript Map is not kept.                     *)
(***************************************************************************)
CONSTANTS Conn,      \* connections (sockets), each attached at most once
          User, Channel,
          Sess,      \* media session ids, drawn with randomUUID()
          None

ASSUME NoneIsNew == None \notin Conn \cup User \cup Channel \cup Sess

PubKinds == {"stream", "music"}

Participant == [conn : Conn, sess : Sess, muted : BOOLEAN]
Room        == [User -> Participant \cup {None}]
Viewer      == [conn : Conn, sess : Sess]
Publication == [kind : PubKinds, ch : Channel, host : User, conn : Conn,
                viewers : [User -> Viewer \cup {None}]]
Publications == [Sess -> Publication \cup {None}]

-----------------------------------------------------------------------------
(* VoiceRoomManager: one participant record per user and channel.          *)

EmptyRoom == [u \in User |-> None]

Occupants(room) == {u \in User : room[u] # None}

\* Mutant of Seat: the record forgets the connection that joined.
SeatUnowned(room, u, c, s) ==
  [room EXCEPT ![u] = [conn |-> None, sess |-> s, muted |-> FALSE]]

\* join, for a user with no record in the room.
Seat(room, u, c, s) ==
  [room EXCEPT ![u] = [conn |-> c, sess |-> s, muted |-> FALSE]]

\* leave: by user, whichever connection owns the record.
Unseat(room, u) == [room EXCEPT ![u] = None]

\* setMuted
Mute(room, u, m) ==
  IF room[u] = None THEN room
  ELSE [room EXCEPT ![u].muted = m]

\* Mutant of UnseatOwned: the connection is not compared (before 1.1.5).
UnseatUser(room, u, c) == Unseat(room, u)

\* leaveAllChannels on one room: only the record that connection c owns.
UnseatOwned(room, u, c) ==
  IF room[u] # None /\ room[u].conn = c THEN Unseat(room, u) ELSE room

\* What voice.state.updated and voice.roster.updated carry of a room.
Snapshot(room) ==
  [u \in User |-> IF room[u] = None THEN None
                  ELSE [sess |-> room[u].sess, muted |-> room[u].muted]]
Snapshots == [User -> [sess : Sess, muted : BOOLEAN] \cup {None}]

\* The connections a room's own broadcasts go to.
RoomConns(room) == {room[u].conn : u \in Occupants(room)}

-----------------------------------------------------------------------------
(* StreamRoomManager and MusicRoomManager.                                  *)

Live(ps) == {p \in Sess : ps[p] # None}

\* findHostedPublicationByUser
Hosted(ps, k, ch, u) ==
  {p \in Live(ps) : ps[p].kind = k /\ ps[p].ch = ch /\ ps[p].host = u}

\* start, for a user who hosts nothing of kind k in the channel.
Publish(ps, p, k, ch, u, c) ==
  [ps EXCEPT ![p] = [kind |-> k, ch |-> ch, host |-> u, conn |-> c,
                     viewers |-> [v \in User |-> None]]]

\* stop
Unpublish(ps, p) == [ps EXCEPT ![p] = None]

\* addViewer, addListener
AddViewer(ps, p, u, c, s) ==
  [ps EXCEPT ![p].viewers[u] = [conn |-> c, sess |-> s]]

\* removeViewer, removeListener
RemoveViewer(ps, p, u) ==
  [ps EXCEPT ![p].viewers[u] = None]

\* leaveRoomForUser, over the channels chs and the owning connections cs
\* (all of them when the code passes no connection id): the publications the
\* user hosts go, and from the others the user's viewer record goes.
Stopped(ps, k, chs, u, cs) ==
  {p \in Live(ps) : /\ ps[p].kind = k /\ ps[p].ch \in chs
                    /\ ps[p].host = u /\ ps[p].conn \in cs}
Unviewed(ps, k, chs, u, cs) ==
  {p \in Live(ps) \ Stopped(ps, k, chs, u, cs) :
     /\ ps[p].kind = k /\ ps[p].ch \in chs
     /\ ps[p].viewers[u] # None /\ ps[p].viewers[u].conn \in cs}
LeaveForUser(ps, k, chs, u, cs) ==
  [p \in Sess |->
     CASE p \in Stopped(ps, k, chs, u, cs) -> None
       [] p \in Unviewed(ps, k, chs, u, cs) ->
            [ps[p] EXCEPT !.viewers[u] = None]
       [] OTHER -> ps[p]]

\* The results leaveRoomForUser returns: the sessions to end, with their role.
Change == [kind : PubKinds, role : {"host", "viewer"}, sess : Sess]
HostChange(ps, p) == [kind |-> ps[p].kind, role |-> "host", sess |-> p]
\* Mutant of ViewerChange: the session of the host.
ViewerChangeOfHost(ps, p, u) ==
  [kind |-> ps[p].kind, role |-> "viewer", sess |-> p]
ViewerChange(ps, p, u) ==
  [kind |-> ps[p].kind, role |-> "viewer", sess |-> ps[p].viewers[u].sess]
\* Mutants of Changes: the connection, or the kind, is not compared.
ChangesOfUser(ps, k, chs, u, cs) ==
  {HostChange(ps, p) : p \in Stopped(ps, k, chs, u, Conn)} \cup
  {ViewerChange(ps, p, u) : p \in Unviewed(ps, k, chs, u, Conn)}
ChangesOfAnyKind(ps, k, chs, u, cs) ==
  UNION {{HostChange(ps, p) : p \in Stopped(ps, j, chs, u, cs)} : j \in PubKinds}
Changes(ps, k, chs, u, cs) ==
  {HostChange(ps, p) : p \in Stopped(ps, k, chs, u, cs)} \cup
  {ViewerChange(ps, p, u) : p \in Unviewed(ps, k, chs, u, cs)}

\* The host sessions of stopped streams: those have a row to end.
StoppedStreams(todo) ==
  {x.sess : x \in {y \in todo : y.kind = "stream" /\ y.role = "host"}}

\* The media sessions of the records a user owns through connection c.
OwnedSessions(voice, ps, u, c) ==
  {voice[ch][u].sess : ch \in {d \in Channel : voice[d][u] # None
                                              /\ voice[d][u].conn = c}} \cup
  {p \in Live(ps) : ps[p].host = u /\ ps[p].conn = c} \cup
  {ps[p].viewers[u].sess : p \in {q \in Live(ps) : ps[q].viewers[u] # None
                                              /\ ps[q].viewers[u].conn = c}}

\* Every media session a live record refers to.
Referenced(voice, ps) ==
  UNION {OwnedSessions(voice, ps, u, c) : u \in User, c \in Conn}
=============================================================================
