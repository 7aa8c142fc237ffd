------------------------- MODULE GatewayRoomsProofs -------------------------
(***************************************************************************)
(* Type correctness of the Gateway rooms, for every set of connections,    *)
(* users, channels, sessions and tasks; that a user hosts one publication  *)
(* of a kind in a channel; that rosters are repaired; that the rows of     *)
(* stream_sessions follow the streams; and that media sessions and voice   *)
(* records have one owner.                                                 *)
(***************************************************************************)
EXTENDS GatewayRooms, TLAPS

\* TypeOK, without and with the conjuncts about tasks.
StateOK ==
  /\ conn \in [Conn -> {"unused", "open", "closed"}]
  /\ uid \in [Conn -> User \cup {None}]
  /\ vch \in [Conn -> Channel \cup {None}]
  /\ index \in [User -> Conn \cup {None}]
  /\ mode \in {"p2p", "sfu"}
  /\ voice \in [Channel -> Room]
  /\ pubs \in Publications
  /\ media \in [Sess -> {"fresh", "p2p", "sfu", "closed"}]
  /\ row \in [Sess -> {"absent", "active", "ended"}]
  /\ seen \in [Watchers -> [Channel -> Snapshots]]
  /\ bg \subseteq BgOps
TasksOK == /\ task \in [Task -> TaskRecord]
           /\ \A t \in Task : WellFormed(task[t])

-----------------------------------------------------------------------------
(* The operators of RoomManagers return rooms and publications.            *)

\* An empty room is a room, and what a snapshot carries is typed.
LEMMA EmptyRoomType == EmptyRoom \in Room
BY DEF EmptyRoom, Room

LEMMA SnapshotType ==
  ASSUME NEW room \in Room
  PROVE  Snapshot(room) \in Snapshots
BY DEF Snapshot, Snapshots, Room, Participant

\* join, leave, setMuted and leaveAllChannels keep a room a room.
LEMMA SeatType ==
  ASSUME NEW room \in Room, NEW u \in User, NEW c \in Conn, NEW s \in Sess
  PROVE  Seat(room, u, c, s) \in Room
BY DEF Seat, Room, Participant

LEMMA UnseatType ==
  ASSUME NEW room \in Room, NEW u \in User, NEW c
  PROVE  Unseat(room, u) \in Room /\ UnseatOwned(room, u, c) \in Room
BY DEF Unseat, UnseatOwned, Room

LEMMA MuteType ==
  ASSUME NEW room \in Room, NEW u \in User, NEW m \in BOOLEAN
  PROVE  Mute(room, u, m) \in Room
BY DEF Mute, Room, Participant

\* start, stop, addViewer, removeViewer and leaveRoomForUser keep the
\* publications typed, and the changes leaveRoomForUser reports are changes.
LEMMA PublishType ==
  ASSUME NEW ps \in Publications, NEW p \in Sess, NEW k \in PubKinds,
         NEW ch \in Channel, NEW u \in User, NEW c \in Conn
  PROVE  Publish(ps, p, k, ch, u, c) \in Publications
BY DEF Publish, Publications, Publication

LEMMA UnpublishType ==
  ASSUME NEW ps \in Publications, NEW p
  PROVE  Unpublish(ps, p) \in Publications
BY DEF Unpublish, Publications

LEMMA AddViewerType ==
  ASSUME NEW ps \in Publications, NEW p \in Sess, ps[p] # None,
         NEW u \in User, NEW c \in Conn, NEW s \in Sess
  PROVE  AddViewer(ps, p, u, c, s) \in Publications
BY DEF Publications, AddViewer, Publication, Viewer

LEMMA RemoveViewerType ==
  ASSUME NEW ps \in Publications, NEW p \in Sess, ps[p] # None, NEW u \in User
  PROVE  RemoveViewer(ps, p, u) \in Publications
BY DEF Publications, RemoveViewer, Publication

LEMMA LeaveForUserType ==
  ASSUME NEW ps \in Publications, NEW k, NEW chs, NEW u \in User, NEW cs
  PROVE  LeaveForUser(ps, k, chs, u, cs) \in Publications
<1> SUFFICES ASSUME NEW p \in Sess
             PROVE  LeaveForUser(ps, k, chs, u, cs)[p] \in Publication \cup {None}
  BY DEF LeaveForUser, Publications
<1>1. CASE p \in Stopped(ps, k, chs, u, cs)
  BY <1>1 DEF LeaveForUser, Unviewed
<1>2. CASE p \in Unviewed(ps, k, chs, u, cs)
  BY <1>2 DEF Unviewed, Live, Publications, Publication, LeaveForUser
<1>3. CASE p \notin Stopped(ps, k, chs, u, cs) /\ p \notin Unviewed(ps, k, chs, u, cs)
  BY <1>3 DEF LeaveForUser, Publications
<1> QED
  BY <1>1, <1>2, <1>3

LEMMA ChangeTypes ==
  ASSUME NEW ps \in Publications, NEW p \in Sess, ps[p] # None
  PROVE  /\ HostChange(ps, p) \in Change
         /\ \A u \in User : ps[p].viewers[u] # None => ViewerChange(ps, p, u) \in Change
BY DEF Publications, HostChange, ViewerChange, Change, Publication, Viewer

LEMMA ChangesType ==
  ASSUME NEW ps \in Publications, NEW k, NEW chs, NEW u \in User, NEW cs
  PROVE  Changes(ps, k, chs, u, cs) \subseteq Change
BY ChangeTypes DEF Changes, Stopped, Unviewed, Live

-----------------------------------------------------------------------------
(* Helpers of GatewayRooms.                                                *)

LEMMA IdleTyped == IdleTask \in TaskRecord /\ WellFormed(IdleTask)
BY EmptyRoomType DEF IdleTask, TaskRecord, PCs, WellFormed, AllCommands

LEMMA SetTyped ==
  ASSUME TasksOK, NEW t \in Task, NEW r \in TaskRecord, WellFormed(r),
         Set(t, r), uid' = uid
  PROVE  TasksOK'
BY DEF TasksOK, Set, WellFormed

LEMMA FinishTyped ==
  ASSUME TasksOK, NEW t \in Task, Finish(t), uid' = uid
  PROVE  TasksOK'
BY IdleTyped, SetTyped DEF Finish

LEMMA ToldType ==
  ASSUME seen \in [Watchers -> [Channel -> Snapshots]],
         NEW cs, NEW ch \in Channel, NEW room \in Room
  PROVE  Told(cs, ch, room) \in [Watchers -> [Channel -> Snapshots]]
BY SnapshotType DEF Told

LEMMA EndRowType ==
  ASSUME NEW r \in [Sess -> {"absent", "active", "ended"}], NEW ss
  PROVE  EndRow(r, ss) \in [Sess -> {"absent", "active", "ended"}]
BY DEF EndRow

LEMMA CloseMediaType ==
  ASSUME media \in [Sess -> {"fresh", "p2p", "sfu", "closed"}],
         NEW s, CloseMedia(s)
  PROVE  media' \in [Sess -> {"fresh", "p2p", "sfu", "closed"}]
BY DEF CloseMedia

\* A record of tasks stays one when a field gets another value of its range.
LEMMA UpdateTyped ==
  ASSUME NEW r \in TaskRecord
  PROVE  /\ \A x \in PCs : [r EXCEPT !.pc = x] \in TaskRecord
         /\ \A x \in AllCommands \cup {"auth"} : [r EXCEPT !.cmd = x] \in TaskRecord
         /\ \A x \in Conn : [r EXCEPT !.conn = x] \in TaskRecord
         /\ \A x \in Channel : [r EXCEPT !.ch = x] \in TaskRecord
         /\ \A x \in Channel : [r EXCEPT !.goal = x] \in TaskRecord
         /\ \A x \in PubKinds : [r EXCEPT !.kind = x] \in TaskRecord
         /\ \A x \in Sess : [r EXCEPT !.pub = x] \in TaskRecord
         /\ \A x \in Sess \cup {None} : [r EXCEPT !.cur = x] \in TaskRecord
         /\ \A x \in {"p2p", "sfu"} : [r EXCEPT !.mode = x] \in TaskRecord
         /\ \A x \in {"end", "streams", "music", "clear"} : [r EXCEPT !.then = x] \in TaskRecord
         /\ \A x \in SUBSET Change : [r EXCEPT !.todo = x] \in TaskRecord
         /\ \A x \in SUBSET Channel : [r EXCEPT !.rooms = x] \in TaskRecord
         /\ \A x \in Room : [r EXCEPT !.rem = x] \in TaskRecord
<1>1. \A x \in PCs : [r EXCEPT !.pc = x] \in TaskRecord
  BY DEF TaskRecord
<1>2. \A x \in AllCommands \cup {"auth"} : [r EXCEPT !.cmd = x] \in TaskRecord
  BY DEF TaskRecord
<1>3. \A x \in Conn : [r EXCEPT !.conn = x] \in TaskRecord
  BY DEF TaskRecord
<1>4. \A x \in Channel : [r EXCEPT !.ch = x] \in TaskRecord
  BY DEF TaskRecord
<1>5. \A x \in Channel : [r EXCEPT !.goal = x] \in TaskRecord
  BY DEF TaskRecord
<1>6. \A x \in PubKinds : [r EXCEPT !.kind = x] \in TaskRecord
  BY DEF TaskRecord
<1>7. \A x \in Sess : [r EXCEPT !.pub = x] \in TaskRecord
  BY DEF TaskRecord
<1>8. \A x \in Sess \cup {None} : [r EXCEPT !.cur = x] \in TaskRecord
  BY DEF TaskRecord
<1>9. \A x \in {"p2p", "sfu"} : [r EXCEPT !.mode = x] \in TaskRecord
  BY DEF TaskRecord
<1>10. \A x \in {"end", "streams", "music", "clear"} : [r EXCEPT !.then = x] \in TaskRecord
  BY DEF TaskRecord
<1>11. \A x \in SUBSET Change : [r EXCEPT !.todo = x] \in TaskRecord
  BY DEF TaskRecord
<1>12. \A x \in SUBSET Channel : [r EXCEPT !.rooms = x] \in TaskRecord
  BY DEF TaskRecord
<1>13. \A x \in Room : [r EXCEPT !.rem = x] \in TaskRecord
  BY DEF TaskRecord
<1> QED
  BY <1>1, <1>2, <1>3, <1>4, <1>5, <1>6, <1>7, <1>8, <1>9, <1>10, <1>11, <1>12, <1>13

\* AwaitChange, AfterMusic and AfterStreams keep tasks and publications typed
\* when the command they continue is one that ends sessions.
LEMMA AwaitChangeTyped ==
  ASSUME TasksOK, NEW t \in Task, NEW r \in TaskRecord, r.conn \in Conn,
         uid[r.conn] \in User, r.cmd \in {"join", "leave", "stop", "unwatch"},
         r.then \in {"music", "end"}, r.then = "music" => r.ch \in Channel,
         NEW ps \in Publications, NEW todo \in SUBSET Change,
         AwaitChange(t, r, ps, todo), uid' = uid
  PROVE  TasksOK' /\ pubs' \in Publications
<1>1. PICK x \in Awaited(todo) :
        /\ Set(t, [r EXCEPT
                     !.pc = IF x.kind = "stream" /\ x.role = "host"
                            THEN "endrow" ELSE "endmedia",
                     !.cur = x.sess, !.todo = todo \ {x}])
        /\ pubs' = ps
  BY DEF AwaitChange
<1> DEFINE q == [r EXCEPT !.pc = IF x.kind = "stream" /\ x.role = "host"
                                 THEN "endrow" ELSE "endmedia",
                          !.cur = x.sess, !.todo = todo \ {x}]
<1>2. x.sess \in Sess
  BY DEF Awaited, Change
<1>3. q \in TaskRecord
  <2> DEFINE pc == IF x.kind = "stream" /\ x.role = "host"
                   THEN "endrow" ELSE "endmedia"
             q1 == [r EXCEPT !.pc = pc]
             q2 == [q1 EXCEPT !.cur = x.sess]
             q3 == [q2 EXCEPT !.todo = todo \ {x}]
  <2>1. q1 \in TaskRecord
    BY UpdateTyped DEF PCs
  <2> HIDE DEF q1
  <2>2. q2 \in TaskRecord
    BY <1>2, <2>1, UpdateTyped
  <2> HIDE DEF q2
  <2>3. q3 \in TaskRecord
    BY <2>2, UpdateTyped
  <2> QED
    BY <2>3 DEF q1, q2
<1>4. WellFormed(q)
  BY <1>2 DEF WellFormed, TaskRecord
<1> HIDE DEF q
<1>5. Set(t, q)
  BY <1>1 DEF q
<1> QED
  BY <1>1, <1>3, <1>4, <1>5, SetTyped

LEMMA AfterMusicTyped ==
  ASSUME TasksOK, mode \in {"p2p", "sfu"}, NEW t \in Task, NEW r \in TaskRecord,
         r.conn \in Conn, uid[r.conn] \in User,
         r.cmd \in {"join", "leave", "stop", "unwatch"},
         NEW ps \in Publications, NEW todo \in SUBSET Change,
         AfterMusic(t, r, ps, todo), uid' = uid
  PROVE  TasksOK' /\ pubs' \in Publications
<1>1. CASE AwaitChange(t, [r EXCEPT !.then = "end"], ps, todo)
  <2> DEFINE q == [r EXCEPT !.then = "end"]
  <2>1. /\ q \in TaskRecord /\ q.conn = r.conn /\ q.cmd = r.cmd
        /\ q.then = "end"
    BY DEF TaskRecord
  <2> HIDE DEF q
  <2>2. AwaitChange(t, q, ps, todo)
    BY <1>1 DEF q
  <2> QED
    BY <2>1, <2>2, AwaitChangeTyped
<1>2. CASE pubs' = ps /\ r.goal = None /\ Finish(t)
  BY <1>2, FinishTyped
<1>3. CASE /\ pubs' = ps /\ r.goal # None
           /\ Set(t, [IdleTask EXCEPT !.pc = "media", !.cmd = "join",
                        !.conn = r.conn, !.goal = r.goal, !.mode = mode])
  <2> DEFINE q == [IdleTask EXCEPT !.pc = "media", !.cmd = "join",
                     !.conn = r.conn, !.goal = r.goal, !.mode = mode]
  <2>1. r.goal \in Channel
    BY <1>3 DEF TaskRecord
  <2>2. q \in TaskRecord
    <3> DEFINE q1 == [IdleTask EXCEPT !.pc = "media"]
               q2 == [q1 EXCEPT !.cmd = "join"]
               q3 == [q2 EXCEPT !.conn = r.conn]
               q4 == [q3 EXCEPT !.goal = r.goal]
               q5 == [q4 EXCEPT !.mode = mode]
    <3>1. q1 \in TaskRecord
      BY IdleTyped, UpdateTyped DEF PCs
    <3> HIDE DEF q1
    <3>2. q2 \in TaskRecord
      BY <3>1, UpdateTyped DEF AllCommands
    <3> HIDE DEF q2
    <3>3. q3 \in TaskRecord
      BY <3>2, UpdateTyped
    <3> HIDE DEF q3
    <3>4. q4 \in TaskRecord
      BY <3>3, <2>1, UpdateTyped
    <3> HIDE DEF q4
    <3>5. q5 \in TaskRecord
      BY <3>4, UpdateTyped
    <3> QED
      BY <3>5 DEF q1, q2, q3, q4
  <2>3. WellFormed(q)
    BY <2>1 DEF WellFormed, IdleTask
  <2> HIDE DEF q
  <2>4. Set(t, q)
    BY <1>3 DEF q
  <2> QED
    BY <1>3, <2>2, <2>3, <2>4, SetTyped
<1> QED
  BY <1>1, <1>2, <1>3 DEF AfterMusic

LEMMA AfterStreamsTyped ==
  ASSUME TasksOK, mode \in {"p2p", "sfu"}, NEW t \in Task, NEW r \in TaskRecord,
         r.conn \in Conn, uid[r.conn] \in User, r.ch \in Channel,
         r.cmd \in {"join", "leave", "stop", "unwatch"},
         NEW ps \in Publications, NEW todo \in SUBSET Change,
         AfterStreams(t, r, ps, todo), uid' = uid
  PROVE  TasksOK' /\ pubs' \in Publications
<1>1. CASE AwaitChange(t, [r EXCEPT !.then = "music"], ps, todo)
  <2> DEFINE q == [r EXCEPT !.then = "music"]
  <2>1. /\ q \in TaskRecord /\ q.conn = r.conn /\ q.cmd = r.cmd
        /\ q.then = "music" /\ q.ch = r.ch
    BY DEF TaskRecord
  <2> HIDE DEF q
  <2>2. AwaitChange(t, q, ps, todo)
    BY <1>1 DEF q
  <2> QED
    BY <2>1, <2>2, AwaitChangeTyped
<1>2. CASE AfterMusic(t, r, LeaveForUser(ps, "music", {r.ch}, uid[r.conn], Conn),
                      Changes(ps, "music", {r.ch}, uid[r.conn], Conn))
  BY LeaveForUserType, ChangesType, <1>2, AfterMusicTyped
<1> QED
  BY <1>1, <1>2 DEF AfterStreams

\* The first part of handleVoiceLeave, for voice.leave and for voice.join.
LEMMA LeaveRoomTyped ==
  ASSUME StateOK, TasksOK, NEW t \in Task, NEW r \in TaskRecord, r.conn \in Conn,
         r.cmd \in {"join", "leave"}, NEW leaver \in Conn, NEW u \in User,
         uid[r.conn] \in User, NEW ch \in Channel,
         LeaveRoom(t, r, leaver, u, ch), uid' = uid
  PROVE  /\ TasksOK'
         /\ voice' \in [Channel -> Room]
         /\ vch' \in [Conn -> Channel \cup {None}]
         /\ seen' \in [Watchers -> [Channel -> Snapshots]]
<1> DEFINE room == Unseat(voice[ch], u)
           close == [r EXCEPT !.pc = "vclose", !.ch = ch, !.then = "streams",
                              !.cur = voice[ch][u].sess, !.rem = room]
           next == [r EXCEPT !.pc = "roster", !.ch = ch, !.then = "streams"]
<1>1. room \in Room
  BY UnseatType DEF StateOK
<1>2. voice' \in [Channel -> Room] /\ vch' \in [Conn -> Channel \cup {None}]
  BY <1>1 DEF LeaveRoom, StateOK
<1>3. CASE mode = "sfu" /\ voice[ch][u] # None
  <2>1. voice[ch][u].sess \in Sess
    BY <1>3 DEF StateOK, Room, Participant
  <2>2. close \in TaskRecord
    <3> DEFINE q1 == [r EXCEPT !.pc = "vclose"]
               q2 == [q1 EXCEPT !.ch = ch]
               q3 == [q2 EXCEPT !.then = "streams"]
               q4 == [q3 EXCEPT !.cur = voice[ch][u].sess]
               q5 == [q4 EXCEPT !.rem = room]
    <3>1. q1 \in TaskRecord
      BY UpdateTyped DEF PCs
    <3> HIDE DEF q1
    <3>2. q2 \in TaskRecord
      BY <3>1, UpdateTyped
    <3> HIDE DEF q2
    <3>3. q3 \in TaskRecord
      BY <3>2, UpdateTyped
    <3> HIDE DEF q3
    <3>4. q4 \in TaskRecord
      BY <2>1, <3>3, UpdateTyped
    <3> HIDE DEF q4
    <3>5. q5 \in TaskRecord
      BY <1>1, <3>4, UpdateTyped
    <3> QED
      BY <3>5 DEF q1, q2, q3, q4
  <2>3. WellFormed(close)
    BY <2>1 DEF WellFormed, TaskRecord
  <2>4. Set(t, close) /\ seen' = seen
    BY <1>3 DEF LeaveRoom
  <2> HIDE DEF close
  <2> QED
    BY <1>2, <2>2, <2>3, <2>4, SetTyped DEF StateOK
<1>4. CASE ~(mode = "sfu" /\ voice[ch][u] # None)
  <2>1. next \in TaskRecord
    <3> DEFINE q1 == [r EXCEPT !.pc = "roster"]
               q2 == [q1 EXCEPT !.ch = ch]
               q3 == [q2 EXCEPT !.then = "streams"]
    <3>1. q1 \in TaskRecord
      BY UpdateTyped DEF PCs
    <3> HIDE DEF q1
    <3>2. q2 \in TaskRecord
      BY <3>1, UpdateTyped
    <3> HIDE DEF q2
    <3>3. q3 \in TaskRecord
      BY <3>2, UpdateTyped
    <3> QED
      BY <3>3 DEF q1, q2
  <2>2. WellFormed(next)
    BY DEF WellFormed, TaskRecord
  <2>3. Set(t, next) /\ seen' = Told(RoomConns(room), ch, room)
    BY <1>4 DEF LeaveRoom
  <2> HIDE DEF next, room
  <2>4. seen' \in [Watchers -> [Channel -> Snapshots]]
    BY <1>1, <2>3, ToldType DEF StateOK
  <2> QED
    BY <1>2, <2>1, <2>2, <2>3, <2>4, SetTyped
<1> QED
  BY <1>3, <1>4

\* One turn of the loop of applyMediaMode.
LEMMA ClearRoomsTyped ==
  ASSUME voice \in [Channel -> Room], bg \subseteq BgOps, TasksOK,
         NEW t \in Task, NEW r \in TaskRecord, r.cmd = "mode" \/ WellFormed(r),
         r.pc \in {"idle", "roster"}, r.pc = "idle" => r.cmd = "mode",
         ClearRooms(t, r), uid' = uid
  PROVE  voice' \in [Channel -> Room] /\ bg' \subseteq BgOps /\ TasksOK'
<1>1. CASE /\ bg' = bg \cup ({"endrow"} \X StoppedStreams(r.todo))
           /\ Finish(t) /\ UNCHANGED voice
  BY <1>1, FinishTyped DEF StoppedStreams, TaskRecord, Change, BgOps
<1>2. ASSUME NEW ch \in r.rooms,
             voice' = [voice EXCEPT ![ch] = EmptyRoom],
             Set(t, [r EXCEPT !.pc = "roster", !.ch = ch, !.then = "clear",
                              !.rooms = @ \ {ch}]),
             UNCHANGED bg
      PROVE  voice' \in [Channel -> Room] /\ bg' \subseteq BgOps /\ TasksOK'
  <2> DEFINE q == [r EXCEPT !.pc = "roster", !.ch = ch, !.then = "clear",
                            !.rooms = @ \ {ch}]
  <2>1. ch \in Channel
    BY DEF TaskRecord
  <2>2. q \in TaskRecord
    <3> DEFINE q1 == [r EXCEPT !.pc = "roster"]
               q2 == [q1 EXCEPT !.ch = ch]
               q3 == [q2 EXCEPT !.then = "clear"]
               q4 == [q3 EXCEPT !.rooms = r.rooms \ {ch}]
    <3>1. q1 \in TaskRecord
      BY UpdateTyped DEF PCs
    <3> HIDE DEF q1
    <3>2. q2 \in TaskRecord
      BY <2>1, <3>1, UpdateTyped
    <3> HIDE DEF q2
    <3>3. q3 \in TaskRecord
      BY <3>2, UpdateTyped
    <3> HIDE DEF q3
    <3>4. q4 \in TaskRecord
      <4>1. r.rooms \ {ch} \in SUBSET Channel
        BY DEF TaskRecord
      <4> QED
        BY <3>3, <4>1, UpdateTyped
    <3> QED
      BY <3>4 DEF q1, q2, q3
  <2>3. WellFormed(q)
    BY <2>1 DEF WellFormed, TaskRecord
  <2> HIDE DEF q
  <2>4. Set(t, q)
    BY <1>2 DEF q
  <2> QED
    BY <1>2, <2>1, <2>2, <2>3, <2>4, SetTyped, EmptyRoomType
<1> QED
  BY <1>1, <1>2 DEF ClearRooms

-----------------------------------------------------------------------------
(* One lemma per action: it keeps TypeOK.                                  *)

LEMMA TypeOKSplit == (TypeOK <=> StateOK /\ TasksOK) /\ (TypeOK' <=> StateOK' /\ TasksOK')
BY DEF TypeOK, StateOK, TasksOK

\* Actions that change neither the state nor uid but set one task.
LEMMA SetTypeOK ==
  ASSUME TypeOK, NEW t \in Task, NEW r \in TaskRecord, WellFormed(r), Set(t, r),
         UNCHANGED <<connVars, mode, voice, pubs, media, row, seen, bg>>
  PROVE  TypeOK'
BY TypeOKSplit, SetTyped DEF connVars, StateOK

LEMMA FinishTypeOK ==
  ASSUME TypeOK, NEW t \in Task, Finish(t),
         UNCHANGED <<connVars, mode, voice, pubs, media, row, seen, bg>>
  PROVE  TypeOK'
BY SetTypeOK, IdleTyped DEF Finish

\* A task in flight is typed, and so is the user of its connection.
LEMMA InFlight ==
  ASSUME TypeOK, NEW t \in Task
  PROVE  /\ task[t] \in TaskRecord /\ WellFormed(task[t])
         /\ task[t].pc # "idle" /\ task[t].cmd # "mode" => task[t].conn \in Conn
         /\ task[t].pc # "idle" /\ task[t].cmd \notin {"mode", "auth"}
              => uid[task[t].conn] \in User
BY DEF TypeOK, WellFormed

LEMMA MemberTyped ==
  ASSUME TypeOK, NEW c \in Conn, Member(c)
  PROVE  uid[c] \in User
BY DEF TypeOK, Member

LEMMA AttachTypeOK ==
  ASSUME TypeOK, NEW c \in Conn, Attach(c)
  PROVE  TypeOK'
BY DEF Attach, TypeOK, WellFormed

LEMMA SendAuthenticateTypeOK ==
  ASSUME TypeOK, NEW c \in Conn, NEW t \in Task, SendAuthenticate(c, t)
  PROVE  TypeOK'
<1> DEFINE q == [IdleTask EXCEPT !.pc = "auth", !.cmd = "auth", !.conn = c]
<1>1. q \in TaskRecord
  <2> DEFINE q1 == [IdleTask EXCEPT !.pc = "auth"]
             q2 == [q1 EXCEPT !.cmd = "auth"]
             q3 == [q2 EXCEPT !.conn = c]
  <2>1. q1 \in TaskRecord
    BY IdleTyped, UpdateTyped DEF PCs
  <2> HIDE DEF q1
  <2>2. q2 \in TaskRecord
    BY <2>1, UpdateTyped
  <2> HIDE DEF q2
  <2>3. q3 \in TaskRecord
    BY <2>2, UpdateTyped
  <2> QED
    BY <2>3 DEF q1, q2
<1>2. WellFormed(q)
  BY DEF WellFormed, IdleTask
<1>3. Set(t, q)
  BY DEF SendAuthenticate
<1> HIDE DEF q
<1> QED
  BY <1>1, <1>2, <1>3, SetTypeOK DEF SendAuthenticate

LEMMA AuthenticatedTypeOK ==
  ASSUME TypeOK, NEW t \in Task, Authenticated(t)
  PROVE  TypeOK'
<1> DEFINE c == task[t].conn
<1>1. c \in Conn /\ task[t].cmd = "auth" /\ task[t] \in TaskRecord
  BY InFlight DEF Authenticated, WellFormed
<1>2. CASE conn[c] = "open"
  <2> DEFINE q == [task[t] EXCEPT !.pc = "snapshot"]
  <2>1. PICK u \in User : /\ uid' = [uid EXCEPT ![c] = u]
                          /\ index' = [index EXCEPT ![u] = c]
    BY <1>2 DEF Authenticated
  <2>2. task' = [task EXCEPT ![t] = q]
    BY <1>2 DEF Authenticated, Set
  <2>3. q \in TaskRecord /\ q.pc = "snapshot" /\ q.cmd = "auth" /\ q.conn \in Conn
    <3>1. q \in TaskRecord
      BY <1>1, UpdateTyped DEF PCs
    <3>2. q.pc = "snapshot" /\ q.cmd = "auth" /\ q.conn \in Conn
      BY <1>1 DEF TaskRecord
    <3> QED
      BY <3>1, <3>2
  <2> HIDE DEF q
  <2>4. task' \in [Task -> TaskRecord]
    BY <2>2, <2>3 DEF TypeOK
  <2>5. ASSUME NEW x \in Task
        PROVE  WellFormed(task[x])'
    BY <2>2, <2>3, <1>1, <2>1 DEF WellFormed, TypeOK
  <2>6. StateOK'
    BY <1>1, <2>1 DEF Authenticated, TypeOK, StateOK
  <2> QED
    BY <2>4, <2>5, <2>6, TypeOKSplit DEF TasksOK
<1>3. CASE conn[c] # "open"
  BY <1>3, FinishTypeOK DEF Authenticated, connVars
<1> QED
  BY <1>2, <1>3

LEMMA SnapshotSentTypeOK ==
  ASSUME TypeOK, NEW t \in Task, SnapshotSent(t)
  PROVE  TypeOK'
BY SnapshotType, TypeOKSplit, FinishTyped DEF TypeOK, SnapshotSent, connVars, StateOK

LEMMA CloseTypeOK ==
  ASSUME TypeOK, NEW c \in Conn, Close(c)
  PROVE  TypeOK'
<1>1. TasksOK'
  BY DEF Close, TypeOK, TasksOK, WellFormed
<1>2. conn' \in [Conn -> {"unused", "open", "closed"}]
  BY DEF Close, TypeOK
<1>3. CASE uid[c] = None
  BY <1>1, <1>2, <1>3, TypeOKSplit DEF Close, StateOK
<1>4. CASE uid[c] # None
  <2> DEFINE u    == uid[c]
             left == {ch \in Channel : u # None /\ voice[ch][u] # None
                                                /\ voice[ch][u].conn = c}
             chs  == Changes(pubs, "stream", Channel, u, {c})
                       \cup Changes(pubs, "music", Channel, u, {c})
             gone == {voice[ch][u].sess : ch \in left} \cup {x.sess : x \in chs}
             rows == StoppedStreams(chs)
  <2>1. u \in User
    BY <1>4 DEF TypeOK
  <2>2. index' \in [User -> Conn \cup {None}]
    BY <1>4, <2>1 DEF Close, TypeOK
  <2>3. voice' \in [Channel -> Room]
    BY <1>4, <2>1, UnseatType DEF Close, TypeOK
  <2>4. pubs' \in Publications
    BY <1>4, <2>1, LeaveForUserType DEF Close, TypeOK
  <2>5. seen' \in [Watchers -> [Channel -> Snapshots]]
    <3>1. \A ch \in Channel : Snapshot(voice'[ch]) \in Snapshots
      BY <2>3, SnapshotType
    <3>2. seen' = [w \in Watchers |-> [ch \in Channel |->
                     IF ch \in left /\ w # c /\ conn[w] = "open"
                                    /\ w \in RoomConns(voice'[ch])
                     THEN Snapshot(voice'[ch]) ELSE seen[w][ch]]]
      BY <1>4 DEF Close
    <3> HIDE DEF left, u
    <3> QED
      BY <3>1, <3>2 DEF TypeOK
  <2>6. chs \subseteq Change
    BY <2>1, ChangesType DEF TypeOK
  <2>7. gone \subseteq Sess /\ rows \subseteq Sess
    <3> USE DEF StoppedStreams
    <3>1. \A ch \in left : voice[ch][u].sess \in Sess
      BY <2>1 DEF TypeOK, Room, Participant
    <3>2. \A x \in Change : x.sess \in Sess
      BY DEF Change
    <3> HIDE DEF chs, left, u
    <3> QED
      BY <2>6, <3>1, <3>2
  <2>8. bg' \subseteq BgOps
    <3>1. bg' = bg \cup ({"roster"} \X left) \cup ({"endrow"} \X rows)
                   \cup (IF mode = "sfu" THEN {"close"} \X gone ELSE {})
      BY <1>4 DEF Close
    <3>2. left \subseteq Channel
      OBVIOUS
    <3> HIDE DEF left, gone, rows
    <3> QED
      BY <2>7, <3>1, <3>2 DEF BgOps, TypeOK
  <2>9. uid' = uid /\ vch' = vch /\ mode' = mode /\ media' = media /\ row' = row
    BY DEF Close
  <2> HIDE DEF u, left, chs, gone, rows
  <2>10. StateOK'
    BY <1>2, <2>2, <2>3, <2>4, <2>5, <2>8, <2>9 DEF TypeOK, StateOK
  <2> QED
    BY <1>1, <2>10, TypeOKSplit
<1> QED
  BY <1>3, <1>4

\* voice.leave and the parts after its awaits.
LEMMA SendLeaveTypeOK ==
  ASSUME TypeOK, NEW c \in Conn, NEW t \in Task, NEW ch \in Channel,
         SendLeave(c, t, ch)
  PROVE  TypeOK'
<1> DEFINE r == [IdleTask EXCEPT !.cmd = "leave", !.conn = c]
<1>1. r \in TaskRecord
  <2> DEFINE q1 == [IdleTask EXCEPT !.cmd = "leave"]
             q2 == [q1 EXCEPT !.conn = c]
  <2>1. q1 \in TaskRecord
    BY IdleTyped, UpdateTyped DEF AllCommands
  <2> HIDE DEF q1
  <2>2. q2 \in TaskRecord
    BY <2>1, UpdateTyped
  <2> QED
    BY <2>2 DEF q1
<1>2. r.conn = c /\ r.cmd = "leave" /\ uid[c] \in User
  BY MemberTyped DEF IdleTask, SendLeave, Send
<1>3. LeaveRoom(t, r, c, uid[c], ch)
  BY DEF SendLeave
<1> HIDE DEF r
<1>4. /\ TasksOK' /\ voice' \in [Channel -> Room]
      /\ vch' \in [Conn -> Channel \cup {None}]
      /\ seen' \in [Watchers -> [Channel -> Snapshots]]
  BY <1>1, <1>2, <1>3, LeaveRoomTyped, TypeOKSplit DEF SendLeave
<1> QED
  BY <1>4, TypeOKSplit DEF SendLeave, StateOK

LEMMA VoiceClosedTypeOK ==
  ASSUME TypeOK, NEW t \in Task, VoiceClosed(t)
  PROVE  TypeOK'
<1> DEFINE r == task[t]
           q == [r EXCEPT !.pc = "roster", !.cur = None, !.rem = EmptyRoom]
<1>1. r \in TaskRecord /\ WellFormed(r) /\ r.pc = "vclose"
  BY InFlight DEF VoiceClosed
<1>2. q \in TaskRecord
  <2> DEFINE q1 == [r EXCEPT !.pc = "roster"]
             q2 == [q1 EXCEPT !.cur = None]
             q3 == [q2 EXCEPT !.rem = EmptyRoom]
  <2>1. q1 \in TaskRecord
    BY <1>1, UpdateTyped DEF PCs
  <2> HIDE DEF q1
  <2>2. q2 \in TaskRecord
    BY <2>1, UpdateTyped
  <2> HIDE DEF q2
  <2>3. q3 \in TaskRecord
    BY <2>2, EmptyRoomType, UpdateTyped
  <2> QED
    BY <2>3 DEF q1, q2
<1>3. WellFormed(q)
  BY <1>1 DEF WellFormed, TaskRecord
<1>4. Set(t, q)
  BY DEF VoiceClosed
<1>5. media' \in [Sess -> {"fresh", "p2p", "sfu", "closed"}]
  BY CloseMediaType DEF VoiceClosed, TypeOK
<1>6. r.rem \in Room /\ r.ch \in Channel
  BY <1>1 DEF TaskRecord, WellFormed
<1>7. seen' \in [Watchers -> [Channel -> Snapshots]]
  BY <1>6, ToldType DEF VoiceClosed, TypeOK
<1> HIDE DEF q
<1>8. TasksOK'
  BY <1>2, <1>3, <1>4, SetTyped, TypeOKSplit DEF VoiceClosed, connVars
<1> QED
  BY <1>5, <1>7, <1>8, TypeOKSplit DEF VoiceClosed, StateOK, connVars

LEMMA StreamsLeftTypeOK ==
  ASSUME TypeOK, NEW t \in Task, StreamsLeft(t)
  PROVE  TypeOK'
<1> DEFINE r == task[t]
           ps == LeaveForUser(pubs, "stream", {r.ch}, uid[r.conn], Conn)
           todo == Changes(pubs, "stream", {r.ch}, uid[r.conn], Conn)
<1>1. /\ r \in TaskRecord /\ r.cmd \in {"join", "leave"} /\ r.ch \in Channel
      /\ r.conn \in Conn /\ uid[r.conn] \in User
  BY InFlight DEF StreamsLeft, WellFormed
<1>2. ps \in Publications /\ todo \in SUBSET Change
  BY <1>1, LeaveForUserType, ChangesType DEF TypeOK
<1>3. AfterStreams(t, r, ps, todo) /\ mode \in {"p2p", "sfu"} /\ uid' = uid
  BY DEF StreamsLeft, connVars, TypeOK
<1> HIDE DEF r, ps, todo
<1>4. TasksOK' /\ pubs' \in Publications
  BY <1>1, <1>2, <1>3, AfterStreamsTyped, TypeOKSplit
<1> QED
  BY <1>4, TypeOKSplit DEF StreamsLeft, StateOK, connVars

LEMMA ProceedTyped ==
  ASSUME TypeOK, NEW t \in Task, task[t].pc \in {"endrow", "endmedia"},
         Proceed(t, task[t]), uid' = uid
  PROVE  TasksOK' /\ pubs' \in Publications
<1> DEFINE r == task[t]
<1>1. /\ r \in TaskRecord /\ r.cmd \in {"join", "leave", "stop", "unwatch"}
      /\ r.then = "music" => r.ch \in Channel
      /\ r.conn \in Conn /\ uid[r.conn] \in User
  BY InFlight DEF WellFormed
<1>2. r.todo \in SUBSET Change
  BY <1>1 DEF TaskRecord
<1>3. mode \in {"p2p", "sfu"} /\ pubs \in Publications
  BY DEF TypeOK
<1>4. Proceed(t, r)
  OBVIOUS
<1> HIDE DEF r
<1>5. CASE r.then = "music"
  BY <1>1, <1>2, <1>3, <1>4, <1>5, AfterStreamsTyped, TypeOKSplit DEF Proceed
<1>6. CASE r.then # "music"
  BY <1>1, <1>2, <1>3, <1>4, <1>6, AfterMusicTyped, TypeOKSplit DEF Proceed
<1> QED
  BY <1>5, <1>6

LEMMA RowEndedTypeOK ==
  ASSUME TypeOK, NEW t \in Task, RowEnded(t)
  PROVE  TypeOK'
<1>1. row' \in [Sess -> {"absent", "active", "ended"}]
  BY EndRowType DEF RowEnded, TypeOK
<1>2. TasksOK' /\ pubs' \in Publications
  <2>1. CASE mode = "sfu"
    <3> DEFINE q == [task[t] EXCEPT !.pc = "endmedia"]
    <3>1. task[t] \in TaskRecord /\ WellFormed(task[t]) /\ task[t].pc = "endrow"
      BY InFlight DEF RowEnded
    <3>2. q \in TaskRecord
      BY <3>1, UpdateTyped DEF PCs
    <3>3. WellFormed(q)
      BY <3>1 DEF WellFormed, TaskRecord
    <3>4. Set(t, q) /\ pubs' = pubs
      BY <2>1 DEF RowEnded
    <3> HIDE DEF q
    <3> QED
      BY <3>2, <3>3, <3>4, SetTyped, TypeOKSplit DEF RowEnded, connVars, StateOK
  <2>2. CASE mode # "sfu"
    BY <2>2, ProceedTyped DEF RowEnded, connVars
  <2> QED
    BY <2>1, <2>2
<1> QED
  BY <1>1, <1>2, TypeOKSplit DEF RowEnded, StateOK, connVars

LEMMA MediaEndedTypeOK ==
  ASSUME TypeOK, NEW t \in Task, MediaEnded(t)
  PROVE  TypeOK'
BY CloseMediaType, ProceedTyped, TypeOKSplit DEF MediaEnded, TypeOK, connVars, StateOK

LEMMA RosterSentTypeOK ==
  ASSUME TypeOK, NEW t \in Task, RosterSent(t)
  PROVE  TypeOK'
<1> DEFINE r == task[t]
<1>1. r \in TaskRecord /\ WellFormed(r) /\ r.pc = "roster" /\ r.ch \in Channel
  BY InFlight DEF RosterSent, WellFormed
<1>2. seen' \in [Watchers -> [Channel -> Snapshots]]
  BY <1>1, ToldType DEF RosterSent, TypeOK
<1>3. voice' \in [Channel -> Room] /\ bg' \subseteq BgOps /\ TasksOK'
  <2>1. CASE r.then = "streams"
    <3> DEFINE q == [r EXCEPT !.pc = "streams"]
    <3>1. q \in TaskRecord
      BY <1>1, UpdateTyped DEF PCs
    <3>2. WellFormed(q)
      BY <1>1, <2>1 DEF WellFormed, TaskRecord
    <3>3. Set(t, q) /\ voice' = voice /\ bg' = bg
      BY <2>1 DEF RosterSent
    <3> HIDE DEF q
    <3> QED
      BY <3>1, <3>2, <3>3, SetTyped, TypeOKSplit DEF RosterSent, connVars, StateOK
  <2>2. CASE r.then = "clear"
    <3>1. ClearRooms(t, r)
      BY <2>2 DEF RosterSent
    <3> HIDE DEF r
    <3> QED
      BY <1>1, <3>1, ClearRoomsTyped, TypeOKSplit DEF RosterSent, connVars, StateOK
  <2>3. CASE r.then \notin {"streams", "clear"}
    BY <2>3, FinishTyped, TypeOKSplit DEF RosterSent, connVars, StateOK
  <2> QED
    BY <2>1, <2>2, <2>3
<1> QED
  BY <1>2, <1>3, TypeOKSplit DEF RosterSent, StateOK, connVars

\* voice.join and voice.speaking.updated.
LEMMA SendJoinTypeOK ==
  ASSUME TypeOK, NEW c \in Conn, NEW t \in Task, NEW ch \in Channel,
         SendJoin(c, t, ch)
  PROVE  TypeOK'
<1> DEFINE q == [IdleTask EXCEPT !.pc = "access", !.cmd = "join",
                                 !.conn = c, !.goal = ch]
<1>1. q \in TaskRecord
  <2> DEFINE q1 == [IdleTask EXCEPT !.pc = "access"]
             q2 == [q1 EXCEPT !.cmd = "join"]
             q3 == [q2 EXCEPT !.conn = c]
             q4 == [q3 EXCEPT !.goal = ch]
  <2>1. q1 \in TaskRecord
    BY IdleTyped, UpdateTyped DEF PCs
  <2> HIDE DEF q1
  <2>2. q2 \in TaskRecord
    BY <2>1, UpdateTyped DEF AllCommands
  <2> HIDE DEF q2
  <2>3. q3 \in TaskRecord
    BY <2>2, UpdateTyped
  <2> HIDE DEF q3
  <2>4. q4 \in TaskRecord
    BY <2>3, UpdateTyped
  <2> QED
    BY <2>4 DEF q1, q2, q3
<1>2. uid[c] \in User
  BY MemberTyped DEF SendJoin, Send
<1>3. WellFormed(q)
  BY <1>2 DEF WellFormed, IdleTask
<1>4. Set(t, q)
  BY DEF SendJoin
<1> HIDE DEF q
<1> QED
  BY <1>1, <1>3, <1>4, SetTypeOK DEF SendJoin

LEMMA DeniedTypeOK ==
  ASSUME TypeOK, NEW t \in Task, Denied(t)
  PROVE  TypeOK'
BY FinishTypeOK DEF Denied

LEMMA AwaitMediaTyped ==
  ASSUME TypeOK, NEW t \in Task, task[t].pc = "access", AwaitMedia(t), uid' = uid
  PROVE  TasksOK'
<1> DEFINE r == task[t]
           q == [r EXCEPT !.pc = "media", !.mode = mode]
<1>1. r \in TaskRecord /\ WellFormed(r)
  BY InFlight
<1>2. q \in TaskRecord
  <2> DEFINE q1 == [r EXCEPT !.pc = "media"]
             q2 == [q1 EXCEPT !.mode = mode]
  <2>1. q1 \in TaskRecord
    BY <1>1, UpdateTyped DEF PCs
  <2> HIDE DEF q1
  <2>2. q2 \in TaskRecord
    BY <2>1, UpdateTyped DEF TypeOK
  <2> QED
    BY <2>2 DEF q1
<1>3. WellFormed(q)
  BY <1>1 DEF WellFormed, TaskRecord
<1>4. Set(t, q)
  BY DEF AwaitMedia
<1> HIDE DEF q
<1> QED
  BY <1>2, <1>3, <1>4, SetTyped, TypeOKSplit

LEMMA JoinCheckedTypeOK ==
  ASSUME TypeOK, NEW t \in Task, JoinChecked(t)
  PROVE  TypeOK'
<1> DEFINE r  == task[t]
           u  == uid[r.conn]
           in == {ch \in Channel : voice[ch][u] # None}
<1>1. /\ r \in TaskRecord /\ r.conn \in Conn /\ u \in User /\ r.cmd = "join"
      /\ r.pc = "access"
  BY InFlight DEF JoinChecked
<1>2. uid' = uid
  BY DEF JoinChecked
<1>3. /\ TasksOK' /\ voice' \in [Channel -> Room]
      /\ vch' \in [Conn -> Channel \cup {None}]
      /\ seen' \in [Watchers -> [Channel -> Snapshots]]
  <2>1. CASE AwaitMedia(t) /\ UNCHANGED <<vch, voice, seen>>
    BY <1>1, <1>2, <2>1, AwaitMediaTyped DEF TypeOK
  <2>2. CASE Finish(t) /\ UNCHANGED <<vch, voice, seen>>
    BY <1>2, <2>2, FinishTyped, TypeOKSplit DEF StateOK
  <2>3. ASSUME NEW ch \in in,
               LeaveRoom(t, r, IF conn[voice[ch][u].conn] = "open"
                               THEN voice[ch][u].conn ELSE r.conn, u, ch)
        PROVE  /\ TasksOK' /\ voice' \in [Channel -> Room]
               /\ vch' \in [Conn -> Channel \cup {None}]
               /\ seen' \in [Watchers -> [Channel -> Snapshots]]
    <3>1. voice[ch][u].conn \in Conn /\ ch \in Channel
      BY <1>1 DEF TypeOK, Room, Participant
    <3> DEFINE l == IF conn[voice[ch][u].conn] = "open"
                    THEN voice[ch][u].conn ELSE r.conn
    <3>2. l \in Conn
      BY <1>1, <3>1
    <3>3. LeaveRoom(t, r, l, u, ch)
      BY <2>3
    <3> HIDE DEF l, r
    <3> QED
      BY <1>1, <1>2, <3>1, <3>2, <3>3, LeaveRoomTyped, TypeOKSplit
  <2> QED
    BY <2>1, <2>2, <2>3 DEF JoinChecked
<1> QED
  BY <1>3, TypeOKSplit DEF JoinChecked, StateOK

LEMMA JoinedTypeOK ==
  ASSUME TypeOK, NEW t \in Task, Joined(t)
  PROVE  TypeOK'
<1> DEFINE r == task[t]
           u == uid[r.conn]
<1>1. /\ r \in TaskRecord /\ r.conn \in Conn /\ u \in User /\ r.cmd = "join"
      /\ r.goal \in Channel /\ r.mode \in {"p2p", "sfu"}
  BY InFlight DEF Joined, WellFormed, TaskRecord
<1>2. PICK s \in Fresh :
       LET room == Seat(voice[r.goal], u, r.conn, s) IN
       /\ media' = [media EXCEPT ![s] = r.mode]
       /\ IF voice[r.goal][u] # None
          THEN Finish(t) /\ UNCHANGED <<vch, voice, seen>>
          ELSE /\ voice' = [voice EXCEPT ![r.goal] = room]
               /\ vch' = [vch EXCEPT ![r.conn] = r.goal]
               /\ seen' = Told(RoomConns(room), r.goal, room)
               /\ Set(t, [IdleTask EXCEPT !.pc = "roster", !.cmd = "join",
                            !.conn = r.conn, !.ch = r.goal])
  BY DEF Joined
<1> DEFINE room == Seat(voice[r.goal], u, r.conn, s)
           q == [IdleTask EXCEPT !.pc = "roster", !.cmd = "join",
                                 !.conn = r.conn, !.ch = r.goal]
<1>3. media' \in [Sess -> {"fresh", "p2p", "sfu", "closed"}]
  BY <1>1, <1>2 DEF TypeOK
<1>4. uid' = uid
  BY DEF Joined
<1>5. /\ TasksOK' /\ voice' \in [Channel -> Room]
      /\ vch' \in [Conn -> Channel \cup {None}]
      /\ seen' \in [Watchers -> [Channel -> Snapshots]]
  <2>1. CASE voice[r.goal][u] # None
    BY <1>2, <2>1, <1>4, FinishTyped, TypeOKSplit DEF StateOK
  <2>2. CASE voice[r.goal][u] = None
    <3>1. /\ voice' = [voice EXCEPT ![r.goal] = room]
          /\ vch' = [vch EXCEPT ![r.conn] = r.goal]
          /\ seen' = Told(RoomConns(room), r.goal, room)
          /\ Set(t, q)
      BY <1>2, <2>2
    <3>2. room \in Room
      BY <1>1, SeatType DEF TypeOK, Fresh
    <3>3. q \in TaskRecord
      <4> DEFINE q1 == [IdleTask EXCEPT !.pc = "roster"]
                 q2 == [q1 EXCEPT !.cmd = "join"]
                 q3 == [q2 EXCEPT !.conn = r.conn]
                 q4 == [q3 EXCEPT !.ch = r.goal]
      <4>1. q1 \in TaskRecord
        BY IdleTyped, UpdateTyped DEF PCs
      <4> HIDE DEF q1
      <4>2. q2 \in TaskRecord
        BY <4>1, UpdateTyped DEF AllCommands
      <4> HIDE DEF q2
      <4>3. q3 \in TaskRecord
        BY <4>2, <1>1, UpdateTyped
      <4> HIDE DEF q3
      <4>4. q4 \in TaskRecord
        BY <4>3, <1>1, UpdateTyped
      <4> QED
        BY <4>4 DEF q1, q2, q3
    <3>4. WellFormed(q)
      BY <1>1 DEF WellFormed, IdleTask
    <3> HIDE DEF q, room
    <3>5. TasksOK'
      BY <1>4, <3>1, <3>3, <3>4, SetTyped, TypeOKSplit
    <3>6. seen' \in [Watchers -> [Channel -> Snapshots]]
      BY <1>1, <3>1, <3>2, ToldType DEF TypeOK
    <3> HIDE DEF r
    <3> QED
      BY <1>1, <3>1, <3>2, <3>5, <3>6 DEF TypeOK
  <2> QED
    BY <2>1, <2>2
<1> QED
  BY <1>3, <1>5, TypeOKSplit DEF Joined, StateOK

LEMMA MediaFailedTypeOK ==
  ASSUME TypeOK, NEW t \in Task, MediaFailed(t)
  PROVE  TypeOK'
BY InFlight, FinishTyped, TypeOKSplit DEF TaskRecord, MediaFailed, TypeOK, connVars, StateOK

LEMMA SpeakTypeOK ==
  ASSUME TypeOK, NEW c \in Conn, NEW t \in Task, NEW ch \in Channel,
         NEW m \in BOOLEAN, Speak(c, t, ch, m)
  PROVE  TypeOK'
<1> DEFINE u    == uid[c]
           room == Mute(voice[ch], u, m)
           q    == [IdleTask EXCEPT !.pc = "roster", !.cmd = "speak",
                                    !.conn = c, !.ch = ch]
<1>1. u \in User
  BY MemberTyped DEF Speak, Send
<1>2. room \in Room
  BY <1>1, MuteType DEF TypeOK
<1>3. q \in TaskRecord
  <2> DEFINE q1 == [IdleTask EXCEPT !.pc = "roster"]
             q2 == [q1 EXCEPT !.cmd = "speak"]
             q3 == [q2 EXCEPT !.conn = c]
             q4 == [q3 EXCEPT !.ch = ch]
  <2>1. q1 \in TaskRecord
    BY IdleTyped, UpdateTyped DEF PCs
  <2> HIDE DEF q1
  <2>2. q2 \in TaskRecord
    BY <2>1, UpdateTyped DEF AllCommands
  <2> HIDE DEF q2
  <2>3. q3 \in TaskRecord
    BY <2>2, UpdateTyped
  <2> HIDE DEF q3
  <2>4. q4 \in TaskRecord
    BY <2>3, UpdateTyped
  <2> QED
    BY <2>4 DEF q1, q2, q3
<1>4. WellFormed(q)
  BY <1>1 DEF WellFormed, IdleTask
<1>5. Set(t, q)
  BY DEF Speak
<1> HIDE DEF q
<1>6. TasksOK'
  BY <1>3, <1>4, <1>5, SetTyped, TypeOKSplit DEF Speak, connVars
<1>7. seen' \in [Watchers -> [Channel -> Snapshots]]
  <2>1. Snapshot(room)[u] \in [sess : Sess, muted : BOOLEAN] \cup {None}
    BY <1>1, <1>2, SnapshotType DEF Snapshots
  <2>2. seen' = [w \in Watchers |->
                  IF w \in RoomConns(room) /\ conn[w] = "open"
                  THEN [seen[w] EXCEPT ![ch][u] = Snapshot(room)[u]] ELSE seen[w]]
    BY DEF Speak
  <2> HIDE DEF room, u
  <2> QED
    BY <1>1, <2>1, <2>2 DEF TypeOK, Snapshots
<1>8. voice' \in [Channel -> Room]
  BY <1>2 DEF Speak, TypeOK
<1> QED
  BY <1>6, <1>7, <1>8, TypeOKSplit DEF Speak, StateOK, connVars


\* stream.start and music.start, stream.stop and music.stop.
LEMMA SendStartTypeOK ==
  ASSUME TypeOK, NEW c \in Conn, NEW t \in Task, NEW ch \in Channel,
         NEW k \in Kinds, SendStart(c, t, k, ch)
  PROVE  TypeOK'
<1> DEFINE q == [IdleTask EXCEPT !.pc = "access", !.cmd = "start", !.conn = c,
                                 !.ch = ch, !.kind = k]
<1>1. q \in TaskRecord
  <2> DEFINE q1 == [IdleTask EXCEPT !.pc = "access"]
             q2 == [q1 EXCEPT !.cmd = "start"]
             q3 == [q2 EXCEPT !.conn = c]
             q4 == [q3 EXCEPT !.ch = ch]
             q5 == [q4 EXCEPT !.kind = k]
  <2>1. q1 \in TaskRecord
    BY IdleTyped, UpdateTyped DEF PCs
  <2> HIDE DEF q1
  <2>2. q2 \in TaskRecord
    BY <2>1, UpdateTyped DEF AllCommands
  <2> HIDE DEF q2
  <2>3. q3 \in TaskRecord
    BY <2>2, UpdateTyped
  <2> HIDE DEF q3
  <2>4. q4 \in TaskRecord
    BY <2>3, UpdateTyped
  <2> HIDE DEF q4
  <2>5. q5 \in TaskRecord
    BY <2>4, CommandsAssumption, UpdateTyped
  <2> QED
    BY <2>5 DEF q1, q2, q3, q4
<1>2. uid[c] \in User
  BY MemberTyped DEF SendStart, Send
<1>3. WellFormed(q)
  BY <1>2, CommandsAssumption DEF WellFormed, IdleTask
<1>4. Set(t, q)
  BY DEF SendStart
<1> HIDE DEF q
<1> QED
  BY <1>1, <1>3, <1>4, SetTypeOK DEF SendStart

LEMMA StartCheckedTypeOK ==
  ASSUME TypeOK, NEW t \in Task, StartChecked(t)
  PROVE  TypeOK'
BY AwaitMediaTyped, TypeOKSplit, FinishTypeOK DEF StartChecked, StateOK, connVars

LEMMA StartedTypeOK ==
  ASSUME TypeOK, NEW t \in Task, Started(t)
  PROVE  TypeOK'
<1> DEFINE r == task[t]
           u == uid[r.conn]
<1>1. /\ r \in TaskRecord /\ WellFormed(r) /\ r.conn \in Conn /\ u \in User
      /\ r.cmd = "start" /\ r.ch \in Channel /\ r.kind \in PubKinds
      /\ r.mode \in {"p2p", "sfu"}
  BY InFlight DEF Started, WellFormed, TaskRecord
<1>2. PICK s \in Fresh :
        /\ media' = [media EXCEPT ![s] = r.mode]
        /\ IF Hosted(pubs, r.kind, r.ch, u) # {}
           THEN Finish(t) /\ UNCHANGED pubs
           ELSE /\ pubs' = Publish(pubs, s, r.kind, r.ch, u, r.conn)
                /\ IF r.kind = "music" THEN Finish(t)
                   ELSE Set(t, [r EXCEPT !.pc = "create", !.pub = s])
  BY DEF Started
<1> DEFINE q == [r EXCEPT !.pc = "create", !.pub = s]
<1>3. media' \in [Sess -> {"fresh", "p2p", "sfu", "closed"}]
  BY <1>1, <1>2 DEF TypeOK
<1>4. pubs' \in Publications
  BY <1>1, PublishType, <1>2 DEF TypeOK, Fresh
<1>5. q \in TaskRecord
  <2> DEFINE q1 == [r EXCEPT !.pc = "create"]
             q2 == [q1 EXCEPT !.pub = s]
  <2>1. q1 \in TaskRecord
    BY <1>1, UpdateTyped DEF PCs
  <2> HIDE DEF q1
  <2>2. q2 \in TaskRecord
    BY <2>1, UpdateTyped DEF Fresh
  <2> QED
    BY <2>2 DEF q1
<1>6. WellFormed(q)
  BY <1>1 DEF WellFormed, TaskRecord, Fresh
<1>7. Finish(t) \/ Set(t, q)
  BY <1>2
<1> HIDE DEF q
<1>8. TasksOK'
  BY <1>5, <1>6, <1>7, SetTyped, FinishTyped, TypeOKSplit DEF Started, connVars
<1> QED
  BY <1>3, <1>4, <1>8, TypeOKSplit DEF Started, StateOK, connVars

LEMMA RowCreatedTypeOK ==
  ASSUME TypeOK, NEW t \in Task, RowCreated(t)
  PROVE  TypeOK'
<1> DEFINE r == task[t]
           q == [r EXCEPT !.pc = "live"]
<1>1. r \in TaskRecord /\ WellFormed(r) /\ r.pc = "create"
  BY InFlight DEF RowCreated
<1>2. q \in TaskRecord
  BY <1>1, UpdateTyped DEF PCs
<1>3. WellFormed(q)
  BY <1>1 DEF WellFormed, TaskRecord
<1>4. Set(t, q)
  BY DEF RowCreated
<1>5. row' \in [Sess -> {"absent", "active", "ended"}]
  BY DEF RowCreated, TypeOK
<1> HIDE DEF q
<1>6. TasksOK'
  BY <1>2, <1>3, <1>4, SetTyped, TypeOKSplit DEF RowCreated, connVars
<1> QED
  BY <1>5, <1>6, TypeOKSplit DEF RowCreated, StateOK, connVars

LEMMA RowLiveTypeOK ==
  ASSUME TypeOK, NEW t \in Task, RowLive(t)
  PROVE  TypeOK'
BY FinishTypeOK DEF RowLive

LEMMA PersistFailedTypeOK ==
  ASSUME TypeOK, NEW t \in Task, PersistFailed(t)
  PROVE  TypeOK'
BY FinishTyped, TypeOKSplit, UnpublishType DEF PersistFailed, connVars, StateOK

LEMMA SendStopTypeOK ==
  ASSUME TypeOK, NEW c \in Conn, NEW t \in Task, NEW p \in Sess, SendStop(c, t, p)
  PROVE  TypeOK'
<1> DEFINE r == [IdleTask EXCEPT !.cmd = "stop", !.conn = c]
<1>1. r \in TaskRecord
  <2> DEFINE q1 == [IdleTask EXCEPT !.cmd = "stop"]
             q2 == [q1 EXCEPT !.conn = c]
  <2>1. q1 \in TaskRecord
    BY IdleTyped, UpdateTyped DEF AllCommands
  <2> HIDE DEF q1
  <2>2. q2 \in TaskRecord
    BY <2>1, UpdateTyped
  <2> QED
    BY <2>2 DEF q1
<1>2. r.conn = c /\ r.cmd = "stop" /\ uid[c] \in User
  BY MemberTyped DEF IdleTask, SendStop, Send
<1>3. Unpublish(pubs, p) \in Publications /\ {HostChange(pubs, p)} \in SUBSET Change
  BY <1>2, UnpublishType, ChangeTypes DEF SendStop, TypeOK
<1>4. AfterMusic(t, r, Unpublish(pubs, p), {HostChange(pubs, p)}) /\ uid' = uid
  BY DEF SendStop, connVars
<1> HIDE DEF r
<1>5. TasksOK' /\ pubs' \in Publications
  BY <1>1, <1>2, <1>3, <1>4, AfterMusicTyped, TypeOKSplit DEF TypeOK
<1> QED
  BY <1>5, TypeOKSplit DEF SendStop, StateOK, connVars

\* stream.watch and music.listen, stream.unwatch and music.unlisten.
LEMMA SendWatchTypeOK ==
  ASSUME TypeOK, NEW c \in Conn, NEW t \in Task, NEW p \in Sess, SendWatch(c, t, p)
  PROVE  TypeOK'
<1> DEFINE q == [IdleTask EXCEPT !.pc = "access", !.cmd = "watch", !.conn = c,
                   !.ch = pubs[p].ch, !.kind = pubs[p].kind, !.pub = p]
<1>1. pubs[p].ch \in Channel /\ pubs[p].kind \in PubKinds
  BY DEF SendWatch, TypeOK, Publications, Publication
<1>2. q \in TaskRecord
  <2> DEFINE q1 == [IdleTask EXCEPT !.pc = "access"]
             q2 == [q1 EXCEPT !.cmd = "watch"]
             q3 == [q2 EXCEPT !.conn = c]
             q4 == [q3 EXCEPT !.ch = pubs[p].ch]
             q5 == [q4 EXCEPT !.kind = pubs[p].kind]
             q6 == [q5 EXCEPT !.pub = p]
  <2>1. q1 \in TaskRecord
    BY IdleTyped, UpdateTyped DEF PCs
  <2> HIDE DEF q1
  <2>2. q2 \in TaskRecord
    BY <2>1, UpdateTyped DEF AllCommands
  <2> HIDE DEF q2
  <2>3. q3 \in TaskRecord
    BY <2>2, UpdateTyped
  <2> HIDE DEF q3
  <2>4. q4 \in TaskRecord
    BY <2>3, <1>1, UpdateTyped
  <2> HIDE DEF q4
  <2>5. q5 \in TaskRecord
    BY <2>4, <1>1, UpdateTyped
  <2> HIDE DEF q5
  <2>6. q6 \in TaskRecord
    BY <2>5, UpdateTyped
  <2> QED
    BY <2>6 DEF q1, q2, q3, q4, q5
<1>3. uid[c] \in User
  BY MemberTyped DEF SendWatch, Send
<1>4. WellFormed(q)
  BY <1>1, <1>3 DEF WellFormed, IdleTask
<1>5. Set(t, q)
  BY DEF SendWatch
<1> HIDE DEF q
<1> QED
  BY <1>2, <1>4, <1>5, SetTypeOK DEF SendWatch

LEMMA WatchCheckedTypeOK ==
  ASSUME TypeOK, NEW t \in Task, WatchChecked(t)
  PROVE  TypeOK'
BY AwaitMediaTyped, TypeOKSplit, FinishTypeOK DEF WatchChecked, StateOK, connVars

LEMMA WatchedTypeOK ==
  ASSUME TypeOK, NEW t \in Task, Watched(t)
  PROVE  TypeOK'
<1> DEFINE r == task[t]
           u == uid[r.conn]
<1>1. /\ r \in TaskRecord /\ r.conn \in Conn /\ u \in User /\ r.pub \in Sess
      /\ r.mode \in {"p2p", "sfu"}
  BY InFlight DEF Watched, WellFormed, TaskRecord
<1>2. PICK s \in Fresh :
       /\ media' = [media EXCEPT ![s] = r.mode]
       /\ pubs' = IF pubs[r.pub] # None /\ pubs[r.pub].viewers[u] = None
                  THEN AddViewer(pubs, r.pub, u, r.conn, s) ELSE pubs
  BY DEF Watched
<1>3. media' \in [Sess -> {"fresh", "p2p", "sfu", "closed"}]
  BY <1>1, <1>2 DEF TypeOK
<1>4. pubs' \in Publications
  BY <1>1, <1>2, AddViewerType DEF TypeOK, Fresh
<1>5. TasksOK'
  BY FinishTyped, TypeOKSplit DEF Watched, connVars
<1> QED
  BY <1>3, <1>4, <1>5, TypeOKSplit DEF Watched, StateOK, connVars

LEMMA SendUnwatchTypeOK ==
  ASSUME TypeOK, NEW c \in Conn, NEW t \in Task, NEW p \in Sess, SendUnwatch(c, t, p)
  PROVE  TypeOK'
<1> DEFINE r == [IdleTask EXCEPT !.cmd = "unwatch", !.conn = c]
<1>1. r \in TaskRecord
  <2> DEFINE q1 == [IdleTask EXCEPT !.cmd = "unwatch"]
             q2 == [q1 EXCEPT !.conn = c]
  <2>1. q1 \in TaskRecord
    BY IdleTyped, UpdateTyped DEF AllCommands
  <2> HIDE DEF q1
  <2>2. q2 \in TaskRecord
    BY <2>1, UpdateTyped
  <2> QED
    BY <2>2 DEF q1
<1>2. r.conn = c /\ r.cmd = "unwatch" /\ uid[c] \in User
  BY MemberTyped DEF IdleTask, SendUnwatch, Send
<1>3. RemoveViewer(pubs, p, uid[c]) \in Publications /\ {ViewerChange(pubs, p, uid[c])} \in SUBSET Change
  BY <1>2, RemoveViewerType, ChangeTypes DEF SendUnwatch, TypeOK
<1>4. AfterMusic(t, r, RemoveViewer(pubs, p, uid[c]), {ViewerChange(pubs, p, uid[c])}) /\ uid' = uid
  BY DEF SendUnwatch, connVars
<1> HIDE DEF r
<1>5. TasksOK' /\ pubs' \in Publications
  BY <1>1, <1>2, <1>3, <1>4, AfterMusicTyped, TypeOKSplit DEF TypeOK
<1> QED
  BY <1>5, TypeOKSplit DEF SendUnwatch, StateOK, connVars

\* media.session.reconnect.
LEMMA SendReconnectTypeOK ==
  ASSUME TypeOK, NEW c \in Conn, NEW t \in Task, NEW s \in Sess,
         SendReconnect(c, t, s)
  PROVE  TypeOK'
<1> DEFINE pc == IF mode = "sfu" THEN "rclose" ELSE "rcreate"
           q  == [IdleTask EXCEPT !.pc = pc, !.cmd = "reconnect", !.conn = c,
                                  !.cur = s, !.mode = mode]
<1>1. q \in TaskRecord
  <2> DEFINE q1 == [IdleTask EXCEPT !.pc = pc]
             q2 == [q1 EXCEPT !.cmd = "reconnect"]
             q3 == [q2 EXCEPT !.conn = c]
             q4 == [q3 EXCEPT !.cur = s]
             q5 == [q4 EXCEPT !.mode = mode]
  <2>1. q1 \in TaskRecord
    BY IdleTyped, UpdateTyped DEF PCs
  <2> HIDE DEF q1
  <2>2. q2 \in TaskRecord
    BY <2>1, UpdateTyped DEF AllCommands
  <2> HIDE DEF q2
  <2>3. q3 \in TaskRecord
    BY <2>2, UpdateTyped
  <2> HIDE DEF q3
  <2>4. q4 \in TaskRecord
    BY <2>3, UpdateTyped
  <2> HIDE DEF q4
  <2>5. q5 \in TaskRecord
    BY <2>4, UpdateTyped DEF TypeOK
  <2> QED
    BY <2>5 DEF q1, q2, q3, q4
<1>2. uid[c] \in User
  BY MemberTyped DEF SendReconnect, Send
<1>3. WellFormed(q)
  BY <1>2 DEF WellFormed, IdleTask
<1>4. Set(t, q)
  BY DEF SendReconnect
<1> HIDE DEF q
<1> QED
  BY <1>1, <1>3, <1>4, SetTypeOK DEF SendReconnect

LEMMA SessionClosedTypeOK ==
  ASSUME TypeOK, NEW t \in Task, SessionClosed(t)
  PROVE  TypeOK'
<1> DEFINE r == task[t]
           q == [r EXCEPT !.pc = "rcreate", !.mode = mode]
<1>1. r \in TaskRecord /\ WellFormed(r) /\ r.pc = "rclose"
  BY InFlight DEF SessionClosed
<1>2. q \in TaskRecord
  <2> DEFINE q1 == [r EXCEPT !.pc = "rcreate"]
             q2 == [q1 EXCEPT !.mode = mode]
  <2>1. q1 \in TaskRecord
    BY <1>1, UpdateTyped DEF PCs
  <2> HIDE DEF q1
  <2>2. q2 \in TaskRecord
    BY <2>1, UpdateTyped DEF TypeOK
  <2> QED
    BY <2>2 DEF q1
<1>3. WellFormed(q)
  BY <1>1 DEF WellFormed, TaskRecord
<1>4. Set(t, q)
  BY DEF SessionClosed
<1>5. media' \in [Sess -> {"fresh", "p2p", "sfu", "closed"}]
  BY CloseMediaType DEF SessionClosed, TypeOK
<1> HIDE DEF q
<1>6. TasksOK'
  BY <1>2, <1>3, <1>4, SetTyped, TypeOKSplit DEF SessionClosed, connVars
<1> QED
  BY <1>5, <1>6, TypeOKSplit DEF SessionClosed, StateOK, connVars

LEMMA SessionRebuiltTypeOK ==
  ASSUME TypeOK, NEW t \in Task, SessionRebuilt(t)
  PROVE  TypeOK'
<1>1. task[t].mode \in {"p2p", "sfu"}
  BY InFlight DEF TaskRecord
<1>2. media' \in [Sess -> {"fresh", "p2p", "sfu", "closed"}]
  BY <1>1 DEF SessionRebuilt, TypeOK
<1>3. TasksOK'
  BY FinishTyped, TypeOKSplit DEF SessionRebuilt, connVars
<1> QED
  BY <1>2, <1>3, TypeOKSplit DEF SessionRebuilt, StateOK, connVars

\* The media mode, the operations started with `void`, and a crash.
LEMMA ModeChangedTypeOK ==
  ASSUME TypeOK, NEW t \in Task, NEW m \in Modes, ModeChanged(t, m)
  PROVE  TypeOK'
<1> DEFINE todo == {HostChange(pubs, p) :
                      p \in {q \in Live(pubs) : pubs[q].kind = "stream"}}
           rooms == {ch \in Channel : Occupants(voice[ch]) # {}}
           r == [IdleTask EXCEPT !.cmd = "mode", !.todo = todo, !.rooms = rooms]
<1>1. todo \in SUBSET Change
  BY ChangeTypes DEF TypeOK, Live
<1>2. r \in TaskRecord
  <2> DEFINE q1 == [IdleTask EXCEPT !.cmd = "mode"]
             q2 == [q1 EXCEPT !.todo = todo]
             q3 == [q2 EXCEPT !.rooms = rooms]
  <2>1. q1 \in TaskRecord
    BY IdleTyped, UpdateTyped DEF AllCommands
  <2> HIDE DEF q1
  <2>2. q2 \in TaskRecord
    BY <2>1, <1>1, UpdateTyped
  <2> HIDE DEF q2
  <2>3. q3 \in TaskRecord
    BY <2>2, UpdateTyped
  <2> QED
    BY <2>3 DEF q1, q2
<1>3. r.cmd = "mode" /\ r.pc = "idle"
  BY DEF IdleTask
<1>4. ClearRooms(t, r) /\ uid' = uid
  BY DEF ModeChanged, connVars
<1> HIDE DEF r
<1>5. voice' \in [Channel -> Room] /\ bg' \subseteq BgOps /\ TasksOK'
  BY <1>2, <1>3, <1>4, ClearRoomsTyped, TypeOKSplit DEF StateOK
<1>6. pubs' \in Publications /\ mode' \in {"p2p", "sfu"}
  BY CommandsAssumption DEF ModeChanged, Publications
<1> QED
  BY <1>5, <1>6, TypeOKSplit DEF ModeChanged, StateOK, connVars

LEMMA BackgroundTypeOK ==
  ASSUME TypeOK, Background
  PROVE  TypeOK'
<1>1. ASSUME NEW ch \in Channel, RosterSentLater(ch) PROVE TypeOK'
  BY <1>1, ToldType, TypeOKSplit DEF RosterSentLater, TypeOK, TasksOK, WellFormed, connVars, StateOK
<1>2. ASSUME NEW s \in Sess, MediaClosedLater(s) PROVE TypeOK'
  BY <1>2, CloseMediaType, TypeOKSplit DEF MediaClosedLater, TypeOK, TasksOK, WellFormed, connVars,
     StateOK
<1>3. ASSUME NEW s \in Sess, RowEndedLater(s) PROVE TypeOK'
  BY <1>3, EndRowType, TypeOKSplit DEF RowEndedLater, TypeOK, TasksOK, WellFormed, connVars, StateOK
<1> QED
  BY <1>1, <1>2, <1>3 DEF Background

LEMMA CrashTypeOK ==
  ASSUME TypeOK, Crash
  PROVE  TypeOK'
BY IdleTyped, EmptyRoomType, TypeOKSplit DEF Crash, TasksOK, WellFormed, IdleTask, TypeOK, StateOK,
   Publications

-----------------------------------------------------------------------------
(* The theorem of type correctness.                                        *)

LEMMA TypeOKStep ==
  ASSUME TypeOK, [Next]_vars
  PROVE  TypeOK'
<1>1. ASSUME NEW c \in Conn, Attach(c) \/ Close(c) PROVE TypeOK'
  BY <1>1, AttachTypeOK, CloseTypeOK
<1>2. ASSUME NEW c \in Conn, NEW t \in Task, Command(c, t) PROVE TypeOK'
  BY <1>2, SendAuthenticateTypeOK, SendJoinTypeOK, SendLeaveTypeOK,
     SpeakTypeOK, SendStartTypeOK, SendStopTypeOK, SendWatchTypeOK,
     SendUnwatchTypeOK, SendReconnectTypeOK DEF Command
<1>3. ASSUME NEW t \in Task, Resume(t) PROVE TypeOK'
  BY <1>3, AuthenticatedTypeOK, SnapshotSentTypeOK, DeniedTypeOK,
     MediaFailedTypeOK, JoinCheckedTypeOK, JoinedTypeOK, VoiceClosedTypeOK,
     RosterSentTypeOK, StreamsLeftTypeOK, RowEndedTypeOK, MediaEndedTypeOK,
     StartCheckedTypeOK, StartedTypeOK, RowCreatedTypeOK, RowLiveTypeOK,
     PersistFailedTypeOK, WatchCheckedTypeOK, WatchedTypeOK,
     SessionClosedTypeOK, SessionRebuiltTypeOK DEF Resume
<1>4. ASSUME NEW t \in Task, NEW m \in Modes, ModeChanged(t, m) PROVE TypeOK'
  BY <1>4, ModeChangedTypeOK
<1>5. CASE UNCHANGED vars
  BY <1>5 DEF vars, connVars, TypeOK, WellFormed
<1> QED
  BY <1>1, <1>2, <1>3, <1>4, <1>5, BackgroundTypeOK, CrashTypeOK DEF Next

\* In every behaviour of the Gateway every variable, every task in flight and
\* every operation left in the background is of its type, and a task that
\* resumes finds the channel, session and user its handler needs.
THEOREM TypeInvariant == Spec => []TypeOK
<1>1. Init => TypeOK
  <2> SUFFICES ASSUME Init PROVE TypeOK
    OBVIOUS
  <2>1. TasksOK
    BY IdleTyped DEF Init, TasksOK
  <2>2. StateOK
    BY EmptyRoomType, SnapshotType, CommandsAssumption DEF Init, StateOK, Publications
  <2> QED
    BY <2>1, <2>2, TypeOKSplit
<1>2. TypeOK /\ [Next]_vars => TypeOK'
  BY TypeOKStep
<1> QED
  BY <1>1, <1>2, PTL DEF Spec

-----------------------------------------------------------------------------
(* A user hosts one publication of a kind in a channel, and the rosters    *)
(* members were sent are repaired.                                         *)

(* Publications that only lose entries or change viewers.                  *)
Kept(ps, qs) ==
  \A p \in Live(qs) : /\ p \in Live(ps)
                      /\ qs[p].kind = ps[p].kind
                      /\ qs[p].ch = ps[p].ch
                      /\ qs[p].host = ps[p].host

LEMMA KeptTransitive ==
  ASSUME NEW ps, NEW qs, NEW rs, Kept(ps, qs), Kept(qs, rs)
  PROVE  Kept(ps, rs)
BY DEF Kept

LEMMA LeaveForUserKept ==
  ASSUME NEW ps \in Publications, NEW k, NEW chs, NEW u, NEW cs
  PROVE  Kept(ps, LeaveForUser(ps, k, chs, u, cs))
<1> DEFINE qs == LeaveForUser(ps, k, chs, u, cs)
<1> SUFFICES ASSUME NEW p \in Live(qs)
             PROVE  /\ p \in Live(ps) /\ qs[p].kind = ps[p].kind
                    /\ qs[p].ch = ps[p].ch /\ qs[p].host = ps[p].host
  BY DEF Kept
<1>1. p \in Sess /\ qs[p] # None
  BY DEF Live
<1>2. p \notin Stopped(ps, k, chs, u, cs)
  BY <1>1 DEF LeaveForUser, Unviewed
<1>3. CASE p \in Unviewed(ps, k, chs, u, cs)
  BY <1>3, <1>1 DEF Unviewed, Live, Publications, LeaveForUser, Publication
<1>4. CASE p \notin Unviewed(ps, k, chs, u, cs)
  BY <1>1, <1>2, <1>4 DEF LeaveForUser, Live
<1> QED
  BY <1>3, <1>4

LEMMA UnpublishKept ==
  ASSUME NEW ps \in Publications, NEW p
  PROVE  Kept(ps, Unpublish(ps, p))
BY DEF Kept, Unpublish, Live, Publications

LEMMA ViewersKept ==
  ASSUME NEW ps \in Publications, NEW p \in Sess, ps[p] # None, NEW u, NEW c, NEW s
  PROVE  Kept(ps, AddViewer(ps, p, u, c, s)) /\ Kept(ps, RemoveViewer(ps, p, u))
BY DEF Publications, Kept, AddViewer, RemoveViewer, Live, Publication

LEMMA AfterMusicKept ==
  ASSUME NEW t, NEW r, NEW ps, NEW todo, AfterMusic(t, r, ps, todo)
  PROVE  pubs' = ps
BY DEF AfterMusic, AwaitChange

LEMMA AfterStreamsKept ==
  ASSUME NEW t, NEW r, NEW ps \in Publications, NEW todo,
         AfterStreams(t, r, ps, todo)
  PROVE  Kept(ps, pubs')
<1>1. pubs' = ps \/ pubs' = LeaveForUser(ps, "music", {r.ch}, uid[r.conn], Conn)
  BY AfterMusicKept DEF AfterStreams, AwaitChange
<1> QED
  BY <1>1, LeaveForUserKept DEF Kept

\* Every action but the end of a start keeps the publications in that sense.
LEMMA StepKept ==
  ASSUME TypeOK, [Next]_vars
  PROVE  Kept(pubs, pubs') \/ \E t \in Task : Started(t)
<1>1. pubs \in Publications
  BY DEF TypeOK
<1>2. Kept(pubs, pubs)
  BY DEF Kept
<1>3. ASSUME NEW c \in Conn, Close(c) PROVE Kept(pubs, pubs')
  <2>1. CASE uid[c] = None
    BY <1>2, <1>3, <2>1 DEF Close
  <2>2. CASE uid[c] # None
    <3> DEFINE qs == LeaveForUser(pubs, "stream", Channel, uid[c], {c})
    <3>1. pubs' = LeaveForUser(qs, "music", Channel, uid[c], {c})
      BY <1>3, <2>2 DEF Close
    <3>2. qs \in Publications
      BY <1>1, <2>2, LeaveForUserType DEF TypeOK
    <3>3. Kept(pubs, qs)
      BY <1>1, LeaveForUserKept
    <3> HIDE DEF qs
    <3>4. Kept(qs, pubs')
      BY <3>1, <3>2, LeaveForUserKept
    <3> QED
      BY <3>3, <3>4, KeptTransitive
  <2> QED
    BY <2>1, <2>2
<1>4. ASSUME NEW c \in Conn, NEW t \in Task, Command(c, t) PROVE Kept(pubs, pubs')
  <2>1. ASSUME NEW p \in Sess, SendStop(c, t, p) PROVE Kept(pubs, pubs')
    BY <1>1, <2>1, AfterMusicKept, UnpublishKept DEF SendStop
  <2>2. ASSUME NEW p \in Sess, SendUnwatch(c, t, p) PROVE Kept(pubs, pubs')
    BY <1>1, <2>2, AfterMusicKept, ViewersKept DEF SendUnwatch
  <2> QED
    BY <1>2, <1>4, <2>1, <2>2 DEF Command, SendAuthenticate, SendJoin, SendLeave,
       Speak, SendStart, SendWatch, SendReconnect
<1>5. ASSUME NEW t \in Task, Resume(t), ~Started(t) PROVE Kept(pubs, pubs')
  <2>1. CASE StreamsLeft(t)
    <3> DEFINE qs == LeaveForUser(pubs, "stream", {task[t].ch},
                                  uid[task[t].conn], Conn)
    <3>1. qs \in Publications
      BY <1>1, <2>1, InFlight, LeaveForUserType DEF StreamsLeft, WellFormed
    <3>2. Kept(pubs, qs)
      BY <1>1, LeaveForUserKept
    <3>3. AfterStreams(t, task[t], qs,
                       Changes(pubs, "stream", {task[t].ch},
                               uid[task[t].conn], Conn))
      BY <2>1 DEF StreamsLeft
    <3> HIDE DEF qs
    <3> QED
      BY <3>1, <3>2, <3>3, AfterStreamsKept, KeptTransitive
  <2>2. CASE RowEnded(t) \/ MediaEnded(t)
    BY <1>1, <1>2, <2>2, AfterMusicKept, AfterStreamsKept
    DEF RowEnded, MediaEnded, Proceed
  <2>3. CASE PersistFailed(t)
    BY <1>1, <2>3, UnpublishKept DEF PersistFailed
  <2>4. CASE Watched(t)
    BY <1>1, <1>2, <2>4, InFlight, ViewersKept DEF Watched, WellFormed
  <2> QED
    BY <1>2, <1>5, <2>1, <2>2, <2>3, <2>4 DEF Resume, Authenticated,
       SnapshotSent, Denied, MediaFailed, JoinChecked, Joined, VoiceClosed,
       RosterSent, StartChecked, RowCreated, RowLive, WatchChecked,
       SessionClosed, SessionRebuilt
<1>6. CASE Crash \/ \E t \in Task, m \in Modes : ModeChanged(t, m)
  BY <1>6 DEF Crash, ModeChanged, Kept, Live
<1>7. CASE Background \/ (\E c \in Conn : Attach(c)) \/ UNCHANGED vars
  BY <1>2, <1>7 DEF Background, RosterSentLater, MediaClosedLater,
                    RowEndedLater, Attach, vars
<1> QED
  BY <1>3, <1>4, <1>5, <1>6, <1>7 DEF Next

-----------------------------------------------------------------------------
(* One publication of a kind per host and channel.                         *)

LEMMA UniqueHostKept ==
  ASSUME UniqueHost, Kept(pubs, pubs')
  PROVE  UniqueHost'
BY DEF UniqueHost, Kept

\* start() looks the host up again after the media call.
LEMMA UniqueHostStarted ==
  ASSUME TypeOK, UniqueHost, NEW t \in Task, Started(t)
  PROVE  UniqueHost'
<1> DEFINE r == task[t]
           u == uid[r.conn]
<1>1. PICK s \in Fresh :
        \/ UNCHANGED pubs
        \/ /\ Hosted(pubs, r.kind, r.ch, u) = {}
           /\ pubs' = Publish(pubs, s, r.kind, r.ch, u, r.conn)
  BY DEF Started
<1>2. CASE UNCHANGED pubs
  BY <1>2 DEF UniqueHost, Live
<1>3. CASE /\ Hosted(pubs, r.kind, r.ch, u) = {}
           /\ pubs' = Publish(pubs, s, r.kind, r.ch, u, r.conn)
  <2>1. s \in Sess /\ pubs \in Publications
    BY DEF Fresh, TypeOK
  <2>2. /\ pubs'[s].kind = r.kind /\ pubs'[s].ch = r.ch /\ pubs'[s].host = u
        /\ \A p \in Sess \ {s} : pubs'[p] = pubs[p]
    BY <1>3, <2>1 DEF Publish, Publications
  <2>3. \A p \in Live(pubs) : ~ /\ pubs[p].kind = r.kind /\ pubs[p].ch = r.ch
                                /\ pubs[p].host = u
    BY <1>3 DEF Hosted
  <2>4. Live(pubs)' \subseteq Live(pubs) \cup {s}
    BY <2>2 DEF Live
  <2>5. \A p \in Live(pubs)' \ {s} : p \in Live(pubs) /\ pubs'[p] = pubs[p]
    BY <2>2, <2>4 DEF Live
  <2> HIDE DEF r, u
  <2> QED
    BY <2>2, <2>3, <2>5 DEF UniqueHost
<1> QED
  BY <1>1, <1>2, <1>3

\* A user hosts at most one stream and one music share in a channel, whatever
\* starts of hers are in flight: stream.start and music.start check before
\* their media call, and StreamRoomManager.start checks again after it.
THEOREM UniqueHostInvariant == Spec => []UniqueHost
<1>1. Init => UniqueHost
  BY DEF Init, UniqueHost, Live
<1>2. TypeOK /\ UniqueHost /\ [Next]_vars => UniqueHost'
  BY StepKept, UniqueHostKept, UniqueHostStarted
<1> QED
  BY <1>1, <1>2, TypeInvariant, PTL DEF Spec

-----------------------------------------------------------------------------
(* The rosters.  The strengthening: a connection that was never attached    *)
(* has no user, so no connection becomes a member without a snapshot.       *)

RosterInv ==
  /\ RostersRepaired
  /\ \A c \in Conn : conn[c] = "unused" => uid[c] = None

\* The watcher knows channel ch, or a broadcast to it is owed.
Repaired(w, ch) ==
  Member(w) /\ seen[w][ch] # Snapshot(voice[ch]) => RosterOwed(w, ch)

LEMMA RostersRepairedByWatcher ==
  /\ RostersRepaired <=> \A w \in Watchers, ch \in Channel : Repaired(w, ch)
  /\ RostersRepaired' <=> \A w \in Watchers, ch \in Channel : Repaired(w, ch)'
BY DEF RostersRepaired, Repaired

\* What a step that is not about channel ch keeps.
LEMMA RepairedKept ==
  ASSUME NEW w \in Watchers, NEW ch \in Channel, Repaired(w, ch),
         Member(w)' => Member(w), voice'[ch] = voice[ch],
         seen'[w][ch] = seen[w][ch], RosterOwed(w, ch) => RosterOwed(w, ch)'
  PROVE  Repaired(w, ch)'
BY DEF Repaired

\* A task set from a place where it owed no roster leaves the others' debts.
LEMMA OwedKept ==
  ASSUME NEW t \in Task, NEW r, task \in [Task -> TaskRecord],
         task[t].pc \notin {"vclose", "roster", "snapshot"}, Set(t, r),
         bg \subseteq bg', NEW w, NEW ch
  PROVE  RosterOwed(w, ch) => RosterOwed(w, ch)'
BY DEF RosterOwed, Set

\* Steps that change neither rooms nor views and start from such a task.
LEMMA QuietKept ==
  ASSUME TypeOK, RostersRepaired, NEW t \in Task, NEW r,
         task[t].pc \notin {"vclose", "roster", "snapshot"}, Set(t, r),
         UNCHANGED <<conn, uid, voice, seen, bg>>
  PROVE  RostersRepaired'
BY RostersRepairedByWatcher, OwedKept, RepairedKept DEF TypeOK, Member

\* A step that changes one room, or views of it, and owes a roster of it.
LEMMA RoomChangedRepaired ==
  ASSUME TypeOK, RostersRepaired, NEW t \in Task, NEW r, NEW ch \in Channel,
         task[t].pc # "snapshot",
         task[t].pc \in {"vclose", "roster"} => task[t].ch = ch,
         Set(t, r), r.pc \in {"vclose", "roster"}, r.ch = ch,
         \A d \in Channel \ {ch} : voice'[d] = voice[d],
         \A w \in Watchers, d \in Channel \ {ch} : seen'[w][d] = seen[w][d],
         UNCHANGED <<conn, uid, bg>>
  PROVE  RostersRepaired'
<1> SUFFICES ASSUME NEW w \in Watchers, NEW d \in Channel
             PROVE  Repaired(w, d)'
  BY RostersRepairedByWatcher
<1>1. task'[t] = r /\ \A x \in Task \ {t} : task'[x] = task[x]
  BY DEF Set, TypeOK
<1>2. CASE d = ch
  BY <1>1, <1>2 DEF Repaired, RosterOwed
<1>3. CASE d # ch
  <2>1. RosterOwed(w, d) => RosterOwed(w, d)'
    BY <1>1, <1>3 DEF RosterOwed
  <2> QED
    BY <1>3, <2>1, RostersRepairedByWatcher, RepairedKept DEF Member
<1> QED
  BY <1>2, <1>3

LEMMA LeaveRoomRepaired ==
  ASSUME TypeOK, RostersRepaired, NEW t \in Task, NEW r \in TaskRecord,
         NEW leaver, NEW u, NEW ch \in Channel, LeaveRoom(t, r, leaver, u, ch),
         task[t].pc \notin {"vclose", "roster", "snapshot"},
         UNCHANGED <<conn, uid, bg>>
  PROVE  RostersRepaired'
<1>1. PICK q : Set(t, q) /\ q.pc \in {"vclose", "roster"} /\ q.ch = ch
  <2>1. /\ [r EXCEPT !.pc = "vclose", !.ch = ch, !.then = "streams",
                     !.cur = voice[ch][u].sess, !.rem = Unseat(voice[ch], u)].pc = "vclose"
        /\ [r EXCEPT !.pc = "vclose", !.ch = ch, !.then = "streams",
                     !.cur = voice[ch][u].sess, !.rem = Unseat(voice[ch], u)].ch = ch
        /\ [r EXCEPT !.pc = "roster", !.ch = ch, !.then = "streams"].pc = "roster"
        /\ [r EXCEPT !.pc = "roster", !.ch = ch, !.then = "streams"].ch = ch
    BY DEF TaskRecord
  <2> QED
    BY <2>1 DEF LeaveRoom
<1>2. \A d \in Channel \ {ch} : voice'[d] = voice[d]
  BY DEF LeaveRoom, TypeOK
<1>3. \A w \in Watchers, d \in Channel \ {ch} : seen'[w][d] = seen[w][d]
  BY DEF LeaveRoom, Told, TypeOK
<1> QED
  BY <1>1, <1>2, <1>3, RoomChangedRepaired

LEMMA JoinedRepaired ==
  ASSUME TypeOK, RostersRepaired, NEW t \in Task, Joined(t)
  PROVE  RostersRepaired'
<1> DEFINE r == task[t]
           ch == r.goal
           q == [IdleTask EXCEPT !.pc = "roster", !.cmd = "join",
                                 !.conn = r.conn, !.ch = ch]
<1>1. ch \in Channel /\ r.pc = "media"
  BY InFlight DEF Joined, WellFormed
<1>2. PICK s \in Fresh :
        LET room == Seat(voice[ch], uid[r.conn], r.conn, s) IN
        IF voice[ch][uid[r.conn]] # None
        THEN Finish(t) /\ UNCHANGED <<vch, voice, seen>>
        ELSE /\ voice' = [voice EXCEPT ![ch] = room]
             /\ seen' = Told(RoomConns(room), ch, room)
             /\ Set(t, q)
  BY DEF Joined
<1>3. UNCHANGED <<conn, uid, bg>>
  BY DEF Joined
<1>4. CASE Finish(t) /\ UNCHANGED <<vch, voice, seen>>
  BY <1>1, <1>3, <1>4, QuietKept DEF Finish
<1>5. CASE ~(Finish(t) /\ UNCHANGED <<vch, voice, seen>>)
  <2>1. Set(t, q) /\ q.pc = "roster" /\ q.ch = ch
    BY <1>2, <1>5 DEF IdleTask
  <2>2. \A d \in Channel \ {ch} : voice'[d] = voice[d]
    BY <1>2, <1>5 DEF TypeOK
  <2>3. \A w \in Watchers, d \in Channel \ {ch} : seen'[w][d] = seen[w][d]
    BY <1>2, <1>5 DEF Told, TypeOK
  <2> HIDE DEF q, ch
  <2> QED
    BY <1>1, <1>3, <2>1, <2>2, <2>3, RoomChangedRepaired
<1> QED
  BY <1>4, <1>5

LEMMA SpeakRepaired ==
  ASSUME TypeOK, RostersRepaired, NEW c \in Conn, NEW t \in Task,
         NEW ch \in Channel, NEW m \in BOOLEAN, Speak(c, t, ch, m)
  PROVE  RostersRepaired'
<1> DEFINE q == [IdleTask EXCEPT !.pc = "roster", !.cmd = "speak",
                                 !.conn = c, !.ch = ch]
<1>1. Set(t, q) /\ q.pc = "roster" /\ q.ch = ch /\ task[t].pc = "idle"
  BY DEF Speak, Send, IdleTask
<1>2. \A d \in Channel \ {ch} : voice'[d] = voice[d]
  BY DEF Speak, TypeOK
<1>3. \A w \in Watchers, d \in Channel \ {ch} : seen'[w][d] = seen[w][d]
  BY DEF Speak, TypeOK
<1> HIDE DEF q
<1> QED
  BY <1>1, <1>2, <1>3, RoomChangedRepaired DEF Speak, connVars

\* The list sent after closeSfuSession may be old; the roster is still owed.
LEMMA VoiceClosedRepaired ==
  ASSUME TypeOK, RostersRepaired, NEW t \in Task, VoiceClosed(t)
  PROVE  RostersRepaired'
<1> DEFINE r == task[t]
           q == [r EXCEPT !.pc = "roster", !.cur = None, !.rem = EmptyRoom]
<1>1. r \in TaskRecord /\ r.pc = "vclose" /\ r.ch \in Channel
  BY InFlight DEF VoiceClosed, WellFormed
<1>2. Set(t, q) /\ q.pc = "roster" /\ q.ch = r.ch
  BY <1>1 DEF VoiceClosed, TaskRecord
<1>3. \A w \in Watchers, d \in Channel \ {r.ch} : seen'[w][d] = seen[w][d]
  BY DEF VoiceClosed, Told, TypeOK
<1>4. UNCHANGED <<conn, uid, bg, voice>>
  BY DEF VoiceClosed, connVars
<1> HIDE DEF q
<1> QED
  BY <1>1, <1>2, <1>3, <1>4, RoomChangedRepaired

LEMMA ModeChangedRepaired ==
  ASSUME TypeOK, RostersRepaired, NEW t \in Task, NEW m \in Modes,
         ModeChanged(t, m)
  PROVE  RostersRepaired'
<1> DEFINE r == [IdleTask EXCEPT !.cmd = "mode",
                   !.todo = {HostChange(pubs, p) :
                               p \in {q \in Live(pubs) : pubs[q].kind = "stream"}},
                   !.rooms = {ch \in Channel : Occupants(voice[ch]) # {}}]
<1>1. ClearRooms(t, r) /\ task[t].pc = "idle" /\ UNCHANGED <<conn, uid, seen>>
  BY DEF ModeChanged, connVars
<1>2. r.rooms \subseteq Channel
  BY DEF IdleTask
<1>3. CASE bg \subseteq bg' /\ Finish(t) /\ UNCHANGED voice
  <2> SUFFICES ASSUME NEW w \in Watchers, NEW d \in Channel
               PROVE  Repaired(w, d)'
    BY RostersRepairedByWatcher
  <2>1. RosterOwed(w, d) => RosterOwed(w, d)'
    BY <1>1, <1>3, OwedKept DEF Finish, TypeOK
  <2> QED
    BY <1>1, <1>3, <2>1, RostersRepairedByWatcher, RepairedKept DEF Member
<1>4. ASSUME NEW ch \in r.rooms,
             voice' = [voice EXCEPT ![ch] = EmptyRoom],
             Set(t, [r EXCEPT !.pc = "roster", !.ch = ch, !.then = "clear",
                              !.rooms = @ \ {ch}]),
             UNCHANGED bg
      PROVE  RostersRepaired'
  <2> DEFINE q == [r EXCEPT !.pc = "roster", !.ch = ch, !.then = "clear",
                            !.rooms = @ \ {ch}]
  <2>1. Set(t, q) /\ q.pc = "roster" /\ q.ch = ch
    BY <1>4 DEF IdleTask
  <2>2. \A d \in Channel \ {ch} : voice'[d] = voice[d]
    BY <1>4 DEF TypeOK
  <2> HIDE DEF q, r
  <2> QED
    BY <1>1, <1>2, <1>4, <2>1, <2>2, RoomChangedRepaired
<1> QED
  BY <1>1, <1>3, <1>4 DEF ClearRooms

\* broadcastVoiceRosterUpdated makes every member know the current room.
LEMMA RosterSentRepaired ==
  ASSUME TypeOK, RostersRepaired, NEW t \in Task, RosterSent(t)
  PROVE  RostersRepaired'
<1> DEFINE r == task[t]
<1>1. r \in TaskRecord /\ r.pc = "roster" /\ r.ch \in Channel /\ r.rooms \subseteq Channel
  BY InFlight DEF RosterSent, WellFormed, TaskRecord
<1>2. UNCHANGED <<conn, uid>> /\ seen' = Told(Members, r.ch, voice[r.ch])
  BY DEF RosterSent, connVars
<1> SUFFICES ASSUME NEW w \in Watchers, NEW d \in Channel
             PROVE  Repaired(w, d)'
  BY RostersRepairedByWatcher
<1>3. Repaired(w, d)
  BY RostersRepairedByWatcher
<1>4. /\ d = r.ch /\ Member(w) => seen'[w][d] = Snapshot(voice[d])
      /\ d # r.ch => seen'[w][d] = seen[w][d]
  BY <1>1, <1>2, CommandsAssumption DEF Told, Members, Member, TypeOK
<1>5. ASSUME NEW q, Set(t, q), bg \subseteq bg', voice'[d] = voice[d]
      PROVE  Repaired(w, d)'
  BY <1>1, <1>5, <1>2, <1>3, <1>4 DEF RosterOwed, Set, TypeOK, Repaired, Member
<1>6. CASE r.then = "clear"
  <2>1. ClearRooms(t, r)
    BY <1>6 DEF RosterSent
  <2>2. CASE Finish(t) /\ bg \subseteq bg' /\ UNCHANGED voice
    BY <1>5, <2>2 DEF Finish
  <2>3. ASSUME NEW ch \in r.rooms,
               voice' = [voice EXCEPT ![ch] = EmptyRoom],
               Set(t, [r EXCEPT !.pc = "roster", !.ch = ch, !.then = "clear",
                                !.rooms = @ \ {ch}]),
               UNCHANGED bg
        PROVE  Repaired(w, d)'
    <3> DEFINE q == [r EXCEPT !.pc = "roster", !.ch = ch, !.then = "clear",
                              !.rooms = @ \ {ch}]
    <3>1. Set(t, q) /\ q.pc = "roster" /\ q.ch = ch
      BY <1>1, <2>3 DEF TaskRecord
    <3> HIDE DEF q
    <3>2. CASE d = ch
      BY <3>1, <3>2 DEF Repaired, RosterOwed, Set, TypeOK
    <3>3. CASE d # ch
      BY <1>5, <2>3, <3>1, <3>3 DEF TypeOK
    <3> QED
      BY <3>2, <3>3
  <2> QED
    BY <2>1, <2>2, <2>3 DEF ClearRooms
<1>7. CASE r.then # "clear"
  BY <1>5, <1>7 DEF RosterSent, Finish
<1> QED
  BY <1>6, <1>7

LEMMA RosterSentLaterRepaired ==
  ASSUME TypeOK, RostersRepaired, NEW ch \in Channel, RosterSentLater(ch)
  PROVE  RostersRepaired'
<1> SUFFICES ASSUME NEW w \in Watchers, NEW d \in Channel
             PROVE  Repaired(w, d)'
  BY RostersRepairedByWatcher
<1>1. Repaired(w, d)
  BY RostersRepairedByWatcher
<1>2. /\ d = ch /\ Member(w) => seen'[w][d] = Snapshot(voice[d])
      /\ d # ch => seen'[w][d] = seen[w][d]
  BY CommandsAssumption DEF RosterSentLater, Told, Members, Member, TypeOK
<1>3. d # ch => (RosterOwed(w, d) => RosterOwed(w, d)')
  BY DEF RosterOwed, RosterSentLater
<1> QED
  BY <1>1, <1>2, <1>3 DEF Repaired, Member, RosterSentLater, connVars

\* A new member is owed the snapshot its authentication sends.
LEMMA AuthenticatedRepaired ==
  ASSUME TypeOK, RostersRepaired, NEW t \in Task, Authenticated(t)
  PROVE  RostersRepaired'
<1> DEFINE c == task[t].conn
<1>1. c \in Conn /\ task[t] \in TaskRecord /\ task[t].pc = "auth"
  BY InFlight DEF Authenticated, WellFormed
<1>2. CASE conn[c] = "open"
  <2> DEFINE q == [task[t] EXCEPT !.pc = "snapshot"]
  <2>1. Set(t, q) /\ q.pc = "snapshot" /\ q.conn = c
    BY <1>1, <1>2 DEF Authenticated, TaskRecord
  <2>2. PICK u \in User : uid' = [uid EXCEPT ![c] = u]
    BY <1>2 DEF Authenticated
  <2> HIDE DEF q
  <2> SUFFICES ASSUME NEW w \in Watchers, NEW d \in Channel
               PROVE  Repaired(w, d)'
    BY RostersRepairedByWatcher
  <2>3. CASE w = c
    BY <2>1, <2>3 DEF Repaired, RosterOwed, Set, TypeOK
  <2>4. CASE w # c
    <3>1. RosterOwed(w, d) => RosterOwed(w, d)'
      BY <1>1, <2>1, OwedKept DEF TypeOK, Authenticated
    <3>2. Member(w)' => Member(w)
      BY <2>2, <2>4, CommandsAssumption DEF Member, TypeOK, Authenticated
    <3> QED
      BY <3>1, <3>2, RostersRepairedByWatcher, RepairedKept DEF Authenticated
  <2> QED
    BY <2>3, <2>4
<1>3. CASE conn[c] # "open"
  BY <1>1, <1>3, QuietKept DEF Authenticated, Finish
<1> QED
  BY <1>2, <1>3

LEMMA SnapshotSentRepaired ==
  ASSUME TypeOK, RostersRepaired, NEW t \in Task, SnapshotSent(t)
  PROVE  RostersRepaired'
<1> SUFFICES ASSUME NEW w \in Watchers, NEW d \in Channel
             PROVE  Repaired(w, d)'
  BY RostersRepairedByWatcher
<1> DEFINE c == task[t].conn
<1>1. UNCHANGED <<conn, uid, voice, bg>> /\ task[t].pc = "snapshot"
  BY DEF SnapshotSent, connVars
<1>2. CASE w = c /\ conn[c] = "open"
  BY <1>1, <1>2 DEF SnapshotSent, Repaired
<1>3. CASE w = c /\ conn[c] # "open"
  BY <1>1, <1>3 DEF Repaired, Member
<1>4. CASE w # c
  <2>1. RosterOwed(w, d) => RosterOwed(w, d)'
    BY <1>1, <1>4 DEF RosterOwed, SnapshotSent, Finish, Set, TypeOK
  <2>2. seen'[w][d] = seen[w][d]
    BY <1>4 DEF SnapshotSent
  <2> QED
    BY <1>1, <2>1, <2>2, RostersRepairedByWatcher, RepairedKept DEF Member
<1> QED
  BY <1>2, <1>3, <1>4

\* The close handler owes a roster for every room it changes.
LEMMA CloseRepaired ==
  ASSUME TypeOK, RostersRepaired, NEW c \in Conn, Close(c)
  PROVE  RostersRepaired'
<1> SUFFICES ASSUME NEW w \in Watchers, NEW d \in Channel
             PROVE  Repaired(w, d)'
  BY RostersRepairedByWatcher
<1>1. Member(w)' => Member(w)
  BY CommandsAssumption DEF Member, Close, TypeOK
<1>2. task' = task /\ Repaired(w, d)
  BY RostersRepairedByWatcher DEF Close
<1>3. CASE uid[c] = None
  BY <1>1, <1>2, <1>3, RepairedKept DEF Close, RosterOwed
<1>4. CASE uid[c] # None
  <2> DEFINE u == uid[c]
             left == {ch \in Channel : u # None /\ voice[ch][u] # None
                                                /\ voice[ch][u].conn = c}
  <2>1. /\ voice' = [ch \in Channel |-> UnseatOwned(voice[ch], u, c)]
        /\ seen' = [w1 \in Watchers |-> [ch \in Channel |->
             IF ch \in left /\ w1 # c /\ conn[w1] = "open"
                            /\ w1 \in RoomConns(voice'[ch])
             THEN Snapshot(voice'[ch]) ELSE seen[w1][ch]]]
        /\ bg \subseteq bg' /\ {"roster"} \X left \subseteq bg'
    BY <1>4 DEF Close
  <2>2. CASE d \in left
    BY <2>2, <2>1 DEF Repaired, RosterOwed
  <2>3. CASE d \notin left
    <3>1. voice'[d] = voice[d]
      BY <1>4, <2>1, <2>3 DEF UnseatOwned
    <3>2. seen'[w][d] = seen[w][d]
      BY <2>1, <2>3
    <3>3. RosterOwed(w, d) => RosterOwed(w, d)'
      BY <1>2, <2>1 DEF RosterOwed
    <3> QED
      BY <1>1, <1>2, <3>1, <3>2, <3>3, RepairedKept
  <2> QED
    BY <2>2, <2>3
<1> QED
  BY <1>3, <1>4

\* The other steps that start or resume a command set one task that owed no
\* roster, and touch neither rooms nor views.
LEMMA CommandRepaired ==
  ASSUME TypeOK, RostersRepaired, NEW c \in Conn, NEW t \in Task, Command(c, t)
  PROVE  RostersRepaired'
<1>1. ASSUME NEW ch \in Channel, SendLeave(c, t, ch) PROVE RostersRepaired'
  <2> DEFINE r == [IdleTask EXCEPT !.cmd = "leave", !.conn = c]
  <2>1. r \in TaskRecord
    <3> DEFINE q1 == [IdleTask EXCEPT !.cmd = "leave"]
    <3>1. q1 \in TaskRecord
      BY IdleTyped, UpdateTyped DEF AllCommands
    <3> HIDE DEF q1
    <3>2. [q1 EXCEPT !.conn = c] \in TaskRecord
      BY <3>1, UpdateTyped
    <3> QED
      BY <3>2 DEF q1
  <2>2. LeaveRoom(t, r, c, uid[c], ch) /\ task[t].pc = "idle"
    BY <1>1 DEF SendLeave, Send
  <2> HIDE DEF r
  <2> QED
    BY <1>1, <2>1, <2>2, LeaveRoomRepaired DEF SendLeave
<1>2. ASSUME NEW ch \in Channel, NEW m \in BOOLEAN, Speak(c, t, ch, m)
      PROVE  RostersRepaired'
  BY <1>2, SpeakRepaired
<1>3. CASE \/ SendAuthenticate(c, t)
           \/ \E ch \in Channel : \/ SendJoin(c, t, ch)
                                  \/ \E k \in Kinds : SendStart(c, t, k, ch)
           \/ \E p \in Sess : SendWatch(c, t, p) \/ SendReconnect(c, t, p)
  BY <1>3, QuietKept DEF SendAuthenticate, SendJoin, SendStart, SendWatch,
     SendReconnect, Send, connVars
<1>4. ASSUME NEW p \in Sess, SendStop(c, t, p) \/ SendUnwatch(c, t, p)
      PROVE  RostersRepaired'
  <2>1. \E q : Set(t, q)
    BY <1>4 DEF SendStop, SendUnwatch, AfterMusic, AwaitChange, Finish
  <2> QED
    BY <1>4, <2>1, QuietKept DEF SendStop, SendUnwatch, Send, connVars
<1> QED
  BY <1>1, <1>2, <1>3, <1>4 DEF Command

LEMMA ResumeRepaired ==
  ASSUME TypeOK, RostersRepaired, NEW t \in Task, Resume(t)
  PROVE  RostersRepaired'
<1>1. CASE JoinChecked(t)
  <2> DEFINE r == task[t]
             u == uid[r.conn]
             in == {ch \in Channel : voice[ch][u] # None}
  <2>1. r \in TaskRecord /\ r.pc = "access"
    BY <1>1, InFlight DEF JoinChecked
  <2>2. UNCHANGED <<conn, uid, bg>>
    BY <1>1 DEF JoinChecked
  <2>3. CASE (\E q : Set(t, q)) /\ UNCHANGED <<vch, voice, seen>>
    BY <2>1, <2>2, <2>3, QuietKept
  <2>4. ASSUME NEW ch \in in, NEW l, LeaveRoom(t, r, l, u, ch)
        PROVE  RostersRepaired'
    BY <2>1, <2>2, <2>4, LeaveRoomRepaired
  <2> QED
    BY <1>1, <2>3, <2>4 DEF JoinChecked, AwaitMedia, Finish
<1>2. CASE Joined(t)
  BY <1>2, JoinedRepaired
<1>3. CASE Authenticated(t) \/ SnapshotSent(t)
  BY <1>3, AuthenticatedRepaired, SnapshotSentRepaired
<1>4. CASE VoiceClosed(t) \/ RosterSent(t)
  BY <1>4, VoiceClosedRepaired, RosterSentRepaired
<1>5. CASE \/ Denied(t) \/ MediaFailed(t) \/ StartChecked(t) \/ Started(t)
           \/ RowCreated(t) \/ RowLive(t) \/ PersistFailed(t)
           \/ WatchChecked(t) \/ Watched(t)
           \/ SessionClosed(t) \/ SessionRebuilt(t)
  <2>1. \E q : Set(t, q)
    BY <1>5 DEF Denied, MediaFailed, StartChecked, Started, RowCreated, RowLive,
       PersistFailed, WatchChecked, Watched, SessionClosed, SessionRebuilt,
       AwaitMedia, Finish
  <2>2. /\ task[t].pc \notin {"vclose", "roster", "snapshot"}
        /\ UNCHANGED <<conn, uid, voice, seen, bg>>
    BY <1>5 DEF Denied, MediaFailed, StartChecked, Started, RowCreated, RowLive,
       PersistFailed, WatchChecked, Watched, SessionClosed, SessionRebuilt, connVars
  <2> QED
    BY <2>1, <2>2, QuietKept
<1>6. CASE StreamsLeft(t) \/ RowEnded(t) \/ MediaEnded(t)
  <2>1. \E q : Set(t, q)
    BY <1>6 DEF StreamsLeft, RowEnded, MediaEnded, Proceed, AfterStreams,
       AfterMusic, AwaitChange, Finish
  <2>2. /\ task[t].pc \notin {"vclose", "roster", "snapshot"}
        /\ UNCHANGED <<conn, uid, voice, seen, bg>>
    BY <1>6 DEF StreamsLeft, RowEnded, MediaEnded, connVars
  <2> QED
    BY <2>1, <2>2, QuietKept
<1> QED
  BY <1>1, <1>2, <1>3, <1>4, <1>5, <1>6 DEF Resume

\* No step makes a connection unused, or gives an unused one a user.
LEMMA UnusedUnknown ==
  ASSUME TypeOK, [Next]_vars, \A c \in Conn : conn[c] = "unused" => uid[c] = None
  PROVE  \A c \in Conn : conn'[c] = "unused" => uid'[c] = None
<1>1. /\ conn \in [Conn -> {"unused", "open", "closed"}]
      /\ uid \in [Conn -> User \cup {None}]
  BY DEF TypeOK
<1>2. CASE \E d \in Conn : Attach(d) \/ Close(d)
  BY <1>1, <1>2 DEF Attach, Close
<1>3. CASE \E t \in Task : Authenticated(t)
  BY <1>1, <1>3 DEF Authenticated
<1>4. CASE Crash
  BY <1>1, <1>4 DEF Crash
<1>5. CASE conn' = conn /\ uid' = uid
  BY <1>5
<1>6. ASSUME NEW d \in Conn, NEW t \in Task, Command(d, t)
      PROVE  conn' = conn /\ uid' = uid
  BY <1>6 DEF Command, SendAuthenticate, SendJoin, SendLeave, Speak, SendStart,
     SendStop, SendWatch, SendUnwatch, SendReconnect, connVars
<1>7. ASSUME NEW t \in Task, Resume(t), ~Authenticated(t)
      PROVE  conn' = conn /\ uid' = uid
  BY <1>7 DEF Resume, SnapshotSent, Denied, MediaFailed, JoinChecked, Joined,
     VoiceClosed, RosterSent, StreamsLeft, RowEnded, MediaEnded, StartChecked,
     Started, RowCreated, RowLive, PersistFailed, WatchChecked, Watched,
     SessionClosed, SessionRebuilt, connVars
<1>8. ASSUME Background \/ UNCHANGED vars
             \/ \E t \in Task, m \in Modes : ModeChanged(t, m)
      PROVE  conn' = conn /\ uid' = uid
  BY <1>8 DEF Background, RosterSentLater, MediaClosedLater, RowEndedLater,
     ModeChanged, vars, connVars
<1> QED
  BY <1>2, <1>3, <1>4, <1>5, <1>6, <1>7, <1>8 DEF Next

LEMMA RosterInvStep ==
  ASSUME TypeOK, RosterInv, [Next]_vars
  PROVE  RosterInv'
<1> USE DEF RosterInv
<1>1. ASSUME NEW c \in Conn, Attach(c) PROVE RostersRepaired'
  <2> SUFFICES ASSUME NEW w \in Watchers, NEW d \in Channel
               PROVE  Repaired(w, d)'
    BY RostersRepairedByWatcher
  <2>1. Member(w)' => Member(w)
    BY <1>1, CommandsAssumption DEF Member, Attach, TypeOK
  <2> QED
    BY <1>1, <2>1, RostersRepairedByWatcher, RepairedKept DEF Attach, RosterOwed
<1>2. CASE Crash
  BY <1>2, CommandsAssumption DEF Crash, RostersRepaired, Member, TypeOK
<1>3. CASE UNCHANGED vars
  BY <1>3 DEF vars, RostersRepaired, Member, RosterOwed
<1>4. ASSUME \E s \in Sess : MediaClosedLater(s) \/ RowEndedLater(s)
      PROVE  RostersRepaired'
  <2> SUFFICES ASSUME NEW w \in Watchers, NEW d \in Channel
               PROVE  Repaired(w, d)'
    BY RostersRepairedByWatcher
  <2>1. RosterOwed(w, d) => RosterOwed(w, d)'
    BY <1>4 DEF RosterOwed, MediaClosedLater, RowEndedLater
  <2> QED
    BY <1>4, <2>1, RostersRepairedByWatcher, RepairedKept
    DEF MediaClosedLater, RowEndedLater, Member, connVars
<1>5. RostersRepaired'
  BY <1>1, <1>2, <1>3, <1>4, CloseRepaired, CommandRepaired, ResumeRepaired,
     ModeChangedRepaired, RosterSentLaterRepaired DEF Next, Background
<1>6. \A c \in Conn : conn'[c] = "unused" => uid'[c] = None
  BY UnusedUnknown
<1> QED
  BY <1>5, <1>6

\* Whenever what a member was sent of a roster differs from the room, a
\* broadcast that repairs it is on its way: handleVoiceLeave, the close
\* handler, voice.speaking.updated and applyMediaMode all end with
\* broadcastVoiceRosterUpdated, which reads the room after its await.
THEOREM RostersRepairedInvariant == Spec => []RostersRepaired
<1>1. Init => RosterInv
  BY CommandsAssumption DEF Init, RosterInv, RostersRepaired, Member
<1>2. TypeOK /\ RosterInv /\ [Next]_vars => RosterInv'
  BY RosterInvStep
<1>3. RosterInv => RostersRepaired
  BY DEF RosterInv
<1> QED
  BY <1>1, <1>2, <1>3, TypeInvariant, PTL DEF Spec

-----------------------------------------------------------------------------
(* The rows of stream_sessions follow the streams: whatever rows the       *)
(* commands, the close handler and the media mode end, across their        *)
(* awaits, are rows of streams that are gone.                              *)

\* The streams whose row a task, or an operation of the background, will end.
EndingOf(r) ==
  {s \in Sess : (r.pc = "endrow" /\ r.cur = s) \/ s \in StoppedStreams(r.todo)}
Ending ==
  {s \in Sess : \/ <<"endrow", s>> \in bg
                \/ \E t \in Task : s \in EndingOf(task[t])}

\* The inductive invariant: sessions are drawn fresh, so a session that is
\* live, has a row, is about to get one or is about to lose it is not fresh;
\* and a stream about to lose its row is not live.
RowInv ==
  /\ RowsFollowStreams
  /\ \A s \in Live(pubs) : media[s] # "fresh"
  /\ \A t \in Task : task[t].pc \in {"create", "live"}
                       => media[task[t].pub] # "fresh"
  /\ \A s \in Sess : row[s] # "absent" => media[s] # "fresh"
  /\ \A s \in Ending : media[s] # "fresh" /\ s \notin Live(pubs)

\* Only a session never drawn is fresh.
LEMMA FreshShrinks ==
  ASSUME TypeOK, [Next]_vars
  PROVE  \A s \in Sess : media[s] # "fresh" => media'[s] # "fresh"
<1>1. media \in [Sess -> {"fresh", "p2p", "sfu", "closed"}]
  BY DEF TypeOK
<1>2. CASE media' = media
  BY <1>2
<1>3. ASSUME NEW x, media' = [media EXCEPT ![x] = "closed"]
      PROVE  \A s \in Sess : media[s] # "fresh" => media'[s] # "fresh"
  BY <1>1, <1>3
<1>4. ASSUME NEW t \in Task, NEW x, media' = [media EXCEPT ![x] = task[t].mode]
      PROVE  \A s \in Sess : media[s] # "fresh" => media'[s] # "fresh"
  BY InFlight, <1>1, <1>4 DEF TaskRecord
<1>5. ASSUME NEW c \in Conn, NEW t \in Task, Command(c, t)
      PROVE  media' = media
  BY <1>5 DEF Command, SendAuthenticate, SendJoin, SendLeave, Speak, SendStart,
     SendStop, SendWatch, SendUnwatch, SendReconnect
<1>6. ASSUME NEW t \in Task, Resume(t)
      PROVE  \/ media' = media
             \/ \E x : media' = [media EXCEPT ![x] = "closed"]
             \/ \E x : media' = [media EXCEPT ![x] = task[t].mode]
  <2>1. CASE VoiceClosed(t) \/ MediaEnded(t) \/ SessionClosed(t)
    BY <2>1 DEF VoiceClosed, MediaEnded, SessionClosed, CloseMedia
  <2>2. CASE Joined(t) \/ MediaFailed(t) \/ Started(t) \/ Watched(t)
             \/ SessionRebuilt(t)
    BY <2>2 DEF Joined, MediaFailed, Started, Watched, SessionRebuilt
  <2> QED
    BY <1>6, <2>1, <2>2 DEF Resume, Authenticated, SnapshotSent, Denied,
       JoinChecked, RosterSent, StreamsLeft, RowEnded, StartChecked, RowCreated,
       RowLive, PersistFailed, WatchChecked
<1>7. CASE Background
  <2>1. media' = media \/ \E x : media' = [media EXCEPT ![x] = "closed"]
    BY <1>7 DEF Background, RosterSentLater, MediaClosedLater, RowEndedLater, CloseMedia
  <2> QED
    BY <1>2, <1>3, <2>1
<1>8. ASSUME \/ \E c \in Conn : Attach(c) \/ Close(c)
             \/ \E t \in Task, m \in Modes : ModeChanged(t, m)
             \/ Crash \/ UNCHANGED vars
      PROVE  media' = media
  BY <1>8 DEF Attach, Close, ModeChanged, Crash, vars
<1> QED
  BY <1>2, <1>3, <1>4, <1>5, <1>6, <1>7, <1>8 DEF Next

\* A step that publishes nothing, creates no row, ends only rows that were to
\* be ended, and adds to these only streams it removes.
Quiet ==
  /\ Kept(pubs, pubs')
  /\ \A s \in Sess : \/ row'[s] = row[s]
                     \/ row[s] = "active" /\ row'[s] = "ended" /\ s \in Ending
  /\ Ending' \subseteq Ending \cup (Live(pubs) \ Live(pubs)')
  /\ \A t \in Task : task'[t].pc \in {"create", "live"}
                       => /\ task[t].pc \in {"create", "live"}
                          /\ task'[t].pub = task[t].pub
  /\ \A t \in Task : task[t].pc = "create"
                       => task'[t] = task[t] \/ task[t].pub \notin Live(pubs)'

LEMMA QuietRowInv ==
  ASSUME TypeOK, RowInv, [Next]_vars, Quiet
  PROVE  RowInv'
<1>1. \A s \in Sess : media[s] # "fresh" => media'[s] # "fresh"
  BY FreshShrinks
<1>2. Live(pubs)' \subseteq Live(pubs) /\ Live(pubs) \subseteq Sess
  BY DEF Quiet, Kept, Live
<1>3. RowsFollowStreams'
  <2> SUFFICES ASSUME NEW p \in Live(pubs)', pubs'[p].kind = "stream"
               PROVE  \/ row'[p] = "active"
                      \/ \E t \in Task : /\ task'[t].pc = "create"
                                         /\ task'[t].pub = p /\ row'[p] = "absent"
    BY DEF RowsFollowStreams
  <2>1. p \in Live(pubs) /\ p \in Sess /\ pubs[p].kind = "stream" /\ p \notin Ending
    BY <1>2 DEF Quiet, Kept, RowInv
  <2>2. row'[p] = row[p]
    BY <2>1 DEF Quiet
  <2> QED
    BY <2>1, <2>2 DEF RowInv, RowsFollowStreams, Quiet
<1>4. \A s \in Live(pubs)' : media'[s] # "fresh"
  BY <1>1, <1>2 DEF RowInv
<1>5. \A t \in Task : task'[t].pc \in {"create", "live"}
                        => media'[task'[t].pub] # "fresh"
  <2> SUFFICES ASSUME NEW t \in Task, task'[t].pc \in {"create", "live"}
               PROVE  media'[task'[t].pub] # "fresh"
    OBVIOUS
  <2>1. task[t].pc \in {"create", "live"} /\ task'[t].pub = task[t].pub
    BY DEF Quiet
  <2>2. task[t].pub \in Sess
    BY <2>1, InFlight DEF WellFormed
  <2> QED
    BY <1>1, <2>1, <2>2 DEF RowInv
<1>6. \A s \in Sess : row'[s] # "absent" => media'[s] # "fresh"
  BY <1>1 DEF RowInv, Quiet
<1>7. \A s \in Ending' : media'[s] # "fresh" /\ s \notin Live(pubs)'
  <2>1. Ending \subseteq Sess
    BY DEF Ending
  <2> SUFFICES ASSUME NEW s \in Ending'
               PROVE  media'[s] # "fresh" /\ s \notin Live(pubs)'
    OBVIOUS
  <2>2. s \in Ending \/ (s \in Live(pubs) /\ s \notin Live(pubs)')
    BY DEF Quiet
  <2> QED
    BY <1>1, <1>2, <2>1, <2>2 DEF RowInv
<1> QED
  BY <1>3, <1>4, <1>5, <1>6, <1>7 DEF RowInv

-----------------------------------------------------------------------------
(* Which streams the continuation of a command will end.                   *)

\* A step that sets one task.
LEMMA EndingSet ==
  ASSUME TypeOK, NEW t \in Task, NEW r, Set(t, r), bg' = bg
  PROVE  Ending' \subseteq Ending \cup EndingOf(r)
<1>1. task'[t] = r /\ \A x \in Task \ {t} : task'[x] = task[x]
  BY DEF Set, TypeOK
<1> SUFFICES ASSUME NEW s \in Ending', s \notin EndingOf(r)
             PROVE  s \in Ending
  OBVIOUS
<1>2. s \in Sess
  BY DEF Ending
<1>3. CASE <<"endrow", s>> \in bg'
  BY <1>2, <1>3 DEF Ending
<1>4. CASE <<"endrow", s>> \notin bg'
  <2>1. PICK x \in Task : s \in EndingOf(task'[x])
    BY <1>4 DEF Ending, EndingOf
  <2>2. x # t /\ task'[x] = task[x]
    BY <1>1, <2>1
  <2> QED
    BY <1>2, <2>1, <2>2 DEF Ending
<1> QED
  BY <1>3, <1>4

LEMMA IdleEndsNothing ==
  EndingOf(IdleTask) = {} /\ IdleTask.pc = "idle"
BY DEF EndingOf, IdleTask, StoppedStreams

LEMMA AwaitChangeEnding ==
  ASSUME NEW t, NEW r \in TaskRecord, NEW ps, NEW todo,
         AwaitChange(t, r, ps, todo)
  PROVE  /\ pubs' = ps
         /\ \E q : /\ Set(t, q) /\ q.pc \in {"endrow", "endmedia"}
                   /\ EndingOf(q) \subseteq StoppedStreams(todo)
<1>1. PICK x \in Awaited(todo) :
        /\ Set(t, [r EXCEPT
                     !.pc = IF x.kind = "stream" /\ x.role = "host"
                            THEN "endrow" ELSE "endmedia",
                     !.cur = x.sess, !.todo = todo \ {x}])
        /\ pubs' = ps
  BY DEF AwaitChange
<1> DEFINE q == [r EXCEPT !.pc = IF x.kind = "stream" /\ x.role = "host"
                                 THEN "endrow" ELSE "endmedia",
                          !.cur = x.sess, !.todo = todo \ {x}]
<1>2. /\ q.pc = IF x.kind = "stream" /\ x.role = "host" THEN "endrow" ELSE "endmedia"
      /\ q.cur = x.sess /\ q.todo = todo \ {x}
  BY DEF TaskRecord
<1>3. Set(t, q)
  BY <1>1
<1> HIDE DEF q
<1>4. EndingOf(q) \subseteq StoppedStreams(todo)
  BY <1>2 DEF EndingOf, StoppedStreams, Awaited
<1> QED
  BY <1>1, <1>2, <1>3, <1>4

LEMMA AfterMusicEnding ==
  ASSUME NEW t, NEW r \in TaskRecord, NEW ps, NEW todo, AfterMusic(t, r, ps, todo)
  PROVE  /\ pubs' = ps
         /\ \E q : /\ Set(t, q) /\ q.pc \notin {"create", "live"}
                   /\ EndingOf(q) \subseteq StoppedStreams(todo)
<1>1. CASE AwaitChange(t, [r EXCEPT !.then = "end"], ps, todo)
  <2>1. [r EXCEPT !.then = "end"] \in TaskRecord
    BY UpdateTyped
  <2> QED
    BY <1>1, <2>1, AwaitChangeEnding
<1>2. CASE pubs' = ps /\ Finish(t)
  BY <1>2, IdleEndsNothing DEF Finish
<1>3. CASE /\ pubs' = ps
           /\ Set(t, [IdleTask EXCEPT !.pc = "media", !.cmd = "join",
                        !.conn = r.conn, !.goal = r.goal, !.mode = mode])
  <2> DEFINE q == [IdleTask EXCEPT !.pc = "media", !.cmd = "join",
                     !.conn = r.conn, !.goal = r.goal, !.mode = mode]
  <2>1. q.pc = "media" /\ q.todo = {}
    BY DEF IdleTask
  <2>2. Set(t, q)
    BY <1>3
  <2> HIDE DEF q
  <2>3. EndingOf(q) = {}
    BY <2>1 DEF EndingOf, StoppedStreams
  <2> QED
    BY <1>3, <2>1, <2>2, <2>3
<1> QED
  BY <1>1, <1>2, <1>3 DEF AfterMusic

\* The changes of music publications end no row.
LEMMA MusicStopsNoStream ==
  ASSUME NEW ps, NEW chs, NEW u, NEW cs
  PROVE  StoppedStreams(Changes(ps, "music", chs, u, cs)) = {}
BY DEF StoppedStreams, Changes, HostChange, ViewerChange, Stopped, Unviewed

\* The streams a leave stops are live before it and not after it.
LEMMA StoppedAreGone ==
  ASSUME NEW ps \in Publications, NEW chs, NEW u, NEW cs
  PROVE  StoppedStreams(Changes(ps, "stream", chs, u, cs))
           \subseteq Live(ps) \ Live(LeaveForUser(ps, "stream", chs, u, cs))
BY DEF StoppedStreams, Changes, HostChange, ViewerChange, Stopped, LeaveForUser, Unviewed, Live

LEMMA AfterStreamsEnding ==
  ASSUME NEW t, NEW r \in TaskRecord, NEW ps, NEW todo, AfterStreams(t, r, ps, todo)
  PROVE  \E q : /\ Set(t, q) /\ q.pc \notin {"create", "live"}
                /\ EndingOf(q) \subseteq StoppedStreams(todo)
<1>1. CASE AwaitChange(t, [r EXCEPT !.then = "music"], ps, todo)
  <2>1. [r EXCEPT !.then = "music"] \in TaskRecord
    BY UpdateTyped
  <2> QED
    BY <1>1, <2>1, AwaitChangeEnding
<1>2. CASE AfterMusic(t, r, LeaveForUser(ps, "music", {r.ch}, uid[r.conn], Conn),
                      Changes(ps, "music", {r.ch}, uid[r.conn], Conn))
  BY <1>2, AfterMusicEnding, MusicStopsNoStream
<1> QED
  BY <1>1, <1>2 DEF AfterStreams

-----------------------------------------------------------------------------
(* Every step but the publication of a stream and the creation of its row  *)
(* is quiet.                                                               *)

LEMMA TaskQuiet ==
  ASSUME TypeOK, NEW t \in Task, NEW q, Set(t, q), q.pc \notin {"create", "live"},
         bg' = bg, Kept(pubs, pubs'),
         \A s \in Sess : \/ row'[s] = row[s]
                         \/ row[s] = "active" /\ row'[s] = "ended" /\ s \in Ending,
         EndingOf(q) \subseteq Ending \cup (Live(pubs) \ Live(pubs)'),
         task[t].pc = "create" => task[t].pub \notin Live(pubs)'
  PROVE  Quiet
<1>1. task'[t] = q /\ \A x \in Task \ {t} : task'[x] = task[x]
  BY DEF Set, TypeOK
<1>2. Ending' \subseteq Ending \cup EndingOf(q)
  BY EndingSet
<1> QED
  BY <1>1, <1>2 DEF Quiet

\* The task's own stops, unless its row is being ended now.
LEMMA OwnEnding ==
  ASSUME NEW t \in Task
  PROVE  EndingOf(task[t]) \subseteq Ending
BY DEF Ending, EndingOf

LEMMA CommandQuiet ==
  ASSUME TypeOK, [Next]_vars, NEW c \in Conn, NEW t \in Task, Command(c, t)
  PROVE  Quiet
<1>1. /\ task[t].pc = "idle" /\ bg' = bg /\ row' = row
  BY ZenonT(30) DEF Command, SendAuthenticate, SendJoin, SendLeave, Speak, SendStart, SendStop,
     SendWatch, SendUnwatch, SendReconnect, Send
<1>2. ASSUME pubs' = pubs, \E q : Set(t, q) /\ q.pc \notin {"create", "live", "endrow"}
                                            /\ q.todo = {}
      PROVE  Quiet
  <2>1. PICK q : Set(t, q) /\ q.pc \notin {"create", "live", "endrow"} /\ q.todo = {}
    BY <1>2
  <2>2. EndingOf(q) = {} /\ Kept(pubs, pubs')
    BY <1>2, <2>1 DEF EndingOf, StoppedStreams, Kept
  <2> QED
    BY <1>1, <2>1, <2>2, TaskQuiet
<1>3. CASE \/ SendAuthenticate(c, t)
           \/ \E ch \in Channel : \/ SendJoin(c, t, ch)
                                  \/ \E m \in BOOLEAN : Speak(c, t, ch, m)
                                  \/ \E k \in Kinds : SendStart(c, t, k, ch)
           \/ \E p \in Sess : SendWatch(c, t, p)
  <2>1. pubs' = pubs
    BY <1>3 DEF SendAuthenticate, SendJoin, Speak, SendStart, SendWatch
  <2> DEFINE Idle(q) == q.pc \notin {"create", "live", "endrow"} /\ q.todo = {}
  <2>2. \A ch, k, p :
          /\ Idle([IdleTask EXCEPT !.pc = "auth", !.cmd = "auth", !.conn = c])
          /\ Idle([IdleTask EXCEPT !.pc = "access", !.cmd = "join",
                                   !.conn = c, !.goal = ch])
          /\ Idle([IdleTask EXCEPT !.pc = "roster", !.cmd = "speak",
                                   !.conn = c, !.ch = ch])
          /\ Idle([IdleTask EXCEPT !.pc = "access", !.cmd = "start", !.conn = c,
                                   !.ch = ch, !.kind = k])
          /\ Idle([IdleTask EXCEPT !.pc = "access", !.cmd = "watch", !.conn = c,
                     !.ch = pubs[p].ch, !.kind = pubs[p].kind, !.pub = p])
    BY DEF IdleTask
  <2> HIDE DEF Idle
  <2>3. \E q : Set(t, q) /\ Idle(q)
    BY <1>3, <2>2 DEF SendAuthenticate, SendJoin, Speak, SendStart, SendWatch
  <2> QED
    BY <1>2, <2>1, <2>3 DEF Idle
<1>4. ASSUME NEW s \in Sess, SendReconnect(c, t, s) PROVE Quiet
  <2> DEFINE pc == IF mode = "sfu" THEN "rclose" ELSE "rcreate"
             q == [IdleTask EXCEPT !.pc = pc, !.cmd = "reconnect", !.conn = c,
                                   !.cur = s, !.mode = mode]
  <2>1. Set(t, q) /\ q.pc = pc /\ q.todo = {} /\ pubs' = pubs
    BY <1>4 DEF SendReconnect, IdleTask
  <2> HIDE DEF q
  <2> QED
    BY <1>2, <2>1
<1>5. ASSUME NEW ch \in Channel, SendLeave(c, t, ch) PROVE Quiet
  <2> DEFINE r == [IdleTask EXCEPT !.cmd = "leave", !.conn = c]
  <2>1. pubs' = pubs /\ LeaveRoom(t, r, c, uid[c], ch)
    BY <1>5 DEF SendLeave
  <2> DEFINE q1 == [r EXCEPT !.pc = "vclose", !.ch = ch, !.then = "streams",
                             !.cur = voice[ch][uid[c]].sess,
                             !.rem = Unseat(voice[ch], uid[c])]
             q2 == [r EXCEPT !.pc = "roster", !.ch = ch, !.then = "streams"]
  <2>2. Set(t, q1) \/ Set(t, q2)
    BY <2>1 DEF LeaveRoom
  <2>3. q1.pc = "vclose" /\ q1.todo = {} /\ q2.pc = "roster" /\ q2.todo = {}
    BY DEF IdleTask
  <2> HIDE DEF q1, q2
  <2> QED
    BY <1>2, <2>1, <2>2, <2>3
<1>6. ASSUME NEW cmd, NEW ps, NEW todo, Kept(pubs, ps),
             AfterMusic(t, [IdleTask EXCEPT !.cmd = cmd, !.conn = c], ps, todo),
             cmd \in {"stop", "unwatch"},
             StoppedStreams(todo) \subseteq Live(pubs) \ Live(ps)
      PROVE  Quiet
  <2> DEFINE r == [IdleTask EXCEPT !.cmd = cmd, !.conn = c]
  <2>1. r \in TaskRecord
    <3> DEFINE q1 == [IdleTask EXCEPT !.cmd = cmd]
    <3>1. q1 \in TaskRecord
      BY <1>6, IdleTyped, UpdateTyped DEF AllCommands
    <3> HIDE DEF q1
    <3>2. [q1 EXCEPT !.conn = c] \in TaskRecord
      BY <3>1, UpdateTyped
    <3> QED
      BY <3>2 DEF q1
  <2> HIDE DEF r
  <2>2. AfterMusic(t, r, ps, todo)
    BY <1>6 DEF r
  <2>3. pubs' = ps /\ \E q : /\ Set(t, q) /\ q.pc \notin {"create", "live"}
                             /\ EndingOf(q) \subseteq StoppedStreams(todo)
    BY <2>1, <2>2, AfterMusicEnding
  <2> QED
    BY <1>1, <1>6, <2>3, TaskQuiet
<1>7. ASSUME NEW p \in Sess, SendStop(c, t, p) PROVE Quiet
  <2>1. pubs[p] # None /\ pubs \in Publications
    BY <1>7 DEF SendStop, TypeOK
  <2>2. StoppedStreams({HostChange(pubs, p)}) \subseteq Live(pubs) \ Live(Unpublish(pubs, p))
    BY <2>1 DEF StoppedStreams, HostChange, Live, Unpublish, Publications
  <2> QED
    BY <1>6, <1>7, <2>1, <2>2, UnpublishKept DEF SendStop
<1>8. ASSUME NEW p \in Sess, SendUnwatch(c, t, p) PROVE Quiet
  <2>1. pubs[p] # None /\ pubs \in Publications
    BY <1>8 DEF SendUnwatch, TypeOK
  <2>2. StoppedStreams({ViewerChange(pubs, p, uid[c])}) = {}
    BY DEF StoppedStreams, ViewerChange
  <2> QED
    BY <1>6, <1>8, <2>1, <2>2, ViewersKept DEF SendUnwatch
<1> QED
  BY <1>3, <1>4, <1>5, <1>7, <1>8 DEF Command

LEMMA ResumeQuiet ==
  ASSUME TypeOK, [Next]_vars, NEW t \in Task, Resume(t), ~Started(t), ~RowCreated(t)
  PROVE  Quiet \/ RosterSent(t)
<1> DEFINE r == task[t]
<1>1. r \in TaskRecord /\ WellFormed(r) /\ EndingOf(r) \subseteq Ending
  BY InFlight, OwnEnding
<1>2. Kept(pubs, pubs') \/ \E x \in Task : Started(x)
  BY StepKept
<1>3. pubs' = pubs => Kept(pubs, pubs')
  BY DEF Kept
<1>4. ASSUME NEW q, Set(t, q), q.pc \notin {"create", "live", "endrow"},
             q.todo \subseteq r.todo, bg' = bg, row' = row, pubs' = pubs,
             r.pc # "create"
      PROVE  Quiet
  BY <1>4, <1>1, <1>3, TaskQuiet DEF EndingOf, StoppedStreams
<1>5. ASSUME bg' = bg, row' = row, pubs' = pubs, r.pc # "create", Finish(t)
      PROVE  Quiet
  BY <1>4, <1>5, IdleEndsNothing DEF Finish, IdleTask
<1>6. CASE Denied(t) \/ MediaFailed(t) \/ SnapshotSent(t) \/ RowLive(t)
           \/ SessionRebuilt(t)
  BY <1>5, <1>6 DEF Denied, MediaFailed, SnapshotSent, RowLive, SessionRebuilt
<1>7. ASSUME AwaitMedia(t), bg' = bg, row' = row, pubs' = pubs, r.pc = "access"
      PROVE  Quiet
  <2> DEFINE q == [r EXCEPT !.pc = "media", !.mode = mode]
  <2>1. Set(t, q) /\ q.pc = "media" /\ q.todo = r.todo
    BY <1>1, <1>7 DEF AwaitMedia, TaskRecord
  <2> HIDE DEF q
  <2> QED
    BY <1>4, <1>7, <2>1
<1>8. CASE StartChecked(t) \/ WatchChecked(t)
  BY <1>5, <1>7, <1>8 DEF StartChecked, WatchChecked
<1>9. CASE Authenticated(t)
  <2> DEFINE q == [r EXCEPT !.pc = "snapshot"]
  <2>1. q.pc = "snapshot" /\ q.todo = r.todo
    BY <1>1 DEF TaskRecord
  <2>2. Finish(t) \/ Set(t, q)
    BY <1>9 DEF Authenticated
  <2> HIDE DEF q
  <2> QED
    BY <1>4, <1>5, <1>9, <2>1, <2>2 DEF Authenticated
<1>10. CASE JoinChecked(t)
  <2>1. bg' = bg /\ row' = row /\ pubs' = pubs /\ r.pc = "access"
    BY <1>10 DEF JoinChecked
  <2>2. ASSUME NEW l, NEW u, NEW ch, LeaveRoom(t, r, l, u, ch)
        PROVE  Quiet
    <3> DEFINE q1 == [r EXCEPT !.pc = "vclose", !.ch = ch, !.then = "streams",
                       !.cur = voice[ch][u].sess, !.rem = Unseat(voice[ch], u)]
               q2 == [r EXCEPT !.pc = "roster", !.ch = ch, !.then = "streams"]
    <3>1. /\ q1.pc = "vclose" /\ q1.todo = r.todo
          /\ q2.pc = "roster" /\ q2.todo = r.todo
      BY <1>1 DEF TaskRecord
    <3>2. Set(t, q1) \/ Set(t, q2)
      BY <2>2 DEF LeaveRoom
    <3> HIDE DEF q1, q2
    <3> QED
      BY <1>4, <2>1, <3>1, <3>2
  <2> QED
    BY <1>5, <1>7, <1>10, <2>1, <2>2 DEF JoinChecked
<1>11. CASE Joined(t)
  <2> DEFINE q == [IdleTask EXCEPT !.pc = "roster", !.cmd = "join",
                            !.conn = r.conn, !.ch = r.goal]
  <2>1. q.pc = "roster" /\ q.todo = {}
    BY DEF IdleTask
  <2>2. Finish(t) \/ Set(t, q)
    BY <1>11 DEF Joined
  <2> HIDE DEF q
  <2> QED
    BY <1>4, <1>5, <1>11, <2>1, <2>2 DEF Joined
<1>12. CASE VoiceClosed(t)
  <2> DEFINE q == [r EXCEPT !.pc = "roster", !.cur = None, !.rem = EmptyRoom]
  <2>1. q.pc = "roster" /\ q.todo = r.todo /\ Set(t, q)
    BY <1>1, <1>12 DEF TaskRecord, VoiceClosed
  <2> HIDE DEF q
  <2> QED
    BY <1>4, <1>12, <2>1 DEF VoiceClosed
<1>13. CASE SessionClosed(t)
  <2> DEFINE q == [r EXCEPT !.pc = "rcreate", !.mode = mode]
  <2>1. q.pc = "rcreate" /\ q.todo = r.todo /\ Set(t, q)
    BY <1>1, <1>13 DEF TaskRecord, SessionClosed
  <2> HIDE DEF q
  <2> QED
    BY <1>4, <1>13, <2>1 DEF SessionClosed
<1>14. CASE Watched(t)
  <2>1. Kept(pubs, pubs')
    BY <1>1, <1>14, <1>3, ViewersKept DEF Watched, WellFormed, TypeOK
  <2>2. Finish(t) /\ bg' = bg /\ row' = row /\ r.pc # "create"
    BY <1>14 DEF Watched
  <2> QED
    BY <2>1, <2>2, IdleEndsNothing, TaskQuiet DEF Finish
<1>15. CASE PersistFailed(t)
  <2>1. Kept(pubs, pubs') /\ r.pub \notin Live(pubs)'
    <3>1. r.pub \in Sess /\ pubs \in Publications
      BY <1>1, <1>15 DEF PersistFailed, WellFormed, TypeOK
    <3> QED
      BY <1>15, <3>1, UnpublishKept DEF PersistFailed, Unpublish, Live, Publications
  <2>2. Finish(t) /\ bg' = bg /\ row' = row
    BY <1>15 DEF PersistFailed
  <2> QED
    BY <2>1, <2>2, IdleEndsNothing, TaskQuiet DEF Finish
<1>16. ASSUME Proceed(t, r), bg' = bg, r.pc \in {"endrow", "endmedia"}, uid' = uid,
              \A s \in Sess : \/ row'[s] = row[s]
                              \/ row[s] = "active" /\ row'[s] = "ended" /\ s \in Ending
       PROVE  Quiet
  <2>1. pubs \in Publications
    BY DEF TypeOK
  <2>2. Kept(pubs, pubs')
    BY <1>3, <1>16, <2>1, AfterStreamsKept, AfterMusicKept DEF Proceed
  <2>3. \E q : /\ Set(t, q) /\ q.pc \notin {"create", "live"}
               /\ EndingOf(q) \subseteq StoppedStreams(r.todo)
    BY <1>1, <1>16, AfterStreamsEnding, AfterMusicEnding DEF Proceed
  <2>4. StoppedStreams(r.todo) \subseteq Ending
    BY <1>1 DEF StoppedStreams, TaskRecord, Change, EndingOf
  <2> QED
    BY <1>16, <2>2, <2>3, <2>4, TaskQuiet
<1>17. CASE MediaEnded(t)
  BY <1>16, <1>17 DEF MediaEnded, connVars
<1>18. CASE RowEnded(t)
  <2>1. r.pc = "endrow" /\ r.cur \in Sess /\ r.cur \in Ending
    BY <1>1, <1>18 DEF RowEnded, WellFormed, EndingOf
  <2>2. \A s \in Sess : \/ row'[s] = row[s]
                        \/ row[s] = "active" /\ row'[s] = "ended" /\ s \in Ending
    BY <1>18, <2>1 DEF RowEnded, EndRow
  <2>3. CASE mode = "sfu"
    <3> DEFINE q == [r EXCEPT !.pc = "endmedia"]
    <3>1. q.pc = "endmedia" /\ q.todo = r.todo /\ Set(t, q)
      BY <1>1, <1>18, <2>3 DEF TaskRecord, RowEnded
    <3> HIDE DEF q
    <3>2. EndingOf(q) \subseteq EndingOf(r)
      BY <3>1 DEF EndingOf
    <3>3. pubs' = pubs /\ bg' = bg
      BY <1>18, <2>3 DEF RowEnded
    <3> QED
      BY <1>1, <1>3, <2>1, <2>2, <3>1, <3>2, <3>3, TaskQuiet
  <2>4. CASE mode # "sfu"
    BY <1>16, <1>18, <2>1, <2>2, <2>4 DEF RowEnded, connVars
  <2> QED
    BY <2>3, <2>4
<1>19. CASE StreamsLeft(t)
  <2> DEFINE u == uid[r.conn]
             ps == LeaveForUser(pubs, "stream", {r.ch}, u, Conn)
             todo == Changes(pubs, "stream", {r.ch}, u, Conn)
  <2>1. /\ pubs \in Publications /\ bg' = bg /\ row' = row /\ r.pc = "streams"
        /\ AfterStreams(t, r, ps, todo) /\ u \in User
    BY <1>1, <1>19 DEF StreamsLeft, TypeOK, WellFormed
  <2>2. ps \in Publications
    BY <2>1, LeaveForUserType
  <2>3. StoppedStreams(todo) \subseteq Live(pubs) \ Live(ps)
    BY <2>1, StoppedAreGone
  <2>4. Kept(pubs, ps)
    BY <2>1, LeaveForUserKept
  <2> HIDE DEF ps, todo
  <2>5. Kept(ps, pubs')
    BY <2>1, <2>2, AfterStreamsKept
  <2>6. Kept(pubs, pubs')
    BY <2>4, <2>5, KeptTransitive
  <2>7. StoppedStreams(todo) \subseteq Live(pubs) \ Live(pubs)'
    BY <2>3, <2>5 DEF Kept
  <2>8. \E q : /\ Set(t, q) /\ q.pc \notin {"create", "live"}
               /\ EndingOf(q) \subseteq StoppedStreams(todo)
    BY <1>1, <2>1, AfterStreamsEnding
  <2> QED
    BY <2>1, <2>6, <2>7, <2>8, TaskQuiet
<1> QED
  BY <1>6, <1>8, <1>9, <1>10, <1>11, <1>12, <1>13, <1>14, <1>15, <1>17, <1>18,
     <1>19 DEF Resume

\* The loop of applyMediaMode ends the rows of the streams it removed.
LEMMA ClearRoomsQuiet ==
  ASSUME TypeOK, NEW t \in Task, NEW r \in TaskRecord, ClearRooms(t, r),
         task[t].pc # "create", row' = row, Kept(pubs, pubs'),
         StoppedStreams(r.todo) \subseteq Ending \cup (Live(pubs) \ Live(pubs)'),
         r.pc # "endrow"
  PROVE  Quiet
<1>1. ASSUME NEW ch \in r.rooms,
             Set(t, [r EXCEPT !.pc = "roster", !.ch = ch, !.then = "clear",
                              !.rooms = @ \ {ch}]), bg' = bg
      PROVE  Quiet
  <2> DEFINE q == [r EXCEPT !.pc = "roster", !.ch = ch, !.then = "clear",
                            !.rooms = @ \ {ch}]
  <2>1. q.pc = "roster" /\ q.todo = r.todo /\ Set(t, q)
    BY <1>1 DEF TaskRecord
  <2> HIDE DEF q
  <2>2. EndingOf(q) \subseteq StoppedStreams(r.todo)
    BY <2>1 DEF EndingOf
  <2> QED
    BY <1>1, <2>1, <2>2, TaskQuiet
<1>2. CASE /\ bg' = bg \cup ({"endrow"} \X StoppedStreams(r.todo))
           /\ Finish(t)
  <2>1. task'[t] = IdleTask /\ \A x \in Task \ {t} : task'[x] = task[x]
    BY <1>2 DEF Finish, Set, TypeOK
  <2>2. Ending' \subseteq Ending \cup StoppedStreams(r.todo)
    <3> SUFFICES ASSUME NEW s \in Ending', s \notin StoppedStreams(r.todo)
                 PROVE  s \in Ending
      OBVIOUS
    <3>1. s \in Sess
      BY DEF Ending
    <3>2. CASE <<"endrow", s>> \in bg'
      BY <1>2, <3>2, <3>1 DEF Ending
    <3>3. ASSUME NEW x \in Task, s \in EndingOf(task'[x]) PROVE s \in Ending
      BY <2>1, <3>3, IdleEndsNothing, <3>1 DEF Ending
    <3>4. <<"endrow", s>> \in bg' \/ \E x \in Task : s \in EndingOf(task'[x])
      BY DEF Ending, EndingOf
    <3> QED
      BY <3>2, <3>3, <3>4
  <2> QED
    BY <2>1, <2>2, IdleEndsNothing DEF Quiet
<1> QED
  BY <1>1, <1>2 DEF ClearRooms

LEMMA RosterSentQuiet ==
  ASSUME TypeOK, NEW t \in Task, RosterSent(t)
  PROVE  Quiet
<1> DEFINE r == task[t]
<1>1. /\ r \in TaskRecord /\ r.pc = "roster" /\ row' = row /\ pubs' = pubs
      /\ EndingOf(r) \subseteq Ending
  BY InFlight, OwnEnding DEF RosterSent
<1>2. Kept(pubs, pubs')
  BY <1>1 DEF Kept
<1>3. StoppedStreams(r.todo) \subseteq EndingOf(r)
  BY <1>1 DEF EndingOf, StoppedStreams, TaskRecord, Change
<1>4. CASE r.then = "clear"
  BY <1>1, <1>2, <1>3, <1>4, ClearRoomsQuiet DEF RosterSent
<1>5. CASE r.then = "streams"
  <2> DEFINE q == [r EXCEPT !.pc = "streams"]
  <2>1. q.pc = "streams" /\ q.todo = r.todo /\ Set(t, q) /\ bg' = bg
    BY <1>1, <1>5 DEF RosterSent, TaskRecord
  <2> HIDE DEF q
  <2>2. EndingOf(q) \subseteq EndingOf(r)
    BY <2>1 DEF EndingOf
  <2> QED
    BY <1>1, <1>2, <2>1, <2>2, TaskQuiet
<1>6. CASE r.then \notin {"clear", "streams"}
  BY <1>6, <1>1, <1>2, IdleEndsNothing, TaskQuiet DEF RosterSent, Finish
<1> QED
  BY <1>4, <1>5, <1>6

\* The close handler ends the rows of the streams it stopped.
LEMMA CloseQuiet ==
  ASSUME TypeOK, [Next]_vars, NEW c \in Conn, Close(c)
  PROVE  Quiet
<1>1. task' = task /\ row' = row
  BY DEF Close
<1>2. CASE uid[c] = None
  BY <1>2, <1>1 DEF Close, Quiet, Kept, Ending, EndingOf
<1>3. CASE uid[c] # None
  <2> DEFINE u   == uid[c]
             ps  == LeaveForUser(pubs, "stream", Channel, u, {c})
             one == Changes(pubs, "stream", Channel, u, {c})
             two == Changes(pubs, "music", Channel, u, {c})
  <2>1. u \in User /\ pubs \in Publications
    BY <1>3 DEF TypeOK
  <2>2. ps \in Publications
    BY <2>1, LeaveForUserType
  <2>3. /\ pubs' = LeaveForUser(ps, "music", Channel, u, {c})
        /\ \A s \in Sess : <<"endrow", s>> \in bg'
             => <<"endrow", s>> \in bg \/ s \in StoppedStreams(one \cup two)
    <3> DEFINE left == {ch \in Channel : u # None /\ voice[ch][u] # None
                                                  /\ voice[ch][u].conn = c}
               gone == {voice[ch][u].sess : ch \in left} \cup {x.sess : x \in one \cup two}
    <3>1. bg' = bg \cup ({"roster"} \X left)
                   \cup ({"endrow"} \X StoppedStreams(one \cup two))
                   \cup (IF mode = "sfu" THEN {"close"} \X gone ELSE {})
      BY <1>3 DEF Close
    <3>2. pubs' = LeaveForUser(ps, "music", Channel, u, {c})
      BY <1>3 DEF Close
    <3> HIDE DEF left, gone, one, two
    <3> QED
      BY <3>1, <3>2
  <2>4. StoppedStreams(one \cup two) = StoppedStreams(one)
    <3>1. StoppedStreams(two) = {}
      BY MusicStopsNoStream
    <3> HIDE DEF one, two
    <3> QED
      BY <3>1 DEF StoppedStreams
  <2>5. StoppedStreams(one) \subseteq Live(pubs) \ Live(ps)
    BY <2>1, StoppedAreGone
  <2>6. Kept(pubs, ps)
    BY <2>1, LeaveForUserKept
  <2> HIDE DEF ps, one, two
  <2>7. Kept(ps, pubs')
    BY <2>2, <2>3, LeaveForUserKept
  <2>8. Kept(pubs, pubs')
    BY <2>6, <2>7, KeptTransitive
  <2>9. Ending' \subseteq Ending \cup StoppedStreams(one)
    BY <1>1, <2>3, <2>4 DEF Ending, EndingOf
  <2>10. StoppedStreams(one) \subseteq Live(pubs) \ Live(pubs)'
    BY <2>5, <2>7 DEF Kept
  <2> QED
    BY <1>1, <2>8, <2>9, <2>10 DEF Quiet
<1> QED
  BY <1>2, <1>3

LEMMA ModeChangedQuiet ==
  ASSUME TypeOK, NEW t \in Task, NEW m \in Modes, ModeChanged(t, m)
  PROVE  Quiet
<1> DEFINE todo == {HostChange(pubs, p) :
                      p \in {q \in Live(pubs) : pubs[q].kind = "stream"}}
           rooms == {ch \in Channel : Occupants(voice[ch]) # {}}
           r == [IdleTask EXCEPT !.cmd = "mode", !.todo = todo, !.rooms = rooms]
<1>1. /\ ClearRooms(t, r) /\ task[t].pc = "idle" /\ row' = row
      /\ pubs' = [s \in Sess |-> None]
  BY DEF ModeChanged
<1>2. r \in TaskRecord
  <2>1. todo \in SUBSET Change
    BY ChangeTypes DEF TypeOK, Live
  <2> DEFINE q1 == [IdleTask EXCEPT !.cmd = "mode"]
             q2 == [q1 EXCEPT !.todo = todo]
  <2>2. q1 \in TaskRecord
    BY IdleTyped, UpdateTyped DEF AllCommands
  <2> HIDE DEF q1, todo
  <2>3. q2 \in TaskRecord
    BY <2>1, <2>2, UpdateTyped
  <2> HIDE DEF q2
  <2>4. [q2 EXCEPT !.rooms = rooms] \in TaskRecord
    BY <2>3, UpdateTyped
  <2> QED
    BY <2>4 DEF q1, q2
<1>3. r.todo = todo /\ r.pc = "idle"
  BY DEF IdleTask
<1>4. Live(pubs)' = {}
  BY <1>1 DEF Live
<1>5. StoppedStreams(todo) \subseteq Live(pubs)
  BY DEF StoppedStreams, HostChange
<1>6. Kept(pubs, pubs')
  BY <1>4 DEF Kept
<1> HIDE DEF r, todo
<1> QED
  BY <1>1, <1>2, <1>3, <1>4, <1>5, <1>6, ClearRoomsQuiet

LEMMA BackgroundQuiet ==
  ASSUME TypeOK, Background
  PROVE  Quiet
<1>1. task' = task /\ pubs' = pubs /\ bg' \subseteq bg
  BY DEF Background, RosterSentLater, MediaClosedLater, RowEndedLater
<1>2. \A s \in Sess : \/ row'[s] = row[s]
                      \/ row[s] = "active" /\ row'[s] = "ended" /\ s \in Ending
  <2>1. CASE row' = row
    BY <2>1
  <2>2. ASSUME NEW x \in Sess, RowEndedLater(x)
        PROVE  \A s \in Sess : \/ row'[s] = row[s]
                               \/ row[s] = "active" /\ row'[s] = "ended" /\ s \in Ending
    BY <2>2 DEF RowEndedLater, Ending, EndRow
  <2>3. row' = row \/ \E x \in Sess : RowEndedLater(x)
    BY DEF Background, RosterSentLater, MediaClosedLater
  <2> QED
    BY <2>1, <2>2, <2>3
<1>3. Ending' \subseteq Ending
  BY <1>1 DEF Ending, EndingOf
<1> QED
  BY <1>1, <1>2, <1>3 DEF Quiet, Kept

LEMMA CrashQuiet ==
  ASSUME TypeOK, Crash
  PROVE  Quiet
BY IdleEndsNothing DEF Crash, Live, Ending, EndingOf, Quiet, Kept

-----------------------------------------------------------------------------
(* The two steps that are not quiet.                                       *)

\* start() publishes under a fresh session and goes on to create its row.
LEMMA StartedRowInv ==
  ASSUME TypeOK, RowInv, [Next]_vars, NEW t \in Task, Started(t)
  PROVE  RowInv'
<1> DEFINE r == task[t]
           u == uid[r.conn]
<1>1. r \in TaskRecord /\ r.pc = "media" /\ EndingOf(r) \subseteq Ending
  BY InFlight, OwnEnding DEF Started
<1>2. bg' = bg /\ row' = row
  BY DEF Started
<1>3. PICK s \in Fresh :
        /\ media' = [media EXCEPT ![s] = r.mode]
        /\ IF Hosted(pubs, r.kind, r.ch, u) # {}
           THEN Finish(t) /\ UNCHANGED pubs
           ELSE /\ pubs' = Publish(pubs, s, r.kind, r.ch, u, r.conn)
                /\ IF r.kind = "music" THEN Finish(t)
                   ELSE Set(t, [r EXCEPT !.pc = "create", !.pub = s])
  BY DEF Started
<1>4. CASE Finish(t) /\ UNCHANGED pubs
  BY <1>1, <1>2, <1>4, IdleEndsNothing, TaskQuiet, QuietRowInv DEF Finish, Kept
<1>5. CASE pubs' = Publish(pubs, s, r.kind, r.ch, u, r.conn)
           /\ (IF r.kind = "music" THEN Finish(t)
               ELSE Set(t, [r EXCEPT !.pc = "create", !.pub = s]))
  <2> DEFINE q == IF r.kind = "music" THEN IdleTask
                  ELSE [r EXCEPT !.pc = "create", !.pub = s]
  <2>1. /\ s \in Sess /\ media[s] = "fresh" /\ pubs \in Publications
        /\ r.mode \in {"p2p", "sfu"}
    BY <1>1 DEF Fresh, TypeOK, TaskRecord
  <2>2. \A x \in Sess : media[x] # "fresh" => media'[x] # "fresh"
    BY FreshShrinks
  <2>3. media'[s] # "fresh"
    BY <1>3, <2>1 DEF TypeOK
  <2>4. /\ Live(pubs)' = Live(pubs) \cup {s} /\ pubs'[s].kind = r.kind
        /\ \A p \in Sess \ {s} : pubs'[p] = pubs[p]
    <3>1. /\ pubs' \in [Sess -> Publication \cup {None}]
          /\ pubs'[s] = [kind |-> r.kind, ch |-> r.ch, host |-> u,
                         conn |-> r.conn, viewers |-> [v \in User |-> None]]
          /\ \A p \in Sess \ {s} : pubs'[p] = pubs[p]
      BY InFlight, <1>5, <2>1, PublishType DEF Started, WellFormed, Publish, Publications
    <3>2. pubs'[s] # None
      BY InFlight, <3>1, NoneIsNoRecord DEF Started, WellFormed, Publication
    <3> HIDE DEF r, u
    <3> QED
      BY <2>1, <3>1, <3>2 DEF Live
  <2>5. Set(t, q) /\ EndingOf(q) \subseteq Ending
    <3>1. CASE r.kind = "music"
      BY <1>5, <3>1, IdleEndsNothing DEF Finish
    <3>2. CASE r.kind # "music"
      <4>1. q.pc = "create" /\ q.todo = r.todo /\ Set(t, q)
        BY <1>1, <1>5, <3>2 DEF TaskRecord
      <4> HIDE DEF q
      <4>2. EndingOf(q) \subseteq EndingOf(r)
        BY <4>1 DEF EndingOf
      <4> QED
        BY <1>1, <4>1, <4>2
    <3> QED
      BY <3>1, <3>2
  <2>6. task'[t] = q /\ \A x \in Task \ {t} : task'[x] = task[x]
    BY <2>5 DEF Set, TypeOK
  <2>7. q.pc \in {"create", "live"} => q.pc = "create" /\ q.pub = s
    BY <1>1 DEF IdleTask, TaskRecord
  <2>8. r.kind # "music" => q.pc = "create" /\ q.pub = s
    BY <1>1 DEF TaskRecord
  <2> HIDE DEF q
  <2>9. Ending' \subseteq Ending /\ Ending \subseteq Sess
    BY <1>2, <2>5, EndingSet DEF Ending
  <2>10. row[s] = "absent" /\ s \notin Ending
    BY <2>1, <2>9 DEF RowInv
  <2>11. RowsFollowStreams'
    <3> SUFFICES ASSUME NEW p \in Live(pubs)', pubs'[p].kind = "stream"
                 PROVE  \/ row'[p] = "active"
                        \/ \E x \in Task : /\ task'[x].pc = "create"
                                           /\ task'[x].pub = p /\ row'[p] = "absent"
      BY DEF RowsFollowStreams
    <3>1. CASE p = s
      BY <1>2, <2>4, <2>6, <2>8, <2>10, <3>1
    <3>2. CASE p # s
      BY <2>4, <3>2, <1>1, <1>2, <2>6 DEF Live, RowInv, RowsFollowStreams
    <3> QED
      BY <3>1, <3>2
  <2>12. \A p \in Live(pubs)' : media'[p] # "fresh"
    BY <2>2, <2>3, <2>4 DEF RowInv, Live
  <2>13. \A x \in Task : task'[x].pc \in {"create", "live"}
                           => media'[task'[x].pub] # "fresh"
    <3> SUFFICES ASSUME NEW x \in Task, task'[x].pc \in {"create", "live"}
                 PROVE  media'[task'[x].pub] # "fresh"
      OBVIOUS
    <3>1. CASE x = t
      BY <2>3, <2>6, <2>7, <3>1
    <3>2. CASE x # t
      BY <2>6, <3>2, InFlight, <2>2 DEF WellFormed, RowInv
    <3> QED
      BY <3>1, <3>2
  <2>14. \A x \in Sess : row'[x] # "absent" => media'[x] # "fresh"
    BY <1>2, <2>2 DEF RowInv
  <2>15. \A x \in Ending' : media'[x] # "fresh" /\ x \notin Live(pubs)'
    BY <2>2, <2>4, <2>9, <2>10 DEF RowInv
  <2> QED
    BY <2>11, <2>12, <2>13, <2>14, <2>15 DEF RowInv
<1> QED
  BY <1>3, <1>4, <1>5

\* streamSessions.create returns.
LEMMA RowCreatedRowInv ==
  ASSUME TypeOK, RowInv, [Next]_vars, NEW t \in Task, RowCreated(t)
  PROVE  RowInv'
<1> DEFINE r == task[t]
           q == [r EXCEPT !.pc = "live"]
<1>1. /\ r \in TaskRecord /\ r.pc = "create" /\ r.pub \in Sess
      /\ EndingOf(r) \subseteq Ending
  BY InFlight, OwnEnding DEF RowCreated, WellFormed
<1>2. /\ bg' = bg /\ pubs' = pubs /\ media' = media
      /\ row' = [row EXCEPT ![r.pub] = "active"]
  BY DEF RowCreated
<1>3. q.pc = "live" /\ q.pub = r.pub /\ q.todo = r.todo /\ Set(t, q)
  BY <1>1 DEF RowCreated, TaskRecord
<1> HIDE DEF q
<1>4. task'[t] = q /\ \A x \in Task \ {t} : task'[x] = task[x]
  BY <1>3 DEF Set, TypeOK
<1>5. Ending' \subseteq Ending
  BY <1>3, <1>1, <1>2, EndingSet DEF EndingOf
<1>6. row'[r.pub] = "active" /\ \A s \in Sess \ {r.pub} : row'[s] = row[s]
  BY <1>1, <1>2 DEF TypeOK
<1>7. RowsFollowStreams'
  <2> SUFFICES ASSUME NEW p \in Live(pubs), pubs[p].kind = "stream"
               PROVE  \/ row'[p] = "active"
                      \/ \E x \in Task : /\ task'[x].pc = "create"
                                         /\ task'[x].pub = p /\ row'[p] = "absent"
    BY <1>2 DEF RowsFollowStreams, Live
  <2>1. CASE p = r.pub
    BY <1>6, <2>1
  <2>2. CASE p # r.pub
    BY <1>6, <2>2, <1>4 DEF Live, RowInv, RowsFollowStreams
  <2> QED
    BY <2>1, <2>2
<1>8. \A x \in Task : task'[x].pc \in {"create", "live"}
                        => media'[task'[x].pub] # "fresh"
  BY <1>1, <1>2, <1>3, <1>4 DEF RowInv
<1>9. \A s \in Sess : row'[s] # "absent" => media'[s] # "fresh"
  BY <1>1, <1>2, <1>6 DEF RowInv
<1> QED
  BY <1>2, <1>5, <1>7, <1>8, <1>9 DEF RowInv, Live

LEMMA RowInvStep ==
  ASSUME TypeOK, RowInv, [Next]_vars
  PROVE  RowInv'
BY StartedRowInv, RowCreatedRowInv, QuietRowInv, ResumeQuiet, RosterSentQuiet, CloseQuiet,
   CommandQuiet, ModeChangedQuiet, BackgroundQuiet, CrashQuiet DEF vars, RowInv, RowsFollowStreams,
   Live, Ending, EndingOf, Attach, Quiet, Kept, Next

\* While a stream is live its row is active, but for the time its start is
\* still creating the row: no leave, stop, close or mode change, however late
\* its database call, ends the row of a stream that is still published.
THEOREM RowsFollowStreamsInvariant == Spec => []RowsFollowStreams
<1>1. Init => RowInv
  <2> SUFFICES ASSUME Init PROVE RowInv
    OBVIOUS
  <2>1. Live(pubs) = {} /\ Ending = {}
    BY IdleEndsNothing DEF Init, Live, Ending, EndingOf
  <2> QED
    BY <2>1, IdleEndsNothing DEF Init, RowInv, RowsFollowStreams
<1>2. TypeOK /\ RowInv /\ [Next]_vars => RowInv'
  BY RowInvStep
<1>3. RowInv => RowsFollowStreams
  BY DEF RowInv
<1> QED
  BY <1>1, <1>2, <1>3, TypeInvariant, PTL DEF Spec

-----------------------------------------------------------------------------
(* Media sessions and voice records have one owner: every session a        *)
(* participant, a publication or a viewer refers to is referred to by that *)
(* record only, no operation in flight is about to close it, and a voice   *)
(* record goes only by what its own user or connection does.               *)

(* The places that may hold a session, and what they hold in the rooms vo  *)
(* and publications ps: a participant's, a host's, a viewer's.             *)
Slot == ({"voice"} \X Channel \X User) \cup ({"host", "viewer"} \X Sess \X User)

HeldIn(vo, ps, x) ==
  CASE x[1] = "voice" ->
         IF vo[x[2]][x[3]] = None THEN None ELSE vo[x[2]][x[3]].sess
    [] x[1] = "host" ->
         IF ps[x[2]] # None /\ ps[x[2]].host = x[3] THEN x[2] ELSE None
    [] OTHER ->
         IF ps[x[2]] = None \/ ps[x[2]].viewers[x[3]] = None THEN None
         ELSE ps[x[2]].viewers[x[3]].sess
Held(x) == HeldIn(voice, pubs, x)

(* The sessions a task, or an operation of the background, will close.     *)
Sessions(todo) == {x.sess : x \in todo}
DoomedOf(r) ==
  {s \in Sess : \/ r.pc \in {"vclose", "endrow", "endmedia"} /\ r.cur = s
                \/ s \in Sessions(r.todo)}
Doomed ==
  {s \in Sess : <<"close", s>> \in bg \/ \E t \in Task : s \in DoomedOf(task[t])}

(* The inductive invariant: sessions are drawn fresh, so no two places     *)
(* hold one; a session about to be closed is held nowhere.                 *)
SessInv ==
  /\ \A x, y \in Slot : Held(x) # None /\ Held(x) = Held(y) => x = y
  /\ \A x \in Slot : Held(x) # None => media[Held(x)] # "fresh"
  /\ \A s \in Doomed : media[s] # "fresh" /\ \A x \in Slot : Held(x) # s

(* What is held in (vo, ps) is all that is held in (vo2, ps2), and what of *)
(* it is gone there.                                                       *)
Less(vo, ps, vo2, ps2) ==
  \A x \in Slot : HeldIn(vo2, ps2, x) \in {HeldIn(vo, ps, x), None}
Lost(vo, ps, vo2, ps2) ==
  {s \in Sess : \E x \in Slot : HeldIn(vo, ps, x) = s /\ HeldIn(vo2, ps2, x) = None}

\* A step that only drops records, and closes later only what it dropped.
Loses == /\ Less(voice, pubs, voice', pubs')
         /\ Doomed' \subseteq Doomed \cup Lost(voice, pubs, voice', pubs')

\* A step that adds one record, with a session drawn now.
Gains == \E s \in Fresh, y \in Slot :
           /\ media'[s] # "fresh"
           /\ Held(y)' = s
           /\ \A x \in Slot \ {y} : Held(x)' = Held(x)
           /\ Doomed' \subseteq Doomed

LEMMA HeldTyped ==
  ASSUME TypeOK, NEW x \in Slot
  PROVE  Held(x) \in Sess \cup {None}
BY DEF Held, HeldIn, TypeOK, Room, Participant, Publications, Publication, Viewer, Slot

LEMMA LosesSessInv ==
  ASSUME TypeOK, SessInv, [Next]_vars, Loses
  PROVE  SessInv'
BY FreshShrinks, HeldTyped, NoneIsNew DEF Loses, Less, Held, SessInv, Doomed, Lost

LEMMA GainsSessInv ==
  ASSUME TypeOK, SessInv, [Next]_vars, Gains
  PROVE  SessInv'
<1>1. PICK s \in Fresh, y \in Slot :
        /\ media'[s] # "fresh" /\ Held(y)' = s
        /\ \A x \in Slot \ {y} : Held(x)' = Held(x)
        /\ Doomed' \subseteq Doomed
  BY DEF Gains
<1>2. s \in Sess /\ media[s] = "fresh" /\ s # None
  BY NoneIsNew DEF Fresh
<1>3. \A z \in Sess : media[z] # "fresh" => media'[z] # "fresh"
  BY FreshShrinks
<1>4. \A x \in Slot : Held(x) # None => Held(x) \in Sess /\ Held(x) # s
  BY <1>2, HeldTyped DEF SessInv
<1>5. \A x, z \in Slot : Held(x)' # None /\ Held(x)' = Held(z)' => x = z
  BY <1>1, <1>2, <1>4 DEF SessInv
<1>6. \A x \in Slot : Held(x)' # None => media'[Held(x)'] # "fresh"
  BY <1>1, <1>3, <1>4 DEF SessInv
<1>7. \A z \in Doomed : z \in Sess /\ z # s
  BY <1>2 DEF SessInv, Doomed
<1>8. \A z \in Doomed' : media'[z] # "fresh" /\ \A x \in Slot : Held(x)' # z
  BY <1>1, <1>3, <1>7 DEF SessInv
<1> QED
  BY <1>5, <1>6, <1>8 DEF SessInv

-----------------------------------------------------------------------------
(* What is less, and what is lost, from one value of the rooms and         *)
(* publications to another.                                                *)

LEMMA LessSame ==
  ASSUME NEW vo, NEW ps
  PROVE  Less(vo, ps, vo, ps)
BY DEF Less

LEMMA LessTransitive ==
  ASSUME NEW vo1, NEW ps1, NEW vo2, NEW ps2, NEW vo3, NEW ps3,
         Less(vo1, ps1, vo2, ps2), Less(vo2, ps2, vo3, ps3)
  PROVE  /\ Less(vo1, ps1, vo3, ps3)
         /\ Lost(vo1, ps1, vo2, ps2) \subseteq Lost(vo1, ps1, vo3, ps3)
         /\ Lost(vo2, ps2, vo3, ps3) \subseteq Lost(vo1, ps1, vo3, ps3)
BY NoneIsNew DEF Less, Lost

\* Rooms whose records go or keep their session.
LEMMA RoomsLess ==
  ASSUME NEW vo, NEW vo2, NEW ps,
         \A ch \in Channel, u \in User :
           vo2[ch][u] = None \/ (vo[ch][u] # None /\ vo2[ch][u].sess = vo[ch][u].sess)
  PROVE  Less(vo, ps, vo2, ps)
<1> SUFFICES ASSUME NEW x \in Slot
             PROVE  HeldIn(vo2, ps, x) \in {HeldIn(vo, ps, x), None}
  BY DEF Less
<1>1. CASE x \in {"voice"} \X Channel \X User
  BY <1>1 DEF HeldIn
<1>2. CASE x \in {"host", "viewer"} \X Sess \X User
  BY <1>2 DEF HeldIn
<1> QED
  BY <1>1, <1>2 DEF Slot

\* Publications that go, or keep their host and keep or drop viewers.
LEMMA PubsLess ==
  ASSUME NEW vo, NEW ps, NEW qs,
         \A p \in Sess : qs[p] # None =>
           /\ ps[p] # None /\ qs[p].host = ps[p].host
           /\ \A u \in User : qs[p].viewers[u] \in {ps[p].viewers[u], None}
  PROVE  Less(vo, ps, vo, qs)
<1> SUFFICES ASSUME NEW x \in Slot
             PROVE  HeldIn(vo, qs, x) \in {HeldIn(vo, ps, x), None}
  BY SMTT(30) DEF Less
<1>1. CASE x \in {"voice"} \X Channel \X User
  BY <1>1 DEF HeldIn
<1>2. CASE x \in {"host", "viewer"} \X Sess \X User
  BY <1>2 DEF HeldIn
<1> QED
  BY <1>1, <1>2 DEF Slot

LEMMA RecordLost ==
  ASSUME NEW vo, NEW ps, NEW vo2, NEW ps2
  PROVE  /\ \A ch \in Channel, u \in User :
              /\ vo[ch][u] # None /\ vo2[ch][u] = None /\ vo[ch][u].sess \in Sess
              => vo[ch][u].sess \in Lost(vo, ps, vo2, ps2)
         /\ \A p \in Sess :
              /\ ps[p] # None /\ ps2[p] = None /\ ps[p].host \in User
              => p \in Lost(vo, ps, vo2, ps2)
         /\ \A p \in Sess, u \in User :
              /\ ps[p] # None /\ ps[p].viewers[u] # None
              /\ ps[p].viewers[u].sess \in Sess
              /\ ps2[p] = None \/ ps2[p].viewers[u] = None
              => ps[p].viewers[u].sess \in Lost(vo, ps, vo2, ps2)
<1>1. ASSUME NEW ch \in Channel, NEW u \in User,
             vo[ch][u] # None, vo2[ch][u] = None, vo[ch][u].sess \in Sess
      PROVE  vo[ch][u].sess \in Lost(vo, ps, vo2, ps2)
  <2> DEFINE x == <<"voice", ch, u>>
  <2>1. x \in Slot
    BY DEF Slot
  <2>2. HeldIn(vo, ps, x) = vo[ch][u].sess /\ HeldIn(vo2, ps2, x) = None
    BY <1>1 DEF HeldIn
  <2> QED
    BY <1>1, <2>1, <2>2 DEF Lost
<1>2. ASSUME NEW p \in Sess, ps[p] # None, ps2[p] = None, ps[p].host \in User
      PROVE  p \in Lost(vo, ps, vo2, ps2)
  <2> DEFINE x == <<"host", p, ps[p].host>>
  <2>1. x \in Slot
    BY <1>2 DEF Slot
  <2>2. HeldIn(vo, ps, x) = p /\ HeldIn(vo2, ps2, x) = None
    BY <1>2 DEF HeldIn
  <2> QED
    BY <1>2, <2>1, <2>2 DEF Lost
<1>3. ASSUME NEW p \in Sess, NEW u \in User, ps[p] # None,
             ps[p].viewers[u] # None, ps[p].viewers[u].sess \in Sess,
             ps2[p] = None \/ ps2[p].viewers[u] = None
      PROVE  ps[p].viewers[u].sess \in Lost(vo, ps, vo2, ps2)
  <2> DEFINE x == <<"viewer", p, u>>
  <2>1. x \in Slot
    BY DEF Slot
  <2>2. /\ HeldIn(vo, ps, x) = ps[p].viewers[u].sess
        /\ HeldIn(vo2, ps2, x) = None
    BY <1>3 DEF HeldIn
  <2> QED
    BY <1>3, <2>1, <2>2 DEF Lost
<1> QED
  BY <1>1, <1>2, <1>3

\* leaveRoomForUser drops records, and reports the sessions of just those.
LEMMA LeaveForUserLoses ==
  ASSUME NEW vo, NEW ps \in Publications, NEW k, NEW chs, NEW u \in User, NEW cs
  PROVE  /\ Less(vo, ps, vo, LeaveForUser(ps, k, chs, u, cs))
         /\ Sessions(Changes(ps, k, chs, u, cs))
              \subseteq Lost(vo, ps, vo, LeaveForUser(ps, k, chs, u, cs))
<1> DEFINE qs == LeaveForUser(ps, k, chs, u, cs)
<1>1. \A p \in Stopped(ps, k, chs, u, cs) :
        /\ p \in Sess /\ qs[p] = None /\ ps[p] # None /\ ps[p].host \in User
        /\ p \notin Unviewed(ps, k, chs, u, cs)
  BY DEF LeaveForUser, Stopped, Unviewed, Live
<1>2. \A p \in Unviewed(ps, k, chs, u, cs) :
        /\ p \in Sess /\ ps[p] \in Publication /\ ps[p] # None
        /\ qs[p] = [ps[p] EXCEPT !.viewers[u] = None]
        /\ ps[p].viewers[u] # None
  BY DEF LeaveForUser, Unviewed, Live, Publications
<1>3. \A p \in Sess : \/ qs[p] = ps[p]
                      \/ p \in Stopped(ps, k, chs, u, cs)
                      \/ p \in Unviewed(ps, k, chs, u, cs)
  BY DEF LeaveForUser
<1> HIDE DEF qs
<1>4. ASSUME NEW p \in Unviewed(ps, k, chs, u, cs)
      PROVE  /\ qs[p].host = ps[p].host /\ qs[p].viewers[u] = None
             /\ \A v \in User \ {u} : qs[p].viewers[v] = ps[p].viewers[v]
             /\ ps[p].viewers[u].sess \in Sess
  <2>1. ps[p] \in Publication /\ qs[p] = [ps[p] EXCEPT !.viewers[u] = None]
        /\ ps[p].viewers[u] # None
    BY <1>2
  <2> QED
    BY <2>1 DEF Publication, Viewer
<1>5. Less(vo, ps, vo, qs)
  <2>1. \A p \in Sess : qs[p] # None =>
           /\ ps[p] # None /\ qs[p].host = ps[p].host
           /\ \A v \in User : qs[p].viewers[v] \in {ps[p].viewers[v], None}
    BY <1>1, <1>2, <1>3, <1>4
  <2> QED
    BY <2>1, PubsLess
<1>6. Sessions(Changes(ps, k, chs, u, cs)) \subseteq Lost(vo, ps, vo, qs)
  <2>1. ASSUME NEW p \in Stopped(ps, k, chs, u, cs)
        PROVE  HostChange(ps, p).sess \in Lost(vo, ps, vo, qs)
    BY <1>1, RecordLost DEF HostChange
  <2>2. ASSUME NEW p \in Unviewed(ps, k, chs, u, cs)
        PROVE  ViewerChange(ps, p, u).sess \in Lost(vo, ps, vo, qs)
    <3>1. ps[p].viewers[u].sess \in Lost(vo, ps, vo, qs)
      BY <1>2, <1>4, RecordLost
    <3> QED
      BY <3>1 DEF ViewerChange
  <2> QED
    BY <2>1, <2>2 DEF Sessions, Changes
<1> QED
  BY <1>5, <1>6 DEF qs

-----------------------------------------------------------------------------
(* Which sessions the continuation of a command will close.                *)

\* A step that sets one task.
LEMMA DoomedSet ==
  ASSUME TypeOK, NEW t \in Task, NEW r, Set(t, r), bg' = bg
  PROVE  Doomed' \subseteq Doomed \cup DoomedOf(r)
<1>1. task'[t] = r /\ \A x \in Task \ {t} : task'[x] = task[x]
  BY DEF Set, TypeOK
<1> SUFFICES ASSUME NEW s \in Doomed', s \notin DoomedOf(r)
             PROVE  s \in Doomed
  OBVIOUS
<1>2. s \in Sess
  BY DEF Doomed
<1>3. CASE <<"close", s>> \in bg'
  BY <1>2, <1>3 DEF Doomed
<1>4. CASE <<"close", s>> \notin bg'
  <2>1. PICK x \in Task : s \in DoomedOf(task'[x])
    BY <1>4 DEF Doomed, DoomedOf
  <2>2. x # t /\ task'[x] = task[x]
    BY <1>1, <2>1
  <2> QED
    BY <1>2, <2>1, <2>2 DEF Doomed
<1> QED
  BY <1>3, <1>4

LEMMA OwnDoomed ==
  ASSUME NEW t \in Task
  PROVE  DoomedOf(task[t]) \subseteq Doomed
BY DEF Doomed, DoomedOf

LEMMA TaskLoses ==
  ASSUME TypeOK, NEW t \in Task, NEW q, Set(t, q), bg' = bg,
         Less(voice, pubs, voice', pubs'),
         DoomedOf(q) \subseteq Doomed \cup Lost(voice, pubs, voice', pubs')
  PROVE  Loses
BY DoomedSet DEF Loses

LEMMA IdleDoomsNothing ==
  DoomedOf(IdleTask) = {}
BY DEF DoomedOf, IdleTask, Sessions

LEMMA AwaitChangeDooms ==
  ASSUME NEW t, NEW r \in TaskRecord, NEW ps, NEW todo,
         AwaitChange(t, r, ps, todo)
  PROVE  /\ pubs' = ps
         /\ \E q : Set(t, q) /\ DoomedOf(q) \subseteq Sessions(todo)
<1>1. PICK x \in Awaited(todo) :
        /\ Set(t, [r EXCEPT
                     !.pc = IF x.kind = "stream" /\ x.role = "host"
                            THEN "endrow" ELSE "endmedia",
                     !.cur = x.sess, !.todo = todo \ {x}])
        /\ pubs' = ps
  BY DEF AwaitChange
<1> DEFINE q == [r EXCEPT !.pc = IF x.kind = "stream" /\ x.role = "host"
                                 THEN "endrow" ELSE "endmedia",
                          !.cur = x.sess, !.todo = todo \ {x}]
<1>2. q.cur = x.sess /\ q.todo = todo \ {x}
  BY DEF TaskRecord
<1>3. Set(t, q)
  BY <1>1
<1> HIDE DEF q
<1>4. DoomedOf(q) \subseteq Sessions(todo)
  BY <1>2 DEF DoomedOf, Sessions, Awaited
<1> QED
  BY <1>1, <1>3, <1>4

LEMMA AfterMusicDooms ==
  ASSUME NEW t, NEW r \in TaskRecord, NEW ps, NEW todo, AfterMusic(t, r, ps, todo)
  PROVE  /\ pubs' = ps
         /\ \E q : Set(t, q) /\ DoomedOf(q) \subseteq Sessions(todo)
<1>1. CASE AwaitChange(t, [r EXCEPT !.then = "end"], ps, todo)
  <2>1. [r EXCEPT !.then = "end"] \in TaskRecord
    BY UpdateTyped
  <2> QED
    BY <1>1, <2>1, AwaitChangeDooms
<1>2. CASE pubs' = ps /\ Finish(t)
  BY <1>2, IdleDoomsNothing DEF Finish
<1>3. CASE /\ pubs' = ps
           /\ Set(t, [IdleTask EXCEPT !.pc = "media", !.cmd = "join",
                        !.conn = r.conn, !.goal = r.goal, !.mode = mode])
  <2> DEFINE q == [IdleTask EXCEPT !.pc = "media", !.cmd = "join",
                     !.conn = r.conn, !.goal = r.goal, !.mode = mode]
  <2>1. q.pc = "media" /\ q.todo = {}
    BY DEF IdleTask
  <2>2. Set(t, q)
    BY <1>3
  <2> HIDE DEF q
  <2>3. DoomedOf(q) = {}
    BY <2>1 DEF DoomedOf, Sessions
  <2> QED
    BY <1>3, <2>2, <2>3
<1> QED
  BY <1>1, <1>2, <1>3 DEF AfterMusic

LEMMA AfterStreamsDooms ==
  ASSUME NEW t, NEW r \in TaskRecord, NEW ps \in Publications, NEW todo,
         uid[r.conn] \in User, AfterStreams(t, r, ps, todo)
  PROVE  /\ Less(voice, ps, voice, pubs')
         /\ \E q : /\ Set(t, q)
                   /\ DoomedOf(q) \subseteq Sessions(todo) \cup Lost(voice, ps, voice, pubs')
<1>1. CASE AwaitChange(t, [r EXCEPT !.then = "music"], ps, todo)
  <2>1. [r EXCEPT !.then = "music"] \in TaskRecord
    BY UpdateTyped
  <2>2. pubs' = ps /\ \E q : Set(t, q) /\ DoomedOf(q) \subseteq Sessions(todo)
    BY <1>1, <2>1, AwaitChangeDooms
  <2> QED
    BY <2>2, LessSame
<1>2. CASE AfterMusic(t, r, LeaveForUser(ps, "music", {r.ch}, uid[r.conn], Conn),
                      Changes(ps, "music", {r.ch}, uid[r.conn], Conn))
  <2> DEFINE u == uid[r.conn]
             qs == LeaveForUser(ps, "music", {r.ch}, u, Conn)
             ch == Changes(ps, "music", {r.ch}, u, Conn)
  <2>1. /\ Less(voice, ps, voice, qs)
        /\ Sessions(ch) \subseteq Lost(voice, ps, voice, qs)
    BY LeaveForUserLoses
  <2>2. AfterMusic(t, r, qs, ch)
    BY <1>2
  <2> HIDE DEF u, qs, ch
  <2>3. pubs' = qs /\ \E q : Set(t, q) /\ DoomedOf(q) \subseteq Sessions(ch)
    BY <2>2, AfterMusicDooms
  <2> QED
    BY <2>1, <2>3
<1> QED
  BY <1>1, <1>2 DEF AfterStreams

\* The first part of handleVoiceLeave closes the session of the record it drops.
LEMMA LeaveRoomLoses ==
  ASSUME TypeOK, NEW t \in Task, NEW r \in TaskRecord, NEW leaver,
         NEW u \in User, NEW ch \in Channel, LeaveRoom(t, r, leaver, u, ch),
         DoomedOf(r) \subseteq Doomed, pubs' = pubs, bg' = bg
  PROVE  Loses
<1> DEFINE p  == voice[ch][u]
           q1 == [r EXCEPT !.pc = "vclose", !.ch = ch, !.then = "streams",
                           !.cur = p.sess, !.rem = Unseat(voice[ch], u)]
           q2 == [r EXCEPT !.pc = "roster", !.ch = ch, !.then = "streams"]
<1>1. voice' = [voice EXCEPT ![ch] = Unseat(voice[ch], u)] /\ voice \in [Channel -> Room]
  BY DEF LeaveRoom, TypeOK
<1>2. \A d \in Channel, v \in User :
        voice'[d][v] = IF d = ch /\ v = u THEN None ELSE voice[d][v]
  BY <1>1 DEF Unseat, Room
<1>3. Less(voice, pubs, voice', pubs')
  BY <1>2, RoomsLess
<1>4. ASSUME p # None
      PROVE  p.sess \in Lost(voice, pubs, voice', pubs')
  <2>1. p.sess \in Sess
    BY <1>1, <1>4 DEF Room, Participant
  <2> QED
    BY <1>2, <1>4, <2>1, RecordLost
<1>5. \/ Set(t, q1) /\ p # None
      \/ Set(t, q2)
  BY DEF LeaveRoom
<1>6. /\ q1.pc = "vclose" /\ q1.cur = p.sess /\ q1.todo = r.todo
      /\ q2.pc = "roster" /\ q2.todo = r.todo
  BY DEF TaskRecord
<1> HIDE DEF q1, q2, p
<1>7. /\ DoomedOf(q1) \subseteq DoomedOf(r) \cup {p.sess}
      /\ DoomedOf(q2) \subseteq DoomedOf(r)
  BY <1>6 DEF DoomedOf
<1> QED
  BY <1>3, <1>4, <1>5, <1>7, TaskLoses

-----------------------------------------------------------------------------
(* Every step loses records or keeps them, but for the ends of a join, a   *)
(* start and a watch.                                                      *)

\* A step that keeps rooms and publications and sets one task.
LEMMA SameLoses ==
  ASSUME TypeOK, NEW t \in Task, NEW q, Set(t, q), DoomedOf(q) \subseteq Doomed,
         UNCHANGED <<voice, pubs, bg>>
  PROVE  Loses
BY LessSame, TaskLoses

LEMMA CommandLoses ==
  ASSUME TypeOK, NEW c \in Conn, NEW t \in Task, Command(c, t)
  PROVE  Loses
<1>1. bg' = bg /\ pubs \in Publications
  BY ZenonT(30) DEF Command, SendAuthenticate, SendJoin, SendLeave, Speak, SendStart, SendStop,
     SendWatch, SendUnwatch, SendReconnect, TypeOK
<1> DEFINE Calm(q) == q.pc \notin {"vclose", "endrow", "endmedia"} /\ q.todo = {}
<1>2. \A q : Calm(q) => DoomedOf(q) = {}
  BY DEF DoomedOf, Sessions
<1>3. \A ch, k, p :
        /\ Calm([IdleTask EXCEPT !.pc = "auth", !.cmd = "auth", !.conn = c])
        /\ Calm([IdleTask EXCEPT !.pc = "access", !.cmd = "join",
                                 !.conn = c, !.goal = ch])
        /\ Calm([IdleTask EXCEPT !.pc = "roster", !.cmd = "speak",
                                 !.conn = c, !.ch = ch])
        /\ Calm([IdleTask EXCEPT !.pc = "access", !.cmd = "start", !.conn = c,
                                 !.ch = ch, !.kind = k])
        /\ Calm([IdleTask EXCEPT !.pc = "access", !.cmd = "watch", !.conn = c,
                   !.ch = pubs[p].ch, !.kind = pubs[p].kind, !.pub = p])
  BY DEF IdleTask
<1>4. \A s : Calm([IdleTask EXCEPT !.pc = IF mode = "sfu" THEN "rclose" ELSE "rcreate",
                     !.cmd = "reconnect", !.conn = c, !.cur = s, !.mode = mode])
  BY DEF IdleTask
<1> HIDE DEF Calm
<1>5. CASE \/ SendAuthenticate(c, t)
           \/ \E ch \in Channel : \/ SendJoin(c, t, ch)
                                  \/ \E k \in Kinds : SendStart(c, t, k, ch)
           \/ \E p \in Sess : SendWatch(c, t, p) \/ SendReconnect(c, t, p)
  <2>1. UNCHANGED <<voice, pubs>>
    BY <1>5 DEF SendAuthenticate, SendJoin, SendStart, SendWatch, SendReconnect
  <2>2. CASE SendAuthenticate(c, t)
    BY <1>1, <1>2, <1>3, <2>1, <2>2, SameLoses DEF SendAuthenticate
  <2>3. ASSUME NEW ch \in Channel, SendJoin(c, t, ch) PROVE Loses
    BY <1>1, <1>2, <1>3, <2>1, <2>3, SameLoses DEF SendJoin
  <2>4. ASSUME NEW ch \in Channel, NEW k \in Kinds, SendStart(c, t, k, ch)
        PROVE  Loses
    BY <1>1, <1>2, <1>3, <2>1, <2>4, SameLoses DEF SendStart
  <2>5. ASSUME NEW p \in Sess, SendWatch(c, t, p) PROVE Loses
    BY <1>1, <1>2, <1>3, <2>1, <2>5, SameLoses DEF SendWatch
  <2>6. ASSUME NEW p \in Sess, SendReconnect(c, t, p) PROVE Loses
    BY <1>1, <1>2, <1>4, <2>1, <2>6, SameLoses DEF SendReconnect
  <2> QED
    BY <1>5, <2>2, <2>3, <2>4, <2>5, <2>6
<1>6. ASSUME NEW ch \in Channel, NEW m \in BOOLEAN, Speak(c, t, ch, m) PROVE Loses
  <2>1. /\ voice' = [voice EXCEPT ![ch] = Mute(voice[ch], uid[c], m)]
        /\ voice \in [Channel -> Room] /\ pubs' = pubs
    BY <1>6 DEF Speak, TypeOK
  <2>2. \A d \in Channel, u \in User :
          voice'[d][u] = None \/ (voice[d][u] # None /\ voice'[d][u].sess = voice[d][u].sess)
    <3> SUFFICES ASSUME NEW d \in Channel, NEW u \in User, voice'[d][u] # None
                 PROVE  voice[d][u] # None /\ voice'[d][u].sess = voice[d][u].sess
      OBVIOUS
    <3>1. CASE d # ch
      BY <2>1, <3>1
    <3>2. CASE d = ch
      BY <2>1, <3>2, NoneIsNoRecord DEF Mute, Room, Participant
    <3> QED
      BY <3>1, <3>2
  <2>3. Less(voice, pubs, voice', pubs')
    BY <2>1, <2>2, RoomsLess
  <2>4. \E q : Set(t, q) /\ Calm(q)
    BY <1>3, <1>6 DEF Speak
  <2> QED
    BY <1>1, <1>2, <2>3, <2>4, TaskLoses
<1>7. ASSUME NEW ch \in Channel, SendLeave(c, t, ch) PROVE Loses
  <2> DEFINE r == [IdleTask EXCEPT !.cmd = "leave", !.conn = c]
  <2>1. r \in TaskRecord
    <3> DEFINE q1 == [IdleTask EXCEPT !.cmd = "leave"]
    <3>1. q1 \in TaskRecord
      BY IdleTyped, UpdateTyped DEF AllCommands
    <3> HIDE DEF q1
    <3>2. [q1 EXCEPT !.conn = c] \in TaskRecord
      BY <3>1, UpdateTyped
    <3> QED
      BY <3>2 DEF q1
  <2>2. DoomedOf(r) = {}
    BY DEF DoomedOf, IdleTask, Sessions
  <2>3. LeaveRoom(t, r, c, uid[c], ch) /\ pubs' = pubs /\ uid[c] \in User
    BY <1>7, MemberTyped DEF SendLeave, Send
  <2> HIDE DEF r
  <2> QED
    BY <1>1, <2>1, <2>2, <2>3, LeaveRoomLoses
<1>8. ASSUME NEW cmd \in {"stop", "unwatch"}, NEW ps, NEW todo,
             AfterMusic(t, [IdleTask EXCEPT !.cmd = cmd, !.conn = c], ps, todo),
             Less(voice, pubs, voice, ps), voice' = voice,
             Sessions(todo) \subseteq Lost(voice, pubs, voice, ps)
      PROVE  Loses
  <2> DEFINE r == [IdleTask EXCEPT !.cmd = cmd, !.conn = c]
  <2>1. r \in TaskRecord
    <3> DEFINE q1 == [IdleTask EXCEPT !.cmd = cmd]
    <3>1. q1 \in TaskRecord
      BY IdleTyped, UpdateTyped DEF AllCommands
    <3> HIDE DEF q1
    <3>2. [q1 EXCEPT !.conn = c] \in TaskRecord
      BY <3>1, UpdateTyped
    <3> QED
      BY <3>2 DEF q1
  <2> HIDE DEF r
  <2>2. AfterMusic(t, r, ps, todo)
    BY <1>8 DEF r
  <2>3. pubs' = ps /\ \E q : Set(t, q) /\ DoomedOf(q) \subseteq Sessions(todo)
    BY <2>1, <2>2, AfterMusicDooms
  <2> QED
    BY <1>1, <1>8, <2>3, TaskLoses
<1>9. ASSUME NEW p \in Sess, SendStop(c, t, p) PROVE Loses
  <2> DEFINE qs == Unpublish(pubs, p)
  <2>1. pubs[p] \in Publication /\ pubs[p] # None /\ voice' = voice
    BY <1>1, <1>9 DEF SendStop, Publications
  <2>2. qs[p] = None /\ \A q \in Sess \ {p} : qs[q] = pubs[q]
    BY <1>1 DEF Unpublish, Publications
  <2> HIDE DEF qs
  <2>3. Less(voice, pubs, voice, qs)
    BY <2>2, PubsLess
  <2>4. p \in Lost(voice, pubs, voice, qs)
    BY <2>1, <2>2, RecordLost DEF Publication
  <2>5. Sessions({HostChange(pubs, p)}) = {p}
    BY DEF Sessions, HostChange
  <2> QED
    BY <1>8, <1>9, <2>1, <2>3, <2>4, <2>5 DEF SendStop, qs
<1>10. ASSUME NEW p \in Sess, SendUnwatch(c, t, p) PROVE Loses
  <2> DEFINE u == uid[c]
             qs == RemoveViewer(pubs, p, u)
  <2>1. /\ pubs[p] \in Publication /\ pubs[p] # None /\ voice' = voice
        /\ pubs[p].viewers[u] # None /\ u \in User
    BY <1>1, <1>10, MemberTyped DEF SendUnwatch, Send, Publications
  <2>2. /\ qs[p] = [pubs[p] EXCEPT !.viewers[u] = None]
        /\ \A q \in Sess \ {p} : qs[q] = pubs[q]
    BY <1>1 DEF RemoveViewer, Publications
  <2> HIDE DEF qs
  <2>3. /\ qs[p].host = pubs[p].host /\ qs[p].viewers[u] = None
        /\ \A v \in User \ {u} : qs[p].viewers[v] = pubs[p].viewers[v]
        /\ pubs[p].viewers[u].sess \in Sess
    BY <2>1, <2>2 DEF Publication, Viewer
  <2> HIDE DEF u
  <2>4. \A q \in Sess : qs[q] # None =>
           /\ pubs[q] # None /\ qs[q].host = pubs[q].host
           /\ \A v \in User : qs[q].viewers[v] \in {pubs[q].viewers[v], None}
    BY <2>1, <2>2, <2>3
  <2>5. Less(voice, pubs, voice, qs)
    BY <2>4, PubsLess
  <2>6. pubs[p].viewers[u].sess \in Lost(voice, pubs, voice, qs)
    BY <2>1, <2>3, RecordLost
  <2>7. Sessions({ViewerChange(pubs, p, u)}) = {pubs[p].viewers[u].sess}
    BY DEF Sessions, ViewerChange
  <2> QED
    BY <1>8, <1>10, <2>1, <2>5, <2>6, <2>7 DEF SendUnwatch, qs, u
<1> QED
  BY <1>5, <1>6, <1>7, <1>9, <1>10 DEF Command

\* A task that stays in flight closes what it was to close, or less.
LEMMA ResumeLoses ==
  ASSUME TypeOK, NEW t \in Task, Resume(t),
         ~Joined(t), ~Started(t), ~Watched(t), ~RosterSent(t)
  PROVE  Loses
<1> DEFINE r == task[t]
<1>1. /\ r \in TaskRecord /\ WellFormed(r) /\ DoomedOf(r) \subseteq Doomed
      /\ pubs \in Publications
  BY InFlight, OwnDoomed DEF TypeOK
<1>2. ASSUME NEW q, Set(t, q), q.todo = r.todo, UNCHANGED <<voice, pubs, bg>>,
             \/ q.pc \notin {"vclose", "endrow", "endmedia"}
             \/ r.pc \in {"vclose", "endrow", "endmedia"} /\ q.cur = r.cur
      PROVE  Loses
  BY <1>2, <1>1, SameLoses DEF DoomedOf
<1>3. ASSUME Finish(t), UNCHANGED <<voice, pubs, bg>>
      PROVE  Loses
  BY <1>3, IdleDoomsNothing, SameLoses DEF Finish
<1>4. CASE Denied(t) \/ MediaFailed(t) \/ SnapshotSent(t) \/ RowLive(t)
           \/ SessionRebuilt(t)
  BY <1>3, <1>4 DEF Denied, MediaFailed, SnapshotSent, RowLive, SessionRebuilt
<1>5. ASSUME AwaitMedia(t), UNCHANGED <<voice, pubs, bg>>
      PROVE  Loses
  <2> DEFINE q == [r EXCEPT !.pc = "media", !.mode = mode]
  <2>1. Set(t, q) /\ q.pc = "media" /\ q.todo = r.todo
    BY <1>1, <1>5 DEF AwaitMedia, TaskRecord
  <2> HIDE DEF q
  <2> QED
    BY <1>2, <1>5, <2>1
<1>6. CASE StartChecked(t) \/ WatchChecked(t)
  BY <1>3, <1>5, <1>6 DEF StartChecked, WatchChecked
<1>7. CASE Authenticated(t)
  <2> DEFINE q == [r EXCEPT !.pc = "snapshot"]
  <2>1. q.pc = "snapshot" /\ q.todo = r.todo
    BY <1>1 DEF TaskRecord
  <2>2. Finish(t) \/ Set(t, q)
    BY <1>7 DEF Authenticated
  <2> HIDE DEF q
  <2> QED
    BY <1>2, <1>3, <1>7, <2>1, <2>2 DEF Authenticated
<1>8. CASE RowCreated(t)
  <2> DEFINE q == [r EXCEPT !.pc = "live"]
  <2>1. q.pc = "live" /\ q.todo = r.todo /\ Set(t, q)
    BY <1>1, <1>8 DEF TaskRecord, RowCreated
  <2> HIDE DEF q
  <2> QED
    BY <1>2, <1>8, <2>1 DEF RowCreated
<1>9. CASE JoinChecked(t)
  <2>1. /\ bg' = bg /\ pubs' = pubs /\ r.pc = "access" /\ r.cmd = "join"
        /\ uid[r.conn] \in User
    BY <1>1, <1>9, InFlight DEF JoinChecked
  <2>2. ASSUME NEW l, NEW ch \in Channel, LeaveRoom(t, r, l, uid[r.conn], ch)
        PROVE  Loses
    BY <1>1, <2>1, <2>2, LeaveRoomLoses
  <2> QED
    BY <1>3, <1>5, <1>9, <2>1, <2>2 DEF JoinChecked
<1>10. CASE VoiceClosed(t)
  <2> DEFINE q == [r EXCEPT !.pc = "roster", !.cur = None, !.rem = EmptyRoom]
  <2>1. q.pc = "roster" /\ q.todo = r.todo /\ Set(t, q)
    BY <1>1, <1>10 DEF TaskRecord, VoiceClosed
  <2> HIDE DEF q
  <2> QED
    BY <1>2, <1>10, <2>1 DEF VoiceClosed
<1>11. CASE SessionClosed(t)
  <2> DEFINE q == [r EXCEPT !.pc = "rcreate", !.mode = mode]
  <2>1. q.pc = "rcreate" /\ q.todo = r.todo /\ Set(t, q)
    BY <1>1, <1>11 DEF TaskRecord, SessionClosed
  <2> HIDE DEF q
  <2> QED
    BY <1>2, <1>11, <2>1 DEF SessionClosed
<1>12. CASE PersistFailed(t)
  <2>1. r.pub \in Sess /\ Finish(t) /\ UNCHANGED <<voice, bg>>
        /\ pubs' = Unpublish(pubs, r.pub)
    BY <1>1, <1>12 DEF PersistFailed, WellFormed
  <2>2. pubs'[r.pub] = None /\ \A q \in Sess \ {r.pub} : pubs'[q] = pubs[q]
    BY <1>1, <2>1 DEF Unpublish, Publications
  <2>3. Less(voice, pubs, voice, pubs')
    BY <2>2, PubsLess
  <2> QED
    BY <2>1, <2>3, IdleDoomsNothing, TaskLoses DEF Finish
<1>13. ASSUME Proceed(t, r), UNCHANGED <<voice, bg>>, r.pc \in {"endrow", "endmedia"}
       PROVE  Loses
  <2>1. uid[r.conn] \in User
    BY <1>1, <1>13, InFlight DEF WellFormed
  <2>2. /\ Less(voice, pubs, voice, pubs')
        /\ \E q : /\ Set(t, q)
                  /\ DoomedOf(q) \subseteq
                       Sessions(r.todo) \cup Lost(voice, pubs, voice, pubs')
    BY <1>1, <1>13, <2>1, AfterStreamsDooms, AfterMusicDooms, LessSame DEF Proceed
  <2>3. Sessions(r.todo) \subseteq Doomed
    BY <1>1 DEF Sessions, TaskRecord, Change, DoomedOf
  <2> QED
    BY <1>13, <2>2, <2>3, TaskLoses
<1>14. CASE MediaEnded(t)
  BY <1>13, <1>14 DEF MediaEnded
<1>15. CASE RowEnded(t)
  <2>1. CASE mode = "sfu"
    <3> DEFINE q == [r EXCEPT !.pc = "endmedia"]
    <3>1. q.pc = "endmedia" /\ q.todo = r.todo /\ q.cur = r.cur /\ Set(t, q)
      BY <1>1, <1>15, <2>1 DEF TaskRecord, RowEnded
    <3> HIDE DEF q
    <3> QED
      BY <1>2, <1>15, <2>1, <3>1 DEF RowEnded
  <2>2. CASE mode # "sfu"
    BY <1>13, <1>15, <2>2 DEF RowEnded
  <2> QED
    BY <2>1, <2>2
<1>16. CASE StreamsLeft(t)
  <2> DEFINE u == uid[r.conn]
             ps == LeaveForUser(pubs, "stream", {r.ch}, u, Conn)
             todo == Changes(pubs, "stream", {r.ch}, u, Conn)
  <2>1. /\ UNCHANGED <<voice, bg>> /\ r.pc = "streams"
        /\ AfterStreams(t, r, ps, todo) /\ u \in User
    BY <1>1, <1>16 DEF StreamsLeft, WellFormed
  <2>2. ps \in Publications
    BY <1>1, <2>1, LeaveForUserType
  <2>3. /\ Less(voice, pubs, voice, ps)
        /\ Sessions(todo) \subseteq Lost(voice, pubs, voice, ps)
    BY <1>1, <2>1, LeaveForUserLoses
  <2> HIDE DEF ps, todo
  <2>4. /\ Less(voice, ps, voice, pubs')
        /\ \E q : /\ Set(t, q)
                  /\ DoomedOf(q) \subseteq
                       Sessions(todo) \cup Lost(voice, ps, voice, pubs')
    BY <1>1, <2>1, <2>2, AfterStreamsDooms
  <2>5. /\ Less(voice, pubs, voice, pubs')
        /\ Lost(voice, pubs, voice, ps) \subseteq Lost(voice, pubs, voice, pubs')
        /\ Lost(voice, ps, voice, pubs') \subseteq Lost(voice, pubs, voice, pubs')
    BY <2>3, <2>4, LessTransitive
  <2> QED
    BY <2>1, <2>3, <2>4, <2>5, TaskLoses
<1> QED
  BY <1>4, <1>6, <1>7, <1>8, <1>9, <1>10, <1>11, <1>12, <1>14, <1>15, <1>16
  DEF Resume

\* One turn of the loop of applyMediaMode.
LEMMA ClearRoomsLoses ==
  ASSUME TypeOK, NEW t \in Task, NEW r \in TaskRecord, ClearRooms(t, r),
         Less(voice, pubs, voice, pubs'), r.pc \in {"idle", "roster"},
         DoomedOf(r) \subseteq Doomed \cup Lost(voice, pubs, voice, pubs')
  PROVE  Loses
<1>1. ASSUME NEW ch \in r.rooms, voice' = [voice EXCEPT ![ch] = EmptyRoom],
             Set(t, [r EXCEPT !.pc = "roster", !.ch = ch, !.then = "clear",
                              !.rooms = @ \ {ch}]), bg' = bg
      PROVE  Loses
  <2> DEFINE q == [r EXCEPT !.pc = "roster", !.ch = ch, !.then = "clear",
                            !.rooms = @ \ {ch}]
  <2>1. q.pc = "roster" /\ q.todo = r.todo /\ Set(t, q)
    BY <1>1 DEF TaskRecord
  <2> HIDE DEF q
  <2>2. DoomedOf(q) \subseteq DoomedOf(r)
    BY <2>1 DEF DoomedOf
  <2>3. \A d \in Channel, u \in User : voice'[d][u] \in {None, voice[d][u]}
    BY <1>1 DEF TypeOK, EmptyRoom
  <2>4. Less(voice, pubs', voice', pubs')
    BY <2>3, RoomsLess
  <2>5. /\ Less(voice, pubs, voice', pubs')
        /\ Lost(voice, pubs, voice, pubs') \subseteq Lost(voice, pubs, voice', pubs')
    BY <2>4, LessTransitive
  <2> QED
    BY <1>1, <2>1, <2>2, <2>5, TaskLoses
<1>2. CASE /\ bg' = bg \cup ({"endrow"} \X StoppedStreams(r.todo))
           /\ Finish(t) /\ UNCHANGED voice
  BY <1>2, IdleDoomsNothing DEF Finish, Set, TypeOK, Doomed, Loses
<1> QED
  BY <1>1, <1>2 DEF ClearRooms

LEMMA RosterSentLoses ==
  ASSUME TypeOK, NEW t \in Task, RosterSent(t)
  PROVE  Loses
<1> DEFINE r == task[t]
<1>1. /\ r \in TaskRecord /\ r.pc = "roster" /\ pubs' = pubs
      /\ DoomedOf(r) \subseteq Doomed
  BY InFlight, OwnDoomed DEF RosterSent
<1>2. CASE r.then = "clear"
  BY <1>1, <1>2, LessSame, ClearRoomsLoses DEF RosterSent
<1>3. CASE r.then = "streams"
  <2> DEFINE q == [r EXCEPT !.pc = "streams"]
  <2>1. q.pc = "streams" /\ q.todo = r.todo /\ Set(t, q) /\ UNCHANGED <<voice, bg>>
    BY <1>1, <1>3 DEF RosterSent, TaskRecord
  <2> HIDE DEF q
  <2>2. DoomedOf(q) \subseteq DoomedOf(r)
    BY <2>1 DEF DoomedOf
  <2> QED
    BY <1>1, <2>1, <2>2, SameLoses
<1>4. CASE r.then \notin {"clear", "streams"}
  BY <1>4, <1>1, IdleDoomsNothing, SameLoses DEF RosterSent, Finish
<1> QED
  BY <1>2, <1>3, <1>4

LEMMA ModeChangedLoses ==
  ASSUME TypeOK, NEW t \in Task, NEW m \in Modes, ModeChanged(t, m)
  PROVE  Loses
<1> DEFINE todo == {HostChange(pubs, p) :
                      p \in {q \in Live(pubs) : pubs[q].kind = "stream"}}
           rooms == {ch \in Channel : Occupants(voice[ch]) # {}}
           r == [IdleTask EXCEPT !.cmd = "mode", !.todo = todo, !.rooms = rooms]
<1>1. /\ ClearRooms(t, r) /\ pubs' = [s \in Sess |-> None]
  BY DEF ModeChanged
<1>2. r \in TaskRecord
  <2>1. todo \in SUBSET Change
    BY ChangeTypes DEF TypeOK, Live
  <2> DEFINE q1 == [IdleTask EXCEPT !.cmd = "mode"]
             q2 == [q1 EXCEPT !.todo = todo]
  <2>2. q1 \in TaskRecord
    BY IdleTyped, UpdateTyped DEF AllCommands
  <2> HIDE DEF q1, todo
  <2>3. q2 \in TaskRecord
    BY <2>1, <2>2, UpdateTyped
  <2> HIDE DEF q2
  <2>4. [q2 EXCEPT !.rooms = rooms] \in TaskRecord
    BY <2>3, UpdateTyped
  <2> QED
    BY <2>4 DEF q1, q2
<1>3. r.todo = todo /\ r.pc = "idle"
  BY DEF IdleTask
<1>4. Less(voice, pubs, voice, pubs')
  BY <1>1, PubsLess
<1>5. Sessions(todo) \subseteq Lost(voice, pubs, voice, pubs')
  BY <1>1, RecordLost DEF TypeOK, Live, Publications, Publication, Sessions, HostChange
<1> HIDE DEF r, todo
<1>6. DoomedOf(r) \subseteq Sessions(todo)
  BY <1>3 DEF DoomedOf
<1> QED
  BY <1>1, <1>2, <1>3, <1>4, <1>5, <1>6, ClearRoomsLoses

\* Leaving the streams changes no share of music.
LEMMA StreamsLeaveMusic ==
  ASSUME NEW ps \in Publications, NEW chs, NEW u \in User, NEW cs
  PROVE  Changes(ps, "music", chs, u, cs) =
           Changes(LeaveForUser(ps, "stream", chs, u, cs), "music", chs, u, cs)
<1> DEFINE qs == LeaveForUser(ps, "stream", chs, u, cs)
<1>1. ASSUME NEW p \in Sess
      PROVE  /\ ps[p] # None /\ ps[p].kind = "music" => qs[p] = ps[p]
             /\ qs[p] # None /\ qs[p].kind = "music" => qs[p] = ps[p]
  <2>1. CASE p \in Stopped(ps, "stream", chs, u, cs)
    BY <2>1 DEF LeaveForUser, Stopped
  <2>2. CASE p \in Unviewed(ps, "stream", chs, u, cs)
    <3>1. /\ ps[p] \in Publication /\ ps[p].kind = "stream"
          /\ qs[p] = [ps[p] EXCEPT !.viewers[u] = None]
      BY <2>2 DEF LeaveForUser, Unviewed, Live, Publications
    <3> HIDE DEF qs
    <3>2. qs[p].kind = "stream"
      BY <3>1 DEF Publication
    <3> QED
      BY <3>1, <3>2
  <2>3. CASE /\ p \notin Stopped(ps, "stream", chs, u, cs)
             /\ p \notin Unviewed(ps, "stream", chs, u, cs)
    BY <2>3 DEF LeaveForUser
  <2> QED
    BY <2>1, <2>2, <2>3
<1> HIDE DEF qs
<1>2. Stopped(ps, "music", chs, u, cs) = Stopped(qs, "music", chs, u, cs)
  BY <1>1 DEF Stopped, Live
<1>3. Unviewed(ps, "music", chs, u, cs) = Unviewed(qs, "music", chs, u, cs)
  BY <1>1, <1>2 DEF Unviewed, Live
<1>4. \A p \in Stopped(qs, "music", chs, u, cs) : HostChange(ps, p) = HostChange(qs, p)
  BY <1>1 DEF Stopped, Live, HostChange
<1>5. \A p \in Unviewed(qs, "music", chs, u, cs) :
        ViewerChange(ps, p, u) = ViewerChange(qs, p, u)
  BY <1>1 DEF Unviewed, Live, ViewerChange
<1>6. {HostChange(ps, p) : p \in Stopped(ps, "music", chs, u, cs)} =
        {HostChange(qs, p) : p \in Stopped(qs, "music", chs, u, cs)}
  BY <1>2, <1>4
<1>7. {ViewerChange(ps, p, u) : p \in Unviewed(ps, "music", chs, u, cs)} =
        {ViewerChange(qs, p, u) : p \in Unviewed(qs, "music", chs, u, cs)}
  BY <1>3, <1>5
<1> QED
  BY <1>6, <1>7 DEF Changes, qs

\* The close handler closes the sessions of the records it drops.
LEMMA CloseLoses ==
  ASSUME TypeOK, NEW c \in Conn, Close(c)
  PROVE  Loses
<1>1. task' = task /\ pubs \in Publications /\ voice \in [Channel -> Room]
  BY DEF Close, TypeOK
<1>2. CASE uid[c] = None
  BY <1>2, <1>1, LessSame DEF Close, Loses, Doomed
<1>3. CASE uid[c] # None
  <2> DEFINE u   == uid[c]
             ps  == LeaveForUser(pubs, "stream", Channel, u, {c})
             one == Changes(pubs, "stream", Channel, u, {c})
             two == Changes(pubs, "music", Channel, u, {c})
             left == {ch \in Channel : u # None /\ voice[ch][u] # None
                                                /\ voice[ch][u].conn = c}
             of(ch) == voice[ch][u].sess
  <2>1. u \in User
    BY <1>3 DEF TypeOK
  <2>2. /\ pubs' = LeaveForUser(ps, "music", Channel, u, {c})
        /\ voice' = [ch \in Channel |-> UnseatOwned(voice[ch], u, c)]
        /\ bg' = bg \cup ({"roster"} \X left)
                    \cup ({"endrow"} \X StoppedStreams(one \cup two))
                    \cup (IF mode = "sfu"
                          THEN {"close"} \X ({of(ch) : ch \in left}
                                               \cup {x.sess : x \in one \cup two})
                          ELSE {})
    BY <1>3 DEF Close
  <2>3. /\ ps \in Publications
        /\ Less(voice, pubs, voice, ps)
        /\ Sessions(one) \subseteq Lost(voice, pubs, voice, ps)
    BY <1>1, <2>1, LeaveForUserType, LeaveForUserLoses
  <2>4. two = Changes(ps, "music", Channel, u, {c})
    BY <1>1, <2>1, StreamsLeaveMusic
  <2>5. \A ch \in Channel, v \in User :
          /\ voice'[ch][v] \in {None, voice[ch][v]}
          /\ v = u /\ ch \in left => voice'[ch][v] = None
    <3> SUFFICES ASSUME NEW ch \in Channel, NEW v \in User
                 PROVE  /\ voice'[ch][v] \in {None, voice[ch][v]}
                        /\ v = u /\ ch \in left => voice'[ch][v] = None
      OBVIOUS
    <3>1. voice[ch] \in Room /\ voice'[ch] = UnseatOwned(voice[ch], u, c)
      BY <1>1, <2>2
    <3> QED
      BY <2>1, <3>1 DEF UnseatOwned, Unseat, Room
  <2> HIDE DEF ps, one, two
  <2>6. /\ Less(voice, ps, voice, pubs')
        /\ Sessions(two) \subseteq Lost(voice, ps, voice, pubs')
    BY <2>1, <2>2, <2>3, <2>4, LeaveForUserLoses
  <2>7. /\ Less(voice, pubs, voice, pubs')
        /\ Lost(voice, pubs, voice, ps) \subseteq Lost(voice, pubs, voice, pubs')
        /\ Lost(voice, ps, voice, pubs') \subseteq Lost(voice, pubs, voice, pubs')
    BY <2>3, <2>6, LessTransitive
  <2>8. Less(voice, pubs', voice', pubs')
    BY <2>5, RoomsLess
  <2>9. /\ Less(voice, pubs, voice', pubs')
        /\ Lost(voice, pubs, voice, pubs') \subseteq Lost(voice, pubs, voice', pubs')
    BY <2>7, <2>8, LessTransitive
  <2>10. \A ch \in left : of(ch) \in Lost(voice, pubs, voice', pubs')
    <3> SUFFICES ASSUME NEW ch \in left
                 PROVE  of(ch) \in Lost(voice, pubs, voice', pubs')
      OBVIOUS
    <3>1. ch \in Channel /\ voice[ch][u] # None /\ of(ch) \in Sess
      BY <1>1, <2>1 DEF Room, Participant
    <3> QED
      BY <2>1, <2>5, <3>1, RecordLost
  <2> HIDE DEF left, of, u
  <2>11. \A s : <<"close", s>> \in bg' =>
           \/ <<"close", s>> \in bg \/ s \in {of(ch) : ch \in left}
           \/ s \in Sessions(one) \/ s \in Sessions(two)
    BY <2>2 DEF Sessions
  <2>12. \A s : <<"close", s>> \in bg' =>
           <<"close", s>> \in bg \/ s \in Lost(voice, pubs, voice', pubs')
    BY <2>3, <2>6, <2>7, <2>9, <2>10, <2>11
  <2>13. Doomed' \subseteq Doomed \cup Lost(voice, pubs, voice', pubs')
    BY <1>1, <2>12 DEF Doomed
  <2> QED
    BY <2>9, <2>13 DEF Loses
<1> QED
  BY <1>2, <1>3

LEMMA OthersLose ==
  ASSUME TypeOK, Crash \/ Background \/ UNCHANGED vars \/ \E c \in Conn : Attach(c)
  PROVE  Loses
<1>1. CASE Crash
  <2>1. \A ch \in Channel, u \in User : voice'[ch][u] = None
    BY <1>1 DEF Crash, EmptyRoom
  <2>2. \A p \in Sess : pubs'[p] = None
    BY <1>1 DEF Crash
  <2>3. Less(voice, pubs, voice', pubs) /\ Less(voice', pubs, voice', pubs')
    BY <2>1, <2>2, RoomsLess, PubsLess
  <2>4. Doomed' = {}
    BY <1>1, IdleDoomsNothing DEF Crash, Doomed
  <2> QED
    BY <2>3, <2>4, LessTransitive DEF Loses
<1>2. CASE Background \/ UNCHANGED vars \/ \E c \in Conn : Attach(c)
  <2>1. UNCHANGED <<voice, pubs, task>> /\ bg' \subseteq bg
    BY <1>2 DEF Background, RosterSentLater, MediaClosedLater, RowEndedLater,
                vars, Attach
  <2> QED
    BY <2>1, LessSame DEF Loses, Doomed
<1> QED
  BY <1>1, <1>2

-----------------------------------------------------------------------------
(* The steps that record a session: it was drawn in that step.             *)

LEMMA JoinedSessInv ==
  ASSUME TypeOK, SessInv, [Next]_vars, NEW t \in Task, Joined(t)
  PROVE  SessInv'
<1> DEFINE r == task[t]
           u == uid[r.conn]
           q == [IdleTask EXCEPT !.pc = "roster", !.cmd = "join",
                                 !.conn = r.conn, !.ch = r.goal]
<1>1. /\ r \in TaskRecord /\ r.goal \in Channel /\ u \in User /\ r.conn \in Conn
      /\ r.mode \in {"p2p", "sfu"}
  BY InFlight DEF Joined, WellFormed, TaskRecord
<1>2. PICK s \in Fresh :
        /\ media' = [media EXCEPT ![s] = r.mode]
        /\ \/ Finish(t) /\ UNCHANGED voice
           \/ /\ voice' = [voice EXCEPT ![r.goal] = Seat(voice[r.goal], u, r.conn, s)]
              /\ Set(t, q)
  BY DEF Joined
<1>3. UNCHANGED <<pubs, bg>>
  BY DEF Joined
<1>4. CASE Finish(t) /\ UNCHANGED voice
  BY <1>3, <1>4, IdleDoomsNothing, SameLoses, LosesSessInv DEF Finish
<1>5. CASE /\ voice' = [voice EXCEPT ![r.goal] = Seat(voice[r.goal], u, r.conn, s)]
           /\ Set(t, q)
  <2>1. DoomedOf(q) = {}
    BY DEF DoomedOf, IdleTask, Sessions
  <2>2. Doomed' \subseteq Doomed
    BY <1>3, <1>5, <2>1, DoomedSet
  <2>slot. PICK y \in Slot : y = <<"voice", r.goal, u>>
    BY <1>1 DEF Slot
  <2>3. s \in Sess /\ media'[s] # "fresh"
    BY <1>1, <1>2 DEF Fresh, TypeOK
  <2>4. /\ voice'[r.goal][u] = [conn |-> r.conn, sess |-> s, muted |-> FALSE]
        /\ \A ch \in Channel, v \in User :
             ch # r.goal \/ v # u => voice'[ch][v] = voice[ch][v]
    BY <1>1, <1>5 DEF Seat, TypeOK, Room
  <2>5. voice'[r.goal][u] # None /\ voice'[r.goal][u].sess = s
    <3> DEFINE new == [conn |-> r.conn, sess |-> s, muted |-> FALSE]
    <3>1. new \in Participant /\ new.sess = s
      BY <1>1, <2>3 DEF Participant
    <3>2. voice'[r.goal][u] = new
      BY <2>4
    <3> HIDE DEF new
    <3> QED
      BY <3>1, <3>2, NoneIsNoRecord
  <2> HIDE DEF r, u
  <2>6. Held(y)' = s
    BY <2>5, <2>slot DEF Held, HeldIn
  <2>7. ASSUME NEW x \in Slot \ {y} PROVE Held(x)' = Held(x)
    <3>1. CASE x \in {"voice"} \X Channel \X User
      <4>1. PICK ch \in Channel, v \in User : x = <<"voice", ch, v>>
        BY <3>1
      <4>2. ch # r.goal \/ v # u
        BY <2>slot, <4>1
      <4> QED
        BY <2>4, <4>1, <4>2 DEF Held, HeldIn
    <3>2. CASE x \in {"host", "viewer"} \X Sess \X User
      BY <1>3, <3>2 DEF Held, HeldIn
    <3> QED
      BY <3>1, <3>2 DEF Slot
  <2> QED
    BY <2>2, <2>3, <2>6, <2>7, GainsSessInv DEF Gains
<1> QED
  BY <1>2, <1>4, <1>5

LEMMA StartedSessInv ==
  ASSUME TypeOK, SessInv, [Next]_vars, NEW t \in Task, Started(t)
  PROVE  SessInv'
<1> DEFINE r == task[t]
           u == uid[r.conn]
           q == [r EXCEPT !.pc = "create", !.pub = r.pub]
<1>1. /\ r \in TaskRecord /\ r.pc = "media" /\ u \in User /\ r.conn \in Conn
      /\ r.kind \in PubKinds /\ r.ch \in Channel /\ r.mode \in {"p2p", "sfu"}
      /\ pubs \in Publications /\ DoomedOf(r) \subseteq Doomed
  BY InFlight, OwnDoomed DEF Started, WellFormed, TaskRecord, TypeOK
<1>2. UNCHANGED <<voice, bg>>
  BY DEF Started
<1>3. PICK s \in Fresh :
        /\ media' = [media EXCEPT ![s] = r.mode]
        /\ \/ Finish(t) /\ UNCHANGED pubs
           \/ /\ pubs' = Publish(pubs, s, r.kind, r.ch, u, r.conn)
              /\ Finish(t) \/ Set(t, [r EXCEPT !.pc = "create", !.pub = s])
  BY DEF Started
<1>4. s \in Sess /\ media[s] = "fresh" /\ media'[s] # "fresh"
  BY <1>1, <1>3 DEF Fresh, TypeOK
<1>5. CASE Finish(t) /\ UNCHANGED pubs
  BY <1>2, <1>5, IdleDoomsNothing, SameLoses, LosesSessInv DEF Finish
<1>6. CASE /\ pubs' = Publish(pubs, s, r.kind, r.ch, u, r.conn)
           /\ Finish(t) \/ Set(t, [r EXCEPT !.pc = "create", !.pub = s])
  <2>1. \E z : Set(t, z) /\ DoomedOf(z) \subseteq Doomed
    <3> DEFINE z == [r EXCEPT !.pc = "create", !.pub = s]
    <3>1. z.pc = "create" /\ z.todo = r.todo
      BY <1>1 DEF TaskRecord
    <3>2. Finish(t) \/ Set(t, z)
      BY <1>6
    <3> HIDE DEF z
    <3>3. DoomedOf(z) \subseteq DoomedOf(r)
      BY <3>1 DEF DoomedOf
    <3> QED
      BY <1>1, <3>2, <3>3, IdleDoomsNothing DEF Finish
  <2>2. Doomed' \subseteq Doomed
    BY <1>2, <2>1, DoomedSet
  <2>3. PICK y \in Slot : y = <<"host", s, u>>
    BY <1>1, <1>4 DEF Slot
  <2> DEFINE new == [kind |-> r.kind, ch |-> r.ch, host |-> u, conn |-> r.conn,
                     viewers |-> [v \in User |-> None]]
  <2>4. pubs'[s] = new /\ \A p \in Sess \ {s} : pubs'[p] = pubs[p]
    BY <1>1, <1>4, <1>6 DEF Publish, Publications
  <2>5. new \in Publication /\ new # None
    BY <1>1, NoneIsNoRecord DEF Publication
  <2>6. pubs'[s] # None /\ pubs'[s].host = u /\ \A v \in User : pubs'[s].viewers[v] = None
    BY <2>4, <2>5
  <2>7. pubs[s] = None
    <3> SUFFICES ASSUME pubs[s] # None PROVE FALSE
      OBVIOUS
    <3> DEFINE h == <<"host", s, pubs[s].host>>
    <3>1. pubs[s].host \in User
      BY <1>1, <1>4 DEF Publications, Publication
    <3>2. h \in Slot /\ Held(h) = s
      BY <1>4, <3>1 DEF Slot, Held, HeldIn
    <3> HIDE DEF h
    <3> QED
      BY <1>4, <3>2, NoneIsNew DEF SessInv
  <2> HIDE DEF new, r, u
  <2>8. Held(y)' = s
    BY <2>3, <2>6 DEF Held, HeldIn
  <2>9. ASSUME NEW x \in Slot \ {y} PROVE Held(x)' = Held(x)
    <3>1. CASE x \in {"voice"} \X Channel \X User
      BY <1>2, <3>1 DEF Held, HeldIn
    <3>2. CASE x \in {"host", "viewer"} \X Sess \X User
      <4>1. PICK k \in {"host", "viewer"}, p \in Sess, v \in User : x = <<k, p, v>>
        BY <3>2
      <4>2. CASE p # s
        BY <2>4, <4>1, <4>2 DEF Held, HeldIn
      <4>3. CASE p = s /\ k = "viewer"
        BY <2>6, <2>7, <4>1, <4>3 DEF Held, HeldIn
      <4>4. CASE p = s /\ k = "host"
        BY <2>3, <4>1, <4>4, <2>6, <2>7 DEF Held, HeldIn
      <4> QED
        BY <4>2, <4>3, <4>4
    <3> QED
      BY <3>1, <3>2 DEF Slot
  <2> QED
    BY <1>4, <2>2, <2>3, <2>8, <2>9, GainsSessInv DEF Gains
<1> QED
  BY <1>3, <1>5, <1>6

LEMMA WatchedSessInv ==
  ASSUME TypeOK, SessInv, [Next]_vars, NEW t \in Task, Watched(t)
  PROVE  SessInv'
<1> DEFINE r == task[t]
           u == uid[r.conn]
           p == r.pub
<1>1. /\ r \in TaskRecord /\ u \in User /\ r.conn \in Conn /\ p \in Sess
      /\ r.mode \in {"p2p", "sfu"} /\ pubs \in Publications
  BY InFlight DEF Watched, WellFormed, TaskRecord, TypeOK
<1>2. UNCHANGED <<voice, bg>> /\ Finish(t)
  BY DEF Watched
<1>3. PICK s \in Fresh :
        /\ media' = [media EXCEPT ![s] = r.mode]
        /\ pubs' = IF pubs[p] # None /\ pubs[p].viewers[u] = None
                   THEN AddViewer(pubs, p, u, r.conn, s) ELSE pubs
  BY DEF Watched
<1>4. s \in Sess /\ media'[s] # "fresh"
  BY <1>1, <1>3 DEF Fresh, TypeOK
<1>5. CASE pubs' = pubs
  BY <1>2, <1>5, IdleDoomsNothing, SameLoses, LosesSessInv DEF Finish
<1>6. CASE /\ pubs[p] # None /\ pubs[p].viewers[u] = None
           /\ pubs' = AddViewer(pubs, p, u, r.conn, s)
  <2>1. Doomed' \subseteq Doomed
    BY <1>2, IdleDoomsNothing, DoomedSet DEF Finish
  <2>2. PICK y \in Slot : y = <<"viewer", p, u>>
    BY <1>1 DEF Slot
  <2>3. /\ pubs[p] \in Publication
        /\ pubs'[p] = [pubs[p] EXCEPT !.viewers[u] = [conn |-> r.conn, sess |-> s]]
        /\ \A x \in Sess \ {p} : pubs'[x] = pubs[x]
    BY <1>1, <1>6 DEF AddViewer, Publications
  <2>4. [conn |-> r.conn, sess |-> s] \in Viewer
    BY <1>1, <1>4 DEF Viewer
  <2>5. /\ pubs'[p] \in Publication /\ pubs'[p].host = pubs[p].host
        /\ pubs'[p].viewers[u] = [conn |-> r.conn, sess |-> s]
        /\ \A v \in User \ {u} : pubs'[p].viewers[v] = pubs[p].viewers[v]
    BY <1>1, <2>3, <2>4 DEF Publication
  <2>6. pubs'[p] # None /\ pubs'[p].viewers[u] # None
    BY <2>4, <2>5, NoneIsNoRecord
  <2> HIDE DEF r, u, p
  <2>7. Held(y)' = s
    BY <2>2, <2>5, <2>6 DEF Held, HeldIn
  <2>8. ASSUME NEW x \in Slot \ {y} PROVE Held(x)' = Held(x)
    <3>1. CASE x \in {"voice"} \X Channel \X User
      BY <1>2, <3>1 DEF Held, HeldIn
    <3>2. CASE x \in {"host", "viewer"} \X Sess \X User
      <4>1. PICK k \in {"host", "viewer"}, z \in Sess, v \in User : x = <<k, z, v>>
        BY <3>2
      <4>2. CASE z # p
        BY <2>3, <4>1, <4>2 DEF Held, HeldIn
      <4>3. CASE z = p /\ k = "host"
        BY <1>6, <2>5, <2>6, <4>1, <4>3 DEF Held, HeldIn
      <4>4. CASE z = p /\ k = "viewer"
        BY <2>2, <4>1, <4>4, <1>6, <2>5, <2>6 DEF Held, HeldIn
      <4> QED
        BY <4>2, <4>3, <4>4
    <3> QED
      BY <3>1, <3>2 DEF Slot
  <2> QED
    BY <1>4, <2>1, <2>2, <2>7, <2>8, GainsSessInv DEF Gains
<1> QED
  BY <1>3, <1>5, <1>6

LEMMA SessInvStep ==
  ASSUME TypeOK, SessInv, [Next]_vars
  PROVE  SessInv'
BY JoinedSessInv, StartedSessInv, WatchedSessInv, RosterSentLoses, ResumeLoses, LosesSessInv,
   CommandLoses, CloseLoses, ModeChangedLoses, OthersLose DEF Next

-----------------------------------------------------------------------------
(* Closes hit sessions of no record.                                       *)

\* A referenced session is held somewhere.
LEMMA ReferencedHeld ==
  ASSUME NEW s \in Referenced(voice, pubs), s \in Sess
  PROVE  \E x \in Slot : Held(x) = s
<1>1. PICK u \in User, c \in Conn : s \in OwnedSessions(voice, pubs, u, c)
  BY DEF Referenced
<1>2. CASE \E ch \in Channel : voice[ch][u] # None /\ s = voice[ch][u].sess
  <2>1. PICK ch \in Channel : voice[ch][u] # None /\ s = voice[ch][u].sess
    BY <1>2
  <2> DEFINE x == <<"voice", ch, u>>
  <2>2. x \in Slot /\ Held(x) = s
    BY <2>1 DEF Slot, Held, HeldIn
  <2> QED
    BY <2>2
<1>3. CASE s \in Live(pubs) /\ pubs[s].host = u
  <2> DEFINE x == <<"host", s, u>>
  <2>1. x \in Slot /\ Held(x) = s
    BY <1>3 DEF Slot, Held, HeldIn, Live
  <2> QED
    BY <2>1
<1>4. CASE \E p \in Live(pubs) : pubs[p].viewers[u] # None /\ s = pubs[p].viewers[u].sess
  <2>1. PICK p \in Live(pubs) : pubs[p].viewers[u] # None /\ s = pubs[p].viewers[u].sess
    BY <1>4
  <2> DEFINE x == <<"viewer", p, u>>
  <2>2. x \in Slot /\ Held(x) = s
    BY <2>1 DEF Slot, Held, HeldIn, Live
  <2> QED
    BY <2>2
<1> QED
  BY <1>1, <1>2, <1>3, <1>4 DEF OwnedSessions

\* Only the calls of closeSfuSession close a session.
LEMMA ClosedByCall ==
  ASSUME TypeOK, [Next]_vars, NEW s \in Sess,
         media[s] # "closed", media'[s] = "closed"
  PROVE  \/ s \in Doomed
         \/ \E t \in Task : task[t].pc = "rclose" /\ task[t].cur = s
<1>1. media \in [Sess -> {"fresh", "p2p", "sfu", "closed"}]
  BY DEF TypeOK
<1>2. media' # media
  OBVIOUS
<1>3. ASSUME NEW x, CloseMedia(x) PROVE x = s
  BY <1>1, <1>3 DEF CloseMedia
<1>4. ASSUME NEW t \in Task, NEW x, media' = [media EXCEPT ![x] = task[t].mode]
      PROVE  FALSE
  BY InFlight, <1>1, <1>4 DEF TaskRecord
<1>5. ASSUME NEW t \in Task, VoiceClosed(t) \/ MediaEnded(t) PROVE s \in Doomed
  BY <1>3, <1>5 DEF VoiceClosed, MediaEnded, Doomed, DoomedOf
<1>6. ASSUME NEW t \in Task, SessionClosed(t)
      PROVE  task[t].pc = "rclose" /\ task[t].cur = s
  BY <1>3, <1>6 DEF SessionClosed
<1>7. ASSUME NEW x \in Sess, MediaClosedLater(x) PROVE s \in Doomed
  BY <1>3, <1>7 DEF MediaClosedLater, Doomed
<1>8. ASSUME NEW c \in Conn, NEW t \in Task, Command(c, t) PROVE FALSE
  BY <1>2, <1>8 DEF Command, SendAuthenticate, SendJoin, SendLeave, Speak,
     SendStart, SendStop, SendWatch, SendUnwatch, SendReconnect
<1>9. ASSUME NEW t \in Task, Resume(t)
      PROVE  VoiceClosed(t) \/ MediaEnded(t) \/ SessionClosed(t)
  <2>1. CASE Joined(t) \/ MediaFailed(t) \/ Started(t) \/ Watched(t)
             \/ SessionRebuilt(t)
    BY <1>2, <1>4, <2>1 DEF Joined, MediaFailed, Started, Watched, SessionRebuilt
  <2> QED
    BY <1>2, <1>9, <2>1 DEF Resume, Authenticated, SnapshotSent, Denied,
       JoinChecked, RosterSent, StreamsLeft, RowEnded, StartChecked, RowCreated,
       RowLive, PersistFailed, WatchChecked
<1>10. ASSUME \/ \E c \in Conn : Attach(c) \/ Close(c)
              \/ \E t \in Task, m \in Modes : ModeChanged(t, m)
              \/ Crash \/ UNCHANGED vars
       PROVE  FALSE
  BY <1>2, <1>10 DEF Attach, Close, ModeChanged, Crash, vars
<1>11. CASE Background
  BY <1>2, <1>7, <1>11 DEF Background, RosterSentLater, RowEndedLater
<1> QED
  BY <1>5, <1>6, <1>8, <1>9, <1>10, <1>11 DEF Next

\* No two records share a media session, and no close on its way is about a
\* session in use: the closes that handleVoiceLeave, the stop and unwatch
\* handlers and the close handler issue, however late they run, hit sessions
\* of no record.  Only media.session.reconnect closes a session in use.
THEOREM LiveSessionsStayOpenTheorem == Spec => LiveSessionsStayOpen
<1>1. Init => SessInv
  <2> SUFFICES ASSUME Init PROVE SessInv
    OBVIOUS
  <2>1. \A x \in Slot : Held(x) = None
    <3> SUFFICES ASSUME NEW x \in Slot PROVE Held(x) = None
      OBVIOUS
    <3>1. CASE x \in {"voice"} \X Channel \X User
      BY <3>1 DEF Init, Held, HeldIn, EmptyRoom
    <3>2. CASE x \in {"host", "viewer"} \X Sess \X User
      BY <3>2 DEF Init, Held, HeldIn
    <3> QED
      BY <3>1, <3>2 DEF Slot
  <2>2. Doomed = {}
    BY IdleDoomsNothing DEF Init, Doomed
  <2> QED
    BY <2>1, <2>2 DEF SessInv
<1>2. TypeOK /\ SessInv /\ [Next]_vars => SessInv'
  BY SessInvStep
<1>3. TypeOK /\ SessInv /\ [Next]_vars =>
        \A s \in Sess :
          media[s] \in {"p2p", "sfu"} /\ media'[s] = "closed"
            => \/ s \notin Referenced(voice, pubs)
               \/ \E t \in Task : task[t].pc = "rclose" /\ task[t].cur = s
  <2> SUFFICES ASSUME TypeOK, SessInv, [Next]_vars, NEW s \in Sess,
                      media[s] \in {"p2p", "sfu"}, media'[s] = "closed",
                      s \in Referenced(voice, pubs)
               PROVE  \E t \in Task : task[t].pc = "rclose" /\ task[t].cur = s
    OBVIOUS
  <2>1. PICK x \in Slot : Held(x) = s
    BY ReferencedHeld
  <2>2. s \notin Doomed
    BY <2>1 DEF SessInv
  <2> QED
    BY <2>2, ClosedByCall
<1>4. Spec => []SessInv
  BY <1>1, <1>2, TypeInvariant, PTL DEF Spec
<1> QED
  BY <1>3, <1>4, TypeInvariant, PTL DEF Spec, LiveSessionsStayOpen

-----------------------------------------------------------------------------
(* Who drops a voice record.  The strengthening: the owner of a record is  *)
(* a connection that authenticated, which is attached or was; and the loop *)
(* of applyMediaMode is run by its own task only.                          *)

OwnerInv ==
  /\ \A c \in Conn : conn[c] = "unused" => uid[c] = None
  /\ \A ch \in Channel, u \in User :
       voice[ch][u] # None => uid[voice[ch][u].conn] \in User
  /\ \A t \in Task : task[t].then = "clear" => task[t].cmd = "mode"

Dropped(ch, u) == voice[ch][u] # None /\ voice'[ch][u] = None

\* The excuses of VoiceDroppedByOwner.
ByOwner(ch, u) ==
  \/ conn'[voice[ch][u].conn] = "closed"
  \/ mode' # mode
  \/ \E t \in Task : /\ task'[t] # task[t]
                     /\ \/ task'[t].cmd = "mode"
                        \/ /\ task'[t].cmd \in {"join", "leave"}
                           /\ uid[task'[t].conn] = u
                           /\ task'[t].ch = ch

\* What a step does to voice records: those left keep an owner that
\* authenticated, those dropped are dropped by their owner.
Owned ==
  \A ch \in Channel, u \in User :
    /\ voice'[ch][u] # None => uid[voice'[ch][u].conn] \in User
    /\ Dropped(ch, u) => ByOwner(ch, u)

LEMMA LeaveRoomOwned ==
  ASSUME TypeOK, OwnerInv, NEW t \in Task, NEW r \in TaskRecord, NEW leaver,
         NEW ch \in Channel, LeaveRoom(t, r, leaver, uid[r.conn], ch),
         r.cmd \in {"join", "leave"}, task[t].pc \notin {"vclose", "roster"},
         uid[r.conn] \in User
  PROVE  Owned
<1> DEFINE u  == uid[r.conn]
           q1 == [r EXCEPT !.pc = "vclose", !.ch = ch, !.then = "streams",
                           !.cur = voice[ch][u].sess, !.rem = Unseat(voice[ch], u)]
           q2 == [r EXCEPT !.pc = "roster", !.ch = ch, !.then = "streams"]
<1>1. \A d \in Channel, v \in User :
        voice'[d][v] = IF d = ch /\ v = u THEN None ELSE voice[d][v]
  BY DEF LeaveRoom, TypeOK, Unseat, Room
<1>2. /\ q1.pc = "vclose" /\ q1.ch = ch /\ q1.cmd = r.cmd /\ q1.conn = r.conn
      /\ q2.pc = "roster" /\ q2.ch = ch /\ q2.cmd = r.cmd /\ q2.conn = r.conn
  BY DEF TaskRecord
<1>3. Set(t, q1) \/ Set(t, q2)
  BY DEF LeaveRoom
<1> HIDE DEF q1, q2
<1>4. PICK q : /\ Set(t, q) /\ q.pc \in {"vclose", "roster"} /\ q.ch = ch
               /\ q.cmd = r.cmd /\ q.conn = r.conn
  BY <1>2, <1>3
<1>5. task'[t] = q /\ task'[t] # task[t]
  BY <1>4 DEF Set, TypeOK
<1>6. ByOwner(ch, u)
  BY <1>4, <1>5 DEF ByOwner
<1> QED
  BY <1>1, <1>6 DEF Owned, Dropped, OwnerInv

LEMMA JoinedOwned ==
  ASSUME TypeOK, OwnerInv, NEW t \in Task, Joined(t)
  PROVE  Owned
<1> DEFINE r == task[t]
           u == uid[r.conn]
<1>1. r.goal \in Channel /\ u \in User /\ r.conn \in Conn
  BY InFlight DEF Joined, WellFormed
<1>2. PICK s \in Fresh :
        \/ voice' = voice
        \/ voice' = [voice EXCEPT ![r.goal] = Seat(voice[r.goal], u, r.conn, s)]
  BY DEF Joined
<1>3. CASE voice' = voice
  BY <1>3 DEF Owned, Dropped, OwnerInv
<1>4. CASE voice' = [voice EXCEPT ![r.goal] = Seat(voice[r.goal], u, r.conn, s)]
  <2> DEFINE new == [conn |-> r.conn, sess |-> s, muted |-> FALSE]
  <2>1. \A ch \in Channel, v \in User :
          voice'[ch][v] = IF ch = r.goal /\ v = u THEN new ELSE voice[ch][v]
    BY <1>1, <1>4 DEF Seat, TypeOK, Room
  <2>2. new \in Participant /\ new.conn = r.conn
    BY <1>1 DEF Participant, Fresh
  <2> HIDE DEF new
  <2>3. new # None
    BY <2>2, NoneIsNoRecord
  <2> QED
    BY <1>1, <2>1, <2>2, <2>3 DEF Owned, Dropped, OwnerInv
<1> QED
  BY <1>2, <1>3, <1>4

LEMMA SpeakOwned ==
  ASSUME TypeOK, OwnerInv, NEW c \in Conn, NEW t \in Task, NEW ch \in Channel,
         NEW m \in BOOLEAN, Speak(c, t, ch, m)
  PROVE  Owned
<1>1. voice' = [voice EXCEPT ![ch] = Mute(voice[ch], uid[c], m)]
      /\ voice \in [Channel -> Room]
  BY DEF Speak, TypeOK
<1> SUFFICES ASSUME NEW d \in Channel, NEW u \in User
             PROVE  \/ voice'[d][u] = voice[d][u]
                    \/ /\ voice'[d][u] # None /\ voice[d][u] # None
                       /\ voice'[d][u].conn = voice[d][u].conn
  BY DEF Owned, Dropped, OwnerInv
<1>2. CASE d # ch
  BY <1>1, <1>2
<1>3. CASE d = ch
  <2>1. voice'[d] = Mute(voice[d], uid[c], m) /\ voice[d] \in Room
    BY <1>1, <1>3
  <2>2. CASE voice[d][uid[c]] = None \/ u # uid[c]
    BY <2>1, <2>2 DEF Mute, Room
  <2>3. CASE voice[d][uid[c]] # None /\ u = uid[c]
    <3>1. voice[d][u] \in Participant
      BY <2>1, <2>3 DEF Room
    <3> DEFINE new == [voice[d][u] EXCEPT !.muted = m]
    <3>2. voice'[d][u] = new
      BY <2>1, <2>3 DEF Mute, Room
    <3>3. new \in Participant /\ new.conn = voice[d][u].conn
      BY <3>1 DEF Participant
    <3> HIDE DEF new
    <3> QED
      BY <2>3, <3>2, <3>3, NoneIsNoRecord
  <2> QED
    BY <2>2, <2>3
<1> QED
  BY <1>2, <1>3

\* leaveAllChannels drops the records of the connection that closes.
LEMMA CloseOwned ==
  ASSUME TypeOK, OwnerInv, NEW c \in Conn, Close(c)
  PROVE  Owned
<1>1. conn' = [conn EXCEPT ![c] = "closed"] /\ voice \in [Channel -> Room]
      /\ conn \in [Conn -> {"unused", "open", "closed"}]
  BY DEF Close, TypeOK
<1>2. CASE uid[c] = None
  BY <1>2 DEF Close, Owned, Dropped, OwnerInv
<1>3. CASE uid[c] # None
  <2>1. voice' = [ch \in Channel |-> UnseatOwned(voice[ch], uid[c], c)]
    BY <1>3 DEF Close
  <2> SUFFICES ASSUME NEW ch \in Channel, NEW u \in User
               PROVE  \/ voice'[ch][u] = voice[ch][u]
                      \/ /\ voice'[ch][u] = None /\ voice[ch][u].conn = c
    BY <1>1 DEF Owned, Dropped, OwnerInv, ByOwner
  <2>2. voice'[ch] = UnseatOwned(voice[ch], uid[c], c) /\ voice[ch] \in Room
    BY <1>1, <2>1
  <2> QED
    BY <2>2 DEF UnseatOwned, Unseat, Room
<1> QED
  BY <1>2, <1>3

LEMMA RosterSentOwned ==
  ASSUME TypeOK, OwnerInv, NEW t \in Task, RosterSent(t)
  PROVE  Owned
<1> DEFINE r == task[t]
<1>1. r \in TaskRecord
  BY InFlight
<1>2. CASE voice' = voice
  BY <1>2 DEF Owned, Dropped, OwnerInv
<1>3. ASSUME r.then = "clear", NEW ch \in r.rooms,
             voice' = [voice EXCEPT ![ch] = EmptyRoom],
             Set(t, [r EXCEPT !.pc = "roster", !.ch = ch, !.then = "clear",
                              !.rooms = @ \ {ch}])
      PROVE  Owned
  <2> DEFINE q == [r EXCEPT !.pc = "roster", !.ch = ch, !.then = "clear",
                            !.rooms = @ \ {ch}]
  <2>1. q.cmd = "mode" /\ q.rooms = r.rooms \ {ch} /\ Set(t, q)
    BY <1>1, <1>3 DEF TaskRecord, OwnerInv
  <2> HIDE DEF q
  <2>2. task'[t] = q /\ task'[t] # task[t] /\ task'[t].cmd = "mode"
    BY <2>1 DEF Set, TypeOK
  <2>3. \A d \in Channel, u \in User : voice'[d][u] \in {None, voice[d][u]}
    BY <1>3 DEF TypeOK, EmptyRoom
  <2> QED
    BY <2>2, <2>3 DEF Owned, Dropped, ByOwner, OwnerInv
<1>4. CASE r.then = "clear"
  BY <1>2, <1>3, <1>4 DEF RosterSent, ClearRooms
<1>5. CASE r.then # "clear"
  BY <1>2, <1>5 DEF RosterSent
<1> QED
  BY <1>4, <1>5

LEMMA ModeChangedOwned ==
  ASSUME TypeOK, OwnerInv, NEW t \in Task, NEW m \in Modes, ModeChanged(t, m)
  PROVE  Owned
<1>1. mode' # mode
  BY DEF ModeChanged
<1>2. voice' = voice \/ \E ch : voice' = [voice EXCEPT ![ch] = EmptyRoom]
  BY DEF ModeChanged, ClearRooms
<1>3. \A d \in Channel, u \in User : voice'[d][u] \in {None, voice[d][u]}
  BY <1>2 DEF TypeOK, EmptyRoom
<1> QED
  BY <1>1, <1>3 DEF Owned, Dropped, ByOwner, OwnerInv

\* A crash takes every connection with its records: the owner was attached.
LEMMA CrashOwned ==
  ASSUME TypeOK, OwnerInv, Crash
  PROVE  Owned
<1> SUFFICES ASSUME NEW ch \in Channel, NEW u \in User, voice[ch][u] # None
             PROVE  conn'[voice[ch][u].conn] = "closed"
  BY DEF Owned, Dropped, ByOwner, Crash, EmptyRoom
<1> DEFINE c == voice[ch][u].conn
<1>1. c \in Conn
  BY DEF TypeOK, Room, Participant
<1>2. conn[c] # "unused" /\ conn[c] \in {"unused", "open", "closed"}
  BY <1>1, NoneIsNew DEF OwnerInv, TypeOK
<1> QED
  BY <1>1, <1>2 DEF Crash

LEMMA StepOwned ==
  ASSUME TypeOK, OwnerInv, [Next]_vars
  PROVE  Owned
<1>1. CASE voice' = voice
  BY <1>1 DEF Owned, Dropped, OwnerInv
<1>2. ASSUME NEW c \in Conn, NEW t \in Task, NEW ch \in Channel, SendLeave(c, t, ch)
      PROVE  Owned
  <2> DEFINE r == [IdleTask EXCEPT !.cmd = "leave", !.conn = c]
  <2>1. r \in TaskRecord /\ r.cmd = "leave" /\ r.conn = c
    <3> DEFINE q1 == [IdleTask EXCEPT !.cmd = "leave"]
    <3>1. q1 \in TaskRecord
      BY IdleTyped, UpdateTyped DEF AllCommands
    <3>2. r.cmd = "leave" /\ r.conn = c
      BY DEF IdleTask
    <3> HIDE DEF q1
    <3>3. [q1 EXCEPT !.conn = c] \in TaskRecord
      BY <3>1, UpdateTyped
    <3> QED
      BY <3>2, <3>3 DEF q1
  <2>2. LeaveRoom(t, r, c, uid[c], ch) /\ uid[c] \in User /\ task[t].pc = "idle"
    BY <1>2, MemberTyped DEF SendLeave, Send
  <2> HIDE DEF r
  <2> QED
    BY <2>1, <2>2, LeaveRoomOwned
<1>3. ASSUME NEW t \in Task, JoinChecked(t) PROVE Owned
  <2>1. /\ task[t] \in TaskRecord /\ task[t].pc = "access" /\ task[t].cmd = "join"
        /\ uid[task[t].conn] \in User
    BY <1>3, InFlight DEF JoinChecked
  <2>2. ASSUME NEW l, NEW ch \in Channel,
               LeaveRoom(t, task[t], l, uid[task[t].conn], ch)
        PROVE  Owned
    BY <2>1, <2>2, LeaveRoomOwned
  <2> QED
    BY <1>1, <1>3, <2>2 DEF JoinChecked
<1>4. ASSUME NEW c \in Conn, NEW t \in Task, Command(c, t),
             ~ \E ch \in Channel : SendLeave(c, t, ch)
      PROVE  Owned
  <2>1. CASE \E ch \in Channel, m \in BOOLEAN : Speak(c, t, ch, m)
    BY <2>1, SpeakOwned
  <2>2. CASE ~ \E ch \in Channel, m \in BOOLEAN : Speak(c, t, ch, m)
    <3>1. voice' = voice
      BY <1>4, <2>2 DEF Command, SendAuthenticate, SendJoin, SendStart, SendStop,
         SendWatch, SendUnwatch, SendReconnect
    <3> QED
      BY <1>1, <3>1
  <2> QED
    BY <2>1, <2>2
<1>5. ASSUME NEW t \in Task, Resume(t), ~JoinChecked(t), ~Joined(t), ~RosterSent(t)
      PROVE  voice' = voice
  BY <1>5 DEF Resume, Authenticated, SnapshotSent, Denied, MediaFailed, VoiceClosed,
     StreamsLeft, RowEnded, MediaEnded, StartChecked, Started, RowCreated, RowLive,
     PersistFailed, WatchChecked, Watched, SessionClosed, SessionRebuilt
<1>6. ASSUME Background \/ UNCHANGED vars \/ \E c \in Conn : Attach(c)
      PROVE  voice' = voice
  BY <1>6 DEF Background, RosterSentLater, MediaClosedLater, RowEndedLater, vars, Attach
<1> QED
  BY <1>1, <1>2, <1>3, <1>4, <1>5, <1>6, JoinedOwned, RosterSentOwned, CloseOwned,
     ModeChangedOwned, CrashOwned DEF Next

\* Who authenticated stays so.
LEMMA UidGrows ==
  ASSUME TypeOK, [Next]_vars
  PROVE  \A c \in Conn : uid[c] \in User => uid'[c] \in User
<1>1. CASE uid' = uid
  BY <1>1
<1>2. CASE \E t \in Task : Authenticated(t)
  BY <1>2 DEF Authenticated, TypeOK
<1>3. ASSUME NEW d \in Conn, NEW t \in Task, Command(d, t)
      PROVE  uid' = uid
  BY <1>3 DEF Command, SendAuthenticate, SendJoin, SendLeave, Speak, SendStart,
     SendStop, SendWatch, SendUnwatch, SendReconnect, connVars
<1>4. ASSUME NEW t \in Task, Resume(t), ~Authenticated(t)
      PROVE  uid' = uid
  BY <1>4 DEF Resume, SnapshotSent, Denied, MediaFailed, JoinChecked, Joined,
     VoiceClosed, RosterSent, StreamsLeft, RowEnded, MediaEnded, StartChecked,
     Started, RowCreated, RowLive, PersistFailed, WatchChecked, Watched,
     SessionClosed, SessionRebuilt, connVars
<1>5. ASSUME Background \/ UNCHANGED vars \/ Crash
             \/ (\E c \in Conn : Attach(c) \/ Close(c))
             \/ \E t \in Task, m \in Modes : ModeChanged(t, m)
      PROVE  uid' = uid
  BY <1>5 DEF Background, RosterSentLater, MediaClosedLater, RowEndedLater,
     ModeChanged, vars, connVars, Crash, Attach, Close
<1> QED
  BY <1>1, <1>2, <1>3, <1>4, <1>5 DEF Next

\* A record of a task other than applyMediaMode's is not in its loop.
Tame(r) == r.then = "clear" => r.cmd = "mode"

LEMMA AfterMusicTame ==
  ASSUME NEW t, NEW r \in TaskRecord, NEW ps, NEW todo, AfterMusic(t, r, ps, todo)
  PROVE  \E q : Set(t, q) /\ Tame(q)
<1>1. Tame(IdleTask)
  BY DEF Tame, IdleTask
<1>2. Tame([IdleTask EXCEPT !.pc = "media", !.cmd = "join",
              !.conn = r.conn, !.goal = r.goal, !.mode = mode])
  BY DEF Tame, IdleTask
<1>3. ASSUME AwaitChange(t, [r EXCEPT !.then = "end"], ps, todo)
      PROVE  \E q : Set(t, q) /\ Tame(q)
  <2> DEFINE b == [r EXCEPT !.then = "end"]
  <2>1. b \in TaskRecord /\ b.then = "end"
    BY DEF TaskRecord
  <2>2. AwaitChange(t, b, ps, todo)
    BY <1>3
  <2> HIDE DEF b
  <2>3. \A pc, x, s : [b EXCEPT !.pc = pc, !.cur = x, !.todo = s].then = "end"
    BY <2>1 DEF TaskRecord
  <2> QED
    BY <2>2, <2>3 DEF AwaitChange, Tame
<1> QED
  BY <1>1, <1>2, <1>3 DEF AfterMusic, Finish

LEMMA AfterStreamsTame ==
  ASSUME NEW t, NEW r \in TaskRecord, NEW ps, NEW todo, AfterStreams(t, r, ps, todo)
  PROVE  \E q : Set(t, q) /\ Tame(q)
<1>1. ASSUME AwaitChange(t, [r EXCEPT !.then = "music"], ps, todo)
      PROVE  \E q : Set(t, q) /\ Tame(q)
  <2> DEFINE b == [r EXCEPT !.then = "music"]
  <2>1. b \in TaskRecord /\ b.then = "music"
    BY DEF TaskRecord
  <2>2. AwaitChange(t, b, ps, todo)
    BY <1>1
  <2> HIDE DEF b
  <2>3. \A pc, x, s : [b EXCEPT !.pc = pc, !.cur = x, !.todo = s].then = "music"
    BY <2>1 DEF TaskRecord
  <2> QED
    BY <2>2, <2>3 DEF AwaitChange, Tame
<1>2. CASE AfterMusic(t, r, LeaveForUser(ps, "music", {r.ch}, uid[r.conn], Conn),
                      Changes(ps, "music", {r.ch}, uid[r.conn], Conn))
  BY <1>2, AfterMusicTame
<1> QED
  BY <1>1, <1>2 DEF AfterStreams

LEMMA CommandTame ==
  ASSUME NEW c \in Conn, NEW t \in Task, Command(c, t)
  PROVE  \E q : Set(t, q) /\ Tame(q)
<1>1. \A pc, cmd, ch, g :
        /\ Tame([IdleTask EXCEPT !.pc = pc, !.cmd = cmd, !.conn = c])
        /\ Tame([IdleTask EXCEPT !.pc = pc, !.cmd = cmd, !.conn = c, !.goal = g])
        /\ Tame([IdleTask EXCEPT !.pc = pc, !.cmd = cmd, !.conn = c, !.ch = ch])
  BY SMTT(30) DEF Tame, IdleTask
<1>2. CASE SendAuthenticate(c, t)
  BY <1>1, <1>2 DEF SendAuthenticate
<1>3. ASSUME NEW ch \in Channel, SendJoin(c, t, ch) PROVE \E q : Set(t, q) /\ Tame(q)
  BY <1>1, <1>3 DEF SendJoin
<1>4. ASSUME NEW ch \in Channel, NEW m \in BOOLEAN, Speak(c, t, ch, m)
      PROVE  \E q : Set(t, q) /\ Tame(q)
  BY <1>1, <1>4 DEF Speak
<1>5. ASSUME NEW ch \in Channel, NEW k \in Kinds, SendStart(c, t, k, ch)
      PROVE  \E q : Set(t, q) /\ Tame(q)
  <2> DEFINE q == [IdleTask EXCEPT !.pc = "access", !.cmd = "start", !.conn = c,
                                  !.ch = ch, !.kind = k]
  <2>1. Set(t, q) /\ q.then = "end"
    BY <1>5 DEF SendStart, IdleTask
  <2> HIDE DEF q
  <2> QED
    BY <2>1 DEF Tame
<1>6. ASSUME NEW p \in Sess, SendWatch(c, t, p) PROVE \E q : Set(t, q) /\ Tame(q)
  <2> DEFINE q == [IdleTask EXCEPT !.pc = "access", !.cmd = "watch", !.conn = c,
                    !.ch = pubs[p].ch, !.kind = pubs[p].kind, !.pub = p]
  <2>1. Set(t, q) /\ q.then = "end"
    BY <1>6 DEF SendWatch, IdleTask
  <2> HIDE DEF q
  <2> QED
    BY <2>1 DEF Tame
<1>7. ASSUME NEW p \in Sess, SendReconnect(c, t, p) PROVE \E q : Set(t, q) /\ Tame(q)
  <2> DEFINE q == [IdleTask EXCEPT !.pc = IF mode = "sfu" THEN "rclose" ELSE "rcreate",
                    !.cmd = "reconnect", !.conn = c, !.cur = p, !.mode = mode]
  <2>1. Set(t, q) /\ q.then = "end"
    BY <1>7 DEF SendReconnect, IdleTask
  <2> HIDE DEF q
  <2> QED
    BY <2>1 DEF Tame
<1>8. ASSUME NEW ch \in Channel, SendLeave(c, t, ch) PROVE \E q : Set(t, q) /\ Tame(q)
  <2> DEFINE r == [IdleTask EXCEPT !.cmd = "leave", !.conn = c]
             q1 == [r EXCEPT !.pc = "vclose", !.ch = ch, !.then = "streams",
                             !.cur = voice[ch][uid[c]].sess,
                             !.rem = Unseat(voice[ch], uid[c])]
             q2 == [r EXCEPT !.pc = "roster", !.ch = ch, !.then = "streams"]
  <2>1. Set(t, q1) \/ Set(t, q2)
    BY <1>8 DEF SendLeave, LeaveRoom
  <2>2. q1.then = "streams" /\ q2.then = "streams"
    BY DEF IdleTask
  <2> HIDE DEF q1, q2
  <2> QED
    BY <2>1, <2>2 DEF Tame
<1>9. ASSUME NEW cmd \in {"stop", "unwatch"}, NEW ps, NEW todo,
             AfterMusic(t, [IdleTask EXCEPT !.cmd = cmd, !.conn = c], ps, todo)
      PROVE  \E q : Set(t, q) /\ Tame(q)
  <2> DEFINE q1 == [IdleTask EXCEPT !.cmd = cmd]
  <2>1. q1 \in TaskRecord
    BY IdleTyped, UpdateTyped DEF AllCommands
  <2> HIDE DEF q1
  <2>2. [q1 EXCEPT !.conn = c] \in TaskRecord
    BY <2>1, UpdateTyped
  <2> QED
    BY <1>9, <2>2, AfterMusicTame DEF q1
<1>10. ASSUME NEW p \in Sess, SendStop(c, t, p) \/ SendUnwatch(c, t, p)
       PROVE  \E q : Set(t, q) /\ Tame(q)
  BY <1>9, <1>10 DEF SendStop, SendUnwatch
<1> QED
  BY <1>2, <1>3, <1>4, <1>5, <1>6, <1>7, <1>8, <1>10 DEF Command

LEMMA ResumeTame ==
  ASSUME TypeOK, OwnerInv, NEW t \in Task, Resume(t)
  PROVE  \E q : Set(t, q) /\ Tame(q)
<1> DEFINE r == task[t]
<1>1. r \in TaskRecord /\ Tame(r)
  BY InFlight DEF OwnerInv, Tame
<1>2. ASSUME Finish(t) PROVE \E q : Set(t, q) /\ Tame(q)
  BY <1>2 DEF Finish, Tame, IdleTask
<1>3. ASSUME NEW q, Set(t, q), q.then = r.then, q.cmd = r.cmd
      PROVE  \E z : Set(t, z) /\ Tame(z)
  BY <1>1, <1>3 DEF Tame
<1>4. \A pc, m, p, x, e :
        LET Same(q) == q.then = r.then /\ q.cmd = r.cmd IN
        /\ Same([r EXCEPT !.pc = pc])
        /\ Same([r EXCEPT !.pc = pc, !.mode = m])
        /\ Same([r EXCEPT !.pc = pc, !.pub = p])
        /\ Same([r EXCEPT !.pc = pc, !.cur = x, !.rem = e])
  BY <1>1 DEF TaskRecord
<1>5. CASE Denied(t) \/ MediaFailed(t) \/ SnapshotSent(t) \/ RowLive(t)
           \/ SessionRebuilt(t) \/ PersistFailed(t) \/ Watched(t)
  BY <1>2, <1>5 DEF Denied, MediaFailed, SnapshotSent, RowLive, SessionRebuilt,
     PersistFailed, Watched
<1>6. ASSUME AwaitMedia(t) PROVE \E q : Set(t, q) /\ Tame(q)
  BY <1>3, <1>4, <1>6 DEF AwaitMedia
<1>7. CASE \/ Authenticated(t) \/ StartChecked(t) \/ WatchChecked(t)
           \/ RowCreated(t) \/ SessionClosed(t) \/ VoiceClosed(t) \/ Started(t)
  <2>1. CASE StartChecked(t) \/ WatchChecked(t)
    BY <1>2, <1>6, <2>1 DEF StartChecked, WatchChecked
  <2>2. CASE Authenticated(t)
    BY <1>2, <1>3, <1>4, <2>2 DEF Authenticated
  <2>3. CASE RowCreated(t)
    <3> DEFINE q == [r EXCEPT !.pc = "live"]
    <3>1. Set(t, q) /\ q.then = r.then /\ q.cmd = r.cmd
      BY <1>1, <2>3 DEF RowCreated, TaskRecord
    <3> HIDE DEF q
    <3> QED
      BY <1>3, <3>1
  <2>4. CASE SessionClosed(t)
    <3> DEFINE q == [r EXCEPT !.pc = "rcreate", !.mode = mode]
    <3>1. Set(t, q) /\ q.then = r.then /\ q.cmd = r.cmd
      BY <1>1, <2>4 DEF SessionClosed, TaskRecord
    <3> HIDE DEF q
    <3> QED
      BY <1>3, <3>1
  <2>5. CASE VoiceClosed(t)
    <3> DEFINE q == [r EXCEPT !.pc = "roster", !.cur = None, !.rem = EmptyRoom]
    <3>1. Set(t, q) /\ q.then = r.then /\ q.cmd = r.cmd
      BY <1>1, <2>5 DEF VoiceClosed, TaskRecord
    <3> HIDE DEF q
    <3> QED
      BY <1>3, <3>1
  <2>6. CASE Started(t)
    <3>1. PICK s \in Fresh : Finish(t) \/ Set(t, [r EXCEPT !.pc = "create", !.pub = s])
      BY <2>6 DEF Started
    <3> QED
      BY <1>2, <1>3, <1>4, <3>1
  <2> QED
    BY <1>7, <2>1, <2>2, <2>3, <2>4, <2>5, <2>6
<1>8. CASE Joined(t)
  <2>1. Tame([IdleTask EXCEPT !.pc = "roster", !.cmd = "join",
                !.conn = r.conn, !.ch = r.goal])
    BY DEF Tame, IdleTask
  <2> QED
    BY <1>2, <1>8, <2>1 DEF Joined
<1>9. CASE JoinChecked(t)
  <2>1. ASSUME NEW l, NEW u, NEW ch, LeaveRoom(t, r, l, u, ch)
        PROVE  \E q : Set(t, q) /\ Tame(q)
    <3> DEFINE q1 == [r EXCEPT !.pc = "vclose", !.ch = ch, !.then = "streams",
                       !.cur = voice[ch][u].sess, !.rem = Unseat(voice[ch], u)]
               q2 == [r EXCEPT !.pc = "roster", !.ch = ch, !.then = "streams"]
    <3>1. q1.then = "streams" /\ q2.then = "streams"
      BY <1>1 DEF TaskRecord
    <3>2. Set(t, q1) \/ Set(t, q2)
      BY <2>1 DEF LeaveRoom
    <3> HIDE DEF q1, q2
    <3> QED
      BY <3>1, <3>2 DEF Tame
  <2> QED
    BY <1>2, <1>6, <1>9, <2>1 DEF JoinChecked
<1>10. CASE RosterSent(t)
  <2>1. CASE r.then = "clear"
    <3>1. ASSUME NEW ch \in r.rooms,
                 Set(t, [r EXCEPT !.pc = "roster", !.ch = ch, !.then = "clear",
                                  !.rooms = @ \ {ch}])
          PROVE  \E q : Set(t, q) /\ Tame(q)
      <4> DEFINE q == [r EXCEPT !.pc = "roster", !.ch = ch, !.then = "clear",
                                !.rooms = @ \ {ch}]
      <4>1. q.cmd = r.cmd /\ Set(t, q)
        BY <1>1, <3>1 DEF TaskRecord
      <4> HIDE DEF q
      <4> QED
        BY <1>1, <2>1, <4>1 DEF Tame
    <3> QED
      BY <1>2, <1>10, <2>1, <3>1 DEF RosterSent, ClearRooms
  <2>2. CASE r.then # "clear"
    BY <1>2, <1>3, <1>4, <1>10, <2>2 DEF RosterSent
  <2> QED
    BY <2>1, <2>2
<1>11. CASE StreamsLeft(t) \/ MediaEnded(t) \/ RowEnded(t)
  BY <1>1, <1>3, <1>4, <1>11, AfterStreamsTame, AfterMusicTame
  DEF StreamsLeft, MediaEnded, RowEnded, Proceed
<1> QED
  BY <1>5, <1>6, <1>7, <1>8, <1>9, <1>10, <1>11 DEF Resume

LEMMA ModeChangedTame ==
  ASSUME NEW t \in Task, NEW m \in Modes, ModeChanged(t, m)
  PROVE  \E q : Set(t, q) /\ Tame(q)
<1> DEFINE todo == {HostChange(pubs, p) :
                      p \in {q \in Live(pubs) : pubs[q].kind = "stream"}}
           rooms == {ch \in Channel : Occupants(voice[ch]) # {}}
           r == [IdleTask EXCEPT !.cmd = "mode", !.todo = todo, !.rooms = rooms]
<1>1. ClearRooms(t, r)
  BY DEF ModeChanged
<1>2. \A ch, x : [r EXCEPT !.pc = "roster", !.ch = ch, !.then = "clear",
                           !.rooms = x].cmd = "mode"
  BY DEF IdleTask
<1>3. Tame(IdleTask)
  BY DEF Tame, IdleTask
<1> HIDE DEF r
<1> QED
  BY <1>1, <1>2, <1>3 DEF ClearRooms, Finish, Tame

LEMMA OwnerInvStep ==
  ASSUME TypeOK, OwnerInv, [Next]_vars
  PROVE  OwnerInv'
<1>1. \A c \in Conn : conn'[c] = "unused" => uid'[c] = None
  BY UnusedUnknown DEF OwnerInv
<1>2. \A ch \in Channel, u \in User : voice'[ch][u] # None => voice'[ch][u].conn \in Conn
  BY TypeOKStep DEF TypeOK, Room, Participant
<1>3. \A ch \in Channel, u \in User :
        voice'[ch][u] # None => uid'[voice'[ch][u].conn] \in User
  BY <1>2, StepOwned, UidGrows DEF Owned
<1>4. \A t \in Task : Tame(task[t])
  BY DEF OwnerInv, Tame
<1>5. ASSUME NEW t \in Task, \E q : Set(t, q) /\ Tame(q)
      PROVE  \A x \in Task : Tame(task'[x])
  BY <1>4, <1>5 DEF Set, TypeOK
<1>6. ASSUME task' = task PROVE \A x \in Task : Tame(task'[x])
  BY <1>4, <1>6
<1>7. ASSUME Crash PROVE \A x \in Task : Tame(task'[x])
  BY <1>7 DEF Crash, Tame, IdleTask
<1>8. ASSUME Background \/ UNCHANGED vars \/ \E c \in Conn : Attach(c) \/ Close(c)
      PROVE  task' = task
  BY <1>8 DEF Background, RosterSentLater, MediaClosedLater, RowEndedLater,
     vars, Attach, Close
<1>9. \A t \in Task : Tame(task'[t])
  BY <1>4, <1>5, <1>6, <1>7, <1>8, CommandTame, ResumeTame, ModeChangedTame DEF Next
<1> QED
  BY <1>1, <1>3, <1>9 DEF OwnerInv, Tame

\* A voice record of a user goes only when the connection that owns it closes,
\* when the media mode changes, or by a voice.join or voice.leave of the same
\* user: the close handler compares the connection (leaveAllChannels), so one
\* socket of a user never takes what the user holds through another.
THEOREM VoiceDroppedByOwnerTheorem == Spec => VoiceDroppedByOwner
<1>1. Init => OwnerInv
  BY DEF Init, OwnerInv, EmptyRoom, IdleTask
<1>2. TypeOK /\ OwnerInv /\ [Next]_vars => OwnerInv'
  BY OwnerInvStep
<1>3. TypeOK /\ OwnerInv /\ [Next]_vars =>
        \A ch \in Channel, u \in User :
          voice[ch][u] # None /\ voice'[ch][u] = None =>
            \/ conn'[voice[ch][u].conn] = "closed"
            \/ mode' # mode
            \/ \E t \in Task : /\ task'[t] # task[t]
                               /\ \/ task'[t].cmd = "mode"
                                  \/ /\ task'[t].cmd \in {"join", "leave"}
                                     /\ uid[task'[t].conn] = u
                                     /\ task'[t].ch = ch
  BY StepOwned DEF Owned, Dropped, ByOwner
<1>4. Spec => []OwnerInv
  BY <1>1, <1>2, TypeInvariant, PTL DEF Spec
<1> QED
  BY <1>3, <1>4, TypeInvariant, PTL DEF Spec, VoiceDroppedByOwner
=============================================================================
