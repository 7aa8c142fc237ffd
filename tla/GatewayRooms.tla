---------------------------- MODULE GatewayRooms ----------------------------
(***************************************************************************)
(* The Gateway of Baker: connections, the voice rooms and the stream and   *)
(* music publications, and the command handlers that change them           *)
(* (apps/gateway/src: app.ts, app-runtime.ts, ws/event-router.ts).         *)
(*                                                                         *)
(* The process is one JavaScript thread.  A command runs in pieces: the    *)
(* code between two awaits is atomic, and between the pieces anything else *)
(* may run, the close handler of its own socket included.  A command in    *)
(* flight is a task: a slot that holds where it waits (pc) and the locals  *)
(* it will use when it resumes.  One connection may have several commands  *)
(* in flight, since app.ts starts a handler per message and never queues.  *)
(* An await on the database or on apps/media and the effect it has there   *)
(* are one step, taken when the handler resumes.                           *)
(*                                                                         *)
(* Abstracted: payload validation, the guild (every authenticated user is  *)
(* a member of the one guild), ICE servers, diagnostics, link quality, the *)
(* relay of signals and the SFU transport commands (no room state), and    *)
(* the stream/music state broadcasts (always sent from current state).     *)
(***************************************************************************)
EXTENDS RoomManagers

CONSTANTS Task,      \* slots for operations in flight
          Commands,  \* the operations the environment of an instance uses
          Kinds,     \* the publication kinds its clients use
          Modes,     \* the media modes its administrator chooses from
          Watchers   \* the connections whose view of the rosters is kept

AllCommands == {"join", "leave", "speak", "start", "stop", "watch", "unwatch",
                "reconnect", "mode", "close", "crash"}

ASSUME CommandsAssumption == /\ Commands \subseteq AllCommands
                             /\ Kinds \subseteq PubKinds
                             /\ Modes \subseteq {"p2p", "sfu"} /\ Modes # {}
                             /\ Watchers \subseteq Conn
ASSUME NoneIsNoRecord ==
  /\ None \notin Participant \cup Viewer \cup Publication
  /\ None \notin [sess : Sess, muted : BOOLEAN]

VARIABLES
  conn,    \* connection -> "unused", "open" (attached), "closed" (detached)
  uid,     \* connection -> its authenticated user, None before
  vch,     \* connection -> GatewayConnection.voiceChannelId
  index,   \* user -> connection, ConnectionManager.userToConnectionId
  mode,    \* GatewayRuntime.mediaMode
  voice,   \* channel -> its room
  pubs,    \* the publications of every channel and kind
  media,   \* apps/media: session -> "fresh", its transport mode, "closed"
  row,     \* stream_sessions: session -> "absent", "active", "ended"
  seen,    \* watcher -> channel -> the last participant list it was sent
  bg,      \* operations started with `void` and not yet finished
  task     \* slot -> operation in flight

connVars == <<conn, uid, vch, index>>
vars == <<conn, uid, vch, index, mode, voice, pubs, media, row, seen, bg, task>>

IdleTask == [pc |-> "idle", cmd |-> None, conn |-> None, ch |-> None,
             goal |-> None, kind |-> None, pub |-> None, cur |-> None,
             mode |-> "p2p", then |-> "end", todo |-> {}, rooms |-> {},
             rem |-> EmptyRoom]

PCs == {"idle", "auth", "snapshot", "access", "media", "create", "live",
        "vclose", "roster", "streams", "endrow", "endmedia",
        "rclose", "rcreate"}

TaskRecord ==
  [pc : PCs, cmd : AllCommands \cup {"auth", None}, conn : Conn \cup {None},
   ch : Channel \cup {None}, goal : Channel \cup {None},
   kind : PubKinds \cup {None}, pub : Sess \cup {None}, cur : Sess \cup {None},
   mode : {"p2p", "sfu"}, then : {"end", "streams", "music", "clear"},
   todo : SUBSET Change, rooms : SUBSET Channel, rem : Room]

BgOps == ({"roster"} \X Channel) \cup ({"close", "endrow"} \X Sess)

\* The locals a task needs where it waits.
WellFormed(r) ==
  /\ r.pc # "idle" /\ r.cmd # "mode" => r.conn \in Conn
  /\ r.pc # "idle" /\ r.cmd \notin {"mode", "auth"} => uid[r.conn] \in User
  /\ r.pc \in {"auth", "snapshot"} => r.cmd = "auth"
  /\ r.pc \in {"access", "media"} =>
       /\ r.cmd \in {"join", "start", "watch"}
       /\ r.cmd = "join" => r.goal \in Channel
       /\ r.cmd # "join" => r.ch \in Channel /\ r.kind \in PubKinds
       /\ r.cmd = "watch" => r.pub \in Sess
  /\ r.pc \in {"create", "live"} => r.cmd = "start" /\ r.pub \in Sess
  /\ r.pc \in {"vclose", "roster", "streams"} => r.ch \in Channel
  /\ r.pc \in {"vclose", "endrow", "endmedia", "rclose", "rcreate"} =>
       r.cur \in Sess
  /\ r.pc \in {"vclose", "streams"} \/ (r.pc = "roster" /\ r.then = "streams") =>
       r.cmd \in {"join", "leave"} /\ r.then = "streams"
  /\ r.pc \in {"endrow", "endmedia"} =>
       /\ r.cmd \in {"join", "leave", "stop", "unwatch"}
       /\ r.then \in {"music", "end"}
       /\ r.then = "music" => r.ch \in Channel
  /\ r.pc \in {"rclose", "rcreate"} => r.cmd = "reconnect"

TypeOK ==
  /\ conn \in [Conn -> {"unused", "open", "closed"}]
  /\ uid \in [Conn -> User \cup {None}]
  /\ vch \in [Conn -> Channel \cup {None}]
  /\ index \in [User -> Conn \cup {None}]
  /\ mode \in {"p2p", "sfu"}
  /\ voice \in [Channel -> Room]
  /\ pubs \in Publications
  /\ media \in [Sess -> {"fresh", "p2p", "sfu", "closed"}]
  /\ row \in [Sess -> {"absent", "active", "ended"}]
  /\ seen \in [Watchers -> [Channel -> Snapshots]]
  /\ bg \subseteq BgOps
  /\ task \in [Task -> TaskRecord]
  /\ \A t \in Task : WellFormed(task[t])

Init ==
  /\ conn = [c \in Conn |-> "unused"]
  /\ uid = [c \in Conn |-> None]
  /\ vch = [c \in Conn |-> None]
  /\ index = [u \in User |-> None]
  /\ mode \in Modes
  /\ voice = [ch \in Channel |-> EmptyRoom]
  /\ pubs = [s \in Sess |-> None]
  /\ media = [s \in Sess |-> "fresh"]
  /\ row = [s \in Sess |-> "absent"]
  /\ seen = [w \in Watchers |-> [ch \in Channel |-> Snapshot(EmptyRoom)]]
  /\ bg = {}
  /\ task = [t \in Task |-> IdleTask]

-----------------------------------------------------------------------------
(* Helpers.                                                                *)

\* Connections in the ConnectionManager with a user: the guild's members.
Member(c) == conn[c] = "open" /\ uid[c] # None
Members == {c \in Conn : Member(c)}

\* The watchers among cs, which must be attached, are sent the room.
Told(cs, ch, room) ==
  [w \in Watchers |->
     IF w \in cs /\ conn[w] = "open"
     THEN [seen[w] EXCEPT ![ch] = Snapshot(room)] ELSE seen[w]]

\* closeSfuSession: it warns and goes on when the call fails.
CloseMedia(s) == \/ media' = [media EXCEPT ![s] = "closed"]
                 \/ UNCHANGED media

Fresh == {s \in Sess : media[s] = "fresh"}

EndRow(r, ss) ==
  [s \in Sess |-> IF s \in ss /\ r[s] = "active" THEN "ended" ELSE r[s]]

Set(t, r) == task' = [task EXCEPT ![t] = r]
Finish(t) == Set(t, IdleTask)

\* A command from an authenticated, attached connection starts a task.
Send(c, t, cmd) ==
  /\ cmd \in Commands
  /\ Member(c)
  /\ task[t].pc = "idle"

-----------------------------------------------------------------------------
(* Connections: attach, system.authenticate, close.                        *)

Attach(c) ==
  /\ conn[c] = "unused"
  /\ conn' = [conn EXCEPT ![c] = "open"]
  /\ UNCHANGED <<uid, vch, index, mode, voice, pubs, media, row, seen, bg, task>>

\* The client authenticates each socket once, on system.ready.
SendAuthenticate(c, t) ==
  /\ conn[c] = "open" /\ uid[c] = None
  /\ task[t].pc = "idle"
  /\ \A x \in Task : task[x].cmd = "auth" => task[x].conn # c
  /\ Set(t, [IdleTask EXCEPT !.pc = "auth", !.cmd = "auth", !.conn = c])
  /\ UNCHANGED <<connVars, mode, voice, pubs, media, row, seen, bg>>

\* markAuthenticated, unless the socket closed while the database was asked.
Authenticated(t) ==
  LET c == task[t].conn IN
  /\ task[t].pc = "auth"
  /\ IF conn[c] = "open"
     THEN /\ \E u \in User : /\ uid' = [uid EXCEPT ![c] = u]
                             /\ index' = [index EXCEPT ![u] = c]
          /\ Set(t, [task[t] EXCEPT !.pc = "snapshot"])
     ELSE /\ Finish(t)
          /\ UNCHANGED <<uid, index>>
  /\ UNCHANGED <<conn, vch, mode, voice, pubs, media, row, seen, bg>>

\* sendVoiceRosterSnapshotToConnection
SnapshotSent(t) ==
  LET c == task[t].conn IN
  /\ task[t].pc = "snapshot"
  /\ seen' = [w \in Watchers |->
                IF w = c /\ conn[c] = "open"
                THEN [ch \in Channel |-> Snapshot(voice[ch])] ELSE seen[w]]
  /\ Finish(t)
  /\ UNCHANGED <<connVars, mode, voice, pubs, media, row, bg>>

\* The close handler: detach, then drop what this connection owns.
Close(c) ==
  LET u    == uid[c]
      left == {ch \in Channel : u # None /\ voice[ch][u] # None
                                         /\ voice[ch][u].conn = c}
      ps   == LeaveForUser(LeaveForUser(pubs, "stream", Channel, u, {c}),
                           "music", Channel, u, {c})
      chs  == Changes(pubs, "stream", Channel, u, {c})
                \cup Changes(pubs, "music", Channel, u, {c})
      gone == {voice[ch][u].sess : ch \in left} \cup {x.sess : x \in chs}
  IN
  /\ "close" \in Commands
  /\ conn[c] = "open"
  /\ conn' = [conn EXCEPT ![c] = "closed"]
  /\ IF u = None
     THEN UNCHANGED <<index, voice, pubs, seen, bg>>
     ELSE /\ index' = [index EXCEPT ![u] = IF @ = c THEN None ELSE @]
          /\ voice' = [ch \in Channel |-> UnseatOwned(voice[ch], u, c)]
          /\ pubs' = ps
          /\ seen' = [w \in Watchers |-> [ch \in Channel |->
               IF ch \in left /\ w # c /\ conn[w] = "open"
                              /\ w \in RoomConns(voice'[ch])
               THEN Snapshot(voice'[ch]) ELSE seen[w][ch]]]
          /\ bg' = bg \cup ({"roster"} \X left) \cup ({"endrow"} \X StoppedStreams(chs))
                      \cup (IF mode = "sfu" THEN {"close"} \X gone ELSE {})
  /\ UNCHANGED <<uid, vch, mode, media, row, task>>

-----------------------------------------------------------------------------
(* handleVoiceLeave.                                                       *)

\* Up to the first await; `leaver` is the connection it is called with.
LeaveRoom(t, r, leaver, u, ch) ==
  LET p    == voice[ch][u]
      room == Unseat(voice[ch], u) IN
  /\ voice' = [voice EXCEPT ![ch] = room]
  /\ vch' = [vch EXCEPT ![leaver] = None]
  /\ IF mode = "sfu" /\ p # None
     THEN /\ Set(t, [r EXCEPT !.pc = "vclose", !.ch = ch, !.then = "streams",
                              !.cur = p.sess, !.rem = room])
          /\ UNCHANGED seen
     ELSE /\ Set(t, [r EXCEPT !.pc = "roster", !.ch = ch, !.then = "streams"])
          /\ seen' = Told(RoomConns(room), ch, room)

\* The room must exist, the user need not be in it.
SendLeave(c, t, ch) ==
  /\ Send(c, t, "leave")
  /\ Occupants(voice[ch]) # {}
  /\ LeaveRoom(t, [IdleTask EXCEPT !.cmd = "leave", !.conn = c], c, uid[c], ch)
  /\ UNCHANGED <<conn, uid, index, mode, pubs, media, row, bg>>

\* Mutants of VoiceClosed: the roster broadcast is forgotten; the session is
\* looked up after the await.
VoiceClosedSilently(t) ==
  LET r == task[t] IN
  /\ r.pc = "vclose"
  /\ CloseMedia(r.cur)
  /\ seen' = Told(RoomConns(r.rem), r.ch, r.rem)
  /\ Set(t, [r EXCEPT !.pc = "streams", !.cur = None, !.rem = EmptyRoom])
  /\ UNCHANGED <<connVars, mode, voice, pubs, row, bg>>
VoiceClosedLate(t) ==
  LET r == task[t]
      p == voice[r.ch][uid[r.conn]] IN
  /\ r.pc = "vclose"
  /\ CloseMedia(IF p = None THEN r.cur ELSE p.sess)
  /\ seen' = Told(RoomConns(r.rem), r.ch, r.rem)
  /\ Set(t, [r EXCEPT !.pc = "roster", !.cur = None, !.rem = EmptyRoom])
  /\ UNCHANGED <<connVars, mode, voice, pubs, row, bg>>

\* After closeSfuSession the snapshot taken before it is broadcast.
VoiceClosed(t) ==
  LET r == task[t] IN
  /\ r.pc = "vclose"
  /\ CloseMedia(r.cur)
  /\ seen' = Told(RoomConns(r.rem), r.ch, r.rem)
  /\ Set(t, [r EXCEPT !.pc = "roster", !.cur = None, !.rem = EmptyRoom])
  /\ UNCHANGED <<connVars, mode, voice, pubs, row, bg>>

\* The changes whose processing awaits: the row of a stopped stream, and in
\* sfu mode the media session of any change.
Awaited(todo) ==
  {x \in todo : mode = "sfu" \/ (x.kind = "stream" /\ x.role = "host")}

AwaitChange(t, r, ps, todo) ==
  \E x \in Awaited(todo) :
    /\ Set(t, [r EXCEPT
                 !.pc = IF x.kind = "stream" /\ x.role = "host"
                        THEN "endrow" ELSE "endmedia",
                 !.cur = x.sess, !.todo = todo \ {x}])
    /\ pubs' = ps

\* The end of the command, or the end of the move of a voice.join.
AfterMusic(t, r, ps, todo) ==
  \/ AwaitChange(t, [r EXCEPT !.then = "end"], ps, todo)
  \/ /\ Awaited(todo) = {}
     /\ pubs' = ps
     /\ IF r.goal = None THEN Finish(t)
        ELSE Set(t, [IdleTask EXCEPT !.pc = "media", !.cmd = "join",
                       !.conn = r.conn, !.goal = r.goal, !.mode = mode])

AfterStreams(t, r, ps, todo) ==
  LET u == uid[r.conn] IN
  \/ AwaitChange(t, [r EXCEPT !.then = "music"], ps, todo)
  \/ /\ Awaited(todo) = {}
     /\ AfterMusic(t, r, LeaveForUser(ps, "music", {r.ch}, u, Conn),
                   Changes(ps, "music", {r.ch}, u, Conn))

StreamsLeft(t) ==
  LET r == task[t]
      u == uid[r.conn] IN
  /\ r.pc = "streams"
  /\ AfterStreams(t, r, LeaveForUser(pubs, "stream", {r.ch}, u, Conn),
                  Changes(pubs, "stream", {r.ch}, u, Conn))
  /\ UNCHANGED <<connVars, mode, voice, media, row, seen, bg>>

Proceed(t, r) == IF r.then = "music" THEN AfterStreams(t, r, pubs, r.todo)
                 ELSE AfterMusic(t, r, pubs, r.todo)

\* updateStatus(.., 'idle') of a stopped stream returns.
RowEnded(t) ==
  LET r == task[t] IN
  /\ r.pc = "endrow"
  /\ row' = EndRow(row, {r.cur})
  /\ IF mode = "sfu"
     THEN Set(t, [r EXCEPT !.pc = "endmedia"]) /\ UNCHANGED pubs
     ELSE Proceed(t, r)
  /\ UNCHANGED <<connVars, mode, voice, media, seen, bg>>

MediaEnded(t) ==
  LET r == task[t] IN
  /\ r.pc = "endmedia"
  /\ CloseMedia(r.cur)
  /\ Proceed(t, r)
  /\ UNCHANGED <<connVars, mode, voice, row, seen, bg>>

-----------------------------------------------------------------------------
(* broadcastVoiceRosterUpdated returns from the database and sends the     *)
(* current participants to every member; what follows depends on the       *)
(* caller.                                                                 *)

\* The loop of applyMediaMode, from the next channel on.
ClearRooms(t, r) ==
  \/ /\ r.rooms = {}
     /\ bg' = bg \cup ({"endrow"} \X StoppedStreams(r.todo))
     /\ Finish(t)
     /\ UNCHANGED voice
  \/ \E ch \in r.rooms :
       /\ voice' = [voice EXCEPT ![ch] = EmptyRoom]
       /\ Set(t, [r EXCEPT !.pc = "roster", !.ch = ch, !.then = "clear",
                           !.rooms = @ \ {ch}])
       /\ UNCHANGED bg

RosterSent(t) ==
  LET r == task[t] IN
  /\ r.pc = "roster"
  /\ seen' = Told(Members, r.ch, voice[r.ch])
  /\ CASE r.then = "streams" ->
            Set(t, [r EXCEPT !.pc = "streams"]) /\ UNCHANGED <<voice, bg>>
       [] r.then = "clear" -> ClearRooms(t, r)
       [] OTHER -> Finish(t) /\ UNCHANGED <<voice, bg>>
  /\ UNCHANGED <<connVars, mode, pubs, media, row>>

-----------------------------------------------------------------------------
(* voice.join and voice.speaking.updated.                                  *)

SendJoin(c, t, ch) ==
  /\ Send(c, t, "join")
  /\ Set(t, [IdleTask EXCEPT !.pc = "access", !.cmd = "join",
                             !.conn = c, !.goal = ch])
  /\ UNCHANGED <<connVars, mode, voice, pubs, media, row, seen, bg>>

\* The channel and membership checks of any command fail.
Denied(t) ==
  /\ task[t].pc = "access"
  /\ Finish(t)
  /\ UNCHANGED <<connVars, mode, voice, pubs, media, row, seen, bg>>

AwaitMedia(t) == Set(t, [task[t] EXCEPT !.pc = "media", !.mode = mode])

JoinChecked(t) ==
  LET r  == task[t]
      u  == uid[r.conn]
      in == {ch \in Channel : voice[ch][u] # None} IN
  /\ r.pc = "access" /\ r.cmd = "join"
  /\ \/ /\ in = {}
        /\ AwaitMedia(t)
        /\ UNCHANGED <<vch, voice, seen>>
     \/ \E ch \in in :     \* getChannelForUser: the first room with the user
          LET owner == voice[ch][u].conn IN
          IF ch = r.goal /\ owner = r.conn
          THEN Finish(t) /\ UNCHANGED <<vch, voice, seen>>
          ELSE LeaveRoom(t, r, IF conn[owner] = "open" THEN owner ELSE r.conn,
                         u, ch)
  /\ UNCHANGED <<conn, uid, index, mode, pubs, media, row, bg>>

\* createMediaSession succeeds; the user may have got a record meanwhile.
Joined(t) ==
  LET r == task[t]
      u == uid[r.conn] IN
  /\ r.pc = "media" /\ r.cmd = "join"
  /\ \E s \in Fresh :
       LET room == Seat(voice[r.goal], u, r.conn, s) IN
       /\ media' = [media EXCEPT ![s] = r.mode]
       /\ IF voice[r.goal][u] # None
          THEN Finish(t) /\ UNCHANGED <<vch, voice, seen>>
          ELSE /\ voice' = [voice EXCEPT ![r.goal] = room]
               /\ vch' = [vch EXCEPT ![r.conn] = r.goal]
               /\ seen' = Told(RoomConns(room), r.goal, room)
               /\ Set(t, [IdleTask EXCEPT !.pc = "roster", !.cmd = "join",
                            !.conn = r.conn, !.ch = r.goal])
  /\ UNCHANGED <<conn, uid, index, mode, pubs, row, bg>>

\* The call fails or times out; apps/media may have made the session.
MediaFailed(t) ==
  /\ task[t].pc = "media"
  /\ \/ UNCHANGED media
     \/ \E s \in Fresh : media' = [media EXCEPT ![s] = task[t].mode]
  /\ Finish(t)
  /\ UNCHANGED <<connVars, mode, voice, pubs, row, seen, bg>>

\* setMuted and voice.member.updated, for whichever connection of the user.
Speak(c, t, ch, m) ==
  LET u    == uid[c]
      room == Mute(voice[ch], u, m) IN
  /\ Send(c, t, "speak")
  /\ voice[ch][u] # None
  /\ voice' = [voice EXCEPT ![ch] = room]
  /\ seen' = [w \in Watchers |->
                IF w \in RoomConns(room) /\ conn[w] = "open"
                THEN [seen[w] EXCEPT ![ch][u] = Snapshot(room)[u]] ELSE seen[w]]
  /\ Set(t, [IdleTask EXCEPT !.pc = "roster", !.cmd = "speak",
                             !.conn = c, !.ch = ch])
  /\ UNCHANGED <<connVars, mode, pubs, media, row, bg>>

-----------------------------------------------------------------------------
(* stream.start and music.start, stream.stop and music.stop.               *)

SendStart(c, t, k, ch) ==
  /\ Send(c, t, "start")
  /\ Set(t, [IdleTask EXCEPT !.pc = "access", !.cmd = "start", !.conn = c,
                             !.ch = ch, !.kind = k])
  /\ UNCHANGED <<connVars, mode, voice, pubs, media, row, seen, bg>>

\* Sharing music needs a voice record; nobody hosts twice.
StartChecked(t) ==
  LET r == task[t]
      u == uid[r.conn] IN
  /\ r.pc = "access" /\ r.cmd = "start"
  /\ IF /\ r.kind = "music" => voice[r.ch][u] # None
        /\ Hosted(pubs, r.kind, r.ch, u) = {}
     THEN AwaitMedia(t) ELSE Finish(t)
  /\ UNCHANGED <<connVars, mode, voice, pubs, media, row, seen, bg>>

\* Mutant of Started: the check made before the media call is trusted.
StartedUnchecked(t) ==
  LET r == task[t] IN
  /\ r.pc = "media" /\ r.cmd = "start"
  /\ \E s \in Fresh :
       /\ media' = [media EXCEPT ![s] = r.mode]
       /\ pubs' = Publish(pubs, s, r.kind, r.ch, uid[r.conn], r.conn)
       /\ IF r.kind = "music" THEN Finish(t)
          ELSE Set(t, [r EXCEPT !.pc = "create", !.pub = s])
  /\ UNCHANGED <<connVars, mode, voice, row, seen, bg>>

Started(t) ==
  LET r == task[t]
      u == uid[r.conn] IN
  /\ r.pc = "media" /\ r.cmd = "start"
  /\ \E s \in Fresh :
       /\ media' = [media EXCEPT ![s] = r.mode]
       /\ IF Hosted(pubs, r.kind, r.ch, u) # {}
          THEN Finish(t) /\ UNCHANGED pubs
          ELSE /\ pubs' = Publish(pubs, s, r.kind, r.ch, u, r.conn)
               /\ IF r.kind = "music" THEN Finish(t)
                  ELSE Set(t, [r EXCEPT !.pc = "create", !.pub = s])
  /\ UNCHANGED <<connVars, mode, voice, row, seen, bg>>

\* streamSessions.create, then updateStatus(.., 'live').
RowCreated(t) ==
  LET r == task[t] IN
  /\ r.pc = "create"
  /\ row' = [row EXCEPT ![r.pub] = "active"]
  /\ Set(t, [r EXCEPT !.pc = "live"])
  /\ UNCHANGED <<connVars, mode, voice, pubs, media, seen, bg>>

\* 'live' keeps endedAt, so an ended row stays ended.
RowLive(t) ==
  /\ task[t].pc = "live"
  /\ Finish(t)
  /\ UNCHANGED <<connVars, mode, voice, pubs, media, row, seen, bg>>

\* Either database call fails: the publication is stopped if it is there.
PersistFailed(t) ==
  /\ task[t].pc \in {"create", "live"}
  /\ pubs' = Unpublish(pubs, task[t].pub)
  /\ Finish(t)
  /\ UNCHANGED <<connVars, mode, voice, media, row, seen, bg>>

\* stop removes the publication at once, then ends its row and session.
SendStop(c, t, p) ==
  /\ Send(c, t, "stop")
  /\ pubs[p] # None /\ pubs[p].host = uid[c]
  /\ AfterMusic(t, [IdleTask EXCEPT !.cmd = "stop", !.conn = c],
                Unpublish(pubs, p), {HostChange(pubs, p)})
  /\ UNCHANGED <<connVars, mode, voice, media, row, seen, bg>>

-----------------------------------------------------------------------------
(* stream.watch and music.listen, stream.unwatch and music.unlisten.       *)

SendWatch(c, t, p) ==
  /\ Send(c, t, "watch")
  /\ pubs[p] # None
  /\ Set(t, [IdleTask EXCEPT !.pc = "access", !.cmd = "watch", !.conn = c,
               !.ch = pubs[p].ch, !.kind = pubs[p].kind, !.pub = p])
  /\ UNCHANGED <<connVars, mode, voice, pubs, media, row, seen, bg>>

\* A user who has a viewer record is answered with that record's session.
WatchChecked(t) ==
  LET r == task[t]
      u == uid[r.conn] IN
  /\ r.pc = "access" /\ r.cmd = "watch"
  /\ IF /\ r.kind = "music" => voice[r.ch][u] # None
        /\ pubs[r.pub] # None
        /\ pubs[r.pub].host # u
        /\ pubs[r.pub].viewers[u] = None
     THEN AwaitMedia(t) ELSE Finish(t)
  /\ UNCHANGED <<connVars, mode, voice, pubs, media, row, seen, bg>>

Watched(t) ==
  LET r == task[t]
      u == uid[r.conn] IN
  /\ r.pc = "media" /\ r.cmd = "watch"
  /\ \E s \in Fresh :
       /\ media' = [media EXCEPT ![s] = r.mode]
       /\ pubs' = IF pubs[r.pub] # None /\ pubs[r.pub].viewers[u] = None
                  THEN AddViewer(pubs, r.pub, u, r.conn, s) ELSE pubs
  /\ Finish(t)
  /\ UNCHANGED <<connVars, mode, voice, row, seen, bg>>

SendUnwatch(c, t, p) ==
  LET u == uid[c] IN
  /\ Send(c, t, "unwatch")
  /\ pubs[p] # None /\ pubs[p].viewers[u] # None
  /\ AfterMusic(t, [IdleTask EXCEPT !.cmd = "unwatch", !.conn = c],
                RemoveViewer(pubs, p, u), {ViewerChange(pubs, p, u)})
  /\ UNCHANGED <<connVars, mode, voice, media, row, seen, bg>>

-----------------------------------------------------------------------------
(* media.session.reconnect: close and create under the same session id.    *)

SendReconnect(c, t, s) ==
  /\ Send(c, t, "reconnect")
  /\ s \in OwnedSessions(voice, pubs, uid[c], c)
  /\ Set(t, [IdleTask EXCEPT
               !.pc = IF mode = "sfu" THEN "rclose" ELSE "rcreate",
               !.cmd = "reconnect", !.conn = c, !.cur = s, !.mode = mode])
  /\ UNCHANGED <<connVars, mode, voice, pubs, media, row, seen, bg>>

SessionClosed(t) ==
  LET r == task[t] IN
  /\ r.pc = "rclose"
  /\ CloseMedia(r.cur)
  /\ Set(t, [r EXCEPT !.pc = "rcreate", !.mode = mode])
  /\ UNCHANGED <<connVars, mode, voice, pubs, row, seen, bg>>

SessionRebuilt(t) ==
  LET r == task[t] IN
  /\ r.pc = "rcreate"
  /\ \/ media' = [media EXCEPT ![r.cur] = r.mode]
     \/ UNCHANGED media
  /\ Finish(t)
  /\ UNCHANGED <<connVars, mode, voice, pubs, row, seen, bg>>

-----------------------------------------------------------------------------
(* applyMediaMode, started by a message of the administration API.         *)

ModeChanged(t, m) ==
  LET r == [IdleTask EXCEPT !.cmd = "mode",
              !.todo = {HostChange(pubs, p) :
                          p \in {q \in Live(pubs) : pubs[q].kind = "stream"}},
              !.rooms = {ch \in Channel : Occupants(voice[ch]) # {}}] IN
  /\ "mode" \in Commands /\ task[t].pc = "idle"
  /\ m # mode
  /\ mode' = m
  /\ pubs' = [s \in Sess |-> None]
  /\ ClearRooms(t, r)
  /\ UNCHANGED <<connVars, media, row, seen>>

-----------------------------------------------------------------------------
(* Operations started with `void` finish, and the process may die: a       *)
(* rejected handler is an unhandled rejection.  The database survives.     *)

RosterSentLater(ch) ==
  /\ <<"roster", ch>> \in bg
  /\ bg' = bg \ {<<"roster", ch>>}
  /\ seen' = Told(Members, ch, voice[ch])
  /\ UNCHANGED <<connVars, mode, voice, pubs, media, row, task>>

MediaClosedLater(s) ==
  /\ <<"close", s>> \in bg
  /\ bg' = bg \ {<<"close", s>>}
  /\ CloseMedia(s)
  /\ UNCHANGED <<connVars, mode, voice, pubs, row, seen, task>>

RowEndedLater(s) ==
  /\ <<"endrow", s>> \in bg
  /\ bg' = bg \ {<<"endrow", s>>}
  /\ row' = EndRow(row, {s})
  /\ UNCHANGED <<connVars, mode, voice, pubs, media, seen, task>>

Crash ==
  /\ "crash" \in Commands
  /\ conn' = [c \in Conn |-> IF conn[c] = "open" THEN "closed" ELSE conn[c]]
  /\ index' = [u \in User |-> None]
  /\ voice' = [ch \in Channel |-> EmptyRoom]
  /\ pubs' = [s \in Sess |-> None]
  /\ bg' = {}
  /\ task' = [t \in Task |-> IdleTask]
  /\ UNCHANGED <<uid, vch, mode, media, row, seen>>

-----------------------------------------------------------------------------

Command(c, t) ==
  \/ SendAuthenticate(c, t)
  \/ \E ch \in Channel :
       \/ SendJoin(c, t, ch)
       \/ SendLeave(c, t, ch)
       \/ \E m \in BOOLEAN : Speak(c, t, ch, m)
       \/ \E k \in Kinds : SendStart(c, t, k, ch)
  \/ \E p \in Sess :
       \/ SendStop(c, t, p)
       \/ SendWatch(c, t, p)
       \/ SendUnwatch(c, t, p)
       \/ SendReconnect(c, t, p)

\* A task in flight resumes from its await.
Resume(t) ==
  \/ Authenticated(t) \/ SnapshotSent(t)
  \/ Denied(t) \/ MediaFailed(t)
  \/ JoinChecked(t) \/ Joined(t)
  \/ VoiceClosed(t) \/ RosterSent(t) \/ StreamsLeft(t)
  \/ RowEnded(t) \/ MediaEnded(t)
  \/ StartChecked(t) \/ Started(t)
  \/ RowCreated(t) \/ RowLive(t) \/ PersistFailed(t)
  \/ WatchChecked(t) \/ Watched(t)
  \/ SessionClosed(t) \/ SessionRebuilt(t)

Background ==
  \/ \E ch \in Channel : RosterSentLater(ch)
  \/ \E s \in Sess : MediaClosedLater(s) \/ RowEndedLater(s)

Next ==
  \/ \E c \in Conn : Attach(c) \/ Close(c)
  \/ \E c \in Conn, t \in Task : Command(c, t)
  \/ \E t \in Task : Resume(t)
  \/ \E t \in Task, m \in Modes : ModeChanged(t, m)
  \/ Background
  \/ Crash

Spec == Init /\ [][Next]_vars

\* Node runs every resumed handler, and each awaited call returns or times out
\* (5 s for apps/media), so a task in flight and a detached operation go on.
Fairness == /\ \A t \in Task : WF_vars(Resume(t))
            /\ \A ch \in Channel : WF_vars(RosterSentLater(ch))
FairSpec == Spec /\ Fairness

-----------------------------------------------------------------------------
(* Properties that hold.                                                   *)

\* A user hosts at most one stream and one music share in a channel, however
\* many starts are in flight on however many connections (the check before the
\* media call is repeated by start() after it).
UniqueHost ==
  \A p, q \in Live(pubs) :
    /\ pubs[p].kind = pubs[q].kind /\ pubs[p].ch = pubs[q].ch
    /\ pubs[p].host = pubs[q].host
    => p = q

\* A roster broadcast of channel ch to connection w is on its way.
RosterOwed(w, ch) ==
  \/ <<"roster", ch>> \in bg
  \/ \E t \in Task : \/ task[t].pc \in {"vclose", "roster"} /\ task[t].ch = ch
                     \/ task[t].pc = "snapshot" /\ task[t].conn = w

\* Whenever the participant list a member was last sent differs from the room,
\* a broadcast that repairs it is on its way: once nothing is in flight every
\* client shows the true rosters, although leave, close, mute and the media
\* mode change send lists across awaits and one of them sends an old list.
RostersRepaired ==
  \A w \in Watchers, ch \in Channel :
    Member(w) /\ seen[w][ch] # Snapshot(voice[ch]) => RosterOwed(w, ch)

\* The rosters are repaired in the end, not only on their way to be.
RostersConverge ==
  \A w \in Watchers, ch \in Channel :
    (Member(w) /\ seen[w][ch] # Snapshot(voice[ch]))
      ~> (~Member(w) \/ seen[w][ch] = Snapshot(voice[ch]))

\* The row of a stream that is live, and whose start has returned, is active:
\* the rows ended by a leave, a stop, a dropped socket or a mode change are
\* those of streams that are gone.  (The API refuses to delete a channel with
\* an active row, so a live stream keeps its channel.)
RowsFollowStreams ==
  \A p \in Live(pubs) :
    pubs[p].kind = "stream" =>
      \/ row[p] = "active"
      \/ \E t \in Task : /\ task[t].pc = "create" /\ task[t].pub = p
                         /\ row[p] = "absent"

\* A media session that a live record refers to is closed only by that
\* record's own media.session.reconnect, however late the close was issued.
\* The closes of leave, stop, unwatch and a dropped socket hit only sessions
\* no record refers to.
LiveSessionsStayOpen ==
  [][\A s \in Sess :
       media[s] \in {"p2p", "sfu"} /\ media'[s] = "closed"
         => \/ s \notin Referenced(voice, pubs)
            \/ \E t \in Task : task[t].pc = "rclose" /\ task[t].cur = s]_vars

\* Records of user u go only by u's own commands, the close of the connection
\* that owns them, a mode change, a crash, or with the publication they watch.
\* In particular the close of one connection never drops what the same user
\* holds through another.
VoiceDroppedByOwner ==
  [][\A ch \in Channel, u \in User :
       voice[ch][u] # None /\ voice'[ch][u] = None =>
         \/ conn'[voice[ch][u].conn] = "closed"
         \/ mode' # mode
         \/ \E t \in Task : /\ task'[t] # task[t]
                            /\ \/ task'[t].cmd = "mode"
                               \/ /\ task'[t].cmd \in {"join", "leave"}
                                  /\ uid[task'[t].conn] = u
                                  /\ task'[t].ch = ch]_vars

-----------------------------------------------------------------------------
(* What the documents or comments of the repository say, and the code does *)
(* not keep.                                                               *)

\* event-router.ts:22, docs/current-status.md:95: one voice channel per user.
OneVoiceChannelPerUser ==
  \A u \in User, a, b \in Channel :
    voice[a][u] # None /\ voice[b][u] # None => a = b

\* app.ts:153: a closed connection leaves every voice room.
ClosedConnectionsLeaveRooms ==
  \A ch \in Channel, u \in User :
    voice[ch][u] # None => conn[voice[ch][u].conn] = "open"

\* system.ts:921-926: an active row of stream_sessions is an active livestream,
\* once nothing is in flight.
ActiveRowsAreLive ==
  (bg = {} /\ \A t \in Task : task[t].pc = "idle") =>
    \A s \in Sess : row[s] = "active" => pubs[s] # None
=============================================================================
