# Formal models of Baker

Baker is a self-hosted voice, chat and live-streaming system: a browser client
(also inside an Electron shell), a native client (Baker Lite), an HTTP API, a
WebSocket gateway, a media service around mediasoup, PostgreSQL and Redis. This
directory holds TLA+ models of its stateful parts, the TLC instances that check
them, and TLAPS proofs of the most important invariants for every value of the
constants.

Paths below are relative to the repository; `client/` stands for
`packages/client/src/features/`.

## 1. Inventory

### The parts and their state

| Part | Code | State | Operations |
|---|---|---|---|
| Gateway sockets | `apps/gateway/src/app.ts`, `ws/connection-manager.ts` | connections, their user, session, tracked voice channel; user -> connection index; heartbeat samples | attach, message, pong, heartbeat tick, close |
| Event router | `ws/event-router.ts` | none: one `async` function per command | authenticate, subscribe, voice join/leave/speaking, stream and music start/stop/watch/unwatch, SFU transport commands, signal relay, media session reconnect |
| Room managers | `ws/voice-room-manager.ts`, `stream-room-manager.ts`, `music-room-manager.ts` | channel -> participants; channel -> publications with their viewers or listeners | join, leave, mute, start, stop, watch, unwatch, leave by connection, clear |
| Gateway runtime | `app-runtime.ts`, `lib/redis.ts` | media mode, Redis subscriptions | roster and link-quality broadcasts, mode switch, media calls, message fan-out |
| Presence | `ws/presence-manager.ts` | connections per user, mirrored in a Redis hash | connect, disconnect, snapshot, reconcile |
| Media service | `apps/media/src` | sessions, routers, transports, producers, consumers, the worker | create/close session, transport, produce, consume, worker death |
| API sessions | `apps/api/src/routes/auth.ts`, `lib/token-service.ts` | session and refresh-token rows | register, login, refresh, logout |
| API workspace | `routes/channels.ts`, `routes/system.ts`, `lib/default-workspace.ts` | guild, members, channels, messages; `stream_sessions` rows | first registration, create and delete a channel, post and page messages |
| API administration | `routes/system.ts`, `lib/runtime-*.ts`, `lib/docker-control.ts` | settings row, `runtime.env` and its marker, `public-ip.json`, repair lock, update status | media mode, deployment settings, repair, update, address check |
| Update helper, watchdog | `docker/allinone` | containers and their names, status file | pull, rename, start, wait, roll back; probe and repair |
| Client gateway connection | `client/gateway/gateway-store.ts`, `packages/sdk/src/ws/gateway-client.ts`, `app/AppRoot.tsx` | one client, five timers and watchdogs, status, saved address | connect, disconnect, reconnect, authenticate, refresh, ping |
| Client stores | `client/auth`, `recovery`, `voice`, `stream`, `music`, `chat` | tokens and scopes, recovery loops, joined room, published and watched streams, messages | user actions, gateway events, reconnects |
| Stream windows | `client/stream/stream-popup-controller.ts`, `StreamPopupHost.tsx` | one window per watched stream | open, close, reuse, restore |
| SDK media | `packages/sdk/src/webrtc` | peer connections, SFU device and transports | offer, answer, restart, produce, consume |
| Desktop shell | `apps/desktop` | saved servers, one session per server, picker windows, audio helpers | switch, add, edit, remove; pick, capture, stop |
| Baker Lite | `apps/baker-lite/src` | session and requests, socket, media coordinator, native SFU sessions | log in, connect, join, share, watch, recover |
| Administrator's page | `apps/admin/src/AdminApp.tsx` | password, spinners, a copy of eight parts of the server, calls under way | log in and out, save, apply, repair, check, refresh |
| UI, devices, protocol, database client | `apps/web`, `packages/protocol`, `packages/db`, `packages/shared` | none that two actors share | |

### How they interact, and what is hard

* The **gateway is one JavaScript thread**. A command handler is atomic between
  two `await`s, and app.ts starts one per message without queueing, so several
  commands of one connection are in flight together, with closes, mode switches
  and other users' commands between any two pieces. Nearly every defect the
  gateway can have is a check on one side of an await and an effect on the other.
  The **media service** is another such thread, with a worker process that may die.
* Handlers are started with `void`: a rejected database call ends the process.
  All rooms go with it; clients' views and the `stream_sessions` rows stay.
* A user may have several connections (takeover, a second tab), with records
  owned by connection and looked up by user.
* The **client's stores** keep their sessions in module-level variables shared by
  every async function under way: a join, the leave that follows it, the rejoin
  after a reconnect and the retries of a lost session overlap, guarded by
  generations and by looking the session up again after each await. A late event
  of a replaced socket touches the timers of the current one.
* The gateway **broadcasts before it answers**: a client learns of its own
  publication or viewing first as an event, then as the result of its command.
* Access tokens last 15 minutes; sockets may be cut, or go silent unnoticed; a
  peer connection may fail on one side only.
* The media service is called over HTTP with a 5 s timeout; a failed close is
  logged and forgotten.
* **Administration** works on files that several processes read, check and rewrite
  (the repair lock, the environment, the marker of pending changes, the status of
  an update), and on a container that the API itself runs in.
* **Baker Lite** is one Qt thread with asynchronous requests, and one thread per
  native consumer.

### What makes each part correct

* Rooms: one record per user and channel; records go only by their owner; what
  members are shown becomes what is; nothing closes the media session of a live
  record; the row of a live stream stays active; one publication of a kind per
  host and channel.
* Connection: a status that promises progress is backed by a timer or a call;
  signing out is final; a client that stays signed in connects in the end.
* Media service: what it lists is open, nothing outlives the worker, closing a
  session withdraws all of it and nothing else.
* Stores: when nothing is under way, what is shown is what the gateway has and
  what is received; captures and microphones end with their use.
* Sessions: a token never reaches another server; no method leaves a spinner.
* Administration: the service survives a failed update; a change not taken up is on
  record; repairs do not overlap, and act on what was the case; the workspace is one
  and keeps its channels; the administrator's page settles to what the server has.

## 2. Modules

| Module | What it is |
|---|---|
| `RoomManagers` | The three room managers as operators on values: rooms, publications, viewers, and the changes that leaving a channel or a connection causes. Streams and music are one model with a `kind`, as the two managers are the same code. |
| `GatewayRooms`, `MCGatewayRooms` | The gateway: connections, handlers in pieces, close handler, mode switch, detached (`void`) operations, crash. |
| `GatewayClient`, `MCGatewayClient` | The client's connection, the network, and the part of the gateway that authenticates it. |
| `MediaService` | The abstract media service: sessions, publications accepted and published, closing and crashing. |
| `SfuAdapter` | `mediasoup-media-adapter.ts` await by await; implements `MediaService`. |
| `Presence` | The online roster, its snapshots and its mirror in Redis. |
| `AuthStore` | Signing in on several servers, against the API's token rows. |
| `Maintenance` | Repair, watchdog, update helper, containers. |
| `RuntimeRepair` | One repair look by look: what is asked of supervisord and of the programs, and what is done about it. |
| `AdminPanel` | The administrator's page and the routes it calls. |
| `PublicIp` | The public address and the programs that still use an old one. |
| `Deployment` | Deployment settings saved, marked and applied. |
| `Workspace` | First registrations and the channels of the admin panel, statement by statement. |
| `MediaMode` | A media mode change from the API through Redis and the gateway to the clients. |
| `VoiceSession` | One client's voice session: join, leave, microphone, eviction, reconnect, recovery. |
| `PeerLink` | The mesh of a peer-to-peer room: offers, answers, failures, the relay. |
| `StreamShare`, `StreamWatch` | The stream a client publishes; the streams it watches. |
| `StreamLink` | The connection between a stream's host and one viewer. |
| `StreamPopup` | The windows of watched streams. |
| `MusicShare` | Music shared and listened to. |
| `SfuClient` | The web client's SFU session and the gateway commands that serve it. |
| `ChatSync` | Text channels: lists, pages, pushed messages, subscription. |
| `DesktopServers`, `DesktopCapture` | The desktop's servers and sessions; its picker, captures and audio helpers. |
| `LiteClient`, `LiteMedia`, `LiteSfu` | Baker Lite's connection, media coordinator and native SFU session. |
| `ServerParts`, `ClientParts` | Constants, variables, assumptions and properties of the parts that are proved about, so that runs and theorems name the same definitions. |
| `MCParts` | One instance that runs any one of the parts from `SfuAdapter` on. |
| `GatewayRoomsProofs`, `GatewayClientProofs`, `SfuAdapterProofs` | Proofs about the module they are named for. |
| `ServerPartsProofs`, `ClientPartsProofs` | Proofs about `Maintenance`, `Workspace`, `Presence`, `RuntimeRepair`, `AdminPanel`, `PublicIp` and `Deployment`; about `AuthStore` and `VoiceSession`. |
| `ClientSharesProofs`, `StreamWatchProofs`, `DesktopProofs` | Proofs about `StreamShare`; about `StreamWatch`; about `DesktopServers`, `DesktopCapture` and `LiteClient`. |

`map` in `PROJECT.json` gives the lines of every definition.

### GatewayRooms and the code

Variables: `conn`, `uid`, `vch`, `index` are the ConnectionManager's connections,
their `userId`, `voiceChannelId` and `userToConnectionId`; `mode` is
`GatewayRuntime.mediaMode`; `voice` and `pubs` are the managers' maps; `media` is
what apps/media knows of each session; `row` is the `stream_sessions` row of each
stream; `seen` is the participant list each watched connection was last sent;
`bg` holds operations started with `void`; `task` holds commands in flight.

A **task** is a handler waiting at an `await`: its `pc` says which, its other
fields are the locals it will use. `SendX` actions are the code of a handler up
to its first await, the others (`Joined`, `Started`, `VoiceClosed`, `StreamsLeft`,
`RowCreated`, ...) what follows one. An external call and its effect are one step,
taken when the handler resumes, and may fail. For example `voice.leave` is

    SendLeave -> VoiceClosed -> RosterSent -> StreamsLeft -> (RowEnded | MediaEnded)*

and the list `VoiceClosed` broadcasts is the one `SendLeave` computed
(event-router.ts:691, 712). A join is access check -> `JoinChecked` (leave an
older room or ask for a media session) -> `Joined`.

Abstracted: payload validation, one guild of which every user is a member, ICE
servers, link quality, stream and music state broadcasts (always computed from
the current state), signal relay and SFU transport commands (no room state), and
the order of JavaScript Maps. A failed database call is not a separate outcome
but a `Crash`, as in the code, except where the handler catches it
(`PersistFailed`, `MediaFailed`).

### GatewayClient and the code

A `Sock` is a `GatewayClient` object with its one WebSocket; after its close event
the name is free again. Variables with the code's names: `cur` = `client`,
`timer` = `reconnectTimerId !== null`, `handshake` = `handshakeTimerId` (with the
socket whose closure it runs), `probe` = `pingTimerId`, `waiting` =
`lastPingSentAtMs !== null`, `missed` = `missedLatencyPongs`, `saved` = `savedApi`
and `savedUrl`, `abandoned` = `gatewayRecoveryAbandoned`, `handled[s]` =
`transportDownHandled` of the closure of `s`. `orphans` counts reconnect timers
whose id `scheduleReconnect` overwrote: they still fire. `up`, `dn`, `pinged` are
the wire, `live` says whether it carries anything, `srv` is the gateway's side.

Each callback is an action: `ReconnectTimer`, `OrphanTimer`, `HandshakeTimer`,
`ProbeTick`, `Ready`, `Ack`, `TokenExpired`, `TokenInvalid`, `Pong`, `CloseEvent`,
`RefreshOk`, `RefreshFailed`, the two branches of the AppRoot effect, and the
user's actions. `Opened`, `Route`, `Authenticate` are the gateway; `Drop`, `Stall`
and `ExpireToken` are failures.

`LateReplies` separates two readings of `connection.socket.close()` followed by a
reply. The `ws` library drops a `send` on a closing socket (`{FALSE}`); the stub
sockets of `event-router.test.ts` do not (`{TRUE}`). The proofs cover both.

Abstracted: delays; a timer longer than a healthy exchange does not fire during
one (`Busy` for the 8 s handshake, the unanswered-ping guard for the 5 s probe;
a slow network is a `Stall`); the `error` event of a socket and the server's
close frame are part of its close event; awaited acks; a subscription always
follows the auth ack; the local logout of TOKEN_INVALID is part of that step;
buttons are pressed on a page whose effects have run; a refresh that returns
after a logout may return tokens of the revoked session.

### SfuAdapter, MediaService and the code

A `Call` is a request handler at an await: of the worker (`getWorker`), of the
router, of the listening server, of the worker's answer to a transport, producer or
consumer request. What a handler does between two awaits is one step. mediasoup is
external: a request resolves or rejects, also when its object was closed meanwhile;
`WorkerDied` takes everything the worker had and lets pending requests reject.
`sessions` maps to the abstract `open`, the sessions of produce calls under way to
`accepted`, and `listed` with the owner of a producer's transport to `publisher`.
GatewayRooms keeps of all this whether a session is open.

### RuntimeRepair, AdminPanel and the code

A look of `repairRuntimeServices` or of the watchdog's `repairOnce` asks supervisord once
and then probes each enabled program by itself, while programs fail and come back: `ill`
and `well` note, for the look under way, what was the case at some moment of it. They
change nothing; the property is about them. In `AdminPanel` a part of the server is the
number of its version. Each handler is one `Click` (a request, then the parts it reads
again, all with the password of the render it was clicked in); `Serve` is the route,
`Answer`, `ReadPart`, `Loaded`, `Refused` and `Lost` are what the handler does next, and a
call's `held` is what was answered and is not shown yet.

### The clients' stores

Each of `VoiceSession`, `StreamShare`, `StreamWatch` and `MusicShare` has one record
of the store's variables and a `Flow` per async function under way, with its place
(`at`) and the locals it uses later. A `recovery` entry is the controller of
`recovery-store.ts` for that session: waiting, attempting, or none. The gateway is
what the store uses of it, and tells of a change before it answers. The rest of the
gateway is in GatewayRooms; the media's end to end is in `PeerLink`, `StreamLink`,
`SfuClient`, whose inboxes keep the order of one socket.

### Lapses

Some interleavings lead, in the code, to a state the code itself never repairs.
Where a property cannot hold after one, the module has a flag (`lapsed`, `crossed`,
`raced`, `misled`, `skewed`, `left`, `stolen`, `overlap`, `masked`, `leaked`, `orphans`...)
that the step at fault sets; the property holds unless it is set, or the behaviour ends
there. Where the code allows it the flag is a set, and the property keeps speaking of all
that is not in it: the users a snapshot was wrong about, the channel types whose deletions
crossed. A property therefore says nothing of the hazard that sets its flag; what it shows
is that nothing else breaks it. Each is a definition with the code lines it stands for, and section 5 lists
them all: they are what a reader of the code should know first. A flag is set only by
a named circumstance, never by the property's failing.

### MCParts

The parts share no state, so `MCParts` runs one per behaviour: `part` is chosen at the
start from `Parts`, and TLC explores the sum of the parts, not their product. The VIEW
`Running` fingerprints the variables of the part that runs; all the others keep their first
values in that behaviour, so that it merges no two states. The parts of the
clients and `MediaMode` share the variables `self` (the part's own
record), `peer`, `wire` and `clicks`, since one of them runs at a time; `faults`
counts injected failures.

## 3. Runs

`tlc -config <run>.cfg <module>`; every run switches deadlock checking off, because
the systems may stop: a gateway whose sessions are all drawn, a client nobody uses.

| Run | Instance | States | Question |
|---|---|---|---|
| `rosters` | 2 users, 2 connections, 1 channel, 2 sessions, 2 handlers in flight; join, leave, mute, close, mode, crash | 861k | Is every stale participant list about to be repaired? |
| `moves` | 1 user who sits and shares music, 2 connections, 2 channels, SFU | 335k | Do late closes spare live sessions, and does a connection drop only its own records? |
| `streams` | 2 users, 2 connections, 3 sessions, both modes | 445k | One host record per user; rows of live streams active; closes spare live sessions. |
| `converge` | 1 user, 2 connections, fairness | 277k | Does every member see the true roster in the end? |
| `client` | 3 sockets, 1 failure, 2 user actions, fairness | 405k | Is every status backed, is signing out quiet, does the client recover? |
| `parts` | the parts of the server, the watched streams and Baker Lite's connection, below | 897k | Does each part keep its properties? |
| `client_parts` | the other parts of the clients, and the media mode, below | 965k | The same for them. |
| `one_voice_channel`, `closed_in_room`, `stream_rows`, `expired_token`, `capture_kept` | minimal | | Section 5. |

The parts, with the bounds that `MCParts` and the two configurations give them; `parts` runs
the first ten, `client_parts` the others:

| Part | Bounds | States |
|---|---|---|
| `sfu` | 2 sessions of 1 channel, one with a send transport; 2 calls, 2 transports, 1 producer, 1 consumer, 2 routers, 1 death | 92k |
| `presence` | 2 connections, 2 users, 3 arrivals, 1 Redis error | 287k |
| `maintenance` | 2 containers, 1 job, 1 program, API and watchdog, 1 fault | 63k |
| `address` | the watchdog and the API, 2 addresses, 4 faults | 5k |
| `deploy` | 2 requests at once, 2 ports, 2 ranges, 3 clicks, 1 fault | 50k |
| `workspace` | 2 requests at once, 2 users, 3 channels, 1 fault | 11k |
| `repair` | 2 programs (the API and the relay), 2 faults | 65k |
| `panel` | 2 followed parts, 2 passwords, 2 clicks, 1 fault, one refresh at a time | 80k |
| `watch` | 2 streams, 2 functions at once, 2 clicks, 2 faults | 111k |
| `lite` | 2 servers, 3 requests at once, 1 command, 2 clicks, 2 faults | 132k |
| `auth` | 2 servers, 2 methods at once, 2 sessions, 2 tokens, 1 switch | 65k |
| `mode` | 2 requests, 2 members, 3 clicks, 1 fault | 58k |
| `voice` | 2 channels, 2 functions at once, 2 joins, 3 faults | 165k |
| `mesh`, `pair` | 3 peers that join 3 times in all; 2 peers with 2 faults | 215k, 18k |
| `share` | 2 functions at once, 2 sessions, 2 captures, 2 faults | 19k |
| `link` | host and viewer, 2 clicks, 1 fault | 7k |
| `popup` | 2 streams of one host, 2 clicks, 3 faults | 6k |
| `music` | 2 functions at once, 1 own and 1 other publication, 2 faults | 42k |
| `sfuclient` | 1 producer, 3 transports, 2 faults | 25k |
| `chat` | 2 guilds, 3 channels, 2 new messages, 2 requests, 2 clicks, 1 fault | 152k |
| `servers` | 2 servers, 2 addresses, 2 clicks, 2 faults | 121k |
| `capture` | 2 captures at once, 3 windows, 2 faults | 16k |
| `litemedia`, `litesfu` | 2 channels; 2 producers; 1 fault each | 15k, 41k |

**Bounds.** In the rooms, `Sess` bounds how many media sessions are drawn, `Task` how
many handlers are in flight, `Commands`, `Kinds` and `Modes` what the environment does,
`Watchers` whose view is kept. Two handlers in flight are enough for every race of
one await against another, since a piece reads only the shared state; three
sessions are enough for a record, the one that replaces it and a bystander. In the
client, three sockets are the current one, the one it replaced and the one whose
close event is still to come; `MaxFaults` and `MaxUses` bound failures and user
actions, since a system that fails for ever need not recover, and `MaxMissed` is 2
instead of 3. In the parts the argument is the same: two functions of a store at once
are an awaiting one and the one that overtakes it; two servers, channels or streams
are the current one and the one a late answer belongs to; one fault and two clicks
are a failure in the middle of what a second action crosses. Two exceptions need more to
be reached: a snapshot stays wrong about a user who arrives beside another one (two users,
three arrivals), and a recovery is left behind by a drop and two failures of the
microphone (three faults). The safety properties of
the rooms, the connection, the media service, presence, signing in, repairs, updates,
deployment settings, the public address, the workspace, the administrator's page, the
voice session, the published and the watched streams, the desktop's servers and captures and Baker Lite's
connection are proved without these bounds.

**Fairness.** In the gateway, weak fairness of every handler in flight and of the
detached roster broadcasts: Node resumes a handler whose call returned, and every
call returns or times out. In the client, weak fairness of what a socket delivers,
of the gateway's answers, of each timer, of the effect and of a refresh that can
succeed: the browser's event loop and a network that carries what it has not lost.
Nothing is asked of users, failures, new commands, mode switches or crashes. The
parts state settlement as invariants of quiet states (nothing under way, nothing owed
a retry), which need no fairness and say the same of every behaviour that becomes
quiet; that each becomes quiet is not stated, and a user who keeps clicking prevents
it.

## 4. Properties

The rooms and the connection:

* **RostersRepaired** (invariant, proved): when the list a member was last sent
  differs from the room, a broadcast to it is on its way, although `voice.leave`
  sends a list computed before an await, and joins, drops, mutes, mode switches
  and snapshots interleave. **RostersConverge**: it also arrives.
* **UniqueHost** (proved): the check before the media call, repeated by `start()`
  after it, keeps one publication of a kind per host and channel.
* **RowsFollowStreams** (proved): rows ended late are rows of streams that are gone.
* **LiveSessionsStayOpen** (proved): a media session that a record refers to is closed only by
  that record's own `media.session.reconnect`, however late a close was issued.
* **VoiceDroppedByOwner** (proved): a participant record goes only by its user's command, the
  close of the connection that owns it, a mode switch or a crash.
* **AttemptIsPending** (proved): `reconnecting` has a reconnect timer and an address,
  `connecting` is under the handshake timer of its current socket, or a refresh is
  in flight; `error` is shown only to a user who is or is about to be signed out.
* **SignedOutIsQuiet** (proved): after `disconnect()` nothing tracked is left, and a
  forgotten timer finds no address.
* **ClientRecovers**: a client that stays signed in is in the end `ready`, with a
  current socket that the gateway has authenticated and can reach, unless the store
  has forgotten a socket without closing it (section 5).

The media service, presence, sessions and administration:

* **ListedIsOpen**, **NothingOutlivesWorker**, **ConsumersFollow** (proved): what
  newcomers are told of is open; a dead worker leaves nothing to hand out; a closing
  producer or transport takes its consumers along in the same step.
* **ImplementsService** (proved): the adapter implements `MediaService`.
* **RosterExact**, **MirrorExact** (proved): once the handlers have ended, each client shows
  exactly who is connected, and the hash in Redis agrees, although snapshots are
  computed before the awaits and sent after them; but for a user whom the client's own
  snapshot had wrong when it was sent, after the user's last broadcast (`misled`), and one
  whose last count Redis refused or whose hash entry was written back wrong (`dirty`).
* **ScopeIsolation** (proved): no server sees or stores another server's token (Baker Lite's
  is in LiteSettles). **QuietIsReady** (proved): no overtaken method leaves a spinner.
* **ServiceSurvives** (proved): whatever step of an update fails, one container serves in the
  end under the service's name, the new one if the status says success.
  **OneRepair** (proved): repairs exclude each other, unless one removed a fresh lock it had
  seen stale (`stolen`).
* **ChangesAreOwed** (proved): a program left with an old address has its restart on record; saved
  settings that the container does not run with are pending.
* **WorkspaceIsShared**, **ChannelsRemain** (proved): concurrent first registrations make
  one workspace with every user in it; a channel of each type remains, unless two deletions
  of that type count their siblings before either commits (`skewed`).
* **AdministrationHolds** (proved): what a repair restarts was ill at a moment of its look and
  what it leaves alone was well at one, although its answers are of different times; when
  nothing is under way and nothing has lapsed (section 5), the administrator's page shows
  what the server has, with the server's password, or is signed out without one; a spinner
  turns exactly while a handler under it runs.

The clients:

* **MicReleased**, **ActiveIsServed**, **RecoveryIsWanted** (`VoiceSession`, proved): an
  idle session holds no microphone; a session shown as active is one at the gateway; only
  the session being reconnected is retried, with the exception of a recovery left behind
  (`left`, section 5). All three until an outcome of one function lands on the session of
  another (`crossed`), where they say nothing.
* **CaptureReleased**, **SettledIsServed** (`StreamShare`, proved), **WatchedIsServed**,
  **ClosedStaysClosed** (`StreamWatch`, proved), **MusicIsServed** (`MusicShare`): what is
  shown is what the gateway has and what is sent or received, no capture runs for nothing,
  and a stream that was closed is not watched again; each until its module has lapsed. A
  live publication that is restored lapses, and so does a viewer admitted again: of a
  restored publication only `capture_kept` speaks.
* **MeshComplete** (`PeerLink`): in a settled room every two members see and reach each
  other.
* **ClientSettles** (`MediaMode`, `ChatSync`, `SfuClient`, `StreamLink`, `StreamPopup`,
  `LiteMedia`, `LiteSfu`): rooms and clients settle in the mode that was saved; messages,
  consumers, connections and windows settle to what the server has, and so do Baker Lite's
  voice, streams and SFU sessions.
* **DesktopSettles** (`DesktopServers`, `DesktopCapture`, proved): a settled desktop shows a
  saved server with its own session, no session outlives its server or its address, and
  captures run only for what is shared; actions that overlap a write (`raced`) and what a
  reload or a quit leaves running (`leaked`) are excepted.
* **LiteSettles** (`LiteClient`, proved): Baker Lite settles logged out or served, and a
  token travels to no server but its own. Logged in without "remember", it keeps no credential
  of that address on disk; an answer that arrives after a logout signs in again and stores
  its credential, which the property permits.

Each property has a mutant of the modelled code that breaks it (`PROJECT.json`): a
broadcast that is not sent, a late or unowned close, a repeated check that is
missing, a timer that is not cleared, a result applied without looking again, a
capture that is not stopped, a marker that is not merged.

## 5. Where the code does not keep what is said of it

Five are runs whose counterexample is a behaviour of the code.

* `one_voice_channel`: event-router.ts:22 and docs/current-status.md:95 say one voice
  channel per user. The existing room is looked for before the media call only;
  two joins in flight seat one user in two channels.
* `closed_in_room`: app.ts:153 says a closed connection leaves all rooms. A join
  waiting for its media session seats its user afterwards.
* `stream_rows`: apps/api/src/routes/system.ts:926 takes an active row for a live
  stream. A start whose persistence fails half way, or a stream stopped while its
  row is being created, leaves an active row for ever.
* `expired_token`: docs/repo-state-summary.md:352 says that stale-token auth loops are
  avoided. The refresh at bootstrap does so for a page that loads; a connection
  that is re-established with an expired token is refused by `close()` followed by
  the TOKEN_EXPIRED reply (event-router.ts:394), `ws` drops that reply, and the
  client retries with the same token.
* `capture_kept`: docs/realtime-media-recovery.md:40 says that recovery preserves the
  intent to publish. The gateway broadcasts a restored stream before it answers; the
  store (stream-store.ts:1464) does not find its old id and stops the capture.

The rest were met while modelling. What a property excepts is named here with the
module's flag for it, or is left out of the model and said to be.

**Connections.** The manual retry, and a reconnect timer set by the late close event of
an older socket, assign `client = null` without closing the current one: a *forgotten
socket*, whose `system.ready` sets the status of the other connection to
`authenticating` when that one's handshake timer may be gone, which is the sticky
state docs/current-status.md:596 wants to avoid. ClientRecovers excepts it. Not
modelled at all: `userToConnectionId` names the latest connection only, so the relay
serves one of a user's two connections (connection-manager.ts:196); connection ids of
one millisecond can coincide (:63); `voice.leave` of another channel clears
`voiceChannelId` (event-router.ts:701), a hint for snapshots only; an envelope the
schema refuses makes the store give up a connection that stays open
(sdk gateway-client.ts:91).

**Media service.** `workerPromise` keeps a rejection for ever, so a worker that failed to
start is never started again. Two first transports of a channel make two routers
(:743), whose members cannot hear each other. A transport made while its session is
closed is never closed (:304), although the comment at 314-316 counts on that; a
produce that finishes then lists a producer without a session. A mode change closes
no SFU session.

**Presence.** A client that authenticates while a user comes or goes may keep the older
count (`misled`): its snapshot, taken before the awaits, is sent after the broadcast of the
change, against presence-manager.ts:12-22 and 58-60. Written back, the same snapshot makes
Redis' count wrong (`dirty`).

**Administration.** Two helpers at once can end without a service (`overlap`); the API
writes "running" over a helper's final status; the watchdog's busy check defeats the
expiry of a stale lock that README.md:111 describes; a stale lock is removed by stat and
rm, which may remove a fresh one (`stolen`); a rollback whose first status write fails
is given up. A failed restart after an address change is not retried when a failed
detection overwrote the record, the address came back, or a check of the page and one of the watchdog
cross and overwrite each other's record (`masked`; docs/current-status.md:203). Two deletions
that both count before either commits can remove the last channel of a type (`skewed`,
routes/system.ts:906). Deployment settings: a PATCH during an
apply is not refused, and the helper removes the marker of the newer change with its
own; a marker that cannot be removed, or outlives the helper, later makes published
ports be forgotten; an API that ends between the environment and the marker leaves a
change unmarked; two saves overlap and lose a change, and two applies are not refused.

The administrator's page shows what is no longer so after a change that overtakes an older
answer under way (`crossed`), a read after a change that is refused or lost (`unloaded`) --
the one after a new password always is, as `loadDashboard` still sends the old one
(AdminApp.tsx:424) -- and after changes made elsewhere (`elsewhere`); a password typed over
during a login (`retyped`) or answered after signing out (`late`) is kept in its place.

**Media mode.** Two PATCHes whose publications cross leave the gateway in a mode that is
not the row's; a publication that is lost, or falls between the gateway's first read
and its subscription, is never made up for. A join or recovery answer of the old mode
may overwrite the rejoin (voice-store.ts:1932-1969); a join asked for peer to peer and
answered with the SFU lacks its data and fails; abandoning does not leave the room.

**Voice and mesh.** An outcome of one function may land on another's session (`crossed`),
against docs/realtime-media-recovery.md:64 "Completion from an old, cancelled attempt
cannot overwrite a newer session". A change of the noise mode that loses the microphone
for good while the session is reconnecting shows an error and tears the session down, but
does not resolve its recovery (voice-store.ts:1634-1641), which RecoveryIsWanted excepts
(`left`): its later attempts find no session and fail, again and again, until the user
abandons it, or a session of that channel lets one through -- and an attempt that then
ends on that session is a `crossed` one. A failed negotiation is not retried
(voice-store.ts:2019). A description that reaches a member not yet active is dropped
(:1821), a join's list may be older than an event already applied (event-router.ts:613),
and a peer that leaves and returns during a set-up keeps its dead connection.

**Streams.** A function may go on with a publication others have changed; changing the
SFU camera stops the produced track (stream-store.ts:2152) and cancels a pending
recovery (:2137); a capture that ended before its listener is not noticed; a lost
answer of `stream.start` leaves a ghost publication, and abandoning neither stops nor
unwatches; a restore that fails after a mode change is not retried
(gateway-store.ts:481). A viewer admitted again is answered without SFU data or an offer
(event-router.ts:1480); a function may answer for an entry others have changed,
an unwatch during a watch may be followed by its entry, a restore does not look whether
its next streams are still wanted (stream-store.ts:2933-2950), and a retry that watches the
stream its host has replaced the old one with (:1160) is not found under the new id by an
unwatch, a drop or a mode change (`lapsed`); recoveries survive a reset. Offers queued for a cancelled watch are answered on
the next one; a recovery answered after the user closed and watched again takes the
new connection's manager. Windows: a window closed while its recovery waits does not
cancel it; after a failed restore the stream may be watched without a window
(`hidden`); one younger than 250 ms stays until the next change (`passed`).

**Music.** Shared music does not survive a reconnect; a mode change only suspends it
(gateway-store.ts:480); playback is restored only after the own share; a listener that is
known already is answered without SFU data (event-router.ts:1075); a failed listen waits
for the next event (`missed`).

**SFU client.** Transports are checked and made around an await, leaving an orphan;
a producer announced before the device is loaded is dropped (`early`), one that is in
the list and announced is consumed twice (`doubled`), a failed consume is not retried
(`missed`), one withdrawn meanwhile keeps its audio (`raced`); after `close()` calls under
way still make transports and consumers (`late`, `orphans`).

**Chat.** Messages said while a channel is not subscribed, or before a reconnect, are not
fetched when it is selected again, and a page replaces messages pushed since it was read
(`missed`); an older page whose cursor has moved makes duplicates or holes, and a late
list of another guild moves the active channel (`crossed`); a message that arrives before
any page keeps the channel from loading (`unread`).

**Desktop.** Clicks and validations during a write use the list of an older render, so
that a selection can bring a removed server back (`raced`); a sign-in saved during a removal leaves a session behind; a session cleared
while main.ts:1724 reads it is cached again; a failed registry save leaves the old
server shown without its session. A reload leaves audio helpers running, a quit those
without a header (`leaked`).

**Baker Lite.** An answer after logout signs in again and stores the credential; any
failed restore deletes it; a token refresh reconnects after a manual disconnect; a failed
authentication other than expiry leaves `Authenticating` for ever (`refused`); a login that
fails over a running session loses its refresh timer (`untimed`); the text channel is
not subscribed after a reconnect. A join during another's join, a mode change during a
leave, the end of a source, the host's stop and the loss of the connection each leave
a session or a publication that nobody ends (`lapsed`). A producer announced during
set-up is dropped, a failed set-up keeps the microphone, and detached threads may
outlive the session they use (`outlived`, undefined behaviour).

## 6. Proofs

`tlapm <Module>Proofs.tla`. Assumed: only the named
assumptions of the constants (`None` is none of the identifiers or records; the
parameters are subsets of what the code knows; counters are naturals), which `ServerAssumption` and `ClientAssumption` collect for the
parts; TLC evaluates them on every run.

* `TypeInvariant` (GatewayRooms): besides the types, `WellFormed` says what a task
  needs where it waits (a channel, a session, an authenticated user); it makes the
  type invariant inductive. A task is a record of thirteen fields, so its updates
  are proved once (`UpdateTyped`), then one lemma per operator shared by handlers,
  then one per action.
* `UniqueHostInvariant`: every step but `Started` only loses publications or changes
  viewers (`Kept`); `Started` repeats the check.
* `RostersRepairedInvariant`: `RosterInv` adds that a connection that was never
  attached has no user, so nobody becomes a member without a snapshot. The proof is
  about one member and one channel: each step leaves list and room alone, sends the
  room, or leaves a broadcast owed.
* `RowsFollowStreamsInvariant`: `RowInv` adds that sessions are drawn fresh, so that
  what is live, has a row or awaits one is not fresh; and that the streams whose row
  a task or a background operation is going to end (`Ending`) are not live.
* `LiveSessionsStayOpenTheorem`: `SessInv` says that no two records hold one media session,
  that a held session was drawn, and that what any task or background operation is about to
  close (`Doomed`) is held by no record. Every step either only drops records and dooms only
  what it dropped (`Loses`) or adds one record with a session drawn now (`Gains`); the closes
  that have no owner are then of sessions nobody holds.
* `VoiceDroppedByOwnerTheorem`: `OwnerInv` says that the owner of a record is an
  authenticated connection, so that a close handler that drops a record belongs to its
  user, and that a list is cleared by a mode switch only.
* `ClientTypeCorrect`, `ClientAttemptPending`, `ClientSignedOutQuiet` (GatewayClient):
  `ClientInv` adds `Support`: a connecting client has an address or a refresh in
  flight; a user without a token for whom `disconnect()` has run has no client and
  no address; an error that outlives a login has no client either, so that the
  effect's `connect()` does not return at once.
* `AdapterTypes`, `AdapterListedOpen`, `AdapterWorkerless`, `AdapterConsumersFollow`,
  `AdapterImplementsService` (SfuAdapter): `AdapterInv` adds to the two invariants what
  a call holds where it waits (`CallsHold`), that an object not yet made has no owner,
  list entry or consumer (`FreshIsBare`), that owners of what was made are made
  (`OwnersMade`, `HeldIsMade`), and `DownIsBare`: without a worker no transport is open,
  no call waits for one, and every session still waits for the worker. The last part is
  what the refinement needs: when the worker fails to start, all sessions go, which is
  the abstract `Crash` only because none of them has published. The refinement is
  proved step by step: each action of the adapter, under the invariant, is the
  abstract action it is named for, `Withdraw` for what closes a transport or a producer,
  or a stutter.

* `RosterExactTheorem`, `MirrorExactTheorem` (Presence): `PresenceInv` says where each
  connection's snapshot stands, what a delta under way in Redis still has to add or take
  away (the hash plus what is owed is the count of the connections), and that a user whom a
  client shows wrong has a broadcast on its way, or was shown so by a snapshot that was
  wrong when sent (`misled`); of the hash likewise (`dirty`).
* `ScopeIsolationTheorem`, `QuietIsReadyTheorem`, `AuthTypeCorrect` (AuthStore): `AuthInv`
  says that the tokens a method in flight holds are of the server it was started for, that
  the server is unchanged while its generation is the current one, and that a spinner or a
  pending switch has a method in flight that will end it. `RoomForToken` is the counting
  argument that a session may issue one more token whenever the model lets it.
* `OneRepairTheorem` (Maintenance): `LockInv`: a repair between lock and release holds the
  lock file, and a lock that turns stale has no holder, unless one was stolen.
* `ServiceSurvivesTheorem` (Maintenance): `UpdateInv` names the situation of the containers
  at each place of the update helper (`Serving`, `Stopped`, `Aside`, `Made`, `Started`,
  `Unnamed`, `Restored`, `Restarted`): which of them has the service's name, which is
  running, and what a failure there leaves for the rollback. It is about helpers that do not
  overlap and at most one failed call, as the property is.
* `WorkspaceIsSharedTheorem`, `ChannelsRemainTheorem` (Workspace): `WorkspaceInv` says that
  members are users, that at most one request founds, and that a deletion that has counted
  leaves another channel of its type, as long as no two deletions of that type have been
  between their counts and their commits at once (`skewed`).
* `AdministrationHoldsTheorem` (RuntimeRepair, AdminPanel): `RepairInv` says that during a
  look all that was ill or well since it began is noted, that an answer missing means ill
  and one given means well. `PanelInv` says that, without a lapse, what calls hold is what
  the server has, and that a part a signed-in page does not show as it is (or a password
  it does not have) is owed by a call under way: it changed the part, or is going to read
  it.
* `ChangesAreOwedTheorem` (PublicIp, Deployment): `AddressInv` says that the one check under
  way works on the record it read, and that a program with an old address is on record until
  the check has taken it over. `DeployInv` says of the container, of the one a failed job
  would roll back to and of the one a job would make that what each lacks of the settings
  waits in the marker or in a save about to write it, that the previous range in the marker
  is the one whose ports are published, and that a job no save has crossed makes a container
  that has the settings as they are.
* `MicReleasedTheorem`, `ActiveIsServedTheorem`, `RecoveryIsWantedTheorem` (VoiceSession):
  `VoiceInv` says which function may still touch the microphone and what it finds there
  (`Microphone`: one of each kind at a time, none when the session is bare), that one
  function at most set the status shown last and what it counts on (`Owners`: the room, the
  saved session, the peers), that a recovery is of the session shown (`Retries`) and is run
  by one function at most (`Reports`). The last holds in every state, the others until an
  outcome has crossed another session's; a recovery that a change of the noise mode left
  behind is no retry of the session shown. Each shared function of the module is described
  once (`ShowFacts`, `TeardownFacts`, `PutFacts`...), each action is one lemma.

* `CaptureReleasedTheorem`, `SettledIsServedTheorem` (StreamShare): `ShareInv` has two
  layers. `ShareBase` holds in every state: which recovery a function reports to
  (`ShareReports`), and, until an outcome has crossed another's, whose each capture is
  (`Held`) and what a function that nobody disowned may count on (`Owned`). The second,
  `ShareWell`, is about states from which no such crossing is bound to follow (`Sane`: no
  disowned function is still going to start, end or restore a stream): at most one function
  begins or ends the stream and finds what it expects (`Single`, `Expects`), and a stream
  that is not up is owed to a function or a recovery (`Due`). `Calms` describes every change
  that only takes away, so that the shared functions are proved once for all actions.

* `WatchedIsServedTheorem`, `ClosedStaysClosedTheorem` (StreamWatch): neither property is
  inductive; `WatchInv` says, until a lapse, what each place of a function implies for its
  locals (`Fits`), that the function that reports to a recovery is its only attempt
  (`Reports`), that whatever is shown or received without being up is owed to a function,
  to a restore or to a recovery (`Shows`), that the gateway's viewers are those the client
  has a use for (`Counts`), that a pending cancellation is of nothing that is shown
  (`Cancels`), and that whatever is watched or going to be is wanted, or replaces what is
  (`Wants`). Ids of publications do not return (`over`), which is why a stream that a host
  has replaced cannot come back under a function that still waits for it. What restores
  and recoveries leave while they are between two streams is `Nearly`; each shared function
  has one lemma on what it changes, and one on what it keeps.

* `ServersSettleTheorem`, `CaptureEndsCleanTheorem`, and both in `DesktopSettlesTheorem`:
  `DeskWell` says, until a function has raced another's write (`raced`), that the window
  shows the server active on disk at its address with its session (`ShowsActive`), that
  everything kept of a server, in memory, on disk, in a write that waits its turn or in a
  read under way, is a session of its present address (`SessionsMatch`), that one function
  at most writes, on the list that is shown (`ProbesMatch`), and that a session being cleared
  is gone already but for its own entry in the vault, whose write the function waits for
  (`WritesMatch`, `Awaits`): nothing queued behind it brings the session back. `CaptureWell`
  says, per capture, which of picture, audio graph, helper and window its place has.

* `LiteSettlesTheorem` (LiteClient): `LiteGood` says that a socket that is up is wanted and
  reaches the address in use, and that a wanted one that is down is waited for
  (`LiteSocket`); that a greeted socket is authenticated, refused or owed a refresh
  (`LiteGreeted`); that every token and every request is of the address in use
  (`LiteTokens`); and that what is shown of the session is held, or is asked for by a
  request under way (`LiteHeld`, `LiteShown`). The state is one record of 25 fields: its
  types are stated field by field (`LiteTyped`), and each shared function of the module has
  one lemma on what it changes.

Only model-checked: MusicIsServed (`MusicShare`), MeshComplete (`PeerLink`) and the parts of
ClientSettles (`MediaMode`, the chat, links and windows of the web client, Baker Lite's media
and its SFU sessions), and the liveness properties RostersConverge and ClientRecovers, which
are beyond the prover. The first three are safety properties with no obstacle in principle:
what is missing is their inductive invariants, which for the mesh would have to speak of the
messages in every inbox.

## 7. What is not modelled

Left out for good, with the reason per component in `PROJECT.json`: devices and signal
processing, rendering, message schemas, the HTTP wrapper, log export and probes, codecs
and statistics, ICE candidates, start-up scripts. They have no state that two actors
share, or their behaviour is the browser's, mediasoup's or the operating system's.

Left out so far, each small: the relay's index of a user's latest connection; envelopes
the schema refuses; presence with several gateway processes; SFU transports'
handshakes; the recovery of clients of gateways without `media.session.reconnect`;
renderer reloads of the desktop and the atomicity of its writes; Lite's peer-to-peer
backend and its chat lists.

What would be proved next: the property of `MusicShare`; an abstract voice membership
(atomic join and leave) implemented by GatewayRooms.
