----------------------------- MODULE LiteClient -----------------------------
(***************************************************************************)
(* Baker Lite's connection to a server (apps/baker-lite/src): the session  *)
(* (AuthSession.cpp), the HTTP requests it makes (ApiClient.cpp), the      *)
(* gateway's socket and pending commands (GatewayClient.cpp), and the      *)
(* controller that joins them (ApplicationController.cpp).  Qt runs them   *)
(* on one thread: a slot is one step, the requests' answers, the socket's  *)
(* signals and the timers come between slots in any order.                 *)
(*                                                                         *)
(* A token is modelled by the server that issued it.  What a request asks  *)
(* for, besides the session's own, is one kind of data; the heartbeat is   *)
(* the loss of the socket that it detects; the sequence of events, chat,   *)
(* rosters and the texts shown are left out.                               *)
(***************************************************************************)
EXTENDS Naturals

CONSTANTS
  Server, None,
  Command,       \* the media's commands
  MaxRequests,   \* bound: session requests in flight
  MaxClicks,     \* bound: the user's
  MaxFaults      \* bound: failed requests, lost sockets, expiries, refusals

VARIABLES lite, clicks, faults

Slot == 1 .. MaxRequests

RequestRec == [kind: {"none", "health", "login", "restore", "refresh", "logout"},
               at: Server \cup {None},         \* where it was sent
               token: Server \cup {None},      \* the token it carries
               keep: BOOLEAN]                  \* PendingAction.remember

LiteRec == [url: Server \cup {None},        \* baseUrl_ of both clients
            probe: BOOLEAN,                 \* connectAfterProbe_
            requests: [Slot -> RequestRec],
            data: Server \cup {None},       \* the token of a data request under way
            auth: {"LoggedOut", "Authenticating", "Authenticated", "Refreshing"},
            access: Server \cup {None},
            refresh: Server \cup {None},
            stale: BOOLEAN,                 \* expiresAt_ has passed
            remembered: BOOLEAN,
            store: [Server -> BOOLEAN],     \* the credential store
            timer: BOOLEAN,                 \* refreshTimer_
            owed: BOOLEAN,                  \* gatewayRefreshPending_
            untimed: BOOLEAN,               \* a login that failed kept the session, without its timer
            want: BOOLEAN,                  \* desiredConnected_
            left: BOOLEAN,                  \* the user disconnected since connecting
            gate: {"Disconnected", "Connecting", "Connected", "Authenticating", "Ready",
                   "Reconnecting"},
            again: BOOLEAN,                 \* reconnectAttempt_ > 0
            wait: BOOLEAN,                  \* reconnectTimer_
            socket: {"none", "opening", "open", "closing"},
            peer: Server \cup {None},       \* whom the socket reaches
            greeted: BOOLEAN,               \* system.ready came over it
            asked: {"none", "queued", "sent"},   \* system.authenticate
            offered: Server \cup {None},    \* the token in it
            refused: BOOLEAN,               \* it was refused, not for its age
            commands: [Command -> {"none", "queued", "sent"}]]

TypeOK == lite \in LiteRec /\ clicks \in 0 .. MaxClicks /\ faults \in 0 .. MaxFaults

NoRequest == [kind |-> "none", at |-> None, token |-> None, keep |-> FALSE]

\* A disk with remembered sessions, and no server chosen.
Init ==
  /\ \E store \in [Server -> BOOLEAN] :
       lite = [url |-> None, probe |-> FALSE, requests |-> [i \in Slot |-> NoRequest],
               data |-> None, auth |-> "LoggedOut", access |-> None, refresh |-> None,
               stale |-> FALSE, remembered |-> FALSE, store |-> store, timer |-> FALSE,
               owed |-> FALSE, untimed |-> FALSE, want |-> FALSE, left |-> FALSE, gate |-> "Disconnected",
               again |-> FALSE, wait |-> FALSE, socket |-> "none", peer |-> None,
               greeted |-> FALSE, asked |-> "none", offered |-> None, refused |-> FALSE,
               commands |-> [c \in Command |-> "none"]]
  /\ clicks = 0 /\ faults = 0

Click == clicks < MaxClicks /\ clicks' = clicks + 1
Fault == faults < MaxFaults /\ faults' = faults + 1

-----------------------------------------------------------------------------
(* GatewayClient: the socket.                                              *)

\* failPending and sendQueue_.clear(): every command fails.
Unqueued(l) == [l EXCEPT !.commands = [c \in Command |-> "none"], !.asked = "none", !.offered = None]

\* openSocket.
OpenSocket(l) ==
  IF ~l.want THEN l
  ELSE [l EXCEPT !.gate = IF l.again THEN "Reconnecting" ELSE "Connecting",
                 !.socket = "opening", !.peer = l.url, !.greeted = FALSE, !.refused = FALSE]

\* handleDisconnected and scheduleReconnect, once per socket (handlingDisconnect_).
HandleDisconnected(l) ==
  [Unqueued(l) EXCEPT !.socket = "none", !.peer = None, !.greeted = FALSE, !.refused = FALSE,
                      !.gate = IF l.want THEN "Reconnecting" ELSE "Disconnected",
                      !.again = l.again \/ l.want, !.wait = l.want]

ConnectToServer(l) ==
  LET wanted == [l EXCEPT !.want = TRUE, !.left = FALSE]
  IN IF \/ l.socket # "none"
        \/ l.gate \in {"Connecting", "Connected", "Authenticating", "Ready"}
     THEN wanted
     ELSE OpenSocket([wanted EXCEPT !.wait = FALSE, !.again = FALSE])

\* A socket that is not down is closed, and reports it later.
DisconnectFromServer(l) ==
  LET unwanted == [Unqueued(l) EXCEPT !.want = FALSE, !.wait = FALSE]
  IN IF l.socket = "none" THEN [unwanted EXCEPT !.gate = "Disconnected"]
     ELSE [unwanted EXCEPT !.socket = "closing"]

ReconnectNow(l) ==
  LET wanted == [l EXCEPT !.want = TRUE, !.left = FALSE, !.wait = FALSE, !.again = FALSE]
  IN IF l.socket = "none" THEN OpenSocket(wanted) ELSE HandleDisconnected(wanted)

\* canWrite asks for a socket in ConnectedState, not one that is closing.
CanWrite(l) == l.socket = "open"

-----------------------------------------------------------------------------
(* AuthSession and the controller's slots on its signals.                  *)

Free(l) == {i \in Slot : l.requests[i].kind = "none"}
Room(l) == Free(l) # {}

Send(l, kind, token, keep) ==
  [l EXCEPT !.requests[CHOOSE i \in Free(l) : TRUE] =
      [kind |-> kind, at |-> l.url, token |-> token, keep |-> keep]]

Answered(l, i) == [l EXCEPT !.requests[i] = NoRequest]

\* clearLocalSession: the credential goes with a session that is to be forgotten.
ClearLocalSession(l, forget) ==
  [l EXCEPT !.store = IF forget /\ l.refresh # None THEN [@ EXCEPT ![l.url] = FALSE] ELSE @,
            !.auth = "LoggedOut", !.access = None, !.refresh = None, !.stale = FALSE,
            !.remembered = FALSE, !.timer = FALSE, !.owed = FALSE, !.untimed = FALSE]

\* clearLocalSession, then the slot of sessionExpired or loggedOut.
SignedOut(l) == DisconnectFromServer(ClearLocalSession(l, TRUE))

RefreshNow(l) ==
  IF l.refresh = None \/ l.auth \in {"Refreshing", "Authenticating"} THEN l
  ELSE Send([l EXCEPT !.timer = FALSE, !.auth = "Refreshing"], "refresh", l.refresh, l.remembered)

\* applySession by server s, under the address in use.
ApplySession(l, s, keep) ==
  [l EXCEPT !.access = s, !.refresh = s, !.stale = FALSE, !.remembered = keep,
            !.auth = "Authenticated", !.store[l.url] = keep, !.timer = TRUE, !.untimed = FALSE]

LoadCommunity(l) == [l EXCEPT !.data = l.access]

\* A mutant of Begun: the gateway is not told of the fresh token.
BegunBarely(l) == [LoadCommunity(ConnectToServer(l)) EXCEPT !.owed = FALSE]

\* beginAuthenticatedSession, then the gateway's own request for a fresh token.
Begun(l) ==
  LET connected == LoadCommunity(ConnectToServer(l))
  IN IF l.owed THEN ReconnectNow([connected EXCEPT !.owed = FALSE]) ELSE connected

\* configureServer: the old session is dropped, its requests aborted, before the address changes.
AbortAll(l) == [l EXCEPT !.requests = [i \in Slot |-> NoRequest], !.data = None]

ConfigureServer(l, s, probe) ==
  LET dropped == AbortAll(ClearLocalSession(DisconnectFromServer(l), FALSE))
  IN Send([dropped EXCEPT !.url = s, !.probe = probe], "health", None, FALSE)

\* restoreRememberedSession: the stored token of this address is tried.
Restored(l) ==
  Send([l EXCEPT !.remembered = TRUE, !.refresh = l.url, !.auth = "Refreshing"],
       "restore", l.url, TRUE)

CanLogin(l) == l.auth \notin {"Authenticating", "Refreshing"}
SendLogin(l, keep) == Send([l EXCEPT !.auth = "Authenticating"], "login", None, keep)

-----------------------------------------------------------------------------
(* The user.                                                               *)

\* serverConnectRequested.
Connect(s) == Click /\ lite' = ConfigureServer(lite, s, TRUE) /\ UNCHANGED faults

\* loginRequested and registrationRequested, at the address in the form.
Login(s, keep) ==
  /\ Click /\ UNCHANGED faults
  /\ IF s # lite.url THEN lite' = SendLogin(ConfigureServer(lite, s, FALSE), keep)
     ELSE CanLogin(lite) /\ Room(lite) /\ lite' = SendLogin(lite, keep)

Logout ==
  /\ Click /\ UNCHANGED faults
  /\ lite.url # None
  /\ lite.access # None => Room(lite)
  /\ lite' = SignedOut(IF lite.access = None THEN lite
                       ELSE Send(lite, "logout", lite.access, FALSE))

\* disconnectRequested: the session stays.
Disconnect ==
  /\ Click /\ UNCHANGED faults
  /\ lite.want
  /\ lite' = [DisconnectFromServer(lite) EXCEPT !.left = TRUE]

-----------------------------------------------------------------------------
(* The answers of the API.                                                 *)

\* The health check passed: restore the session, or sign in from the bookmark, or ask.
HealthPassed(i, auto) ==
  LET l == Answered(lite, i)
  IN /\ lite.requests[i].kind = "health"
     /\ UNCHANGED <<clicks, faults>>
     /\ lite' = IF ~l.probe THEN l
                ELSE IF l.store[l.url] THEN Restored(l)
                ELSE IF auto /\ CanLogin(l) THEN SendLogin(l, TRUE)
                ELSE l

HealthFailed(i) ==
  /\ lite.requests[i].kind = "health" /\ Fault
  /\ lite' = Answered(lite, i) /\ UNCHANGED clicks

\* onRequestSucceeded: login, registration, restore or refresh.
Granted(i) ==
  LET r == lite.requests[i]
  IN /\ r.kind \in {"login", "restore", "refresh"}
     /\ lite' = Begun(ApplySession(Answered(lite, i), r.at, r.keep))
     /\ UNCHANGED <<clicks, faults>>

\* onRequestFailed.
LoginFailed(i) ==
  /\ lite.requests[i].kind = "login" /\ Fault
  /\ lite' = IF lite.access = None THEN [Answered(lite, i) EXCEPT !.auth = "LoggedOut"]
             ELSE [Answered(lite, i) EXCEPT !.auth = "Authenticated", !.untimed = ~lite.timer]
  /\ UNCHANGED clicks

RefreshFailed(i, terminal) ==
  LET l == Answered(lite, i)
  IN /\ lite.requests[i].kind \in {"restore", "refresh"} /\ Fault
     /\ lite' = IF terminal \/ l.access = None \/ l.stale THEN SignedOut(l)
                ELSE [l EXCEPT !.auth = "Authenticated", !.timer = TRUE]
     /\ UNCHANGED clicks

LoggedOut(i) ==
  /\ lite.requests[i].kind = "logout"
  /\ lite' = Answered(lite, i) /\ UNCHANGED <<clicks, faults>>

\* Other requests: an expired token starts a refresh.
DataAnswered ==
  /\ lite.data # None
  /\ LET l == [lite EXCEPT !.data = None]
     IN IF l.stale /\ l.auth = "Authenticated"
        THEN Room(l) /\ lite' = RefreshNow(l)
        ELSE lite' = l
  /\ UNCHANGED <<clicks, faults>>

RefreshTimer ==
  /\ lite.timer /\ Room(lite)
  /\ lite' = RefreshNow([lite EXCEPT !.timer = FALSE])
  /\ UNCHANGED <<clicks, faults>>

\* The machine slept, or refreshes kept failing.
Expire ==
  /\ lite.access # None /\ ~lite.stale /\ Fault
  /\ lite' = [lite EXCEPT !.stale = TRUE] /\ UNCHANGED clicks

-----------------------------------------------------------------------------
(* The gateway.                                                            *)

Quietly == UNCHANGED <<clicks, faults>>

Connected ==
  /\ lite.socket = "opening"
  /\ lite' = [lite EXCEPT !.socket = "open", !.gate = "Connected", !.wait = FALSE]
  /\ Quietly

\* system.ready, which a closing socket may still deliver: beginAuthentication.
Greeted ==
  /\ lite.socket \in {"open", "closing"} /\ ~lite.greeted
  /\ LET l == [lite EXCEPT !.greeted = TRUE]
         asking == [l EXCEPT !.gate = "Authenticating"]
     IN lite' = CASE l.access = None -> DisconnectFromServer(l)
                  [] l.access # None /\ ~l.want -> asking
                  [] OTHER -> [asking EXCEPT !.asked = IF CanWrite(l) THEN "sent" ELSE "queued",
                                             !.offered = l.access]
  /\ Quietly

\* The answer to system.authenticate: the queue is sent when it is accepted.
Authenticated ==
  /\ lite.asked = "sent" /\ ~lite.stale
  /\ lite' = [lite EXCEPT !.asked = "none", !.offered = None, !.again = FALSE, !.gate = "Ready",
                          !.commands = [c \in Command |-> IF @[c] = "queued" THEN "sent" ELSE @[c]]]
  /\ Quietly

\* TOKEN_EXPIRED: authenticationExpired.
TokenExpired ==
  /\ lite.asked = "sent" /\ lite.stale /\ Room(lite)
  /\ lite' = RefreshNow([lite EXCEPT !.asked = "none", !.offered = None, !.owed = TRUE])
  /\ Quietly

\* Any other error: nothing but a log while there is a token.
Refused ==
  /\ lite.asked = "sent" /\ Fault
  /\ lite' = [lite EXCEPT !.asked = "none", !.offered = None, !.refused = TRUE]
  /\ UNCHANGED clicks

\* No answer in time, a pong that is late, or the network.
Dropped ==
  /\ lite.socket \in {"opening", "open"} /\ Fault
  /\ lite' = HandleDisconnected(lite) /\ UNCHANGED clicks

Closed ==
  /\ lite.socket = "closing"
  /\ lite' = HandleDisconnected(lite) /\ Quietly

ReconnectTimer ==
  /\ lite.wait
  /\ lite' = OpenSocket([lite EXCEPT !.wait = FALSE]) /\ Quietly

\* submitCommand, by the media: refused at once when nobody wants the gateway.
Submit(c) ==
  /\ lite.want /\ lite.commands[c] = "none"
  /\ lite' = [lite EXCEPT !.commands[c] = IF CanWrite(lite) /\ lite.gate = "Ready" THEN "sent"
                                          ELSE "queued"]
  /\ Quietly

\* Its answer, or the timer that started when it was written.
Settled(c) ==
  /\ lite.commands[c] = "sent"
  /\ lite' = [lite EXCEPT !.commands[c] = "none"] /\ Quietly

\* resyncRequired.
Resync ==
  /\ lite.gate = "Ready" /\ lite.socket = "open"
  /\ lite' = LoadCommunity(lite) /\ Quietly

Next ==
  \/ \E s \in Server : Connect(s) \/ \E keep \in BOOLEAN : Login(s, keep)
  \/ Logout \/ Disconnect
  \/ \E i \in Slot :
       \/ \E b \in BOOLEAN : HealthPassed(i, b) \/ RefreshFailed(i, b)
       \/ HealthFailed(i) \/ Granted(i) \/ LoginFailed(i) \/ LoggedOut(i)
  \/ DataAnswered \/ RefreshTimer \/ Expire
  \/ Connected \/ Greeted \/ Authenticated \/ TokenExpired \/ Refused
  \/ Dropped \/ Closed \/ ReconnectTimer \/ Resync
  \/ \E c \in Command : Submit(c) \/ Settled(c)

Spec == Init /\ [][Next]_<<lite, clicks, faults>>

-----------------------------------------------------------------------------
\* A token only travels to the server that issued it: whatever was in flight when the user
\* chose another server (ApplicationController::configureServer, AuthSession's late answers,
\* a closing socket that still greets), no request and no system.authenticate carries it there.
TokenStaysHome ==
  /\ \A i \in Slot : lite.requests[i].token \in {None, lite.requests[i].at}
  /\ lite.data \in {None, lite.url}
  /\ lite.asked = "sent" => lite.offered = lite.peer

\* Nothing is under way that would change the connection.
Quiet ==
  /\ \A i \in Slot : lite.requests[i].kind = "none"
  /\ lite.socket \in {"none", "open"} /\ ~lite.wait /\ lite.asked = "none"
  /\ lite.socket = "open" => lite.greeted

\* When nothing is under way Lite is logged out, with no socket and no command waiting, or
\* logged in, with a refresh to come: its gateway is ready unless the user disconnected, a
\* refresh is due for it, or the server refused the authentication, which GatewayClient.cpp
\* never repeats; commands wait for their answer only; and of an address whose session is
\* not to be remembered the disk keeps no credential.  A login that fails over a running
\* session may have outlasted the session's timer, which nothing starts again (untimed); an
\* answer that comes after a logout signs in again, and counts as any other session.
ClientSettles ==
  Quiet =>
    CASE lite.auth = "LoggedOut" ->
           /\ ~lite.want /\ lite.socket = "none" /\ lite.gate = "Disconnected"
           /\ lite.access = None /\ ~lite.timer
           /\ \A c \in Command : lite.commands[c] = "none"
      [] lite.auth = "Authenticated" ->
           /\ lite.want \/ lite.left
           /\ lite.timer \/ lite.untimed
           /\ lite.want => lite.gate = "Ready" \/ lite.refused \/ lite.owed
           /\ lite.gate = "Ready" => \A c \in Command : lite.commands[c] # "queued"
           /\ lite.store[lite.url] => lite.remembered
      [] OTHER -> FALSE
=============================================================================
