---------------------------- MODULE GatewayClient ----------------------------
(***************************************************************************)
(* The client's connection to the gateway: the module-level singletons and *)
(* closures of packages/client/src/features/gateway/gateway-store.ts, the  *)
(* WebSocket wrapper of packages/sdk/src/ws/gateway-client.ts, the passive *)
(* entry it keeps in recovery-store.ts, the effect of AppRoot.tsx that     *)
(* connects and disconnects it, and, on the other end of each socket, the  *)
(* part of the gateway's event router that authenticates it.               *)
(*                                                                         *)
(* One GatewayClient owns one WebSocket, so both are a Sock.  A Sock whose *)
(* close event was delivered is unused again and may stand for a later     *)
(* connection.  The `error' event of a socket is merged into the `close'   *)
(* event that follows it, and the server's close frame into the close event*)
(* too: all of them run handleTransportDown, which runs once.              *)
(* Envelopes are well formed, the auth ack is followed by a subscription,  *)
(* and the logout that TOKEN_INVALID starts (it only clears the stored     *)
(* session) is part of that step.                                          *)
(* Awaited commands (pendingAcks) settle by their own timers, and what the *)
(* stores do with events is left out: "cmd" stands for any command whose   *)
(* ack is not awaited (channel.subscribe above all).  Delays are left out: *)
(* a timer is set or not, and reconnectAttempt only sets a delay.          *)
(***************************************************************************)
EXTENDS Naturals, Sequences, FiniteSets

CONSTANTS
  Sock,         \* sockets (GatewayClient instances) that may exist at once
  NoSock,       \* null
  MaxMissed,    \* MAX_MISSED_LATENCY_PONGS
  LateReplies,  \* may a reply the server sends after socket.close() arrive?
                \* {FALSE} is the `ws' library: send() on a closing socket
                \* drops the message; {TRUE} is the stub of the router's tests
  MaxFaults,    \* bound: network failures and token expiries
  MaxUses       \* bound: things the user does

ASSUME ClientAssumption ==
  /\ NoSock \notin Sock
  /\ MaxMissed \in Nat \ {0}
  /\ LateReplies \in (SUBSET BOOLEAN) \ {{}}
  /\ MaxFaults \in Nat
  /\ MaxUses \in Nat

VARIABLES
  ws,          \* Sock -> Phase, the socket's readyState
  handled,     \* Sock -> transportDownHandled of its openConnection closure
  live,        \* Sock -> does the network still carry anything either way?
  pinged,      \* Sock -> a latency ping is unanswered on the wire
  up,          \* Sock -> commands sent (or queued while connecting)
  srv,         \* Sock -> the gateway's side of the connection
  dn,          \* Sock -> envelopes on their way to the client
  cur,         \* client
  status,      \* GatewayState.status
  saved,       \* savedApi and savedUrl are set
  timer,       \* reconnectTimerId # null
  orphans,     \* reconnect timers whose id was overwritten: nothing clears them
  handshake,   \* the socket whose handshake timer is armed
  probe,       \* pingTimerId # null
  waiting,     \* lastPingSentAtMs # null
  missed,      \* missedLatencyPongs
  passive,     \* passiveActions has the gateway's retry and abandon
  abandoned,   \* gatewayRecoveryAbandoned
  token,       \* accessToken of the auth store
  refreshing,  \* refreshTokens calls in flight
  effectDue,   \* accessToken changed and AppRoot's effect has not run yet
  faults,      \* failures so far (bound)
  uses         \* user actions so far (bound)

wire  == <<live, pinged, up, srv, dn>>
watch == <<handshake, probe, waiting, missed>>
retry == <<timer, orphans, passive, abandoned>>
auth  == <<token, refreshing, effectDue>>
bound == <<faults, uses>>
vars  == <<ws, handled, wire, cur, status, saved, watch, retry, auth, bound>>

Phase  == {"unused", "connecting", "open", "closing"}
Status == {"disconnected", "connecting", "authenticating", "reconnecting",
           "ready", "error"}
Token  == {"none", "valid", "expired", "revoked"}
Proof  == Token \ {"none"}           \* an access token sent to be verified
Server == {"none", "fresh", "authed", "closed"} \cup Proof
Up     == {"cmd"} \cup Proof
Down   == {"ready", "ack", "expired", "invalid"}

TypeOK ==
  /\ ws \in [Sock -> Phase]
  /\ handled \in [Sock -> BOOLEAN]
  /\ live \in [Sock -> BOOLEAN]
  /\ pinged \in [Sock -> BOOLEAN]
  /\ up \in [Sock -> Seq(Up)]
  /\ srv \in [Sock -> Server]
  /\ dn \in [Sock -> Seq(Down)]
  /\ cur \in Sock \cup {NoSock}
  /\ status \in Status
  /\ saved \in BOOLEAN
  /\ timer \in BOOLEAN
  /\ orphans \in Nat
  /\ handshake \in Sock \cup {NoSock}
  /\ probe \in BOOLEAN
  /\ waiting \in BOOLEAN
  /\ missed \in 0..MaxMissed
  /\ passive \in BOOLEAN
  /\ abandoned \in BOOLEAN
  /\ token \in Token
  /\ refreshing \in Nat
  /\ effectDue \in BOOLEAN
  /\ faults \in 0..MaxFaults
  /\ uses \in 0..MaxUses

\* The application has just loaded with a stored session; the effect will run.
Init ==
  /\ ws = [s \in Sock |-> "unused"]
  /\ handled = [s \in Sock |-> FALSE]
  /\ live = [s \in Sock |-> TRUE]
  /\ pinged = [s \in Sock |-> FALSE]
  /\ up = [s \in Sock |-> <<>>]
  /\ srv = [s \in Sock |-> "none"]
  /\ dn = [s \in Sock |-> <<>>]
  /\ cur = NoSock
  /\ status = "disconnected"
  /\ saved = FALSE
  /\ timer = FALSE
  /\ orphans = 0
  /\ handshake = NoSock
  /\ probe = FALSE
  /\ waiting = FALSE
  /\ missed = 0
  /\ passive = FALSE
  /\ abandoned = FALSE
  /\ token = "valid"
  /\ refreshing = 0
  /\ effectDue = TRUE
  /\ faults = 0
  /\ uses = 0

Fault == faults < MaxFaults /\ faults' = faults + 1 /\ UNCHANGED uses
Use   == uses < MaxUses /\ uses' = uses + 1 /\ UNCHANGED faults

-----------------------------------------------------------------------------
(* Pieces of the store.                                                    *)

\* clearLatencyProbe() and clearHandshakeTimeout()
ClearWatch ==
  /\ handshake' = NoSock
  /\ probe' = FALSE
  /\ waiting' = FALSE
  /\ missed' = 0

\* Mutant of CancelReconnect: the timer is not cleared.
CancelForgotten == UNCHANGED timer

\* cancelReconnect()
CancelReconnect == timer' = FALSE

\* scheduleReconnect(): the id of a timer already set is overwritten
ScheduleReconnect ==
  /\ status' = "reconnecting"
  /\ timer' = TRUE
  /\ orphans' = IF timer THEN orphans + 1 ELSE orphans
  /\ passive' = (passive \/ ~abandoned)
  /\ UNCHANGED abandoned

\* handleTransportDown of the connection s, but for its mark handled[s]
TransportDown(s) ==
  IF handled[s] THEN UNCHANGED <<cur, status, watch, retry>> ELSE
  /\ cur' = IF cur = s THEN NoSock ELSE cur
  /\ ClearWatch
  /\ IF status # "disconnected" /\ saved
     THEN ScheduleReconnect
     ELSE UNCHANGED <<status, retry>>

\* openConnection(api, gatewayUrl) with the new client s; which of the unused
\* names it gets is of no interest
OpenConnection(s) ==
  /\ ws[s] = "unused"
  /\ s = CHOOSE r \in Sock : ws[r] = "unused"
  /\ ws' = [ws EXCEPT ![s] = "connecting"]
  /\ handled' = [handled EXCEPT ![s] = FALSE]
  /\ cur' = s
  /\ status' = "connecting"
  /\ saved' = TRUE
  /\ handshake' = s
  /\ probe' = FALSE
  /\ waiting' = FALSE
  /\ missed' = 0
  /\ UNCHANGED wire

\* GatewayClient.close(): the socket starts to close and the queue is dropped;
\* its close event comes later and still reaches the store's listener
Closed(s, w) == [w EXCEPT ![s] =
  IF @ \in {"connecting", "open"} THEN "closing" ELSE @]

\* sendRaw of the client s: sent, queued until the socket opens, or dropped
CanSend(s) == ws[s] \in {"connecting", "open"}
Send(s, msg) == up' = IF CanSend(s) THEN [up EXCEPT ![s] = Append(@, msg)] ELSE up

\* connect(api, gatewayUrl): returns at once when there is a client
Connect ==
  IF cur # NoSock
  THEN UNCHANGED <<ws, handled, wire, cur, status, saved, watch, timer>>
  ELSE CancelReconnect /\ \E s \in Sock : OpenConnection(s)

\* `client = null; connect(savedApi, savedUrl)', of the timer and the retry;
\* a client that is still there is forgotten, not closed
Reconnect ==
  IF saved
  THEN \E s \in Sock : OpenConnection(s)
  ELSE UNCHANGED <<ws, handled, wire, cur, status, saved, watch>>

-----------------------------------------------------------------------------
(* Timers.                                                                 *)

\* The reconnect timer whose id is known
ReconnectTimer ==
  /\ timer
  /\ timer' = FALSE
  /\ Reconnect
  /\ UNCHANGED <<orphans, passive, abandoned, auth, bound>>

\* One whose id was overwritten: it clears the id of the other, which nothing
\* can cancel from then on
OrphanTimer ==
  /\ orphans > 0
  /\ timer' = FALSE
  /\ orphans' = IF timer THEN orphans ELSE orphans - 1
  /\ Reconnect
  /\ UNCHANGED <<passive, abandoned, auth, bound>>

\* An exchange is under way on s that a healthy network ends within seconds
Busy(s) ==
  /\ live[s]
  /\ \/ ws[s] = "connecting"
     \/ ws[s] = "open" /\ (up[s] # <<>> \/ dn[s] # <<>> \/ srv[s] \in Proof \cup {"closed"})

\* The handshake timer, 8 s: longer than any exchange the network carries
HandshakeTimer ==
  /\ handshake # NoSock
  /\ ~Busy(handshake)
  /\ \/ /\ status \in {"connecting", "authenticating"}
        /\ handled' = [handled EXCEPT ![handshake] = TRUE]
        /\ ws' = Closed(handshake, ws)
        /\ TransportDown(handshake)
     \/ /\ status \notin {"connecting", "authenticating"}
        /\ handshake' = NoSock
        /\ UNCHANGED <<ws, handled, cur, status, probe, waiting, missed, retry>>
  /\ UNCHANGED <<wire, saved, auth, bound>>

\* Mutant of PastLimit: unanswered pings are counted, and that is all.
NeverPast == FALSE

\* The ping that is unanswered now is one too many
PastLimit == missed + 1 >= MaxMissed

\* sendLatencyPing, every 5 s: a pong the network carries arrives before
ProbeTick ==
  /\ probe
  /\ cur # NoSock
  /\ ~(CanSend(cur) /\ live[cur] /\ pinged[cur])
  /\ \/ /\ waiting
        /\ PastLimit
        /\ missed' = MaxMissed
        /\ ws' = Closed(cur, ws)
        /\ UNCHANGED <<waiting, pinged>>
     \/ /\ waiting => ~PastLimit
        /\ missed' = IF waiting THEN missed + 1 ELSE missed
        /\ waiting' = TRUE
        /\ pinged' = [pinged EXCEPT ![cur] = @ \/ CanSend(cur)]
        /\ UNCHANGED ws
  /\ UNCHANGED <<handled, live, up, srv, dn, cur, status, saved, handshake, probe,
                 retry, auth, bound>>

-----------------------------------------------------------------------------
(* What arrives on a socket.                                               *)

\* handleTransportDown removes the listener, but the socket of a connection it
\* has handled is closing and delivers nothing
Arrives(s, msg) ==
  /\ ws[s] = "open"
  /\ live[s]
  /\ dn[s] # <<>>
  /\ Head(dn[s]) = msg
  /\ dn' = [dn EXCEPT ![s] = Tail(@)]

\* system.ready: authenticate with the current access token, or give up
Ready(s) ==
  /\ Arrives(s, "ready")
  /\ \/ /\ token # "none"
        /\ status' = "authenticating"
        /\ up' = [up EXCEPT ![s] = Append(@, token)]
        /\ UNCHANGED <<ws, saved>>
     \/ /\ token = "none"
        /\ status' = "error"
        /\ saved' = FALSE
        /\ ws' = Closed(s, ws)
        /\ UNCHANGED up
  /\ UNCHANGED <<handled, live, pinged, srv, cur, watch, retry, auth, bound>>

\* Mutant of EnsureLatencyProbe: a connection is not watched.
ProbeForgotten == UNCHANGED <<probe, waiting, pinged>>

\* ensureLatencyProbe: a first ping, then one every 5 s
EnsureLatencyProbe ==
  /\ probe' = TRUE
  /\ IF ~probe /\ cur # NoSock
     THEN waiting' = TRUE /\ pinged' = [pinged EXCEPT ![cur] = @ \/ CanSend(cur)]
     ELSE UNCHANGED <<waiting, pinged>>

\* An ack nobody awaits: it is the answer to system.authenticate when the
\* status says so, whichever command and socket it belongs to
Ack(s) ==
  /\ Arrives(s, "ack")
  /\ \/ /\ status # "authenticating"
        /\ UNCHANGED <<pinged, up, status, watch, passive, abandoned>>
     \/ /\ status = "authenticating"
        /\ status' = "ready"
        /\ handshake' = NoSock
        /\ EnsureLatencyProbe
        /\ abandoned' = FALSE
        /\ passive' = FALSE
        /\ IF cur = NoSock THEN UNCHANGED up ELSE Send(cur, "cmd")
        /\ UNCHANGED missed
  /\ UNCHANGED <<ws, handled, live, srv, cur, saved, timer, orphans, auth, bound>>

\* TOKEN_EXPIRED: drop the connection and refresh the tokens
TokenExpired(s) ==
  /\ Arrives(s, "expired")
  /\ ClearWatch
  /\ saved' = FALSE
  /\ ws' = Closed(s, ws)
  /\ IF token # "none"
     THEN refreshing' = refreshing + 1 /\ UNCHANGED status
     ELSE status' = "error" /\ UNCHANGED refreshing
  /\ UNCHANGED <<handled, live, pinged, up, srv, cur, retry, token, effectDue, bound>>

\* TOKEN_INVALID and UNAUTHORIZED: log out
TokenInvalid(s) ==
  /\ Arrives(s, "invalid")
  /\ ClearWatch
  /\ saved' = FALSE
  /\ ws' = Closed(s, ws)
  /\ status' = "error"
  /\ token' = "none"
  /\ effectDue' = TRUE
  /\ UNCHANGED <<handled, live, pinged, up, srv, cur, retry, refreshing, bound>>

\* A pong, of whichever ping
Pong(s) ==
  /\ ws[s] = "open"
  /\ live[s]
  /\ pinged[s]
  /\ pinged' = [pinged EXCEPT ![s] = FALSE]
  /\ waiting' = FALSE
  /\ missed' = 0
  /\ UNCHANGED <<ws, handled, live, up, srv, dn, cur, status, saved, handshake, probe,
                 retry, auth, bound>>

\* The socket is gone: the slot is free for another connection
Release(s) ==
  /\ ws' = [ws EXCEPT ![s] = "unused"]
  /\ handled' = [handled EXCEPT ![s] = FALSE]
  /\ live' = [live EXCEPT ![s] = TRUE]
  /\ pinged' = [pinged EXCEPT ![s] = FALSE]
  /\ up' = [up EXCEPT ![s] = <<>>]
  /\ srv' = [srv EXCEPT ![s] = "none"]
  /\ dn' = [dn EXCEPT ![s] = <<>>]

\* The close event: the client closed the socket, or the server did and its
\* close frame is behind everything it sent
CloseEvent(s) ==
  /\ \/ ws[s] = "closing"
     \/ ws[s] = "open" /\ live[s] /\ srv[s] = "closed" /\ dn[s] = <<>>
  /\ TransportDown(s)
  /\ Release(s)
  /\ UNCHANGED <<saved, auth, bound>>

-----------------------------------------------------------------------------
(* The gateway and the network.                                            *)

\* The connection is accepted: attach, system.ready
Opened(s) ==
  /\ ws[s] = "connecting"
  /\ live[s]
  /\ ws' = [ws EXCEPT ![s] = "open"]
  /\ srv' = [srv EXCEPT ![s] = "fresh"]
  /\ dn' = [dn EXCEPT ![s] = Append(@, "ready")]
  /\ UNCHANGED <<handled, live, pinged, up, cur, status, saved, watch, retry, auth, bound>>

\* connection.socket.close() and then the error reply
Refuse(s, msg) ==
  /\ srv' = [srv EXCEPT ![s] = "closed"]
  /\ \E late \in LateReplies :
       dn' = IF late THEN [dn EXCEPT ![s] = Append(@, msg)] ELSE dn

\* routeGatewayMessage: a command, allowed only once authenticated
Route(s) ==
  /\ ws[s] = "open"
  /\ live[s]
  /\ up[s] # <<>>
  /\ up' = [up EXCEPT ![s] = Tail(@)]
  /\ LET msg == Head(up[s])
     IN \/ /\ msg \in Proof
           /\ srv[s] = "fresh"
           /\ srv' = [srv EXCEPT ![s] = msg]
           /\ UNCHANGED dn
        \/ /\ msg = "cmd"
           /\ srv[s] = "authed"
           /\ dn' = [dn EXCEPT ![s] = Append(@, "ack")]
           /\ UNCHANGED srv
        \/ /\ msg = "cmd"
           /\ srv[s] \in {"fresh"} \cup Proof
           /\ Refuse(s, "invalid")
        \/ /\ srv[s] = "closed"
           /\ UNCHANGED <<srv, dn>>
  /\ UNCHANGED <<ws, handled, live, pinged, cur, status, saved, watch, retry, auth, bound>>

\* handleAuthenticate has its answer from the verifier and the database
Authenticate(s) ==
  /\ ws[s] = "open"
  /\ live[s]
  /\ \/ /\ srv[s] = "valid"
        /\ token # "none"
        /\ srv' = [srv EXCEPT ![s] = "authed"]
        /\ dn' = [dn EXCEPT ![s] = Append(@, "ack")]
     \/ /\ srv[s] = "expired"
        /\ Refuse(s, "expired")
     \/ /\ srv[s] = "revoked" \/ (srv[s] = "valid" /\ token = "none")
        /\ Refuse(s, "invalid")
  /\ UNCHANGED <<ws, handled, live, pinged, up, cur, status, saved, watch, retry, auth, bound>>

\* The connection fails or is cut, and the browser notices
Drop(s) ==
  /\ ws[s] \in {"connecting", "open"}
  /\ Fault
  /\ TransportDown(s)
  /\ Release(s)
  /\ UNCHANGED <<saved, auth>>

\* It goes silent, and the browser does not notice
Stall(s) ==
  /\ ws[s] \in {"connecting", "open"}
  /\ live[s]
  /\ Fault
  /\ live' = [live EXCEPT ![s] = FALSE]
  /\ UNCHANGED <<ws, handled, pinged, up, srv, dn, cur, status, saved, watch, retry, auth>>

-----------------------------------------------------------------------------
(* The session.                                                            *)

\* Fifteen minutes after it was issued
ExpireToken ==
  /\ token = "valid"
  /\ Fault
  /\ token' = "expired"
  /\ UNCHANGED <<ws, handled, wire, cur, status, saved, watch, retry, refreshing, effectDue>>

\* refreshTokens returned a token: `client = null; connect(api, gatewayUrl)'.
\* A logout meanwhile does not stop it: the tokens of the revoked session come
\* back
RefreshOk ==
  /\ refreshing > 0
  /\ refreshing' = refreshing - 1
  /\ token' \in {"valid", "revoked"}
  /\ effectDue' = TRUE
  /\ CancelReconnect
  /\ \E s \in Sock : OpenConnection(s)
  /\ UNCHANGED <<orphans, passive, abandoned, bound>>

\* Mutant of RefreshFailed: the session that cannot be refreshed is kept.
RefreshFailedKept ==
  /\ refreshing > 0
  /\ refreshing' = refreshing - 1
  /\ status' = "error"
  /\ UNCHANGED <<ws, handled, wire, cur, saved, watch, retry, token, effectDue, bound>>

\* It failed: the store forgets the session
RefreshFailed ==
  /\ refreshing > 0
  /\ refreshing' = refreshing - 1
  /\ token' = "none"
  /\ effectDue' = TRUE
  /\ status' = "error"
  /\ UNCHANGED <<ws, handled, wire, cur, saved, watch, retry, bound>>

\* The effect of AppRoot: connect when there is a token and no connection
EffectConnects ==
  /\ effectDue
  /\ token # "none"
  /\ effectDue' = FALSE
  /\ IF status \in {"disconnected", "error"}
     THEN Connect
     ELSE UNCHANGED <<ws, handled, wire, cur, status, saved, watch, timer>>
  /\ UNCHANGED <<orphans, passive, abandoned, token, refreshing, bound>>

\* and disconnect() when there is none
EffectDisconnects ==
  /\ effectDue
  /\ token = "none"
  /\ effectDue' = FALSE
  /\ CancelReconnect
  /\ ClearWatch
  /\ saved' = FALSE
  /\ abandoned' = FALSE
  /\ passive' = FALSE
  /\ ws' = IF cur = NoSock THEN ws ELSE Closed(cur, ws)
  /\ cur' = NoSock
  /\ status' = "disconnected"
  /\ UNCHANGED <<handled, wire, orphans, token, refreshing, bound>>

\* The buttons are those of a rendered page, whose effects have run
Logout ==
  /\ token # "none"
  /\ ~effectDue
  /\ Use
  /\ token' = "none"
  /\ effectDue' = TRUE
  /\ UNCHANGED <<ws, handled, wire, cur, status, saved, watch, retry, refreshing>>

Login ==
  /\ token = "none"
  /\ ~effectDue
  /\ Use
  /\ token' = "valid"
  /\ effectDue' = TRUE
  /\ UNCHANGED <<ws, handled, wire, cur, status, saved, watch, retry, refreshing>>

\* `Retry now' of the recovery panel: cancelReconnect and connect anew, even
\* when the attempt the timer started is still under way
RetryNow ==
  /\ passive
  /\ Use
  /\ CancelReconnect
  /\ Reconnect
  /\ UNCHANGED <<orphans, passive, abandoned, auth>>

\* `Abandon' of the recovery panel: hides the incident until the next success
Abandon ==
  /\ passive
  /\ Use
  /\ abandoned' = TRUE
  /\ passive' = FALSE
  /\ UNCHANGED <<ws, handled, wire, cur, status, saved, watch, timer, orphans, auth>>

\* The user picks another channel: channel.subscribe, whatever the status
Subscribe ==
  /\ cur # NoSock
  /\ token # "none"
  /\ Use
  /\ Send(cur, "cmd")
  /\ UNCHANGED <<ws, handled, live, pinged, srv, dn, cur, status, saved, watch, retry, auth>>

-----------------------------------------------------------------------------

Receive(s) == Ready(s) \/ Ack(s) \/ TokenExpired(s) \/ TokenInvalid(s)
Gateway(s) == Opened(s) \/ Route(s) \/ Authenticate(s)
Socket(s)  == Receive(s) \/ Pong(s) \/ CloseEvent(s) \/ Gateway(s)

Timers == ReconnectTimer \/ OrphanTimer \/ HandshakeTimer \/ ProbeTick
Session == RefreshOk \/ EffectConnects \/ EffectDisconnects
Failure == ExpireToken \/ RefreshFailed \/ \E s \in Sock : Drop(s) \/ Stall(s)
User == Logout \/ Login \/ RetryNow \/ Abandon \/ Subscribe

Next == (\E s \in Sock : Socket(s)) \/ Timers \/ Session \/ Failure \/ User

Spec == Init /\ [][Next]_vars

\* The browser's event loop and timers run, the gateway answers, the network
\* carries what it has not lost.  Nothing is asked of failures and the user.
Fairness ==
  /\ \A s \in Sock : /\ WF_vars(Receive(s)) /\ WF_vars(Pong(s))
                     /\ WF_vars(CloseEvent(s)) /\ WF_vars(Gateway(s))
  /\ WF_vars(ReconnectTimer)
  /\ WF_vars(OrphanTimer)
  /\ WF_vars(HandshakeTimer)
  /\ WF_vars(ProbeTick)
  /\ WF_vars(Session)

FairSpec == Spec /\ Fairness

-----------------------------------------------------------------------------
(* What the store promises.                                                *)

\* A status that promises a connection is backed by what will bring it: a
\* client that is reconnecting has a reconnect timer pending (tracked or not)
\* and what it needs to reconnect, or a token refresh; one that is connecting
\* is under the handshake timer of its current socket, or a refresh; and an
\* error is shown only to a user who is signed out or about to be, never as a
\* dead end.  (docs/current-status.md:596: the close-event reconnect path and
\* the handshake timeout `avoid sticky connecting states'.)  The timers are
\* shared by the closures of all sockets: late events of one touch the others'.
AttemptIsPending ==
  /\ status = "reconnecting" => (saved /\ (timer \/ orphans > 0)) \/ refreshing > 0
  /\ status = "connecting" => (handshake # NoSock /\ handshake = cur) \/ refreshing > 0
  /\ status = "error" => token = "none" \/ effectDue

\* Once disconnect() has run nothing can bring the connection back: no saved
\* address, no tracked timer, no client, no watchdog.  A reconnect timer whose
\* id was lost may still fire, and then finds nothing to connect to.
SignedOutIsQuiet ==
  status = "disconnected" =>
    ~saved /\ ~timer /\ cur = NoSock /\ handshake = NoSock /\ ~probe

\* The store has replaced a socket without closing it and still listens to it:
\* the retry by hand during an attempt, and a reconnect timer set by the late
\* close event of an older socket, leave one behind
Forgotten == \E s \in Sock : s # cur /\ CanSend(s) /\ ~handled[s]

\* The status is true: the gateway has authenticated the current socket and
\* can still reach it.
Connected ==
  /\ status = "ready"
  /\ cur # NoSock
  /\ live[cur]
  /\ srv[cur] = "authed"

\* A client that stays signed in is connected in the end, and knows it, through
\* failures of the network, half-open sockets, an access token that expires,
\* commands sent too early and logins that follow a logout; unless it forgets a
\* socket, whose events then change the status of a connection they do not
\* belong to.
ClientRecovers == <>[](Connected \/ token = "none") \/ <>Forgotten
=============================================================================
