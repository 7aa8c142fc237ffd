-------------------------- MODULE GatewayClientProofs --------------------------
(***************************************************************************)
(* Theorems of the client's gateway connection: its types, that a status   *)
(* which promises a connection is backed by a timer, a handshake or a      *)
(* token refresh, and that a signed-out client is quiet; for every number  *)
(* of sockets, failures and user actions, and whichever of the two         *)
(* WebSocket behaviours LateReplies names.                                 *)
(***************************************************************************)
EXTENDS GatewayClient, TLAPS

(* What AttemptIsPending rests on: a client that is connecting, and is not *)
(* about to refresh its token, knows where to reconnect; once disconnect() *)
(* has run for a user without a token, nothing opens a connection; and an  *)
(* error left over from before a login cannot hide a connection from the   *)
(* effect that will connect.                                               *)
Support ==
  /\ status = "connecting" => saved \/ refreshing > 0
  /\ token = "none" /\ ~effectDue => cur = NoSock /\ ~saved
  /\ status = "error" /\ token # "none" => cur = NoSock /\ ~saved

ClientInv == TypeOK /\ AttemptIsPending /\ SignedOutIsQuiet /\ Support

-----------------------------------------------------------------------------
(* Types.                                                                  *)

\* The arithmetic of the counters.
LEMMA Counters ==
  ASSUME TypeOK
  PROVE  /\ 0 \in 0..MaxMissed
         /\ MaxMissed \in 0..MaxMissed
         /\ ~PastLimit => missed + 1 \in 0..MaxMissed
         /\ orphans + 1 \in Nat
         /\ orphans > 0 => orphans - 1 \in Nat
         /\ refreshing + 1 \in Nat
         /\ refreshing > 0 => refreshing - 1 \in Nat
         /\ faults < MaxFaults => faults + 1 \in 0..MaxFaults
         /\ uses < MaxUses => uses + 1 \in 0..MaxUses
BY ClientAssumption DEF TypeOK, PastLimit

\* Types of the pieces that several actions share.
LEMMA SharedTypes ==
  ASSUME TypeOK
  PROVE  /\ CancelReconnect => timer' \in BOOLEAN
         /\ ClearWatch => /\ handshake' \in Sock \cup {NoSock}
                          /\ probe' \in BOOLEAN
                          /\ waiting' \in BOOLEAN
                          /\ missed' \in 0..MaxMissed
         /\ ScheduleReconnect => /\ status' \in Status
                                 /\ timer' \in BOOLEAN
                                 /\ orphans' \in Nat
                                 /\ passive' \in BOOLEAN
                                 /\ abandoned' \in BOOLEAN
         /\ \A s \in Sock : Closed(s, ws) \in [Sock -> Phase]
         /\ Fault => faults' \in 0..MaxFaults /\ uses' \in 0..MaxUses
         /\ Use => faults' \in 0..MaxFaults /\ uses' \in 0..MaxUses
<1> USE Counters DEF TypeOK
<1>1. CancelReconnect => timer' \in BOOLEAN
  BY DEF CancelReconnect
<1>2. ClearWatch => /\ handshake' \in Sock \cup {NoSock}
                    /\ probe' \in BOOLEAN
                    /\ waiting' \in BOOLEAN
                    /\ missed' \in 0..MaxMissed
  BY DEF ClearWatch
<1>3. ScheduleReconnect => /\ status' \in Status
                           /\ timer' \in BOOLEAN
                           /\ orphans' \in Nat
                           /\ passive' \in BOOLEAN
                           /\ abandoned' \in BOOLEAN
  BY DEF ScheduleReconnect, Status
<1>4. ASSUME NEW s \in Sock PROVE Closed(s, ws) \in [Sock -> Phase]
  BY DEF Closed, Phase
<1>5. Fault => faults' \in 0..MaxFaults /\ uses' \in 0..MaxUses
  BY DEF Fault
<1>6. Use => faults' \in 0..MaxFaults /\ uses' \in 0..MaxUses
  BY DEF Use
<1> QED
  BY <1>1, <1>2, <1>3, <1>4, <1>5, <1>6

LEMMA TransportDownTypes ==
  ASSUME TypeOK, NEW s \in Sock, TransportDown(s)
  PROVE  /\ cur' \in Sock \cup {NoSock}
         /\ status' \in Status
         /\ handshake' \in Sock \cup {NoSock}
         /\ probe' \in BOOLEAN
         /\ waiting' \in BOOLEAN
         /\ missed' \in 0..MaxMissed
         /\ timer' \in BOOLEAN
         /\ orphans' \in Nat
         /\ passive' \in BOOLEAN
         /\ abandoned' \in BOOLEAN
BY SharedTypes DEF TransportDown, TypeOK, watch, retry

LEMMA OpenConnectionTypes ==
  ASSUME TypeOK, NEW s \in Sock, OpenConnection(s)
  PROVE  /\ ws' \in [Sock -> Phase]
         /\ handled' \in [Sock -> BOOLEAN]
         /\ UNCHANGED wire
         /\ cur' \in Sock \cup {NoSock}
         /\ status' \in Status
         /\ saved' \in BOOLEAN
         /\ handshake' \in Sock \cup {NoSock}
         /\ probe' \in BOOLEAN
         /\ waiting' \in BOOLEAN
         /\ missed' \in 0..MaxMissed
BY Counters DEF TypeOK, OpenConnection, Phase, Status

LEMMA ReconnectTypes ==
  ASSUME TypeOK, Reconnect
  PROVE  /\ ws' \in [Sock -> Phase]
         /\ handled' \in [Sock -> BOOLEAN]
         /\ UNCHANGED wire
         /\ cur' \in Sock \cup {NoSock}
         /\ status' \in Status
         /\ saved' \in BOOLEAN
         /\ handshake' \in Sock \cup {NoSock}
         /\ probe' \in BOOLEAN
         /\ waiting' \in BOOLEAN
         /\ missed' \in 0..MaxMissed
BY OpenConnectionTypes DEF Reconnect, TypeOK, watch

LEMMA ReleaseTypes ==
  ASSUME TypeOK, NEW s \in Sock, Release(s)
  PROVE  /\ ws' \in [Sock -> Phase]
         /\ handled' \in [Sock -> BOOLEAN]
         /\ live' \in [Sock -> BOOLEAN]
         /\ pinged' \in [Sock -> BOOLEAN]
         /\ up' \in [Sock -> Seq(Up)]
         /\ srv' \in [Sock -> Server]
         /\ dn' \in [Sock -> Seq(Down)]
BY DEF Release, TypeOK, Phase, Server

\* What the gateway and the client put on the wire is well formed.
LEMMA WireTypes ==
  ASSUME TypeOK, NEW s \in Sock
  PROVE  /\ \A m \in Up : [up EXCEPT ![s] = Append(@, m)] \in [Sock -> Seq(Up)]
         /\ \A m \in Up : Send(s, m) => up' \in [Sock -> Seq(Up)]
         /\ \A m \in Down : [dn EXCEPT ![s] = Append(@, m)] \in [Sock -> Seq(Down)]
         /\ \A m \in Down : Refuse(s, m) => /\ srv' \in [Sock -> Server]
                                            /\ dn' \in [Sock -> Seq(Down)]
         /\ up[s] # <<>> => /\ Head(up[s]) \in Up
                            /\ [up EXCEPT ![s] = Tail(@)] \in [Sock -> Seq(Up)]
         /\ dn[s] # <<>> => [dn EXCEPT ![s] = Tail(@)] \in [Sock -> Seq(Down)]
<1> USE DEF TypeOK
<1>1. ASSUME NEW m \in Up
      PROVE  [up EXCEPT ![s] = Append(@, m)] \in [Sock -> Seq(Up)]
  OBVIOUS
<1>2. ASSUME NEW m \in Up, Send(s, m) PROVE up' \in [Sock -> Seq(Up)]
  BY <1>1, <1>2 DEF Send
<1>3. ASSUME NEW m \in Down
      PROVE  [dn EXCEPT ![s] = Append(@, m)] \in [Sock -> Seq(Down)]
  OBVIOUS
<1>4. ASSUME NEW m \in Down, Refuse(s, m)
      PROVE  srv' \in [Sock -> Server] /\ dn' \in [Sock -> Seq(Down)]
  BY <1>3, <1>4 DEF Refuse, Server
<1>5. ASSUME up[s] # <<>>
      PROVE  Head(up[s]) \in Up /\ [up EXCEPT ![s] = Tail(@)] \in [Sock -> Seq(Up)]
  BY <1>5
<1>6. ASSUME dn[s] # <<>>
      PROVE  [dn EXCEPT ![s] = Tail(@)] \in [Sock -> Seq(Down)]
  BY <1>6
<1> QED
  BY <1>1, <1>2, <1>3, <1>4, <1>5, <1>6

\* Timers keep the types.
LEMMA TimersTyped ==
  ASSUME TypeOK, Timers
  PROVE  TypeOK'
<1> USE Counters
<1>1. CASE ReconnectTimer
  BY <1>1, ReconnectTypes DEF ReconnectTimer, TypeOK, wire, auth, bound
<1>2. CASE OrphanTimer
  BY <1>2, ReconnectTypes DEF OrphanTimer, TypeOK, wire, auth, bound
<1>3. CASE HandshakeTimer
  <2>1. handshake \in Sock
    BY <1>3 DEF HandshakeTimer, TypeOK
  <2>2. CASE status \in {"connecting", "authenticating"}
    <3>1. /\ handled' = [handled EXCEPT ![handshake] = TRUE]
          /\ ws' = Closed(handshake, ws)
          /\ TransportDown(handshake)
      BY <1>3, <2>2 DEF HandshakeTimer
    <3> QED
      BY <1>3, <2>1, <3>1, SharedTypes, TransportDownTypes
      DEF HandshakeTimer, TypeOK, wire, auth, bound
  <2>3. CASE status \notin {"connecting", "authenticating"}
    BY <1>3, <2>3 DEF HandshakeTimer, TypeOK, wire, retry, auth, bound
  <2> QED
    BY <2>2, <2>3
<1>4. CASE ProbeTick
  <2>1. cur \in Sock
    BY <1>4 DEF ProbeTick, TypeOK
  <2>2. ws' \in [Sock -> Phase] /\ pinged' \in [Sock -> BOOLEAN]
    BY <1>4, <2>1, SharedTypes DEF ProbeTick, TypeOK, CanSend
  <2>3. missed' \in 0..MaxMissed /\ waiting' \in BOOLEAN
    BY <1>4 DEF ProbeTick, PastLimit, TypeOK
  <2> QED
    BY <1>4, <2>2, <2>3 DEF ProbeTick, TypeOK, retry, auth, bound
<1> QED
  BY <1>1, <1>2, <1>3, <1>4 DEF Timers

\* What a socket delivers keeps the types.
LEMMA SocketTyped ==
  ASSUME TypeOK, NEW s \in Sock, Socket(s)
  PROVE  TypeOK'
<1> USE Counters
<1>1. ASSUME NEW m, Arrives(s, m)
      PROVE  dn' \in [Sock -> Seq(Down)]
  BY <1>1, WireTypes DEF Arrives
<1>2. CASE Ready(s)
  <2>1. up' \in [Sock -> Seq(Up)] /\ ws' \in [Sock -> Phase]
    <3>1. CASE token # "none"
      <4>1. token \in Up
        BY <3>1 DEF TypeOK, Up, Proof
      <4>2. up' = [up EXCEPT ![s] = Append(@, token)] /\ ws' = ws
        BY <1>2, <3>1 DEF Ready
      <4> QED
        BY <4>1, <4>2, WireTypes DEF TypeOK
    <3>2. CASE token = "none"
      BY <1>2, <3>2, SharedTypes DEF Ready, TypeOK
    <3> QED
      BY <3>1, <3>2
  <2>2. status' \in Status /\ saved' \in BOOLEAN
    BY <1>2 DEF Ready, TypeOK, Status
  <2> QED
    BY <1>1, <1>2, <2>1, <2>2 DEF Ready, TypeOK, watch, retry, auth, bound
<1>3. CASE Ack(s)
  <2>1. CASE status # "authenticating"
    BY <1>1, <1>3, <2>1 DEF Ack, TypeOK, watch, auth, bound
  <2>2. CASE status = "authenticating"
    <3>1. /\ status' = "ready" /\ handshake' = NoSock
          /\ EnsureLatencyProbe
          /\ abandoned' = FALSE /\ passive' = FALSE
          /\ IF cur = NoSock THEN UNCHANGED up ELSE Send(cur, "cmd")
          /\ UNCHANGED missed
      BY <1>3, <2>2 DEF Ack
    <3>2. probe' \in BOOLEAN /\ waiting' \in BOOLEAN /\ pinged' \in [Sock -> BOOLEAN]
      BY <3>1 DEF EnsureLatencyProbe, CanSend, TypeOK
    <3>3. up' \in [Sock -> Seq(Up)]
      BY <3>1, WireTypes DEF TypeOK, Up
    <3> QED
      BY <1>1, <1>3, <3>1, <3>2, <3>3 DEF Ack, TypeOK, Status, auth, bound
  <2> QED
    BY <2>1, <2>2
<1>4. CASE TokenExpired(s)
  BY <1>1, <1>4, SharedTypes, ZenonT(30) DEF TokenExpired, TypeOK, Status, retry, bound
<1>5. CASE TokenInvalid(s)
  BY <1>1, <1>5, SharedTypes DEF TokenInvalid, TypeOK, Status, Token, retry, bound
<1>6. CASE Pong(s)
  BY <1>6 DEF Pong, TypeOK, retry, auth, bound
<1>7. CASE CloseEvent(s)
  BY <1>7, TransportDownTypes, ReleaseTypes DEF CloseEvent, TypeOK, auth, bound
<1>8. CASE Opened(s)
  BY <1>8, WireTypes DEF Opened, Down, TypeOK, Phase, Server, watch, retry, auth, bound
<1>9. CASE Route(s)
  <2>1. up' \in [Sock -> Seq(Up)]
    BY <1>9, WireTypes DEF Route
  <2>2. srv' \in [Sock -> Server] /\ dn' \in [Sock -> Seq(Down)]
    <3> DEFINE msg == Head(up[s])
    <3>1. CASE msg \in Proof /\ srv' = [srv EXCEPT ![s] = msg] /\ UNCHANGED dn
      BY <3>1 DEF TypeOK, Server
    <3>2. CASE dn' = [dn EXCEPT ![s] = Append(@, "ack")] /\ UNCHANGED srv
      BY <3>2, WireTypes DEF TypeOK, Down
    <3>3. CASE Refuse(s, "invalid")
      BY <3>3, WireTypes DEF Down
    <3>4. CASE UNCHANGED <<srv, dn>>
      BY <3>4 DEF TypeOK
    <3> QED
      BY <1>9, <3>1, <3>2, <3>3, <3>4 DEF Route
  <2> QED
    BY <1>9, <2>1, <2>2 DEF Route, TypeOK, watch, retry, auth, bound
<1>10. CASE Authenticate(s)
  <2>1. srv' \in [Sock -> Server] /\ dn' \in [Sock -> Seq(Down)]
    <3>1. CASE /\ srv' = [srv EXCEPT ![s] = "authed"]
               /\ dn' = [dn EXCEPT ![s] = Append(@, "ack")]
      BY <3>1, WireTypes DEF TypeOK, Server, Down
    <3>2. CASE Refuse(s, "expired") \/ Refuse(s, "invalid")
      BY <3>2, WireTypes DEF Down
    <3> QED
      BY <1>10, <3>1, <3>2 DEF Authenticate
  <2> QED
    BY <1>10, <2>1 DEF Authenticate, TypeOK, watch, retry, auth, bound
<1> QED
  BY <1>2, <1>3, <1>4, <1>5, <1>6, <1>7, <1>8, <1>9, <1>10
  DEF Socket, Receive, Gateway

\* The session, failures and the user keep the types.
LEMMA OthersTyped ==
  ASSUME TypeOK, Session \/ Failure \/ User
  PROVE  TypeOK'
<1> USE Counters
<1>1. CASE RefreshOk
  <2>1. PICK s \in Sock : OpenConnection(s)
    BY <1>1 DEF RefreshOk
  <2> QED
    BY <1>1, <2>1, OpenConnectionTypes, SharedTypes
    DEF RefreshOk, TypeOK, Token, wire, bound
<1>2. CASE RefreshFailed
  BY <1>2 DEF RefreshFailed, TypeOK, Token, Status, wire, watch, retry, bound
<1>3. CASE EffectConnects
  <2>1. CASE status \in {"disconnected", "error"} /\ cur = NoSock
    <3>1. PICK s \in Sock : OpenConnection(s)
      BY <1>3, <2>1 DEF EffectConnects, Connect
    <3> QED
      BY <1>3, <2>1, <3>1, OpenConnectionTypes, SharedTypes
      DEF EffectConnects, Connect, TypeOK, wire, bound
  <2>2. CASE ~(status \in {"disconnected", "error"} /\ cur = NoSock)
    BY <1>3, <2>2 DEF EffectConnects, Connect, TypeOK, wire, watch, bound
  <2> QED
    BY <2>1, <2>2
<1>4. CASE EffectDisconnects
  <2>1. ws' \in [Sock -> Phase]
    BY <1>4, SharedTypes DEF EffectDisconnects, TypeOK
  <2> QED
    BY <1>4, <2>1, SharedTypes DEF EffectDisconnects, TypeOK, Status, wire, bound
<1>5. CASE ExpireToken
  BY <1>5, SharedTypes DEF ExpireToken, TypeOK, Token, wire, watch, retry
<1>6. ASSUME NEW s \in Sock, Drop(s) PROVE TypeOK'
  BY <1>6, SharedTypes, TransportDownTypes, ReleaseTypes DEF Drop, TypeOK, auth
<1>7. ASSUME NEW s \in Sock, Stall(s) PROVE TypeOK'
  BY <1>7, SharedTypes, SMTT(30) DEF Stall, TypeOK, watch, retry, auth
<1>8. CASE Logout \/ Login
  BY <1>8, SharedTypes, ZenonT(30) DEF Logout, Login, TypeOK, Token, wire, watch, retry
<1>9. CASE RetryNow
  BY <1>9, SharedTypes, ReconnectTypes DEF RetryNow, TypeOK, wire, auth
<1>10. CASE Abandon
  BY <1>10, SharedTypes DEF Abandon, TypeOK, wire, watch, auth
<1>11. CASE Subscribe
  <2>1. up' \in [Sock -> Seq(Up)]
    BY <1>11, WireTypes DEF Subscribe, TypeOK, Up
  <2> QED
    BY <1>11, <2>1, SharedTypes, ZenonT(30) DEF Subscribe, TypeOK, watch, retry, auth
<1> QED
  BY <1>1, <1>2, <1>3, <1>4, <1>5, <1>6, <1>7, <1>8, <1>9, <1>10, <1>11
  DEF Session, Failure, User

LEMMA TypesInit == Init => TypeOK
<1> SUFFICES ASSUME Init PROVE TypeOK
  OBVIOUS
<1>1. 0 \in 0..MaxMissed /\ 0 \in 0..MaxFaults /\ 0 \in 0..MaxUses /\ 0 \in Nat
  BY ClientAssumption
<1>2. <<>> \in Seq(Up) /\ <<>> \in Seq(Down)
  OBVIOUS
<1> QED
  BY <1>1, <1>2 DEF Init, TypeOK, Phase, Server, Status, Token

LEMMA TypesStep == TypeOK /\ [Next]_vars => TypeOK'
<1> SUFFICES ASSUME TypeOK, [Next]_vars PROVE TypeOK'
  OBVIOUS
<1>1. CASE UNCHANGED vars
  BY <1>1 DEF vars, wire, watch, retry, auth, bound, TypeOK
<1>2. CASE Next
  BY <1>2, SocketTyped, TimersTyped, OthersTyped DEF Next
<1> QED
  BY <1>1, <1>2

(* The state of the store, of its sockets, of the wire and of the session  *)
(* is well typed whatever the network, the server and the user do.         *)
THEOREM ClientTypeCorrect == Spec => []TypeOK
BY TypesInit, TypesStep, PTL DEF Spec

-----------------------------------------------------------------------------
(* Reconnecting.                                                           *)

\* What a step that touches nothing of the store's side leaves alone.
Quiet == UNCHANGED <<cur, status, saved, timer, orphans, handshake, probe,
                     refreshing, token, effectDue>>

LEMMA QuietKeeps ==
  ASSUME ClientInv, Quiet
  PROVE  (AttemptIsPending /\ SignedOutIsQuiet /\ Support)'
BY DEF ClientInv, Quiet, AttemptIsPending, SignedOutIsQuiet, Support

\* A connection that goes down, for whatever reason.
LEMMA DownKeeps ==
  ASSUME ClientInv, NEW s \in Sock, TransportDown(s),
         UNCHANGED <<saved, refreshing, token, effectDue>>
  PROVE  (AttemptIsPending /\ SignedOutIsQuiet /\ Support)'
BY QuietKeeps DEF TransportDown, Quiet, watch, retry, ScheduleReconnect, ClearWatch, ClientInv,
   AttemptIsPending, SignedOutIsQuiet, Support

\* A new connection: the address is known, and the handshake timer is its own.
LEMMA OpenKeeps ==
  ASSUME ClientInv, NEW s \in Sock, OpenConnection(s),
         token' # "none" \/ effectDue'
  PROVE  (AttemptIsPending /\ SignedOutIsQuiet /\ Support)'
BY ClientAssumption DEF OpenConnection, AttemptIsPending, SignedOutIsQuiet, Support

\* A timer or the user starts the next attempt, or finds no address to use.
LEMMA ReconnectKeeps ==
  ASSUME ClientInv, Reconnect, UNCHANGED auth, timer' = FALSE,
         orphans' \in Nat
  PROVE  (AttemptIsPending /\ SignedOutIsQuiet /\ Support)'
<1> USE DEF auth
<1>1. CASE saved
  <2>1. PICK s \in Sock : OpenConnection(s)
    BY <1>1 DEF Reconnect
  <2>2. token' # "none" \/ effectDue'
    BY <1>1 DEF ClientInv, Support
  <2> QED
    BY <2>1, <2>2, OpenKeeps
<1>2. CASE ~saved
  BY <1>2 DEF Reconnect, watch, ClientInv, AttemptIsPending, SignedOutIsQuiet,
              Support
<1> QED
  BY <1>1, <1>2

LEMMA TimersKeep ==
  ASSUME ClientInv, Timers
  PROVE  (AttemptIsPending /\ SignedOutIsQuiet /\ Support)'
<1>1. CASE ReconnectTimer \/ OrphanTimer
  <2>1. orphans' \in Nat
    BY <1>1, TimersTyped DEF ClientInv, Timers, TypeOK
  <2> QED
    BY <1>1, <2>1, ReconnectKeeps DEF ReconnectTimer, OrphanTimer
<1>2. CASE HandshakeTimer
  BY <1>2, DownKeeps DEF HandshakeTimer, ClientInv, TypeOK, auth, retry, AttemptIsPending,
     SignedOutIsQuiet, Support
<1>3. CASE ProbeTick
  BY <1>3, QuietKeeps DEF ProbeTick, Quiet, retry, auth
<1> QED
  BY <1>1, <1>2, <1>3 DEF Timers

LEMMA SocketKeeps ==
  ASSUME ClientInv, NEW s \in Sock, Socket(s)
  PROVE  (AttemptIsPending /\ SignedOutIsQuiet /\ Support)'
<1> USE DEF watch, retry, auth
<1>1. CASE Ready(s)
  BY <1>1 DEF Ready, ClientInv, AttemptIsPending, SignedOutIsQuiet, Support
<1>2. CASE Ack(s)
  BY <1>2, QuietKeeps DEF Ack, Quiet, ClientInv, AttemptIsPending, SignedOutIsQuiet, Support
<1>3. CASE TokenExpired(s)
  BY <1>3 DEF ClientInv, TypeOK, TokenExpired, ClearWatch, AttemptIsPending, SignedOutIsQuiet,
     Support
<1>4. CASE TokenInvalid(s)
  BY <1>4 DEF TokenInvalid, AttemptIsPending, SignedOutIsQuiet, Support
<1>5. CASE Pong(s)
  BY <1>5, QuietKeeps DEF Pong, Quiet
<1>6. CASE CloseEvent(s)
  BY <1>6, DownKeeps DEF CloseEvent
<1>7. CASE Gateway(s)
  BY <1>7, QuietKeeps DEF Gateway, Opened, Route, Authenticate, Quiet
<1> QED
  BY <1>1, <1>2, <1>3, <1>4, <1>5, <1>6, <1>7 DEF Socket, Receive

LEMMA OthersKeep ==
  ASSUME ClientInv, Session \/ Failure \/ User
  PROVE  (AttemptIsPending /\ SignedOutIsQuiet /\ Support)'
<1>1. CASE RefreshOk
  <2>1. PICK s \in Sock : OpenConnection(s)
    BY <1>1 DEF RefreshOk
  <2> QED
    BY <1>1, <2>1, OpenKeeps DEF RefreshOk
<1>2. CASE RefreshFailed
  BY <1>2 DEF RefreshFailed, AttemptIsPending, SignedOutIsQuiet, Support
<1>3. CASE EffectConnects
  <2>1. CASE status \in {"disconnected", "error"} /\ cur = NoSock
    <3>1. PICK s \in Sock : OpenConnection(s)
      BY <1>3, <2>1 DEF EffectConnects, Connect
    <3> QED
      BY <1>3, <3>1, OpenKeeps DEF EffectConnects
  <2>2. CASE ~(status \in {"disconnected", "error"} /\ cur = NoSock)
    BY <1>3, <2>2 DEF EffectConnects, Connect, watch, ClientInv,
                      AttemptIsPending, SignedOutIsQuiet, Support
  <2> QED
    BY <2>1, <2>2
<1>4. CASE EffectDisconnects
  BY <1>4 DEF EffectDisconnects, CancelReconnect, ClearWatch,
              AttemptIsPending, SignedOutIsQuiet, Support
<1>5. CASE ExpireToken
  BY <1>5 DEF ExpireToken, watch, retry, ClientInv, AttemptIsPending,
              SignedOutIsQuiet, Support
<1>6. ASSUME NEW s \in Sock, Drop(s)
      PROVE  (AttemptIsPending /\ SignedOutIsQuiet /\ Support)'
  BY <1>6, DownKeeps DEF Drop, auth
<1>7. ASSUME NEW s \in Sock, Stall(s)
      PROVE  (AttemptIsPending /\ SignedOutIsQuiet /\ Support)'
  BY <1>7, QuietKeeps DEF Stall, Quiet, watch, retry, auth
<1>8. CASE Logout
  BY <1>8 DEF Logout, watch, retry, ClientInv, AttemptIsPending,
              SignedOutIsQuiet, Support
<1>9. CASE Login
  BY <1>9 DEF Login, watch, retry, ClientInv, AttemptIsPending,
              SignedOutIsQuiet, Support
<1>10. CASE RetryNow
  <2>1. orphans' \in Nat
    BY <1>10 DEF RetryNow, ClientInv, TypeOK
  <2> QED
    BY <1>10, <2>1, ReconnectKeeps DEF RetryNow, CancelReconnect
<1>11. CASE Abandon \/ Subscribe
  BY <1>11, QuietKeeps DEF Abandon, Subscribe, Quiet, watch, retry, auth
<1> QED
  BY <1>1, <1>2, <1>3, <1>4, <1>5, <1>6, <1>7, <1>8, <1>9, <1>10, <1>11
  DEF Session, Failure, User

LEMMA ClientInvInit == Init => ClientInv
BY TypesInit DEF Init, ClientInv, AttemptIsPending, SignedOutIsQuiet, Support

LEMMA ClientInvStep == ClientInv /\ [Next]_vars => ClientInv'
<1> SUFFICES ASSUME ClientInv, [Next]_vars PROVE ClientInv'
  OBVIOUS
<1>1. TypeOK'
  BY TypesStep DEF ClientInv
<1>2. (AttemptIsPending /\ SignedOutIsQuiet /\ Support)'
  BY QuietKeeps, SocketKeeps, TimersKeep, OthersKeep DEF vars, Quiet, watch, retry, auth, Next
<1> QED
  BY <1>1, <1>2 DEF ClientInv

LEMMA ClientInvariant == Spec => []ClientInv
BY ClientInvInit, ClientInvStep, PTL DEF Spec

(* A client that shows it is reconnecting has a reconnect timer pending    *)
(* and the address it needs, or a token refresh in flight; one that shows  *)
(* it is connecting is under the handshake timer of its current socket, or *)
(* refreshing; an error is shown only to a user who is signed out or about *)
(* to be.  However the late events of other sockets interleave.            *)
THEOREM ClientAttemptPending == Spec => []AttemptIsPending
<1>1. ClientInv => AttemptIsPending
  BY DEF ClientInv
<1> QED
  BY <1>1, ClientInvariant, PTL

(* Once disconnect() has run, no timer that is tracked, no client, no      *)
(* watchdog and no saved address is left to bring the connection back.     *)
THEOREM ClientSignedOutQuiet == Spec => []SignedOutIsQuiet
<1>1. ClientInv => SignedOutIsQuiet
  BY DEF ClientInv
<1> QED
  BY <1>1, ClientInvariant, PTL
=============================================================================
