----------------------------- MODULE SfuAdapter -----------------------------
(***************************************************************************)
(* The mediasoup adapter of apps/media (adapters/mediasoup-media-adapter.ts*)
(* with routes/sessions.ts and routes/sfu.ts): a single Node thread whose  *)
(* request handlers interleave at their awaits.  A Call is a handler that  *)
(* awaits the worker, the router, the listening server or an object of the *)
(* worker; a handler that awaits nothing is one step.                      *)
(*                                                                         *)
(* mediasoup is external: a request to the worker resolves or rejects; a   *)
(* request on an object closed meanwhile may do either, since the worker   *)
(* answers in order and Node closes its own handle at once; closing an     *)
(* object closes what was made on it and fires their close listeners.      *)
(* Session ids are fresh (the gateway draws a UUID per join); there is one *)
(* media region, configured; RTP parameters, statistics and the connection *)
(* handshake (connectSfuTransport, getStreamDiagnostics) are left out.     *)
(***************************************************************************)
EXTENDS Naturals, FiniteSets

CONSTANTS
  Session,      \* session ids
  Channel,
  ChannelOf,    \* Session -> Channel, descriptor.channelId
  Sender,       \* the sessions that publish; the others receive
  Call,         \* handlers in flight at once
  Transport, Producer, Consumer,   \* the objects mediasoup may make
  MaxRouters,   \* bound: routers made
  MaxDeaths,    \* bound: deaths of the worker
  NoSession, NoTransport, NoProducer

ASSUME AdapterAssumption ==
  /\ ChannelOf \in [Session -> Channel]
  /\ Sender \subseteq Session
  /\ MaxRouters \in Nat
  /\ MaxDeaths \in Nat
  /\ NoSession \notin Session
  /\ NoTransport \notin Transport
  /\ NoProducer \notin Producer

VARIABLES
  worker,      \* worker and workerPromise
  sessions,    \* Session -> is it in the map `sessions'?
  made,        \* the session ids used so far
  routers,     \* Channel -> the router in the map, 0 when none
  lastRouter,  \* routers made so far
  deadRouter,  \* the routers up to this one died with their worker
  server,      \* webRtcServers: the region's listening server
  calls,       \* Call -> CallRec
  transports,  \* Transport -> TransportRec
  producers,   \* Producer -> ProducerRec
  listed,      \* the map `producers', and session.producers of the owners
  consumers,   \* Consumer -> ConsumerRec
  deaths

vars == <<worker, sessions, made, routers, lastRouter, deadRouter, server,
          calls, transports, producers, listed, consumers, deaths>>

world == <<transports, producers, listed, consumers>>

Router == 0..MaxRouters
Op == {"none", "create", "transport", "produce", "consume"}
At == {"idle", "worker", "router", "routed", "server", "transport", "produce", "consume"}

CallRec == [op: Op, at: At, s: Session \cup {NoSession}, r: Router,
            t: Transport \cup {NoTransport}, p: Producer \cup {NoProducer}]
TransportRec == [s: Session \cup {NoSession}, r: Router, state: {"none", "open", "closed"}]
ProducerRec == [t: Transport \cup {NoTransport}, state: {"none", "open", "closed"}]
ConsumerRec == [t: Transport \cup {NoTransport}, p: Producer \cup {NoProducer},
                state: {"none", "held", "resumed", "gone"}]

Idle == [op |-> "none", at |-> "idle", s |-> NoSession, r |-> 0,
         t |-> NoTransport, p |-> NoProducer]

TypeOK ==
  /\ worker \in {"none", "starting", "up", "failed"}
  /\ sessions \subseteq Session
  /\ made \subseteq Session
  /\ routers \in [Channel -> Router]
  /\ lastRouter \in Router
  /\ deadRouter \in Router
  /\ server \in {"none", "worker", "binding", "ready"}
  /\ calls \in [Call -> CallRec]
  /\ transports \in [Transport -> TransportRec]
  /\ producers \in [Producer -> ProducerRec]
  /\ listed \subseteq Producer
  /\ consumers \in [Consumer -> ConsumerRec]
  /\ deaths \in 0..MaxDeaths

Init ==
  /\ worker = "none"
  /\ sessions = {}
  /\ made = {}
  /\ routers = [c \in Channel |-> 0]
  /\ lastRouter = 0
  /\ deadRouter = 0
  /\ server = "none"
  /\ calls = [c \in Call |-> Idle]
  /\ transports = [t \in Transport |-> [s |-> NoSession, r |-> 0, state |-> "none"]]
  /\ producers = [p \in Producer |-> [t |-> NoTransport, state |-> "none"]]
  /\ listed = {}
  /\ consumers = [k \in Consumer |-> [t |-> NoTransport, p |-> NoProducer, state |-> "none"]]
  /\ deaths = 0

-----------------------------------------------------------------------------
(* Who owns what.                                                          *)

OwnerOf(p) == IF producers[p].state = "none" THEN NoSession
              ELSE transports[producers[p].t].s
Held(k) == consumers[k].state \in {"held", "resumed"}
Alive(r) == r > deadRouter
\* requireSession and requireTransport: in the map of a session in the map.
Usable(s, t) == s \in sessions /\ transports[t].s = s /\ transports[t].state = "open"
Direction(t) == IF transports[t].s \in Sender THEN "send" ELSE "recv"

\* Mutants of Close: a transport's producers stay listed; the consumers of the
\* others stay.
CloseKeepsListed(ts, ps) ==
  LET gone == ps \cup {p \in Producer : producers[p].t \in ts /\ p \in listed}
  IN /\ transports' = [t \in Transport |->
          IF t \in ts THEN [transports[t] EXCEPT !.state = "closed"] ELSE transports[t]]
     /\ producers' = [p \in Producer |->
          IF p \in gone THEN [producers[p] EXCEPT !.state = "closed"] ELSE producers[p]]
     /\ listed' = listed \ ps
     /\ consumers' = [k \in Consumer |->
          IF Held(k) /\ (consumers[k].t \in ts \/ consumers[k].p \in gone)
          THEN [consumers[k] EXCEPT !.state = "gone"] ELSE consumers[k]]

CloseKeepsConsumers(ts, ps) ==
  LET gone == ps \cup {p \in Producer : producers[p].t \in ts /\ p \in listed}
  IN /\ transports' = [t \in Transport |->
          IF t \in ts THEN [transports[t] EXCEPT !.state = "closed"] ELSE transports[t]]
     /\ producers' = [p \in Producer |->
          IF p \in gone THEN [producers[p] EXCEPT !.state = "closed"] ELSE producers[p]]
     /\ listed' = listed \ gone
     /\ consumers' = [k \in Consumer |->
          IF Held(k) /\ consumers[k].t \in ts
          THEN [consumers[k] EXCEPT !.state = "gone"] ELSE consumers[k]]

\* Closing transports closes what was produced and consumed on them, and what
\* others consume of those producers: the close listeners empty the maps.
Close(ts, ps) ==
  LET gone == ps \cup {p \in Producer : producers[p].t \in ts /\ p \in listed}
  IN /\ transports' = [t \in Transport |->
          IF t \in ts THEN [transports[t] EXCEPT !.state = "closed"] ELSE transports[t]]
     /\ producers' = [p \in Producer |->
          IF p \in gone THEN [producers[p] EXCEPT !.state = "closed"] ELSE producers[p]]
     /\ listed' = listed \ gone
     /\ consumers' = [k \in Consumer |->
          IF Held(k) /\ (consumers[k].t \in ts \/ consumers[k].p \in gone)
          THEN [consumers[k] EXCEPT !.state = "gone"] ELSE consumers[k]]

\* The gateway names a session in commands once its creation was answered.
Prepared(s) ==
  /\ s \in sessions
  /\ \A c \in Call : ~(calls[c].op = "create" /\ calls[c].s = s)

FreeCall == CHOOSE c \in Call : calls[c] = Idle
CanCall == \E c \in Call : calls[c] = Idle
Settle(c) == calls' = [calls EXCEPT ![c] = Idle]

-----------------------------------------------------------------------------
(* getRouter and getWorker.  A call that needs a router waits for the      *)
(* worker, then for its own createRouter, and overwrites the map's entry.  *)

AskRouter(op, s, t, p) ==
  LET r == routers[ChannelOf[s]]
      call == [op |-> op, s |-> s, t |-> t, p |-> p, r |-> r,
               at |-> CASE r # 0 -> "routed"
                        [] r = 0 /\ worker = "up" -> "router"
                        [] r = 0 /\ worker # "up" -> "worker"]
  IN /\ CanCall
     /\ IF r = 0 /\ worker = "failed"
        THEN UNCHANGED <<calls, worker>>
        ELSE /\ calls' = [calls EXCEPT ![FreeCall] = call]
             /\ worker' = IF r = 0 /\ worker = "none" THEN "starting" ELSE worker

WorkerStarted ==
  /\ worker = "starting"
  /\ worker' = "up"
  /\ server' = IF server = "worker" THEN "binding" ELSE server
  /\ calls' = [c \in Call |-> IF calls[c].at = "worker"
                              THEN [calls[c] EXCEPT !.at = "router"] ELSE calls[c]]
  /\ UNCHANGED <<sessions, made, routers, lastRouter, deadRouter, world, deaths>>

\* createWorker rejects: workerPromise keeps the rejection, so no later call
\* starts another worker.  A session whose creation fails is closed again.
WorkerFails ==
  /\ worker = "starting"
  /\ worker' = "failed"
  /\ server' = "none"
  /\ sessions' = sessions \ {calls[c].s : c \in {d \in Call : calls[d].op = "create"}}
  /\ calls' = [c \in Call |-> IF calls[c].at \in {"worker", "server"} THEN Idle ELSE calls[c]]
  /\ UNCHANGED <<made, routers, lastRouter, deadRouter, world, deaths>>

RouterMade(c) ==
  /\ calls[c].at = "router"
  /\ lastRouter < MaxRouters
  /\ lastRouter' = lastRouter + 1
  /\ routers' = [routers EXCEPT ![ChannelOf[calls[c].s]] = lastRouter']
  /\ calls' = [calls EXCEPT ![c].at = "routed", ![c].r = lastRouter']
  /\ UNCHANGED <<worker, sessions, made, deadRouter, server, world, deaths>>

\* Mutant of WorkerDied: the listening servers are not forgotten.
WorkerDiedKeepsServer ==
  /\ worker = "up"
  /\ deaths < MaxDeaths
  /\ deaths' = deaths + 1
  /\ worker' = "none"
  /\ routers' = [c \in Channel |-> 0]
  /\ deadRouter' = lastRouter
  /\ sessions' = {}
  /\ calls' = [c \in Call |-> IF calls[c].at = "routed" THEN calls[c] ELSE Idle]
  /\ Close({t \in Transport : transports[t].state = "open"}, listed)
  /\ UNCHANGED <<made, lastRouter, server>>

\* The worker's `died' listener, after Node closed its objects and rejected
\* what the calls awaited.  Calls that have their router already go on.
WorkerDied ==
  /\ worker = "up"
  /\ deaths < MaxDeaths
  /\ deaths' = deaths + 1
  /\ worker' = "none"
  /\ routers' = [c \in Channel |-> 0]
  /\ deadRouter' = lastRouter
  /\ sessions' = {}
  /\ server' = "none"
  /\ calls' = [c \in Call |-> IF calls[c].at = "routed" THEN calls[c] ELSE Idle]
  /\ Close({t \in Transport : transports[t].state = "open"}, listed)
  /\ UNCHANGED <<made, lastRouter>>

-----------------------------------------------------------------------------
(* POST /sessions and POST /sfu/transports.                                *)

CreateSession(s) ==
  /\ s \notin made
  /\ made' = made \cup {s}
  /\ AskRouter("create", s, NoTransport, NoProducer)
  /\ sessions' = IF calls' = calls THEN sessions ELSE sessions \cup {s}
  /\ UNCHANGED <<routers, lastRouter, deadRouter, server, world, deaths>>

\* The reply lists the producers of the others in the channel.
SessionCreated(c) ==
  /\ calls[c].op = "create"
  /\ calls[c].at = "routed"
  /\ Settle(c)
  /\ UNCHANGED <<worker, sessions, made, routers, lastRouter, deadRouter, server, world, deaths>>

CreateTransport(s) ==
  /\ Prepared(s)
  /\ AskRouter("transport", s, NoTransport, NoProducer)
  /\ UNCHANGED <<sessions, made, routers, lastRouter, deadRouter, server, world, deaths>>

\* getWebRtcServer: the first call binds it, the others await the same promise.
AwaitServer(c) ==
  /\ calls[c].op = "transport"
  /\ calls[c].at = "routed"
  /\ IF server = "ready"
     THEN /\ calls' = [calls EXCEPT ![c] = IF Alive(calls[c].r)
                                           THEN [calls[c] EXCEPT !.at = "transport"] ELSE Idle]
          /\ UNCHANGED <<worker, server>>
     ELSE IF server = "none" /\ worker = "failed"
     THEN /\ Settle(c)
          /\ UNCHANGED <<worker, server>>
     ELSE /\ calls' = [calls EXCEPT ![c].at = "server"]
          /\ worker' = IF server = "none" /\ worker = "none" THEN "starting" ELSE worker
          /\ server' = CASE server # "none" -> server
                         [] server = "none" /\ worker = "up" -> "binding"
                         [] server = "none" /\ worker # "up" -> "worker"
  /\ UNCHANGED <<sessions, made, routers, lastRouter, deadRouter, world, deaths>>

ServerBound ==
  /\ server = "binding"
  /\ server' = "ready"
  /\ calls' = [c \in Call |->
        CASE calls[c].at = "server" /\ Alive(calls[c].r) -> [calls[c] EXCEPT !.at = "transport"]
          [] calls[c].at = "server" /\ ~Alive(calls[c].r) -> Idle
          [] calls[c].at # "server" -> calls[c]]
  /\ UNCHANGED <<worker, sessions, made, routers, lastRouter, deadRouter, world, deaths>>

\* The port is taken: the entry is removed, so that a later call tries again.
ServerFails ==
  /\ server = "binding"
  /\ server' = "none"
  /\ calls' = [c \in Call |-> IF calls[c].at = "server" THEN Idle ELSE calls[c]]
  /\ UNCHANGED <<worker, sessions, made, routers, lastRouter, deadRouter, world, deaths>>

\* The transport is put into the session record the handler found before its
\* awaits, whether or not that record is still in the map.
TransportMade(c) ==
  /\ calls[c].at = "transport"
  /\ \E t \in Transport : transports[t].state = "none"
  /\ LET t == CHOOSE u \in Transport : transports[u].state = "none"
     IN transports' = [transports EXCEPT
                         ![t] = [s |-> calls[c].s, r |-> calls[c].r, state |-> "open"]]
  /\ Settle(c)
  /\ UNCHANGED <<worker, sessions, made, routers, lastRouter, deadRouter, server,
                 producers, listed, consumers, deaths>>

-----------------------------------------------------------------------------
(* Producing and consuming.                                                *)

Produce(s, t) ==
  /\ CanCall
  /\ Usable(s, t)
  /\ Direction(t) = "send"
  /\ calls' = [calls EXCEPT ![FreeCall] =
        [Idle EXCEPT !.op = "produce", !.at = "produce", !.s = s, !.t = t]]
  /\ UNCHANGED <<worker, sessions, made, routers, lastRouter, deadRouter, server, world, deaths>>

\* After the await nothing is checked again: the producer is listed.
Produced(c) ==
  /\ calls[c].at = "produce"
  /\ \E p \in Producer : producers[p].state = "none"
  /\ LET p == CHOOSE q \in Producer : producers[q].state = "none"
     IN /\ producers' = [producers EXCEPT ![p] = [t |-> calls[c].t, state |-> "open"]]
        /\ listed' = listed \cup {p}
  /\ Settle(c)
  /\ UNCHANGED <<worker, sessions, made, routers, lastRouter, deadRouter, server,
                 transports, consumers, deaths>>

\* canConsume knows the producers of its own router only, and the checks are
\* made after the router was awaited.
Consume(s, t, p) ==
  /\ Usable(s, t)
  /\ producers[p].state # "none"
  /\ AskRouter("consume", s, t, p)
  /\ UNCHANGED <<sessions, made, routers, lastRouter, deadRouter, server, world, deaths>>

ConsumeChecked(c) ==
  LET call == calls[c]
      ok == /\ call.p \in listed
            /\ transports[producers[call.p].t].r = call.r
            /\ Usable(call.s, call.t)
            /\ Direction(call.t) = "recv"
            /\ transports[call.t].r = call.r
  IN /\ call.op = "consume"
     /\ call.at = "routed"
     /\ IF ok THEN calls' = [calls EXCEPT ![c].at = "consume"] ELSE Settle(c)
     /\ UNCHANGED <<worker, sessions, made, routers, lastRouter, deadRouter, server, world, deaths>>

Consumed(c) ==
  /\ calls[c].at = "consume"
  /\ \E k \in Consumer : consumers[k].state = "none"
  /\ LET k == CHOOSE j \in Consumer : consumers[j].state = "none"
     IN consumers' = [consumers EXCEPT ![k] = [t |-> calls[c].t, p |-> calls[c].p, state |-> "held"]]
  /\ Settle(c)
  /\ UNCHANGED <<worker, sessions, made, routers, lastRouter, deadRouter, server,
                 transports, producers, listed, deaths>>

Resume(k) ==
  /\ consumers[k].state = "held"
  /\ transports[consumers[k].t].s \in sessions
  /\ consumers' = [consumers EXCEPT ![k].state = "resumed"]
  /\ UNCHANGED <<worker, sessions, made, routers, lastRouter, deadRouter, server, calls,
                 transports, producers, listed, deaths>>

\* mediasoup rejects what a handler awaits: the handler answers 409, and a
\* session that could not be prepared is closed (it has nothing yet).
Rejected(c) ==
  /\ calls[c].at \in {"router", "transport", "produce", "consume"}
  /\ sessions' = IF calls[c].op = "create" THEN sessions \ {calls[c].s} ELSE sessions
  /\ Settle(c)
  /\ UNCHANGED <<worker, made, routers, lastRouter, deadRouter, server, world, deaths>>

-----------------------------------------------------------------------------
(* closeSfu: a consumer, a producer, a transport or the session.           *)

CloseOne ==
  /\ \/ \E k \in Consumer :
          /\ Held(k)
          /\ transports[consumers[k].t].s \in sessions
          /\ consumers' = [consumers EXCEPT ![k].state = "gone"]
          /\ UNCHANGED <<transports, producers, listed>>
     \/ \E p \in listed : OwnerOf(p) \in sessions /\ Close({}, {p})
     \/ \E t \in Transport : Usable(transports[t].s, t) /\ Close({t}, {})
  /\ UNCHANGED <<worker, sessions, made, routers, lastRouter, deadRouter, server, calls, deaths>>

\* Mutant of CloseSession: what the session published stays listed.
CloseSessionBarely(s) ==
  /\ Prepared(s)
  /\ sessions' = sessions \ {s}
  /\ UNCHANGED <<world, worker, made, routers, lastRouter, deadRouter, server, calls, deaths>>

CloseSession(s) ==
  /\ Prepared(s)
  /\ sessions' = sessions \ {s}
  /\ Close({t \in Transport : transports[t].s = s /\ transports[t].state = "open"},
           {p \in listed : OwnerOf(p) = s})
  /\ UNCHANGED <<worker, made, routers, lastRouter, deadRouter, server, calls, deaths>>

-----------------------------------------------------------------------------

Next ==
  \/ WorkerStarted \/ WorkerFails \/ WorkerDied \/ ServerBound \/ ServerFails \/ CloseOne
  \/ \E c \in Call :
       \/ RouterMade(c) \/ SessionCreated(c) \/ AwaitServer(c) \/ TransportMade(c)
       \/ Produced(c) \/ ConsumeChecked(c) \/ Consumed(c) \/ Rejected(c)
  \/ \E k \in Consumer : Resume(k)
  \/ \E s \in Session :
       \/ CreateSession(s) \/ CreateTransport(s) \/ CloseSession(s)
       \/ \E t \in Transport :
            \/ Produce(s, t)
            \/ \E p \in Producer : Consume(s, t, p)

Spec == Init /\ [][Next]_vars

-----------------------------------------------------------------------------
(* Properties.                                                             *)

\* A producer that newcomers are told of (listProducers) is open: no path
\* that closes one, its transport, its session or the worker leaves it in the
\* adapter's map.
ListedIsOpen == \A p \in listed : producers[p].state = "open"

\* Without a worker nothing of the last one is left to be handed out: no
\* router, no listening server, no listed producer.
NothingOutlivesWorker ==
  worker # "up" => /\ \A c \in Channel : routers[c] = 0
                   /\ server \notin {"binding", "ready"}
                   /\ listed = {}

\* A consumer kept across a step keeps its source: whatever closes a producer
\* or a transport drops in the same step every consumer that hangs on it, in
\* any session.
ConsumersFollow ==
  [][\A k \in Consumer :
       Held(k) /\ Held(k)' =>
         LET p == consumers[k].p  t == consumers[k].t
         IN /\ producers[p].state = "open" => producers'[p].state = "open"
            /\ transports[t].state = "open" => transports'[t].state = "open"]_vars

\* The adapter implements the service apps/media promises.
Service == INSTANCE MediaService WITH
  open <- sessions,
  accepted <- {calls[c].s : c \in {d \in Call : calls[d].op = "produce"}},
  publisher <- [p \in Producer |-> IF p \in listed THEN OwnerOf(p) ELSE NoSession]

ImplementsService == Service!ServiceSpec
=============================================================================
