--------------------------- MODULE SfuAdapterProofs ---------------------------
(***************************************************************************)
(* Theorems of the media service's mediasoup adapter: its types, that what *)
(* it lists is open, that nothing it could hand out survives the worker,   *)
(* that consumers go with what they consume, and that every step of its    *)
(* handlers is a step of the service it promises (MediaService); for every *)
(* number of sessions, channels, transports, producers, consumers,         *)
(* handlers in flight and deaths of the worker.                            *)
(***************************************************************************)
EXTENDS SfuAdapter, TLAPS

(* What a handler in flight still knows after its awaits: the objects it   *)
(* found before them, and the owner of the transport it produces on.       *)
CallsHold ==
  \A c \in Call :
    /\ calls[c].op # "none" => calls[c].s \in made
    /\ calls[c].op = "produce" <=> calls[c].at = "produce"
    /\ calls[c].at \in {"server", "transport"} => calls[c].op = "transport"
    /\ calls[c].at = "consume" => calls[c].op = "consume"
    /\ calls[c].op = "consume" => calls[c].t \in Transport /\ calls[c].p \in Producer
    /\ calls[c].op = "produce" => /\ calls[c].t \in Transport
                                  /\ transports[calls[c].t].state # "none"
                                  /\ transports[calls[c].t].s = calls[c].s

(* A session has nothing before its creation was answered.                 *)
FreshIsBare ==
  \A c \in Call : calls[c].op = "create" =>
    /\ \A d \in Call : calls[d].op = "transport" => calls[d].s # calls[c].s
    /\ \A t \in Transport : transports[t].state # "none" => transports[t].s # calls[c].s

OwnersMade ==
  /\ sessions \subseteq made
  /\ \A t \in Transport : transports[t].state # "none" => transports[t].s \in made
  /\ \A p \in listed : /\ producers[p].t \in Transport
                       /\ transports[producers[p].t].state # "none"

HeldIsMade ==
  \A k \in Consumer : Held(k) => consumers[k].p \in Producer /\ consumers[k].t \in Transport

(* Without a worker no transport is open, nothing awaits one, and every    *)
(* session still waits for it, so that a worker that fails to start takes  *)
(* them all.                                                               *)
DownIsBare ==
  worker # "up" =>
    /\ \A t \in Transport : transports[t].state # "open"
    /\ \A c \in Call : calls[c].at \notin {"router", "transport", "produce"}
    /\ \A s \in sessions : \E c \in Call :
         calls[c].op = "create" /\ calls[c].s = s /\ calls[c].at = "worker"

AdapterInv ==
  /\ TypeOK
  /\ CallsHold
  /\ FreshIsBare
  /\ OwnersMade
  /\ HeldIsMade
  /\ ListedIsOpen
  /\ NothingOutlivesWorker /\ DownIsBare

-----------------------------------------------------------------------------
(* Helpers.                                                                *)

\* The arithmetic of the bounds.
LEMMA Bounds ==
  ASSUME TypeOK
  PROVE  /\ 0 \in Router
         /\ lastRouter < MaxRouters => lastRouter + 1 \in Router
         /\ deaths < MaxDeaths => deaths + 1 \in 0..MaxDeaths
BY AdapterAssumption DEF TypeOK, Router

\* A handler begins in a call that was free.
LEMMA FreeCallIsIdle == CanCall => FreeCall \in Call /\ calls[FreeCall] = Idle
BY DEF CanCall, FreeCall

LEMMA IdleType == TypeOK => Idle \in CallRec
BY Bounds DEF Idle, CallRec, Op, At

\* What AskRouter does: nothing, or one free call becomes the handler's.
LEMMA AskRouterEffect ==
  ASSUME TypeOK, NEW s \in Session, NEW op \in {"create", "transport", "consume"},
         NEW t \in Transport \cup {NoTransport}, NEW p \in Producer \cup {NoProducer},
         AskRouter(op, s, t, p)
  PROVE  \/ /\ worker = "failed"
            /\ calls' = calls /\ worker' = worker
         \/ \E c \in Call, call \in CallRec :
              /\ calls[c] = Idle
              /\ calls' = [calls EXCEPT ![c] = call]
              /\ calls' # calls
              /\ call.op = op /\ call.s = s /\ call.t = t /\ call.p = p
              /\ worker' \in {"none", "starting", "up", "failed"}
              /\ worker' = "up" <=> worker = "up"
              /\ call.at \in {"worker", "router", "routed"}
              /\ call.at = "router" => worker = "up"
              /\ (\A x \in Channel : routers[x] = 0) /\ worker # "up" => call.at = "worker"
<1> DEFINE r == routers[ChannelOf[s]]
           call == [op |-> op, s |-> s, t |-> t, p |-> p, r |-> r,
                    at |-> CASE r # 0 -> "routed"
                             [] r = 0 /\ worker = "up" -> "router"
                             [] r = 0 /\ worker # "up" -> "worker"]
<1>1. /\ ChannelOf[s] \in Channel
      /\ r \in Router
  BY AdapterAssumption DEF TypeOK
<1>2. CASE r = 0 /\ worker = "failed"
  BY <1>2 DEF AskRouter
<1>3. CASE ~(r = 0 /\ worker = "failed")
  <2>1. /\ CanCall
        /\ calls' = [calls EXCEPT ![FreeCall] = call]
        /\ worker' = IF r = 0 /\ worker = "none" THEN "starting" ELSE worker
    BY <1>3 DEF AskRouter
  <2>2. FreeCall \in Call /\ calls[FreeCall] = Idle
    BY <2>1, FreeCallIsIdle
  <2>3. call.at \in {"worker", "router", "routed"}
    OBVIOUS
  <2>4. call \in CallRec
    BY <1>1, <2>3 DEF CallRec, Op, At
  <2>5. calls' # calls
    BY <2>1, <2>2 DEF Idle, TypeOK
  <2>6. /\ worker' \in {"none", "starting", "up", "failed"}
        /\ worker' = "up" <=> worker = "up"
    BY <2>1 DEF TypeOK
  <2>7. /\ call.at = "router" => worker = "up"
        /\ (\A x \in Channel : routers[x] = 0) /\ worker # "up" => call.at = "worker"
    BY <1>1
  <2> HIDE DEF call
  <2>8. call.op = op /\ call.s = s /\ call.t = t /\ call.p = p
    BY DEF call
  <2> QED
    BY <2>1, <2>2, <2>3, <2>4, <2>5, <2>6, <2>7, <2>8
<1> QED
  BY <1>2, <1>3

\* What closing takes along, and what it leaves as it was.
LEMMA CloseEffect ==
  ASSUME TypeOK, NEW ts \in SUBSET Transport, NEW ps \in SUBSET Producer, Close(ts, ps)
  PROVE  /\ transports' \in [Transport -> TransportRec]
         /\ producers' \in [Producer -> ProducerRec]
         /\ consumers' \in [Consumer -> ConsumerRec]
         /\ \A t \in Transport : transports'[t].s = transports[t].s
         /\ \A t \in Transport : t \in ts => transports'[t].state = "closed"
         /\ \A t \in Transport : t \notin ts => transports'[t] = transports[t]
         /\ \A p \in Producer : producers'[p].t = producers[p].t
         /\ listed' \subseteq listed /\ listed' \cap ps = {}
         /\ \A p \in listed' : producers'[p] = producers[p]
         /\ \A p \in listed : p \in listed' <=> p \notin ps /\ producers[p].t \notin ts
         /\ \A k \in Consumer :
              /\ consumers'[k].p = consumers[k].p /\ consumers'[k].t = consumers[k].t
              /\ Held(k)' => /\ Held(k)
                             /\ consumers[k].t \notin ts
                             /\ consumers[k].p \notin ps
                             /\ ~(producers[consumers[k].p].t \in ts /\ consumers[k].p \in listed)
<1> DEFINE gone == ps \cup {p \in Producer : producers[p].t \in ts /\ p \in listed}
<1>1. /\ transports' = [t \in Transport |->
              IF t \in ts THEN [transports[t] EXCEPT !.state = "closed"] ELSE transports[t]]
      /\ producers' = [p \in Producer |->
              IF p \in gone THEN [producers[p] EXCEPT !.state = "closed"] ELSE producers[p]]
      /\ listed' = listed \ gone
      /\ consumers' = [k \in Consumer |->
              IF Held(k) /\ (consumers[k].t \in ts \/ consumers[k].p \in gone)
              THEN [consumers[k] EXCEPT !.state = "gone"] ELSE consumers[k]]
  BY DEF Close
<1>2. /\ gone \subseteq Producer
      /\ \A p \in Producer : p \in gone <=> p \in ps \/ (producers[p].t \in ts /\ p \in listed)
  OBVIOUS
<1> HIDE DEF gone
<1>3. /\ transports \in [Transport -> TransportRec]
      /\ producers \in [Producer -> ProducerRec]
      /\ consumers \in [Consumer -> ConsumerRec]
      /\ listed \subseteq Producer
  BY DEF TypeOK
<1>4. ASSUME NEW t \in Transport
      PROVE  /\ transports'[t] \in TransportRec
             /\ transports'[t].s = transports[t].s
             /\ t \in ts => transports'[t].state = "closed"
             /\ t \notin ts => transports'[t] = transports[t]
  BY <1>1, <1>3 DEF TransportRec
<1>5. ASSUME NEW p \in Producer
      PROVE  producers'[p] \in ProducerRec /\ producers'[p].t = producers[p].t
  BY <1>1, <1>3 DEF ProducerRec
<1>6. ASSUME NEW k \in Consumer
      PROVE  /\ consumers'[k] \in ConsumerRec
             /\ consumers'[k].p = consumers[k].p /\ consumers'[k].t = consumers[k].t
             /\ Held(k)' => Held(k) /\ consumers[k].t \notin ts /\ consumers[k].p \notin gone
  BY <1>1, <1>3 DEF ConsumerRec, Held
<1>7. \A p \in Producer : p \notin gone => producers'[p] = producers[p]
  BY <1>1, <1>3
<1>8. \A k \in Consumer : consumers[k].p \notin gone =>
        /\ consumers[k].p \notin ps
        /\ ~(producers[consumers[k].p].t \in ts /\ consumers[k].p \in listed)
  BY <1>2, <1>3
<1>9. /\ transports' \in [Transport -> TransportRec]
      /\ producers' \in [Producer -> ProducerRec]
      /\ consumers' \in [Consumer -> ConsumerRec]
  BY <1>1, <1>4, <1>5, <1>6
<1>10. /\ listed' \subseteq listed /\ listed' \cap ps = {}
       /\ \A p \in listed' : producers'[p] = producers[p]
       /\ \A p \in listed : p \in listed' <=> p \notin ps /\ producers[p].t \notin ts
  BY <1>1, <1>2, <1>3, <1>7
<1> QED
  BY <1>2, <1>4, <1>5, <1>6, <1>7, <1>8, <1>9, <1>10

LEMMA CloseSpares ==
  ASSUME TypeOK, NEW ts \in SUBSET Transport, NEW ps \in SUBSET Producer, Close(ts, ps),
         NEW p \in Producer, p \notin ps, ~(producers[p].t \in ts /\ p \in listed)
  PROVE  producers'[p] = producers[p]
BY DEF Close, TypeOK

-----------------------------------------------------------------------------
(* Types.                                                                  *)

\* A call that goes on, or ends.
LEMMA CallTypes ==
  ASSUME TypeOK, NEW c \in Call
  PROVE  /\ Settle(c) => calls' \in [Call -> CallRec]
         /\ \A at \in At : /\ [calls EXCEPT ![c].at = at] \in [Call -> CallRec]
                           /\ [calls[c] EXCEPT !.at = at] \in CallRec
         /\ \A r \in Router : [calls EXCEPT ![c].at = "routed", ![c].r = r] \in [Call -> CallRec]
<1>1. calls \in [Call -> CallRec] /\ Idle \in CallRec
  BY IdleType DEF TypeOK
<1>2. Settle(c) => calls' \in [Call -> CallRec]
  BY <1>1 DEF Settle
<1>3. ASSUME NEW at \in At
      PROVE  [calls[c] EXCEPT !.at = at] \in CallRec
  BY <1>1 DEF CallRec
<1>4. ASSUME NEW at \in At
      PROVE  [calls EXCEPT ![c].at = at] \in [Call -> CallRec]
  BY <1>1, <1>3
<1>5. ASSUME NEW r \in Router
      PROVE  [calls EXCEPT ![c].at = "routed", ![c].r = r] \in [Call -> CallRec]
  BY <1>1 DEF CallRec, At
<1> QED
  BY <1>2, <1>3, <1>4, <1>5

LEMMA TypesInit == Init => TypeOK
BY AdapterAssumption DEF Init, Idle, CallRec, Op, At, Router, TypeOK, TransportRec, ProducerRec,
   ConsumerRec

\* The worker, the routers and the listening server.
LEMMA WorkerTypes ==
  ASSUME TypeOK
  PROVE  /\ WorkerStarted => TypeOK'
         /\ WorkerFails => TypeOK'
         /\ WorkerDied => TypeOK'
         /\ ServerBound => TypeOK'
         /\ ServerFails => TypeOK'
<1>1. /\ calls \in [Call -> CallRec]
      /\ Idle \in CallRec
      /\ \A c \in Call : \A at \in At : [calls[c] EXCEPT !.at = at] \in CallRec
      /\ "router" \in At /\ "transport" \in At
  BY IdleType, CallTypes DEF TypeOK, At
<1>2. ASSUME WorkerStarted PROVE TypeOK'
  BY <1>1, <1>2 DEF WorkerStarted, world, TypeOK
<1>3. ASSUME WorkerFails PROVE TypeOK'
  BY <1>1, <1>3 DEF WorkerFails, world, TypeOK
<1>4. ASSUME WorkerDied PROVE TypeOK'
  <2>1. calls' \in [Call -> CallRec]
    BY <1>1, <1>4 DEF WorkerDied
  <2>2. /\ transports' \in [Transport -> TransportRec]
        /\ producers' \in [Producer -> ProducerRec]
        /\ consumers' \in [Consumer -> ConsumerRec]
        /\ listed' \subseteq listed
    <3>1. {t \in Transport : transports[t].state = "open"} \in SUBSET Transport /\ listed \in SUBSET Producer
      BY DEF TypeOK
    <3> QED
      BY <1>4, <3>1, CloseEffect DEF WorkerDied
  <2>3. deaths' \in 0..MaxDeaths
    BY <1>4, Bounds DEF WorkerDied
  <2>4. routers' \in [Channel -> Router]
    BY <1>4, Bounds DEF WorkerDied
  <2> QED
    BY <1>4, <2>1, <2>2, <2>3, <2>4 DEF WorkerDied, TypeOK
<1>5. ASSUME ServerBound PROVE TypeOK'
  BY <1>1, <1>5 DEF ServerBound, world, TypeOK
<1>6. ASSUME ServerFails PROVE TypeOK'
  BY <1>1, <1>6 DEF ServerFails, world, TypeOK
<1> QED
  BY <1>2, <1>3, <1>4, <1>5, <1>6

\* A handler that asks for its router.
LEMMA AskTypes ==
  ASSUME TypeOK, NEW s \in Session, NEW op \in {"create", "transport", "consume"},
         NEW t \in Transport \cup {NoTransport}, NEW p \in Producer \cup {NoProducer},
         AskRouter(op, s, t, p)
  PROVE  calls' \in [Call -> CallRec] /\ worker' \in {"none", "starting", "up", "failed"}
<1>1. CASE calls' = calls /\ worker' = worker
  BY <1>1 DEF TypeOK
<1>2. ASSUME NEW c \in Call, NEW call \in CallRec, calls' = [calls EXCEPT ![c] = call]
      PROVE  calls' \in [Call -> CallRec]
  BY <1>2 DEF TypeOK
<1> QED
  BY <1>1, <1>2, AskRouterEffect

LEMMA RequestTypes ==
  ASSUME TypeOK, NEW s \in Session
  PROVE  /\ CreateSession(s) => TypeOK'
         /\ CreateTransport(s) => TypeOK'
         /\ CloseSession(s) => TypeOK'
         /\ \A t \in Transport : Produce(s, t) => TypeOK'
         /\ \A t \in Transport, p \in Producer : Consume(s, t, p) => TypeOK'
<1>1. ASSUME CreateSession(s) PROVE TypeOK'
  BY <1>1, AskTypes DEF CreateSession, world, TypeOK
<1>2. ASSUME CreateTransport(s) PROVE TypeOK'
  BY <1>2, AskTypes DEF CreateTransport, world, TypeOK
<1>3. ASSUME CloseSession(s) PROVE TypeOK'
  <2>1. /\ {u \in Transport : transports[u].s = s /\ transports[u].state = "open"} \in SUBSET Transport
        /\ {q \in listed : OwnerOf(q) = s} \in SUBSET Producer
    BY DEF TypeOK
  <2>2. /\ transports' \in [Transport -> TransportRec]
        /\ producers' \in [Producer -> ProducerRec]
        /\ consumers' \in [Consumer -> ConsumerRec]
        /\ listed' \subseteq listed
    BY <1>3, <2>1, CloseEffect DEF CloseSession
  <2> QED
    BY <1>3, <2>2 DEF CloseSession, TypeOK
<1>4. ASSUME NEW t \in Transport, Produce(s, t) PROVE TypeOK'
  <2>1. [Idle EXCEPT !.op = "produce", !.at = "produce", !.s = s, !.t = t] \in CallRec
    BY Bounds DEF Idle, CallRec, Op, At
  <2>2. calls' \in [Call -> CallRec]
    BY <1>4, <2>1, FreeCallIsIdle DEF Produce, TypeOK
  <2> QED
    BY <1>4, <2>2 DEF Produce, world, TypeOK
<1>5. ASSUME NEW t \in Transport, NEW p \in Producer, Consume(s, t, p) PROVE TypeOK'
  BY <1>5, AskTypes DEF Consume, world, TypeOK
<1> QED
  BY <1>1, <1>2, <1>3, <1>4, <1>5

\* The steps of a handler.
LEMMA HandlerTypes ==
  ASSUME TypeOK, NEW c \in Call
  PROVE  /\ RouterMade(c) => TypeOK'
         /\ SessionCreated(c) => TypeOK'
         /\ AwaitServer(c) => TypeOK'
         /\ TransportMade(c) => TypeOK'
         /\ Produced(c) => TypeOK'
         /\ ConsumeChecked(c) => TypeOK'
         /\ Consumed(c) => TypeOK'
         /\ Rejected(c) => TypeOK'
<1>1. /\ Settle(c) => calls' \in [Call -> CallRec]
      /\ calls \in [Call -> CallRec]
      /\ calls[c] \in CallRec
  BY CallTypes DEF TypeOK
<1>2. ASSUME RouterMade(c) PROVE TypeOK'
  <2>1. lastRouter' \in Router
    BY <1>2, Bounds DEF RouterMade
  <2>2. calls' \in [Call -> CallRec]
    BY <1>2, <2>1, CallTypes DEF RouterMade
  <2>3. routers' \in [Channel -> Router]
    BY <1>2, <2>1 DEF RouterMade, TypeOK
  <2> QED
    BY <1>2, <2>1, <2>2, <2>3 DEF RouterMade, world, TypeOK
<1>3. ASSUME SessionCreated(c) PROVE TypeOK'
  BY <1>1, <1>3 DEF SessionCreated, world, TypeOK
<1>4. ASSUME AwaitServer(c) PROVE TypeOK'
  <2>1. calls' \in [Call -> CallRec]
    <3>1. /\ \A at \in {"server", "transport"} : /\ [calls EXCEPT ![c].at = at] \in [Call -> CallRec]
                                               /\ [calls[c] EXCEPT !.at = at] \in CallRec
          /\ Idle \in CallRec
      BY CallTypes, IdleType DEF At
    <3> QED
      BY <1>1, <1>4, <3>1 DEF AwaitServer
  <2>2. /\ worker' \in {"none", "starting", "up", "failed"}
        /\ server' \in {"none", "worker", "binding", "ready"}
    BY <1>4 DEF AwaitServer, TypeOK
  <2> QED
    BY <1>4, <2>1, <2>2 DEF AwaitServer, world, TypeOK
<1>5. ASSUME TransportMade(c) PROVE TypeOK'
  BY <1>1, <1>5 DEF CallRec, TransportRec, TransportMade, TypeOK
<1>6. ASSUME Produced(c) PROVE TypeOK'
  BY <1>1, <1>6 DEF CallRec, ProducerRec, Produced, TypeOK
<1>7. ASSUME ConsumeChecked(c) PROVE TypeOK'
  <2>1. [calls EXCEPT ![c].at = "consume"] \in [Call -> CallRec]
    BY CallTypes DEF At
  <2>2. calls' \in [Call -> CallRec]
    BY <1>1, <1>7, <2>1 DEF ConsumeChecked
  <2> QED
    BY <1>7, <2>2 DEF ConsumeChecked, world, TypeOK
<1>8. ASSUME Consumed(c) PROVE TypeOK'
  BY <1>1, <1>8 DEF CallRec, ConsumerRec, Consumed, TypeOK
<1>9. ASSUME Rejected(c) PROVE TypeOK'
  BY <1>1, <1>9 DEF Rejected, world, TypeOK
<1> QED
  BY <1>2, <1>3, <1>4, <1>5, <1>6, <1>7, <1>8, <1>9

\* A consumer's state.
LEMMA ConsumerTypes ==
  ASSUME TypeOK, NEW k \in Consumer
  PROVE  \A state \in {"gone", "resumed"} :
           [consumers EXCEPT ![k].state = state] \in [Consumer -> ConsumerRec]
BY DEF TypeOK, ConsumerRec

LEMMA ClosingTypes ==
  ASSUME TypeOK
  PROVE  /\ CloseOne => TypeOK'
         /\ \A k \in Consumer : Resume(k) => TypeOK'
<1>1. ASSUME NEW k \in Consumer, Resume(k) PROVE TypeOK'
  <2>1. consumers' \in [Consumer -> ConsumerRec]
    BY <1>1, ConsumerTypes DEF Resume
  <2> QED
    BY <1>1, <2>1 DEF Resume, TypeOK
<1>2. ASSUME CloseOne PROVE TypeOK'
  <2>1. ASSUME NEW k \in Consumer, consumers' = [consumers EXCEPT ![k].state = "gone"],
               UNCHANGED <<transports, producers, listed>>
        PROVE  TypeOK'
    <3>1. consumers' \in [Consumer -> ConsumerRec]
      BY <2>1, ConsumerTypes
    <3> QED
      BY <1>2, <2>1, <3>1 DEF CloseOne, TypeOK
  <2>2. ASSUME NEW ts \in SUBSET Transport, NEW ps \in SUBSET Producer, Close(ts, ps)
        PROVE  TypeOK'
    <3>1. /\ transports' \in [Transport -> TransportRec]
          /\ producers' \in [Producer -> ProducerRec]
          /\ consumers' \in [Consumer -> ConsumerRec]
          /\ listed' \subseteq listed
      BY <2>2, CloseEffect
    <3> QED
      BY <1>2, <3>1 DEF CloseOne, TypeOK
  <2>3. \A p \in listed : {p} \in SUBSET Producer
    BY DEF TypeOK
  <2> QED
    BY <1>2, <2>1, <2>2, <2>3 DEF CloseOne
<1> QED
  BY <1>1, <1>2

LEMMA TypesStep == TypeOK /\ [Next]_vars => TypeOK'
<1> SUFFICES ASSUME TypeOK, [Next]_vars PROVE TypeOK'
  OBVIOUS
<1>1. CASE UNCHANGED vars
  BY <1>1 DEF vars, TypeOK
<1>2. CASE Next
  BY <1>2, WorkerTypes, RequestTypes, HandlerTypes, ClosingTypes DEF Next
<1> QED
  BY <1>1, <1>2

\* Every variable of the adapter keeps its type (its maps, mediasoup's objects
\* and the handlers in flight).
THEOREM AdapterTypes == Spec => []TypeOK
BY TypesInit, TypesStep, PTL DEF Spec

-----------------------------------------------------------------------------
(* The invariant.                                                          *)

\* What holds of calls and objects, whatever the worker does.
Objects == CallsHold /\ FreshIsBare /\ OwnersMade /\ HeldIsMade /\ ListedIsOpen

Workerless == NothingOutlivesWorker /\ DownIsBare

LEMMA AdapterInvInit == Init => AdapterInv
<1> SUFFICES ASSUME Init PROVE AdapterInv
  OBVIOUS
<1>1. TypeOK
  BY TypesInit
<1>2. CallsHold /\ FreshIsBare
  BY DEF Init, Idle, CallsHold, FreshIsBare
<1>3. OwnersMade /\ HeldIsMade /\ ListedIsOpen
  BY DEF Init, OwnersMade, HeldIsMade, Held, ListedIsOpen
<1>4. NothingOutlivesWorker /\ DownIsBare
  BY DEF Init, Idle, NothingOutlivesWorker, DownIsBare
<1> QED
  BY <1>1, <1>2, <1>3, <1>4 DEF AdapterInv

\* Handlers that end, or go on with what they have.
LEMMA CallsGoOn ==
  ASSUME AdapterInv, UNCHANGED <<transports, producers, listed, consumers>>,
         made \subseteq made', sessions' \subseteq sessions,
         \A c \in Call :
           \/ calls'[c] = Idle
           \/ calls'[c] = calls[c]
           \/ /\ calls'[c].op = calls[c].op /\ calls'[c].s = calls[c].s
              /\ calls'[c].t = calls[c].t /\ calls'[c].p = calls[c].p
              /\ calls[c].op # "produce" /\ calls'[c].at # "produce"
              /\ calls'[c].at \in {"server", "transport"} => calls[c].op = "transport"
              /\ calls'[c].at = "consume" => calls[c].op = "consume"
  PROVE  Objects'
BY DEF AdapterInv, HeldIsMade, Held, ListedIsOpen, OwnersMade, Idle, CallsHold, FreshIsBare, Objects

\* Closing, with the handlers that end by it.
LEMMA ClosingKeeps ==
  ASSUME AdapterInv, NEW ts \in SUBSET Transport, NEW ps \in SUBSET Producer, Close(ts, ps),
         made' = made, sessions' \subseteq sessions,
         \A c \in Call : calls'[c] = Idle \/ calls'[c] = calls[c],
         \A t \in ts : transports[t].state = "open"
  PROVE  Objects'
<1>1. TypeOK
  BY DEF AdapterInv
<1>2. /\ \A t \in Transport :
           /\ transports'[t].s = transports[t].s
           /\ transports'[t].state = "none" <=> transports[t].state = "none"
      /\ \A p \in Producer : producers'[p].t = producers[p].t
      /\ listed' \subseteq listed
      /\ \A p \in listed' : producers'[p] = producers[p]
      /\ \A k \in Consumer :
           /\ consumers'[k].p = consumers[k].p /\ consumers'[k].t = consumers[k].t
           /\ Held(k)' => Held(k)
  <2>1. /\ \A t \in Transport : t \in ts => transports'[t].state = "closed"
        /\ \A t \in Transport : t \notin ts => transports'[t] = transports[t]
    BY <1>1, CloseEffect
  <2>2. \A t \in Transport : transports'[t].state = "none" <=> transports[t].state = "none"
    BY <2>1
  <2>3. \A t \in Transport : transports'[t].s = transports[t].s
    BY <1>1, CloseEffect
  <2>4. /\ \A p \in Producer : producers'[p].t = producers[p].t
        /\ listed' \subseteq listed
        /\ \A p \in listed' : producers'[p] = producers[p]
    BY <1>1, CloseEffect
  <2>5. \A k \in Consumer :
          /\ consumers'[k].p = consumers[k].p
          /\ consumers'[k].t = consumers[k].t
          /\ Held(k)' => Held(k)
    BY <1>1, CloseEffect
  <2> QED
    BY <2>2, <2>3, <2>4, <2>5
<1>3. HeldIsMade'
  BY <1>2 DEF AdapterInv, HeldIsMade, Held
<1>4. ListedIsOpen'
  BY <1>2 DEF AdapterInv, ListedIsOpen
<1>5. OwnersMade'
  BY <1>1, <1>2 DEF AdapterInv, TypeOK, OwnersMade
<1>6. \A c \in Call : calls'[c].op # "none" => calls'[c] = calls[c]
  BY DEF Idle
<1>7. FreshIsBare'
  BY <1>2, <1>6 DEF AdapterInv, FreshIsBare
<1>8. CallsHold'
  BY <1>2 DEF Idle, AdapterInv, CallsHold
<1> QED
  BY <1>3, <1>4, <1>5, <1>7, <1>8 DEF Objects

\* A handler begins for a session that no creation is under way for, or creates it.
LEMMA CallBegins ==
  ASSUME AdapterInv, UNCHANGED <<transports, producers, listed, consumers>>,
         NEW c \in Call, NEW call \in CallRec, calls[c] = Idle,
         calls' = [calls EXCEPT ![c] = call],
         call.s \in made', made \subseteq made', sessions' \subseteq made',
         call.at \in {"worker", "router", "routed"},
         call.op \in {"create", "transport", "consume"},
         call.op = "create" => call.s \notin made,
         call.op = "transport" => \A d \in Call : ~(calls[d].op = "create" /\ calls[d].s = call.s),
         call.op = "consume" => call.t \in Transport /\ call.p \in Producer
  PROVE  Objects'
BY DEF AdapterInv, HeldIsMade, Held, ListedIsOpen, OwnersMade, TypeOK, CallsHold, FreshIsBare,
   Objects

LEMMA WorkerObjects ==
  ASSUME AdapterInv
  PROVE  /\ WorkerStarted => Objects'
         /\ WorkerFails => Objects'
         /\ WorkerDied => Objects'
         /\ ServerBound => Objects'
         /\ ServerFails => Objects'
<1>1. \A c \in Call : /\ calls[c].at = "produce" <=> calls[c].op = "produce"
                      /\ calls[c] \in CallRec
  BY DEF AdapterInv, CallsHold, TypeOK
<1>2. ASSUME NEW c \in Call, NEW at \in {"router", "server", "transport"}, calls[c].op # "produce"
      PROVE  LET x == [calls[c] EXCEPT !.at = at]
             IN /\ x.op = calls[c].op /\ x.s = calls[c].s /\ x.t = calls[c].t /\ x.p = calls[c].p
                /\ x.at = at
  BY <1>1 DEF CallRec
<1>3. ASSUME WorkerStarted PROVE Objects'
  BY <1>3, <1>1, <1>2, CallsGoOn DEF WorkerStarted, world
<1>4. ASSUME WorkerFails PROVE Objects'
  BY <1>4, CallsGoOn DEF WorkerFails, world
<1>5. ASSUME WorkerDied PROVE Objects'
  <2>1. \A c \in Call : calls'[c] = Idle \/ calls'[c] = calls[c]
    BY <1>5 DEF WorkerDied
  <2>2. listed \in SUBSET Producer
    BY DEF AdapterInv, TypeOK
  <2> DEFINE ts == {t \in Transport : transports[t].state = "open"}
  <2>3. ts \in SUBSET Transport /\ \A t \in ts : transports[t].state = "open"
    OBVIOUS
  <2>4. Close(ts, listed)
    BY <1>5 DEF WorkerDied
  <2>5. made' = made /\ sessions' \subseteq sessions
    BY <1>5 DEF WorkerDied
  <2> HIDE DEF ts
  <2> QED
    BY <2>1, <2>2, <2>3, <2>4, <2>5, ClosingKeeps
<1>6. ASSUME ServerBound PROVE Objects'
  BY <1>6, <1>2, CallsGoOn DEF ServerBound, AdapterInv, CallsHold, world
<1>7. ASSUME ServerFails PROVE Objects'
  BY <1>7, CallsGoOn DEF ServerFails, world
<1> QED
  BY <1>3, <1>4, <1>5, <1>6, <1>7

LEMMA HandlerObjects ==
  ASSUME AdapterInv, NEW c \in Call
  PROVE  /\ RouterMade(c) => Objects'
         /\ SessionCreated(c) => Objects'
         /\ AwaitServer(c) => Objects'
         /\ ConsumeChecked(c) => Objects'
         /\ Rejected(c) => Objects'
BY CallsGoOn DEF AdapterInv, CallsHold, TypeOK, Settle, RouterMade, CallRec, world, SessionCreated,
   AwaitServer, ConsumeChecked, Rejected

\* What is made, after the await.
LEMMA MadeObjects ==
  ASSUME AdapterInv, NEW c \in Call
  PROVE  /\ TransportMade(c) => Objects'
         /\ Produced(c) => Objects'
         /\ Consumed(c) => Objects'
<1>1. /\ TypeOK
      /\ CallsHold /\ FreshIsBare /\ OwnersMade /\ HeldIsMade /\ ListedIsOpen
  BY DEF AdapterInv
<1>2. ASSUME Settle(c)
      PROVE  /\ \A d \in Call : calls'[d].op # "none" => calls'[d] = calls[d]
             /\ \A d \in Call : calls'[d] = Idle \/ calls'[d] = calls[d]
  BY <1>1, <1>2 DEF Settle, TypeOK, Idle
<1>3. Idle.op = "none" /\ Idle.at = "idle"
  BY DEF Idle
<1>4. ASSUME TransportMade(c) PROVE Objects'
  <2>1. PICK t \in Transport :
          /\ transports[t].state = "none"
          /\ transports' = [transports EXCEPT ![t] = [s |-> calls[c].s, r |-> calls[c].r, state |-> "open"]]
    BY <1>4 DEF TransportMade
  <2>2. /\ transports'[t].s = calls[c].s /\ transports'[t].state = "open"
        /\ \A u \in Transport : u # t => transports'[u] = transports[u]
    BY <1>1, <2>1 DEF TypeOK
  <2>3. calls[c].op = "transport" /\ calls[c].s \in made
    BY <1>1, <1>4 DEF TransportMade, CallsHold
  <2>4. UNCHANGED <<made, sessions, producers, listed, consumers>> /\ Settle(c)
    BY <1>4 DEF TransportMade
  <2>5. OwnersMade'
    BY <1>1, <2>1, <2>2, <2>3, <2>4 DEF OwnersMade
  <2>6. HeldIsMade' /\ ListedIsOpen'
    BY <1>1, <2>4 DEF HeldIsMade, Held, ListedIsOpen
  <2>7. FreshIsBare'
    BY <1>1, <1>2, <2>2, <2>3, <2>4 DEF FreshIsBare
  <2>8. CallsHold'
    BY <1>1, <1>2, <1>3, <2>1, <2>2, <2>4 DEF CallsHold
  <2> QED
    BY <2>5, <2>6, <2>7, <2>8 DEF Objects
<1>5. ASSUME Produced(c) PROVE Objects'
  <2>1. PICK p \in Producer :
          /\ producers[p].state = "none"
          /\ producers' = [producers EXCEPT ![p] = [t |-> calls[c].t, state |-> "open"]]
          /\ listed' = listed \cup {p}
    BY <1>5 DEF Produced
  <2>2. /\ producers'[p].t = calls[c].t /\ producers'[p].state = "open"
        /\ \A q \in Producer : q # p => producers'[q] = producers[q]
    BY <1>1, <2>1 DEF TypeOK
  <2>3. calls[c].t \in Transport /\ transports[calls[c].t].state # "none"
    BY <1>1, <1>5 DEF Produced, CallsHold
  <2>4. UNCHANGED <<made, sessions, transports, consumers>> /\ Settle(c)
    BY <1>5 DEF Produced
  <2>5. listed \subseteq Producer
    BY <1>1 DEF TypeOK
  <2>6. OwnersMade' /\ ListedIsOpen'
    BY <1>1, <2>1, <2>2, <2>3, <2>4, <2>5 DEF OwnersMade, ListedIsOpen
  <2>7. HeldIsMade'
    BY <1>1, <2>4 DEF HeldIsMade, Held
  <2>8. FreshIsBare'
    BY <1>1, <1>2, <2>4 DEF FreshIsBare
  <2>9. CallsHold'
    BY <1>1, <1>2, <1>3, <2>4 DEF CallsHold
  <2> QED
    BY <2>6, <2>7, <2>8, <2>9 DEF Objects
<1>6. ASSUME Consumed(c) PROVE Objects'
  <2>1. PICK k \in Consumer :
          /\ consumers[k].state = "none"
          /\ consumers' = [consumers EXCEPT ![k] = [t |-> calls[c].t, p |-> calls[c].p, state |-> "held"]]
    BY <1>6 DEF Consumed
  <2>2. /\ consumers'[k].t = calls[c].t /\ consumers'[k].p = calls[c].p
        /\ \A j \in Consumer : j # k => consumers'[j] = consumers[j]
    BY <1>1, <2>1 DEF TypeOK
  <2>3. calls[c].t \in Transport /\ calls[c].p \in Producer
    BY <1>1, <1>6 DEF Consumed, CallsHold
  <2>4. UNCHANGED <<made, sessions, transports, producers, listed>> /\ Settle(c)
    BY <1>6 DEF Consumed
  <2>5. OwnersMade' /\ ListedIsOpen'
    BY <1>1, <2>4 DEF OwnersMade, ListedIsOpen
  <2>6. HeldIsMade'
    BY <1>1, <2>2, <2>3 DEF HeldIsMade, Held
  <2>7. FreshIsBare'
    BY <1>1, <1>2, <2>4 DEF FreshIsBare
  <2>8. CallsHold'
    BY <1>1, <1>2, <1>3, <2>4 DEF CallsHold
  <2> QED
    BY <2>5, <2>6, <2>7, <2>8 DEF Objects
<1> QED
  BY <1>4, <1>5, <1>6

LEMMA RequestObjects ==
  ASSUME AdapterInv, NEW s \in Session
  PROVE  /\ CreateSession(s) => Objects'
         /\ CreateTransport(s) => Objects'
         /\ \A t \in Transport, p \in Producer : Consume(s, t, p) => Objects'
<1>1. TypeOK /\ sessions \subseteq made
  BY DEF AdapterInv, OwnersMade
<1>2. ASSUME NEW op \in {"create", "transport", "consume"},
             NEW t \in Transport \cup {NoTransport}, NEW p \in Producer \cup {NoProducer},
             AskRouter(op, s, t, p), UNCHANGED <<transports, producers, listed, consumers>>,
             s \in made', made \subseteq made', sessions' \subseteq made',
             calls' = calls => sessions' \subseteq sessions,
             op = "create" => s \notin made,
             op = "transport" => \A d \in Call : ~(calls[d].op = "create" /\ calls[d].s = s),
             op = "consume" => t \in Transport /\ p \in Producer
      PROVE  Objects'
  <2>1. CASE calls' = calls
    BY <1>2, <2>1, CallsGoOn
  <2>2. CASE calls' # calls
    <3>1. PICK c \in Call, call \in CallRec :
            /\ calls[c] = Idle
            /\ calls' = [calls EXCEPT ![c] = call]
            /\ call.op = op /\ call.s = s /\ call.t = t /\ call.p = p
            /\ call.at \in {"worker", "router", "routed"}
      BY <1>1, <1>2, <2>2, AskRouterEffect
    <3> QED
      BY <1>2, <3>1, CallBegins
  <2> QED
    BY <2>1, <2>2
<1>3. ASSUME CreateSession(s) PROVE Objects'
  BY <1>3, CallsGoOn, <1>1, <1>2 DEF CreateSession, world
<1>4. ASSUME CreateTransport(s) PROVE Objects'
  BY <1>1, <1>4, <1>2 DEF CreateTransport, Prepared, world
<1>5. ASSUME NEW t \in Transport, NEW p \in Producer, Consume(s, t, p) PROVE Objects'
  BY <1>1, <1>5, <1>2 DEF Consume, Usable, world
<1> QED
  BY <1>3, <1>4, <1>5

LEMMA ClosingObjects ==
  ASSUME AdapterInv
  PROVE  /\ CloseOne => Objects'
         /\ \A k \in Consumer : Resume(k) => Objects'
         /\ \A s \in Session : CloseSession(s) => Objects'
         /\ \A s \in Session, t \in Transport : Produce(s, t) => Objects'
<1>1. /\ TypeOK
      /\ CallsHold /\ FreshIsBare /\ OwnersMade /\ HeldIsMade /\ ListedIsOpen
  BY DEF AdapterInv
\* Only consumers change.
<1>2. ASSUME UNCHANGED <<transports, producers, listed, calls, made, sessions>>, HeldIsMade'
      PROVE  Objects'
  BY <1>1, <1>2 DEF OwnersMade, ListedIsOpen, CallsHold, FreshIsBare, Objects
<1>3. ASSUME NEW k \in Consumer, NEW state \in {"gone", "resumed"}, Held(k),
             consumers' = [consumers EXCEPT ![k].state = state]
      PROVE  HeldIsMade'
  BY <1>1, <1>3 DEF TypeOK, ConsumerRec, HeldIsMade, Held
<1>4. ASSUME NEW k \in Consumer, Resume(k) PROVE Objects'
  BY <1>2, <1>3, <1>4 DEF Resume, Held
<1>5. ASSUME NEW ts \in SUBSET Transport, NEW ps \in SUBSET Producer, Close(ts, ps),
             UNCHANGED <<made, calls>>, sessions' \subseteq sessions,
             \A t \in ts : transports[t].state = "open"
      PROVE  Objects'
  BY <1>5, ClosingKeeps
<1>6. ASSUME CloseOne PROVE Objects'
  <2>1. CASE \E k \in Consumer : /\ Held(k)
                                 /\ consumers' = [consumers EXCEPT ![k].state = "gone"]
                                 /\ UNCHANGED <<transports, producers, listed>>
    BY <1>2, <1>3, <1>6, <2>1 DEF CloseOne
  <2>2. CASE \E p \in listed : Close({}, {p})
    BY <1>1, <1>5, <1>6, <2>2 DEF CloseOne, TypeOK
  <2>3. CASE \E t \in Transport : Usable(transports[t].s, t) /\ Close({t}, {})
    <3>1. PICK t \in Transport : transports[t].state = "open" /\ Close({t}, {})
      BY <2>3 DEF Usable
    <3>2. UNCHANGED <<made, calls, sessions>>
      BY <1>6 DEF CloseOne
    <3>3. {t} \in SUBSET Transport /\ {} \in SUBSET Producer
      OBVIOUS
    <3> QED
      BY <1>5, <3>1, <3>2, <3>3
  <2> QED
    BY <1>6, <2>1, <2>2, <2>3 DEF CloseOne
<1>7. ASSUME NEW s \in Session, CloseSession(s) PROVE Objects'
  <2> DEFINE ts == {t \in Transport : transports[t].s = s /\ transports[t].state = "open"}
             ps == {p \in listed : OwnerOf(p) = s}
  <2>1. /\ ts \in SUBSET Transport /\ ps \in SUBSET Producer
        /\ \A t \in ts : transports[t].state = "open"
    BY <1>1 DEF TypeOK
  <2>2. Close(ts, ps) /\ UNCHANGED <<made, calls>> /\ sessions' \subseteq sessions
    BY <1>7 DEF CloseSession
  <2> HIDE DEF ts, ps
  <2> QED
    BY <1>5, <2>1, <2>2
<1>8. ASSUME NEW s \in Session, NEW t \in Transport, Produce(s, t) PROVE Objects'
  <2> DEFINE call == [Idle EXCEPT !.op = "produce", !.at = "produce", !.s = s, !.t = t]
  <2>1. call.op = "produce" /\ call.at = "produce" /\ call.s = s /\ call.t = t
    BY DEF Idle
  <2> HIDE DEF call
  <2>2. PICK c \in Call : calls[c] = Idle /\ calls' = [calls EXCEPT ![c] = call]
    BY <1>8, FreeCallIsIdle DEF Produce, call
  <2>3. \A d \in Call : calls'[d] = IF d = c THEN call ELSE calls[d]
    BY <1>1, <2>2 DEF TypeOK
  <2>4. UNCHANGED <<made, sessions, transports, producers, listed, consumers>>
    BY <1>8 DEF Produce, world
  <2>5. s \in made /\ transports[t].s = s /\ transports[t].state = "open"
    BY <1>1, <1>8 DEF Produce, Usable, OwnersMade
  <2>6. OwnersMade' /\ HeldIsMade' /\ ListedIsOpen'
    BY <1>1, <2>4 DEF OwnersMade, HeldIsMade, Held, ListedIsOpen
  <2>7. FreshIsBare'
    BY <1>1, <2>1, <2>3, <2>4 DEF FreshIsBare
  <2>8. CallsHold'
    BY <1>1, <2>1, <2>3, <2>4, <2>5 DEF CallsHold
  <2> QED
    BY <2>6, <2>7, <2>8 DEF Objects
<1> QED
  BY <1>4, <1>6, <1>7, <1>8

LEMMA ObjectsStep == AdapterInv /\ [Next]_vars => Objects'
<1> SUFFICES ASSUME AdapterInv, [Next]_vars PROVE Objects'
  OBVIOUS
<1>1. CASE UNCHANGED vars
  BY <1>1, CallsGoOn DEF vars, world
<1>2. CASE Next
  BY <1>2, WorkerObjects, HandlerObjects, MadeObjects, RequestObjects, ClosingObjects DEF Next
<1> QED
  BY <1>1, <1>2

\* Steps that bring nothing back while there is no worker.
LEMMA StaysBare ==
  ASSUME AdapterInv,
         worker' # "up" => worker # "up",
         worker # "up" =>
           /\ \A x \in Channel : routers'[x] = routers[x]
           /\ server' \in {"binding", "ready"} => server \in {"binding", "ready"}
           /\ listed' \subseteq listed
           /\ \A t \in Transport : transports'[t].state = "open" => transports[t].state = "open"
           /\ \A c \in Call : calls'[c].at \in {"router", "transport", "produce"} =>
                                calls[c].at \in {"router", "transport", "produce"}
           /\ \A s \in sessions' : \/ s \in sessions
                                   \/ \E c \in Call : /\ calls'[c].op = "create" /\ calls'[c].s = s
                                                      /\ calls'[c].at = "worker"
           /\ \A c \in Call : calls[c].op = "create" /\ calls[c].at = "worker" => calls'[c] = calls[c]
  PROVE  Workerless'
BY DEF AdapterInv, Workerless, NothingOutlivesWorker, DownIsBare

LEMMA WorkerBare ==
  ASSUME AdapterInv
  PROVE  /\ WorkerStarted => Workerless'
         /\ WorkerFails => Workerless'
         /\ WorkerDied => Workerless'
         /\ ServerBound => Workerless'
         /\ ServerFails => Workerless'
<1>1. TypeOK /\ NothingOutlivesWorker /\ DownIsBare
  BY DEF AdapterInv
<1>2. Idle.at = "idle"
  BY DEF Idle
<1>3. ASSUME WorkerStarted PROVE Workerless'
  BY <1>3 DEF WorkerStarted, Workerless, NothingOutlivesWorker, DownIsBare
<1>4. ASSUME WorkerFails PROVE Workerless'
  BY <1>4, <1>1, <1>2 DEF WorkerFails, world, NothingOutlivesWorker, DownIsBare, Workerless
<1>5. ASSUME WorkerDied PROVE Workerless'
  <2> DEFINE ts == {t \in Transport : transports[t].state = "open"}
  <2>1. ts \in SUBSET Transport /\ listed \in SUBSET Producer /\ Close(ts, listed)
    BY <1>1, <1>5 DEF WorkerDied, TypeOK
  <2>2. \A t \in Transport : t \in ts <=> transports[t].state = "open"
    OBVIOUS
  <2> HIDE DEF ts
  <2>3. /\ listed' \subseteq listed /\ listed' \cap listed = {}
        /\ \A t \in Transport : t \in ts => transports'[t].state = "closed"
        /\ \A t \in Transport : t \notin ts => transports'[t] = transports[t]
    BY <1>1, <2>1, CloseEffect
  <2>4. listed' = {}
    BY <2>3
  <2>5. \A t \in Transport : transports'[t].state # "open"
    BY <2>2, <2>3
  <2>6. \A c \in Call : calls'[c].at \in {"idle", "routed"}
    BY <1>2, <1>5 DEF WorkerDied
  <2>7. routers' = [c \in Channel |-> 0] /\ server' = "none" /\ sessions' = {}
    BY <1>5 DEF WorkerDied
  <2> QED
    BY <2>4, <2>5, <2>6, <2>7 DEF Workerless, NothingOutlivesWorker, DownIsBare
<1>6. ASSUME ServerBound PROVE Workerless'
  BY <1>1, <1>6 DEF ServerBound, NothingOutlivesWorker, Workerless, DownIsBare
<1>7. ASSUME ServerFails PROVE Workerless'
  BY <1>1, <1>7 DEF ServerFails, NothingOutlivesWorker, Workerless, DownIsBare
<1> QED
  BY <1>3, <1>4, <1>5, <1>6, <1>7

LEMMA HandlerBare ==
  ASSUME AdapterInv, NEW c \in Call
  PROVE  /\ RouterMade(c) => Workerless'
         /\ SessionCreated(c) => Workerless'
         /\ AwaitServer(c) => Workerless'
         /\ TransportMade(c) => Workerless'
         /\ Produced(c) => Workerless'
         /\ ConsumeChecked(c) => Workerless'
         /\ Consumed(c) => Workerless'
         /\ Rejected(c) => Workerless'
<1>1. TypeOK /\ NothingOutlivesWorker /\ DownIsBare
  BY DEF AdapterInv
<1>2. Idle.at = "idle"
  BY DEF Idle
<1>3. ASSUME worker # "up"
      PROVE  calls[c].at \notin {"router", "transport", "produce"} /\ server \notin {"binding", "ready"}
  BY <1>1, <1>3 DEF NothingOutlivesWorker, DownIsBare
<1>4. ASSUME Settle(c)
      PROVE  /\ \A d \in Call : d # c => calls'[d] = calls[d]
             /\ calls'[c].at = "idle"
  BY <1>1, <1>2, <1>4 DEF Settle, TypeOK
<1>5. ASSUME UNCHANGED worker, worker = "up" PROVE Workerless'
  BY <1>5 DEF Workerless, NothingOutlivesWorker, DownIsBare
<1>6. ASSUME RouterMade(c) \/ TransportMade(c) \/ Produced(c) PROVE Workerless'
  BY <1>3, <1>6, <1>5 DEF RouterMade, TransportMade, Produced
<1>7. ASSUME Rejected(c) PROVE Workerless'
  BY <1>5, <1>7, <1>3, <1>4, StaysBare DEF Rejected, world
<1>8. ASSUME SessionCreated(c) PROVE Workerless'
  BY <1>4, <1>8, StaysBare DEF SessionCreated, world
<1>9. ASSUME Consumed(c) PROVE Workerless'
  BY <1>4, <1>9, StaysBare DEF Consumed
<1>10. ASSUME ConsumeChecked(c) PROVE Workerless'
  BY <1>1, <1>4, <1>10, StaysBare DEF ConsumeChecked, TypeOK, CallRec, world
<1>11. ASSUME AwaitServer(c) PROVE Workerless'
  BY <1>5, <1>11, <1>3, <1>1, <1>4, StaysBare DEF AwaitServer, TypeOK, CallRec, world
<1> QED
  BY <1>6, <1>7, <1>8, <1>9, <1>10, <1>11

LEMMA RequestBare ==
  ASSUME AdapterInv, NEW s \in Session
  PROVE  /\ CreateSession(s) => Workerless'
         /\ CreateTransport(s) => Workerless'
         /\ CloseSession(s) => Workerless'
         /\ \A t \in Transport : Produce(s, t) => Workerless'
         /\ \A t \in Transport, p \in Producer : Consume(s, t, p) => Workerless'
<1>1. TypeOK /\ NothingOutlivesWorker /\ DownIsBare
  BY DEF AdapterInv
<1>2. ASSUME NEW op \in {"create", "transport", "consume"},
             NEW t \in Transport \cup {NoTransport}, NEW p \in Producer \cup {NoProducer},
             AskRouter(op, s, t, p),
             UNCHANGED <<routers, server, listed, transports>>,
             sessions' = sessions \/ (op = "create" /\ sessions' = sessions \cup {s}),
             calls' = calls => sessions' = sessions
      PROVE  Workerless'
  <2>1. CASE calls' = calls /\ worker' = worker
    BY <1>2, <2>1, StaysBare
  <2>2. CASE \E c \in Call, call \in CallRec :
               /\ calls[c] = Idle
               /\ calls' = [calls EXCEPT ![c] = call]
               /\ call.op = op /\ call.s = s
               /\ worker' = "up" <=> worker = "up"
               /\ (\A x \in Channel : routers[x] = 0) /\ worker # "up" => call.at = "worker"
    <3>1. PICK c \in Call, call \in CallRec :
            /\ calls[c] = Idle
            /\ calls' = [calls EXCEPT ![c] = call]
            /\ call.op = op /\ call.s = s
            /\ worker' = "up" <=> worker = "up"
            /\ (\A x \in Channel : routers[x] = 0) /\ worker # "up" => call.at = "worker"
      BY <2>2
    <3>2. \A d \in Call : calls'[d] = IF d = c THEN call ELSE calls[d]
      BY <1>1, <3>1 DEF TypeOK
    <3>3. worker # "up" => call.at = "worker"
      BY <1>1, <3>1 DEF NothingOutlivesWorker
    <3>4. calls[c].op = "none"
      BY <3>1 DEF Idle
    <3>5. worker # "up" => \A x \in sessions' : \/ x \in sessions
                                                \/ \E d \in Call : /\ calls'[d].op = "create" /\ calls'[d].s = x
                                                                   /\ calls'[d].at = "worker"
      BY <1>2, <3>1, <3>2, <3>3
    <3> QED
      BY <1>2, <3>1, <3>2, <3>3, <3>4, <3>5, StaysBare
  <2> QED
    BY <1>1, <1>2, <2>1, <2>2, AskRouterEffect
<1>3. ASSUME CreateSession(s) PROVE Workerless'
  BY <1>3, <1>2 DEF CreateSession, world
<1>4. ASSUME CreateTransport(s) PROVE Workerless'
  BY <1>4, <1>2 DEF CreateTransport, world
<1>5. ASSUME NEW t \in Transport, NEW p \in Producer, Consume(s, t, p) PROVE Workerless'
  BY <1>5, <1>2 DEF Consume, world
<1>6. ASSUME NEW t \in Transport, Produce(s, t) PROVE Workerless'
  BY <1>1, <1>6 DEF Produce, Usable, DownIsBare, Workerless, NothingOutlivesWorker
<1>7. ASSUME CloseSession(s) PROVE Workerless'
  <2> DEFINE ts == {t \in Transport : transports[t].s = s /\ transports[t].state = "open"}
             ps == {p \in listed : OwnerOf(p) = s}
  <2>1. ts \in SUBSET Transport /\ ps \in SUBSET Producer /\ Close(ts, ps)
    BY <1>1, <1>7 DEF CloseSession, TypeOK
  <2> HIDE DEF ts, ps
  <2>2. listed' \subseteq listed
    BY <1>1, <2>1, CloseEffect
  <2>3. \A t \in Transport : transports'[t].state = "open" => transports[t].state = "open"
    <3>1. /\ \A t \in Transport : t \in ts => transports'[t].state = "closed"
          /\ \A t \in Transport : t \notin ts => transports'[t] = transports[t]
      BY <1>1, <2>1, CloseEffect
    <3> QED
      BY <3>1
  <2> QED
    BY <1>7, <2>2, <2>3, StaysBare DEF CloseSession
<1> QED
  BY <1>3, <1>4, <1>5, <1>6, <1>7

LEMMA ClosingBare ==
  ASSUME AdapterInv
  PROVE  /\ CloseOne => Workerless'
         /\ \A k \in Consumer : Resume(k) => Workerless'
<1>1. TypeOK
  BY DEF AdapterInv
<1>2. ASSUME NEW k \in Consumer, Resume(k) PROVE Workerless'
  BY <1>2, StaysBare DEF Resume
<1>3. ASSUME CloseOne PROVE Workerless'
  <2>1. ASSUME NEW ts \in SUBSET Transport, NEW ps \in SUBSET Producer, Close(ts, ps)
        PROVE  /\ listed' \subseteq listed
               /\ \A t \in Transport : transports'[t].state = "open" => transports[t].state = "open"
    <3>1. /\ listed' \subseteq listed
          /\ \A t \in Transport : t \in ts => transports'[t].state = "closed"
          /\ \A t \in Transport : t \notin ts => transports'[t] = transports[t]
      BY <1>1, <2>1, CloseEffect
    <3> QED
      BY <3>1
  <2>2. /\ \A p \in listed : {p} \in SUBSET Producer /\ {} \in SUBSET Transport
        /\ \A t \in Transport : {t} \in SUBSET Transport /\ {} \in SUBSET Producer
    BY <1>1 DEF TypeOK
  <2>3. /\ listed' \subseteq listed
        /\ \A t \in Transport : transports'[t].state = "open" => transports[t].state = "open"
    BY <1>3, <2>1, <2>2 DEF CloseOne
  <2> QED
    BY <1>3, <2>3, StaysBare DEF CloseOne
<1> QED
  BY <1>2, <1>3

LEMMA AdapterInvStep == AdapterInv /\ [Next]_vars => AdapterInv'
<1> SUFFICES ASSUME AdapterInv, [Next]_vars PROVE AdapterInv'
  OBVIOUS
<1>1. TypeOK'
  BY TypesStep DEF AdapterInv
<1>2. Objects'
  BY ObjectsStep
<1>3. Workerless'
  BY StaysBare, WorkerBare, HandlerBare, RequestBare, ClosingBare DEF vars, world, Next
<1> QED
  BY <1>1, <1>2, <1>3 DEF AdapterInv, Objects, Workerless

LEMMA AdapterInvariant == Spec => []AdapterInv
BY AdapterInvInit, AdapterInvStep, PTL DEF Spec

\* A producer that newcomers are told of is open, however closings, answers of
\* the worker and its death interleave (listProducers of the adapter).
THEOREM AdapterListedOpen == Spec => []ListedIsOpen
<1>1. AdapterInv => ListedIsOpen
  BY DEF AdapterInv
<1> QED
  BY <1>1, AdapterInvariant, PTL

\* Without a worker there is no router, no listening server and no listed
\* producer to hand out (the worker's `died' listener).
THEOREM AdapterWorkerless == Spec => []NothingOutlivesWorker
<1>1. AdapterInv => NothingOutlivesWorker
  BY DEF AdapterInv
<1> QED
  BY <1>1, AdapterInvariant, PTL

-----------------------------------------------------------------------------
(* Consumers.                                                              *)

Follows ==
  \A k \in Consumer :
    Held(k) /\ Held(k)' =>
      LET p == consumers[k].p  t == consumers[k].t
      IN /\ producers[p].state = "open" => producers'[p].state = "open"
         /\ transports[t].state = "open" => transports'[t].state = "open"

LEMMA FollowsStep == AdapterInv /\ [Next]_vars => [Follows]_vars
<1> SUFFICES ASSUME AdapterInv, [Next]_vars PROVE Follows
  OBVIOUS
<1>1. TypeOK /\ HeldIsMade
  BY DEF AdapterInv
<1>2. ASSUME UNCHANGED <<transports, producers>> PROVE Follows
  BY <1>2 DEF Follows
<1>3. ASSUME NEW ts \in SUBSET Transport, NEW ps \in SUBSET Producer, Close(ts, ps)
      PROVE  Follows
  <2>1. SUFFICES ASSUME NEW k \in Consumer, Held(k), Held(k)'
                 PROVE  /\ producers'[consumers[k].p] = producers[consumers[k].p]
                        /\ transports'[consumers[k].t] = transports[consumers[k].t]
    BY DEF Follows
  <2>2. consumers[k].p \in Producer /\ consumers[k].t \in Transport
    BY <1>1, <2>1 DEF HeldIsMade
  <2>3. /\ consumers[k].t \notin ts
        /\ consumers[k].p \notin ps
        /\ ~(producers[consumers[k].p].t \in ts /\ consumers[k].p \in listed)
    BY <1>1, <1>3, <2>1, CloseEffect
  <2>4. producers'[consumers[k].p] = producers[consumers[k].p]
    BY <1>1, <1>3, <2>2, <2>3, CloseSpares
  <2>5. \A t \in Transport : t \notin ts => transports'[t] = transports[t]
    BY <1>1, <1>3, CloseEffect
  <2> QED
    BY <2>2, <2>3, <2>4, <2>5
<1>4. ASSUME NEW c \in Call, TransportMade(c) \/ Produced(c) PROVE Follows
  BY <1>1, <1>4 DEF TransportMade, Produced, TypeOK, Follows, HeldIsMade
<1>5. ASSUME NEW s \in Session, CloseSession(s) PROVE Follows
  <2> DEFINE ts == {t \in Transport : transports[t].s = s /\ transports[t].state = "open"}
             ps == {p \in listed : OwnerOf(p) = s}
  <2>1. ts \in SUBSET Transport /\ ps \in SUBSET Producer /\ Close(ts, ps)
    BY <1>1, <1>5 DEF CloseSession, TypeOK
  <2> HIDE DEF ts, ps
  <2> QED
    BY <1>3, <2>1
<1>6. ASSUME WorkerDied PROVE Follows
  <2> DEFINE ts == {t \in Transport : transports[t].state = "open"}
  <2>1. ts \in SUBSET Transport /\ listed \in SUBSET Producer /\ Close(ts, listed)
    BY <1>1, <1>6 DEF WorkerDied, TypeOK
  <2> HIDE DEF ts
  <2> QED
    BY <1>3, <2>1
<1>7. ASSUME CloseOne PROVE Follows
  <2>1. /\ \A p \in listed : {p} \in SUBSET Producer /\ {} \in SUBSET Transport
        /\ \A t \in Transport : {t} \in SUBSET Transport /\ {} \in SUBSET Producer
    BY <1>1 DEF TypeOK
  <2> QED
    BY <1>2, <1>3, <1>7, <2>1 DEF CloseOne
<1>8. ASSUME NEW c \in Call,
             \/ RouterMade(c) \/ SessionCreated(c) \/ AwaitServer(c)
             \/ ConsumeChecked(c) \/ Consumed(c) \/ Rejected(c)
      PROVE  Follows
  BY <1>2, <1>8 DEF RouterMade, SessionCreated, AwaitServer, ConsumeChecked, Consumed, Rejected, world
<1>9. ASSUME NEW s \in Session,
             \/ CreateSession(s) \/ CreateTransport(s)
             \/ \E t \in Transport : Produce(s, t) \/ \E p \in Producer : Consume(s, t, p)
      PROVE  Follows
  BY <1>2, <1>9 DEF CreateSession, CreateTransport, Produce, Consume, world
<1>10. ASSUME \/ WorkerStarted \/ WorkerFails \/ ServerBound \/ ServerFails
              \/ \E k \in Consumer : Resume(k)
       PROVE  Follows
  BY <1>2, <1>10 DEF WorkerStarted, WorkerFails, ServerBound, ServerFails, Resume, world
<1>11. CASE UNCHANGED vars
  BY <1>2, <1>11 DEF vars, world
<1>12. CASE Next
  BY <1>4, <1>5, <1>6, <1>7, <1>8, <1>9, <1>10, <1>12 DEF Next
<1> QED
  BY <1>11, <1>12

\* A consumer kept across a step keeps its producer and its transport, whoever
\* closes them (the close listeners of closeTransport, closeProducer and closeSession).
THEOREM AdapterConsumersFollow == Spec => ConsumersFollow
<1>1. Spec => [][Follows]_vars
  BY FollowsStep, AdapterInvariant, PTL DEF Spec
<1>2. [][Follows]_vars => ConsumersFollow
  BY DEF Follows, ConsumersFollow
<1> QED
  BY <1>1, <1>2

-----------------------------------------------------------------------------
(* The service.  Its state is the sessions, those whose publication was    *)
(* accepted, and for whom each producer is listed.                         *)

Accepted == {calls[c].s : c \in {d \in Call : calls[d].op = "produce"}}
Publisher == [p \in Producer |-> IF p \in listed THEN OwnerOf(p) ELSE NoSession]

Stutters == UNCHANGED <<sessions, Accepted, Publisher>>
ServiceStep == Service!ServiceNext \/ Stutters

LEMMA AcceptedDef ==
  /\ \A s : s \in Accepted <=> \E c \in Call : calls[c].op = "produce" /\ calls[c].s = s
  /\ \A s : s \in Accepted' <=> \E c \in Call : calls'[c].op = "produce" /\ calls'[c].s = s
BY DEF Accepted

\* The service's actions in the adapter's terms.
LEMMA StepOpens ==
  ASSUME NEW s \in Session, s \notin sessions, sessions' = sessions \cup {s},
         UNCHANGED <<Accepted, Publisher>>
  PROVE  ServiceStep
BY DEF ServiceStep, Service!ServiceNext, Service!OpenSession, Accepted, Publisher

LEMMA StepEnds ==
  ASSUME NEW s \in Session, s \in sessions, sessions' = sessions \ {s}, Accepted' = Accepted,
         Publisher' = [p \in Producer |-> IF Publisher[p] = s THEN NoSession ELSE Publisher[p]]
  PROVE  ServiceStep
<1>1. Service!EndSession(s)
  BY DEF Service!EndSession, Service!Without, Service!Published, Accepted, Publisher
<1> QED
  BY <1>1 DEF ServiceStep, Service!ServiceNext

LEMMA StepAccepts ==
  ASSUME NEW s \in Session, s \in sessions, Accepted' = Accepted \cup {s},
         UNCHANGED <<sessions, Publisher>>
  PROVE  ServiceStep
BY DEF ServiceStep, Service!ServiceNext, Service!Accept, Accepted, Publisher

LEMMA StepRefuses ==
  ASSUME NEW s \in Session, Accepted' = Accepted \ {s}, UNCHANGED <<sessions, Publisher>>
  PROVE  ServiceStep
BY DEF ServiceStep, Service!ServiceNext, Service!Refuse, Accepted, Publisher

LEMMA StepPublishes ==
  ASSUME NEW s \in Session, NEW p \in Producer, s \in Accepted, Publisher[p] = NoSession,
         Publisher' = [Publisher EXCEPT ![p] = s],
         Accepted' \in {Accepted, Accepted \ {s}}, UNCHANGED sessions
  PROVE  ServiceStep
<1>1. Service!Publish(s, p)
  BY DEF Service!Publish, Accepted, Publisher
<1> QED
  BY <1>1 DEF ServiceStep, Service!ServiceNext

LEMMA StepWithdraws ==
  ASSUME NEW s \in Session, NEW ps \in SUBSET Producer, \A p \in ps : Publisher[p] = s,
         Publisher' = [p \in Producer |-> IF p \in ps THEN NoSession ELSE Publisher[p]],
         UNCHANGED <<sessions, Accepted>>
  PROVE  ServiceStep
<1>1. Service!Withdraw(s)
  BY DEF Service!Withdraw, Service!Without, Service!Published, Accepted, Publisher
<1> QED
  BY <1>1 DEF ServiceStep, Service!ServiceNext

LEMMA StepCrashes ==
  ASSUME sessions' = {}, Accepted' = {}, Publisher' = [p \in Producer |-> NoSession]
  PROVE  ServiceStep
BY DEF ServiceStep, Service!ServiceNext, Service!Crash, Accepted, Publisher

-----------------------------------------------------------------------------

\* What leaves the two derived parts of the service's state alone.
LEMMA AcceptedKept ==
  ASSUME \A c \in Call : /\ calls'[c].op = "produce" <=> calls[c].op = "produce"
                         /\ calls[c].op = "produce" => calls'[c].s = calls[c].s
  PROVE  Accepted' = Accepted
BY AcceptedDef

LEMMA PublisherKept ==
  ASSUME UNCHANGED <<transports, producers, listed>>
  PROVE  Publisher' = Publisher
BY DEF Publisher, OwnerOf

\* What closing withdraws.
LEMMA PublisherClosed ==
  ASSUME AdapterInv, NEW ts \in SUBSET Transport, NEW ps \in SUBSET Producer, Close(ts, ps)
  PROVE  Publisher' = [p \in Producer |-> IF p \in listed /\ (p \in ps \/ producers[p].t \in ts)
                                          THEN NoSession ELSE Publisher[p]]
<1>1. TypeOK /\ OwnersMade /\ ListedIsOpen
  BY DEF AdapterInv
<1>2. /\ listed' \subseteq listed
      /\ \A p \in listed' : producers'[p] = producers[p]
      /\ \A p \in listed : p \in listed' <=> p \notin ps /\ producers[p].t \notin ts
      /\ \A t \in Transport : transports'[t].s = transports[t].s
  BY <1>1, CloseEffect
<1>3. ASSUME NEW p \in Producer
      PROVE  Publisher'[p] = IF p \in listed /\ (p \in ps \/ producers[p].t \in ts)
                             THEN NoSession ELSE Publisher[p]
  BY <1>1, <1>2 DEF OwnersMade, Publisher, OwnerOf
<1>4. Publisher' = [p \in Producer |-> Publisher'[p]]
  BY DEF Publisher
<1> QED
  BY <1>3, <1>4

\* Handlers that are neither a publication before nor after.
LEMMA OthersKept ==
  ASSUME AdapterInv, NEW c \in Call, calls[c].op # "produce", NEW call,
         calls' = [calls EXCEPT ![c] = call], call.op # "produce"
  PROVE  Accepted' = Accepted
BY AcceptedKept DEF AdapterInv, TypeOK

LEMMA AskKeeps ==
  ASSUME AdapterInv, NEW s \in Session, NEW op \in {"create", "transport", "consume"},
         NEW t \in Transport \cup {NoTransport}, NEW p \in Producer \cup {NoProducer},
         AskRouter(op, s, t, p)
  PROVE  Accepted' = Accepted
<1>1. CASE calls' = calls
  BY <1>1, AcceptedKept
<1>2. CASE calls' # calls
  <2>1. PICK c \in Call, call \in CallRec :
          calls[c] = Idle /\ calls' = [calls EXCEPT ![c] = call] /\ call.op = op
    BY <1>2, AskRouterEffect DEF AdapterInv
  <2>2. calls[c].op # "produce"
    BY <2>1 DEF Idle
  <2> QED
    BY <2>1, <2>2, OthersKept
<1> QED
  BY <1>1, <1>2

LEMMA WorkerServes ==
  ASSUME AdapterInv
  PROVE  /\ WorkerStarted => ServiceStep
         /\ WorkerFails => ServiceStep
         /\ WorkerDied => ServiceStep
         /\ ServerBound => ServiceStep
         /\ ServerFails => ServiceStep
<1>1. /\ TypeOK /\ NothingOutlivesWorker /\ DownIsBare
      /\ \A c \in Call : calls[c].op = "produce" <=> calls[c].at = "produce"
      /\ \A c \in Call : calls[c] \in CallRec
  BY DEF AdapterInv, CallsHold, TypeOK
<1>2. Idle.op = "none"
  BY DEF Idle
<1>3. ASSUME Accepted' = Accepted, UNCHANGED <<sessions, world>> PROVE ServiceStep
  BY <1>3, PublisherKept DEF ServiceStep, Stutters, world
<1>4. \A c \in Call, at \in At : [calls[c] EXCEPT !.at = at].op = calls[c].op
  BY <1>1 DEF CallRec
<1>5. ASSUME WorkerStarted PROVE ServiceStep
  BY <1>5, <1>4, <1>1, AcceptedKept, <1>3 DEF WorkerStarted, At
<1>6. ASSUME ServerBound \/ ServerFails PROVE ServiceStep
  <2>1. \A c \in Call : calls[c].at # "server" => calls'[c] = calls[c]
    BY <1>6 DEF ServerBound, ServerFails
  <2>2. \A c \in Call : calls[c].at = "server" => calls'[c].op \in {calls[c].op, "none"}
    <3>1. \A c \in Call : calls[c].at = "server" =>
            calls'[c] = Idle \/ calls'[c] = [calls[c] EXCEPT !.at = "transport"]
      BY <1>6 DEF ServerBound, ServerFails
    <3> QED
      BY <1>2, <1>4, <3>1 DEF At
  <2>3. Accepted' = Accepted
    BY <1>1, <2>1, <2>2, AcceptedKept
  <2> QED
    BY <1>3, <1>6, <2>3 DEF ServerBound, ServerFails
<1>7. ASSUME WorkerFails PROVE ServiceStep
  BY <1>1, <1>7, <1>2, AcceptedDef, StepCrashes DEF WorkerFails, world, NothingOutlivesWorker,
     DownIsBare, Publisher
<1>8. ASSUME WorkerDied PROVE ServiceStep
  <2>1. \A c \in Call : calls'[c].op # "produce"
    BY <1>8, <1>1, <1>2 DEF WorkerDied
  <2>2. Accepted' = {}
    BY <2>1, AcceptedDef
  <2> DEFINE ts == {t \in Transport : transports[t].state = "open"}
  <2>3. ts \in SUBSET Transport /\ listed \in SUBSET Producer /\ Close(ts, listed)
    BY <1>1, <1>8 DEF WorkerDied, TypeOK
  <2> HIDE DEF ts
  <2>4. listed' = {}
    <3>1. listed' \subseteq listed /\ listed' \cap listed = {}
      BY <1>1, <2>3, CloseEffect
    <3> QED
      BY <3>1
  <2>5. Publisher' = [p \in Producer |-> NoSession]
    BY <2>4 DEF Publisher
  <2>6. sessions' = {}
    BY <1>8 DEF WorkerDied
  <2> QED
    BY <2>2, <2>5, <2>6, StepCrashes
<1> QED
  BY <1>5, <1>6, <1>7, <1>8

LEMMA HandlerServes ==
  ASSUME AdapterInv, NEW c \in Call
  PROVE  /\ RouterMade(c) => ServiceStep
         /\ SessionCreated(c) => ServiceStep
         /\ AwaitServer(c) => ServiceStep
         /\ ConsumeChecked(c) => ServiceStep
         /\ Consumed(c) => ServiceStep
         /\ TransportMade(c) => ServiceStep
<1>1. /\ TypeOK /\ OwnersMade
      /\ calls[c].op = "produce" <=> calls[c].at = "produce"
      /\ calls[c] \in CallRec
      /\ calls \in [Call -> CallRec]
  BY DEF AdapterInv, CallsHold, TypeOK
<1>2. Idle.op = "none"
  BY DEF Idle
<1>3. ASSUME Accepted' = Accepted, UNCHANGED <<sessions, transports, producers, listed>>
      PROVE  ServiceStep
  BY <1>3, PublisherKept DEF ServiceStep, Stutters
<1>4. \A r \in Router : [calls[c] EXCEPT !.at = "routed", !.r = r].op = calls[c].op
  BY <1>1 DEF CallRec
<1>5. ASSUME Settle(c), calls[c].at # "produce" PROVE Accepted' = Accepted
  BY <1>1, <1>2, <1>5, OthersKept DEF Settle
<1>6. ASSUME NEW call, calls[c].at # "produce", call.op = calls[c].op,
             calls' = [calls EXCEPT ![c] = call]
      PROVE  Accepted' = Accepted
  BY <1>1, <1>6, OthersKept
<1>7. ASSUME RouterMade(c) PROVE ServiceStep
  <2>1. lastRouter' \in Router
    BY <1>1, <1>7, Bounds DEF RouterMade
  <2>2. calls' = [calls EXCEPT ![c] = [calls[c] EXCEPT !.at = "routed", !.r = lastRouter']]
    BY <1>1, <1>7 DEF RouterMade
  <2>3. Accepted' = Accepted
    BY <1>4, <1>6, <1>7, <2>1, <2>2 DEF RouterMade
  <2> QED
    BY <1>3, <1>7, <2>3 DEF RouterMade, world
<1>8. ASSUME SessionCreated(c) PROVE ServiceStep
  BY <1>3, <1>5, <1>8 DEF SessionCreated, world
<1>9. ASSUME AwaitServer(c) PROVE ServiceStep
  <2>1. \/ Settle(c)
        \/ \E at \in {"server", "transport"} : calls' = [calls EXCEPT ![c] = [calls[c] EXCEPT !.at = at]]
    BY <1>1, <1>9 DEF AwaitServer, Settle
  <2>2. calls[c].at # "produce"
    BY <1>9 DEF AwaitServer
  <2>3. ASSUME NEW at \in {"server", "transport"},
               calls' = [calls EXCEPT ![c] = [calls[c] EXCEPT !.at = at]]
        PROVE  Accepted' = Accepted
    <3>1. [calls[c] EXCEPT !.at = at].op = calls[c].op
      BY <1>1 DEF CallRec
    <3> QED
      BY <1>6, <2>2, <2>3, <3>1
  <2>4. Accepted' = Accepted
    BY <1>5, <2>1, <2>2, <2>3
  <2> QED
    BY <1>3, <1>9, <2>4 DEF AwaitServer, world
<1>10. ASSUME ConsumeChecked(c) PROVE ServiceStep
  BY <1>1, <1>10, <1>5, <1>6, <1>3 DEF ConsumeChecked, CallRec, world
<1>11. ASSUME Consumed(c) PROVE ServiceStep
  BY <1>3, <1>5, <1>11 DEF Consumed
<1>12. ASSUME TransportMade(c) PROVE ServiceStep
  <2>1. PICK t \in Transport :
          /\ transports[t].state = "none"
          /\ transports' = [transports EXCEPT ![t] = [s |-> calls[c].s, r |-> calls[c].r, state |-> "open"]]
    BY <1>12 DEF TransportMade
  <2>2. UNCHANGED <<sessions, producers, listed>> /\ Accepted' = Accepted
    BY <1>5, <1>12 DEF TransportMade
  <2>3. \A p \in listed : transports'[producers[p].t] = transports[producers[p].t]
    BY <1>1, <2>1 DEF OwnersMade, TypeOK
  <2>4. Publisher' = Publisher
    BY <1>1, <2>2, <2>3 DEF Publisher, OwnerOf
  <2> QED
    BY <2>2, <2>4 DEF ServiceStep, Stutters
<1> QED
  BY <1>7, <1>8, <1>9, <1>10, <1>11, <1>12

LEMMA PublicationServes ==
  ASSUME AdapterInv, NEW c \in Call
  PROVE  /\ Produced(c) => ServiceStep
         /\ Rejected(c) => ServiceStep
<1>1. /\ TypeOK /\ OwnersMade /\ ListedIsOpen /\ FreshIsBare
      /\ calls[c].op = "produce" <=> calls[c].at = "produce"
      /\ calls[c] \in CallRec
      /\ calls[c].op # "none" => calls[c].s \in Session
      /\ calls[c].op = "produce" => calls[c].t \in Transport /\ transports[calls[c].t].s = calls[c].s
  BY DEF AdapterInv, CallsHold, TypeOK
<1>2. Idle.op = "none"
  BY DEF Idle
\* The answered publication, or another of the same session, is still accepted.
<1>3. ASSUME Settle(c), calls[c].op = "produce"
      PROVE  Accepted' \in {Accepted, Accepted \ {calls[c].s}} /\ calls[c].s \in Accepted
  <2>1. \A d \in Call : calls'[d] = IF d = c THEN Idle ELSE calls[d]
    BY <1>1, <1>3 DEF Settle, TypeOK
  <2>2. \A s : s # calls[c].s => (s \in Accepted' <=> s \in Accepted)
    BY <1>2, <2>1, AcceptedDef
  <2>3. calls[c].s \in Accepted
    BY <1>3, AcceptedDef
  <2>4. CASE calls[c].s \in Accepted'
    BY <2>2, <2>3, <2>4
  <2>5. CASE calls[c].s \notin Accepted'
    BY <2>2, <2>5, <2>3
  <2> QED
    BY <2>4, <2>5
<1>4. ASSUME Produced(c) PROVE ServiceStep
  <2>1. PICK p \in Producer :
          /\ producers[p].state = "none"
          /\ producers' = [producers EXCEPT ![p] = [t |-> calls[c].t, state |-> "open"]]
          /\ listed' = listed \cup {p}
    BY <1>4 DEF Produced
  <2>2. calls[c].op = "produce" /\ Settle(c) /\ UNCHANGED <<sessions, transports>>
    BY <1>1, <1>4 DEF Produced
  <2>3. Publisher[p] = NoSession
    BY <2>1 DEF Publisher, OwnerOf
  <2>4. producers'[p].t = calls[c].t /\ producers'[p].state = "open"
    BY <1>1, <2>1 DEF TypeOK
  <2>5. Publisher'[p] = calls[c].s
    BY <1>1, <2>1, <2>2, <2>4 DEF Publisher, OwnerOf
  <2>6. \A q \in Producer : q # p => Publisher'[q] = Publisher[q]
    BY <1>1, <2>1, <2>2 DEF Publisher, OwnerOf, TypeOK
  <2>7. Publisher' = [Publisher EXCEPT ![p] = calls[c].s]
    <3>1. Publisher' = [q \in Producer |-> Publisher'[q]] /\ Publisher = [q \in Producer |-> Publisher[q]]
      BY DEF Publisher
    <3> HIDE DEF Publisher
    <3> QED
      BY <2>5, <2>6, <3>1
  <2> QED
    BY <1>1, <1>3, <2>2, <2>3, <2>7, StepPublishes
<1>5. ASSUME Rejected(c) PROVE ServiceStep
  <2>1. Settle(c) /\ UNCHANGED <<transports, producers, listed>>
    BY <1>5 DEF Rejected, world
  <2>2. Publisher' = Publisher
    BY <2>1, PublisherKept
  <2>3. CASE calls[c].op = "produce"
    BY <1>5, <2>3, <2>2, <1>1, StepRefuses, <1>3, <2>1 DEF Rejected, ServiceStep, Stutters
  <2>4. CASE calls[c].op # "produce"
    <3>1. Accepted' = Accepted
      BY <1>2, <2>1, <2>4, OthersKept DEF Settle
    <3>2. CASE calls[c].op = "create" /\ calls[c].s \in sessions
      BY <1>1, <1>5, <3>2, AdapterAssumption, <2>2, <3>1, StepEnds DEF Rejected, OwnersMade,
         ListedIsOpen, FreshIsBare, OwnerOf, Publisher
    <3>3. CASE ~(calls[c].op = "create" /\ calls[c].s \in sessions)
      BY <1>5, <3>3, <2>2, <3>1 DEF Rejected, ServiceStep, Stutters
    <3> QED
      BY <3>2, <3>3
  <2> QED
    BY <2>3, <2>4
<1> QED
  BY <1>4, <1>5

LEMMA RequestServes ==
  ASSUME AdapterInv, NEW s \in Session
  PROVE  /\ CreateSession(s) => ServiceStep
         /\ CreateTransport(s) => ServiceStep
         /\ CloseSession(s) => ServiceStep
         /\ \A t \in Transport : Produce(s, t) => ServiceStep
         /\ \A t \in Transport, p \in Producer : Consume(s, t, p) => ServiceStep
<1>1. TypeOK /\ OwnersMade
  BY DEF AdapterInv
<1>2. ASSUME Accepted' = Accepted, UNCHANGED <<sessions, transports, producers, listed>>
      PROVE  ServiceStep
  BY <1>2, PublisherKept DEF ServiceStep, Stutters
<1>3. ASSUME CreateSession(s) PROVE ServiceStep
  BY <1>3, AskKeeps, <1>2, <1>1, PublisherKept, StepOpens DEF CreateSession, world, OwnersMade
<1>4. ASSUME CreateTransport(s) PROVE ServiceStep
  BY <1>4, AskKeeps, <1>2 DEF CreateTransport, world
<1>5. ASSUME NEW t \in Transport, NEW p \in Producer, Consume(s, t, p) PROVE ServiceStep
  BY <1>5, AskKeeps, <1>2 DEF Consume, world
<1>6. ASSUME NEW t \in Transport, Produce(s, t) PROVE ServiceStep
  <2> DEFINE call == [Idle EXCEPT !.op = "produce", !.at = "produce", !.s = s, !.t = t]
  <2>1. call.op = "produce" /\ call.s = s
    BY DEF Idle
  <2> HIDE DEF call
  <2>2. PICK c \in Call : calls[c] = Idle /\ calls' = [calls EXCEPT ![c] = call]
    BY <1>6, FreeCallIsIdle DEF Produce, call
  <2>3. \A d \in Call : calls'[d] = IF d = c THEN call ELSE calls[d]
    BY <1>1, <2>2 DEF TypeOK
  <2>4. calls[c].op = "none"
    BY <2>2 DEF Idle
  <2>5. \A x : x \in Accepted' <=> x \in Accepted \/ x = s
    BY <2>1, <2>3, <2>4, AcceptedDef
  <2>6. Accepted' = Accepted \cup {s}
    BY <2>5
  <2>7. s \in sessions /\ UNCHANGED <<sessions, transports, producers, listed>>
    BY <1>6 DEF Produce, Usable, world
  <2> QED
    BY <2>6, <2>7, PublisherKept, StepAccepts
<1>7. ASSUME CloseSession(s) PROVE ServiceStep
  <2> DEFINE ts == {t \in Transport : transports[t].s = s /\ transports[t].state = "open"}
             ps == {p \in listed : OwnerOf(p) = s}
  <2>1. ts \in SUBSET Transport /\ ps \in SUBSET Producer /\ Close(ts, ps)
    BY <1>1, <1>7 DEF CloseSession, TypeOK
  <2>2. \A p \in listed : p \in ps \/ producers[p].t \in ts <=> OwnerOf(p) = s
    BY <1>1 DEF OwnersMade, OwnerOf, AdapterInv, ListedIsOpen
  <2> HIDE DEF ts, ps
  <2>3. Publisher' = [p \in Producer |-> IF p \in listed /\ (p \in ps \/ producers[p].t \in ts)
                                         THEN NoSession ELSE Publisher[p]]
    BY <2>1, PublisherClosed
  <2>4. s # NoSession
    BY AdapterAssumption
  <2>5. \A p \in Producer : Publisher[p] = s <=> p \in listed /\ OwnerOf(p) = s
    BY <2>4 DEF Publisher
  <2>6. Publisher' = [p \in Producer |-> IF Publisher[p] = s THEN NoSession ELSE Publisher[p]]
    BY <2>2, <2>3, <2>5
  <2>7. s \in sessions /\ sessions' = sessions \ {s} /\ calls' = calls
    BY <1>7 DEF CloseSession, Prepared
  <2>8. Accepted' = Accepted
    BY <2>7, AcceptedKept
  <2> QED
    BY <2>6, <2>7, <2>8, StepEnds
<1> QED
  BY <1>3, <1>4, <1>5, <1>6, <1>7

LEMMA ClosingServes ==
  ASSUME AdapterInv
  PROVE  /\ CloseOne => ServiceStep
         /\ \A k \in Consumer : Resume(k) => ServiceStep
<1>1. TypeOK /\ OwnersMade /\ ListedIsOpen
  BY DEF AdapterInv
<1>2. ASSUME UNCHANGED <<sessions, calls, transports, producers, listed>> PROVE ServiceStep
  BY <1>2, AcceptedKept, PublisherKept DEF ServiceStep, Stutters
<1>3. ASSUME NEW k \in Consumer, Resume(k) PROVE ServiceStep
  BY <1>2, <1>3 DEF Resume
\* What is withdrawn belongs to one session.
<1>4. ASSUME NEW s \in Session, NEW ts \in SUBSET Transport, NEW ps \in SUBSET Producer, Close(ts, ps),
             UNCHANGED <<sessions, calls>>,
             \A p \in listed : p \in ps \/ producers[p].t \in ts => OwnerOf(p) = s
      PROVE  ServiceStep
  <2> DEFINE gone == {p \in Producer : p \in listed /\ (p \in ps \/ producers[p].t \in ts)}
  <2>1. Publisher' = [p \in Producer |-> IF p \in gone THEN NoSession ELSE Publisher[p]]
    BY <1>4, PublisherClosed
  <2>2. gone \in SUBSET Producer /\ \A p \in gone : Publisher[p] = s
    BY <1>4 DEF Publisher
  <2> HIDE DEF gone
  <2>3. Accepted' = Accepted
    BY <1>4, AcceptedKept
  <2> QED
    BY <1>4, <2>1, <2>2, <2>3, StepWithdraws
<1>5. ASSUME CloseOne PROVE ServiceStep
  <2>1. UNCHANGED <<sessions, calls>> /\ sessions \subseteq Session
    BY <1>1, <1>5 DEF CloseOne, TypeOK
  <2>2. CASE UNCHANGED <<transports, producers, listed>>
    BY <1>2, <2>1, <2>2
  <2>3. CASE \E p \in listed : OwnerOf(p) \in sessions /\ Close({}, {p})
    <3>1. PICK p \in listed : OwnerOf(p) \in sessions /\ Close({}, {p})
      BY <2>3
    <3>2. {} \in SUBSET Transport /\ {p} \in SUBSET Producer
      BY <1>1 DEF TypeOK
    <3>3. \A q \in listed : q \in {p} \/ producers[q].t \in {} => OwnerOf(q) = OwnerOf(p)
      OBVIOUS
    <3> QED
      BY <1>4, <2>1, <3>1, <3>2, <3>3
  <2>4. CASE \E t \in Transport : Usable(transports[t].s, t) /\ Close({t}, {})
    <3>1. PICK t \in Transport : Usable(transports[t].s, t) /\ Close({t}, {})
      BY <2>4
    <3>2. {t} \in SUBSET Transport /\ {} \in SUBSET Producer
      OBVIOUS
    <3>3. \A q \in listed : q \in {} \/ producers[q].t \in {t} => OwnerOf(q) = transports[t].s
      BY <1>1 DEF OwnersMade, ListedIsOpen, OwnerOf
    <3>4. transports[t].s \in Session
      BY <2>1, <3>1 DEF Usable
    <3> QED
      BY <1>4, <2>1, <3>1, <3>2, <3>3, <3>4
  <2> QED
    BY <1>5, <2>2, <2>3, <2>4 DEF CloseOne
<1> QED
  BY <1>3, <1>5

LEMMA ServiceRefines == AdapterInv /\ [Next]_vars => [Service!ServiceNext]_(Service!serviceVars)
<1> SUFFICES ASSUME AdapterInv, [Next]_vars PROVE ServiceStep
  BY DEF ServiceStep, Stutters, Service!serviceVars, Accepted, Publisher
<1>1. CASE UNCHANGED vars
  BY <1>1, AcceptedKept, PublisherKept DEF vars, world, ServiceStep, Stutters
<1>2. CASE Next
  BY <1>2, WorkerServes, HandlerServes, PublicationServes, RequestServes, ClosingServes DEF Next
<1> QED
  BY <1>1, <1>2

\* The adapter, with its handlers interleaving at every await, implements the
\* service the gateway relies on: a session's end withdraws in one step all that was
\* listed for it, and a producer is only listed for a session whose publication was
\* accepted while it was open (apps/media, adapters and routes).
THEOREM AdapterImplementsService == Spec => ImplementsService
<1>1. Init => Service!ServiceInit
  BY AcceptedDef DEF Init, Idle, Service!ServiceInit, Accepted
<1> QED
  BY <1>1, ServiceRefines, AdapterInvariant, PTL DEF Spec, ImplementsService, Service!ServiceSpec
=============================================================================
