-------------------------------- MODULE SfuClient --------------------------------
(***************************************************************************)
(* One voice session of the web client over the SFU: SfuClientSession of   *)
(* packages/sdk/src/webrtc/sfu-client.ts, the way voice-store.ts drives it,*)
(* and the SFU commands of event-router.ts that serve it.                  *)
(*                                                                         *)
(* Everything is asynchronous and nothing is queued: the set-up consumes   *)
(* the producers of the join answer one after the other, and each producer *)
(* announced meanwhile is consumed on its own.  Both may run at once, and  *)
(* both go on after close.  Streams and music drive the same class.        *)
(***************************************************************************)
EXTENDS Naturals, FiniteSets

CONSTANTS
  Producer,       \* the other members' producers
  MaxTransports,  \* bound: receive transports of the session
  MaxFaults       \* bound: commands that fail

VARIABLES session, calls, room, faults

RecvTransport == 1 .. MaxTransports

\* The calls of consumeProducer: the set-up's, one at a time, and those of announced producers.
Task == Producer \X {"list", "event"}
SetUp == <<"microphone", "set-up">>

SessionRec == [setup: {"load", "transport", "produce", "list", "done", "failed"},
               todo: SUBSET Producer,              \* the list's, not yet asked for
               device: BOOLEAN, closed: BOOLEAN,
               send: {"none", "open", "closed"},   \* sendTransport, with the microphone's producer
               recv: {0} \cup RecvTransport,           \* recvTransport
               open: SUBSET RecvTransport,
               consumers: SUBSET Task,             \* consumers, by the call that made them
               consumed: SUBSET Producer,          \* consumedProducerIds
               audio: SUBSET Producer,             \* remoteAudioElements of voice-store
               early: SUBSET Producer,     \* announced before the device was loaded
               missed: SUBSET Producer,    \* a command of theirs failed
               raced: SUBSET Producer,     \* withdrawn while they were being consumed
               doubled: SUBSET Producer,   \* consumed by the list and on their own at once
               late: SUBSET Producer,      \* heard for the first time after close
               orphans: SUBSET ({0} \cup RecvTransport)]  \* replaced by another, or made after close (0: send)

CallRec == [at: {"none", "transport", "produce", "consume", "resume"}, on: {0} \cup RecvTransport,
            reply: {"none", "ok", "error"}]

RoomRec == [live: SUBSET Producer, gone: SUBSET Producer,
            added: SUBSET Producer, removed: SUBSET Producer,   \* events on their way
            member: BOOLEAN]               \* the user is in the room with this session

TypeOK ==
  /\ session \in SessionRec /\ calls \in [Task \cup {SetUp} -> CallRec] /\ room \in RoomRec
  /\ faults \in 0 .. MaxFaults

NoCall == [at |-> "none", on |-> 0, reply |-> "none"]
Calling(at, on) == [at |-> at, on |-> on, reply |-> "none"]

\* setupSfuVoiceSession with the producers that the join was answered; the event of one of
\* them may be on its way too, and some may have gone.
Init ==
  /\ \E here \in SUBSET Producer : \E live \in SUBSET here : \E told \in SUBSET live :
       /\ session = [setup |-> "load", todo |-> here, device |-> FALSE, closed |-> FALSE,
                     send |-> "none", recv |-> 0, open |-> {}, consumers |-> {}, consumed |-> {},
                     audio |-> {}, early |-> {}, missed |-> {}, raced |-> {}, doubled |-> {},
                     late |-> {}, orphans |-> {}]
       /\ room = [live |-> live, gone |-> here \ live, added |-> told, removed |-> {}, member |-> TRUE]
  /\ calls = [c \in Task \cup {SetUp} |-> NoCall] /\ faults = 0

Fault == faults < MaxFaults /\ faults' = faults + 1

-----------------------------------------------------------------------------
(* The gateway and the media service.                                      *)

Answer(c, reply) == calls' = [calls EXCEPT ![c].reply = reply]
Asked(c, at) == calls[c].at = at /\ calls[c].reply = "none"

\* validateSfuAccess first; then the media service may fail.
Served(c, possible) ==
  /\ \/ room.member /\ possible /\ Answer(c, "ok") /\ UNCHANGED faults
     \/ ~(room.member /\ possible) /\ Answer(c, "error") /\ UNCHANGED faults
     \/ room.member /\ possible /\ Answer(c, "error") /\ Fault
  /\ UNCHANGED <<session, room>>

CreateTransportServed(c) == Asked(c, "transport") /\ Served(c, TRUE)
ProduceServed == Asked(SetUp, "produce") /\ Served(SetUp, TRUE)
ConsumeServed(c) == Asked(c, "consume") /\ Served(c, c[1] \in room.live)
ResumeServed(c) == Asked(c, "resume") /\ Served(c, TRUE)

Announce(p) ==
  /\ p \notin room.live \cup room.gone
  /\ room' = [room EXCEPT !.live = @ \cup {p}, !.added = @ \cup {p}]
  /\ UNCHANGED <<session, calls, faults>>

Withdraw(p) ==
  /\ p \in room.live
  /\ room' = [room EXCEPT !.live = @ \ {p}, !.gone = @ \cup {p}, !.removed = @ \cup {p}]
  /\ UNCHANGED <<session, calls, faults>>

\* voice.leave is served.
Left ==
  /\ session.closed /\ room.member
  /\ room' = [room EXCEPT !.member = FALSE]
  /\ UNCHANGED <<session, calls, faults>>

-----------------------------------------------------------------------------
(* consumeProducer.                                                        *)

\* It returns at once for a producer that is consumed already, and throws without a device.
Begin(c) ==
  IF c[1] \in session.consumed \/ ~session.device THEN UNCHANGED calls
  ELSE calls' = [calls EXCEPT ![c] = IF session.recv # 0 THEN Calling("consume", session.recv)
                                     ELSE Calling("transport", 0)]

Doubles(c) == \E k \in {"list", "event"} : <<c[1], k>> # c /\ calls[<<c[1], k>>].at \notin {"none", "resume"}

Over(c) == [calls EXCEPT ![c] = NoCall]

\* ensureRecvTransport after its wait: the transport that another call has made is replaced.
RecvTransportCreated(c) ==
  /\ c # SetUp /\ calls[c].at = "transport" /\ calls[c].reply = "ok"
  /\ session.open # RecvTransport
  /\ LET t == CHOOSE t \in RecvTransport : t \notin session.open
     IN /\ session' = [session EXCEPT !.recv = t, !.open = @ \cup {t},
                         !.orphans = @ \cup ({session.recv} \ {0}) \cup (IF session.closed THEN {t} ELSE {})]
        /\ calls' = [calls EXCEPT ![c] = Calling("consume", t)]
  /\ UNCHANGED <<room, faults>>

\* A transport that is closed consumes nothing.
Consumed(c) ==
  /\ calls[c].at = "consume" /\ calls[c].reply = "ok"
  /\ IF calls[c].on \notin session.open
     THEN session' = [session EXCEPT !.missed = @ \cup {c[1]}] /\ calls' = Over(c)
     ELSE /\ session' = [session EXCEPT !.consumers = @ \cup {c}, !.consumed = @ \cup {c[1]},
                                        !.late = IF session.closed THEN @ \cup {c[1]} ELSE @]
          /\ calls' = [calls EXCEPT ![c] = Calling("resume", calls[c].on)]
  /\ UNCHANGED <<room, faults>>

\* attachRemoteAudioTrack, whatever has happened since.
Resumed(c) ==
  /\ calls[c].at = "resume" /\ calls[c].reply = "ok"
  /\ session' = [session EXCEPT !.audio = @ \cup {c[1]},
                                !.late = IF session.closed THEN @ \cup {c[1]} ELSE @]
  /\ calls' = Over(c)
  /\ UNCHANGED <<room, faults>>

\* A mutant of ConsumeFailed: the consumer that could not be resumed stays.
ConsumeFailedBarely(c) ==
  /\ c # SetUp /\ calls[c].reply = "error"
  /\ session' = [session EXCEPT !.missed = @ \cup {c[1]}]
  /\ calls' = Over(c)
  /\ UNCHANGED <<room, faults>>

ConsumeFailed(c) ==
  /\ c # SetUp /\ calls[c].reply = "error"
  /\ session' = [session EXCEPT !.missed = @ \cup {c[1]}, !.consumers = @ \ {c},
                                !.consumed = IF calls[c].at = "resume" THEN @ \ {c[1]} ELSE @]
  /\ calls' = Over(c)
  /\ UNCHANGED <<room, faults>>

-----------------------------------------------------------------------------
(* The set-up.                                                             *)

Setup(pc) == session.setup = pc

Loaded ==
  /\ Setup("load")
  /\ session' = [session EXCEPT !.device = TRUE, !.setup = "transport"]
  /\ calls' = [calls EXCEPT ![SetUp] = Calling("transport", 0)]
  /\ UNCHANGED <<room, faults>>

\* ensureSendTransport after its wait, and transport.produce.
SendTransportCreated ==
  /\ Setup("transport") /\ calls[SetUp].reply = "ok"
  /\ session' = [session EXCEPT !.send = "open", !.setup = "produce",
                                !.orphans = IF session.closed THEN @ \cup {0} ELSE @]
  /\ calls' = [calls EXCEPT ![SetUp] = Calling("produce", 0)]
  /\ UNCHANGED <<room, faults>>

\* Closed meanwhile, it is stopped.
Produced ==
  /\ Setup("produce") /\ calls[SetUp].reply = "ok"
  /\ session' = [session EXCEPT !.setup = IF session.send = "closed" THEN "failed" ELSE "list"]
  /\ calls' = Over(SetUp)
  /\ UNCHANGED <<room, faults>>

SetupFailed ==
  /\ calls[SetUp].reply = "error"
  /\ session' = [session EXCEPT !.setup = "failed"]
  /\ calls' = Over(SetUp)
  /\ UNCHANGED <<room, faults>>

\* consumeSfuVoiceProducers, in any order of the list.
NextListed(p) ==
  /\ Setup("list") /\ p \in session.todo
  /\ \A q \in Producer : calls[<<q, "list">>].at = "none"
  /\ Begin(<<p, "list">>)
  /\ session' = [session EXCEPT !.todo = @ \ {p},
                   !.doubled = IF Doubles(<<p, "list">>) THEN @ \cup {p} ELSE @]
  /\ UNCHANGED <<room, faults>>

ListDone ==
  /\ Setup("list") /\ session.todo = {}
  /\ \A q \in Producer : calls[<<q, "list">>].at = "none"
  /\ session' = [session EXCEPT !.setup = "done"]
  /\ UNCHANGED <<calls, room, faults>>

-----------------------------------------------------------------------------
(* voice-store.                                                            *)

\* After close the session is forgotten, and the producer left for the next one.
ProducerAdded(p) ==
  /\ p \in room.added
  /\ room' = [room EXCEPT !.added = @ \ {p}]
  /\ IF session.closed THEN UNCHANGED <<session, calls>>
     ELSE /\ Begin(<<p, "event">>)
          /\ session' = [session EXCEPT
               !.early = IF session.device \/ p \in session.todo THEN @ ELSE @ \cup {p},
               !.doubled = IF session.device /\ Doubles(<<p, "event">>) THEN @ \cup {p} ELSE @]
  /\ UNCHANGED faults

\* The audio goes; a consumption under way is not told.
ProducerRemoved(p) ==
  /\ p \in room.removed /\ p \notin room.added
  /\ room' = [room EXCEPT !.removed = @ \ {p}]
  /\ session' = [session EXCEPT !.audio = @ \ {p},
       !.raced = IF \E k \in {"list", "event"} : calls[<<p, k>>].at # "none" THEN @ \cup {p} ELSE @]
  /\ UNCHANGED <<calls, faults>>

\* Teardown: close, and every audio element goes.
Close ==
  /\ ~session.closed
  /\ session' = [session EXCEPT !.closed = TRUE, !.consumers = {}, !.consumed = {}, !.audio = {},
                   !.send = IF @ = "open" THEN "closed" ELSE @,
                   !.open = @ \ {session.recv}, !.recv = 0]
  /\ UNCHANGED <<calls, room, faults>>

Next ==
  \/ \E c \in Task \cup {SetUp} : CreateTransportServed(c)
  \/ \E c \in Task : \/ ConsumeServed(c) \/ ResumeServed(c) \/ RecvTransportCreated(c)
                     \/ Consumed(c) \/ Resumed(c) \/ ConsumeFailed(c)
  \/ \E p \in Producer : \/ Announce(p) \/ Withdraw(p) \/ NextListed(p)
                         \/ ProducerAdded(p) \/ ProducerRemoved(p)
  \/ ProduceServed \/ Left \/ Loaded \/ SendTransportCreated \/ Produced \/ SetupFailed
  \/ ListDone \/ Close

-----------------------------------------------------------------------------
Quiet ==
  /\ session.setup \in {"done", "failed"} /\ room.added = {} /\ room.removed = {}
  /\ \A c \in Task : calls[c].at = "none"

\* A session that is set up hears exactly the members who produce, each through one consumer
\* on the one receive transport, but for those named; none that it counts as consumed, and
\* would not consume again, is silent; and after close nothing is open or heard, but for what
\* was under way.
SfuClientSettles ==
  Quiet =>
    IF session.closed
    THEN /\ session.audio \cup {c[1] : c \in session.consumers} \subseteq session.late
         /\ session.open \cup (IF session.send = "open" THEN {0} ELSE {}) \subseteq session.orphans
    ELSE session.setup = "done" =>
         /\ \A p \in Producer \ (session.early \cup session.missed \cup session.raced) :
              p \in session.audio <=> p \in room.live
         /\ \A p \in session.audio : <<p, "list">> \in session.consumers \/ <<p, "event">> \in session.consumers
         /\ \A p \in Producer \ session.doubled : ~({<<p, "list">>, <<p, "event">>} \subseteq session.consumers)
         /\ session.open \ session.orphans = {session.recv} \ {0}
         /\ \A c \in session.consumers : c[1] \in session.consumed \cup session.doubled
         /\ session.consumed \subseteq session.audio \cup room.gone
=============================================================================
