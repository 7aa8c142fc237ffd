-------------------------------- MODULE LiteSfu --------------------------------
(***************************************************************************)
(* One voice session of Baker Lite over the SFU                            *)
(* (media/NativeSfuSession.cpp, and the commands it sends through          *)
(* NativeRtcBackend.cpp).  The Qt thread owns the session and the gateway's*)
(* messages; a worker thread sets the session up; each producer that is    *)
(* announced later is consumed by a thread of its own, which nobody joins. *)
(* A thread that sends a command sleeps until the Qt thread has sent it    *)
(* and handed it the answer, or for twenty seconds.                        *)
(*                                                                         *)
(* Streams and music have one direction and the same steps; volumes,       *)
(* pictures, statistics and the transports' handshake are left out.        *)
(***************************************************************************)
EXTENDS Naturals, Sequences

CONSTANTS
  Producer,      \* the other members' producers
  MaxFaults      \* bound: commands that fail or are not answered in time

VARIABLES sfu, inbox, faults

Caller == Producer \cup {"worker"}

SfuRec == [qt: {"free", "joining", "stopped"},   \* stopSession by the Qt thread
           stopped: BOOLEAN,                     \* stopped_
           worker: {"load", "send", "produce", "recv", "list", "consume", "resume", "done"},
           todo: SUBSET Producer,                \* configuration_.producers not yet consumed
           cur: Caller,                          \* the one being consumed by the worker
           thread: [Producer -> {"none", "consume", "resume"}],
           call: [Caller -> {"none", "asked", "sent", "ok", "error"}],
           send: BOOLEAN, mic: BOOLEAN, recv: BOOLEAN,   \* transports and the microphone's producer
           consumers: SUBSET Producer,           \* consumers_
           live: SUBSET Producer,                \* the gateway's list
           gone: SUBSET Producer,
           state: {"Preparing", "Active", "Failed", "Idle"},  \* the last one posted
           early: SUBSET Producer,      \* not listed, and announced before there was a transport to receive on
           raced: SUBSET Producer,      \* withdrawn while its consumer was being made
           missed: SUBSET Producer,     \* its consumer could not be made
           outlived: BOOLEAN]           \* a consuming thread still ran when the session was freed

\* inbox: the gateway's messages, in their order.
Message == [what: {"added", "removed"}, who: Producer] \cup [what: {"ok", "error"}, who: Caller]

TypeOK ==
  /\ sfu \in SfuRec
  /\ \A i \in DOMAIN inbox : inbox[i] \in Message
  /\ faults \in 0 .. MaxFaults

\* startSfu, with the producers that the answer listed: some may have left since, and what was
\* announced between the list and the answer is announced of one that is in it.
Init ==
  /\ \E here \in SUBSET Producer : \E live \in SUBSET here :
    /\ inbox \in {<<>>} \cup {<<[what |-> "added", who |-> p]>> : p \in live}
    /\ sfu = [qt |-> "free", stopped |-> FALSE, worker |-> "load", todo |-> here, cur |-> "worker",
              thread |-> [p \in Producer |-> "none"], call |-> [c \in Caller |-> "none"],
              send |-> FALSE, mic |-> FALSE, recv |-> FALSE, consumers |-> {}, live |-> live,
              gone |-> here \ live, state |-> "Preparing", early |-> {}, raced |-> {}, missed |-> {},
              outlived |-> FALSE]
  /\ faults = 0

Fault == faults < MaxFaults /\ faults' = faults + 1

Say(what, who) == inbox' = Append(inbox, [what |-> what, who |-> who])

-----------------------------------------------------------------------------
(* The gateway.                                                            *)

Announce(p) ==
  /\ p \notin sfu.live \cup sfu.gone
  /\ sfu' = [sfu EXCEPT !.live = @ \cup {p}]
  /\ Say("added", p) /\ UNCHANGED faults

Withdraw(p) ==
  /\ p \in sfu.live
  /\ sfu' = [sfu EXCEPT !.live = @ \ {p}, !.gone = @ \cup {p}]
  /\ Say("removed", p) /\ UNCHANGED faults

\* What a caller asks for: the worker consumes cur, a thread its own producer.
Subject(c) == IF c = "worker" THEN sfu.cur ELSE c
Consumes(c) == IF c = "worker" THEN sfu.worker = "consume" ELSE sfu.thread[c] = "consume"

\* A producer that is gone cannot be consumed; anything may fail.
Serve(c) ==
  /\ sfu.call[c] = "sent"
  /\ \A i \in DOMAIN inbox : inbox[i].who = c => inbox[i].what \in {"added", "removed"}
  /\ IF Consumes(c) /\ Subject(c) \notin sfu.live THEN Say("error", c) /\ UNCHANGED faults
     ELSE \/ Say("ok", c) /\ UNCHANGED faults
          \/ Say("error", c) /\ Fault
  /\ UNCHANGED sfu

-----------------------------------------------------------------------------
(* The Qt thread: not while it joins the worker.                           *)

Free == sfu.qt # "joining"

\* gatewayCommandRequested is queued to it.
SendCommand(c) ==
  /\ Free /\ sfu.call[c] = "asked"
  /\ sfu' = [sfu EXCEPT !.call[c] = "sent"]
  /\ UNCHANGED <<inbox, faults>>

\* handleGatewayAck, handleGatewayError: whoever still waits is woken.
Answered ==
  /\ Free /\ inbox # <<>> /\ Head(inbox).what \in {"ok", "error"}
  /\ sfu' = [sfu EXCEPT !.call[Head(inbox).who] = IF @ = "sent" THEN Head(inbox).what ELSE @]
  /\ inbox' = Tail(inbox) /\ UNCHANGED faults

\* addProducer: a thread starts; without a transport it ends at once.
ProducerAdded ==
  /\ Free /\ inbox # <<>> /\ Head(inbox).what = "added"
  /\ LET p == Head(inbox).who
     IN sfu' = CASE sfu.stopped \/ p \in sfu.consumers -> sfu
                 [] ~sfu.stopped /\ ~sfu.recv -> [sfu EXCEPT !.early = @ \cup ({p} \ sfu.todo)]
                 [] OTHER -> [sfu EXCEPT !.thread[p] = "consume", !.call[p] = "asked"]
  /\ inbox' = Tail(inbox) /\ UNCHANGED faults

ConsumerUnderWay(p) == sfu.thread[p] = "consume" \/ (sfu.worker = "consume" /\ sfu.cur = p)

\* removeProducer knows only consumers that are there already.
ProducerRemoved ==
  /\ Free /\ inbox # <<>> /\ Head(inbox).what = "removed"
  /\ LET p == Head(inbox).who
     IN sfu' = [sfu EXCEPT !.consumers = @ \ {p},
                           !.raced = IF ConsumerUnderWay(p) THEN @ \cup {p} ELSE @]
  /\ inbox' = Tail(inbox) /\ UNCHANGED faults

\* stop: the flag, then the worker is joined.
Stop ==
  /\ sfu.qt = "free"
  /\ sfu' = [sfu EXCEPT !.qt = "joining", !.stopped = TRUE]
  /\ UNCHANGED <<inbox, faults>>

\* A mutant of Closed: the worker is asked to stop and not waited for.
ClosedWithoutJoin ==
  /\ sfu.qt = "joining"
  /\ sfu' = [sfu EXCEPT !.qt = "stopped", !.consumers = {}, !.mic = FALSE, !.send = FALSE,
                        !.recv = FALSE, !.state = "Idle"]
  /\ UNCHANGED <<inbox, faults>>

\* The worker is gone: everything is closed, and the session freed under the other threads.
Closed ==
  /\ sfu.qt = "joining" /\ sfu.worker = "done"
  /\ sfu' = [sfu EXCEPT !.qt = "stopped", !.consumers = {}, !.mic = FALSE, !.send = FALSE,
                        !.recv = FALSE, !.state = "Idle",
                        !.outlived = \E p \in Producer : sfu.thread[p] # "none",
                        !.thread = [p \in Producer |-> "none"],
                        !.call = [c \in Caller |-> "none"]]
  /\ UNCHANGED <<inbox, faults>>

-----------------------------------------------------------------------------
(* The worker: setup.                                                      *)

Asks(s, pc) == [s EXCEPT !.worker = pc, !.call["worker"] = "asked"]
Ends(s, state) == [s EXCEPT !.worker = "done", !.call["worker"] = "none", !.state = state]

\* The loop over the listed producers: a stop ends it, as if the session were complete.
More(s) ==
  LET idle == [s EXCEPT !.worker = "list", !.call["worker"] = "none", !.cur = "worker"]
  IN IF s.todo \ s.consumers = {} \/ s.stopped THEN Ends(idle, "Active") ELSE idle

Load ==
  /\ sfu.worker = "load"
  /\ sfu' = IF sfu.stopped THEN Ends(sfu, "Preparing") ELSE Asks(sfu, "send")
  /\ UNCHANGED <<inbox, faults>>

\* The answers the worker gets; no stop is looked for between them.
Got(pc) == sfu.worker = pc /\ sfu.call["worker"] = "ok" /\ UNCHANGED <<inbox, faults>>

SendTransportCreated == Got("send") /\ sfu' = Asks([sfu EXCEPT !.send = TRUE], "produce")
Produced == Got("produce") /\ sfu' = Asks([sfu EXCEPT !.mic = TRUE], "recv")
RecvTransportCreated == Got("recv") /\ sfu' = More([sfu EXCEPT !.recv = TRUE])
ListedConsumed ==
  Got("consume") /\ sfu' = Asks([sfu EXCEPT !.consumers = @ \cup {sfu.cur}], "resume")
ListedResumed == Got("resume") /\ sfu' = More([sfu EXCEPT !.todo = @ \ {sfu.cur}])

\* consume of a listed producer: nothing without the flag down, or when it is there already.
NextListed(p) ==
  /\ sfu.worker = "list" /\ p \in sfu.todo
  /\ sfu' = IF sfu.stopped \/ p \in sfu.consumers THEN More([sfu EXCEPT !.todo = @ \ {p}])
            ELSE Asks([sfu EXCEPT !.cur = p], "consume")
  /\ UNCHANGED <<inbox, faults>>

\* The answer to a caller that no longer waits is dropped.
Forget(c) == SelectSeq(inbox, LAMBDA m : m.who # c \/ m.what \in {"added", "removed"})

\* Twenty seconds are over: they always are for a caller the Qt thread is waiting for.
Elapsed(c) ==
  /\ sfu.call[c] \in {"asked", "sent"}
  /\ IF Free THEN Fault ELSE UNCHANGED faults
  /\ inbox' = Forget(c)

\* One command that fails fails the whole session, a listed producer that left included.
SetUpFailed ==
  /\ \/ sfu.call["worker"] = "error" /\ UNCHANGED <<inbox, faults>>
     \/ Elapsed("worker")
  /\ sfu' = Ends(sfu, "Failed")

-----------------------------------------------------------------------------
(* The threads of addProducer.                                             *)

Consumed(p) ==
  /\ sfu.call[p] = "ok"
  /\ sfu' = IF sfu.thread[p] = "consume"
            THEN [sfu EXCEPT !.consumers = @ \cup {p}, !.thread[p] = "resume", !.call[p] = "asked"]
            ELSE [sfu EXCEPT !.thread[p] = "none", !.call[p] = "none"]
  /\ UNCHANGED <<inbox, faults>>

ConsumeFailed(p) ==
  /\ \/ sfu.call[p] = "error" /\ UNCHANGED <<inbox, faults>>
     \/ Elapsed(p)
  /\ sfu' = [sfu EXCEPT !.thread[p] = "none", !.call[p] = "none",
                        !.missed = IF p \in sfu.consumers THEN @ ELSE @ \cup {p}]

Next ==
  \/ \E p \in Producer : \/ Announce(p) \/ Withdraw(p) \/ NextListed(p)
                         \/ Consumed(p) \/ ConsumeFailed(p)
  \/ \E c \in Caller : Serve(c) \/ SendCommand(c)
  \/ Answered \/ ProducerAdded \/ ProducerRemoved \/ Stop \/ Closed
  \/ Load \/ SendTransportCreated \/ Produced \/ RecvTransportCreated
  \/ ListedConsumed \/ ListedResumed \/ SetUpFailed

-----------------------------------------------------------------------------
\* Nothing is under way: no thread runs and no message waits.
Quiet ==
  /\ sfu.worker = "done" /\ inbox = <<>>
  /\ \A p \in Producer : sfu.thread[p] = "none"

\* A session that is set up hears exactly the members that produce, but for those announced
\* too early, withdrawn too late or refused; one that failed or stopped says so last; one that
\* stopped holds nothing; and stopping always ends: whoever the Qt thread joins can go on.
SfuSettles ==
  /\ Quiet /\ sfu.qt = "free" /\ sfu.state = "Active" =>
       /\ sfu.recv /\ sfu.mic
       /\ \A p \in Producer \ (sfu.early \cup sfu.raced \cup sfu.missed) :
            p \in sfu.consumers <=> p \in sfu.live
  /\ sfu.qt = "stopped" =>
       sfu.consumers = {} /\ ~sfu.mic /\ ~sfu.send /\ ~sfu.recv /\ sfu.state = "Idle"
  /\ sfu.qt = "joining" => sfu.worker \in {"load", "list", "done"} \/ sfu.call["worker"] # "none"
=============================================================================
