---------------------------- MODULE StreamWatch ----------------------------
(***************************************************************************)
(* The live streams a client watches: the watched half of features/stream/ *)
(* stream-store.ts, with the retries of features/recovery/recovery-store.ts*)
(* and what the gateway answers to stream.watch, stream.unwatch and        *)
(* media.session.reconnect.  The store runs on one thread; a Flow is one   *)
(* of its asynchronous functions between two awaits.                       *)
(*                                                                         *)
(* The streams are those of one host, one after the other or at once.  The *)
(* gateway handles the commands of a connection side by side, and tells of *)
(* a viewer that came or went before it answers.  A lost connection        *)
(* rejects the commands that await their ack and removes the viewer.       *)
(* Signals, candidates, volumes, statistics, the timers that find a        *)
(* connection failed, what the client publishes itself (StreamShare) and   *)
(* the fallback for gateways without media.session.reconnect are left out. *)
(***************************************************************************)
EXTENDS FiniteSets, Naturals

CONSTANTS
  Stream,
  NoStream,
  Flow,       \* asynchronous functions under way at once
  MaxFaults,  \* bound: drops, refusals, timeouts and failed setups
  MaxClicks   \* bound: streams the user opens

VARIABLES
  watch,   \* the store, its module's maps and the gateway's side: WatchRec
  faults, clicks

watchVars == <<watch, faults, clicks>>

Entry == {"none", "starting", "reconnecting", "watching", "ended"}
\* watchedRuntimes: no runtime, one without transport, one that is sent media.
Runtime == {"none", "idle", "served"}

Commands == {"watch", "admitted", "cancel", "unwatch", "reconnect"}
Setups == {"consume", "rebuild"}

FlowRec == [at: {"none"} \cup Commands \cup Setups,
            s: Stream \cup {NoStream},
            sfu: BOOLEAN,     \* the media mode of its ack
            again: BOOLEAN,   \* the gateway had this viewer already
            own: BOOLEAN,     \* nobody changed the entry or the runtime since it did
            rec: Stream \cup {NoStream},   \* the recovery it reports to
            todo: SUBSET Stream,           \* what handleMediaModeUpdated restores next
            restores: BOOLEAN]             \* a failure begins a recovery

RecoveryRec == [attempt: {"none", "media", "gateway"}, phase: {"none", "running", "timer"}]

WatchRec == [entry: [Stream -> Entry],          \* watchedStreamsById
             run: [Stream -> Runtime],
             cancelled: SUBSET Stream,          \* cancelledWatchRequests
             room: [Stream -> {"none", "on", "mine"}],  \* roomStateByChannel
             flows: [Flow -> FlowRec],
             recovery: [Stream -> RecoveryRec],
             link: BOOLEAN,                     \* the gateway connection is ready
             sfu: BOOLEAN,                      \* the gateway's media mode
             airs: SUBSET Stream,               \* publications of the gateway
             over: SUBSET Stream,               \* those that were, whose ids never return
             viewing: SUBSET Stream,            \* where this connection is a viewer
             wanted: SUBSET Stream,             \* the user opened it, and has not closed it
             lapsed: BOOLEAN]                   \* see Lapse

NoFlow == [at |-> "none", s |-> NoStream, sfu |-> FALSE, again |-> FALSE, own |-> FALSE,
           rec |-> NoStream, todo |-> {}, restores |-> FALSE]
NoRecovery == [attempt |-> "none", phase |-> "none"]

TypeOK ==
  /\ watch \in WatchRec
  /\ faults \in 0..MaxFaults
  /\ clicks \in 0..MaxClicks

Init ==
  /\ \E airs \in SUBSET Stream, sfu \in BOOLEAN :
       watch = [entry |-> [s \in Stream |-> "none"], run |-> [s \in Stream |-> "none"],
                cancelled |-> {}, room |-> [s \in Stream |-> IF s \in airs THEN "on" ELSE "none"],
                flows |-> [f \in Flow |-> NoFlow],
                recovery |-> [s \in Stream |-> NoRecovery],
                link |-> TRUE, sfu |-> sfu, airs |-> airs, over |-> {}, viewing |-> {}, wanted |-> {},
                lapsed |-> FALSE]
  /\ faults = 0
  /\ clicks = 0

-----------------------------------------------------------------------------
(* The functions the handlers share, on a WatchRec.                        *)

Put(v, f, flow) == [v EXCEPT !.flows[f] = flow]
Free(v, f) == Put(v, f, NoFlow)

\* Whoever changes an entry or a runtime takes it from the flows under way.
Touch(v, s) ==
  [v EXCEPT !.flows = [f \in Flow |-> IF v.flows[f].s = s
                                      THEN [v.flows[f] EXCEPT !.own = FALSE] ELSE v.flows[f]]]

\* What no function of the store guards against: see the README.
Lapse(v) == [v EXCEPT !.lapsed = TRUE]
Cross(v, f) == IF v.flows[f].own THEN v ELSE Lapse(v)

\* The retry of a stream that watches its replacement.
Replaces(flow) == flow.rec \notin {NoStream, flow.s}
Replaced(v) == \E f \in Flow : v.flows[f].own /\ Replaces(v.flows[f])

\* A restore does not look whether its next streams are still wanted, nor the retry of a
\* stream that watches its replacement whether the stream is.
Pursued(v, s) ==
  \E f \in Flow : s \in v.flows[f].todo \/ (v.flows[f].rec = s /\ v.flows[f].s # s)

SetEntry(v, s, status) == [Touch(v, s) EXCEPT !.entry[s] = status]
\* updateWatchedStreamState
UpdateEntry(v, s, status) == IF v.entry[s] = "none" THEN v ELSE SetEntry(v, s, status)
Teardown(v, s) == [Touch(v, s) EXCEPT !.run[s] = "none"]
Drop1(v, s) == SetEntry(Teardown(v, s), s, "none")

ResolveRecovery(v, s) ==
  [v EXCEPT !.recovery[s] = NoRecovery,
            !.flows = [f \in Flow |-> IF v.flows[f].rec = s
                                      THEN [v.flows[f] EXCEPT !.rec = NoStream] ELSE v.flows[f]]]

\* Mutant of SendUnwatch: the gateway is not told.
SendNothing(v, s) == v

\* stream.unwatch takes effect when the gateway receives it.
SendUnwatch(v, s) == [v EXCEPT !.viewing = IF v.link THEN @ \ {s} ELSE @]

AttemptEnds(v, s, ok) ==
  IF s = NoStream THEN v
  ELSE IF ok THEN [v EXCEPT !.recovery[s] = NoRecovery]
  ELSE [v EXCEPT !.recovery[s].phase = "timer"]

\* reconcileWatchedPublications, for the runtimes there are.
Reconcile(v) ==
  LET news == [s \in Stream |-> CASE s \notin v.airs -> "none"
                                  [] s \in v.airs \ v.viewing -> "on"
                                  [] s \in v.airs \cap v.viewing -> "mine"]
      over(s) == /\ v.run[s] # "none" /\ v.entry[s] # "starting" /\ news[s] # "mine"
      status(s) == CASE over(s) /\ v.entry[s] = "none" -> "none"
                     [] over(s) /\ v.entry[s] # "none" -> IF news[s] = "none" THEN "ended" ELSE "none"
                     [] ~over(s) -> IF v.run[s] # "none" /\ v.entry[s] # "none" /\ news[s] = "mine"
                                    THEN "watching" ELSE v.entry[s]
  IN [v EXCEPT !.room = news,
               !.run = [s \in Stream |-> IF over(s) THEN "none" ELSE v.run[s]],
               !.entry = [s \in Stream |-> status(s)],
               !.flows = [f \in Flow |-> IF v.flows[f].s # NoStream /\ over(v.flows[f].s)
                                         THEN [v.flows[f] EXCEPT !.own = FALSE] ELSE v.flows[f]]]

\* watchStream up to its command, in the slot f; nothing when it is watched.
BeginWatch(v, f, flow) ==
  LET s == flow.s
  IN IF v.run[s] # "none" \/ v.entry[s] # "none" THEN v
     ELSE Put([SetEntry(v, s, "starting") EXCEPT !.cancelled = @ \ {s}], f,
              [flow EXCEPT !.at = "watch", !.own = TRUE])

\* The streams of todo one after the other, in any order, in the slot f: what may have
\* become of v when the first of them without a runtime is watched, or all were passed over
\* (handleMediaModeUpdated).
PassOver(v, held) ==
  IF held = {} THEN v
  ELSE [Lapse(v) EXCEPT !.entry = [s \in Stream |-> IF s \in held THEN "none" ELSE @[s]],
                        !.flows = [f \in Flow |-> IF v.flows[f].s \in held
                                                  THEN [v.flows[f] EXCEPT !.own = FALSE] ELSE v.flows[f]]]
Restore(v, f, todo, passed, s) ==
  BeginWatch(SetEntry(PassOver(v, passed), s, "none"), f,
             [NoFlow EXCEPT !.s = s, !.todo = todo \ (passed \cup {s}), !.restores = TRUE])
RestoreNext(v, f, todo) ==
  LET held == {s \in todo : v.run[s] # "none"}
  IN IF held = todo THEN {Free(PassOver(v, todo), f)}
     ELSE {Restore(v, f, todo, passed, s) : passed \in SUBSET held, s \in todo \ held}

BeginRestore(v, f) ==
  LET todo == {s \in Stream : v.entry[s] \notin {"none", "ended"}}
      suspended == [v EXCEPT !.lapsed = @ \/ Replaced(v),
                             !.run = [s \in Stream |-> "none"],
                             !.entry = [s \in Stream |-> IF s \in todo THEN "reconnecting" ELSE @[s]],
                             !.flows = [f2 \in Flow |-> [v.flows[f2] EXCEPT !.own = FALSE]]]
  IN RestoreNext(suspended, f, todo)

\* runRecovery, in the slot f.  A stream of which the runtime is gone is given
\* up; a stream of the gateway's recovery is watched anew, under the id its host
\* streams with now.
RunRecovery(v, s, f) ==
  LET running == [v EXCEPT !.recovery[s].phase = "running"]
      target == IF v.room[s] # "none" \/ \A t \in Stream : v.room[t] = "none" THEN s
                ELSE CHOOSE t \in Stream : v.room[t] # "none"
      begun == BeginWatch(Drop1(running, s), f, [NoFlow EXCEPT !.s = target, !.rec = s])
  IN CASE v.recovery[s].attempt = "media" ->
            IF v.run[s] = "none" THEN [Drop1(v, s) EXCEPT !.recovery[s] = NoRecovery]
            ELSE Put(running, f, [NoFlow EXCEPT !.at = "reconnect", !.s = s, !.rec = s, !.own = TRUE])
       [] v.recovery[s].attempt # "media" ->
            IF begun.flows[f].at = "watch" THEN begun ELSE [begun EXCEPT !.recovery[s] = NoRecovery]

StartRecovery(v, s, attempt, f) ==
  IF v.recovery[s].attempt # "none" THEN v
  ELSE RunRecovery([v EXCEPT !.recovery[s].attempt = attempt], s, f)

-----------------------------------------------------------------------------

At(f) == watch.flows[f].at
S(f) == watch.flows[f].s
Broken(f) == ~watch.link /\ (At(f) \in Commands \/ (At(f) \in Setups /\ watch.flows[f].sfu))
Calm == \A f \in Flow : ~Broken(f)

Slot == CHOOSE f \in Flow : At(f) = "none"
HasSlot == Calm /\ \E f \in Flow : At(f) = "none"

Fault == faults < MaxFaults /\ faults' = faults + 1
NoFault == UNCHANGED faults
Fails(f) == IF Broken(f) THEN NoFault ELSE Calm /\ Fault

\* The flow f is done with its stream: what it restores next, if anything.  The
\* popup of a stream that was replaced shows the new one.
Goes(v, f, ok) ==
  LET flow == v.flows[f]
      remapped == [Free(v, f) EXCEPT
                     !.wanted = IF ok /\ flow.rec \in @ THEN (@ \ {flow.rec}) \cup {flow.s} ELSE @,
                     !.lapsed = \/ @
                                \/ /\ ok /\ Replaces(flow)
                                   /\ Pursued(Free(v, f), flow.rec) \/ v.entry[flow.rec] # "none"]
      ended == AttemptEnds(remapped, flow.rec, ok)
  IN RestoreNext(ended, f, flow.todo)

-----------------------------------------------------------------------------
(* watchStream.                                                            *)

Watch(s) ==
  /\ HasSlot
  /\ clicks < MaxClicks
  /\ clicks' = clicks + 1
  /\ watch.link
  /\ watch.room[s] # "none"
  /\ watch' = BeginWatch([watch EXCEPT !.wanted = @ \cup {s}], Slot, [NoFlow EXCEPT !.s = s])
  /\ NoFault

\* The gateway: a viewer it has already is answered without media to set up.
Admit(f) ==
  /\ At(f) = "watch"
  /\ Calm
  /\ S(f) \in watch.airs
  /\ watch' = LET v == [watch EXCEPT !.flows[f].at = "admitted",
                                     !.flows[f].again = S(f) \in watch.viewing,
                                     !.viewing = @ \cup {S(f)}]
              IN IF S(f) \in watch.viewing THEN v ELSE Reconcile(v)
  /\ UNCHANGED <<faults, clicks>>

\* Any error removes the entry, and the popup of a stream the user has opened is
\* closed; the loop that restores begins a recovery, here with the next Retry, and
\* goes on.
WatchFails(v, f) ==
  LET flow == v.flows[f]
      asked == ~flow.restores /\ flow.rec = NoStream
      removed == [SetEntry(Cross(v, f), flow.s, "none") EXCEPT !.cancelled = @ \ {flow.s},
                    !.wanted = IF asked THEN @ \ {flow.s} ELSE @,
                    !.lapsed = @ \/ (asked /\ (v.recovery[flow.s] # NoRecovery \/ Pursued(v, flow.s)))]
      ended == AttemptEnds(Free(removed, f), flow.rec, FALSE)
  IN IF ~flow.restores THEN {ended}
     ELSE RestoreNext(IF ended.recovery[flow.s] # NoRecovery THEN ended
                      ELSE [ended EXCEPT !.recovery[flow.s] = [attempt |-> "gateway", phase |-> "timer"]],
                      f, flow.todo)

\* Not live any more, refused, or a lost answer: then it stays a viewer.
Refused(f) ==
  /\ At(f) \in {"watch", "admitted"}
  /\ IF Calm /\ At(f) = "watch" /\ S(f) \notin watch.airs THEN NoFault ELSE Fails(f)
  /\ watch' \in WatchFails(IF At(f) = "admitted" /\ ~Broken(f) THEN Lapse(watch) ELSE watch, f)
  /\ UNCHANGED clicks

\* The entry that is set does not depend on whether it is still there.
Watching(v, f) ==
  LET s == v.flows[f].s
  IN Goes(SetEntry(v, s, IF v.room[s] = "mine" THEN "watching" ELSE "starting"), f, TRUE)

\* Mutant of Admitted: the answer does not ask whether it is still wanted.
AdmittedAnyway(f) ==
  /\ At(f) = "admitted"
  /\ Calm
  /\ LET s == S(f)
         again == watch.flows[f].again
         v == IF again THEN Lapse(watch) ELSE watch
         run == [Touch(v, s) EXCEPT !.run[s] = IF watch.sfu \/ again THEN "idle" ELSE "served",
                                    !.flows[f].sfu = watch.sfu, !.flows[f].own = TRUE]
     IN watch' \in IF watch.sfu /\ ~again THEN {[run EXCEPT !.flows[f].at = "consume"]}
                   ELSE Watching(run, f)
  /\ UNCHANGED <<faults, clicks>>

Admitted(f) ==
  /\ At(f) = "admitted"
  /\ Calm
  /\ LET s == S(f)
         again == watch.flows[f].again
         v == IF again THEN Lapse(watch) ELSE Cross(watch, f)
         run == [Touch(v, s) EXCEPT !.run[s] = IF watch.sfu \/ again THEN "idle" ELSE "served",
                                    !.flows[f].sfu = watch.sfu, !.flows[f].own = TRUE]
     IN watch' \in CASE s \in watch.cancelled ->
                          {[SendUnwatch(SetEntry(watch, s, "none"), s)
                             EXCEPT !.cancelled = @ \ {s}, !.flows[f].at = "cancel"]}
                     [] s \notin watch.cancelled /\ watch.sfu /\ ~again -> {[run EXCEPT !.flows[f].at = "consume"]}
                     [] s \notin watch.cancelled /\ (~watch.sfu \/ again) -> Watching(run, f)
  /\ UNCHANGED <<faults, clicks>>

Consumed(f) ==
  /\ At(f) = "consume"
  /\ Calm
  /\ LET v == Cross(watch, f)
     IN watch' \in Watching(IF v.run[S(f)] = "none" THEN v ELSE [v EXCEPT !.run[S(f)] = "served"], f)
  /\ UNCHANGED <<faults, clicks>>

\* The gateway is not told: it has this viewer still, and answers the next
\* stream.watch accordingly.
ConsumeFails(f) ==
  /\ At(f) = "consume"
  /\ Fails(f)
  /\ watch' \in WatchFails(Teardown(Cross(IF Broken(f) THEN watch ELSE Lapse(watch), f), S(f)), f)
  /\ UNCHANGED clicks

-----------------------------------------------------------------------------
(* unwatchStream, and the unwatch of a watch that was cancelled.           *)

\* The popup is closed.  Without an entry or a runtime nothing is cancelled.
Unwatch(s) ==
  /\ HasSlot
  /\ s \in watch.wanted
  /\ LET v == [watch EXCEPT !.wanted = @ \ {s},
                              !.lapsed = @ \/ Pursued(watch, s)]
     IN watch' = IF v.run[s] = "none" /\ v.entry[s] = "none"
                 THEN [v EXCEPT !.lapsed = @ \/ v.recovery[s] # NoRecovery]
                 ELSE Put([SendUnwatch(Drop1(ResolveRecovery(v, s), s), s) EXCEPT !.cancelled = @ \cup {s}], Slot,
                          [NoFlow EXCEPT !.at = "unwatch", !.s = s])
  /\ UNCHANGED <<faults, clicks>>

\* Answered, or not: best effort.
Unwatched(f) ==
  /\ At(f) \in {"unwatch", "cancel"}
  /\ Calm \/ Broken(f)
  /\ LET v == IF Broken(f) THEN watch ELSE Reconcile(watch)
     IN watch' \in IF At(f) = "unwatch" THEN {Free(v, f)} ELSE Goes(v, f, TRUE)
  /\ UNCHANGED <<faults, clicks>>

-----------------------------------------------------------------------------
(* The gateway connection and the events.                                  *)

Suspend(v, todo) ==
  [v EXCEPT !.lapsed = @ \/ Replaced(v),
            !.run = [s \in Stream |-> IF @[s] = "none" THEN "none" ELSE "idle"],
            !.entry = [s \in Stream |-> IF s \in todo THEN "reconnecting" ELSE @[s]],
            !.recovery = [s \in Stream |-> IF v.run[s] = "none" THEN @[s] ELSE NoRecovery],
            !.flows = [f \in Flow |-> [v.flows[f] EXCEPT !.own = FALSE,
                         !.rec = IF @ # NoStream /\ v.run[@] # "none" THEN NoStream ELSE @]]]

\* handleGatewayWillReconnect; without an entry it does nothing.
Drop ==
  /\ Calm
  /\ watch.link
  /\ Fault
  /\ LET v == [watch EXCEPT !.link = FALSE, !.viewing = {}]
     IN watch' = IF \A s \in Stream : v.entry[s] = "none" THEN v
                 ELSE Suspend(v, {s \in Stream : v.entry[s] \notin {"none", "ended"}})
  /\ UNCHANGED clicks

Reconnected ==
  /\ HasSlot
  /\ ~watch.link
  /\ watch' \in BeginRestore([watch EXCEPT !.link = TRUE], Slot)
  /\ UNCHANGED <<faults, clicks>>

\* media.mode.updated; the gateway emptied its rooms before.
ModeUpdated ==
  /\ HasSlot
  /\ watch.link
  /\ Fault
  /\ watch' \in BeginRestore([watch EXCEPT !.sfu = ~@, !.viewing = {}, !.airs = {}, !.over = @ \cup watch.airs,
                                         !.lapsed = @ \/ \E f \in Flow : At(f) = "admitted"], Slot)
  /\ UNCHANGED clicks

\* handleGatewayDisconnected, reset: the recoveries without a runtime stay, and
\* so does what a restore does next.
Disconnected ==
  /\ Calm
  /\ Fault
  /\ LET v == Suspend(watch, {})
     IN watch' = [v EXCEPT !.link = FALSE, !.viewing = {}, !.wanted = {}, !.cancelled = {},
                    !.run = [s \in Stream |-> "none"], !.entry = [s \in Stream |-> "none"],
                    !.room = [s \in Stream |-> "none"],
                    !.lapsed = \/ @ \/ \E s \in Stream : v.recovery[s] # NoRecovery
                               \/ \E f \in Flow : v.flows[f].todo # {}]
  /\ UNCHANGED clicks

\* The host starts or stops a stream, and every member of the channel is told.
Broadcast ==
  /\ Calm
  /\ watch.link
  /\ \E s \in Stream \ watch.over :
       IF s \in watch.airs
       THEN watch' = Reconcile([watch EXCEPT !.airs = @ \ {s}, !.over = @ \cup {s}, !.viewing = @ \ {s},
               !.lapsed = @ \/ \E f \in Flow : S(f) = s /\ At(f) \in {"admitted", "consume"}])
       ELSE watch' = Reconcile([watch EXCEPT !.airs = @ \cup {s}])
  /\ Fault
  /\ UNCHANGED clicks

-----------------------------------------------------------------------------
(* The recovery of the transport.                                          *)

\* beginWatchedMediaRecovery: the timers of a connection, a producer that cannot
\* be consumed, or the broadcaster has refreshed its session.
ConnectionFails(s) ==
  /\ HasSlot
  /\ watch.run[s] = "served"
  /\ Fault
  /\ watch' = StartRecovery(UpdateEntry(watch, s, "reconnecting"), s, "media", Slot)
  /\ UNCHANGED clicks

Reconnect(f) ==
  /\ At(f) = "reconnect"
  /\ Calm
  /\ S(f) \in watch.viewing
  /\ LET v == Cross(watch, f)
         run == IF v.run[S(f)] = "none" THEN v
                ELSE [UpdateEntry(v, S(f), "reconnecting")
                        EXCEPT !.run[S(f)] = IF v.sfu THEN "idle" ELSE "served"]
     IN watch' = [run EXCEPT !.flows[f].at = "rebuild", !.flows[f].sfu = v.sfu, !.flows[f].own = v.flows[f].own]
  /\ UNCHANGED <<faults, clicks>>

Rebuilt(f) ==
  /\ At(f) = "rebuild"
  /\ Calm
  /\ LET v == Cross(watch, f)
         run == IF v.run[S(f)] = "none" THEN v ELSE [v EXCEPT !.run[S(f)] = "served"]
     IN watch' \in Goes(UpdateEntry(run, S(f), "watching"), f, TRUE)
  /\ UNCHANGED <<faults, clicks>>

RecoveryFails(f) ==
  /\ At(f) \in {"reconnect", "rebuild"}
  /\ IF Calm /\ At(f) = "reconnect" /\ S(f) \notin watch.viewing THEN NoFault ELSE Fails(f)
  /\ watch' \in Goes(watch, f, FALSE)
  /\ UNCHANGED clicks

\* The timer of a recovery, or retryMediaRecoveryNow.
Retry(s) ==
  /\ HasSlot
  /\ watch.recovery[s].phase = "timer"
  /\ watch' = RunRecovery(watch, s, Slot)
  /\ UNCHANGED <<faults, clicks>>

\* abandonAllMediaRecovery: the gateway is not told, and neither is a restore under way.
Abandon ==
  /\ Calm
  /\ \E s \in Stream : watch.recovery[s].phase = "timer"
  /\ Fault
  /\ LET given == {s \in Stream : watch.recovery[s] # NoRecovery}
     IN watch' = [watch EXCEPT
          !.recovery = [s \in Stream |-> NoRecovery],
          !.run = [s \in Stream |-> IF s \in given THEN "none" ELSE @[s]],
          !.entry = [s \in Stream |-> IF s \in given THEN "none" ELSE @[s]],
          !.wanted = @ \ given,
          !.flows = [f \in Flow |-> [watch.flows[f] EXCEPT !.rec = NoStream,
                                                           !.own = @ /\ watch.flows[f].s \notin given]],
          !.lapsed = \/ @ \/ watch.viewing \cap given # {}
                     \/ \E s \in given : Pursued(watch, s)]
  /\ UNCHANGED clicks

-----------------------------------------------------------------------------

Next ==
  \/ Drop \/ Reconnected \/ ModeUpdated \/ Disconnected \/ Broadcast \/ Abandon
  \/ \E s \in Stream : Watch(s) \/ Unwatch(s) \/ ConnectionFails(s) \/ Retry(s)
  \/ \E f \in Flow :
       \/ Admit(f) \/ Refused(f) \/ Admitted(f) \/ Consumed(f) \/ ConsumeFails(f)
       \/ Unwatched(f) \/ Reconnect(f) \/ Rebuilt(f) \/ RecoveryFails(f)

Spec == Init /\ [][Next]_watchVars

-----------------------------------------------------------------------------
(* Properties.                                                             *)

\* A function that has not crossed with another.
Settled ==
  /\ ~watch.lapsed
  /\ watch.link
  /\ \A f \in Flow : At(f) = "none"
  /\ \A s \in Stream : watch.recovery[s] = NoRecovery

\* When nothing is under way or waits to be retried, the stream shown as watched
\* is received, the gateway counts this client among its viewers, and nothing
\* else is received.
WatchedIsServed ==
  Settled => \A s \in Stream :
    /\ watch.entry[s] \in {"none", "watching", "ended"}
    /\ watch.run[s] = IF watch.entry[s] = "watching" THEN "served" ELSE "none"
    /\ (s \in watch.viewing) = (watch.entry[s] = "watching")

\* A stream the user closed is not watched again, however the closing met the
\* answer to the request that opened it, a restore or a retry; a retry may be
\* about to replace a stream that is wanted by the one its host streams now.
ClosedStaysClosed ==
  ~watch.lapsed => \A s \in Stream \ watch.wanted :
    \/ watch.entry[s] \in {"none", "ended"} /\ watch.run[s] = "none"
    \/ \E f \in Flow : S(f) = s /\ watch.flows[f].rec \in watch.wanted
=============================================================================
